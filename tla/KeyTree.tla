------------------------------- MODULE KeyTree -------------------------------
(***************************************************************************)
(* src/binarysearchtree.c: keys, each in memory of its own, go into a tree *)
(* of the C library; the tree is walked, the last key is found and         *)
(* deleted, the tree walked again and destroyed.  The tree keeps pointers  *)
(* to the keys and is here the set of them; a pointer is the index of its  *)
(* key.                                                                    *)
(***************************************************************************)
EXTENDS Integers, Sequences, SequencesExt

dummy == <<179, 102, 220, 124, 214, 40, 16, 12, 70, 161, 35>>

Pointers == 1..Len(dummy)

VARIABLES treepc,    \* "insert", "search", "out", "exited" or "crashed"
          keyno,     \* the key to insert next
          root,      \* the pointers in the tree
          allocated, \* the pointers malloc returned
          freed,     \* how often each was freed
          walks      \* the keys each walk has printed

treeVars == <<treepc, keyno, root, allocated, freed, walks>>

TreeInit ==
    /\ treepc = "insert" /\ keyno = 1 /\ root = {} /\ allocated = {}
    /\ freed = [p \in Pointers |-> 0] /\ walks = <<>>

compare_Pointers(p, q) == p - q
compare(p, q) == dummy[p] - dummy[q]

Matches(p) == {q \in root : compare(p, q) = 0}

\* The tree is balanced anew as it grows; a walk prints it from left to right.
Walk(pointers) ==
    [k \in 1..Cardinality(pointers) |->
        dummy[CHOOSE p \in pointers :
                Cardinality({q \in pointers : compare(q, p) < 0}) = k - 1]]

-----------------------------------------------------------------------------
\* goto out: what is in the tree is destroyed.
MallocFails ==
    /\ treepc = "insert" /\ treepc' = "out"
    /\ UNCHANGED <<keyno, root, allocated, freed, walks>>

\* tsearch adds the key if there is none that matches, or goes out.
Insert ==
    /\ treepc = "insert"
    /\ allocated' = allocated \union {keyno}
    /\ IF Matches(keyno) = {} THEN /\ root' = root \union {keyno} /\ keyno' = keyno + 1
                               /\ treepc' = IF keyno = Len(dummy) THEN "search" ELSE "insert"
                          ELSE treepc' = "out" /\ UNCHANGED <<root, keyno>>
    /\ UNCHANGED <<freed, walks>>

\* tsearch has no memory for its node and returns NULL, which is followed.
InsertCrashes ==
    /\ treepc = "insert" /\ Matches(keyno) = {}
    /\ allocated' = allocated \union {keyno} /\ treepc' = "crashed"
    /\ UNCHANGED <<keyno, root, freed, walks>>

\* The pointer to the deleted key is lost with its node.
Search ==
    /\ treepc = "search" /\ treepc' = "out"
    /\ root' = root \ Matches(Len(dummy))
    /\ walks' = IF Matches(Len(dummy)) = {} THEN <<Walk(root)>>
                ELSE <<Walk(root), Walk(root')>>
    /\ UNCHANGED <<keyno, allocated, freed>>

freenode(p) == IF p \in root THEN freed[p] + 1 ELSE freed[p]

\* tdestroy calls freenode for each key of the tree.
Destroy ==
    /\ treepc = "out" /\ treepc' = "exited"
    /\ freed' = [p \in Pointers |-> freenode(p)]
    /\ root' = {}
    /\ UNCHANGED <<keyno, allocated, walks>>

TreeNext == MallocFails \/ Insert \/ InsertCrashes \/ Search \/ Destroy

TreeSpec == TreeInit /\ [][TreeNext]_treeVars

-----------------------------------------------------------------------------
\* The output the file shows: the first walk prints every key in ascending
\* order, the second all but the deleted one; and at exit, after whatever
\* failure, every key in memory was freed once, but for the deleted one.
KeysAccounted ==
    treepc = "exited" =>
        /\ \A p \in allocated :
             freed[p] = IF walks # <<>> /\ p = Len(dummy) THEN 0 ELSE 1
        /\ walks # <<>> =>
             /\ Len(walks) = 2
             /\ ToSet(walks[1]) = ToSet(dummy)
             /\ ToSet(walks[2]) = ToSet(dummy) \ {dummy[Len(dummy)]}
             /\ \A w \in ToSet(walks) : \A j, k \in DOMAIN w : j < k => w[j] < w[k]
=============================================================================
