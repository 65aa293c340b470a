----------------------------- MODULE FifoProofs -----------------------------
(***************************************************************************)
(* Proofs about Fifo, for any number of runs and whatever their options    *)
(* ask for.  A single run of a kind is safe because open does not return   *)
(* before both ends are there: who it has met has still to write, or has   *)
(* written what is still in the fifo (ReaderMet), or has still to read     *)
(* (WriterMet).  The name has its user because a fifo that lost the name   *)
(* never gets it back (Fresh): a writer that dies of SIGPIPE while its     *)
(* fifo has the name has met a reader that is still to remove it           *)
(* (MetByReader).                                                          *)
(***************************************************************************)
EXTENDS Fifo, FiniteSetTheorems, TLAPS

Ahead == {"mkfifo", "open", "opening", "opened"}

\* A run that only prints the usage has no other step, and a run that has not
\* read yet has nothing.
Progress ==
    /\ \A p \in Procs : option[p] = "h" => fpc[p] = "failed"
    /\ \A p \in Procs : fpc[p] \in Ahead => got[p] = "-"

\* A single reader past its open: the fifo holds a message, or a writer of it
\* has still to write.
ReaderMet ==
    \A r \in Procs : Readers = {r} /\ ~SomeKilled =>
        /\ \A w \in Writers : fpc[w] \in {"opened", "close"} => fpc[r] \notin {"mkfifo", "open"}
        /\ fpc[r] = "opened" =>
               pipe[end[r]] > 0 \/ \E w \in Writers : end[w] = end[r] /\ fpc[w] = "opened"
        /\ got[r] # "nothing"

\* A single writer before its write: nothing was written, and a reader of its
\* fifo has still to read.
WriterMet ==
    \A w \in Procs : Writers = {w} /\ ~SomeKilled =>
        /\ \A r \in Readers : fpc[r] \in {"opened", "close"} => fpc[w] \notin {"mkfifo", "open"}
        /\ fpc[w] \in Ahead => \A f \in Fifos : pipe[f] = 0
        /\ fpc[w] = "opened" => \E r \in Readers : end[r] = end[w] /\ fpc[r] = "opened"
        /\ fpc[w] # "sigpipe"

\* The fifo a run may make is not there before it does.
Fresh ==
    \A p \in Procs : fpc[p] = "mkfifo" => name # p /\ \A q \in Procs : end[q] # p

\* A writer past its open, at the fifo that has the name, has met a reader
\* that has not removed the name.
MetByReader ==
    ~SomeKilled => \A w \in Writers : fpc[w] = "opened" /\ end[w] = name =>
        \E r \in Readers : \/ end[r] = name /\ fpc[r] \in {"opened", "close"}
                          \/ fpc[r] = "unlink"

FifoInv == FifoTypeOK /\ Progress /\ ReaderMet /\ WriterMet

NameInv == Fresh /\ MetByReader /\ NameHasItsUser

-----------------------------------------------------------------------------
\* A set of runs is finite.
LEMMA RunsAreFinite ==
    ASSUME NEW S, S \subseteq Procs
    PROVE  IsFiniteSet(S) /\ Cardinality(S) \in Nat
<1>1. IsFiniteSet(S)
  BY FS_Subset, FifoAssumption
<1> QED  BY <1>1, FS_CardinalityType

\* An end that is shut: its fifo keeps what is in it while another end is open.
LEMMA ShutKeeps ==
    ASSUME FifoTypeOK, NEW p \in Procs, end[p] # None, Shut(p)
    PROVE  /\ end' = [end EXCEPT ![p] = None]
           /\ pipe' \in [Fifos -> Nat]
           /\ \A f \in Fifos : pipe'[f] <= pipe[f]
           /\ \A f \in Fifos : At(f, Procs)' = {} => pipe'[f] = 0
           /\ \A q \in Procs : q # p /\ end[q] = end[p] => pipe' = pipe
           /\ \A f \in Fifos : f # end[p] => pipe'[f] = pipe[f]
<1>1. end[p] \in Fifos /\ None \notin Fifos
  BY FifoAssumption DEF FifoTypeOK, Fifos
<1>2. end' = [end EXCEPT ![p] = None]
  BY DEF Shut
<1>3. CASE At(end[p], Procs) = {p}
  <2>1. pipe' = [pipe EXCEPT ![end[p]] = 0]
    BY <1>3 DEF Shut
  <2>2. \A q \in Procs : q # p => end[q] # end[p]
    BY <1>3 DEF At
  <2>3. ASSUME NEW f \in Fifos, At(f, Procs)' = {} PROVE pipe'[f] = 0
    <3>1. CASE f = end[p]
      BY <2>1, <3>1 DEF FifoTypeOK
    <3>2. CASE f # end[p]
      <4>1. At(f, Procs) = {}
        BY <1>1, <1>2, <2>3, <3>2 DEF At, FifoTypeOK
      <4> QED  BY <2>1, <3>2, <4>1 DEF FifoTypeOK
    <3> QED  BY <3>1, <3>2
  <2> QED  BY <1>1, <1>2, <2>1, <2>2, <2>3 DEF FifoTypeOK
<1>4. CASE At(end[p], Procs) # {p}
  <2>1. pipe' = pipe
    BY <1>4 DEF Shut
  <2>2. PICK q \in Procs : q # p /\ end[q] = end[p]
    BY <1>4 DEF At
  <2>3. ASSUME NEW f \in Fifos, At(f, Procs)' = {} PROVE pipe'[f] = 0
    <3>1. end'[q] = end[q]
      BY <1>2, <2>2 DEF FifoTypeOK
    <3>2. f # end[p]
      BY <2>2, <2>3, <3>1 DEF At
    <3>3. At(f, Procs) = {}
      BY <1>1, <1>2, <2>3, <3>2 DEF At, FifoTypeOK
    <3> QED  BY <2>1, <3>3 DEF FifoTypeOK
  <2> QED  BY <1>2, <2>1, <2>3 DEF FifoTypeOK
<1> QED  BY <1>3, <1>4

-----------------------------------------------------------------------------
LEMMA InitFifoInv == FifoInit => FifoInv
<1> SUFFICES ASSUME FifoInit PROVE FifoInv
  OBVIOUS
<1>1. FifoTypeOK
  BY FifoAssumption DEF FifoInit, FifoTypeOK, Fifos, At, Over
<1>2. Progress
  BY DEF FifoInit, Progress
<1> DEFINE start == \A p \in Procs : fpc[p] \in {"mkfifo", "failed"} /\ got[p] = "-"
<1>6. start /\ Writers \subseteq Procs /\ Readers \subseteq Procs
  BY DEF FifoInit, Writers, Readers
<1>3. ReaderMet
  BY <1>6 DEF ReaderMet
<1>4. WriterMet
  <2>1. \A f \in Fifos : pipe[f] = 0
    BY DEF FifoInit
  <2> QED  BY <1>6, <2>1 DEF WriterMet
<1> QED  BY <1>1, <1>2, <1>3, <1>4 DEF FifoInv

\* A step of one run that neither takes nor adds a message and does not leave
\* a fifo: its name was made, or is not there, or is removed.
LEMMA NameStep ==
    ASSUME FifoInv, NEW p \in Procs, Mkfifo(p) \/ NameGone(p) \/ Unlink(p)
    PROVE  FifoInv'
<1> USE DEF Go
<1>1. FifoTypeOK'
  BY FifoAssumption DEF FifoInv, FifoTypeOK, Mkfifo, NameGone, Unlink, Removed, Fifos, At, Over
<1>2. Progress'
  BY DEF FifoInv, FifoTypeOK, Progress, Mkfifo, NameGone, Unlink, Ahead
<1>3. ReaderMet'
  BY DEF FifoInv, FifoTypeOK, ReaderMet, Mkfifo, NameGone, Unlink, Readers, Writers, SomeKilled
<1>4. WriterMet'
  BY DEF FifoInv, FifoTypeOK, WriterMet, Mkfifo, NameGone, Unlink, Readers, Writers, SomeKilled, Ahead
<1> QED  BY <1>1, <1>2, <1>3, <1>4 DEF FifoInv

LEMMA OpenStep == ASSUME FifoInv, NEW p \in Procs, Open(p) PROVE FifoInv'
<1> DEFINE peers == At(name, Others(p))
<1>1. /\ fpc[p] = "open" /\ name \in Fifos /\ end[p] = None
      /\ end' = [end EXCEPT ![p] = name] /\ UNCHANGED <<option, name, pipe, got>>
  BY DEF Open, FifoInv, FifoTypeOK
<1>2. /\ fpc' \in [Procs -> {"mkfifo", "open", "opening", "opened", "close", "unlink"} \union Over]
      /\ fpc'[p] = IF peers # {} THEN "opened" ELSE "opening"
      /\ \A q \in Procs : q # p =>
           fpc'[q] = IF q \in peers /\ fpc[q] = "opening" THEN "opened" ELSE fpc[q]
  BY <1>1 DEF Open, Met, FifoInv, FifoTypeOK
<1>3. peers = {q \in Others(p) : end[q] = name}
  BY DEF At
<1>4. Readers' = Readers /\ Writers' = Writers /\ p \in Readers \union Writers
  BY <1>1 DEF Readers, Writers, FifoInv, FifoTypeOK, Progress
<1>5. Others(p) = (IF p \in Readers THEN Writers ELSE Readers) /\ Readers \intersect Writers = {}
  BY DEF Others, Readers, Writers
<1> HIDE DEF peers
<1>6. None \notin Fifos /\ \A q \in Procs : q \in peers => q # p /\ end[q] = name
  BY <1>1, <1>3, <1>5, FifoAssumption DEF Fifos
<1>7. FifoTypeOK'
  <2>1. \A f \in Fifos : At(f, Procs)' = {} => At(f, Procs) = {}
    BY <1>1, <1>6 DEF At, FifoInv, FifoTypeOK
  <2>2. \A q \in Procs : end'[q] # None <=> fpc'[q] \in {"opening", "opened", "close"}
    BY <1>1, <1>2, <1>6 DEF FifoInv, FifoTypeOK
  <2> QED  BY <1>1, <1>2, <2>1, <2>2 DEF FifoInv, FifoTypeOK
<1>8. Progress'
  BY <1>1, <1>2 DEF FifoInv, Progress, FifoTypeOK, Ahead, Over
<1>9. SomeKilled' = SomeKilled
  BY <1>1, <1>2 DEF SomeKilled
<1>10. ReaderMet'
  <2> SUFFICES ASSUME NEW r \in Procs, Readers = {r}, ~SomeKilled PROVE
        /\ \A w \in Writers : fpc'[w] \in {"opened", "close"} => fpc'[r] \notin {"mkfifo", "open"}
        /\ fpc'[r] = "opened" =>
               pipe[end'[r]] > 0 \/ \E w \in Writers : end'[w] = end'[r] /\ fpc'[w] = "opened"
        /\ got[r] # "nothing"
    BY <1>1, <1>4, <1>9 DEF ReaderMet
  <2>1. /\ \A w \in Writers : fpc[w] \in {"opened", "close"} => fpc[r] \notin {"mkfifo", "open"}
        /\ fpc[r] = "opened" =>
               pipe[end[r]] > 0 \/ \E w \in Writers : end[w] = end[r] /\ fpc[w] = "opened"
        /\ got[r] # "nothing"
    BY DEF FifoInv, ReaderMet
  <2>2. CASE p = r
    <3>1. \A w \in peers : w \in Writers /\ fpc[w] = "opening" /\ w # p /\ end[w] = name
      BY <1>1, <1>3, <1>5, <1>6, <2>1, <2>2 DEF FifoInv, FifoTypeOK, Writers
    <3>2. \A w \in peers : fpc'[w] = "opened" /\ end'[w] = end'[r]
      BY <1>1, <1>2, <2>2, <3>1 DEF FifoInv, FifoTypeOK, Writers
    <3> QED  BY <1>1, <1>2, <2>1, <2>2, <3>1, <3>2
  <2>3. CASE p # r
    <3>1. p \in Writers /\ peers \subseteq {r} /\ Writers \subseteq Procs
      BY <1>3, <1>4, <1>5, <2>3 DEF Writers
    <3>2. \A w \in Writers : w # p => fpc'[w] = fpc[w] /\ end'[w] = end[w]
      BY <1>1, <1>2, <1>5, <3>1 DEF FifoInv, FifoTypeOK
    <3>3. end'[r] = end[r] /\ end'[p] = name
      BY <1>1, <2>3 DEF FifoInv, FifoTypeOK
    <3>4. fpc[r] \notin {"mkfifo", "open"} => fpc'[r] \notin {"mkfifo", "open"}
      BY <1>2, <2>3
    <3>5. CASE r \in peers
      <4>1. fpc[r] \in {"opening", "opened", "close"} /\ end[r] = name
        BY <1>1, <1>6, <3>5 DEF FifoInv, FifoTypeOK
      <4>2. fpc'[p] = "opened"
        BY <1>2, <3>5
      <4> QED  BY <1>2, <2>1, <2>3, <3>1, <3>2, <3>3, <3>4, <4>1, <4>2
    <3>6. CASE r \notin peers
      <4>1. fpc'[p] = "opening" /\ fpc'[r] = fpc[r]
        BY <1>2, <2>3, <3>1, <3>6
      <4> QED  BY <1>1, <2>1, <3>1, <3>2, <3>3, <4>1
    <3> QED  BY <3>5, <3>6
  <2> QED  BY <2>2, <2>3
<1>11. WriterMet'
  <2> SUFFICES ASSUME NEW w \in Procs, Writers = {w}, ~SomeKilled PROVE
        /\ \A r \in Readers : fpc'[r] \in {"opened", "close"} => fpc'[w] \notin {"mkfifo", "open"}
        /\ fpc'[w] \in Ahead => \A f \in Fifos : pipe[f] = 0
        /\ fpc'[w] = "opened" => \E r \in Readers : end'[r] = end'[w] /\ fpc'[r] = "opened"
        /\ fpc'[w] # "sigpipe"
    BY <1>1, <1>4, <1>9 DEF WriterMet
  <2>1. /\ \A r \in Readers : fpc[r] \in {"opened", "close"} => fpc[w] \notin {"mkfifo", "open"}
        /\ fpc[w] \in Ahead => \A f \in Fifos : pipe[f] = 0
        /\ fpc[w] = "opened" => \E r \in Readers : end[r] = end[w] /\ fpc[r] = "opened"
        /\ fpc[w] # "sigpipe"
    BY DEF FifoInv, WriterMet
  <2>2. CASE p = w
    <3>1. \A r \in peers : r \in Readers /\ fpc[r] = "opening" /\ r # p /\ end[r] = name
      BY <1>1, <1>3, <1>5, <1>6, <2>1, <2>2 DEF FifoInv, FifoTypeOK, Readers
    <3>2. \A r \in peers : fpc'[r] = "opened" /\ end'[r] = end'[w]
      BY <1>1, <1>2, <2>2, <3>1 DEF FifoInv, FifoTypeOK, Readers
    <3> QED  BY <1>1, <1>2, <2>1, <2>2, <3>1, <3>2 DEF Ahead
  <2>3. CASE p # w
    <3>1. p \in Readers /\ peers \subseteq {w} /\ Readers \subseteq Procs
      BY <1>3, <1>4, <1>5, <2>3 DEF Readers
    <3>2. \A r \in Readers : r # p => fpc'[r] = fpc[r] /\ end'[r] = end[r]
      BY <1>1, <1>2, <1>5, <3>1 DEF FifoInv, FifoTypeOK
    <3>3. end'[w] = end[w] /\ end'[p] = name
      BY <1>1, <2>3 DEF FifoInv, FifoTypeOK
    <3>4. CASE w \in peers
      <4>1. fpc[w] \in {"opening", "opened", "close"} /\ end[w] = name
        BY <1>1, <1>6, <3>4 DEF FifoInv, FifoTypeOK
      <4>2. fpc'[p] = "opened" /\ fpc'[w] = IF fpc[w] = "opening" THEN "opened" ELSE fpc[w]
        BY <1>2, <2>3, <3>4
      <4> QED  BY <2>1, <3>1, <3>2, <3>3, <4>1, <4>2 DEF Ahead
    <3>5. CASE w \notin peers
      <4>1. fpc'[p] = "opening" /\ fpc'[w] = fpc[w]
        BY <1>2, <2>3, <3>1, <3>5
      <4> QED  BY <1>1, <2>1, <3>1, <3>2, <3>3, <4>1
    <3> QED  BY <3>4, <3>5
  <2> QED  BY <2>2, <2>3
<1> QED  BY <1>7, <1>8, <1>10, <1>11 DEF FifoInv

\* A read takes one message, which is one more taken and one fewer in a fifo.
LEMMA ReadStep == ASSUME FifoInv, NEW r \in Readers, Read(r) PROVE FifoInv'
<1>1. /\ r \in Procs /\ option[r] = "r" /\ fpc[r] = "opened" /\ end[r] \in Fifos
      /\ fpc' = [fpc EXCEPT ![r] = "close"] /\ UNCHANGED <<option, name, end>>
      /\ got[r] = "-"
  BY DEF Read, Go, Readers, FifoInv, FifoTypeOK, Progress, Ahead
<1>2. Readers' = Readers /\ Writers' = Writers /\ SomeKilled' = SomeKilled /\ r \notin Writers
  BY <1>1 DEF Readers, Writers, SomeKilled, FifoInv, FifoTypeOK
<1>3. /\ fpc' \in [Procs -> {"mkfifo", "open", "opening", "opened", "close", "unlink"} \union Over]
      /\ fpc'[r] = "close" /\ \A q \in Procs : q # r => fpc'[q] = fpc[q]
  BY <1>1 DEF FifoInv, FifoTypeOK
<1>4. /\ \A q \in Procs : end[q] # None <=> fpc'[q] \in {"opening", "opened", "close"}
      /\ \A f \in Fifos : At(f, Procs)' = At(f, Procs)
  BY <1>1, <1>3 DEF FifoInv, FifoTypeOK, At
<1>5. CASE /\ pipe[end[r]] > 0 /\ got' = [got EXCEPT ![r] = "message"]
           /\ pipe' = [pipe EXCEPT ![end[r]] = @ - 1]
  <2>1. pipe' \in [Fifos -> Nat] /\ \A f \in Fifos : pipe'[f] <= pipe[f]
    BY <1>1, <1>5 DEF FifoInv, FifoTypeOK
  <2>2. FifoTypeOK'
    <3>1. \A f \in Fifos : At(f, Procs) = {} => pipe'[f] = 0
      BY <2>1 DEF FifoInv, FifoTypeOK
    <3>2. got' \in [Procs -> {"-", "message", "nothing"}]
      BY <1>5 DEF FifoInv, FifoTypeOK
    <3> QED  BY <1>1, <1>3, <1>4, <2>1, <3>1, <3>2 DEF FifoInv, FifoTypeOK
  <2>3. Progress'
    BY <1>1, <1>3, <1>5 DEF FifoInv, Progress, FifoTypeOK, Ahead, Over
  <2>4. ReaderMet'
    <3> SUFFICES ASSUME NEW q \in Procs, Readers = {q}, ~SomeKilled
                 PROVE  /\ fpc'[q] \notin {"mkfifo", "open", "opened"}
                        /\ got'[q] # "nothing"
      BY <1>1, <1>2 DEF ReaderMet
    <3>1. q = r
      OBVIOUS
    <3> QED  BY <1>3, <1>5, <3>1 DEF FifoInv, FifoTypeOK
  <2>5. WriterMet'
    <3> SUFFICES ASSUME NEW w \in Procs, Writers = {w}, ~SomeKilled
                 PROVE  fpc'[w] \notin Ahead /\ fpc'[w] # "sigpipe"
      BY <1>1, <1>2 DEF WriterMet, Ahead
    <3> QED  BY <1>1, <1>2, <1>3, <1>5 DEF FifoInv, WriterMet
  <2> QED  BY <2>2, <2>3, <2>4, <2>5 DEF FifoInv
<1>6. CASE /\ pipe[end[r]] = 0 /\ At(end[r], Writers) = {}
           /\ got' = [got EXCEPT ![r] = "nothing"] /\ UNCHANGED pipe
  <2>1. \A w \in Writers : end[w] # end[r]
    BY <1>6 DEF At
  <2>2. FifoTypeOK'
    BY <1>1, <1>3, <1>4, <1>6 DEF FifoInv, FifoTypeOK
  <2>3. Progress'
    BY <1>1, <1>3, <1>6 DEF FifoInv, Progress, FifoTypeOK, Ahead, Over
  <2>4. ReaderMet'
    <3> SUFFICES ASSUME NEW q \in Procs, Readers = {q}, ~SomeKilled PROVE FALSE
      BY <1>2 DEF ReaderMet
    <3>1. q = r
      OBVIOUS
    <3> QED  BY <1>1, <1>6, <2>1, <3>1 DEF FifoInv, ReaderMet
  <2>5. WriterMet'
    <3> SUFFICES ASSUME NEW w \in Procs, Writers = {w}, ~SomeKilled
                 PROVE  /\ \A q \in Readers :
                             fpc'[q] \in {"opened", "close"} => fpc'[w] \notin {"mkfifo", "open"}
                        /\ fpc'[w] \in Ahead => \A f \in Fifos : pipe[f] = 0
                        /\ fpc'[w] = "opened" =>
                             \E q \in Readers : end[q] = end[w] /\ fpc'[q] = "opened"
                        /\ fpc'[w] # "sigpipe"
      BY <1>1, <1>2, <1>6 DEF WriterMet
    <3>1. /\ \A q \in Readers : fpc[q] \in {"opened", "close"} => fpc[w] \notin {"mkfifo", "open"}
          /\ fpc[w] \in Ahead => \A f \in Fifos : pipe[f] = 0
          /\ fpc[w] = "opened" => \E q \in Readers : end[q] = end[w] /\ fpc[q] = "opened"
          /\ fpc[w] # "sigpipe"
      BY DEF FifoInv, WriterMet
    <3>2. fpc'[w] = fpc[w]
      BY <1>2, <1>3
    <3>3. \A q \in Readers : q \in Procs
      BY DEF Readers
    <3>4. end[w] # end[r]
      BY <2>1
    <3> QED  BY <1>1, <1>3, <3>1, <3>2, <3>3, <3>4
  <2> QED  BY <2>2, <2>3, <2>4, <2>5 DEF FifoInv
<1> QED  BY <1>1, <1>5, <1>6 DEF Read

\* A write adds one message, and who wrote it is one more.
LEMMA WriteStep == ASSUME FifoInv, NEW w \in Writers, Write(w) PROVE FifoInv'
<1>1. /\ w \in Procs /\ option[w] = "w" /\ fpc[w] = "opened" /\ end[w] \in Fifos
      /\ fpc' = [fpc EXCEPT ![w] = "close"] /\ UNCHANGED <<option, name, end, got>>
      /\ pipe' = [pipe EXCEPT ![end[w]] = @ + 1]
  BY DEF Write, Go, Writers, FifoInv, FifoTypeOK
<1>2. Readers' = Readers /\ Writers' = Writers /\ SomeKilled' = SomeKilled /\ w \notin Readers
  BY <1>1 DEF Readers, Writers, SomeKilled, FifoInv, FifoTypeOK
<1>3. /\ fpc' \in [Procs -> {"mkfifo", "open", "opening", "opened", "close", "unlink"} \union Over]
      /\ fpc'[w] = "close" /\ \A q \in Procs : q # w => fpc'[q] = fpc[q]
  BY <1>1 DEF FifoInv, FifoTypeOK
<1>4. /\ pipe' \in [Fifos -> Nat] /\ pipe'[end[w]] = pipe[end[w]] + 1
      /\ \A f \in Fifos : f # end[w] => pipe'[f] = pipe[f]
  BY <1>1 DEF FifoInv, FifoTypeOK
<1>5. FifoTypeOK'
  <2>1. \A q \in Procs : end[q] # None <=> fpc'[q] \in {"opening", "opened", "close"}
    BY <1>1, <1>3 DEF FifoInv, FifoTypeOK
  <2>2. \A f \in Fifos : At(f, Procs) = {} => pipe'[f] = 0
    BY <1>1, <1>4 DEF FifoInv, FifoTypeOK, At
  <2>3. \A f \in Fifos : At(f, Procs)' = At(f, Procs)
    BY <1>1 DEF At
  <2> QED  BY <1>1, <1>3, <1>4, <2>1, <2>2, <2>3 DEF FifoInv, FifoTypeOK
<1>6. Progress'
  BY <1>1, <1>3 DEF FifoInv, Progress, Ahead, Over
<1>7. ReaderMet'
  <2> SUFFICES ASSUME NEW r \in Procs, Readers = {r}, ~SomeKilled PROVE
        /\ \A q \in Writers : fpc'[q] \in {"opened", "close"} => fpc[r] \notin {"mkfifo", "open"}
        /\ fpc[r] = "opened" =>
               pipe'[end[r]] > 0 \/ \E q \in Writers : end[q] = end[r] /\ fpc'[q] = "opened"
        /\ got[r] # "nothing"
    <3>1. \A r \in Readers : r \in Procs /\ fpc'[r] = fpc[r]
      BY <1>2, <1>3 DEF Readers
    <3> QED  BY <1>1, <1>2, <3>1 DEF ReaderMet
  <2>1. /\ \A q \in Writers : fpc[q] \in {"opened", "close"} => fpc[r] \notin {"mkfifo", "open"}
        /\ fpc[r] = "opened" =>
               pipe[end[r]] > 0 \/ \E q \in Writers : end[q] = end[r] /\ fpc[q] = "opened"
        /\ got[r] # "nothing"
    BY DEF FifoInv, ReaderMet
  <2>2. \A q \in Writers : q \in Procs
    BY DEF Writers
  <2>3. fpc[r] = "opened" => end[r] \in Fifos
    BY DEF FifoInv, FifoTypeOK
  <2>4. pipe \in [Fifos -> Nat]
    BY DEF FifoInv, FifoTypeOK
  <2> QED  BY <1>1, <1>3, <1>4, <2>1, <2>2, <2>3, <2>4
<1>8. WriterMet'
  <2> SUFFICES ASSUME NEW q \in Procs, Writers = {q}, ~SomeKilled
               PROVE  fpc'[q] \notin {"mkfifo", "open", "opening", "opened", "sigpipe"}
    BY <1>2 DEF WriterMet, Ahead
  <2>1. q = w
    OBVIOUS
  <2> QED  BY <1>3, <2>1
<1> QED  BY <1>5, <1>6, <1>7, <1>8 DEF FifoInv

\* A run that shuts its end: by close, by its death, or by a broken pipe.
LEMMA LeaveKeeps ==
    ASSUME FifoInv, NEW p \in Procs, end[p] # None, Shut(p), UNCHANGED <<option, name, got>>,
           NEW to \in {"unlink", "sigpipe", "killed"}, fpc' = [fpc EXCEPT ![p] = to],
           option[p] # "h"
    PROVE  FifoTypeOK' /\ Progress'
<1> USE DEF FifoInv
<1>1. /\ end' = [end EXCEPT ![p] = None]
      /\ pipe' \in [Fifos -> Nat]
      /\ \A f \in Fifos : pipe'[f] <= pipe[f]
      /\ \A f \in Fifos : At(f, Procs)' = {} => pipe'[f] = 0
  BY ShutKeeps
<1>2. /\ fpc' \in [Procs -> {"mkfifo", "open", "opening", "opened", "close", "unlink"} \union Over]
      /\ fpc'[p] = to /\ \A q \in Procs : q # p => fpc'[q] = fpc[q]
  BY DEF FifoTypeOK, Over
<1>3. FifoTypeOK'
  <2>1. \A q \in Procs : end'[q] # None <=> fpc'[q] \in {"opening", "opened", "close"}
    BY <1>1, <1>2 DEF FifoTypeOK
  <2> QED  BY <1>1, <1>2, <2>1 DEF FifoTypeOK
<1>4. Progress'
  BY <1>2 DEF Progress, Ahead
<1> QED  BY <1>3, <1>4

\* A reader that closes has read, and a writer that closes has written: who
\* has met them can still go on.
LEMMA CloseStep == ASSUME FifoInv, NEW p \in Procs, Close(p) PROVE FifoInv'
<1>1. /\ fpc[p] = "close" /\ end[p] # None /\ option[p] # "h" /\ Shut(p)
      /\ fpc' = [fpc EXCEPT ![p] = "unlink"] /\ UNCHANGED <<option, name, got>>
  BY DEF Close, Go, FifoInv, FifoTypeOK, Progress
<1>2. FifoTypeOK' /\ Progress'
  BY <1>1, LeaveKeeps
<1>3. /\ end' = [end EXCEPT ![p] = None]
      /\ \A f \in Fifos : pipe'[f] <= pipe[f]
      /\ \A q \in Procs : q # p /\ end[q] = end[p] => pipe' = pipe
      /\ \A f \in Fifos : f # end[p] => pipe'[f] = pipe[f]
  BY <1>1, ShutKeeps DEF FifoInv
<1>4. Readers' = Readers /\ Writers' = Writers /\ SomeKilled' = SomeKilled
  BY <1>1 DEF Readers, Writers, SomeKilled, FifoInv, FifoTypeOK
<1>5. /\ fpc'[p] = "unlink" /\ \A q \in Procs : q # p => fpc'[q] = fpc[q] /\ end'[q] = end[q]
      /\ \A q \in Procs : fpc[q] = "opened" => end[q] \in Fifos
  BY <1>1, <1>3, FifoAssumption DEF FifoInv, FifoTypeOK, Fifos
<1>6. Readers \subseteq Procs /\ Writers \subseteq Procs
  BY DEF Readers, Writers
<1>7. ReaderMet'
  <2> SUFFICES ASSUME NEW r \in Procs, Readers = {r}, ~SomeKilled PROVE
        /\ \A w \in Writers : fpc'[w] \in {"opened", "close"} => fpc'[r] \notin {"mkfifo", "open"}
        /\ fpc'[r] = "opened" =>
               pipe'[end'[r]] > 0 \/ \E w \in Writers : end'[w] = end'[r] /\ fpc'[w] = "opened"
        /\ got[r] # "nothing"
    BY <1>1, <1>4 DEF ReaderMet
  <2>1. /\ \A w \in Writers : fpc[w] \in {"opened", "close"} => fpc[r] \notin {"mkfifo", "open"}
        /\ fpc[r] = "opened" =>
               pipe[end[r]] > 0 \/ \E w \in Writers : end[w] = end[r] /\ fpc[w] = "opened"
        /\ got[r] # "nothing"
    BY DEF FifoInv, ReaderMet
  <2> QED  BY <1>1, <1>3, <1>5, <1>6, <2>1
<1>8. WriterMet'
  <2> SUFFICES ASSUME NEW w \in Procs, Writers = {w}, ~SomeKilled PROVE
        /\ \A r \in Readers : fpc'[r] \in {"opened", "close"} => fpc'[w] \notin {"mkfifo", "open"}
        /\ fpc'[w] \in Ahead => \A f \in Fifos : pipe'[f] = 0
        /\ fpc'[w] = "opened" => \E r \in Readers : end'[r] = end'[w] /\ fpc'[r] = "opened"
        /\ fpc'[w] # "sigpipe"
    BY <1>4 DEF WriterMet
  <2>1. /\ \A r \in Readers : fpc[r] \in {"opened", "close"} => fpc[w] \notin {"mkfifo", "open"}
        /\ fpc[w] \in Ahead => \A f \in Fifos : pipe[f] = 0
        /\ fpc[w] = "opened" => \E r \in Readers : end[r] = end[w] /\ fpc[r] = "opened"
        /\ fpc[w] # "sigpipe"
    BY DEF FifoInv, WriterMet
  <2>2. fpc'[w] \in Ahead => fpc[w] \in Ahead
    BY <1>5 DEF Ahead
  <2>3. \A f \in Fifos : pipe'[f] \in Nat
    BY <1>2 DEF FifoTypeOK
  <2>4. fpc'[w] \in Ahead => \A f \in Fifos : pipe'[f] = 0
    BY <1>3, <2>1, <2>2, <2>3
  <2> QED  BY <1>1, <1>5, <1>6, <2>1, <2>4
<1> QED  BY <1>2, <1>7, <1>8 DEF FifoInv

\* A write without a reader is not the write of a single writer.
LEMMA BrokenPipeStep == ASSUME FifoInv, NEW p \in Writers, BrokenPipe(p) PROVE FifoInv'
<1>1. /\ p \in Procs /\ option[p] = "w" /\ fpc[p] = "opened" /\ end[p] # None /\ Shut(p)
      /\ fpc' = [fpc EXCEPT ![p] = "sigpipe"] /\ UNCHANGED <<option, name, got>>
      /\ \A r \in Readers : end[r] # end[p]
  BY DEF BrokenPipe, Go, At, Writers, FifoInv, FifoTypeOK
<1>2. FifoTypeOK' /\ Progress'
  BY <1>1, LeaveKeeps
<1>3. /\ end' = [end EXCEPT ![p] = None]
      /\ \A f \in Fifos : f # end[p] => pipe'[f] = pipe[f]
  BY <1>1, ShutKeeps DEF FifoInv
<1>4. Readers' = Readers /\ Writers' = Writers /\ SomeKilled' = SomeKilled /\ p \notin Readers
  BY <1>1 DEF Readers, Writers, SomeKilled, FifoInv, FifoTypeOK
<1>5. /\ fpc'[p] = "sigpipe" /\ \A q \in Procs : q # p => fpc'[q] = fpc[q] /\ end'[q] = end[q]
      /\ \A q \in Procs : fpc[q] = "opened" => end[q] \in Fifos
  BY <1>1, <1>3, FifoAssumption DEF FifoInv, FifoTypeOK, Fifos
<1>6. Readers \subseteq Procs /\ Writers \subseteq Procs
  BY DEF Readers, Writers
<1>7. ReaderMet'
  <2> SUFFICES ASSUME NEW r \in Procs, Readers = {r}, ~SomeKilled PROVE
        /\ \A w \in Writers : fpc'[w] \in {"opened", "close"} => fpc'[r] \notin {"mkfifo", "open"}
        /\ fpc'[r] = "opened" =>
               pipe'[end'[r]] > 0 \/ \E w \in Writers : end'[w] = end'[r] /\ fpc'[w] = "opened"
        /\ got[r] # "nothing"
    BY <1>1, <1>4 DEF ReaderMet
  <2>1. /\ \A w \in Writers : fpc[w] \in {"opened", "close"} => fpc[r] \notin {"mkfifo", "open"}
        /\ fpc[r] = "opened" =>
               pipe[end[r]] > 0 \/ \E w \in Writers : end[w] = end[r] /\ fpc[w] = "opened"
        /\ got[r] # "nothing"
    BY DEF FifoInv, ReaderMet
  <2>2. r # p
    BY <1>4
  <2> QED  BY <1>1, <1>3, <1>5, <1>6, <2>1, <2>2
<1>8. WriterMet'
  <2> SUFFICES ASSUME NEW w \in Procs, Writers = {w}, ~SomeKilled PROVE FALSE
    BY <1>4 DEF WriterMet
  <2>1. w = p
    OBVIOUS
  <2> QED  BY <1>1, <2>1 DEF FifoInv, WriterMet
<1> QED  BY <1>2, <1>7, <1>8 DEF FifoInv

LEMMA KilledStep == ASSUME FifoInv, NEW p \in Procs, Killed(p) PROVE FifoInv'
<1>1. /\ option[p] # "h" /\ fpc' = [fpc EXCEPT ![p] = "killed"]
      /\ UNCHANGED <<option, name, got>>
  BY DEF Killed, Go, FifoInv, Progress, Over
<1>2. SomeKilled'
  BY <1>1 DEF SomeKilled, FifoInv, FifoTypeOK
<1>3. ReaderMet' /\ WriterMet'
  BY <1>2 DEF ReaderMet, WriterMet
<1>4. FifoTypeOK' /\ Progress'
  <2>1. CASE end[p] # None /\ Shut(p)
    BY <1>1, <2>1, LeaveKeeps
  <2>2. CASE end[p] = None /\ UNCHANGED <<end, pipe>>
    <3>1. FifoTypeOK'
      BY <1>1, <2>2 DEF FifoInv, FifoTypeOK, At, Over
    <3>2. Progress'
      BY <1>1 DEF FifoInv, Progress, FifoTypeOK, Ahead
    <3> QED  BY <3>1, <3>2
  <2> QED  BY <2>1, <2>2 DEF Killed
<1> QED  BY <1>3, <1>4 DEF FifoInv

-----------------------------------------------------------------------------
(* The name *)

LEMMA InitNameInv == FifoInit => NameInv
<1> SUFFICES ASSUME FifoInit PROVE NameInv
  OBVIOUS
<1>1. Fresh
  BY FifoAssumption DEF FifoInit, Fresh
<1>2. MetByReader
  BY DEF FifoInit, MetByReader, Writers
<1>3. NameHasItsUser
  BY DEF FifoInit, NameHasItsUser, Readers, Writers
<1> QED  BY <1>1, <1>2, <1>3 DEF NameInv

\* The options of a run never change what it is.
LEMMA Roles ==
    ASSUME FifoInv, UNCHANGED option
    PROVE  /\ Readers' = Readers /\ Writers' = Writers
           /\ Readers \subseteq Procs /\ Writers \subseteq Procs
           /\ \A p \in Procs : fpc[p] # "failed" => p \in Readers \union Writers
BY DEF FifoInv, FifoTypeOK, Progress, Readers, Writers

\* A step in which p neither opens nor leaves a fifo.
LEMMA StayStep ==
    ASSUME FifoInv, NameInv, NEW p \in Procs,
           Mkfifo(p) \/ NameGone(p) \/ Unlink(p)
             \/ (p \in Readers /\ Read(p)) \/ (p \in Writers /\ Write(p))
    PROVE  NameInv'
<1>1. UNCHANGED <<option, end>>
  BY DEF Mkfifo, NameGone, Unlink, Read, Write, Go
<1>2. PICK from, to : fpc[p] = from /\ fpc' = [fpc EXCEPT ![p] = to] /\
        \/ from = "mkfifo" /\ to = "open" /\ name' = IF name = None THEN p ELSE name
        \/ from = "open" /\ to = "failed" /\ name = None /\ name' = None
        \/ from = "unlink" /\ to = "done" /\ name' = None
        \/ from = "opened" /\ to = "close" /\ name' = name
  BY DEF Mkfifo, NameGone, Unlink, Removed, Read, Write, Go
<1>3. /\ fpc'[p] = to /\ \A q \in Procs : q # p => fpc'[q] = fpc[q]
      /\ p # None /\ \A q \in Procs : fpc[q] = "opened" => end[q] # None
  BY <1>2, FifoAssumption DEF FifoInv, FifoTypeOK
<1>4. Fresh'
  BY <1>1, <1>2, <1>3, FifoAssumption DEF NameInv, Fresh
<1>5. ~SomeKilled' => ~SomeKilled
  BY <1>2, <1>3 DEF SomeKilled
<1>6. MetByReader'
  <2> SUFFICES ASSUME ~SomeKilled', NEW w \in Writers, fpc'[w] = "opened", end[w] = name'
               PROVE  \E r \in Readers : \/ end[r] = name' /\ fpc'[r] \in {"opened", "close"}
                                        \/ fpc'[r] = "unlink"
    BY <1>1, Roles DEF MetByReader
  <2>1. w \in Procs /\ w # p /\ fpc[w] = "opened" /\ end[w] # None
    BY <1>1, <1>2, <1>3, Roles
  <2>2. name' = name
    BY <1>2, <2>1 DEF NameInv, Fresh
  <2>3. from \in {"mkfifo", "opened"}
    BY <1>2, <2>1
  <2>4. PICK r \in Readers : \/ end[r] = name /\ fpc[r] \in {"opened", "close"}
                             \/ fpc[r] = "unlink"
    BY <1>5, <2>1, <2>2 DEF NameInv, MetByReader
  <2>5. r \in Procs
    BY <1>1, Roles
  <2> QED  BY <1>2, <1>3, <2>2, <2>3, <2>4, <2>5
<1>7. NameHasItsUser'
  <2> SUFFICES ASSUME name' # None, ~SomeKilled'
               PROVE  \E q \in Readers \union Writers :
                        fpc'[q] \in {"mkfifo", "open", "unlink"} \/ end[q] = name'
    BY <1>1, Roles DEF NameHasItsUser
  <2>1. p \in Readers \union Writers
    BY <1>1, <1>2, Roles
  <2>2. CASE from = "mkfifo"
    BY <1>2, <1>3, <2>1, <2>2
  <2>3. CASE from = "opened" /\ name' = name
    <3>1. PICK q \in Readers \union Writers :
            fpc[q] \in {"mkfifo", "open", "unlink"} \/ end[q] = name
      BY <1>5, <2>1, <2>3 DEF NameInv, NameHasItsUser
    <3>2. q \in Procs
      BY <1>1, Roles
    <3> QED  BY <1>2, <1>3, <2>3, <3>1, <3>2
  <2> QED  BY <1>2, <2>2, <2>3
<1> QED  BY <1>4, <1>6, <1>7 DEF NameInv

\* A writer that opens the fifo of the name meets a reader of it, or waits.
LEMMA OpenKeepsName ==
    ASSUME FifoInv, NameInv, NEW p \in Procs, Open(p)
    PROVE  NameInv'
<1> DEFINE peers == At(name, Others(p))
<1>1. /\ fpc[p] = "open" /\ name # None /\ end[p] = None
      /\ end' = [end EXCEPT ![p] = name] /\ UNCHANGED <<option, name>>
  BY DEF Open, FifoInv, FifoTypeOK
<1>2. /\ fpc'[p] = IF peers # {} THEN "opened" ELSE "opening"
      /\ \A q \in Procs : q # p =>
           fpc'[q] = IF q \in peers /\ fpc[q] = "opening" THEN "opened" ELSE fpc[q]
  BY <1>1 DEF Open, Met, FifoInv, FifoTypeOK
<1>3. /\ end'[p] = name /\ \A q \in Procs : q # p => end'[q] = end[q]
      /\ p \in Readers \union Writers
  BY <1>1, Roles DEF FifoInv, FifoTypeOK
<1>4. Fresh'
  BY <1>1, <1>2, <1>3 DEF NameInv, Fresh
<1>5. ~SomeKilled' => ~SomeKilled
  BY <1>1, <1>2 DEF SomeKilled
<1>6. MetByReader'
  <2> SUFFICES ASSUME ~SomeKilled, NEW w \in Writers, fpc'[w] = "opened", end'[w] = name
               PROVE  \E r \in Readers : \/ end'[r] = name /\ fpc'[r] \in {"opened", "close"}
                                        \/ fpc'[r] = "unlink"
    BY <1>1, <1>5, Roles DEF MetByReader
  <2>1. Readers \subseteq Procs /\ w \in Procs
    BY <1>1, Roles
  <2>2. CASE w = p
    <3>1. PICK r : r \in peers
      BY <1>2, <2>1, <2>2
    <3>2. r \in Readers /\ end[r] = name /\ r # p
      BY <1>1, <2>2, <3>1 DEF At, Others, Readers, Writers
    <3>3. fpc[r] \in {"opening", "opened", "close"}
      BY <1>1, <2>1, <3>2 DEF FifoInv, FifoTypeOK
    <3> QED  BY <1>2, <1>3, <2>1, <3>1, <3>2, <3>3
  <2>3. CASE w # p /\ fpc[w] = "opened"
    <3>1. PICK r \in Readers : \/ end[r] = name /\ fpc[r] \in {"opened", "close"}
                               \/ fpc[r] = "unlink"
      BY <1>3, <2>1, <2>3 DEF NameInv, MetByReader
    <3> QED  BY <1>1, <1>2, <1>3, <2>1, <3>1
  <2>4. CASE w # p /\ fpc[w] # "opened"
    <3>1. w \in peers
      BY <1>2, <2>1, <2>4
    <3>2. p \in Readers
      BY <1>3, <3>1 DEF At, Others, Readers, Writers
    <3> QED  BY <1>2, <1>3, <2>1, <3>1, <3>2
  <2> QED  BY <2>2, <2>3, <2>4
<1>7. NameHasItsUser'
  BY <1>1, <1>3, Roles DEF NameHasItsUser
<1> QED  BY <1>4, <1>6, <1>7 DEF NameInv

\* A run leaves a fifo: by close it goes on to unlink, and where it is a writer
\* that dies of SIGPIPE, the reader it has met does.
LEMMA LeaveKeepsName ==
    ASSUME FifoInv, NameInv, NEW p \in Procs,
           Close(p) \/ (p \in Writers /\ BrokenPipe(p)) \/ Killed(p)
    PROVE  NameInv'
<1>1. PICK to \in {"unlink", "sigpipe", "killed"} :
        /\ fpc' = [fpc EXCEPT ![p] = to] /\ UNCHANGED <<option, name>>
        /\ to = "unlink" => fpc[p] = "close"
        /\ to = "sigpipe" => /\ fpc[p] = "opened" /\ p \in Writers
                             /\ \A r \in Readers : end[r] # end[p]
  BY DEF Close, BrokenPipe, Killed, Go, At
<1>2. end' = [end EXCEPT ![p] = None]
  BY DEF Close, BrokenPipe, Killed, Shut, FifoInv, FifoTypeOK
<1>3. /\ fpc'[p] = to /\ \A q \in Procs : q # p => fpc'[q] = fpc[q]
      /\ end'[p] = None /\ \A q \in Procs : q # p => end'[q] = end[q]
  BY <1>1, <1>2 DEF FifoInv, FifoTypeOK
<1>4. Fresh'
  BY <1>1, <1>3, FifoAssumption DEF NameInv, Fresh
<1>5. CASE to = "killed"
  <2>1. SomeKilled'
    BY <1>3, <1>5 DEF SomeKilled
  <2> QED  BY <1>4, <2>1 DEF NameInv, MetByReader, NameHasItsUser
<1>6. CASE to # "killed"
  <2>1. /\ ~SomeKilled' => ~SomeKilled
        /\ Readers \subseteq Procs /\ Writers \subseteq Procs
    BY <1>1, <1>3, Roles DEF SomeKilled
  <2>2. MetByReader'
    <3> SUFFICES ASSUME ~SomeKilled, NEW w \in Writers, fpc'[w] = "opened", end'[w] = name
                 PROVE  \E r \in Readers : \/ end'[r] = name /\ fpc'[r] \in {"opened", "close"}
                                          \/ fpc'[r] = "unlink"
      BY <1>1, <2>1, Roles DEF MetByReader
    <3>1. w # p
      BY <1>1, <1>3
    <3>2. PICK r \in Readers : \/ end[r] = name /\ fpc[r] \in {"opened", "close"}
                               \/ fpc[r] = "unlink"
      BY <1>3, <2>1, <3>1 DEF NameInv, MetByReader
    <3>3. r = p => to = "unlink"
      BY <1>1, <1>6 DEF Readers, Writers
    <3> QED  BY <1>3, <2>1, <3>2, <3>3
  <2>3. NameHasItsUser'
    <3> SUFFICES ASSUME name # None, ~SomeKilled
                 PROVE  \E q \in Readers \union Writers :
                          fpc'[q] \in {"mkfifo", "open", "unlink"} \/ end'[q] = name
      BY <1>1, <2>1, Roles DEF NameHasItsUser
    <3>1. p \in Readers \union Writers
      BY <1>1, <1>6, Roles
    <3>2. CASE to = "unlink"
      BY <1>3, <3>1, <3>2
    <3>3. CASE to = "sigpipe" /\ end[p] = name
      <4>1. PICK r \in Readers : fpc[r] = "unlink"
        BY <1>1, <3>3 DEF NameInv, MetByReader
      <4> QED  BY <1>1, <1>3, <2>1, <3>3, <4>1
    <3>4. CASE to = "sigpipe" /\ end[p] # name
      <4>1. PICK q \in Readers \union Writers :
              fpc[q] \in {"mkfifo", "open", "unlink"} \/ end[q] = name
        BY <3>1 DEF NameInv, NameHasItsUser
      <4> QED  BY <1>1, <1>3, <2>1, <3>4, <4>1
    <3> QED  BY <1>6, <3>2, <3>3, <3>4
  <2> QED  BY <1>4, <2>2, <2>3 DEF NameInv
<1> QED  BY <1>5, <1>6

-----------------------------------------------------------------------------
\* The parts together hold in every state.
THEOREM InvariantHolds == FifoSpec => []FifoInv
<1>1. FifoInv /\ [FifoNext]_fifoVars => FifoInv'
  <2> SUFFICES ASSUME FifoInv, [FifoNext]_fifoVars PROVE FifoInv'
    OBVIOUS
  <2>1. CASE UNCHANGED fifoVars
    BY <2>1 DEF fifoVars, FifoInv, FifoTypeOK, At, Progress, ReaderMet, WriterMet, Readers,
       Writers, SomeKilled
  <2>2. ASSUME NEW p \in Procs, Run(p) \/ Killed(p) PROVE FifoInv'
    BY <2>2, NameStep, OpenStep, ReadStep, WriteStep, BrokenPipeStep, CloseStep, KilledStep
       DEF Run
  <2> QED  BY <2>1, <2>2 DEF FifoNext, Quiet
<1> QED  BY InitFifoInv, <1>1, PTL DEF FifoSpec

THEOREM NameInvariantHolds == FifoSpec => []NameInv
<1>1. FifoInv /\ NameInv /\ [FifoNext]_fifoVars => NameInv'
  <2> SUFFICES ASSUME FifoInv, NameInv, [FifoNext]_fifoVars PROVE NameInv'
    OBVIOUS
  <2>1. CASE UNCHANGED fifoVars
    BY <2>1 DEF fifoVars, NameInv, Fresh, MetByReader, NameHasItsUser, Readers, Writers,
       SomeKilled
  <2>2. ASSUME NEW p \in Procs, Run(p) \/ Killed(p) PROVE NameInv'
    BY <2>2, StayStep, OpenKeepsName, LeaveKeepsName DEF Run
  <2> QED  BY <2>1, <2>2 DEF FifoNext, Quiet
<1> QED  BY InitNameInv, InvariantHolds, <1>1, PTL DEF FifoSpec

\* Every variable keeps its type, for any number of runs.
THEOREM TypeCorrect == FifoSpec => []FifoTypeOK
<1>1. FifoInv => FifoTypeOK
  BY DEF FifoInv
<1> QED  BY <1>1, InvariantHolds, PTL

\* Unless a run is killed, the name does not outlive its users, however many
\* runs there are.
THEOREM NameIsNotLeft == FifoSpec => []NameHasItsUser
<1> QED  BY NameInvariantHolds, PTL DEF NameInv

\* A single reader never reads nothing, and a single writer is never ended by
\* SIGPIPE, among any number of runs of the other kind.
THEOREM NoEndIsLeftAlone == FifoSpec => []NeitherAlone
<1>1. FifoInv => NeitherAlone
  <2> SUFFICES ASSUME FifoInv PROVE NeitherAlone
    OBVIOUS
  <2>1. SomethingToRead
    <3> SUFFICES ASSUME Cardinality(Readers) = 1, ~SomeKilled, NEW r \in Readers
                 PROVE  got[r] # "nothing"
      BY DEF SomethingToRead
    <3>1. IsFiniteSet(Readers) /\ r \in Procs
      BY RunsAreFinite DEF Readers
    <3>2. \E x : Readers = {x}
      BY <3>1, FS_Singleton
    <3>3. Readers = {r}
      BY <3>2
    <3> QED  BY <3>1, <3>3 DEF FifoInv, ReaderMet
  <2>2. SomebodyReads
    <3> SUFFICES ASSUME Cardinality(Writers) = 1, ~SomeKilled, NEW w \in Writers
                 PROVE  fpc[w] # "sigpipe"
      BY DEF SomebodyReads
    <3>1. IsFiniteSet(Writers) /\ w \in Procs
      BY RunsAreFinite DEF Writers
    <3>2. \E x : Writers = {x}
      BY <3>1, FS_Singleton
    <3>3. Writers = {w}
      BY <3>2
    <3> QED  BY <3>1, <3>3 DEF FifoInv, WriterMet
  <2> QED  BY <2>1, <2>2 DEF NeitherAlone
<1> QED  BY <1>1, InvariantHolds, PTL
=============================================================================
