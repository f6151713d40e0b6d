-------------------------- MODULE WriterLockProofs --------------------------
(***************************************************************************)
(* What the writer lock guarantees for any set of processes, hosts, pids   *)
(* and generations, when no two processes open the store at a time (the    *)
(* assumption of every theorem: without it, OneWriter is false).           *)
(*                                                                         *)
(* The argument: whoever opens the store finds no file of its own, so the  *)
(* owner it takes for a predecessor is another process, and as no two      *)
(* running processes share a pid or differ in generation, that one is      *)
(* dead, and stays so; nobody else touches the file meanwhile.  So the     *)
(* file of a writer is there, and there is one file.                       *)
(***************************************************************************)
EXTENDS WriterLock, TLAPS

BeforeOwn == Opening \ {"writing"}

\* Only one process opens the store at a time.
OneOpening == \A p, q \in Procs : pc[p] \in Opening /\ pc[q] \in Opening => p = q

\* What Begin sees to: no pid and no other generation next to a running process.
Apart ==
    \A p, q \in Procs : Running(p) /\ Running(q) /\ p # q =>
        IF Host[q] = Host[p] THEN Pid[q] # Pid[p]
        ELSE Generation[q] # None /\ Generation[q] = Generation[p]

\* The creator of the file, by where it is: a writer's file is there and whole.
FileOfOwner ==
    \A p \in Procs :
        /\ pc[p] \in {"writer", "releasing"} => Mine(p) /\ file.full
        /\ pc[p] = "writing" => Mine(p) /\ ~file.full
        /\ pc[p] \in BeforeOwn \cup {"idle"} => ~Mine(p)

\* The owner a process captured is dead, and the file to remove is still that owner's.
SeenIsDead ==
    \A p \in Procs :
        /\ pc[p] \in {"recapture", "unlink"} => seen[p] \in Procs /\ pc[seen[p]] = "dead"
        /\ pc[p] = "unlink" /\ file # None => file.full /\ file.owner = seen[p]

\* The inductive invariant.
IInv == TypeOK /\ OneOpening /\ Apart /\ FileOfOwner /\ SeenIsDead

\* No record is the absent one.
LEMMA RecordIsSome ==
  ASSUME NEW p \in Procs, NEW b \in BOOLEAN
  PROVE  [owner |-> p, full |-> b] # None
<1>1. [owner |-> p, full |-> b] \in [owner : Procs, full : BOOLEAN]
  OBVIOUS
<1> QED
  BY <1>1, NoneAssumption

-----------------------------------------------------------------------------
\* A process that starts: Init has no file and nobody running.
LEMMA InitIInv == Init => IInv
  BY FaultsAssumption DEF Init, IInv, TypeOK, OneOpening, Apart, FileOfOwner, SeenIsDead, Running, Mine, Opening,
         BeforeOwn, Places

\* The owner that isProvenPredecessor lets go is not running.
LEMMA PredecessorIsDead ==
  ASSUME IInv, NEW p \in Procs, pc[p] = "capture", file # None, Predecessor(file.owner, p)
  PROVE  file.owner \in Procs /\ pc[file.owner] = "dead"
<1>1. file.owner \in Procs
  BY DEF IInv, TypeOK
<1>2. file.owner # p
  BY DEF IInv, FileOfOwner, BeforeOwn, Opening, Mine
<1>3. Running(p)
  BY DEF Running
<1>4. ~Running(file.owner)
  BY <1>1, <1>2, <1>3 DEF IInv, Apart, Predecessor
<1>5. pc[file.owner] # "idle"
  BY <1>1 DEF IInv, FileOfOwner, Mine
<1> QED
  BY <1>1, <1>4, <1>5 DEF Running

-----------------------------------------------------------------------------
\* Every step keeps the types.
LEMMA NextTypeOK == TypeOK /\ [Next]_vars => TypeOK'
<1> SUFFICES ASSUME TypeOK, [Next]_vars PROVE TypeOK'
  OBVIOUS
<1> USE DEF TypeOK, Goto, Places, Opening
<1>1. ASSUME NEW p \in Procs, Begin(p) PROVE TypeOK'
  BY <1>1 DEF Begin
<1>2. ASSUME NEW p \in Procs, Open(p) PROVE TypeOK'
  <2>1. pc' \in [Procs -> Places]
    BY <1>2 DEF Open
  <2>2. file' \in [owner : Procs, full : BOOLEAN] \cup {None}
    <3>1. CASE file = None
      <4>1. file' = [owner |-> p, full |-> FALSE]
        BY <1>2, <3>1 DEF Open
      <4> QED
        BY <4>1
    <3>2. CASE file # None
      BY <1>2, <3>2 DEF Open
    <3> QED
      BY <3>1, <3>2
  <2> QED
    BY <1>2, <2>1, <2>2 DEF Open
<1>3. ASSUME NEW p \in Procs, Capture(p) PROVE TypeOK'
  BY <1>3 DEF Capture
<1>4. ASSUME NEW p \in Procs, Recapture(p) PROVE TypeOK'
  BY <1>4 DEF Recapture
<1>5. ASSUME NEW p \in Procs, Unlink(p) PROVE TypeOK'
  BY <1>5 DEF Unlink
<1>6. ASSUME NEW p \in Procs, CallFails(p) PROVE TypeOK'
  BY <1>6, FaultsAssumption DEF CallFails, Fault
<1>7. ASSUME NEW p \in Procs, Write(p) PROVE TypeOK'
  BY <1>7 DEF Write, Mine
<1>8. ASSUME NEW p \in Procs, WriteFails(p) PROVE TypeOK'
  <2>1. file' \in [owner : Procs, full : BOOLEAN] \cup {None}
    <3>1. CASE ~Mine(p)
      BY <1>8, <3>1 DEF WriteFails
    <3>2. CASE Mine(p)
      BY <1>8, <3>2 DEF WriteFails, Mine
    <3> QED
      BY <3>1, <3>2
  <2> QED
    BY <1>8, <2>1, FaultsAssumption DEF WriteFails, Fault
<1>9. ASSUME NEW p \in Procs, Release(p) PROVE TypeOK'
  BY <1>9 DEF Release
<1>10. ASSUME NEW p \in Procs, ReleaseUnlinks(p) PROVE TypeOK'
  BY <1>10, FaultsAssumption DEF ReleaseUnlinks, Fault
<1>11. ASSUME NEW p \in Procs, Exit(p) PROVE TypeOK'
  BY <1>11 DEF Exit
<1>12. ASSUME NEW p \in Procs, Crash(p) PROVE TypeOK'
  BY <1>12, FaultsAssumption DEF Crash, Fault
<1>13. ASSUME UNCHANGED vars PROVE TypeOK'
  BY <1>13 DEF vars
<1> QED
  BY <1>1, <1>2, <1>3, <1>4, <1>5, <1>6, <1>7, <1>8, <1>9, <1>10, <1>11, <1>12, <1>13
  DEF Next, OpenStep

-----------------------------------------------------------------------------
(* Each action keeps the rest of the invariant.                            *)

\* A process begins alone among those that open the store, and apart from those that run.
LEMMA BeginKeeps ==
  ASSUME ~Overlapping, IInv, NEW p \in Procs, Begin(p), TypeOK'
  PROVE  OneOpening' /\ Apart' /\ FileOfOwner' /\ SeenIsDead'
<1> USE DEF Begin, Goto
<1>0. pc' = [pc EXCEPT ![p] = "open"] /\ pc[p] = "idle" /\ pc \in [Procs -> Places]
      /\ UNCHANGED <<file, seen, faults>>
  BY DEF IInv, TypeOK
<1>1. OneOpening'
  BY <1>0 DEF OneOpening, Opening
<1>2. Apart'
  <2> SUFFICES ASSUME NEW a \in Procs, NEW b \in Procs, Running(a)', Running(b)', a # b
               PROVE  IF Host[b] = Host[a] THEN Pid[b] # Pid[a]
                      ELSE Generation[b] # None /\ Generation[b] = Generation[a]
    BY DEF Apart
  <2>1. CASE a # p /\ b # p
    BY <1>0, <2>1 DEF IInv, Apart, Running
  <2>2. CASE a = p
    BY <1>0, <2>2 DEF Running
  <2>3. CASE b = p
    BY <1>0, <2>3 DEF Running
  <2> QED
    BY <2>1, <2>2, <2>3
<1>3. FileOfOwner'
  BY <1>0 DEF IInv, FileOfOwner, Mine, BeforeOwn, Opening
<1>4. SeenIsDead'
  BY <1>0 DEF IInv, SeenIsDead
<1> QED
  BY <1>1, <1>2, <1>3, <1>4

\* While no new process runs and none begins to open, these two stay.
LEMMA NoNewcomer ==
  ASSUME IInv, TypeOK', NEW p \in Procs, NEW place \in Places, Goto(p, place), Running(p),
         place \in Opening => pc[p] \in Opening
  PROVE  OneOpening' /\ Apart'
<1>0. pc' = [pc EXCEPT ![p] = place] /\ pc \in [Procs -> Places]
  BY DEF IInv, TypeOK, Goto
<1>1. OneOpening'
  BY <1>0 DEF IInv, OneOpening
<1>2. \A q \in Procs : Running(q)' => Running(q)
  BY <1>0 DEF Running
<1>3. Apart'
  BY <1>2 DEF IInv, Apart
<1> QED
  BY <1>1, <1>3

\* A step that leaves the file and the captured owners alone, and does not make anybody its
\* writer, keeps it all.
LEMMA MoveKeeps ==
  ASSUME IInv, TypeOK', NEW p \in Procs, NEW place \in Places \ {"idle", "writing", "writer"},
         Goto(p, place), Running(p), UNCHANGED <<file, seen>>,
         place \in Opening => pc[p] \in BeforeOwn,
         place \in {"recapture", "unlink"} => seen[p] \in Procs /\ pc[seen[p]] = "dead",
         place = "unlink" /\ file # None => file.full /\ file.owner = seen[p],
         place = "releasing" => Mine(p) /\ file.full
  PROVE  OneOpening' /\ Apart' /\ FileOfOwner' /\ SeenIsDead'
<1>0. pc' = [pc EXCEPT ![p] = place] /\ pc \in [Procs -> Places] /\ pc[p] # "dead"
  BY DEF IInv, TypeOK, Goto, Running
<1>1. OneOpening' /\ Apart'
  BY NoNewcomer DEF BeforeOwn
<1>2. FileOfOwner'
  BY <1>0 DEF IInv, FileOfOwner, Mine, BeforeOwn, Opening
<1>3. SeenIsDead'
  <2> SUFFICES ASSUME NEW q \in Procs
               PROVE  /\ pc'[q] \in {"recapture", "unlink"} =>
                            seen'[q] \in Procs /\ pc'[seen'[q]] = "dead"
                      /\ pc'[q] = "unlink" /\ file' # None => file'.full /\ file'.owner = seen'[q]
    BY DEF SeenIsDead
  <2>1. CASE q = p
    BY <1>0, <2>1
  <2>2. CASE q # p
    BY <1>0, <2>2 DEF IInv, SeenIsDead
  <2> QED
    BY <2>1, <2>2
<1> QED
  BY <1>1, <1>2, <1>3

\* The process that opens the store is the only one near the file, the writer aside.
LEMMA OpenKeeps ==
  ASSUME IInv, NEW p \in Procs, Open(p), TypeOK'
  PROVE  OneOpening' /\ Apart' /\ FileOfOwner' /\ SeenIsDead'
<1>1. CASE file = None
  <2>0. /\ pc[p] \in {"open", "reopen"} /\ pc' = [pc EXCEPT ![p] = "writing"]
        /\ pc \in [Procs -> Places] /\ file' = [owner |-> p, full |-> FALSE] /\ seen' = seen
    BY <1>1 DEF Open, Goto, IInv, TypeOK
  <2>1. OneOpening' /\ Apart'
    BY <2>0, NoNewcomer DEF Goto, Running, Places, Opening
  <2>2. FileOfOwner'
    <3> SUFFICES ASSUME NEW q \in Procs
                 PROVE  /\ pc'[q] \in {"writer", "releasing"} => Mine(q)' /\ file'.full
                        /\ pc'[q] = "writing" => Mine(q)' /\ ~file'.full
                        /\ pc'[q] \in BeforeOwn \cup {"idle"} => ~Mine(q)'
      BY DEF FileOfOwner
    <3>1. CASE q = p
      <4>1. pc'[q] = "writing" /\ file' # None /\ file'.owner = q /\ file'.full = FALSE
        <5>1. [owner |-> p, full |-> FALSE] # None
          BY RecordIsSome
        <5>2. file' = [owner |-> p, full |-> FALSE] /\ q = p
          BY <2>0, <3>1
        <5>3. file'.owner = q /\ file'.full = FALSE
          BY <5>2
        <5> QED
          BY <2>0, <3>1, <5>1, <5>2, <5>3
      <4> QED
        BY <4>1 DEF Mine, BeforeOwn, Opening
    <3>2. CASE q # p
      <4>1. pc[q] \notin {"writer", "releasing"}
        BY <1>1 DEF IInv, FileOfOwner, Mine
      <4>2. pc[q] # "writing"
        BY <2>0, <3>2 DEF IInv, OneOpening, Opening
      <4> QED
        BY <2>0, <3>2, <4>1, <4>2 DEF Mine
    <3> QED
      BY <3>1, <3>2
  <2>3. SeenIsDead'
    <3>1. \A q \in Procs : pc[q] \notin {"recapture", "unlink"}
      BY <2>0 DEF IInv, OneOpening, Opening
    <3> QED
      BY <2>0, <3>1 DEF SeenIsDead
  <2> QED
    BY <2>1, <2>2, <2>3
<1>2. CASE file # None
  <2>1. UNCHANGED <<file, seen>> /\ pc[p] \in {"open", "reopen"}
    BY <1>2 DEF Open
  <2>2. Goto(p, "capture") \/ Goto(p, "refused")
    BY <1>2 DEF Open, Goto
  <2> QED
    BY <2>1, <2>2, MoveKeeps DEF Running, Places, Opening, BeforeOwn
<1> QED
  BY <1>1, <1>2

\* An owner goes into `seen` only when it is dead.
LEMMA CaptureKeeps ==
  ASSUME IInv, NEW p \in Procs, Capture(p), TypeOK'
  PROVE  OneOpening' /\ Apart' /\ FileOfOwner' /\ SeenIsDead'
<1>0. pc[p] = "capture" /\ file' = file /\ pc \in [Procs -> Places] /\ seen \in [Procs -> Procs \cup {None}]
  BY DEF Capture, IInv, TypeOK
<1>1. CASE file # None /\ Parsed(file) /\ Predecessor(file.owner, p)
  <2>1. file.owner \in Procs /\ pc[file.owner] = "dead"
    BY <1>0, <1>1, PredecessorIsDead
  <2>2. pc' = [pc EXCEPT ![p] = "recapture"] /\ seen' = [seen EXCEPT ![p] = file.owner]
    BY <1>1 DEF Capture, Goto
  <2>3. OneOpening' /\ Apart'
    BY <1>0, <2>2, NoNewcomer DEF Goto, Running, Places, Opening
  <2>4. FileOfOwner'
    BY <1>0, <2>2 DEF IInv, FileOfOwner, Mine, BeforeOwn, Opening
  <2>5. SeenIsDead'
    <3> SUFFICES ASSUME NEW q \in Procs
                 PROVE  /\ pc'[q] \in {"recapture", "unlink"} =>
                              seen'[q] \in Procs /\ pc'[seen'[q]] = "dead"
                        /\ pc'[q] = "unlink" /\ file' # None =>
                              file'.full /\ file'.owner = seen'[q]
      BY DEF SeenIsDead
    <3>1. CASE q = p
      BY <1>0, <2>1, <2>2, <3>1
    <3>2. CASE q # p
      BY <1>0, <2>2, <3>2 DEF IInv, SeenIsDead
    <3> QED
      BY <3>1, <3>2
  <2> QED
    BY <2>3, <2>4, <2>5
<1>2. CASE ~(file # None /\ Parsed(file) /\ Predecessor(file.owner, p))
  <2>1. UNCHANGED <<file, seen>> /\ (Goto(p, "reopen") \/ Goto(p, "refused"))
    BY <1>2 DEF Capture
  <2> QED
    BY <1>0, <2>1, MoveKeeps DEF Running, Places, Opening, BeforeOwn
<1> QED
  BY <1>1, <1>2

\* The file to remove is still the dead owner's.
LEMMA RecaptureKeeps ==
  ASSUME IInv, NEW p \in Procs, Recapture(p), TypeOK'
  PROVE  OneOpening' /\ Apart' /\ FileOfOwner' /\ SeenIsDead'
<1>0. pc[p] = "recapture" /\ UNCHANGED <<file, seen>>
  BY DEF Recapture
<1>1. seen[p] \in Procs /\ pc[seen[p]] = "dead"
  BY <1>0 DEF IInv, SeenIsDead
<1>2. \/ Goto(p, "reopen") \/ Goto(p, "refused")
      \/ Goto(p, "unlink") /\ file # None /\ file.full /\ file.owner = seen[p]
  BY DEF Recapture, Parsed, Goto
<1> QED
  BY <1>0, <1>1, <1>2, MoveKeeps DEF Running, Places, Opening, BeforeOwn

\* The file that goes is a dead process's, so no writer loses its own.
LEMMA UnlinkKeeps ==
  ASSUME IInv, NEW p \in Procs, Unlink(p), TypeOK'
  PROVE  OneOpening' /\ Apart' /\ FileOfOwner' /\ SeenIsDead'
<1>0. /\ pc[p] = "unlink" /\ pc' = [pc EXCEPT ![p] = "reopen"] /\ pc \in [Procs -> Places]
      /\ file' = None /\ seen' = seen
  BY DEF Unlink, Goto, IInv, TypeOK
<1>1. OneOpening' /\ Apart'
  BY <1>0, NoNewcomer DEF Goto, Running, Places, Opening
<1>2. \A q \in Procs : pc[q] \notin {"writer", "releasing", "writing"}
  <2> SUFFICES ASSUME NEW q \in Procs, Mine(q), pc[q] # "dead"
               PROVE  FALSE
    BY DEF IInv, FileOfOwner
  <2>1. seen[p] = q /\ pc[seen[p]] = "dead"
    BY <1>0 DEF IInv, SeenIsDead, Mine
  <2> QED
    BY <2>1
<1>3. FileOfOwner'
  BY <1>0, <1>2 DEF FileOfOwner, Mine
<1>4. SeenIsDead'
  BY <1>0 DEF IInv, SeenIsDead
<1> QED
  BY <1>1, <1>3, <1>4

\* The record goes into the file its writer created.
LEMMA WriteKeeps ==
  ASSUME IInv, NEW p \in Procs, Write(p), TypeOK'
  PROVE  OneOpening' /\ Apart' /\ FileOfOwner' /\ SeenIsDead'
<1>0. /\ pc[p] = "writing" /\ pc' = [pc EXCEPT ![p] = "writer"] /\ pc \in [Procs -> Places]
      /\ file # None /\ file \in [owner : Procs, full : BOOLEAN] /\ file.owner = p
      /\ file' = [file EXCEPT !.full = TRUE] /\ seen' = seen
  BY DEF Write, Goto, IInv, TypeOK, FileOfOwner, Mine
<1>1. OneOpening' /\ Apart'
  BY <1>0, NoNewcomer DEF Goto, Running, Places, Opening
<1>2. file' = [owner |-> p, full |-> TRUE] /\ file' # None
  BY <1>0, RecordIsSome
<1>3. file'.owner = p /\ file'.full = TRUE
  BY <1>2
<1>4. FileOfOwner'
  <2>1. Mine(p)' /\ pc'[p] = "writer" /\ file'.full
    BY <1>0, <1>2, <1>3 DEF Mine
  <2>2. \A q \in Procs \ {p} : ~Mine(q) /\ ~Mine(q)' /\ pc'[q] = pc[q]
    BY <1>0, <1>3 DEF Mine
  <2>3. \A q \in Procs \ {p} : pc'[q] \notin {"writer", "releasing", "writing"}
    BY <2>2 DEF IInv, FileOfOwner
  <2> QED
    BY <2>1, <2>2, <2>3 DEF FileOfOwner, BeforeOwn, Opening
<1>5. SeenIsDead'
  <2>1. \A q \in Procs : pc[q] # "unlink"
    BY <1>0 DEF IInv, OneOpening, Opening
  <2> QED
    BY <1>0, <2>1 DEF IInv, SeenIsDead
<1> QED
  BY <1>1, <1>4, <1>5

\* A process that could not write its record is no writer, whatever is left of the file.
LEMMA WriteFailsKeeps ==
  ASSUME IInv, NEW p \in Procs, WriteFails(p), TypeOK'
  PROVE  OneOpening' /\ Apart' /\ FileOfOwner' /\ SeenIsDead'
<1>0. /\ pc[p] = "writing" /\ pc' = [pc EXCEPT ![p] = "refused"] /\ pc \in [Procs -> Places]
      /\ Mine(p) /\ seen' = seen
  BY DEF WriteFails, Goto, IInv, TypeOK, FileOfOwner
<1>1. OneOpening' /\ Apart'
  BY <1>0, NoNewcomer DEF Goto, Running, Places, Opening
<1>2. file' = None \/ file'.owner = file.owner
  <2>1. file \in [owner : Procs, full : BOOLEAN]
    BY <1>0 DEF IInv, TypeOK, Mine
  <2>2. [file EXCEPT !.full = TRUE].owner = file.owner
    BY <2>1
  <2> QED
    BY <1>0, <2>2 DEF WriteFails
<1>3. \A q \in Procs \ {p} : ~Mine(q) /\ ~Mine(q)'
  BY <1>0, <1>2 DEF Mine
<1>4. FileOfOwner'
  BY <1>0, <1>3 DEF IInv, FileOfOwner, BeforeOwn, Opening
<1>5. SeenIsDead'
  <2>1. \A q \in Procs : pc[q] # "unlink"
    BY <1>0 DEF IInv, OneOpening, Opening
  <2> QED
    BY <1>0, <2>1 DEF IInv, SeenIsDead
<1> QED
  BY <1>1, <1>4, <1>5

\* A release finds its own file, and only that goes.
LEMMA ReleaseUnlinksKeeps ==
  ASSUME IInv, NEW p \in Procs, ReleaseUnlinks(p), TypeOK'
  PROVE  OneOpening' /\ Apart' /\ FileOfOwner' /\ SeenIsDead'
<1>0. /\ pc[p] = "releasing" /\ pc' = [pc EXCEPT ![p] = "closed"] /\ pc \in [Procs -> Places]
      /\ Mine(p) /\ seen' = seen /\ (file' = None \/ file' = file)
  BY DEF ReleaseUnlinks, Goto, IInv, TypeOK, FileOfOwner
<1>1. OneOpening' /\ Apart'
  BY <1>0, NoNewcomer DEF Goto, Running, Places, Opening
<1>2. FileOfOwner'
  BY <1>0 DEF IInv, FileOfOwner, Mine, BeforeOwn, Opening
<1>3. SeenIsDead'
  BY <1>0 DEF IInv, SeenIsDead
<1> QED
  BY <1>1, <1>2, <1>3

-----------------------------------------------------------------------------
\* Every step keeps the invariant when openings do not overlap.
LEMMA NextIInv == ~Overlapping /\ IInv /\ [Next]_vars => IInv'
<1> SUFFICES ASSUME ~Overlapping, IInv, [Next]_vars PROVE IInv'
  OBVIOUS
<1>0. TypeOK'
  BY NextTypeOK DEF IInv
<1> DEFINE Rest == OneOpening /\ Apart /\ FileOfOwner /\ SeenIsDead
<1>1. ASSUME NEW p \in Procs, Begin(p) PROVE Rest'
  BY <1>0, <1>1, BeginKeeps
<1>2. ASSUME NEW p \in Procs, OpenStep(p) PROVE Rest'
  BY <1>0, <1>2, OpenKeeps, CaptureKeeps, RecaptureKeeps, UnlinkKeeps, WriteKeeps DEF OpenStep
<1>3. ASSUME NEW p \in Procs, CallFails(p) PROVE Rest'
  BY <1>0, <1>3, MoveKeeps DEF CallFails, Running, Places, Opening
<1>4. ASSUME NEW p \in Procs, WriteFails(p) \/ ReleaseUnlinks(p) PROVE Rest'
  BY <1>0, <1>4, WriteFailsKeeps, ReleaseUnlinksKeeps
<1>5. ASSUME NEW p \in Procs, Release(p) PROVE Rest'
  BY <1>0, <1>5, MoveKeeps DEF Release, Goto, Running, Places, Opening
<1>6. ASSUME NEW p \in Procs, Exit(p) PROVE Rest'
  BY <1>0, <1>6, MoveKeeps DEF Exit, Running, Places, Opening
<1>7. ASSUME NEW p \in Procs, Crash(p) PROVE Rest'
  BY <1>0, <1>7, MoveKeeps DEF Crash, Running, Places, Opening
<1>8. ASSUME UNCHANGED vars PROVE Rest'
  BY <1>8 DEF vars, IInv, OneOpening, Apart, FileOfOwner, SeenIsDead, Running, Mine
<1> QED
  BY <1>0, <1>1, <1>2, <1>3, <1>4, <1>5, <1>6, <1>7, <1>8 DEF IInv, Next

\* The invariant holds for ever when openings do not overlap.
THEOREM Invariance ==
  ASSUME ~Overlapping
  PROVE  Spec => []IInv
<1>1. Init => IInv
  BY InitIInv
<1>2. IInv /\ [Next]_vars => IInv'
  BY NextIInv
<1> QED
  BY <1>1, <1>2, PTL DEF Spec

-----------------------------------------------------------------------------
(* The results.                                                            *)

\* Every variable keeps its type, also when openings overlap.
THEOREM TypeCorrect == Spec => []TypeOK
<1>1. Init => TypeOK
  BY InitIInv DEF IInv
<1> QED
  BY <1>1, NextTypeOK, PTL DEF Spec

\* createDurableStorage gives the store one writer at a time.
THEOREM OnlyOneWriter ==
  ASSUME ~Overlapping
  PROVE  Spec => []OneWriter
<1>1. IInv => OneWriter
  BY DEF IInv, FileOfOwner, Mine, OneWriter
<1> QED
  BY <1>1, Invariance, PTL

\* The lock of a running process goes by its own release only.
THEOREM LiveLocksStay ==
  ASSUME ~Overlapping
  PROVE  Spec => LiveLockStays
<1>1. IInv /\ [Next]_vars =>
        [\A p \in Procs : Mine(p) /\ file.full /\ Running(p) /\ file' # file =>
           pc[p] \in {"writing", "releasing"}]_vars
  <2> SUFFICES ASSUME IInv, Next, NEW p \in Procs, Mine(p), file.full, Running(p), file' # file
               PROVE  pc[p] \in {"writing", "releasing"}
    BY DEF vars
  <2>1. PICK q \in Procs : Open(q) \/ Unlink(q) \/ Write(q) \/ WriteFails(q) \/ ReleaseUnlinks(q)
    BY DEF Next, OpenStep, Begin, Capture, Recapture, CallFails, Release, Exit, Crash
  <2>2. ~Open(q)
    BY DEF Open, Mine
  <2>3. ~Unlink(q)
    BY DEF Unlink, IInv, SeenIsDead, Mine, Running
  <2>4. ASSUME Write(q) \/ WriteFails(q) \/ ReleaseUnlinks(q) PROVE q = p
    BY <2>4 DEF Write, WriteFails, ReleaseUnlinks, IInv, FileOfOwner, Mine
  <2> QED
    BY <2>1, <2>2, <2>3, <2>4 DEF Write, WriteFails, ReleaseUnlinks
<1> QED
  BY <1>1, Invariance, PTL DEF Spec, LiveLockStays

\* A file its creator left unfinished stays.
THEOREM MalformedLocksStay ==
  ASSUME ~Overlapping
  PROVE  Spec => MalformedStays
<1>1. IInv /\ [Next]_vars =>
        [file # None /\ ~file.full /\ pc[file.owner] # "writing" => file' = file]_vars
  <2> SUFFICES ASSUME IInv, Next, file # None, ~file.full, pc[file.owner] # "writing"
               PROVE  file' = file
    BY DEF vars
  <2>1. PICK q \in Procs : \/ Begin(q) \/ OpenStep(q) \/ CallFails(q) \/ WriteFails(q)
                            \/ Release(q) \/ ReleaseUnlinks(q) \/ Exit(q) \/ Crash(q)
    BY DEF Next
  <2>2. ~Unlink(q)
    BY DEF Unlink, IInv, SeenIsDead
  <2>3. ~Write(q) /\ ~WriteFails(q) /\ ~ReleaseUnlinks(q)
    BY DEF Write, WriteFails, ReleaseUnlinks, IInv, FileOfOwner, Mine
  <2> QED
    BY <2>1, <2>2, <2>3 DEF OpenStep, Begin, Open, Capture, Recapture, CallFails, Release, Exit, Crash
<1> QED
  BY <1>1, Invariance, PTL DEF Spec, MalformedStays
=============================================================================
