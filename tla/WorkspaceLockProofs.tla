------------------------ MODULE WorkspaceLockProofs ------------------------
(***************************************************************************)
(* Proofs about WorkspaceLock, for any processes and calls.  The invariant *)
(* says who a file belongs to at every place of a call: a call that is     *)
(* acquiring, holding or removing owns the lock file, a call in a recovery *)
(* owns the claim, and the record a recovery evicts is a dead process's.   *)
(* A second one says which call, or which memory of a failed removal,      *)
(* answers for each complete record of a running process.                  *)
(***************************************************************************)
EXTENDS WorkspaceLock, TLAPS

OwnsLock == {"write", "postCheck", "held", "undo", "release", "releaseFailed"}
OwnsClaim == {"writeClaim", "confirm", "evict", "unclaim", "unclaimThrow"}
Remembered == {"failed", "release", "releaseFailed"}

Full(f) == file[f].full

ThreadInv ==
    /\ \A a \in Acquires : pc[a] = "again" => Waits
    /\ \A a, b \in Acquires :
          Proc[a] = Proc[b] /\ pc[a] \in Synchronous /\ pc[b] \in Synchronous => a = b

LockInv ==
    \A a \in Acquires : Alive(a) /\ pc[a] \in OwnsLock =>
        Names("lock", a) /\ (pc[a] # "write" => Full("lock"))

ClaimInv ==
    \A a \in Acquires : Alive(a) /\ pc[a] \in OwnsClaim =>
        Names("claim", a) /\ (pc[a] # "writeClaim" => Full("claim"))

EvictInv ==
    \A a \in Acquires : Alive(a) /\ pc[a] = "evict" =>
        seen[a] \in Acquires /\ ~Alive(seen[a]) /\ Names("lock", seen[a]) /\ Full("lock")

DropInv ==
    \A a \in Acquires : Alive(a) =>
        /\ pc[a] = "dropOrphanLock" => Names("lock", orphan[Proc[a]]["lock"]) /\ Full("lock")
        /\ pc[a] = "dropOrphanClaim" => Names("claim", orphan[Proc[a]]["claim"]) /\ Full("claim")

OrphanInv ==
    \A p \in Procs, f \in Paths : orphan[p][f] # None =>
        /\ Proc[orphan[p][f]] = p
        /\ pc[orphan[p][f]] \in IF f = "claim" THEN {"failed"} ELSE Remembered

VerifiedInv == \A a \in Acquires : verified[a] => pc[a] \in Removals

IInv ==
    /\ TypeOK
    /\ ThreadInv
    /\ LockInv
    /\ ClaimInv
    /\ EvictInv
    /\ DropInv
    /\ OrphanInv
    /\ VerifiedInv

\* Every place a call goes to is a place; which places are which.
LEMMA PlaceFacts ==
    /\ "idle" \in Places /\ "try" \in Places /\ "judgeClaim" \in Places /\ "create" \in Places
    /\ "recreate" \in Places /\ "write" \in Places /\ "postCheck" \in Places
    /\ "inspect" \in Places /\ "judge" \in Places /\ "claim" \in Places
    /\ "writeClaim" \in Places /\ "confirm" \in Places /\ "evict" \in Places
    /\ "unclaim" \in Places /\ "unclaimThrow" \in Places /\ "undo" \in Places
    /\ "dropOrphanClaim" \in Places /\ "dropOrphanLock" \in Places
    /\ "release" \in Places /\ "releaseFailed" \in Places /\ "held" \in Places
    /\ "miss" \in Places /\ "again" \in Places /\ "busy" \in Places
    /\ "done" \in Places /\ "failed" \in Places /\ "abandoned" \in Places
  BY DEF Places, Settled, Synchronous, Removals, OwnRemovals, OrphanRemovals

LEMMA RecordFacts ==
    /\ \A a \in Acquires, b \in BOOLEAN :
          [tok |-> a, full |-> b] \in Record /\ [tok |-> a, full |-> b] # None
    /\ \A r \in Record : r # None /\ r.tok \in Acquires /\ r.full \in BOOLEAN
  BY NoneAssumption DEF Record

FileMaps == [Paths -> Record \cup {None}]
OrphanMaps == [Procs -> [Paths -> Acquires \cup {None}]]

LEMMA PathFacts == "lock" \in Paths /\ "claim" \in Paths
  BY DEF Paths

LEMMA FileUpdate ==
    ASSUME NEW g \in FileMaps, NEW f \in Paths, NEW v \in Record \cup {None}
    PROVE  /\ [g EXCEPT ![f] = v] \in FileMaps
           /\ [g EXCEPT ![f] = v][f] = v
           /\ \A h \in Paths : h # f => [g EXCEPT ![f] = v][h] = g[h]
  BY DEF FileMaps

LEMMA OrphanUpdate ==
    ASSUME NEW g \in OrphanMaps, NEW p \in Procs, NEW f \in Paths, NEW v \in Acquires \cup {None}
    PROVE  /\ [g EXCEPT ![p][f] = v] \in OrphanMaps
           /\ [g EXCEPT ![p][f] = v][p][f] = v
           /\ \A q \in Procs, h \in Paths :
                q # p \/ h # f => [g EXCEPT ![p][f] = v][q][h] = g[q][h]
  BY DEF OrphanMaps

LEMMA InitIInv == Init => IInv
  <1> SUFFICES ASSUME Init PROVE IInv
    OBVIOUS
  <1>1. TypeOK
    BY PlaceFacts, FaultsAssumption DEF Init, TypeOK, Paths
  <1>2. ThreadInv
    BY DEF Init, ThreadInv, Synchronous, Removals, OwnRemovals, OrphanRemovals
  <1>3. LockInv /\ ClaimInv
    BY DEF Init, LockInv, ClaimInv, OwnsLock, OwnsClaim
  <1>4. EvictInv /\ DropInv /\ OrphanInv /\ VerifiedInv
    BY DEF Init, EvictInv, DropInv, OrphanInv, VerifiedInv
  <1> QED
    BY <1>1, <1>2, <1>3, <1>4 DEF IInv

LEMMA RemovalPlaces ==
    /\ Removals = {"undo", "release", "unclaim", "unclaimThrow", "dropOrphanClaim",
                   "dropOrphanLock", "evict"}
    /\ AfterRemoval["dropOrphanClaim"] = "create"
    /\ AfterRemoval["dropOrphanLock"] = "recreate"
    /\ AfterRemoval["evict"] = "unclaim"
    /\ AfterRemoval["unclaim"] = "miss"
    /\ AfterRemoval["unclaimThrow"] = "failed"
    /\ AfterRemoval["undo"] = "miss"
    /\ AfterRemoval["release"] = "done"
  BY DEF AfterRemoval, Removals, OwnRemovals, OrphanRemovals

LEMMA WrittenType ==
    ASSUME TypeOK, NEW a \in Acquires PROVE FullyWritten(a) \in FileMaps
  <1>1. [tok |-> a, full |-> TRUE] \in Record /\ file \in FileMaps
    BY RecordFacts DEF TypeOK, FileMaps
  <1>2. \A f \in Paths : [file EXCEPT ![f] = [tok |-> a, full |-> TRUE]] \in FileMaps
    BY <1>1, FileUpdate
  <1> QED
    BY <1>1, <1>2, PathFacts DEF FullyWritten

\* The places a throwing call is left for.
LEMMA ThrownPlaces ==
    ASSUME NEW a \in Acquires, CallFails(a)
    PROVE  /\ Thrown[pc[a]] \in {"failed", "abandoned", "unclaimThrow"}
           /\ Thrown[pc[a]] = "abandoned" <=> pc[a] = "postCheck"
           /\ Thrown[pc[a]] = "unclaimThrow" <=> pc[a] = "confirm"
           /\ pc[a] \in {"try", "create", "recreate", "inspect", "claim", "miss", "postCheck", "confirm"}
           /\ pc[a] \in Synchronous
  BY DEF CallFails, Thrown

LEMMA TypeStep == TypeOK /\ [Next]_vars => TypeOK'
  <1> SUFFICES ASSUME TypeOK, [Next]_vars PROVE TypeOK'
    OBVIOUS
  <1> USE DEF TypeOK
  <1>1. ASSUME NEW a \in Acquires, Begin(a) PROVE TypeOK'
    BY <1>1, PlaceFacts DEF Goto, Begin
  <1>2. ASSUME NEW a \in Acquires, CheckClaim(a) PROVE TypeOK'
    BY <1>2, PlaceFacts, RecordFacts DEF Goto, Paths, CheckClaim
  <1>3. ASSUME NEW a \in Acquires, JudgeClaim(a) PROVE TypeOK'
    BY <1>3, PlaceFacts DEF Goto, JudgeClaim
  <1>4. ASSUME NEW a \in Acquires, CreateLock(a) PROVE TypeOK'
    <2>1. file' \in FileMaps
      <3>1. file' = file \/ file' = [file EXCEPT !["lock"] = [tok |-> a, full |-> FALSE]]
        BY <1>4 DEF CreateLock
      <3>2. [tok |-> a, full |-> FALSE] \in Record /\ file \in FileMaps
        BY RecordFacts DEF FileMaps
      <3>3. [file EXCEPT !["lock"] = [tok |-> a, full |-> FALSE]] \in FileMaps
        BY <3>2, FileUpdate, PathFacts
      <3> QED
        BY <3>1, <3>2, <3>3
    <2>2. pc' \in [Acquires -> Places]
      BY <1>4, PlaceFacts DEF Goto, CreateLock
    <2> QED
      BY <1>4, <2>1, <2>2 DEF CreateLock, FileMaps
  <1>5. ASSUME NEW a \in Acquires, WriteRecord(a) PROVE TypeOK'
    BY <1>5, PlaceFacts, WrittenType DEF Goto, WriteRecord, FileMaps
  <1>6. ASSUME NEW a \in Acquires, WriteFails(a) PROVE TypeOK'
    <2>1. file' \in FileMaps /\ faults' \in 0..MaxFaults
      BY <1>6, WrittenType, FaultsAssumption DEF WriteFails, FileMaps
    <2>2. pc' \in [Acquires -> Places]
      BY <1>6, PlaceFacts DEF Goto, WriteFails
    <2> QED
      BY <1>6, <2>1, <2>2 DEF WriteFails, FileMaps
  <1>7. ASSUME NEW a \in Acquires, PostCheck(a) PROVE TypeOK'
    <2>1. orphan' \in OrphanMaps
      <3>1. orphan' = orphan \/ orphan' = [orphan EXCEPT ![Proc[a]]["lock"] = None]
        BY <1>7 DEF PostCheck
      <3>2. orphan \in OrphanMaps /\ Proc[a] \in Procs
        BY ProcAssumption DEF OrphanMaps
      <3>3. [orphan EXCEPT ![Proc[a]]["lock"] = None] \in OrphanMaps
        BY <3>2, OrphanUpdate, PathFacts
      <3> QED
        BY <3>1, <3>2, <3>3
    <2>2. pc' \in [Acquires -> Places]
      BY <1>7, PlaceFacts DEF Goto, PostCheck
    <2> QED
      BY <1>7, <2>1, <2>2 DEF PostCheck, OrphanMaps
  <1>8. ASSUME NEW a \in Acquires, Inspect(a) PROVE TypeOK'
    <2>1. seen' \in [Acquires -> Acquires \cup {None}]
      BY <1>8, RecordFacts DEF Inspect, Paths
    <2>2. pc' \in [Acquires -> Places]
      BY <1>8, PlaceFacts DEF Goto, Inspect, RefuseAmbiguous
    <2>3. retried' \in [Acquires -> BOOLEAN]
      BY <1>8, PlaceFacts DEF Inspect, RefuseAmbiguous
    <2> QED
      BY <1>8, <2>1, <2>2, <2>3 DEF Inspect
  <1>9. ASSUME NEW a \in Acquires, Judge(a) PROVE TypeOK'
    BY <1>9, PlaceFacts DEF Goto, Judge
  <1>10. ASSUME NEW a \in Acquires, CreateClaim(a) PROVE TypeOK'
    <2>1. file' \in FileMaps
      <3>1. file' = file \/ file' = [file EXCEPT !["claim"] = [tok |-> a, full |-> FALSE]]
        BY <1>10 DEF CreateClaim
      <3>2. [tok |-> a, full |-> FALSE] \in Record /\ file \in FileMaps
        BY RecordFacts DEF FileMaps
      <3>3. [file EXCEPT !["claim"] = [tok |-> a, full |-> FALSE]] \in FileMaps
        BY <3>2, FileUpdate, PathFacts
      <3> QED
        BY <3>1, <3>2, <3>3
    <2>2. pc' \in [Acquires -> Places]
      BY <1>10, PlaceFacts DEF Goto, CreateClaim
    <2> QED
      BY <1>10, <2>1, <2>2 DEF CreateClaim, FileMaps
  <1>11. ASSUME NEW a \in Acquires, Confirm(a) PROVE TypeOK'
    BY <1>11, PlaceFacts DEF Goto, Confirm
  <1>12. ASSUME NEW a \in Acquires, CompareToken(a) PROVE TypeOK'
    <2>1. CASE Succeeds(a)
      BY <1>12, PlaceFacts, <2>1, RemovalPlaces, ProcAssumption DEF Goto, Paths, CompareToken, Succeeds, Target, Expected
    <2>2. CASE Fails(a)
      BY <1>12, PlaceFacts, <2>2, RemovalPlaces, ProcAssumption DEF Goto, Paths, CompareToken, Fails, Target
    <2>3. CASE verified' = [verified EXCEPT ![a] = TRUE] /\ UNCHANGED <<pc, orphan>>
      BY <1>12, PlaceFacts, <2>3 DEF Goto, CompareToken
    <2> QED
      BY <1>12, PlaceFacts, <2>1, <2>2, <2>3 DEF Goto, CompareToken
  <1>13. ASSUME NEW a \in Acquires, Unlink(a) PROVE TypeOK'
    BY <1>13, PlaceFacts, RemovalPlaces, ProcAssumption DEF Goto, Paths, Unlink, Succeeds, Target, Expected
  <1>14. ASSUME NEW a \in Acquires, RemovalFails(a) PROVE TypeOK'
    <2>1. Fails(a) /\ faults' \in 0..MaxFaults
      BY <1>14, FaultsAssumption DEF RemovalFails
    <2>2. orphan' \in OrphanMaps /\ pc' \in [Acquires -> Places] /\ verified' \in [Acquires -> BOOLEAN]
      BY <2>1, PlaceFacts, PathFacts, ProcAssumption, OrphanUpdate
         DEF Fails, Goto, Target, OrphanMaps
    <2> QED
      BY <1>14, <2>1, <2>2 DEF RemovalFails, OrphanMaps
  <1>15. ASSUME NEW a \in Acquires, Retry(a) PROVE TypeOK'
    BY <1>15, PlaceFacts DEF Goto, Retry
  <1>16. ASSUME NEW a \in Acquires, Busy(a) PROVE TypeOK'
    BY <1>16, PlaceFacts DEF Goto, Busy
  <1>17. ASSUME NEW a \in Acquires, Release(a) PROVE TypeOK'
    BY <1>17, PlaceFacts DEF Goto, Release
  <1>18. ASSUME NEW p \in Procs, Crash(p) PROVE TypeOK'
    BY <1>18, FaultsAssumption DEF Crash
  <1>19. CASE UNCHANGED vars
    BY <1>19, PlaceFacts DEF vars
  <1>20. ASSUME NEW a \in Acquires, CallFails(a) PROVE TypeOK'
    <2>1. faults' \in 0..MaxFaults /\ pc' = [pc EXCEPT ![a] = Thrown[pc[a]]]
      BY <1>20, FaultsAssumption DEF CallFails, Goto
    <2>2. pc' \in [Acquires -> Places]
      <3>1. Thrown[pc[a]] \in Places
        BY <1>20, ThrownPlaces, PlaceFacts
      <3> QED
        BY <2>1, <3>1
    <2> QED
      BY <1>20, <2>1, <2>2 DEF CallFails
  <1>21. ASSUME NEW a \in Acquires, OwnerUnknown(a) PROVE TypeOK'
    <2>1. faults' \in 0..MaxFaults
      BY <1>21, FaultsAssumption DEF OwnerUnknown
    <2>2. pc' \in [Acquires -> Places]
      BY <1>21, PlaceFacts DEF OwnerUnknown, RefuseAmbiguous, Goto
    <2>3. retried' \in [Acquires -> BOOLEAN]
      BY <1>21 DEF OwnerUnknown, RefuseAmbiguous
    <2> QED
      BY <1>21, <2>1, <2>2, <2>3 DEF OwnerUnknown
  <1> QED
    BY <1>20, <1>21, <1>1, PlaceFacts, <1>2, <1>3, <1>4, <1>5, <1>6, <1>7, <1>8, <1>9, <1>10, <1>11, <1>12, <1>13, <1>14,
       <1>15, <1>16, <1>17, <1>18, <1>19 DEF Next, Step

(***************************************************************************)
(* The steps, one lemma for the moves that touch no file.                  *)
(***************************************************************************)
Parts == ThreadInv /\ LockInv /\ ClaimInv /\ EvictInv /\ DropInv /\ OrphanInv /\ VerifiedInv

Owning == Removals \cup OwnsLock \cup OwnsClaim

\* A call that owns no file and goes to a place that owns none.
LEMMA PlainMove ==
    ASSUME IInv, NEW a \in Acquires, NEW x \in Places,
           pc' = [pc EXCEPT ![a] = x],
           pc[a] \notin Removals \cup Remembered, x \notin Owning,
           x = "again" => Waits,
           x \in Synchronous => pc[a] \in Synchronous \/ ThreadFree(Proc[a]),
           \A b \in Acquires : b # a => seen'[b] = seen[b],
           UNCHANGED <<file, alive, orphan, verified>>
    PROVE  Parts'
  <1> USE DEF IInv, TypeOK
  <1>1. \A b \in Acquires : pc'[b] = IF b = a THEN x ELSE pc[b]
    OBVIOUS
  <1>2. ThreadInv'
    BY <1>1 DEF ThreadInv, ThreadFree
  <1>3. LockInv'
    BY <1>1 DEF LockInv, Owning, Alive, Names, Full
  <1>4. ClaimInv'
    BY <1>1 DEF ClaimInv, Owning, Alive, Names, Full
  <1>5. EvictInv' /\ DropInv'
    BY <1>1, RemovalPlaces DEF EvictInv, DropInv, Owning, Alive, Names, Full
  <1>6. OrphanInv'
    BY <1>1 DEF OrphanInv, Remembered
  <1>7. VerifiedInv'
    BY <1>1 DEF VerifiedInv
  <1> QED
    BY <1>2, <1>3, <1>4, <1>5, <1>6, <1>7 DEF Parts

\* O_EXCL: a call that creates a file finds the path free, so no other call owns it.
LEMMA CreateStep ==
    ASSUME IInv, NEW a \in Acquires, NEW f \in Paths, NEW x,
           \/ f = "lock" /\ x = "write" /\ pc[a] \in {"create", "recreate"}
           \/ f = "claim" /\ x = "writeClaim" /\ pc[a] = "claim",
           file[f] = None, file' = [file EXCEPT ![f] = [tok |-> a, full |-> FALSE]],
           pc' = [pc EXCEPT ![a] = x], UNCHANGED <<alive, orphan, seen, verified>>
    PROVE  Parts'
  <1> USE DEF IInv, TypeOK
  <1>1. \A b \in Acquires : pc'[b] = IF b = a THEN x ELSE pc[b]
    OBVIOUS
  <1>2. /\ file'[f] = [tok |-> a, full |-> FALSE]
        /\ \A h \in Paths : h # f => file'[h] = file[h]
    BY FileUpdate, RecordFacts DEF FileMaps
  <1>3. Names(f, a)'
    BY <1>2, RecordFacts DEF Names
  <1>4. ThreadInv'
    BY <1>1, <1>2 DEF ThreadInv, Synchronous
  <1>5. LockInv'
    BY <1>1, <1>2, <1>3, PathFacts DEF LockInv, OwnsLock, Alive, Names, Full
  <1>6. ClaimInv'
    BY <1>1, <1>2, <1>3, PathFacts DEF ClaimInv, OwnsClaim, Alive, Names, Full
  <1>7. EvictInv' /\ DropInv'
    BY <1>1, <1>2, PathFacts DEF EvictInv, DropInv, Alive, Names, Full
  <1>8. OrphanInv'
    <2>1. pc[a] \notin Remembered
      BY DEF Remembered
    <2> QED
      BY <1>1, <2>1 DEF OrphanInv, Remembered
  <1>9. VerifiedInv'
    BY <1>1, <1>2, RemovalPlaces DEF VerifiedInv
  <1> QED
    BY <1>4, <1>5, <1>6, <1>7, <1>8, <1>9 DEF Parts

LEMMA WriteStep ==
    ASSUME IInv, NEW a \in Acquires, NEW f \in Paths, NEW x,
           \/ f = "lock" /\ x \in {"postCheck", "abandoned"} /\ pc[a] = "write"
           \/ f = "claim" /\ x \in {"confirm", "abandoned"} /\ pc[a] = "writeClaim",
           Names(f, a), file' = [file EXCEPT ![f] = [tok |-> a, full |-> TRUE]],
           pc' = [pc EXCEPT ![a] = x], UNCHANGED <<alive, orphan, seen, verified>>
    PROVE  Parts'
  <1> USE DEF IInv, TypeOK
  <1>1. \A b \in Acquires : pc'[b] = IF b = a THEN x ELSE pc[b]
    OBVIOUS
  <1>2. /\ file'[f] = [tok |-> a, full |-> TRUE]
        /\ \A h \in Paths : h # f => file'[h] = file[h]
    BY FileUpdate, RecordFacts DEF FileMaps
  <1>3. /\ file[f] # None /\ file[f].tok = a
        /\ file'[f] # None /\ file'[f].tok = a /\ file'[f].full
    BY <1>2, RecordFacts DEF Names
  <1>4. ThreadInv'
    BY <1>1, <1>2 DEF ThreadInv, Synchronous
  <1>5. LockInv'
    BY <1>1, <1>2, <1>3, PathFacts DEF LockInv, OwnsLock, Alive, Names, Full
  <1>6. ClaimInv'
    BY <1>1, <1>2, <1>3, PathFacts DEF ClaimInv, OwnsClaim, Alive, Names, Full
  <1>7. EvictInv'
    BY <1>1, <1>2, <1>3, PathFacts DEF EvictInv, Alive, Names, Full
  <1>8. DropInv'
    BY <1>1, <1>2, <1>3, PathFacts DEF DropInv, Alive, Names, Full
  <1>9. OrphanInv'
    BY <1>1, <1>2 DEF OrphanInv, Remembered
  <1>10. VerifiedInv'
    BY <1>1, <1>2, RemovalPlaces DEF VerifiedInv
  <1> QED
    BY <1>4, <1>5, <1>6, <1>7, <1>8, <1>9, <1>10 DEF Parts

\* A call that goes on to a removal, or holds the lock, without touching a file.
LEMMA OwningMove ==
    ASSUME IInv, NEW a \in Acquires, NEW x, Alive(a),
           pc' = [pc EXCEPT ![a] = x], UNCHANGED <<file, alive, orphan, verified>>,
           \A b \in Acquires : b # a \/ x = "evict" => seen'[b] = seen[b],
           \/ x = "dropOrphanClaim" /\ pc[a] = "try" /\ OwnOrphan(Proc[a], "claim")
           \/ x = "dropOrphanLock" /\ pc[a] = "inspect" /\ OwnOrphan(Proc[a], "lock")
           \/ x = "undo" /\ pc[a] = "postCheck"
           \/ x \in {"unclaim", "unclaimThrow"} /\ pc[a] = "confirm"
           \/ /\ x = "evict" /\ pc[a] = "confirm"
              /\ Names("lock", seen[a]) /\ file["lock"].full /\ OwnerDead(seen[a])
           \/ x = "release" /\ pc[a] \in {"held", "releaseFailed"} /\ ThreadFree(Proc[a])
    PROVE  Parts'
  <1> USE DEF IInv, TypeOK
  <1>1. \A b \in Acquires : pc'[b] = IF b = a THEN x ELSE pc[b]
    OBVIOUS
  <1>2. ThreadInv'
    BY <1>1 DEF ThreadInv, ThreadFree, Synchronous
  <1>3. LockInv'
    BY <1>1 DEF LockInv, OwnsLock, Alive, Names, Full
  <1>4. ClaimInv'
    BY <1>1 DEF ClaimInv, OwnsClaim, Alive, Names, Full
  <1>5. EvictInv'
    <2>1. CASE x = "evict"
      <3>1. file["lock"] # None /\ file["lock"].tok = seen[a]
        BY <1>1, <2>1 DEF Names
      <3>2. file["lock"].full /\ Proc[seen[a]] \notin alive
        BY <1>1, <2>1, <3>1 DEF OwnerDead, Names
      <3> QED
        BY <1>1, <2>1, <3>1, <3>2, RecordFacts, PathFacts DEF EvictInv, Alive, Names, Full
    <2> QED
      BY <1>1, <2>1 DEF EvictInv, Alive, Names, Full
  <1>6. DropInv'
    BY <1>1 DEF DropInv, OwnOrphan, Alive, Names, Full
  <1>7. OrphanInv'
    BY <1>1 DEF OrphanInv, Remembered
  <1>8. VerifiedInv'
    BY <1>1, RemovalPlaces DEF VerifiedInv
  <1> QED
    BY <1>2, <1>3, <1>4, <1>5, <1>6, <1>7, <1>8 DEF Parts

LEMMA PostCheckStep ==
    ASSUME IInv, NEW a \in Acquires, PostCheck(a), file["claim"] = None
    PROVE  Parts'
  <1> USE DEF IInv, TypeOK
  <1>1. /\ pc[a] = "postCheck" /\ Alive(a) /\ UNCHANGED <<file, alive, seen, verified>>
        /\ \A b \in Acquires : pc'[b] = IF b = a THEN "held" ELSE pc[b]
    BY DEF PostCheck, Goto
  <1>2. /\ orphan'[Proc[a]]["lock"] = None
        /\ \A q \in Procs, h \in Paths :
              q # Proc[a] \/ h # "lock" => orphan'[q][h] = orphan[q][h]
    <2>1. orphan \in OrphanMaps /\ Proc[a] \in Procs
      BY ProcAssumption DEF OrphanMaps
    <2>2. orphan' = [orphan EXCEPT ![Proc[a]]["lock"] = None]
      BY DEF PostCheck
    <2> QED
      BY <2>1, <2>2, OrphanUpdate, PathFacts
  <1>3. ThreadInv'
    BY <1>1 DEF ThreadInv, Synchronous, Removals, OwnRemovals, OrphanRemovals
  <1>4. LockInv'
    BY <1>1 DEF LockInv, OwnsLock, Alive, Names, Full
  <1>5. ClaimInv' /\ EvictInv'
    BY <1>1 DEF ClaimInv, OwnsClaim, EvictInv, Alive, Names, Full
  <1>6. DropInv'
    <2>1. ASSUME NEW b \in Acquires, pc[b] = "dropOrphanLock" PROVE Proc[b] # Proc[a]
      BY <1>1, <2>1 DEF ThreadInv, Synchronous, Removals, OrphanRemovals
    <2> QED
      BY <1>1, <1>2, <2>1, PathFacts, ProcAssumption DEF DropInv, Alive, Names, Full
  <1>7. OrphanInv'
    BY <1>1, <1>2 DEF OrphanInv, Remembered
  <1>8. VerifiedInv'
    BY <1>1, RemovalPlaces DEF VerifiedInv
  <1> QED
    BY <1>3, <1>4, <1>5, <1>6, <1>7, <1>8 DEF Parts

\* The crux: whenever a running call is about to remove a file, the file is the one it expects.
LEMMA TokenMatches ==
    ASSUME IInv, NEW a \in Acquires, Alive(a), pc[a] \in Removals
    PROVE  Names(Target(a), Expected(a)) /\ Full(Target(a))
  BY RemovalPlaces
     DEF IInv, LockInv, ClaimInv, EvictInv, DropInv, OwnsLock, OwnsClaim, Target, Expected,
         OrphanRemovals

LEMMA CompareStep ==
    ASSUME IInv, NEW a \in Acquires, CompareToken(a)
    PROVE  Parts'
  <1> USE DEF IInv, TypeOK
  <1>1. /\ pc[a] \in Removals /\ UNCHANGED <<file, alive, orphan, pc, seen>>
        /\ \A b \in Acquires : verified'[b] => b = a \/ verified[b]
    BY TokenMatches DEF CompareToken, Names, Full
  <1>2. ThreadInv' /\ LockInv' /\ ClaimInv' /\ EvictInv' /\ DropInv' /\ OrphanInv'
    BY <1>1 DEF ThreadInv, LockInv, ClaimInv, EvictInv, DropInv, OrphanInv, Alive, Names, Full
  <1>3. VerifiedInv'
    BY <1>1 DEF VerifiedInv
  <1> QED
    BY <1>2, <1>3 DEF Parts

\* What a removal that succeeds leaves: the path is free, and the orphan it recovered is settled.
LEMMA UnlinkStep ==
    ASSUME IInv, NEW a \in Acquires, Unlink(a)
    PROVE  Parts'
  <1> USE DEF IInv, TypeOK
  <1> DEFINE f == Target(a)
             e == Expected(a)
  <1>1. /\ pc[a] \in Removals /\ Alive(a) /\ Proc[a] \in Procs /\ f \in Paths
        /\ file[f] # None /\ file[f].tok = e /\ e \in Acquires
        /\ UNCHANGED <<alive, seen>>
    BY TokenMatches, ProcAssumption, PathFacts, RecordFacts DEF Unlink, Target, Names
  <1>2. /\ file'[f] = None
        /\ \A h \in Paths : h # f => file'[h] = file[h]
    BY <1>1 DEF Unlink
  <1>3. /\ pc'[a] = AfterRemoval[pc[a]]
        /\ \A b \in Acquires : b # a =>
              pc'[b] = IF pc[a] = "dropOrphanLock" /\ b = e /\ pc[b] = "releaseFailed"
                       THEN "done" ELSE pc[b]
    BY DEF Unlink, Succeeds
  <1>4. /\ \A q \in Procs, h \in Paths :
              orphan'[q][h] = IF q = Proc[a] /\ h = f /\ pc[a] # "evict" /\ orphan[q][h] = e
                              THEN None ELSE orphan[q][h]
    <2>1. orphan \in OrphanMaps
      BY DEF OrphanMaps
    <2> QED
      BY <1>1, <2>1, OrphanUpdate DEF Unlink, Succeeds
  <1>5. verified' = [verified EXCEPT ![a] = FALSE]
    BY DEF Unlink, Succeeds
  <1>6. pc'[a] \in {"create", "recreate", "unclaim", "miss", "failed", "done"}
        /\ (pc'[a] = "unclaim" <=> pc[a] = "evict") /\ (pc'[a] = "done" <=> pc[a] = "release")
    BY <1>1, <1>3, RemovalPlaces
  <1>7. \/ pc[a] \in {"undo", "release"} /\ f = "lock" /\ e = a
        \/ pc[a] \in {"unclaim", "unclaimThrow"} /\ f = "claim" /\ e = a
        \/ pc[a] = "evict" /\ f = "lock" /\ e = seen[a] /\ ~Alive(e)
        \/ pc[a] = "dropOrphanLock" /\ f = "lock" /\ e = orphan[Proc[a]][f]
        \/ pc[a] = "dropOrphanClaim" /\ f = "claim" /\ e = orphan[Proc[a]][f]
    BY <1>1, RemovalPlaces DEF Target, Expected, OrphanRemovals, EvictInv
  <1>8. pc[a] \in {"dropOrphanLock", "dropOrphanClaim"} =>
            Proc[e] = Proc[a] /\ pc[e] \in IF f = "claim" THEN {"failed"} ELSE Remembered
    BY <1>1, <1>7, NoneAssumption DEF OrphanInv
  <1>9. \A b \in Acquires : Proc[b] = Proc[a] /\ pc[b] \in Synchronous => b = a
    BY <1>1 DEF ThreadInv, Synchronous
  <1>10. ThreadInv'
    <2>1. \A b \in Acquires : pc'[b] \in Synchronous \cup {"again"} => pc'[b] = pc[b] \/ b = a
      BY <1>3 DEF Synchronous, Removals, OwnRemovals, OrphanRemovals
    <2>2. pc[a] \in Synchronous /\ pc'[a] # "again"
      BY <1>1, <1>6 DEF Synchronous
    <2> QED
      BY <2>1, <2>2 DEF ThreadInv
  <1>11. LockInv'
    BY <1>1, <1>2, <1>3, <1>6, <1>7, <1>8, <1>9, PathFacts
       DEF LockInv, OwnsLock, Remembered, Alive, Names, Full, Synchronous, Removals, OwnRemovals
  <1>12. ClaimInv'
    BY <1>1, <1>2, <1>3, <1>6, <1>7, <1>8, PathFacts DEF ClaimInv, OwnsClaim, Alive, Names, Full
  <1>13. EvictInv'
    BY <1>1, <1>2, <1>3, <1>6, <1>7, <1>8, PathFacts
       DEF EvictInv, ClaimInv, OwnsClaim, Alive, Names, Full
  <1>14. DropInv'
    <2>1. ASSUME NEW b \in Acquires, pc'[b] \in {"dropOrphanLock", "dropOrphanClaim"}
          PROVE  b # a /\ pc[b] = pc'[b] /\ Proc[b] # Proc[a] /\ Proc[b] \in Procs
      BY <1>3, <1>6, <1>9, <2>1, ProcAssumption DEF Synchronous, Removals, OrphanRemovals
    <2>2. ASSUME NEW b \in Acquires, NEW h \in Paths, Proc[b] # Proc[a], Alive(b),
                 Names(h, orphan[Proc[b]][h])
          PROVE  h # f
      <3>1. Proc[b] \in Procs /\ file[h] # None /\ file[h].tok = orphan[Proc[b]][h]
        BY <2>2, ProcAssumption DEF Names
      <3>2. Proc[file[h].tok] = Proc[b]
        BY <3>1, RecordFacts, NoneAssumption DEF OrphanInv
      <3> QED
        BY <1>1, <1>7, <1>8, <2>2, <3>1, <3>2 DEF Alive
    <2> QED
      BY <1>1, <1>2, <1>4, <2>1, <2>2, PathFacts DEF DropInv, Alive, Names, Full
  <1>15. OrphanInv'
    <2> SUFFICES ASSUME NEW p \in Procs, NEW h \in Paths, orphan'[p][h] # None
                 PROVE  /\ Proc[orphan'[p][h]] = p
                        /\ pc'[orphan'[p][h]] \in IF h = "claim" THEN {"failed"} ELSE Remembered
      BY DEF OrphanInv
    <2> DEFINE o == orphan[p][h]
    <2>1. orphan'[p][h] = o /\ o \in Acquires /\ Proc[o] = p
          /\ pc[o] \in IF h = "claim" THEN {"failed"} ELSE Remembered
      BY <1>4 DEF OrphanInv
    <2>2. o # a
      BY <1>1, <1>4, <1>7, <2>1, RemovalPlaces, PathFacts DEF Remembered, Paths
    <2>3. pc'[o] = pc[o]
      BY <1>3, <1>4, <1>7, <1>8, <2>1, <2>2 DEF Paths
    <2> QED
      BY <2>1, <2>3
  <1>16. VerifiedInv'
    BY <1>1, <1>3, <1>5, RemovalPlaces DEF VerifiedInv
  <1> QED
    BY <1>10, <1>11, <1>12, <1>13, <1>14, <1>15, <1>16 DEF Parts

LEMMA RemovalFailsStep ==
    ASSUME IInv, NEW a \in Acquires, RemovalFails(a)
    PROVE  Parts'
  <1> USE DEF IInv, TypeOK
  <1> DEFINE f == Target(a)
             x == IF pc[a] = "release" THEN "releaseFailed"
                  ELSE IF pc[a] = "evict" THEN "unclaimThrow" ELSE "failed"
  <1>1. /\ pc[a] \in Removals /\ Alive(a) /\ Proc[a] \in Procs /\ f \in Paths
        /\ UNCHANGED <<alive, seen, file>>
        /\ (f = "claim" <=> pc[a] \in {"dropOrphanClaim", "unclaim", "unclaimThrow"})
        /\ verified' = [verified EXCEPT ![a] = FALSE]
    BY ProcAssumption, PathFacts DEF RemovalFails, Fails, Target
  <1>2. \A b \in Acquires : pc'[b] = IF b = a THEN x ELSE pc[b]
    BY DEF RemovalFails, Fails, Goto
  <1>3. \A q \in Procs, h \in Paths :
            orphan'[q][h] = IF q = Proc[a] /\ h = f /\ pc[a] \in OwnRemovals THEN a
                            ELSE orphan[q][h]
    <2>1. orphan \in OrphanMaps
      BY DEF OrphanMaps
    <2> QED
      BY <1>1, <2>1, OrphanUpdate DEF RemovalFails, Fails
  <1>4. \A b \in Acquires : Proc[b] = Proc[a] /\ pc[b] \in Synchronous => b = a
    BY <1>1 DEF ThreadInv, Synchronous
  <1>5. ThreadInv'
    <2>1. \A b \in Acquires : b # a => pc'[b] = pc[b]
      BY <1>2
    <2>2. pc[a] \in Synchronous /\ pc'[a] # "again"
      BY <1>1, <1>2 DEF Synchronous
    <2> QED
      BY <2>1, <2>2 DEF ThreadInv
  <1>6. LockInv'
    BY <1>1, <1>2 DEF LockInv, OwnsLock, Alive, Names, Full
  <1>7. ClaimInv'
    BY <1>1, <1>2 DEF ClaimInv, OwnsClaim, Alive, Names, Full
  <1>8. EvictInv'
    BY <1>1, <1>2 DEF EvictInv, Alive, Names, Full
  <1>9. DropInv'
    <2>1. ASSUME NEW b \in Acquires, pc'[b] \in {"dropOrphanLock", "dropOrphanClaim"}
          PROVE  pc[b] = pc'[b] /\ Proc[b] # Proc[a] /\ Proc[b] \in Procs
      BY <1>2, <1>4, <2>1, ProcAssumption DEF Synchronous, Removals, OrphanRemovals
    <2> QED
      BY <1>1, <1>3, <2>1, PathFacts DEF DropInv, Alive, Names, Full
  <1>10. OrphanInv'
    <2> SUFFICES ASSUME NEW p \in Procs, NEW h \in Paths, orphan'[p][h] # None
                 PROVE  /\ Proc[orphan'[p][h]] = p
                        /\ pc'[orphan'[p][h]] \in IF h = "claim" THEN {"failed"} ELSE Remembered
      BY DEF OrphanInv
    <2>1. CASE p = Proc[a] /\ h = f /\ pc[a] \in OwnRemovals
      BY <1>1, <1>2, <1>3, <2>1 DEF Remembered, OwnRemovals
    <2>2. CASE ~(p = Proc[a] /\ h = f /\ pc[a] \in OwnRemovals)
      <3>1. orphan'[p][h] = orphan[p][h] /\ orphan[p][h] \in Acquires
        BY <1>3, <2>2
      <3>2. orphan[p][h] = a => pc[a] = "release" /\ h = "lock"
        BY <1>1, <3>1, RemovalPlaces DEF OrphanInv, Remembered, Paths
      <3> QED
        BY <1>2, <3>1, <3>2 DEF OrphanInv, Remembered
    <2> QED
      BY <2>1, <2>2
  <1>11. VerifiedInv'
    BY <1>1, <1>2 DEF VerifiedInv
  <1> QED
    BY <1>5, <1>6, <1>7, <1>8, <1>9, <1>10, <1>11 DEF Parts

LEMMA CrashStep ==
    ASSUME IInv, NEW p \in Procs, Crash(p)
    PROVE  Parts'
  BY DEF IInv, TypeOK, Crash, Parts, ThreadInv, LockInv, ClaimInv, EvictInv, DropInv, OrphanInv,
         VerifiedInv, Alive, Names, Full

LEMMA PartsStep ==
    ASSUME IInv, [Next]_vars PROVE Parts'
  <1> USE DEF Goto
  <1> DEFINE Quiet(a) == pc[a] \notin Removals \cup Remembered
  <1>0. ASSUME NEW x \in {"idle", "try", "judgeClaim", "create", "inspect", "judge", "claim", "miss",
                          "again", "busy", "failed", "abandoned"}
        PROVE  x \in Places /\ x \notin Owning
    BY PlaceFacts, RemovalPlaces DEF Owning, OwnsLock, OwnsClaim
  <1>1. ASSUME NEW a \in Acquires, Begin(a) PROVE Parts'
    BY <1>0, <1>1, PlainMove, RemovalPlaces DEF Begin, Remembered
  <1>2. ASSUME NEW a \in Acquires, CheckClaim(a) PROVE Parts'
    <2>1. CASE pc' = [pc EXCEPT ![a] = "dropOrphanClaim"] /\ OwnOrphan(Proc[a], "claim")
      BY <1>2, <2>1, OwningMove DEF CheckClaim, IInv, TypeOK
    <2>2. ASSUME NEW x \in {"create", "judgeClaim", "failed"}, pc' = [pc EXCEPT ![a] = x]
          PROVE  Parts'
      <3>1. pc[a] \in Synchronous /\ Quiet(a)
        BY <1>2, RemovalPlaces DEF CheckClaim, Synchronous, Remembered
      <3>2. \A b \in Acquires : b # a => seen'[b] = seen[b]
        BY <1>2 DEF CheckClaim, IInv, TypeOK
      <3> QED
        BY <1>0, <1>2, <2>2, <3>1, <3>2, PlainMove DEF CheckClaim
    <2> QED
      BY <1>2, <2>1, <2>2 DEF CheckClaim
  <1>3. ASSUME NEW a \in Acquires, JudgeClaim(a) \/ Judge(a) PROVE Parts'
    <2>1. pc[a] \in Synchronous /\ Quiet(a) /\ UNCHANGED <<file, alive, orphan, verified, seen>>
      BY <1>3, RemovalPlaces DEF JudgeClaim, Judge, Synchronous, Remembered
    <2>2. PICK x \in {"miss", "failed", "claim"} : pc' = [pc EXCEPT ![a] = x]
      BY <1>3 DEF JudgeClaim, Judge
    <2> QED
      BY <1>0, <2>1, <2>2, PlainMove
  <1>4. ASSUME NEW a \in Acquires, CreateLock(a) PROVE Parts'
    <2>1. CASE file["lock"] = None
      BY <1>4, <2>1, CreateStep, PathFacts DEF CreateLock
    <2>2. CASE file["lock"] # None
      <3>1. pc[a] \in Synchronous /\ Quiet(a) /\ UNCHANGED <<file, alive, orphan, verified, seen>>
        BY <1>4, <2>2, RemovalPlaces DEF CreateLock, Synchronous, Remembered
      <3>2. PICK x \in {"miss", "inspect"} : pc' = [pc EXCEPT ![a] = x]
        BY <1>4, <2>2 DEF CreateLock
      <3> QED
        BY <1>0, <3>1, <3>2, PlainMove
    <2> QED
      BY <2>1, <2>2
  <1>5. ASSUME NEW a \in Acquires, WriteRecord(a) PROVE Parts'
    <2>1. CASE pc[a] = "write"
      <3>1. Names("lock", a)
        BY <1>5, <2>1 DEF WriteRecord, IInv, LockInv, OwnsLock
      <3> QED
        BY <1>5, <2>1, <3>1, WriteStep, PathFacts DEF WriteRecord, FullyWritten
    <2>2. CASE pc[a] = "writeClaim"
      <3>1. Names("claim", a)
        BY <1>5, <2>2 DEF WriteRecord, IInv, ClaimInv, OwnsClaim
      <3> QED
        BY <1>5, <2>2, <3>1, WriteStep, PathFacts DEF WriteRecord, FullyWritten
    <2> QED
      BY <1>5, <2>1, <2>2 DEF WriteRecord
  <1>6. ASSUME NEW a \in Acquires, WriteFails(a) PROVE Parts'
    <2>1. Quiet(a)
      BY <1>6, RemovalPlaces DEF WriteFails, Remembered
    <2>2. "failed" \notin Synchronous
      BY DEF Synchronous, Removals, OwnRemovals, OrphanRemovals
    <2>3. CASE pc' = [pc EXCEPT ![a] = "failed"] /\ file' = file
      BY <1>0, <1>6, <2>1, <2>2, <2>3, PlainMove DEF WriteFails
    <2>4. CASE pc' = [pc EXCEPT ![a] = "abandoned"] /\ file' = FullyWritten(a)
      <3>1. CASE pc[a] = "write"
        <4>1. Names("lock", a)
          BY <1>6, <3>1 DEF WriteFails, IInv, LockInv, OwnsLock
        <4> QED
          BY <1>6, <2>4, <3>1, <4>1, WriteStep, PathFacts DEF WriteFails, FullyWritten
      <3>2. CASE pc[a] = "writeClaim"
        <4>1. Names("claim", a)
          BY <1>6, <3>2 DEF WriteFails, IInv, ClaimInv, OwnsClaim
        <4> QED
          BY <1>6, <2>4, <3>2, <4>1, WriteStep, PathFacts DEF WriteFails, FullyWritten
      <3> QED
        BY <1>6, <3>1, <3>2 DEF WriteFails
    <2> QED
      BY <1>6, <2>3, <2>4 DEF WriteFails
  <1>7. ASSUME NEW a \in Acquires, PostCheck(a) PROVE Parts'
    <2>1. CASE file["claim"] = None
      BY <1>7, <2>1, PostCheckStep
    <2>2. CASE file["claim"] # None
      BY <1>7, <2>2, OwningMove DEF PostCheck
    <2> QED
      BY <2>1, <2>2
  <1>8. ASSUME NEW a \in Acquires, Inspect(a) PROVE Parts'
    <2>1. CASE pc' = [pc EXCEPT ![a] = "dropOrphanLock"] /\ OwnOrphan(Proc[a], "lock")
      BY <1>8, <2>1, OwningMove DEF Inspect, IInv, TypeOK
    <2>2. ASSUME NEW x \in {"miss", "judge", "again", "failed"}, pc' = [pc EXCEPT ![a] = x],
                 x = "again" => Waits
          PROVE  Parts'
      <3>1. pc[a] \in Synchronous /\ Quiet(a)
        BY <1>8, RemovalPlaces DEF Inspect, Synchronous, Remembered
      <3>2. \A b \in Acquires : b # a => seen'[b] = seen[b]
        BY <1>8 DEF Inspect, IInv, TypeOK
      <3> QED
        BY <1>0, <1>8, <2>2, <3>1, <3>2, PlainMove DEF Inspect
    <2> QED
      BY <1>8, <2>1, <2>2 DEF Inspect, RefuseAmbiguous
  <1>9. ASSUME NEW a \in Acquires, CreateClaim(a) PROVE Parts'
    <2>1. CASE file["claim"] = None
      BY <1>9, <2>1, CreateStep, PathFacts DEF CreateClaim
    <2>2. CASE file["claim"] # None
      <3>1. pc[a] \in Synchronous /\ Quiet(a)
        BY <1>9, RemovalPlaces DEF CreateClaim, Synchronous, Remembered
      <3> QED
        BY <1>0, <1>9, <2>2, <3>1, PlainMove DEF CreateClaim
    <2> QED
      BY <2>1, <2>2
  <1>10. ASSUME NEW a \in Acquires, Confirm(a) PROVE Parts'
    BY <1>10, OwningMove DEF Confirm
  <1>11. ASSUME NEW a \in Acquires, CompareToken(a) PROVE Parts'
    BY <1>11, CompareStep
  <1>12. ASSUME NEW a \in Acquires, Unlink(a) PROVE Parts'
    BY <1>12, UnlinkStep
  <1>13. ASSUME NEW a \in Acquires, RemovalFails(a) PROVE Parts'
    BY <1>13, RemovalFailsStep
  <1>14. ASSUME NEW a \in Acquires, Retry(a) PROVE Parts'
    <2>1. Quiet(a)
      BY <1>14, RemovalPlaces DEF Retry, Remembered
    <2>2. pc[a] \in Synchronous \/ ThreadFree(Proc[a])
      BY <1>14 DEF Retry, Synchronous, IInv, ThreadInv
    <2> QED
      BY <1>0, <1>14, <2>1, <2>2, PlainMove DEF Retry
  <1>15. ASSUME NEW a \in Acquires, Busy(a) PROVE Parts'
    <2>1. Quiet(a)
      BY <1>15, RemovalPlaces DEF Busy, Remembered
    <2>2. "busy" \notin Synchronous
      BY DEF Synchronous, Removals, OwnRemovals, OrphanRemovals
    <2> QED
      BY <1>0, <1>15, <2>1, <2>2, PlainMove DEF Busy
  <1>16. ASSUME NEW a \in Acquires, Release(a) PROVE Parts'
    BY <1>16, OwningMove DEF Release
  <1>17. ASSUME NEW p \in Procs, Crash(p) PROVE Parts'
    BY <1>17, CrashStep
  <1>18. CASE UNCHANGED vars
    BY <1>18 DEF vars, IInv, Parts, ThreadInv, LockInv, ClaimInv, EvictInv, DropInv, OrphanInv,
                 VerifiedInv, Alive, Names, Full
  <1>19. ASSUME NEW a \in Acquires, CallFails(a) PROVE Parts'
    <2>1. Alive(a) /\ UNCHANGED <<file, alive, orphan, seen, verified>>
      BY <1>19 DEF CallFails
    <2>2. CASE pc[a] = "confirm"
      BY <1>19, <2>1, <2>2, ThrownPlaces, OwningMove DEF CallFails
    <2>3. CASE pc[a] # "confirm"
      <3>1. PICK x \in {"failed", "abandoned"} : pc' = [pc EXCEPT ![a] = x]
        BY <1>19, <2>3, ThrownPlaces DEF CallFails
      <3>2. pc[a] \in Synchronous /\ Quiet(a)
        BY <1>19, <2>3, ThrownPlaces, RemovalPlaces DEF Remembered
      <3> QED
        BY <1>0, <2>1, <3>1, <3>2, PlainMove
    <2> QED
      BY <2>2, <2>3
  <1>20. ASSUME NEW a \in Acquires, OwnerUnknown(a) PROVE Parts'
    <2>1. Alive(a) /\ UNCHANGED <<file, alive, orphan, seen, verified>>
      BY <1>20 DEF OwnerUnknown
    <2>2. CASE pc[a] = "confirm"
      BY <1>20, <2>1, <2>2, OwningMove DEF OwnerUnknown
    <2>3. CASE pc[a] # "confirm"
      <3>1. PICK x \in {"failed", "again"} : pc' = [pc EXCEPT ![a] = x] /\ (x = "again" => Waits)
        BY <1>20, <2>3 DEF OwnerUnknown, RefuseAmbiguous
      <3>2. pc[a] \in Synchronous /\ Quiet(a)
        BY <1>20, RemovalPlaces DEF OwnerUnknown, Remembered, Synchronous
      <3> QED
        BY <1>0, <2>1, <3>1, <3>2, PlainMove
    <2> QED
      BY <2>2, <2>3
  <1> QED
    BY <1>1, <1>2, <1>3, <1>4, <1>5, <1>6, <1>7, <1>8, <1>9, <1>10, <1>11, <1>12, <1>13, <1>14,
       <1>15, <1>16, <1>17, <1>18, <1>19, <1>20 DEF Next, Step

THEOREM Invariance == Spec => []IInv
  <1>1. IInv /\ [Next]_vars => IInv'
    BY TypeStep, PartsStep DEF IInv, Parts
  <1> QED
    BY InitIInv, <1>1, PTL DEF Spec

\* Every variable keeps its type.
THEOREM TypeCorrect == Spec => []TypeOK
  BY Invariance, PTL DEF IInv

\* No two running callbacks ever hold one workspace lock (withWorkspaceMutation,
\* acquireExecutionLease), for any number of processes, calls, crashes and failures.
THEOREM OneHolder == Spec => []MutualExclusion
  <1>1. IInv => MutualExclusion
    BY DEF IInv, LockInv, OwnsLock, MutualExclusion, Holds, Names
  <1> QED
    BY Invariance, <1>1, PTL

\* The file removeOwned unlinks is the one whose token it compared, though other
\* processes run between the two calls.
THEOREM UnlinkIsSafe == Spec => []CompareHoldsAtUnlink
  <1>1. IInv => CompareHoldsAtUnlink
    BY TokenMatches DEF IInv, VerifiedInv, CompareHoldsAtUnlink, Full
  <1> QED
    BY Invariance, <1>1, PTL

\* A file changes in two ways only: a free path gets its creator's record, whose call then
\* completes it, or a call in a removal unlinks the record it expects.
LEMMA FileStep ==
    ASSUME IInv, [Next]_vars, NEW f \in Paths, NEW a \in Acquires, Names(f, a), ~Names(f, a)'
    PROVE  \E b \in Acquires : Unlink(b) /\ Target(b) = f /\ Expected(b) = a
  <1> USE DEF IInv, TypeOK
  <1>1. ASSUME NEW b \in Acquires, CreateLock(b) \/ CreateClaim(b) PROVE FALSE
    <2>1. ASSUME NEW h \in Paths, NEW r \in Record, file[h] = None, file' = [file EXCEPT ![h] = r]
          PROVE  FALSE
      <3>1. f # h
        BY <2>1 DEF Names
      <3> QED
        BY <2>1, <3>1 DEF Names
    <2>2. [tok |-> b, full |-> FALSE] \in Record
      BY RecordFacts
    <2>3. file' # file
      BY DEF Names
    <2> QED
      BY <1>1, <2>1, <2>2, <2>3, PathFacts DEF CreateLock, CreateClaim
  <1>2. ASSUME NEW b \in Acquires, file' = FullyWritten(b) PROVE FALSE
    <2>1. ASSUME NEW h \in Paths, Names(h, b), file' = [file EXCEPT ![h] = [tok |-> b, full |-> TRUE]]
          PROVE  FALSE
      <3>1. file'[h] = [tok |-> b, full |-> TRUE] /\ (f # h => file'[f] = file[f])
        BY <2>1
      <3> QED
        BY <2>1, <3>1, RecordFacts DEF Names
    <2>2. file' # file
      BY DEF Names
    <2> QED
      BY <1>2, <2>1, <2>2, PathFacts DEF FullyWritten
  <1>3. ASSUME NEW b \in Acquires, Unlink(b) PROVE Target(b) = f /\ Expected(b) = a
    <2>1. Names(Target(b), Expected(b)) /\ Target(b) \in Paths
      BY <1>3, TokenMatches, PathFacts DEF Unlink, Target
    <2>2. Target(b) = f
      BY <1>3, <2>1 DEF Unlink, Names
    <2> QED
      BY <2>1, <2>2 DEF Names
  <1>4. CASE UNCHANGED file
    BY <1>4 DEF Names
  <1> QED
    BY <1>1, <1>2, <1>3, <1>4 DEF Next, Step, vars, Begin, CheckClaim, JudgeClaim, WriteRecord,
       WriteFails, CallFails, OwnerUnknown, PostCheck, Inspect, Judge, Confirm, CompareToken, RemovalFails, Retry, Busy, Release, Crash

\* A running process's lock file is removed by a removal of that process only.
THEOREM LiveRecordsSafe == Spec => OnlyOwnersRemoveLiveRecords
  <1>1. ASSUME IInv, [Next]_vars, NEW a \in Acquires, Names("lock", a), Alive(a), ~Names("lock", a)'
        PROVE  \E b \in Acquires : Proc[b] = Proc[a] /\ pc[b] \in Removals /\ pc'[b] # pc[b]
    <2>1. PICK b \in Acquires : Unlink(b) /\ Target(b) = "lock" /\ Expected(b) = a
      BY <1>1, FileStep, PathFacts
    <2>2. pc[b] \in Removals /\ Alive(b) /\ pc'[b] = AfterRemoval[pc[b]]
      BY <2>1 DEF Unlink, Succeeds, IInv, TypeOK
    <2>3. pc'[b] # pc[b]
      BY <2>2, RemovalPlaces
    <2>4. Proc[b] = Proc[a]
      <3>1. CASE pc[b] \in OrphanRemovals
        BY <1>1, <2>1, <2>2, <3>1, PathFacts, ProcAssumption, NoneAssumption
           DEF IInv, OrphanInv, Expected
      <3>2. CASE pc[b] = "evict"
        BY <1>1, <2>1, <2>2, <3>2 DEF IInv, EvictInv, Expected, OrphanRemovals
      <3> QED
        BY <2>1, <3>1, <3>2 DEF Expected
    <2> QED
      BY <2>2, <2>3, <2>4
  <1>2. IInv /\ [Next]_vars =>
           [\A a \in Acquires : Names("lock", a) /\ Alive(a) /\ ~Names("lock", a)' =>
              \E b \in Acquires : Proc[b] = Proc[a] /\ pc[b] \in Removals /\ pc'[b] # pc[b]]_vars
    BY <1>1
  <1> QED
    BY Invariance, <1>2, PTL DEF Spec, OnlyOwnersRemoveLiveRecords

\* Nobody takes away the claim of a process that died in its recovery.
THEOREM ClaimsStay == Spec => AbandonedClaimStays
  <1>1. ASSUME IInv, [Next]_vars, NEW a \in Acquires, Names("claim", a), ~Alive(a), ~Names("claim", a)'
        PROVE  FALSE
    <2>1. PICK b \in Acquires : Unlink(b) /\ Target(b) = "claim" /\ Expected(b) = a
      BY <1>1, FileStep, PathFacts
    <2>2. pc[b] \in Removals /\ Alive(b) /\ pc[b] # "evict"
      BY <2>1 DEF Unlink, Target
    <2>3. Proc[b] = Proc[a]
      BY <1>1, <2>1, <2>2, PathFacts, ProcAssumption, NoneAssumption
         DEF IInv, OrphanInv, Expected
    <2> QED
      BY <1>1, <2>2, <2>3 DEF Alive
  <1>2. IInv /\ [Next]_vars =>
           [\A a \in Acquires : Names("claim", a) /\ ~Alive(a) => Names("claim", a)']_vars
    BY <1>1
  <1> QED
    BY Invariance, <1>2, PTL DEF Spec, AbandonedClaimStays

LEMMA HolderFacts ==
    ASSUME IInv
    PROVE  /\ \A a \in Acquires : Holds(a) => Holder = a
           /\ Holder # None => Holder \in Acquires /\ Holds(Holder)
           /\ (\A a \in Acquires : ~Holds(a)) => Holder = None
  <1>1. MutualExclusion
    BY DEF IInv, LockInv, OwnsLock, MutualExclusion, Holds, Names
  <1> QED
    BY <1>1, NoneAssumption DEF Holder, MutualExclusion

\* The same facts one step later.
LEMMA HolderNext ==
    IInv' => /\ \A a \in Acquires : Holds(a)' => Holder' = a
             /\ (\A a \in Acquires : ~Holds(a)') => Holder' = None
  <1>1. IInv' => MutualExclusion'
    BY DEF IInv, LockInv, OwnsLock, MutualExclusion, Holds, Names
  <1> QED
    BY <1>1, NoneAssumption DEF Holder, MutualExclusion

LEMMA HolderSame ==
    ASSUME IInv, IInv', \A a \in Acquires : Holds(a)' <=> Holds(a)
    PROVE  Holder' = Holder
  BY HolderFacts, HolderNext

\* The steps that change neither who holds the lock nor who was granted it.
LEMMA Stutter ==
    ASSUME IInv, IInv', UNCHANGED alive,
           \A a \in Acquires : pc'[a] = "held" <=> pc[a] = "held",
           \A a \in Acquires : pc'[a] \in {"release", "releaseFailed", "done"} <=>
                               pc[a] \in {"release", "releaseFailed", "done"}
    PROVE  UNCHANGED Lease!vars
  <1>1. Holder' = Holder
    BY HolderSame DEF Holds, Alive
  <1>2. Granted' = Granted
    BY DEF Granted
  <1> QED
    BY <1>1, <1>2 DEF Lease!vars

\* A workspace lock does to its callers what an ExclusiveLease does: PostCheck grants it,
\* the start of a release gives it up, and a crash of the holder's process ends it.
THEOREM ImplementsLease == Spec => LeaseSafety
  <1>1. Init => Lease!Init
    BY NoneAssumption DEF Init, Lease!Init, Holder, Granted, Holds
  <1>2. ASSUME IInv, IInv', [Next]_vars PROVE [Lease!Next]_(Lease!vars)
    <2>0. pc \in [Acquires -> Places]
      BY <1>2 DEF IInv, TypeOK
    <2>1. ASSUME NEW a \in Acquires, PostCheck(a), file["claim"] = None
          PROVE  Lease!Grant(a)
      <3>1. pc[a] = "postCheck" /\ Alive(a) /\ alive' = alive /\ pc' = [pc EXCEPT ![a] = "held"]
        BY <1>2, <2>0, <2>1 DEF PostCheck, Goto
      <3>2. \A b \in Acquires : ~Holds(b)
        BY <1>2, <3>1 DEF IInv, LockInv, OwnsLock, Holds, Names
      <3>3. Holder = None /\ Holder' = a
        BY <1>2, <2>0, <3>1, <3>2, HolderFacts, HolderNext DEF Holds, Alive
      <3>4. a \notin Granted /\ Granted' = Granted \cup {a}
        BY <1>2, <2>0, <3>1 DEF Granted
      <3> QED
        BY <3>1, <3>3, <3>4 DEF Lease!Grant, Alive
    <2>2. ASSUME NEW a \in Acquires, Release(a), pc[a] = "held"
          PROVE  Lease!GiveUp
      <3>1. Alive(a) /\ alive' = alive /\ pc' = [pc EXCEPT ![a] = "release"]
        BY <1>2, <2>0, <2>2 DEF Release, Goto
      <3>2. Holder = a /\ \A b \in Acquires : b # a => ~Holds(b)
        BY <1>2, <2>0, <2>2, <3>1, HolderFacts DEF Holds
      <3>3. Holder' = None
        BY <1>2, <2>0, <3>1, <3>2, HolderNext DEF Holds, Alive
      <3>4. Granted' = Granted
        BY <1>2, <2>0, <2>2, <3>1 DEF Granted
      <3> QED
        BY <3>1, <3>2, <3>3, <3>4, NoneAssumption DEF Lease!GiveUp
    <2>3. ASSUME NEW p \in Procs, Crash(p) PROVE Lease!Die(p)
      <3>1. p \in alive /\ alive' = alive \ {p} /\ pc' = pc
        BY <1>2, <2>0, <2>3 DEF Crash
      <3>2. Granted' = Granted
        BY <1>2, <2>0, <3>1 DEF Granted
      <3>3. CASE Holder # None /\ Proc[Holder] = p
        <4>1. \A b \in Acquires : ~Holds(b)'
          BY <1>2, <2>0, <3>1, <3>3, HolderFacts DEF Holds, Alive
        <4> QED
          BY <1>2, <3>1, <3>2, <3>3, <4>1, HolderNext DEF Lease!Die
      <3>4. CASE ~(Holder # None /\ Proc[Holder] = p)
        <4>1. \A b \in Acquires : Holds(b)' <=> Holds(b)
          BY <1>2, <2>0, <3>1, <3>4, HolderFacts, NoneAssumption DEF Holds, Alive
        <4>2. Holder' = Holder
          BY <1>2, <4>1, HolderSame
        <4> QED
          BY <3>1, <3>2, <3>4, <4>2 DEF Lease!Die
      <3> QED
        BY <3>3, <3>4
    <2>4. ASSUME NEW a \in Acquires, Release(a), pc[a] # "held" PROVE UNCHANGED Lease!vars
      BY <1>2, <2>0, <2>4, Stutter DEF Release, Goto
    <2>5. ASSUME NEW a \in Acquires, Unlink(a) PROVE UNCHANGED Lease!vars
      <3>1. pc[a] \in Removals /\ pc'[a] = AfterRemoval[pc[a]] /\ UNCHANGED alive
            /\ \A b \in Acquires : b # a =>
                  pc'[b] = pc[b] \/ (pc'[b] = "done" /\ pc[b] = "releaseFailed")
        BY <1>2, <2>0, <2>5 DEF Unlink, Succeeds
      <3> QED
        BY <1>2, <2>0, <3>1, Stutter, RemovalPlaces
    <2>6. ASSUME NEW a \in Acquires, RemovalFails(a) PROVE UNCHANGED Lease!vars
      BY <1>2, <2>0, <2>6, Stutter, RemovalPlaces DEF RemovalFails, Fails, Goto
    <2>7. ASSUME NEW a \in Acquires, CompareToken(a) PROVE UNCHANGED Lease!vars
      <3>1. UNCHANGED <<alive, pc>>
        BY <1>2, <2>0, <2>7, TokenMatches DEF CompareToken, Names, Full
      <3> QED
        BY <1>2, <2>0, <3>1, Stutter
    <2>8. ASSUME NEW a \in Acquires, PostCheck(a), file["claim"] # None PROVE UNCHANGED Lease!vars
      BY <1>2, <2>0, <2>8, Stutter DEF PostCheck, Goto
    <2>9. ASSUME NEW a \in Acquires,
                 \/ Begin(a) \/ CheckClaim(a) \/ JudgeClaim(a) \/ CreateLock(a) \/ WriteRecord(a)
                 \/ WriteFails(a) \/ Inspect(a) \/ Judge(a) \/ CreateClaim(a) \/ Confirm(a)
                 \/ OwnerUnknown(a) \/ Retry(a) \/ Busy(a)
          PROVE  UNCHANGED Lease!vars
      <3>1. UNCHANGED alive /\ pc[a] \notin {"held", "release", "releaseFailed", "done"}
        BY <1>2, <2>0, <2>9 DEF Begin, CheckClaim, JudgeClaim, CreateLock, WriteRecord, WriteFails, Inspect,
                    Judge, CreateClaim, Confirm, OwnerUnknown, RefuseAmbiguous, Retry, Busy
      <3>2. \E x : pc' = [pc EXCEPT ![a] = x]
                 /\ x \notin {"held", "release", "releaseFailed", "done"}
        BY <1>2, <2>0, <2>9 DEF Begin, CheckClaim, JudgeClaim, CreateLock, WriteRecord, WriteFails, Inspect,
                    Judge, CreateClaim, Confirm, OwnerUnknown, RefuseAmbiguous, Retry, Busy, Goto
      <3> QED
        BY <1>2, <2>0, <3>1, <3>2, Stutter
    <2>10. CASE UNCHANGED vars
      BY <1>2, <2>0, <2>10, Stutter DEF vars
    <2>11. ASSUME NEW a \in Acquires, CallFails(a) PROVE UNCHANGED Lease!vars
      <3>1. UNCHANGED alive /\ pc' = [pc EXCEPT ![a] = Thrown[pc[a]]]
        BY <2>11 DEF CallFails, Goto
      <3> QED
        BY <1>2, <2>0, <2>11, <3>1, ThrownPlaces, Stutter
    <2> QED
      BY <1>2, <2>1, <2>2, <2>3, <2>4, <2>5, <2>6, <2>7, <2>8, <2>9, <2>10, <2>11
         DEF Next, Step, Lease!Next
  <1> QED
    BY <1>1, <1>2, Invariance, PTL DEF Spec, LeaseSafety, Lease!Spec

(***************************************************************************)
(* No record is left that its process would refuse for ever.               *)
(***************************************************************************)
\* The places of a call that still has to remove its complete record, holds the lock, or
\* abandoned the record before any removal.
Answers == [lock |-> {"postCheck", "held", "undo", "release", "abandoned"},
            claim |-> {"confirm", "evict", "unclaim", "unclaimThrow", "abandoned"}]

RecordInv ==
    \A a \in Acquires, f \in Paths :
        Names(f, a) /\ Full(f) /\ Alive(a) => pc[a] \in Answers[f] \/ orphan[Proc[a]][f] = a

\* A call moves on, without a change to a file, to a place that answers for as much.
LEMMA RecordMove ==
    ASSUME IInv, RecordInv, NEW a \in Acquires, NEW x, pc' = [pc EXCEPT ![a] = x],
           \A f \in Paths : pc[a] \in Answers[f] => x \in Answers[f],
           UNCHANGED <<file, alive, orphan>>
    PROVE  RecordInv'
  <1>1. \A b \in Acquires : pc'[b] = IF b = a THEN x ELSE pc[b]
    BY DEF IInv, TypeOK
  <1> QED
    BY <1>1 DEF RecordInv, Names, Full, Alive

\* A file that is created or written stands under the call that does it.
LEMMA RecordWrite ==
    ASSUME IInv, RecordInv, NEW a \in Acquires, NEW f \in Paths, NEW b \in BOOLEAN, NEW x,
           file' = [file EXCEPT ![f] = [tok |-> a, full |-> b]], pc' = [pc EXCEPT ![a] = x],
           b => x \in Answers[f], \A h \in Paths \ {f} : pc[a] \notin Answers[h],
           UNCHANGED <<alive, orphan>>
    PROVE  RecordInv'
  <1>1. \A c \in Acquires : pc'[c] = IF c = a THEN x ELSE pc[c]
    BY DEF IInv, TypeOK
  <1>2. file'[f] = [tok |-> a, full |-> b] /\ \A h \in Paths : h # f => file'[h] = file[h]
    BY DEF IInv, TypeOK
  <1> QED
    BY <1>1, <1>2 DEF RecordInv, Names, Full, Alive

LEMMA RecordPostCheck ==
    ASSUME IInv, RecordInv, NEW a \in Acquires, PostCheck(a), file["claim"] = None
    PROVE  RecordInv'
  <1>1. /\ pc[a] = "postCheck" /\ Names("lock", a) /\ UNCHANGED <<file, alive>>
        /\ \A b \in Acquires : pc'[b] = IF b = a THEN "held" ELSE pc[b]
    BY DEF PostCheck, Goto, IInv, TypeOK, LockInv, OwnsLock
  <1>2. \A q \in Procs, h \in Paths : q # Proc[a] \/ h # "lock" => orphan'[q][h] = orphan[q][h]
    <2>1. orphan \in OrphanMaps /\ Proc[a] \in Procs
      BY ProcAssumption DEF OrphanMaps, IInv, TypeOK
    <2>2. orphan' = [orphan EXCEPT ![Proc[a]]["lock"] = None]
      BY DEF PostCheck
    <2> QED
      BY <2>1, <2>2, OrphanUpdate, PathFacts
  <1>3. ASSUME NEW b \in Acquires, NEW h \in Paths, Names(h, b), Full(h), Alive(b)
        PROVE  pc'[b] \in Answers[h] \/ orphan'[Proc[b]][h] = b
    <2>1. CASE h = "lock"
      BY <1>1, <1>3, <2>1 DEF Names, Answers
    <2>2. CASE h # "lock"
      BY <1>1, <1>2, <1>3, <2>2, ProcAssumption DEF RecordInv, Answers, Paths
    <2> QED
      BY <2>1, <2>2
  <1> QED
    BY <1>1, <1>3 DEF RecordInv, Names, Full, Alive

\* A removal that succeeds leaves no record to answer for, and forgets no other orphan.
LEMMA RecordUnlink ==
    ASSUME IInv, RecordInv, NEW a \in Acquires, Unlink(a)
    PROVE  RecordInv'
  <1>0. PICK f, e : f = Target(a) /\ e = Expected(a)
    OBVIOUS
  <1>1. /\ pc[a] \in Removals /\ Alive(a) /\ Proc[a] \in Procs /\ f \in Paths /\ alive' = alive
        /\ file[f] # None /\ file[f].tok = e /\ e \in Acquires
    BY <1>0, TokenMatches, ProcAssumption, PathFacts, RecordFacts DEF Unlink, Target, Names, IInv, TypeOK
  <1>2. file'[f] = None /\ \A h \in Paths : h # f => file'[h] = file[h]
    BY <1>0, <1>1 DEF Unlink, IInv, TypeOK
  <1>3. /\ pc'[a] = AfterRemoval[pc[a]]
        /\ \A b \in Acquires : b # a => pc'[b] = pc[b] \/ pc[b] = "releaseFailed"
    BY DEF Unlink, Succeeds
  <1>4. \A q \in Procs, h \in Paths : h # f => orphan'[q][h] = orphan[q][h]
    <2>1. orphan \in OrphanMaps
      BY DEF OrphanMaps, IInv, TypeOK
    <2> QED
      BY <1>0, <1>1, <2>1, OrphanUpdate DEF Unlink, Succeeds
  <1>5. \A h \in Paths : h # f /\ pc[a] \in Answers[h] => pc'[a] \in Answers[h]
    BY <1>0, <1>1, <1>3, RemovalPlaces DEF Target, Answers, Paths
  <1>6. ASSUME NEW b \in Acquires, NEW h \in Paths, Names(h, b)', Full(h)', Alive(b)
        PROVE  pc'[b] \in Answers[h] \/ orphan'[Proc[b]][h] = b
    <2>1. h # f /\ Names(h, b) /\ Full(h) /\ Proc[b] \in Procs
      BY <1>2, <1>6, ProcAssumption DEF Names, Full
    <2>2. pc[b] \in Answers[h] => pc[b] # "releaseFailed"
      BY DEF Answers, Paths
    <2> QED
      BY <1>3, <1>4, <1>5, <1>6, <2>1, <2>2 DEF RecordInv
  <1> QED
    BY <1>1, <1>6 DEF RecordInv, Alive

\* A removal that fails is remembered, if it was of the call's own record.
LEMMA RecordRemovalFails ==
    ASSUME IInv, RecordInv, NEW a \in Acquires, RemovalFails(a)
    PROVE  RecordInv'
  <1>0. PICK f : f = Target(a)
    OBVIOUS
  <1>1. /\ pc[a] \in Removals /\ Alive(a) /\ Proc[a] \in Procs /\ f \in Paths
        /\ UNCHANGED <<alive, file>>
        /\ (f = "claim" <=> pc[a] \in {"dropOrphanClaim", "unclaim", "unclaimThrow"})
    BY <1>0, ProcAssumption, PathFacts DEF RemovalFails, Fails, Target
  <1>2. \A b \in Acquires : pc'[b] = IF b # a THEN pc[b]
                                     ELSE IF pc[a] = "release" THEN "releaseFailed"
                                     ELSE IF pc[a] = "evict" THEN "unclaimThrow" ELSE "failed"
    BY DEF RemovalFails, Fails, Goto, IInv, TypeOK
  <1>3. \A q \in Procs, h \in Paths :
            orphan'[q][h] = IF q = Proc[a] /\ h = f /\ pc[a] \in OwnRemovals THEN a
                            ELSE orphan[q][h]
    <2>1. orphan \in OrphanMaps
      BY DEF OrphanMaps, IInv, TypeOK
    <2> QED
      BY <1>0, <1>1, <2>1, OrphanUpdate DEF RemovalFails, Fails
  <1>4. pc[a] \in OwnRemovals => Names(f, a)
    BY <1>0, <1>1, TokenMatches DEF Expected, OwnRemovals, OrphanRemovals
  <1>5. ASSUME NEW b \in Acquires, NEW h \in Paths, Names(h, b), Full(h), Alive(b)
        PROVE  pc'[b] \in Answers[h] \/ orphan'[Proc[b]][h] = b
    <2>1. Proc[b] \in Procs
      BY ProcAssumption
    <2>2. CASE h = f /\ pc[a] \in OwnRemovals
      BY <1>3, <1>4, <1>5, <2>1, <2>2 DEF Names
    <2>3. CASE h # f \/ pc[a] \notin OwnRemovals
      <3>1. orphan'[Proc[b]][h] = orphan[Proc[b]][h]
        BY <1>3, <2>1, <2>3
      <3>2. pc[b] \in Answers[h] => pc'[b] \in Answers[h]
        BY <1>1, <1>2, <2>3, RemovalPlaces DEF Answers, Paths, OwnRemovals
      <3> QED
        BY <1>5, <3>1, <3>2 DEF RecordInv
    <2> QED
      BY <2>2, <2>3
  <1> QED
    BY <1>1, <1>5 DEF RecordInv, Names, Full, Alive

LEMMA RecordStep ==
    ASSUME IInv, RecordInv, [Next]_vars PROVE RecordInv'
  <1> USE DEF Goto
  <1>1. ASSUME NEW a \in Acquires,
               \/ Begin(a) \/ CheckClaim(a) \/ JudgeClaim(a) \/ (WriteFails(a) /\ UNCHANGED file)
               \/ Inspect(a) \/ CallFails(a) \/ OwnerUnknown(a)
               \/ Judge(a) \/ Confirm(a) \/ Retry(a) \/ Busy(a) \/ Release(a)
               \/ (PostCheck(a) /\ file["claim"] # None)
               \/ (CreateLock(a) /\ file["lock"] # None)
               \/ (CreateClaim(a) /\ file["claim"] # None)
        PROVE  RecordInv'
    <2>1. UNCHANGED <<file, alive, orphan>>
      BY <1>1 DEF Begin, CheckClaim, JudgeClaim, WriteFails, Inspect, CallFails, OwnerUnknown, Judge,
                  Confirm, Retry, Busy, Release, PostCheck, CreateLock, CreateClaim
    <2>2. \E x : pc' = [pc EXCEPT ![a] = x] /\ \A f \in Paths : pc[a] \in Answers[f] => x \in Answers[f]
      <3>1. CASE CallFails(a)
        <4>1. pc' = [pc EXCEPT ![a] = Thrown[pc[a]]]
          BY <3>1 DEF CallFails
        <4>2. \A f \in Paths : pc[a] \in Answers[f] => Thrown[pc[a]] \in Answers[f]
          BY <3>1, ThrownPlaces DEF Answers, Paths
        <4> QED
          BY <4>1, <4>2
      <3>2. CASE WriteFails(a)
        BY <3>2 DEF WriteFails, Answers, Paths
      <3>3. CASE OwnerUnknown(a)
        BY <3>3 DEF OwnerUnknown, RefuseAmbiguous, Answers, Paths
      <3>4. CASE Inspect(a)
        BY <3>4 DEF Inspect, RefuseAmbiguous, Answers, Paths
      <3> QED
        BY <1>1, <3>1, <3>2, <3>3, <3>4 DEF Begin, CheckClaim, JudgeClaim, Judge, Confirm, Retry, Busy,
           Release, PostCheck, CreateLock, CreateClaim, Answers, Paths
    <2> QED
      BY <2>1, <2>2, RecordMove
  <1>2. ASSUME NEW a \in Acquires, CreateLock(a), file["lock"] = None PROVE RecordInv'
    <2>1. /\ file' = [file EXCEPT !["lock"] = [tok |-> a, full |-> FALSE]]
          /\ pc' = [pc EXCEPT ![a] = "write"] /\ UNCHANGED <<alive, orphan>>
          /\ pc[a] \notin Answers["claim"]
      BY <1>2 DEF CreateLock, Answers
    <2> QED
      BY <2>1, RecordWrite DEF Paths
  <1>3. ASSUME NEW a \in Acquires, CreateClaim(a), file["claim"] = None PROVE RecordInv'
    <2>1. /\ file' = [file EXCEPT !["claim"] = [tok |-> a, full |-> FALSE]]
          /\ pc' = [pc EXCEPT ![a] = "writeClaim"] /\ UNCHANGED <<alive, orphan>>
          /\ pc[a] \notin Answers["lock"]
      BY <1>3 DEF CreateClaim, Answers
    <2> QED
      BY <2>1, RecordWrite DEF Paths
  <1>4. ASSUME NEW a \in Acquires,
               \/ WriteRecord(a)
               \/ WriteFails(a) /\ file' = FullyWritten(a) /\ pc' = [pc EXCEPT ![a] = "abandoned"]
        PROVE  RecordInv'
    <2>1. /\ pc[a] \in {"write", "writeClaim"} /\ Alive(a) /\ file' = FullyWritten(a)
          /\ UNCHANGED <<alive, orphan>>
      BY <1>4 DEF WriteRecord, WriteFails
    <2>2. PICK x \in {"postCheck", "confirm", "abandoned"} :
             /\ pc' = [pc EXCEPT ![a] = x]
             /\ x = "postCheck" => pc[a] = "write"
             /\ x = "confirm" => pc[a] = "writeClaim"
      BY <1>4 DEF WriteRecord, WriteFails
    <2>3. CASE pc[a] = "write"
      <3>1. file' = [file EXCEPT !["lock"] = [tok |-> a, full |-> TRUE]]
        BY <2>1, <2>3 DEF FullyWritten, IInv, LockInv, OwnsLock
      <3>2. x \in Answers["lock"] /\ pc[a] \notin Answers["claim"] /\ TRUE \in BOOLEAN
        BY <2>2, <2>3 DEF Answers
      <3> QED
        BY <2>1, <2>2, <3>1, <3>2, RecordWrite DEF Paths
    <2>4. CASE pc[a] = "writeClaim"
      <3>1. file' = [file EXCEPT !["claim"] = [tok |-> a, full |-> TRUE]]
        BY <2>1, <2>4 DEF FullyWritten, IInv, ClaimInv, OwnsClaim
      <3>2. x \in Answers["claim"] /\ pc[a] \notin Answers["lock"] /\ TRUE \in BOOLEAN
        BY <2>2, <2>4 DEF Answers
      <3> QED
        BY <2>1, <2>2, <3>1, <3>2, RecordWrite DEF Paths
    <2> QED
      BY <2>1, <2>3, <2>4
  <1>5. ASSUME NEW a \in Acquires, PostCheck(a), file["claim"] = None PROVE RecordInv'
    BY <1>5, RecordPostCheck
  <1>6. ASSUME NEW a \in Acquires, CompareToken(a) PROVE RecordInv'
    <2>1. UNCHANGED <<file, alive, orphan, pc>>
      BY <1>6, TokenMatches DEF CompareToken, Names, Full
    <2> QED
      BY <2>1 DEF RecordInv, Names, Full, Alive
  <1>7. ASSUME NEW a \in Acquires, Unlink(a) PROVE RecordInv'
    BY <1>7, RecordUnlink
  <1>8. ASSUME NEW a \in Acquires, RemovalFails(a) PROVE RecordInv'
    BY <1>8, RecordRemovalFails
  <1>9. ASSUME NEW p \in Procs, Crash(p) PROVE RecordInv'
    BY <1>9 DEF Crash, RecordInv, Names, Full, Alive
  <1>10. CASE UNCHANGED vars
    BY <1>10 DEF vars, RecordInv, Names, Full, Alive
  <1> QED
    BY <1>1, <1>2, <1>3, <1>4, <1>5, <1>6, <1>7, <1>8, <1>9, <1>10 DEF Next, Step, WriteFails

\* No failed removal makes a process refuse its own live pid for ever: a complete record of a
\* running process is in the hands of a running call or remembered (removeOwnRecord), unless
\* its call threw after writing it and before handing it over, without trying to remove it.
THEOREM OwnRecordsAnswered == Spec => []OwnRecordRecoverable
  <1>1. Init => RecordInv
    BY DEF Init, RecordInv, Names
  <1>2. RecordInv => OwnRecordRecoverable
    BY DEF RecordInv, OwnRecordRecoverable, Answers, Paths, Full, Synchronous, Removals, OwnRemovals
  <1> QED
    BY Invariance, RecordStep, <1>1, <1>2, PTL DEF Spec
============================================================================
