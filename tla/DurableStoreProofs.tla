-------------------------- MODULE DurableStoreProofs --------------------------
(***************************************************************************)
(* DurableStore, proved for any operations, keys and number of faults.     *)
(*                                                                         *)
(* The argument rests on the scope: whoever is between its first change    *)
(* and the end of its save is the head of the scope's queue (Inside), so   *)
(* at most one scoped or staged operation is half applied in memory at any *)
(* time (Applied), and it is the one that saves.  Poison closes the gap    *)
(* that is left, the staged operation that fails half way (Applied,        *)
(* Pending).                                                               *)
(***************************************************************************)
EXTENDS DurableStore, FiniteSetTheorems, TLAPS

\* Operations that keep the scope over all of their changes.
Exclusive == Staged \cup Scoped

Saving == {"saving", "syncing"}

Inside(op) ==
    /\ pc[op] \in Saving => InScope(op) /\ done[op] = 2 /\ ~failed
    /\ op \in Exclusive /\ pc[op] \notin Settled /\ done[op] > 0 => InScope(op)

\* What an operation made is in memory until a crash loses both.
Made(op) ==
    /\ pc[op] \notin Settled => \A i \in Parts : i <= done[op] => <<op, i>> \in memory
    /\ \A i \in Parts : <<op, i>> \in memory => i <= done[op]
    /\ pc[op] = "idle" => done[op] = 0

\* An operation is half applied in memory while it is at work, or after it failed.
Applied(op) ==
    /\ op \in Staged /\ pc[op] \in Settled /\ ~failed => Whole(op, memory)
    /\ op \in Scoped /\ pc[op] \in Settled /\ pc[op] # "refused" => Whole(op, memory)

\* A change that is not durable yet belongs to the operation inside, or nobody can read it, or
\* the process found it when it opened the store.
Pending(op) ==
    op \in Staged /\ ~(PartsOf(op) \cap memory \subseteq durable \cup found) =>
        failed \/ (pc[op] \notin Settled /\ done[op] > 0)

\* With nothing left to save, what an operation at work has made is durable.
Clean(op) == ~dirty /\ pc[op] \notin Settled /\ done[op] > 0 => PartsOf(op) \cap memory \subseteq durable

Snapshots ==
    /\ durable \subseteq renamed /\ renamed \subseteq memory
    /\ ~dirty => renamed = memory
    /\ \A op \in Ops : pc[op] = "syncing" => renamed = memory

Answered == \A op \in acked : pc[op] = "acked"

IInv ==
    /\ TypeOK
    /\ \A op \in Ops \ Writers : pc[op] \notin Saving
    /\ \A op \in Writers : Inside(op)
    /\ \A op \in Writers : Made(op)
    /\ \A op \in Writers : Applied(op)
    /\ \A op \in Writers : Pending(op)
    /\ \A op \in Writers : Clean(op)
    /\ Snapshots
    /\ Answered
    /\ AckedDurable
    /\ SnapshotWhole
    /\ ReadersSeeDurable

LEMMA TwoParts == Cardinality(Parts) = 2
<1>1. Cardinality(1..2) = 2 - 1 + 1 BY 1 \in Int, 2 \in Int, ~(1 > 2), FS_Interval, Zenon
<1> QED BY <1>1 DEF Parts

\* Which places are settled, and that no others are.
LEMMA PlaceFacts ==
    /\ {"acked", "refused", "lost"} = Settled
    /\ Places = Settled \cup {"idle", "locking", "ready", "queued", "saving", "syncing"}
    /\ "idle" \notin Settled /\ "locking" \notin Settled /\ "ready" \notin Settled
    /\ "queued" \notin Settled /\ "saving" \notin Settled /\ "syncing" \notin Settled
  BY DEF Settled, Places

\* Who is inside excludes every other operation that keeps the scope over its changes.
LEMMA Alone ==
  ASSUME IInv, NEW op \in Ops, InScope(op), NEW other \in Exclusive, other # op
  PROVE  /\ pc[other] \in Settled \/ done[other] = 0
         /\ pc[other] \notin Saving
  BY TwoParts, PlaceFacts DEF IInv, Inside, InScope, Exclusive, Writers, TypeOK, Ops

\* Then every other such operation is whole in memory, unless it failed.
LEMMA OthersWhole ==
  ASSUME IInv, NEW op \in Ops, InScope(op), NEW other \in Exclusive, other # op, ~failed
  PROVE  Whole(other, memory) \/ (other \in Scoped /\ pc[other] = "refused")
<1>1. CASE done[other] = 0 /\ pc[other] \notin Settled
  BY <1>1 DEF IInv, Made, Whole, PartsOf, Parts, Exclusive, Writers
<1>2. CASE pc[other] \in Settled
  BY <1>2 DEF IInv, Applied, Exclusive, Writers
<1> QED BY <1>1, <1>2, Alone

\* Joining a queue does not change who is at its head.
LEMMA AppendHead ==
  ASSUME NEW S, NEW queue \in Seq(S), NEW x \in S, queue # <<>>
  PROVE  Append(queue, x) # <<>> /\ Head(Append(queue, x)) = Head(queue)
<1>1. Len(queue) > 0 /\ Len(Append(queue, x)) = Len(queue) + 1 OBVIOUS
<1>2. Append(queue, x)[1] = queue[1] BY <1>1
<1> QED BY <1>1, <1>2

\* An operation that made all of its changes is whole in memory.
LEMMA MadeAll ==
  ASSUME IInv, NEW op \in Writers, done[op] = 2, pc[op] \notin Settled
  PROVE  PartsOf(op) \subseteq memory
<1>0. Made(op) BY DEF IInv
<1>1. \A i \in Parts : <<op, i>> \in memory BY <1>0 DEF Made, Parts
<1>2. \A part \in PartsOf(op) : part = <<op, part[2]>> /\ part[2] \in Parts BY DEF PartsOf
<1> QED BY <1>1, <1>2

LEMMA InitInv == Init => IInv
<1> SUFFICES ASSUME Init PROVE IInv OBVIOUS
<1>1. keys \in [Keys -> Seq(Ops)] /\ scope \in Seq(Ops) BY DEF Init
<1>2. pc \in [Ops -> Places] /\ got \in [Ops -> Nat] /\ done \in [Ops -> 0..Cardinality(Parts)]
  BY TwoParts, PlaceFacts DEF Init
<1>3. saw \in [Readers -> SUBSET Changes] BY DEF Init
<1>4. faults \in 0..MaxFaults BY FaultsAssumption DEF Init
<1>5. memory \in SUBSET Changes /\ renamed \in SUBSET Changes /\ durable \in SUBSET Changes
      /\ found \in SUBSET Changes /\ acked \in SUBSET Ops /\ dirty \in BOOLEAN /\ failed \in BOOLEAN
  BY DEF Init
<1>6. TypeOK BY <1>1, <1>2, <1>3, <1>4, <1>5 DEF TypeOK
<1> QED
  BY <1>6, TwoParts, PlaceFacts DEF Init, IInv, Inside, Made, Applied, Pending, Clean, Snapshots, Answered,
     AckedDurable, SnapshotWhole, ReadersSeeDurable, Whole, PartsOf, Parts, Saving, Writers, Ops

(***************************************************************************)
(* Types.                                                                  *)
(***************************************************************************)
LEMMA LeaveType ==
  ASSUME TypeOK, NEW op \in Ops, NEW place \in Places, scope # <<>>, Leave(op, place)
  PROVE  /\ pc' \in [Ops -> Places] /\ keys' \in [Keys -> Seq(Ops)] /\ scope' \in Seq(Ops)
  BY DEF TypeOK, Leave

LEMMA TypeStep == IInv /\ [Next]_vars => TypeOK'
<1> SUFFICES ASSUME IInv, [Next]_vars PROVE TypeOK' OBVIOUS
<1>0. TypeOK /\ \A op \in Ops : pc[op] \in Saving => scope # <<>>
  BY DEF IInv, Inside, InScope
<1> USE <1>0
<1> USE FaultsAssumption
<1>1. ASSUME NEW op \in Ops, Start(op) PROVE TypeOK'
  BY <1>1 DEF Start, TypeOK, Places
<1>2. ASSUME NEW op \in Ops, Enqueue(op) PROVE TypeOK'
  <2>1. Needs[op][got[op] + 1] \in Keys
    <3>0. Needs[op] \in Seq(Keys) BY NeedsAssumption
    <3>1. got[op] + 1 \in 1..Len(Needs[op]) BY <1>2, <3>0 DEF Enqueue, TypeOK
    <3> QED BY <3>0, <3>1
  <2>2. keys' \in [Keys -> Seq(Ops)]
    BY <1>2, <2>1 DEF Enqueue, TypeOK
  <2> QED BY <1>2, <2>2 DEF Enqueue, TypeOK, Places
<1>3. ASSUME NEW op \in Ops, Locked(op) PROVE TypeOK'
  BY <1>3 DEF Locked, TypeOK, Places
<1>4. ASSUME NEW op \in Ops, EnterScope(op) PROVE TypeOK'
  BY <1>4 DEF EnterScope, TypeOK, Places
<1>5. ASSUME NEW op \in Ops, Read(op) PROVE TypeOK'
  BY <1>5, LeaveType, PlaceFacts DEF Read, TypeOK, InScope
<1>6. ASSUME NEW op \in Ops, Change(op) PROVE TypeOK'
  <2>1. done' \in [Ops -> 0..Cardinality(Parts)] /\ memory' \in SUBSET Changes
    BY <1>6, TwoParts DEF Change, TypeOK, Changes, Parts
  <2>2. pc' \in [Ops -> Places] /\ scope' \in Seq(Ops)
    <3>1. "ready" \in Places BY PlaceFacts
    <3>2. Tail(scope) \in Seq(Ops) BY <1>6 DEF Change, TypeOK, InScope
    <3> QED BY <1>6, <3>1, <3>2 DEF Change, TypeOK
  <2> QED BY <1>6, <2>1, <2>2 DEF Change, TypeOK
<1>7. ASSUME NEW op \in Ops, ChangeThrows(op) PROVE TypeOK'
  BY <1>7, LeaveType, PlaceFacts DEF ChangeThrows, TypeOK, InScope
<1>8. ASSUME NEW op \in Ops, Refuse(op) PROVE TypeOK'
  BY <1>8, LeaveType, PlaceFacts DEF Refuse, TypeOK, InScope
<1>9. ASSUME NEW op \in Ops, SaveNothing(op) PROVE TypeOK'
  BY <1>9, LeaveType, PlaceFacts DEF SaveNothing, ReadyToSave, TypeOK, InScope
<1>10. ASSUME NEW op \in Ops, SaveWrites(op) PROVE TypeOK'
  BY <1>10 DEF SaveWrites, TypeOK, Places
<1>11. ASSUME NEW op \in Ops, SaveRenames(op) PROVE TypeOK'
  BY <1>11 DEF SaveRenames, TypeOK, Places
<1>12. ASSUME NEW op \in Ops, SaveSyncs(op) PROVE TypeOK'
  BY <1>12, LeaveType, PlaceFacts DEF SaveSyncs, TypeOK, Saving
<1>13. ASSUME NEW op \in Ops, SaveFails(op) PROVE TypeOK'
  BY <1>13, LeaveType, PlaceFacts DEF SaveFails, ReadyToSave, InScope, TypeOK, Saving
<1>14. ASSUME ProcessDies \/ MachineCrashes PROVE TypeOK'
  <2>0. Reopened /\ faults' \in 0..MaxFaults
    BY <1>14 DEF ProcessDies, MachineCrashes, TypeOK
  <2>1. pc' \in [Ops -> Places] BY <2>0, PlaceFacts DEF Reopened, TypeOK
  <2>2. keys' \in [Keys -> Seq(Ops)] /\ scope' \in Seq(Ops) BY <2>0 DEF Reopened
  <2>3. durable' \in SUBSET Changes /\ renamed' \in SUBSET Changes /\ memory' \in SUBSET Changes
    BY <1>14 DEF ProcessDies, MachineCrashes, TypeOK
  <2>4. found' \in SUBSET Changes
    BY <1>14 DEF ProcessDies, MachineCrashes, TypeOK
  <2> QED BY <2>0, <2>1, <2>2, <2>3, <2>4 DEF Reopened, TypeOK
<1>15. CASE UNCHANGED vars
  BY <1>15 DEF vars, TypeOK
<1> QED
  BY <1>1, <1>2, <1>3, <1>4, <1>5, <1>6, <1>7, <1>8, <1>9, <1>10, <1>11, <1>12, <1>13, <1>14, <1>15
     DEF Next, Step

(***************************************************************************)
(* Waiting for keys and the scope.                                         *)
(***************************************************************************)
LEMMA QuietStep ==
  ASSUME IInv, TypeOK', NEW op \in Ops, Start(op) \/ Enqueue(op) \/ Locked(op) \/ EnterScope(op)
  PROVE  IInv'
<1>1. /\ UNCHANGED <<done, memory, dirty, failed, renamed, durable, found, acked, saw>>
      /\ pc[op] \in {"idle", "ready", "locking"}
      /\ \/ pc' = [pc EXCEPT ![op] = "ready"]
         \/ pc' = [pc EXCEPT ![op] = "locking"]
         \/ pc' = [pc EXCEPT ![op] = "queued"]
  BY DEF Start, Enqueue, Locked, EnterScope
<1>2. \A other \in Ops : InScope(other) => InScope(other)'
  <2>1. scope' = scope \/ scope' = Append(scope, op)
    BY DEF Start, Enqueue, Locked, EnterScope
  <2>2. scope # <<>> => Append(scope, op) # <<>> /\ Head(Append(scope, op)) = Head(scope)
    BY AppendHead DEF IInv, TypeOK
  <2> QED BY <2>1, <2>2 DEF InScope
<1>3. /\ pc'[op] \notin Settled /\ pc'[op] \notin Saving /\ pc'[op] # "idle"
      /\ pc[op] \notin Settled /\ pc[op] \notin Saving
      /\ \A other \in Ops \ {op} : pc'[other] = pc[other]
  BY <1>1, PlaceFacts DEF IInv, TypeOK, Saving
<1>4. \A other \in Writers : Inside(other)'
  BY <1>1, <1>2, <1>3 DEF IInv, Inside, Writers, Ops
<1>5. \A other \in Writers : Made(other)' /\ Applied(other)' /\ Pending(other)' /\ Clean(other)'
  BY <1>1, <1>3 DEF IInv, Made, Applied, Pending, Clean, Whole, Writers, Ops
<1>6. Snapshots' /\ Answered'
  BY <1>1, <1>3, PlaceFacts DEF IInv, TypeOK, Snapshots, Answered, Saving, Writers, Ops
<1>7. AckedDurable' /\ ReadersSeeDurable'
  BY <1>1 DEF IInv, AckedDurable, ReadersSeeDurable, Whole
<1>8. SnapshotWhole'
  BY <1>1, <1>3, PlaceFacts DEF IInv, SnapshotWhole, Whole, Writers, Ops
<1> QED BY <1>1, <1>3, <1>4, <1>5, <1>6, <1>7, <1>8 DEF IInv

(***************************************************************************)
(* The operation inside: it leaves, changes, or saves.                     *)
(***************************************************************************)
\* The operation inside leaves: what the invariant says of the others' places is untouched.
LEMMA LeaveStep ==
  ASSUME IInv, NEW op \in Ops, InScope(op), NEW place \in Settled, Leave(op, place),
         pc[op] \notin Settled, done' = done, memory' = memory
  PROVE  /\ pc'[op] = place
         /\ \A other \in Ops \ {op} : pc'[other] = pc[other]
         /\ \A other \in Ops : pc'[other] \in Saving => pc[other] \in Saving /\ other # op
         /\ \A other \in Ops : pc'[other] \in Saving => other \notin Writers
         /\ \A other \in Writers : Inside(other)' /\ Made(other)'
         /\ \A other \in Ops \ Writers : pc'[other] \notin Saving
<1>1. /\ pc'[op] = place
      /\ \A other \in Ops \ {op} : pc'[other] = pc[other]
  BY DEF Leave, IInv, TypeOK
<1>2. \A other \in Ops : pc'[other] \in Saving => pc[other] \in Saving /\ other # op
  BY <1>1, PlaceFacts DEF Saving
<1>3. \A other \in Writers \ {op} : pc[other] \notin Saving
  BY DEF IInv, Inside, InScope
<1>4. ASSUME NEW other \in Writers PROVE Inside(other)'
  <2>1. pc'[other] \notin Saving BY <1>2, <1>3 DEF Writers, Ops
  <2>2. CASE other = op BY <1>1, <2>1, <2>2 DEF Inside
  <2>3. ASSUME other # op, other \in Exclusive PROVE pc'[other] \in Settled \/ done'[other] = 0
    BY <1>1, <2>3, Alone DEF Writers, Ops
  <2> QED BY <2>1, <2>2, <2>3 DEF Inside
<1>5. \A other \in Writers : Made(other)'
  BY <1>1, PlaceFacts DEF Made, IInv, Writers, Ops
<1> QED BY <1>1, <1>2, <1>3, <1>4, <1>5 DEF IInv

LEMMA ReadStep == ASSUME IInv, TypeOK', NEW op \in Ops, Read(op) PROVE IInv'
<1>1. /\ InScope(op) /\ ~failed /\ pc[op] = "queued" /\ op \in Readers /\ Leave(op, "acked")
      /\ UNCHANGED <<done, memory, dirty, failed, renamed, durable, found, acked>>
  BY DEF Read
<1>2. op \notin Writers BY <1>1, KindAssumption
<1>3. /\ pc'[op] = "acked"
      /\ \A other \in Ops \ {op} : pc'[other] = pc[other]
      /\ \A other \in Ops : pc'[other] \in Saving => pc[other] \in Saving
      /\ \A other \in Writers : Inside(other)' /\ Made(other)'
      /\ \A other \in Ops \ Writers : pc'[other] \notin Saving
  BY <1>1, LeaveStep, PlaceFacts
<1>4. \A other \in Writers : Applied(other)' /\ Pending(other)' /\ Clean(other)'
  BY <1>1, <1>2, <1>3 DEF IInv, Applied, Pending, Clean, Whole, Writers, Ops
<1>5. Snapshots' /\ Answered' /\ AckedDurable' /\ SnapshotWhole'
  <2>1. Snapshots' /\ Answered'
    BY <1>1, <1>3, PlaceFacts DEF IInv, TypeOK, Snapshots, Answered
  <2>2. AckedDurable' BY <1>1 DEF IInv, AckedDurable
  <2>3. SnapshotWhole' BY <1>1, <1>2, <1>3 DEF IInv, SnapshotWhole, Whole, Writers, Ops
  <2> QED BY <2>1, <2>2, <2>3
<1>6. ReadersSeeDurable'
  <2>1. ASSUME NEW staged \in Staged
        PROVE  Whole(staged, memory) /\ PartsOf(staged) \cap memory \subseteq durable \cup found
    <3>1. staged \in Exclusive /\ staged # op /\ staged \in Writers
      BY <1>2 DEF Exclusive, Writers
    <3>2. Whole(staged, memory)
      BY <1>1, <3>1, OthersWhole, KindAssumption
    <3>3. pc[staged] \in Settled \/ done[staged] = 0
      BY <1>1, <3>1, Alone
    <3> QED BY <1>1, <3>1, <3>2, <3>3 DEF IInv, Pending
  <2>2. saw' = [saw EXCEPT ![op] = memory] BY DEF Read
  <2> QED BY <1>1, <2>1, <2>2 DEF IInv, TypeOK, ReadersSeeDurable, Whole
<1> QED BY <1>3, <1>4, <1>5, <1>6 DEF IInv

\* The operation is refused: nothing it changed was, or is, durable if the store is not poisoned.
LEMMA RefusedStep ==
  ASSUME IInv, TypeOK', NEW op \in Ops, InScope(op), pc[op] \notin Settled,
         Leave(op, "refused"), failed => failed', op \in Staged => failed',
         UNCHANGED <<done, memory, dirty, renamed, durable, found, acked, saw>>
  PROVE  IInv'
<1>1. /\ pc'[op] = "refused"
      /\ \A other \in Ops \ {op} : pc'[other] = pc[other]
      /\ \A other \in Ops : pc'[other] \in Saving => pc[other] \in Saving
      /\ \A other \in Ops : pc'[other] \in Saving => other \notin Writers
      /\ \A other \in Writers : Inside(other)' /\ Made(other)'
      /\ \A other \in Ops \ Writers : pc'[other] \notin Saving
  BY LeaveStep, PlaceFacts
<1>2. \A other \in Writers : Applied(other)' /\ Pending(other)' /\ Clean(other)'
  BY <1>1, KindAssumption, PlaceFacts DEF IInv, Applied, Pending, Clean, Whole, Writers, Ops
<1>3. Snapshots' /\ Answered'
  BY <1>1, PlaceFacts DEF IInv, TypeOK, Snapshots, Answered, Settled
<1>4. AckedDurable' /\ ReadersSeeDurable'
  BY DEF IInv, AckedDurable, ReadersSeeDurable, Whole
<1>5. SnapshotWhole'
  BY <1>1 DEF IInv, SnapshotWhole, Whole, Writers, Ops
<1> QED BY <1>1, <1>2, <1>3, <1>4, <1>5 DEF IInv

LEMMA SavedStep ==
  ASSUME IInv, TypeOK', NEW op \in Ops, SaveNothing(op) \/ SaveSyncs(op)
  PROVE  IInv'
<1>1. /\ op \in Writers /\ InScope(op) /\ ~failed /\ done[op] = 2 /\ pc[op] \notin Settled
      /\ Leave(op, "acked") /\ acked' = acked \cup {op}
      /\ renamed' = renamed /\ renamed = memory /\ ~dirty' /\ durable \subseteq durable'
      /\ durable' = memory \/ (durable' = durable /\ ~dirty)
      /\ UNCHANGED <<done, memory, failed, found, saw>>
  BY TwoParts, PlaceFacts DEF SaveNothing, SaveSyncs, ReadyToSave, IInv, Inside, Snapshots, Saving
<1>2. /\ pc'[op] = "acked"
      /\ \A other \in Ops \ {op} : pc'[other] = pc[other]
      /\ \A other \in Ops : pc'[other] \in Saving => other \notin Writers
      /\ \A other \in Writers : Inside(other)' /\ Made(other)'
      /\ \A other \in Ops \ Writers : pc'[other] \notin Saving
  BY <1>1, LeaveStep, PlaceFacts
<1>3. PartsOf(op) \subseteq memory /\ PartsOf(op) \subseteq durable'
  <2>1. PartsOf(op) \subseteq memory BY <1>1, MadeAll
  <2>2. CASE durable' = memory BY <2>1, <2>2
  <2>3. CASE durable' = durable /\ ~dirty BY <1>1, <2>1, <2>3 DEF IInv, Clean
  <2> QED BY <1>1, <2>1, <2>2, <2>3
<1>4. \A other \in Writers : Applied(other)' /\ Pending(other)' /\ Clean(other)'
  <2>1. \A other \in Writers : Applied(other)' /\ Pending(other)'
    BY <1>1, <1>2, <1>3 DEF IInv, Applied, Pending, Whole, Writers, Ops
  <2>2. \A other \in Writers : Clean(other)'
    BY <1>1, <1>2, <1>3 DEF IInv, Clean, Writers, Ops
  <2> QED BY <2>1, <2>2
<1>5. Snapshots' /\ Answered' /\ AckedDurable' /\ ReadersSeeDurable'
  <2>1. Snapshots'
    BY <1>1, <1>2, PlaceFacts DEF IInv, TypeOK, Snapshots, Saving
  <2>2. Answered' BY <1>1, <1>2 DEF IInv, TypeOK, Answered
  <2>3. AckedDurable' BY <1>1, <1>3 DEF IInv, AckedDurable
  <2>4. ReadersSeeDurable' BY <1>1 DEF IInv, ReadersSeeDurable, Whole
  <2> QED BY <2>1, <2>2, <2>3, <2>4
<1>6. SnapshotWhole'
  <2>1. ASSUME NEW other \in Exclusive
        PROVE  Whole(other, memory) \/ (other \in Scoped /\ pc'[other] = "refused")
    BY <1>1, <1>2, <1>3, <2>1, OthersWhole DEF Whole, Exclusive, Writers, Ops
  <2>2. ASSUME NEW other \in Exclusive
        PROVE  Whole(other, durable') \/ (other \in Scoped /\ pc'[other] = "refused")
    BY <1>1, <1>2, <1>3, <2>1, <2>2 DEF IInv, SnapshotWhole, Whole, Exclusive, Writers, Ops
  <2> QED BY <1>1, <2>1, <2>2, KindAssumption DEF SnapshotWhole, Whole, Exclusive
<1> QED BY <1>2, <1>4, <1>5, <1>6 DEF IInv

LEMMA WritesStep ==
  ASSUME IInv, TypeOK', NEW op \in Ops, SaveWrites(op)
  PROVE  IInv'
<1>1. /\ op \in Writers /\ InScope(op) /\ ~failed /\ done[op] = 2 /\ pc[op] \notin Settled
      /\ pc' = [pc EXCEPT ![op] = "saving"]
      /\ UNCHANGED <<done, scope, memory, dirty, failed, renamed, durable, found, acked, saw>>
  BY TwoParts, PlaceFacts DEF SaveWrites, ReadyToSave
<1>2. pc'[op] = "saving" /\ \A other \in Ops \ {op} : pc'[other] = pc[other]
  BY <1>1 DEF IInv, TypeOK
<1>3. \A other \in Writers : Inside(other)' /\ Made(other)'
  BY <1>1, <1>2, PlaceFacts DEF IInv, Inside, Made, InScope, Saving, Writers, Ops
<1>4. \A other \in Writers : Applied(other)' /\ Pending(other)' /\ Clean(other)'
  BY <1>1, <1>2, PlaceFacts DEF IInv, Applied, Pending, Clean, Whole, Writers, Ops
<1>5. Snapshots' /\ Answered'
  BY <1>1, <1>2, PlaceFacts DEF IInv, TypeOK, Snapshots, Answered
<1>6. AckedDurable' /\ ReadersSeeDurable'
  BY <1>1 DEF IInv, AckedDurable, ReadersSeeDurable, Whole
<1>7. SnapshotWhole'
  BY <1>1, <1>2, PlaceFacts DEF IInv, SnapshotWhole, Whole, Writers, Ops
<1> QED BY <1>1, <1>2, <1>3, <1>4, <1>5, <1>6, <1>7 DEF IInv

LEMMA RenamesStep ==
  ASSUME IInv, TypeOK', NEW op \in Ops, SaveRenames(op)
  PROVE  IInv'
<1>1. /\ op \in Writers /\ InScope(op) /\ ~failed /\ done[op] = 2 /\ pc[op] \notin Settled
      /\ pc' = [pc EXCEPT ![op] = "syncing"] /\ renamed' = memory
      /\ UNCHANGED <<done, scope, memory, dirty, failed, durable, found, acked, saw>>
  BY PlaceFacts DEF SaveRenames, IInv, Inside, Saving
<1>2. pc'[op] = "syncing" /\ \A other \in Ops \ {op} : pc'[other] = pc[other]
  BY <1>1 DEF IInv, TypeOK
<1>3. \A other \in Writers : Inside(other)' /\ Made(other)'
  BY <1>1, <1>2, PlaceFacts DEF IInv, Inside, Made, InScope, Saving, Writers, Ops
<1>4. \A other \in Writers : Applied(other)' /\ Pending(other)' /\ Clean(other)'
  BY <1>1, <1>2, PlaceFacts DEF IInv, Applied, Pending, Clean, Whole, Writers, Ops
<1>5. Snapshots' /\ Answered'
  BY <1>1, <1>2, PlaceFacts DEF IInv, TypeOK, Snapshots, Answered
<1>6. AckedDurable' /\ ReadersSeeDurable'
  BY <1>1 DEF IInv, AckedDurable, ReadersSeeDurable, Whole
<1>7. SnapshotWhole'
  <2>1. PartsOf(op) \subseteq memory BY <1>1, MadeAll
  <2>2. ASSUME NEW other \in Exclusive
        PROVE  Whole(other, memory) \/ (other \in Scoped /\ pc'[other] = "refused")
    BY <1>1, <1>2, <2>1, OthersWhole DEF Whole, Exclusive, Writers, Ops
  <2>3. ASSUME NEW other \in Exclusive
        PROVE  Whole(other, durable) \/ (other \in Scoped /\ pc'[other] = "refused")
    BY <1>1, <1>2, PlaceFacts DEF IInv, SnapshotWhole, Exclusive, Writers, Ops
  <2> QED BY <1>1, <2>2, <2>3, KindAssumption DEF SnapshotWhole, Whole, Exclusive
<1> QED BY <1>1, <1>2, <1>3, <1>4, <1>5, <1>6, <1>7 DEF IInv

LEMMA ChangeStep ==
  ASSUME IInv, TypeOK', NEW op \in Ops, Change(op)
  PROVE  IInv'
<1>1. /\ op \in Writers /\ InScope(op) /\ ~failed /\ pc[op] = "queued" /\ done[op] < 2
      /\ done[op] + 1 \in Parts /\ dirty' = TRUE
      /\ memory' = memory \cup {<<op, done[op] + 1>>}
      /\ UNCHANGED <<failed, renamed, durable, found, acked, saw>>
  <2>1. op \in Writers /\ InScope(op) /\ ~failed /\ pc[op] = "queued" /\ done[op] < 2
    BY TwoParts DEF Change
  <2>2. done[op] + 1 \in Parts
    <3>1. done[op] \in 0..2 BY TwoParts DEF IInv, TypeOK
    <3> QED BY <2>1, <3>1 DEF Parts
  <2>3. dirty' = TRUE /\ memory' = memory \cup {<<op, done[op] + 1>>}
    BY DEF Change
  <2>4. UNCHANGED <<failed, renamed, durable, found, acked, saw>>
    BY DEF Change
  <2> QED BY <2>1, <2>2, <2>3, <2>4
<1>2. /\ done'[op] = done[op] + 1 /\ \A other \in Ops \ {op} : done'[other] = done[other]
      /\ pc'[op] \in {"queued", "ready"} /\ \A other \in Ops \ {op} : pc'[other] = pc[other]
  BY <1>1 DEF Change, IInv, TypeOK
<1>3. \A other \in Writers : Inside(other)'
  <2>1. op \in Exclusive => scope' = scope
    BY KindAssumption DEF Change, Exclusive
  <2>2. ASSUME NEW other \in Writers, other # op
        PROVE  pc'[other] \notin Saving /\ (other \in Exclusive /\ pc'[other] \notin Settled => done'[other] = 0)
    BY <1>1, <1>2, <2>2, Alone DEF IInv, Inside, InScope, Writers, Ops
  <2>3. pc'[op] \notin Saving BY <1>2 DEF Saving
  <2> QED BY <1>1, <1>2, <2>1, <2>2, <2>3 DEF Inside, InScope
<1>4. ASSUME NEW other \in Writers PROVE Made(other)'
  <2>1. Made(other) /\ Made(op) BY <1>1 DEF IInv
  <2>2. done[op] \in Nat
    <3>1. done \in [Ops -> 0..2] BY TwoParts DEF IInv, TypeOK
    <3> QED BY <3>1
  <2>3. CASE other = op
    <3>1. pc'[op] # "idle" /\ pc[op] \notin Settled BY <1>1, <1>2, PlaceFacts
    <3>2. \A i \in Parts : i <= done[op] + 1 => <<op, i>> \in memory'
      BY <1>1, <2>1, <2>2, <3>1 DEF Made, Parts
    <3>3. \A i \in Parts : <<op, i>> \in memory' => i <= done[op] + 1
      BY <1>1, <2>1, <2>2 DEF Made, Parts
    <3> QED BY <1>2, <2>3, <3>1, <3>2, <3>3 DEF Made
  <2>4. CASE other # op
    <3>1. \A i \in Parts : <<other, i>> \in memory' <=> <<other, i>> \in memory
      BY <1>1, <2>4
    <3> QED BY <1>2, <2>1, <2>4, <3>1 DEF Made, Writers, Ops
  <2> QED BY <2>3, <2>4
<1>5. \A other \in Ops \ {op} : PartsOf(other) \cap memory' = PartsOf(other) \cap memory
  BY <1>1 DEF PartsOf
<1>6. \A other \in Writers : Applied(other)'
  BY <1>1, <1>2, <1>5, PlaceFacts DEF IInv, Applied, Whole, Writers, Ops
<1>7. \A other \in Writers : Pending(other)'
  <2>1. pc'[op] \notin Settled /\ done'[op] > 0
    BY <1>1, <1>2, PlaceFacts DEF Parts
  <2>2. ASSUME NEW other \in Writers, other # op PROVE Pending(other)'
    BY <1>1, <1>2, <1>5, <2>2 DEF IInv, Pending, Writers, Ops
  <2> QED BY <2>1, <2>2 DEF Pending
<1>11. \A other \in Writers : Clean(other)' BY <1>1 DEF Clean
<1>8. Snapshots' /\ Answered'
  <2>1. ASSUME NEW other \in Ops PROVE pc'[other] # "syncing"
    BY <1>1, <1>2 DEF IInv, Inside, InScope, Saving
  <2>2. Answered' BY <1>1, <1>2 DEF IInv, TypeOK, Answered
  <2> QED BY <1>1, <2>1, <2>2 DEF IInv, Snapshots
<1>9. AckedDurable' /\ ReadersSeeDurable' /\ SnapshotWhole'
  <2>1. AckedDurable' /\ ReadersSeeDurable'
    BY <1>1 DEF IInv, AckedDurable, ReadersSeeDurable, Whole
  <2>2. SnapshotWhole'
    BY <1>1, <1>2 DEF IInv, SnapshotWhole, Whole, Writers, Ops
  <2> QED BY <2>1, <2>2
<1>10. \A other \in Ops \ Writers : pc'[other] \notin Saving
  BY <1>1, <1>2 DEF IInv
<1> QED BY <1>3, <1>4, <1>6, <1>7, <1>8, <1>9, <1>10, <1>11 DEF IInv

\* A process opens the store with one of the two snapshots: what it found and is not durable
\* is remembered in found.
LEMMA ReopenStep ==
  ASSUME IInv, TypeOK', Reopened, NEW snapshot \in {durable, renamed},
         memory' = snapshot, renamed' = snapshot, durable' \in {durable, snapshot},
         durable' \subseteq snapshot, found \subseteq found', snapshot \subseteq durable' \cup found'
  PROVE  IInv'
<1>1. UNCHANGED <<done, acked, saw>> /\ ~failed' /\ ~dirty'
  BY DEF Reopened
<1>2. \A op \in Ops : /\ pc'[op] \in Settled \/ (pc'[op] = "idle" /\ pc[op] = "idle")
                      /\ pc[op] \in Settled => pc'[op] = pc[op]
                      /\ pc'[op] \notin Saving
  BY PlaceFacts DEF Reopened, Saving
<1>3. durable \subseteq durable' /\ snapshot \subseteq memory
  BY DEF IInv, Snapshots
<1>4. ASSUME NEW op \in Exclusive
      PROVE  /\ Whole(op, snapshot) \/ (op \in Scoped /\ pc'[op] = "refused")
             /\ Whole(op, durable') \/ (op \in Scoped /\ pc'[op] = "refused")
  BY <1>2, PlaceFacts DEF IInv, SnapshotWhole, Exclusive, Writers, Ops
<1>5. ASSUME NEW op \in Writers PROVE pc'[op] \notin Settled => done[op] = 0
  <2>1. Made(op) /\ op \in Ops BY DEF IInv, Writers, Ops
  <2> QED BY <1>2, <2>1 DEF Made
<1>6. ASSUME NEW op \in Writers PROVE Inside(op)' /\ Made(op)'
  <2>1. Made(op) /\ op \in Ops /\ done[op] \in 0..2
    BY TwoParts DEF IInv, TypeOK, Writers, Ops
  <2>2. Inside(op)' BY <1>1, <1>2, <1>5, <2>1 DEF Inside
  <2>3. pc'[op] = "idle" => done[op] = 0 BY <1>2, <1>5, PlaceFacts
  <2>4. \A i \in Parts : ~(i <= 0) BY DEF Parts
  <2> QED BY <1>1, <1>3, <1>5, <2>1, <2>2, <2>3, <2>4 DEF Made
<1>7. \A op \in Writers : Applied(op)' /\ Pending(op)' /\ Clean(op)'
  <2>1. \A op \in Writers : Applied(op)'
    BY <1>1, <1>4, KindAssumption DEF Applied, Whole, Exclusive
  <2>2. \A op \in Writers : Pending(op)'
    BY <1>1 DEF Pending
  <2>3. \A op \in Writers : Clean(op)'
    BY <1>1, <1>5 DEF Clean
  <2> QED BY <2>1, <2>2, <2>3
<1>8. Snapshots' /\ Answered'
  <2>1. Snapshots' BY <1>1, <1>2 DEF Snapshots, Saving
  <2>2. Answered' BY <1>1, <1>2, PlaceFacts DEF IInv, TypeOK, Answered
  <2> QED BY <2>1, <2>2
<1>9. AckedDurable' /\ ReadersSeeDurable'
  BY <1>1, <1>3 DEF IInv, AckedDurable, ReadersSeeDurable, Whole
<1>10. SnapshotWhole'
  BY <1>4, KindAssumption DEF SnapshotWhole, Whole, Exclusive
<1> QED BY <1>2, <1>6, <1>7, <1>8, <1>9, <1>10 DEF IInv

(***************************************************************************)
(* The invariant, and the theorems.                                        *)
(***************************************************************************)
LEMMA StepInv == IInv /\ [Next]_vars => IInv'
<1> SUFFICES ASSUME IInv, [Next]_vars PROVE IInv' OBVIOUS
<1>0. TypeOK' BY TypeStep
<1>1. ASSUME NEW op \in Ops, Start(op) \/ Step(op) PROVE IInv'
  <2>1. ASSUME ChangeThrows(op) PROVE IInv'
    BY <1>0, <2>1, RefusedStep, PlaceFacts DEF ChangeThrows
  <2>2. ASSUME Refuse(op) PROVE IInv'
    BY <1>0, <2>2, RefusedStep, PlaceFacts DEF Refuse
  <2>3. ASSUME SaveFails(op) PROVE IInv'
    <3>1. InScope(op) /\ pc[op] \notin Settled
      BY <2>3, PlaceFacts DEF SaveFails, ReadyToSave, IInv, Inside, Saving
    <3> QED BY <1>0, <2>3, <3>1, RefusedStep DEF SaveFails
  <2> QED BY <1>0, <1>1, <2>1, <2>2, <2>3, QuietStep, ReadStep, ChangeStep, SavedStep, WritesStep,
             RenamesStep DEF Step
<1>2. CASE ProcessDies
  BY <1>0, <1>2, ReopenStep DEF ProcessDies, IInv, Snapshots
<1>4. CASE MachineCrashes
  <2>1. PICK snapshot \in {durable, renamed} :
          durable' = snapshot /\ renamed' = snapshot /\ memory' = snapshot
    BY <1>4 DEF MachineCrashes
  <2> QED BY <1>0, <1>4, <2>1, ReopenStep DEF MachineCrashes
<1>3. CASE UNCHANGED vars
  BY <1>0, <1>3 DEF vars, IInv, Inside, InScope, Made, Applied, Pending, Clean, Snapshots, Answered,
     AckedDurable, SnapshotWhole, ReadersSeeDurable, Whole
<1> QED BY <1>1, <1>2, <1>3, <1>4 DEF Next

THEOREM Invariance == Spec => []IInv
  BY InitInv, StepInv, PTL DEF Spec

\* Types, for any operations and keys.
THEOREM TypeCorrect == Spec => []TypeOK
  BY Invariance, PTL DEF IInv

\* An operation whose caller was told of success stays through every crash (save's order).
THEOREM AckedStays == Spec => []AckedDurable
  BY Invariance, PTL DEF IInv

\* No restart finds half of a staged operation (commitStagedPersistence, withPersistenceScope).
THEOREM NoHalfSnapshot == Spec => []SnapshotWhole
  BY Invariance, PTL DEF IInv

\* A reader never acts on a staged operation that may still be lost (scope and poison), except
\* one that its process found, renamed and not yet synced, when it opened the store.
THEOREM ReadsAreDurable == Spec => []ReadersSeeDurable
  BY Invariance, PTL DEF IInv

(***************************************************************************)
(* The refinement.                                                         *)
(***************************************************************************)
LEMMA DurableGrows ==
  ASSUME IInv, [Next]_vars
  PROVE  durable \subseteq durable'
<1>1. ASSUME NEW op \in Ops, Start(op) \/ Step(op) PROVE durable \subseteq durable'
  BY <1>1 DEF Start, Step, Enqueue, Locked, EnterScope, Read, Change, ChangeThrows, Refuse, SaveNothing,
     SaveWrites, SaveRenames, SaveSyncs, SaveFails, IInv, Snapshots
<1>2. CASE ProcessDies \/ MachineCrashes
  BY <1>2 DEF ProcessDies, MachineCrashes, IInv, Snapshots
<1>3. CASE UNCHANGED vars BY <1>3 DEF vars
<1> QED BY <1>1, <1>2, <1>3 DEF Next

LEMMA PromiseStep ==
  ASSUME IInv, IInv', [Next]_vars
  PROVE  [Promise!Next]_(Promise!vars)
<1>1. Committed \subseteq Committed' /\ Committed' \in SUBSET Staged
  BY DurableGrows DEF Committed
<1>2. CASE acked' = acked
  BY <1>1, <1>2 DEF Promise!Next, Promise!Commit, Promise!vars
<1>3. CASE acked' # acked
  <2>1. PICK op \in Ops : SaveNothing(op) \/ SaveSyncs(op)
    BY <1>3 DEF Next, Start, Step, Enqueue, Locked, EnterScope, Read, Change, ChangeThrows, Refuse,
       SaveWrites, SaveRenames, SaveFails, ProcessDies, MachineCrashes, Reopened, vars
  <2>2. acked' = acked \cup {op} /\ op \in acked'
    BY <2>1 DEF SaveNothing, SaveSyncs
  <2>3. CASE op \in Staged
    <3>1. op \in Committed'
      BY <2>2, <2>3 DEF IInv, AckedDurable, Committed, Writers
    <3>2. (acked \cap Staged)' = (acked \cap Staged) \cup {op}
      BY <2>2, <2>3
    <3> QED BY <1>1, <3>1, <3>2 DEF Promise!Next, Promise!Acknowledge
  <2>4. CASE op \notin Staged
    <3>1. (acked \cap Staged)' = acked \cap Staged BY <2>2, <2>4
    <3> QED BY <1>1, <3>1 DEF Promise!Next, Promise!Commit, Promise!vars
  <2> QED BY <2>3, <2>4
<1> QED BY <1>2, <1>3

\* The store implements StagedStore: staged operations become durable whole, none is ever undone,
\* and only a durable one is acknowledged.
THEOREM ImplementsPromise == Spec => StoreSafety
<1>1. Init => Promise!Init
  <2>1. ASSUME Init, NEW op \in Staged PROVE ~(PartsOf(op) \subseteq durable)
    <3>1. <<op, 1>> \in PartsOf(op) BY DEF PartsOf, Parts
    <3> QED BY <2>1, <3>1 DEF Init
  <2> QED BY <2>1 DEF Init, Promise!Init, Committed
<1>2. IInv /\ IInv' /\ [Next]_vars => [Promise!Next]_(Promise!vars)
  BY PromiseStep
<1> QED BY <1>1, <1>2, Invariance, PTL DEF Spec, Promise!Spec, StoreSafety
=============================================================================
