---------------------------- MODULE DurableStore ----------------------------
(***************************************************************************)
(* The UserPersisto store (userPersistoAgent/lib: serial.mjs,              *)
(* persistence-scope.mjs, store.mjs, durable-storage.mjs): domain          *)
(* operations queue for keyed locks and then for the one persistence       *)
(* scope, change objects in memory, and save everything in memory as one   *)
(* snapshot file.                                                          *)
(*                                                                         *)
(* A scoped operation (serializePersisted) keeps the scope over all of its *)
(* changes and the save; a staged one (commitStagedPersistence) also       *)
(* poisons the store when one of them throws.  A plain operation enters    *)
(* the scope anew for every store call, so other operations run, and save, *)
(* between its changes.  A reader makes one store call.  The death of the  *)
(* process loses the memory; the next one opens the snapshot at its name.  *)
(* A crash of the machine may also undo a rename whose directory was not   *)
(* synced yet, and opening the store does not sync it.                     *)
(***************************************************************************)
EXTENDS Naturals, Sequences, FiniteSets

CONSTANTS
    Staged,      \* sign-up, sign-in, handoffs: changes under commitStagedPersistence
    Scoped,      \* credits.mutate, createUser, setUserRoles: changes, then flush
    Plain,       \* billing: one store call per change, then flush
    Readers,     \* operations that read once
    Keys,        \* keys of serialize(): parent flows, "users", domains
    Needs,       \* the keys each operation locks, in its order, before the scope
    MaxFaults    \* bound on crashes, thrown changes and failed saves, together

Writers == Staged \cup Scoped \cup Plain
Ops == Writers \cup Readers
Parts == 1..2

ASSUME KindAssumption ==
    /\ Staged \cap Scoped = {} /\ Staged \cap Plain = {} /\ Scoped \cap Plain = {}
    /\ Writers \cap Readers = {}
ASSUME NeedsAssumption == Needs \in [Ops -> Seq(Keys)]
ASSUME FaultsAssumption == MaxFaults \in Nat

VARIABLES
    pc,         \* where each operation is
    got,        \* how many of its keys each operation holds
    done,       \* the changes each operation made
    keys,       \* the queue of each key; its head holds it
    scope,      \* the queue of the persistence scope; its head is inside
    memory,     \* the changes in memory
    dirty,      \* memory holds something the last completed save did not write
    failed,     \* the store is poisoned: every later call answers 503
    renamed,    \* the snapshot at its name
    durable,    \* the snapshot a crash of the machine is sure to keep
    found,      \* the changes some process opened the store with before their rename was synced
    acked,      \* the operations reported successful to their callers
    saw,        \* what each reader read
    faults

vars == <<pc, got, done, keys, scope, memory, dirty, failed, renamed, durable, found, acked, saw, faults>>

Changes == Writers \X Parts
Settled == {"acked", "refused", "lost"}
Places == Settled \cup {"idle", "locking", "ready", "queued", "saving", "syncing"}

Init ==
    /\ pc = [op \in Ops |-> "idle"]
    /\ got = [op \in Ops |-> 0]
    /\ done = [op \in Ops |-> 0]
    /\ keys = [k \in Keys |-> <<>>]
    /\ scope = <<>>
    /\ memory = {} /\ dirty = FALSE /\ failed = FALSE
    /\ renamed = {} /\ durable = {} /\ found = {}
    /\ acked = {}
    /\ saw = [op \in Readers |-> {}]
    /\ faults = 0

InScope(op) == scope # <<>> /\ Head(scope) = op

\* A wrong Leave: the caller is answered but the scope's release is lost.
LeaveKeepsScope(op, place) ==
    /\ pc' = [pc EXCEPT ![op] = place]
    /\ keys' = [k \in Keys |-> IF keys[k] # <<>> /\ Head(keys[k]) = op THEN Tail(keys[k]) ELSE keys[k]]
    /\ UNCHANGED scope

\* The finally blocks of withPersistenceScope and serialize: op releases the scope and its keys.
Leave(op, place) ==
    /\ pc' = [pc EXCEPT ![op] = place]
    /\ keys' = [k \in Keys |-> IF keys[k] # <<>> /\ Head(keys[k]) = op THEN Tail(keys[k]) ELSE keys[k]]
    /\ scope' = Tail(scope)

(***************************************************************************)
(* serialize and withPersistenceScope: first come, first served.           *)
(***************************************************************************)
Start(op) ==
    /\ pc[op] = "idle"
    /\ pc' = [pc EXCEPT ![op] = "ready"]
    /\ UNCHANGED <<got, done, keys, scope, memory, dirty, failed, renamed, durable, found, acked, saw, faults>>

Enqueue(op) ==
    /\ pc[op] = "ready" /\ got[op] < Len(Needs[op])
    /\ pc' = [pc EXCEPT ![op] = "locking"]
    /\ keys' = [keys EXCEPT ![Needs[op][got[op] + 1]] = Append(@, op)]
    /\ UNCHANGED <<got, done, scope, memory, dirty, failed, renamed, durable, found, acked, saw, faults>>

Locked(op) ==
    /\ pc[op] = "locking"
    /\ Head(keys[Needs[op][got[op] + 1]]) = op
    /\ pc' = [pc EXCEPT ![op] = "ready"]
    /\ got' = [got EXCEPT ![op] = @ + 1]
    /\ UNCHANGED <<done, keys, scope, memory, dirty, failed, renamed, durable, found, acked, saw, faults>>

EnterScope(op) ==
    /\ pc[op] = "ready" /\ got[op] = Len(Needs[op])
    /\ pc' = [pc EXCEPT ![op] = "queued"]
    /\ scope' = Append(scope, op)
    /\ UNCHANGED <<got, done, keys, memory, dirty, failed, renamed, durable, found, acked, saw, faults>>

(***************************************************************************)
(* Store calls inside the scope.                                           *)
(***************************************************************************)
Read(op) ==
    /\ op \in Readers /\ pc[op] = "queued" /\ InScope(op) /\ ~failed
    /\ saw' = [saw EXCEPT ![op] = memory]
    /\ Leave(op, "acked")
    /\ UNCHANGED <<got, done, memory, dirty, failed, renamed, durable, found, acked, faults>>

\* A wrong Change: the scope is not re-entrant, so every operation leaves it between its store calls.
ChangeLeavesScope(op) ==
    /\ op \in Writers /\ pc[op] = "queued" /\ InScope(op) /\ ~failed
    /\ done[op] < Cardinality(Parts)
    /\ done' = [done EXCEPT ![op] = @ + 1]
    /\ memory' = memory \cup {<<op, done[op] + 1>>}
    /\ dirty' = TRUE
    /\ pc' = [pc EXCEPT ![op] = "ready"] /\ scope' = Tail(scope)
    /\ UNCHANGED <<got, keys, failed, renamed, durable, found, acked, saw, faults>>

\* A plain operation leaves the scope with every store call, the others stay in it.
Change(op) ==
    /\ op \in Writers /\ pc[op] = "queued" /\ InScope(op) /\ ~failed
    /\ done[op] < Cardinality(Parts)
    /\ done' = [done EXCEPT ![op] = @ + 1]
    /\ memory' = memory \cup {<<op, done[op] + 1>>}
    /\ dirty' = TRUE
    /\ IF op \in Plain
       THEN pc' = [pc EXCEPT ![op] = "ready"] /\ scope' = Tail(scope)
       ELSE UNCHANGED <<pc, scope>>
    /\ UNCHANGED <<got, keys, failed, renamed, durable, found, acked, saw, faults>>

\* A change throws: commitStagedPersistence poisons the store, the other operations only fail.
ChangeThrows(op) ==
    /\ op \in Writers /\ pc[op] = "queued" /\ InScope(op) /\ ~failed
    /\ done[op] < Cardinality(Parts)
    /\ faults < MaxFaults /\ faults' = faults + 1
    /\ failed' = (op \in Staged)
    /\ Leave(op, "refused")
    /\ UNCHANGED <<got, done, memory, dirty, renamed, durable, found, acked, saw>>

\* Every call on a poisoned store throws.
Refuse(op) ==
    /\ pc[op] = "queued" /\ InScope(op) /\ failed
    /\ Leave(op, "refused")
    /\ UNCHANGED <<got, done, memory, dirty, failed, renamed, durable, found, acked, saw, faults>>

(***************************************************************************)
(* save: write a temporary file, rename it, sync the directory.            *)
(***************************************************************************)
ReadyToSave(op) ==
    op \in Writers /\ pc[op] = "queued" /\ InScope(op) /\ ~failed /\ done[op] = Cardinality(Parts)

\* Nothing changed since the last completed save: another operation's save wrote it.
SaveNothing(op) ==
    /\ ReadyToSave(op) /\ ~dirty
    /\ acked' = acked \cup {op}
    /\ Leave(op, "acked")
    /\ UNCHANGED <<got, done, memory, dirty, failed, renamed, durable, found, saw, faults>>

\* The temporary file, written and synced, is not visible at the snapshot's name yet.
SaveWrites(op) ==
    /\ ReadyToSave(op) /\ dirty
    /\ pc' = [pc EXCEPT ![op] = "saving"]
    /\ UNCHANGED <<got, done, keys, scope, memory, dirty, failed, renamed, durable, found, acked, saw, faults>>

\* A wrong SaveRenames: it answers after the rename, without syncing the directory.
SaveRenamesAndAnswers(op) ==
    /\ pc[op] = "saving"
    /\ renamed' = memory /\ dirty' = FALSE
    /\ acked' = acked \cup {op}
    /\ Leave(op, "acked")
    /\ UNCHANGED <<got, done, memory, failed, durable, found, saw, faults>>

SaveRenames(op) ==
    /\ pc[op] = "saving"
    /\ pc' = [pc EXCEPT ![op] = "syncing"]
    /\ renamed' = memory
    /\ UNCHANGED <<got, done, keys, scope, memory, dirty, failed, durable, found, acked, saw, faults>>

SaveSyncs(op) ==
    /\ pc[op] = "syncing"
    /\ durable' = renamed /\ dirty' = FALSE
    /\ acked' = acked \cup {op}
    /\ Leave(op, "acked")
    /\ UNCHANGED <<got, done, memory, failed, renamed, found, saw, faults>>

\* A wrong SaveFails: a failed save is only reported to its caller.
SaveFailsUnpoisoned(op) ==
    /\ ReadyToSave(op) \/ pc[op] \in {"saving", "syncing"}
    /\ faults < MaxFaults /\ faults' = faults + 1
    /\ Leave(op, "refused")
    /\ UNCHANGED <<got, done, memory, dirty, failed, renamed, durable, found, acked, saw>>

\* Any failure of a save poisons the store, also after the rename.
SaveFails(op) ==
    /\ ReadyToSave(op) \/ pc[op] \in {"saving", "syncing"}
    /\ faults < MaxFaults /\ faults' = faults + 1
    /\ failed' = TRUE
    /\ Leave(op, "refused")
    /\ UNCHANGED <<got, done, memory, dirty, renamed, durable, found, acked, saw>>

Reopened ==
    /\ dirty' = FALSE /\ failed' = FALSE
    /\ pc' = [op \in Ops |-> IF pc[op] \in Settled \cup {"idle"} THEN pc[op] ELSE "lost"]
    /\ keys' = [k \in Keys |-> <<>>] /\ scope' = <<>>
    /\ UNCHANGED <<got, done, acked, saw>>

\* The process dies and another opens the store: operations under way get no answer. What
\* it finds may be renamed only; it neither syncs the directory nor counts it as a change.
ProcessDies ==
    /\ faults < MaxFaults /\ faults' = faults + 1
    /\ memory' = renamed
    /\ found' = found \cup (renamed \ durable)
    /\ Reopened
    /\ UNCHANGED <<renamed, durable>>

\* A wrong MachineCrashes: an unreadable snapshot is taken for an empty store.
MachineCrashesToEmpty ==
    /\ faults < MaxFaults /\ faults' = faults + 1
    /\ \E snapshot \in {durable, renamed, {}} :
          durable' = snapshot /\ renamed' = snapshot /\ memory' = snapshot
    /\ Reopened
    /\ UNCHANGED found

\* The machine crashes: either name may be on the disk that the store is opened from next.
MachineCrashes ==
    /\ faults < MaxFaults /\ faults' = faults + 1
    /\ \E snapshot \in {durable, renamed} :
          durable' = snapshot /\ renamed' = snapshot /\ memory' = snapshot
    /\ Reopened
    /\ UNCHANGED found

Step(op) ==
    \/ Enqueue(op) \/ Locked(op) \/ EnterScope(op) \/ Read(op) \/ Change(op) \/ ChangeThrows(op)
    \/ Refuse(op) \/ SaveNothing(op) \/ SaveWrites(op) \/ SaveRenames(op) \/ SaveSyncs(op)
    \/ SaveFails(op)

Next == ProcessDies \/ MachineCrashes \/ \E op \in Ops : Start(op) \/ Step(op)

Spec == Init /\ [][Next]_vars

\* The event loop runs every operation that can go on.
FairSpec == Spec /\ \A op \in Ops : WF_vars(Step(op))

(***************************************************************************)
(* Properties.                                                             *)
(***************************************************************************)
\* Every variable keeps its type.
TypeOK ==
    /\ pc \in [Ops -> Places]
    /\ got \in [Ops -> Nat]
    /\ done \in [Ops -> 0..Cardinality(Parts)]
    /\ keys \in [Keys -> Seq(Ops)]
    /\ scope \in Seq(Ops)
    /\ memory \in SUBSET Changes /\ renamed \in SUBSET Changes /\ durable \in SUBSET Changes
    /\ found \in SUBSET Changes
    /\ dirty \in BOOLEAN /\ failed \in BOOLEAN
    /\ acked \in SUBSET Ops
    /\ saw \in [Readers -> SUBSET Changes]
    /\ faults \in 0..MaxFaults

PartsOf(op) == {op} \X Parts
Whole(op, state) == PartsOf(op) \subseteq state \/ PartsOf(op) \cap state = {}

\* Once its caller was told of success, a crash at any later point keeps an operation's changes
\* (durable-storage.mjs save: sync, rename and directory sync come before the answer).
AckedDurable == \A op \in acked \cap Writers : PartsOf(op) \subseteq durable

\* No snapshot a restart may find holds half of a staged operation, whatever failed; nor half of
\* a scoped operation, unless one of its own changes threw (store.mjs commitStagedPersistence).
SnapshotWhole ==
    \A snapshot \in {renamed, durable} :
        /\ \A op \in Staged : Whole(op, snapshot)
        /\ \A op \in Scoped : pc[op] = "refused" \/ Whole(op, snapshot)

\* Nobody acts on a staged operation that a crash could still undo: what a reader saw of one is
\* all of it, and durable (persistence-scope.mjs:6, the scope; durable-storage.mjs:256, poison).
\* The one exception is what a process found at the snapshot's name when it opened the store
\* before the rename was synced: it serves that, and a crash of the machine can still undo it.
ReadersSeeDurable ==
    \A reader \in Readers, op \in Staged :
        /\ Whole(op, saw[reader])
        /\ PartsOf(op) \cap saw[reader] \subseteq durable \cup found

\* The snapshots implement StagedStore: whole operations become durable, none is undone, and
\* only a durable one is acknowledged.
Committed == {op \in Staged : PartsOf(op) \subseteq durable}
Promise == INSTANCE StagedStore WITH Ops <- Staged, committed <- Committed, acked <- acked \cap Staged
StoreSafety == Promise!Spec

\* Every operation is answered or dies with the process: nobody waits for ever for a key or the
\* scope, after any thrown change, failed save, process death or crash.
EveryOperationAnswered == \A op \in Ops : pc[op] = "ready" ~> pc[op] \in Settled
=============================================================================
