-------------------------- MODULE DocumentDeletion --------------------------
(***************************************************************************)
(* The two-phase deletion of a SCRIPTA document (prepareRemove,            *)
(* commitRemove, rollbackRemove and the recovery of                        *)
(* explorer/utils/server/markdown-crdt/markdown-crdt-store.mjs).           *)
(*                                                                         *)
(* A document is a Markdown file at a path, its Automerge state and,       *)
(* perhaps, a collaboration replica, both kept under the document's id.    *)
(* Prepare renames them one by one into a directory of the transaction and *)
(* writes the transaction's record last; commit removes the directory;     *)
(* rollback, which a recovery calls as well, renames them back.  A rename  *)
(* replaces what is at its destination.                                    *)
(*                                                                         *)
(* One path is modelled.  Its lock lets one operation run at a time and    *)
(* is taken over when its process has died, so the operation under way is  *)
(* one variable.  Tools that write files without the lock are left out.    *)
(* Which rename, write or removal fails is arbitrary.                      *)
(* A definition placed just before the one it resembles is a faulty        *)
(* variant of it, named in PROJECT.json with the property it breaks.       *)
(***************************************************************************)
EXTENDS Integers

CONSTANTS
  Docs,       \* documents that may be at the path, one after the other
  First,      \* the one that is there at the start
  Txs,        \* deletion transactions
  MaxFaults,  \* bound on failing calls and crashes
  None

ASSUME FirstAssumption == First \in Docs /\ None \notin Docs \cup Txs

Kinds == {"markdown", "state", "artifact"}

(* The order in which the files of a document are moved, and moved back    *)
(* when that fails.                                                        *)
Rank == [markdown |-> 1, state |-> 2, artifact |-> 3]

(* A file: whose it is, which one, and whether an open made its state anew *)
(* because there was none.                                                 *)
File(d, f) == <<d, f, "kept">>
NewState(d) == <<d, "state", "new">>

VARIABLES
  place,      \* files at their place
  staged,     \* files in the directory of each transaction
  doc,        \* the document of a transaction
  record,     \* the files its transaction.json names, or None
  op,         \* the operation under way: its kind, transaction, files to move
  made,       \* files that were ever made
  condemned,  \* files a commit was asked to remove
  failures,   \* failed calls of the operation
  sound,      \* no operation died half way or met two failures
  faults

files == <<place, staged>>
vars == <<files, doc, record, op, made, condemned, failures, sound, faults>>

Idle == [kind |-> "idle", tx |-> None, todo |-> {}]

NewDocument(d) ==
  {{File(d, "markdown"), File(d, "state")}, {File(d, "markdown"), File(d, "state"), File(d, "artifact")}}

Init ==
  /\ place \in NewDocument(First) /\ made = place
  /\ staged = [t \in Txs |-> {}] /\ doc = [t \in Txs |-> None] /\ record = [t \in Txs |-> None]
  /\ op = Idle /\ condemned = {} /\ failures = 0 /\ sound = TRUE /\ faults = 0

(* The path is shared; state and replica have the document's own names.    *)
Occupant(f, d) == {i \in place : i[2] = f /\ (f = "markdown" \/ i[1] = d)}

StagedAs(f, t) == {i \in staged[t] : i[2] = f}

Stage(f, t) ==
  /\ place' = place \ Occupant(f, doc[t])
  /\ staged' = [staged EXCEPT ![t] = (@ \ StagedAs(f, t)) \cup Occupant(f, doc[t])]

Unstage(f, t) ==
  /\ place' = (place \ Occupant(f, doc[t])) \cup StagedAs(f, t)
  /\ staged' = [staged EXCEPT ![t] = @ \ StagedAs(f, t)]

----------------------------------------------------------------------------
(* Operations start when the lock is free.                                 *)

Begin(kind, t, todo) ==
  /\ op = Idle /\ op' = [kind |-> kind, tx |-> t, todo |-> todo]
  /\ failures' = 0

Continue(kind, todo) == op' = [op EXCEPT !.kind = kind, !.todo = todo]

(* A call fails.                                                           *)
Fails == failures' = failures + 1 /\ sound' = (sound /\ failures = 0)
Fault == faults < MaxFaults /\ faults' = faults + 1
Succeeds == UNCHANGED <<failures, sound, faults>>

(* A document that is read without a state gets one from its Markdown.     *)
Initializes(d) ==
  /\ File(d, "markdown") \in place /\ NewState(d) \notin made
  /\ \A i \in place : i[2] # "state"
  /\ place' = place \cup {NewState(d)} /\ made' = made \cup {NewState(d)}
  /\ UNCHANGED staged

Open ==
  /\ op = Idle /\ \E d \in Docs : Initializes(d)
  /\ UNCHANGED <<doc, record, op, condemned, failures, sound, faults>>

Create(d) ==
  /\ op = Idle /\ Occupant("markdown", d) = {} /\ File(d, "markdown") \notin made
  /\ \E new \in NewDocument(d) : place' = place \cup new /\ made' = made \cup new
  /\ UNCHANGED <<staged, doc, record, op, condemned, failures, sound, faults>>

(* The document is found by its state, whichever Markdown is at the path,  *)
(* or by the Markdown.                                                     *)
StartPrepare(t) ==
  /\ doc[t] = None /\ Begin("prepare", t, Kinds)
  /\ \E d \in Docs :
       /\ doc' = [doc EXCEPT ![t] = d]
       /\ \/ Occupant("state", d) # {} /\ UNCHANGED <<files, made>>
          \/ Initializes(d)
  /\ UNCHANGED <<record, condemned, sound, faults>>

(* Recovery of a record that is five minutes old, and a caller's rollback. *)
StartRollbackUnchecked(t) ==
  /\ record[t] # None
  /\ Begin("rollback", t, record[t])
  /\ UNCHANGED <<files, doc, record, made, condemned, sound, faults>>

(* Rollback needs every destination to be free.                            *)
StartRollback(t) ==
  /\ record[t] # None /\ \A f \in record[t] : Occupant(f, doc[t]) = {}
  /\ Begin("rollback", t, record[t])
  /\ UNCHANGED <<files, doc, record, made, condemned, sound, faults>>

StartCommit(t) ==
  /\ record[t] # None /\ Begin("remove", t, {})
  /\ condemned' = condemned \cup staged[t]
  /\ UNCHANGED <<files, doc, record, made, sound, faults>>

----------------------------------------------------------------------------
(* The steps of the operation under way.                                   *)

(* The file that is next: undoing goes backwards.                          *)
Before(f, g) == IF op.kind \in {"undo", "unroll"} THEN Rank[f] > Rank[g] ELSE Rank[f] < Rank[g]

Current == CHOOSE f \in op.todo : \A g \in op.todo \ {f} : Before(f, g)

Rest == op.todo \ {Current}

Step(kind) == op.kind = kind /\ op.todo # {}

UndoForgetsState == {f \in Kinds \ {"state"} : StagedAs(f, op.tx) # {}}

(* What a failed prepare has moved.                                        *)
Moved == {f \in Kinds : StagedAs(f, op.tx) # {}}

PrepareMoves ==
  /\ Step("prepare") /\ Occupant(Current, doc[op.tx]) # {}
  /\ Stage(Current, op.tx) /\ Continue("prepare", Rest) /\ Succeeds
  /\ UNCHANGED <<doc, record, made, condemned>>

(* The replica is optional.                                                *)
PrepareSkips ==
  /\ Step("prepare") /\ Current = "artifact" /\ Occupant(Current, doc[op.tx]) = {}
  /\ Continue("prepare", Rest) /\ Succeeds
  /\ UNCHANGED <<files, doc, record, made, condemned>>

PrepareRecords ==
  /\ op.kind = "prepare" /\ op.todo = {} /\ op' = Idle
  /\ record' = [record EXCEPT ![op.tx] = {i[2] : i \in staged[op.tx]}]
  /\ Succeeds /\ UNCHANGED <<files, doc, made, condemned>>

(* A file is missing, or a rename or the write of the record fails.        *)
PrepareFails ==
  /\ op.kind = "prepare" /\ Continue("undo", Moved) /\ Fails
  /\ \/ Step("prepare") /\ Current # "artifact" /\ Occupant(Current, doc[op.tx]) = {} /\ UNCHANGED faults
     \/ Fault
  /\ UNCHANGED <<files, doc, record, made, condemned>>

(* The directory of a prepare that could not be undone is left.            *)
Undo ==
  /\ op.kind = "undo" /\ UNCHANGED <<doc, record, made, condemned>>
  /\ \/ op.todo # {} /\ Unstage(Current, op.tx) /\ Continue("undo", Rest) /\ Succeeds
     \/ op.todo # {} /\ Fault /\ Fails /\ Continue("undo", Rest) /\ UNCHANGED files
     \/ /\ op.todo = {} /\ UNCHANGED files /\ Succeeds
        /\ IF staged[op.tx] = {} THEN Continue("remove", {}) ELSE op' = Idle

RollbackMoves ==
  /\ Step("rollback") /\ StagedAs(Current, op.tx) # {}
  /\ Unstage(Current, op.tx) /\ Continue("rollback", Rest) /\ Succeeds
  /\ condemned' = condemned \ StagedAs(Current, op.tx)
  /\ UNCHANGED <<doc, record, made>>

(* What is back so far.                                                    *)
Restored == record[op.tx] \ op.todo

RollbackFails ==
  /\ Step("rollback") /\ Continue("unroll", Restored) /\ Fails
  /\ \/ StagedAs(Current, op.tx) = {} /\ UNCHANGED faults
     \/ Fault
  /\ UNCHANGED <<files, doc, record, made, condemned>>

RollbackEnds ==
  /\ op.kind = "rollback" /\ op.todo = {} /\ Continue("remove", {}) /\ Succeeds
  /\ UNCHANGED <<files, doc, record, made, condemned>>

Unroll ==
  /\ op.kind = "unroll" /\ UNCHANGED <<doc, record, made, condemned>>
  /\ \/ op.todo # {} /\ Stage(Current, op.tx) /\ Continue("unroll", Rest) /\ Succeeds
     \/ op.todo # {} /\ Fault /\ Fails /\ Continue("unroll", Rest) /\ UNCHANGED files
     \/ op.todo = {} /\ op' = Idle /\ UNCHANGED files /\ Succeeds

(* The directory's entries are removed in any order.                       *)
RemoveEntry ==
  /\ op.kind = "remove" /\ UNCHANGED <<place, doc, made, condemned>>
  /\ \/ /\ \E i \in staged[op.tx] : staged' = [staged EXCEPT ![op.tx] = @ \ {i}]
        /\ UNCHANGED <<record, op>> /\ Succeeds
     \/ /\ record[op.tx] # None /\ record' = [record EXCEPT ![op.tx] = None]
        /\ UNCHANGED <<staged, op>> /\ Succeeds
     \/ /\ staged[op.tx] = {} /\ record[op.tx] = None /\ op' = Idle
        /\ UNCHANGED <<staged, record>> /\ Succeeds
     \/ Fault /\ Fails /\ op' = Idle /\ UNCHANGED <<staged, record>>

Crash ==
  /\ op # Idle /\ Fault /\ op' = Idle /\ sound' = FALSE
  /\ UNCHANGED <<files, doc, record, made, condemned, failures>>

Next ==
  \/ Open \/ PrepareMoves \/ PrepareSkips \/ PrepareRecords \/ PrepareFails \/ Undo
  \/ RollbackMoves \/ RollbackFails \/ RollbackEnds \/ Unroll \/ RemoveEntry \/ Crash
  \/ \E d \in Docs : Create(d)
  \/ \E t \in Txs : StartPrepare(t) \/ StartRollback(t) \/ StartCommit(t)

Spec == Init /\ [][Next]_vars

----------------------------------------------------------------------------
(* Properties.                                                             *)

(* Where a file is: the transactions that hold it, and None for its place. *)
Where(i) == {p \in Txs \cup {None} : IF p = None THEN i \in place ELSE i \in staged[p]}

(* Every file that was ever made is at its place or in one transaction,    *)
(* whatever failed or died and whatever was created meanwhile, unless a    *)
(* commit was asked to remove it: nothing is overwritten, copied or        *)
(* dropped.                                                                *)
NothingLost == \A i \in made \ condemned : \E p \in Where(i) : Where(i) = {p}

FilesOf(d) == {i \in made : i[1] = d}

(* Between operations a document is whole: at its place, or staged under a *)
(* record that restores it; or a commit has begun and nothing of it is to  *)
(* be seen.  Promised unless a process died in the middle of an operation  *)
(* or one operation met two failures.                                      *)
AllOrNothing ==
  op = Idle /\ sound =>
    \A d \in Docs :
      \/ FilesOf(d) \subseteq place
      \/ \E t \in Txs : staged[t] = FilesOf(d) /\ record[t] = {i[2] : i \in FilesOf(d)}
      \/ FilesOf(d) \cap place = {} /\ FilesOf(d) \cap condemned # {}

=============================================================================
