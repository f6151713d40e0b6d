--------------------------- MODULE WorkspaceLock ---------------------------
(***************************************************************************)
(* The workspace state lock of the copilot                                 *)
(* (roboTeamAgent/copilot/src/lib/storage/workspaceStateLock.mjs): one     *)
(* lock path, shared by processes that see only the same directory.  The   *)
(* lock is a file created with O_EXCL that names its owner; a claim file   *)
(* ("<lock>.recovery") serialises the removal of a dead owner's file.      *)
(*                                                                         *)
(* Each call of acquire is one element of Acquires: it draws its own       *)
(* random token, so the element is its token.  A step is one file-system   *)
(* call; JavaScript runs tryAcquire and the release without interruption   *)
(* inside a process, so at most one call of a process is inside them, but  *)
(* the processes interleave between any two file-system calls.             *)
(*                                                                         *)
(* A definition placed just before the one it resembles, and used nowhere, *)
(* is a faulty variant of it: the property it breaks is named in           *)
(* PROJECT.json (here OwnerDeadOnProbeError, JudgeClaimTakesOver, ...).     *)
(***************************************************************************)
EXTENDS Naturals

CONSTANTS
    Procs,      \* process incarnations: a restarted process is another one
    Acquires,   \* the calls of acquire, each with the token it draws
    Proc,       \* the process each call runs in
    Waits,      \* TRUE for mutation.lock (polls until a deadline), FALSE for a lease
    MaxFaults,  \* bound on crashes and failed file-system calls, together
    None

ASSUME ProcAssumption == Proc \in [Acquires -> Procs]
ASSUME NoneAssumption == None \notin Acquires /\ None \notin [tok : Acquires, full : BOOLEAN]
ASSUME WaitsAssumption == Waits \in BOOLEAN
ASSUME FaultsAssumption == MaxFaults \in Nat

VARIABLES
    file,       \* the two paths: None, or the record [tok, full]; full once written
    alive,      \* the processes that run
    orphan,     \* per process and path: the token whose removal failed here
    pc,         \* where each call of acquire is
    seen,       \* the token each call read last from the lock file
    verified,   \* the call compared the token and unlinks next
    retried,    \* a lease is in its second attempt; a waiter looks again at an incomplete record
    faults

vars == <<file, alive, orphan, pc, seen, verified, retried, faults>>

Paths == {"lock", "claim"}
Record == [tok : Acquires, full : BOOLEAN]

\* The removals: removeOwned runs for each of these, and ends as AfterRemoval says.
OwnRemovals == {"undo", "release", "unclaim", "unclaimThrow"}
OrphanRemovals == {"dropOrphanClaim", "dropOrphanLock"}
Removals == OwnRemovals \cup OrphanRemovals \cup {"evict"}

\* Inside tryAcquire or the release, without an await.
Synchronous ==
    Removals \cup {"try", "judgeClaim", "create", "recreate", "write", "postCheck",
                   "inspect", "judge", "claim", "writeClaim", "confirm"}
                   \cup (IF Waits THEN {} ELSE {"miss"})
\* "abandoned": the call threw between completing its record and handing it to anyone.
Settled == {"done", "busy", "failed", "abandoned"}
Places == Synchronous \cup Settled \cup {"idle", "miss", "again", "held", "releaseFailed"}

Init ==
    /\ file = [f \in Paths |-> None]
    /\ alive = Procs
    /\ orphan = [p \in Procs |-> [f \in Paths |-> None]]
    /\ pc = [a \in Acquires |-> "idle"]
    /\ seen = [a \in Acquires |-> None]
    /\ verified = [a \in Acquires |-> FALSE]
    /\ retried = [a \in Acquires |-> FALSE]
    /\ faults = 0

Alive(a) == Proc[a] \in alive
Names(f, a) == file[f] # None /\ file[f].tok = a
HeldBy(p) == \E a \in Acquires : Proc[a] = p /\ pc[a] = "held"
ThreadFree(p) == \A a \in Acquires : Proc[a] = p => pc[a] \notin Synchronous

OwnerDeadOnProbeError(tok) == tok \in Acquires

\* ownerState of a complete record: dead when the process it names is gone.
OwnerDead(tok) == Proc[tok] \notin alive

\* recoverOwnOrphan: this process failed to remove this very record and nothing here holds the lock.
OwnOrphan(p, f) ==
    /\ file[f] # None /\ file[f].full
    /\ file[f].tok = orphan[p][f]
    /\ f = "lock" => ~HeldBy(p)

Goto(a, place) == pc' = [pc EXCEPT ![a] = place]

(***************************************************************************)
(* tryAcquire                                                              *)
(***************************************************************************)
Begin(a) ==
    /\ pc[a] = "idle" /\ Alive(a) /\ ThreadFree(Proc[a])
    /\ Goto(a, "try")
    /\ UNCHANGED <<file, alive, orphan, seen, verified, retried, faults>>

CheckClaim(a) ==
    /\ pc[a] = "try" /\ Alive(a)
    /\ \/ file["claim"] = None /\ Goto(a, "create")
       \/ OwnOrphan(Proc[a], "claim") /\ Goto(a, "dropOrphanClaim")
       \/ /\ file["claim"] # None /\ ~OwnOrphan(Proc[a], "claim")
          /\ Goto(a, IF file["claim"].full THEN "judgeClaim" ELSE "failed")
    /\ seen' = [seen EXCEPT ![a] = IF file["claim"] = None THEN None ELSE file["claim"].tok]
    /\ UNCHANGED <<file, alive, orphan, verified, retried, faults>>

JudgeClaimTakesOver(a) ==
    /\ pc[a] = "judgeClaim" /\ Alive(a)
    /\ file' = IF OwnerDead(seen[a]) THEN [file EXCEPT !["claim"] = None] ELSE file
    /\ Goto(a, IF OwnerDead(seen[a]) THEN "create" ELSE "miss")
    /\ UNCHANGED <<alive, orphan, seen, verified, retried, faults>>

\* The claimant's state is asked for after the file was read: a dead one is refused for ever.
JudgeClaim(a) ==
    /\ pc[a] = "judgeClaim" /\ Alive(a)
    /\ Goto(a, IF OwnerDead(seen[a]) THEN "failed" ELSE "miss")
    /\ UNCHANGED <<file, alive, orphan, seen, verified, retried, faults>>

CreateLockNotExclusive(a) ==
    /\ pc[a] \in {"create", "recreate"} /\ Alive(a)
    /\ file' = [file EXCEPT !["lock"] = [tok |-> a, full |-> FALSE]]
    /\ Goto(a, "write")
    /\ UNCHANGED <<alive, orphan, seen, verified, retried, faults>>

\* createOwner opens the file first; its record is written by the next call.
CreateLock(a) ==
    /\ pc[a] \in {"create", "recreate"} /\ Alive(a)
    /\ IF file["lock"] = None
       THEN /\ file' = [file EXCEPT !["lock"] = [tok |-> a, full |-> FALSE]]
            /\ Goto(a, "write")
       ELSE /\ Goto(a, IF pc[a] = "create" THEN "inspect" ELSE "miss")
            /\ UNCHANGED file
    /\ UNCHANGED <<alive, orphan, seen, verified, retried, faults>>

FullyWritten(a) ==
    LET f == IF pc[a] = "write" THEN "lock" ELSE "claim" IN
    IF Names(f, a) THEN [file EXCEPT ![f] = [tok |-> a, full |-> TRUE]] ELSE file

WriteRecord(a) ==
    /\ pc[a] \in {"write", "writeClaim"} /\ Alive(a)
    /\ file' = FullyWritten(a)
    /\ Goto(a, IF pc[a] = "write" THEN "postCheck" ELSE "confirm")
    /\ UNCHANGED <<alive, orphan, seen, verified, retried, faults>>

\* createOwner throws out of its write, and leaves the incomplete file behind, or out of
\* the fstat or close after it, and leaves a complete one that nobody remembers.
WriteFails(a) ==
    /\ pc[a] \in {"write", "writeClaim"} /\ Alive(a)
    /\ faults < MaxFaults /\ faults' = faults + 1
    /\ \/ Goto(a, "failed") /\ UNCHANGED file
       \/ Goto(a, "abandoned") /\ file' = FullyWritten(a)
    /\ UNCHANGED <<alive, orphan, seen, verified, retried>>

\* A claim that appeared since CheckClaim makes the new record yield to the recovery.
PostCheck(a) ==
    /\ pc[a] = "postCheck" /\ Alive(a)
    /\ IF file["claim"] = None
       THEN /\ Goto(a, "held")
            /\ orphan' = [orphan EXCEPT ![Proc[a]]["lock"] = None]
       ELSE Goto(a, "undo") /\ UNCHANGED orphan
    /\ UNCHANGED <<file, alive, seen, verified, retried, faults>>

\* An ambiguous owner: a waiter looks once more before its deadline, a lease gives up.
RefuseAmbiguous(a) ==
    /\ \E place \in (IF Waits /\ ~retried[a] THEN {"again", "failed"} ELSE {"failed"}) : Goto(a, place)
    /\ retried' = [retried EXCEPT ![a] = TRUE]

Inspect(a) ==
    /\ pc[a] = "inspect" /\ Alive(a)
    /\ \/ /\ file["lock"] = None /\ Goto(a, "miss") /\ UNCHANGED <<seen, retried>>
       \/ /\ OwnOrphan(Proc[a], "lock") /\ Goto(a, "dropOrphanLock") /\ UNCHANGED <<seen, retried>>
       \/ /\ file["lock"] # None /\ ~OwnOrphan(Proc[a], "lock")
          /\ IF file["lock"].full
             THEN /\ seen' = [seen EXCEPT ![a] = file["lock"].tok]
                  /\ Goto(a, "judge")
                  /\ UNCHANGED retried
             ELSE RefuseAmbiguous(a) /\ UNCHANGED seen
    /\ UNCHANGED <<file, alive, orphan, verified, faults>>

\* recoverDeadOwner asks for the owner's state after it read the file.
Judge(a) ==
    /\ pc[a] = "judge" /\ Alive(a)
    /\ Goto(a, IF OwnerDead(seen[a]) THEN "claim" ELSE "miss")
    /\ UNCHANGED <<file, alive, orphan, seen, verified, retried, faults>>

CreateClaimNotExclusive(a) ==
    /\ pc[a] = "claim" /\ Alive(a)
    /\ file' = [file EXCEPT !["claim"] = [tok |-> a, full |-> FALSE]]
    /\ Goto(a, "writeClaim")
    /\ UNCHANGED <<alive, orphan, seen, verified, retried, faults>>

CreateClaim(a) ==
    /\ pc[a] = "claim" /\ Alive(a)
    /\ IF file["claim"] = None
       THEN /\ file' = [file EXCEPT !["claim"] = [tok |-> a, full |-> FALSE]]
            /\ Goto(a, "writeClaim")
       ELSE Goto(a, "miss") /\ UNCHANGED file
    /\ UNCHANGED <<alive, orphan, seen, verified, retried, faults>>

ConfirmAgainstOwnToken(a) ==
    /\ pc[a] = "confirm" /\ Alive(a)
    /\ Goto(a, IF Names("lock", a) THEN "evict" ELSE "unclaim")
    /\ UNCHANGED <<file, alive, orphan, seen, verified, retried, faults>>

\* Under the claim the lock file must still be the dead owner's.
Confirm(a) ==
    /\ pc[a] = "confirm" /\ Alive(a)
    /\ Goto(a, IF /\ Names("lock", seen[a]) /\ file["lock"].full
                  /\ OwnerDead(seen[a])
               THEN "evict" ELSE "unclaim")
    /\ UNCHANGED <<file, alive, orphan, seen, verified, retried, faults>>

\* Where a call goes on when a read or an open of the attempt throws: only a claim is dropped
\* first (finally), and a throw out of the last look at the claim abandons the new record.
Thrown == [try |-> "failed", create |-> "failed", recreate |-> "failed", inspect |-> "failed",
           claim |-> "failed", miss |-> "failed", postCheck |-> "abandoned",
           confirm |-> "unclaimThrow"]

CallFails(a) ==
    /\ pc[a] \in DOMAIN Thrown \cap Synchronous /\ Alive(a)
    /\ faults < MaxFaults /\ faults' = faults + 1
    /\ Goto(a, Thrown[pc[a]])
    /\ UNCHANGED <<file, alive, orphan, seen, verified, retried>>

\* /proc cannot be read: an owner that is neither provably dead nor alive is not removed.
OwnerUnknown(a) ==
    /\ pc[a] \in {"judgeClaim", "judge", "confirm"} /\ Alive(a)
    /\ faults < MaxFaults /\ faults' = faults + 1
    /\ \/ pc[a] = "judge" /\ RefuseAmbiguous(a)
       \/ pc[a] = "judgeClaim" /\ Goto(a, "failed") /\ UNCHANGED retried
       \/ pc[a] = "confirm" /\ Goto(a, "unclaim") /\ UNCHANGED retried
    /\ UNCHANGED <<file, alive, orphan, seen, verified>>

(***************************************************************************)
(* removeOwned: compare the token, then unlink the path.                   *)
(***************************************************************************)
Target(a) == IF pc[a] \in {"dropOrphanClaim", "unclaim", "unclaimThrow"} THEN "claim" ELSE "lock"

Expected(a) ==
    IF pc[a] \in OrphanRemovals THEN orphan[Proc[a]][Target(a)]
    ELSE IF pc[a] = "evict" THEN seen[a] ELSE a

\* Where a call goes on after its removal.
AfterRemoval == [dropOrphanClaim |-> "create", dropOrphanLock |-> "recreate", evict |-> "unclaim",
                 unclaim |-> "miss", unclaimThrow |-> "failed", undo |-> "miss", release |-> "done"]

\* A recovered orphan also ends the lease whose release had failed.
Succeeds(a) ==
    /\ orphan' = IF pc[a] # "evict" /\ orphan[Proc[a]][Target(a)] = Expected(a)
                 THEN [orphan EXCEPT ![Proc[a]][Target(a)] = None] ELSE orphan
    /\ pc' = [b \in Acquires |->
                IF b = a THEN AfterRemoval[pc[a]]
                ELSE IF pc[a] = "dropOrphanLock" /\ b = Expected(a) /\ pc[b] = "releaseFailed"
                     THEN "done" ELSE pc[b]]
    /\ verified' = [verified EXCEPT ![a] = FALSE]

FailsUnremembered(a) ==
    /\ Goto(a, IF pc[a] = "release" THEN "releaseFailed"
               ELSE IF pc[a] = "evict" THEN "unclaimThrow" ELSE "failed")
    /\ verified' = [verified EXCEPT ![a] = FALSE]
    /\ UNCHANGED orphan

\* removeOwnRecord remembers its own record as an orphan; a failed eviction still drops the claim.
Fails(a) ==
    /\ orphan' = IF pc[a] \in OwnRemovals
                 THEN [orphan EXCEPT ![Proc[a]][Target(a)] = a] ELSE orphan
    /\ Goto(a, IF pc[a] = "release" THEN "releaseFailed"
               ELSE IF pc[a] = "evict" THEN "unclaimThrow" ELSE "failed")
    /\ verified' = [verified EXCEPT ![a] = FALSE]

\* An absent file counts as removed; a foreign or unreadable one is left alone.
CompareToken(a) ==
    /\ pc[a] \in Removals /\ ~verified[a] /\ Alive(a)
    /\ IF file[Target(a)] = None THEN Succeeds(a)
       ELSE IF Names(Target(a), Expected(a)) /\ file[Target(a)].full
       THEN verified' = [verified EXCEPT ![a] = TRUE] /\ UNCHANGED <<pc, orphan>>
       ELSE Fails(a)
    /\ UNCHANGED <<file, alive, seen, retried, faults>>

\* unlink takes whatever is at the path by then.
Unlink(a) ==
    /\ pc[a] \in Removals /\ verified[a] /\ Alive(a)
    /\ file[Target(a)] # None
    /\ file' = [file EXCEPT ![Target(a)] = None]
    /\ Succeeds(a)
    /\ UNCHANGED <<alive, seen, retried, faults>>

\* The read before the comparison throws, or the unlink.
RemovalFails(a) ==
    /\ pc[a] \in Removals /\ Alive(a)
    /\ faults < MaxFaults /\ faults' = faults + 1
    /\ Fails(a)
    /\ UNCHANGED <<file, alive, seen, retried>>

(***************************************************************************)
(* acquire's loop, the holder's release, and crashes.                      *)
(***************************************************************************)
RetryWaitersOnly(a) ==
    /\ pc[a] \in {"miss", "again"} /\ Alive(a) /\ Waits /\ ThreadFree(Proc[a])
    /\ retried' = [retried EXCEPT ![a] = pc[a] = "again"]
    /\ Goto(a, "try")
    /\ UNCHANGED <<file, alive, orphan, seen, verified, faults>>

\* A waiter sleeps and tries again; a lease tries once more if the path is free.
Retry(a) ==
    /\ pc[a] \in {"miss", "again"} /\ Alive(a)
    /\ IF Waits THEN ThreadFree(Proc[a]) ELSE ~retried[a] /\ file["lock"] = None
    /\ retried' = [retried EXCEPT ![a] = pc[a] = "again" \/ ~Waits]
    /\ Goto(a, "try")
    /\ UNCHANGED <<file, alive, orphan, seen, verified, faults>>

\* The waiter's deadline passed (any poll may find so), or the lease gives up.
Busy(a) ==
    /\ pc[a] = "miss" /\ Alive(a)
    /\ IF Waits THEN ThreadFree(Proc[a]) ELSE retried[a] \/ file["lock"] # None
    /\ Goto(a, "busy")
    /\ UNCHANGED <<file, alive, orphan, seen, verified, retried, faults>>

\* The holder is no longer one from the moment its release starts; a failed one may be repeated.
Release(a) ==
    /\ pc[a] \in {"held", "releaseFailed"} /\ Alive(a) /\ ThreadFree(Proc[a])
    /\ Goto(a, "release")
    /\ UNCHANGED <<file, alive, orphan, seen, verified, retried, faults>>

Crash(p) ==
    /\ p \in alive /\ faults < MaxFaults
    /\ alive' = alive \ {p} /\ faults' = faults + 1
    /\ UNCHANGED <<file, orphan, pc, seen, verified, retried>>

Step(a) ==
    \/ CheckClaim(a) \/ JudgeClaim(a) \/ CreateLock(a) \/ WriteRecord(a) \/ WriteFails(a)
    \/ PostCheck(a) \/ Inspect(a) \/ Judge(a) \/ CreateClaim(a) \/ Confirm(a)
    \/ CallFails(a) \/ OwnerUnknown(a)
    \/ CompareToken(a) \/ Unlink(a) \/ RemovalFails(a) \/ Retry(a)

Next ==
    \/ \E a \in Acquires : Begin(a) \/ Step(a) \/ Busy(a) \/ Release(a)
    \/ \E p \in Procs : Crash(p)

Spec == Init /\ [][Next]_vars

\* A live process runs its synchronous code, its timers and its holders' finally blocks.
Fairness ==
    \A a \in Acquires : WF_vars(Step(a)) /\ WF_vars(pc[a] = "held" /\ Release(a))
FairSpec == Spec /\ Fairness

(***************************************************************************)
(* Properties.                                                             *)
(***************************************************************************)
\* Every variable keeps its type.
TypeOK ==
    /\ file \in [Paths -> Record \cup {None}]
    /\ alive \subseteq Procs
    /\ orphan \in [Procs -> [Paths -> Acquires \cup {None}]]
    /\ pc \in [Acquires -> Places]
    /\ seen \in [Acquires -> Acquires \cup {None}]
    /\ verified \in [Acquires -> BOOLEAN]
    /\ retried \in [Acquires -> BOOLEAN]
    /\ faults \in 0..MaxFaults

Holds(a) == pc[a] = "held" /\ Alive(a)

\* Two running callbacks never hold the same workspace lock, whatever crashed, and
\* however the removal of a dead owner's file interleaves with new owners.
MutualExclusion == \A a, b \in Acquires : Holds(a) /\ Holds(b) => a = b

\* The lock, as its callers see it, is an ExclusiveLease.
Holder == IF \E a \in Acquires : Holds(a) THEN CHOOSE a \in Acquires : Holds(a) ELSE None
Granted == {a \in Acquires : pc[a] \in {"held", "release", "releaseFailed", "done"}}

Lease == INSTANCE ExclusiveLease WITH holder <- Holder, granted <- Granted
LeaseSafety == Lease!Spec

\* The token comparison and the unlink after it are two calls, yet the file a removal
\* is about to unlink is still the one it compared: no removal takes another's record.
CompareHoldsAtUnlink ==
    \A a \in Acquires : verified[a] /\ Alive(a) =>
        Names(Target(a), Expected(a)) /\ file[Target(a)].full

\* A failed removal never makes a process refuse its own live pid for ever: a complete record
\* of a running process is in the hands of a running call or remembered as its orphan. The
\* code makes one exception, kept here by name: the record of a call that threw after it was
\* written and before it was handed over (fstat and close in createOwner, or tryAcquire's
\* last look at the claim), which no removal was tried for.
OwnRecordRecoverable ==
    \A a \in Acquires, f \in Paths :
        Names(f, a) /\ file[f].full /\ Alive(a) =>
            pc[a] \in Synchronous \cup {"held", "abandoned"} \/ orphan[Proc[a]][f] = a

\* The lock file of a running process is removed by that process only.
OnlyOwnersRemoveLiveRecords ==
    [][\A a \in Acquires : Names("lock", a) /\ Alive(a) /\ ~Names("lock", a)' =>
          \E b \in Acquires : Proc[b] = Proc[a] /\ pc[b] \in Removals /\ pc'[b] # pc[b]]_vars

\* A recovery that was abandoned by a crash fails closed: nobody takes its claim away.
AbandonedClaimStays ==
    [][\A a \in Acquires : Names("claim", a) /\ ~Alive(a) => Names("claim", a)']_vars

\* A complete claim of a call that has ended in a running process, unless w's own process
\* remembers it and drops it at w's next look.
ClaimLeft(w) ==
    /\ ~OwnOrphan(Proc[w], "claim")
    /\ \E b \in Acquires : Names("claim", b) /\ file["claim"].full /\ Alive(b) /\ pc[b] \in Settled

Polls(w) == Alive(w) /\ pc[w] \notin Settled \cup {"idle", "held", "releaseFailed"}

\* A waiter polls for ever in front of a dead owner's complete record only behind a claim that
\* is left for ever by a call that ended in a running process: its removal failed, or it was
\* abandoned. A claim of a dead process, an incomplete one or one in use never keeps it there.
DeadOwnerRecovered ==
    \A w \in Acquires :
        <>[](/\ Polls(w) /\ file["lock"] # None
             /\ file["lock"].full /\ OwnerDead(file["lock"].tok)) => <>[]ClaimLeft(w)

\* An immediate lease of the one process left takes over from a dead holder in that same
\* call, without sleeping, if it meets it in its first attempt and unless a recovery was abandoned or something fails again.
SoleSurvivorAcquires ==
    \A w \in Acquires :
        (/\ ~Waits /\ pc[w] = "try" /\ ~retried[w] /\ alive = {Proc[w]} /\ faults = MaxFaults
         /\ file["claim"] = None /\ file["lock"] # None
         /\ file["lock"].full /\ OwnerDead(file["lock"].tok)
         /\ \A b \in Acquires : Proc[b] = Proc[w] /\ b # w => pc[b] = "idle")
          ~> pc[w] = "held"
============================================================================
