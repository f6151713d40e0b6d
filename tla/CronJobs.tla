------------------------------ MODULE CronJobs ------------------------------
(***************************************************************************)
(* Cron jobs of the robot team (roboTeamAgent/server/roboflow:             *)
(* workflow-scheduler.mjs, schedule-store.mjs, schedule-timing.mjs).       *)
(*                                                                         *)
(* A tick, or Run now, claims a job in one transaction by writing a token  *)
(* into its record, then prepares the workflow run with several awaits,    *)
(* and creates it in a second transaction that the job's record must still *)
(* allow.  In between the job is edited, disabled, removed, run by hand,   *)
(* or the service closes or dies.  Claim n of a job stands for its token,  *)
(* and for the run it creates.                                             *)
(***************************************************************************)
EXTENDS Naturals, FiniteSets

CONSTANTS
    Jobs, Editors,   \* cron jobs, and the requests that edit them
    Periods,         \* interval timings, in ticks of the clock
    None,
    MaxClaims,       \* bound on the claims of a job
    MaxRevision,     \* bound on a job's revisions
    MaxTime,         \* bound on the clock
    MaxRestarts      \* bound on restarts

Claims == 1..MaxClaims

ASSUME PeriodsAssumption == Periods \subseteq Nat \ {0} /\ Periods # {}
ASSUME BoundsAssumption ==
    MaxClaims \in Nat /\ MaxRevision \in Nat /\ MaxTime \in Nat /\ MaxRestarts \in Nat

VARIABLES
    job,        \* the records of the database
    issued,     \* how many claims each job had
    claim,      \* what each claim was made for
    launch,     \* how far the launch of each claim is
    flow,       \* the workflow run each claim created
    revived,    \* a user continued the run after it had ended
    ticking,    \* the claims of the tick in flight
    editor,     \* the edits between reading a job's revision and saving
    closed, now,
    booted,     \* when the service last started
    restarts

runs == <<flow, revived>>
service == <<closed, booted, restarts>>
vars == <<job, issued, claim, launch, flow, revived, ticking, editor, closed, now, booted, restarts>>

NoJob == [state |-> "absent", enabled |-> FALSE, period |-> CHOOSE p \in Periods : TRUE,
          revision |-> 0, pending |-> 0, last |-> 0, next |-> 0]
NoClaim == [manual |-> FALSE, revision |-> 0, slot |-> 0]
JobRecord == [state : {"absent", "present", "removed"}, enabled : BOOLEAN, period : Periods, revision : Nat,
              pending : 0..MaxClaims, last : 0..MaxClaims, next : Nat]
ClaimRecord == [manual : BOOLEAN, revision : Nat, slot : Nat]
Unsettled == {"preparing", "failing", "dispatching"}

Init ==
    /\ job = [j \in Jobs |-> NoJob]
    /\ issued = [j \in Jobs |-> 0]
    /\ claim = [j \in Jobs |-> [n \in Claims |-> NoClaim]]
    /\ launch = [j \in Jobs |-> [n \in Claims |-> "none"]]
    /\ flow = [j \in Jobs |-> [n \in Claims |-> "none"]]
    /\ revived = [j \in Jobs |-> [n \in Claims |-> FALSE]]
    /\ ticking = {}
    /\ editor = [e \in Editors |-> None]
    /\ closed = FALSE /\ now = 0 /\ booted = 0 /\ restarts = 0

Present(j) == job[j].state = "present"

\* A wrong NextRun: a slot that is exactly now is taken again.
NextRunAgain(period, after, anchor) ==
    anchor + ((IF after > anchor THEN after - anchor ELSE 0) \div period) * period

\* The first occurrence after a time, counted in whole periods from an anchor.
NextRun(period, after, anchor) ==
    anchor + ((IF after > anchor THEN after - anchor ELSE 0) \div period + 1) * period

Due(j) == Present(j) /\ job[j].enabled /\ job[j].next # 0 /\ job[j].next <= now

\* A launch under way, or the last run not ended, holds the job.
Held(j) == job[j].pending # 0 \/ (job[j].last # 0 /\ flow[j][job[j].last] = "held")

(***************************************************************************)
(* Claims.                                                                 *)
(***************************************************************************)
\* One transaction: every due job moves to its next slot, and is claimed unless it is held.
Tick ==
    /\ ~closed /\ ticking = {}
    /\ \E j \in Jobs : Due(j)
    /\ LET claimed == {j \in Jobs : Due(j) /\ ~Held(j)}
           token(j) == issued[j] + 1
       IN /\ \A j \in claimed : issued[j] < MaxClaims
          /\ job' = [j \in Jobs |-> IF Due(j)
                       THEN [job[j] EXCEPT !.next = NextRun(job[j].period, now, job[j].next),
                                           !.pending = IF j \in claimed THEN token(j) ELSE @]
                       ELSE job[j]]
          /\ issued' = [j \in Jobs |-> IF j \in claimed THEN token(j) ELSE issued[j]]
          /\ claim' = [j \in Jobs |-> IF j \in claimed
                         THEN [claim[j] EXCEPT ![token(j)] =
                                 [manual |-> FALSE, revision |-> job[j].revision, slot |-> job[j].next]]
                         ELSE claim[j]]
          /\ launch' = [j \in Jobs |-> IF j \in claimed
                          THEN [launch[j] EXCEPT ![token(j)] = "preparing"] ELSE launch[j]]
          /\ ticking' = {<<j, token(j)>> : j \in claimed}
    /\ UNCHANGED <<runs, editor, now, service>>

\* Run now, by a user who knows the current revision; any other revision is refused.
RunNow(j) ==
    /\ ~closed /\ Present(j) /\ ~Held(j)
    /\ issued[j] < MaxClaims /\ job[j].revision < MaxRevision
    /\ LET token == issued[j] + 1
           revision == job[j].revision + 1
       IN /\ job' = [job EXCEPT ![j] =
                       [@ EXCEPT !.revision = revision, !.pending = token,
                                 !.next = IF job[j].enabled THEN NextRun(job[j].period, now, now) ELSE 0]]
          /\ issued' = [issued EXCEPT ![j] = token]
          /\ claim' = [claim EXCEPT ![j] =
                         [@ EXCEPT ![token] = [manual |-> TRUE, revision |-> revision, slot |-> now]]]
          /\ launch' = [launch EXCEPT ![j] = [@ EXCEPT ![token] = "preparing"]]
    /\ UNCHANGED <<runs, ticking, editor, now, service>>

(***************************************************************************)
(* Launches.                                                               *)
(***************************************************************************)
Stage(j, n, stage) == launch' = [launch EXCEPT ![j] = [@ EXCEPT ![n] = stage]]

\* A wrong Unchanged: any pending launch will do.
UnchangedAnyToken(j, n) ==
    /\ ~closed /\ Present(j)
    /\ claim[j][n].manual \/ job[j].enabled

\* onCreated, in the transaction that saves the run: the job must not have changed since the claim.
Unchanged(j, n) ==
    /\ ~closed /\ Present(j)
    /\ claim[j][n].manual \/ job[j].enabled
    /\ job[j].pending = n

CreateFlow(j, n) ==
    /\ launch[j][n] = "preparing" /\ Unchanged(j, n)
    /\ Stage(j, n, "dispatching")
    /\ job' = [job EXCEPT ![j] = [@ EXCEPT !.pending = 0, !.last = n]]
    /\ flow' = [flow EXCEPT ![j] = [@ EXCEPT ![n] = "held"]]
    /\ UNCHANGED <<issued, claim, revived, ticking, editor, now, service>>

\* The job changed, the service is closing, or startFlow threw: the run is rolled back.
LaunchThrows(j, n) ==
    /\ launch[j][n] = "preparing"
    /\ Stage(j, n, "failing")
    /\ UNCHANGED <<job, issued, claim, runs, ticking, editor, now, service>>

\* A failed launch clears the claim if it is still its own, in a transaction after an await.
Settle(j, n) ==
    /\ launch[j][n] \in {"failing", "dispatching"}
    /\ Stage(j, n, "settled")
    /\ job' = [job EXCEPT ![j] = [@ EXCEPT !.pending = IF launch[j][n] = "failing" /\ job[j].pending = n
                                                            THEN 0 ELSE job[j].pending]]
    /\ ticking' = ticking \ {<<j, n>>}
    /\ UNCHANGED <<issued, claim, runs, editor, now, service>>

\* The transaction that clears the claim throws: the launch rejects, and with it a tick that awaits it.
SettleThrows(j, n) ==
    /\ launch[j][n] = "failing"
    /\ Stage(j, n, "stuck")
    /\ ticking' = IF <<j, n>> \in ticking THEN {} ELSE ticking
    /\ UNCHANGED <<job, issued, claim, runs, editor, now, service>>

(***************************************************************************)
(* Users.                                                                  *)
(***************************************************************************)
Create(j, enabled, period) ==
    /\ job[j].state = "absent"
    /\ job' = [job EXCEPT ![j] =
                 [NoJob EXCEPT !.state = "present", !.enabled = enabled, !.period = period, !.revision = 1,
                               !.next = IF enabled THEN NextRun(period, now, now) ELSE 0]]
    /\ UNCHANGED <<issued, claim, launch, runs, ticking, editor, now, service>>

\* save reads the revision, awaits the results folder, and checks the revision again.
BeginEdit(e, j) ==
    /\ editor[e] = None /\ Present(j)
    /\ editor' = [editor EXCEPT ![e] = [job |-> j, revision |-> job[j].revision]]
    /\ UNCHANGED <<job, issued, claim, launch, runs, ticking, now, service>>

\* A wrong Edit: the pending launch goes on.
EditKeepsLaunch(e, enabled, period) ==
    /\ editor[e] # None
    /\ editor' = [editor EXCEPT ![e] = None]
    /\ LET j == editor[e].job
       IN IF Present(j) /\ job[j].revision = editor[e].revision
          THEN /\ job[j].revision < MaxRevision
               /\ job' = [job EXCEPT ![j] =
                            [@ EXCEPT !.revision = job[j].revision + 1, !.enabled = enabled, !.period = period,
                                      !.next = IF enabled THEN NextRun(period, now, now) ELSE 0]]
          ELSE UNCHANGED job
    /\ UNCHANGED <<issued, claim, launch, runs, ticking, now, service>>

Edit(e, enabled, period) ==
    /\ editor[e] # None
    /\ editor' = [editor EXCEPT ![e] = None]
    /\ LET j == editor[e].job
           changed == job[j].enabled # enabled \/ job[j].period # period
       IN IF Present(j) /\ job[j].revision = editor[e].revision
          THEN /\ job[j].revision < MaxRevision
               /\ job' = [job EXCEPT ![j] =
                            [@ EXCEPT !.revision = job[j].revision + 1, !.enabled = enabled,
                                      !.period = period, !.pending = 0,
                                      !.next = IF ~enabled THEN 0
                                               ELSE IF changed THEN NextRun(period, now, now) ELSE job[j].next]]
          ELSE UNCHANGED job
    /\ UNCHANGED <<issued, claim, launch, runs, ticking, now, service>>

Remove(j) ==
    /\ Present(j)
    /\ job' = [job EXCEPT ![j] = [NoJob EXCEPT !.state = "removed"]]
    /\ UNCHANGED <<issued, claim, launch, runs, ticking, editor, now, service>>

\* A run completes, fails or is terminated; a completed or failed one may be continued.
EndFlow(j, n) ==
    /\ flow[j][n] = "held"
    /\ \E end \in {"ended", "terminated"} : flow' = [flow EXCEPT ![j] = [@ EXCEPT ![n] = end]]
    /\ UNCHANGED <<job, issued, claim, launch, revived, ticking, editor, now, service>>

ContinueFlow(j, n) ==
    /\ flow[j][n] = "ended"
    /\ flow' = [flow EXCEPT ![j] = [@ EXCEPT ![n] = "held"]]
    /\ revived' = [revived EXCEPT ![j] = [@ EXCEPT ![n] = TRUE]]
    /\ UNCHANGED <<job, issued, claim, launch, ticking, editor, now, service>>

(***************************************************************************)
(* The service.                                                            *)
(***************************************************************************)
Close ==
    /\ ~closed /\ closed' = TRUE
    /\ UNCHANGED <<job, issued, claim, launch, runs, ticking, editor, now, booted, restarts>>

\* A wrong Restart: the claims are forgotten but the slots are kept, and run late.
RestartRunsMissed ==
    /\ restarts < MaxRestarts /\ restarts' = restarts + 1
    /\ job' = [j \in Jobs |-> [job[j] EXCEPT !.pending = 0]]
    /\ launch' = [j \in Jobs |-> [n \in Claims |->
                    IF launch[j][n] \in Unsettled THEN "lost" ELSE launch[j][n]]]
    /\ ticking' = {}
    /\ editor' = [e \in Editors |-> None]
    /\ closed' = FALSE /\ booted' = now
    /\ UNCHANGED <<issued, claim, runs, now>>

\* A wrong Restart: the claims of the launches it ended stay.
RestartKeepsClaims ==
    /\ restarts < MaxRestarts /\ restarts' = restarts + 1
    /\ launch' = [j \in Jobs |-> [n \in Claims |->
                    IF launch[j][n] \in Unsettled THEN "lost" ELSE launch[j][n]]]
    /\ ticking' = {}
    /\ editor' = [e \in Editors |-> None]
    /\ closed' = FALSE /\ booted' = now
    /\ UNCHANGED <<job, issued, claim, runs, now>>

\* The service is down, at any point; initialize fails the claims and skips the missed slots.
Restart ==
    /\ restarts < MaxRestarts /\ restarts' = restarts + 1
    /\ job' = [j \in Jobs |->
                 [job[j] EXCEPT !.pending = 0,
                                !.next = IF Due(j) THEN NextRun(job[j].period, now, @) ELSE @]]
    /\ launch' = [j \in Jobs |-> [n \in Claims |->
                    IF launch[j][n] \in Unsettled THEN "lost" ELSE launch[j][n]]]
    /\ ticking' = {}
    /\ editor' = [e \in Editors |-> None]
    /\ closed' = FALSE /\ booted' = now
    /\ UNCHANGED <<issued, claim, runs, now>>

Clock ==
    /\ now < MaxTime /\ now' = now + 1
    /\ UNCHANGED <<job, issued, claim, launch, runs, ticking, editor, service>>

LaunchStep(j, n) == CreateFlow(j, n) \/ LaunchThrows(j, n) \/ Settle(j, n) \/ SettleThrows(j, n)

RunStep(j, n) == EndFlow(j, n) \/ ContinueFlow(j, n)

UserStep ==
    \/ \E j \in Jobs, enabled \in BOOLEAN, period \in Periods : Create(j, enabled, period)
    \/ \E e \in Editors, j \in Jobs : BeginEdit(e, j)
    \/ \E e \in Editors, enabled \in BOOLEAN, period \in Periods : Edit(e, enabled, period)
    \/ \E j \in Jobs : Remove(j) \/ RunNow(j)

Next ==
    \/ Tick \/ UserStep \/ Close \/ Restart \/ Clock
    \/ \E j \in Jobs, n \in Claims : LaunchStep(j, n) \/ RunStep(j, n)

Spec == Init /\ [][Next]_vars

\* Every launch goes on: startFlow's awaits end, one way or the other.
FairSpec == Spec /\ \A j \in Jobs, n \in Claims : WF_vars(LaunchStep(j, n))

(***************************************************************************)
(* Properties.                                                             *)
(***************************************************************************)
\* Every variable keeps its type.
TypeOK ==
    /\ job \in [Jobs -> JobRecord]
    /\ issued \in [Jobs -> 0..MaxClaims]
    /\ claim \in [Jobs -> [Claims -> ClaimRecord]]
    /\ launch \in [Jobs -> [Claims -> Unsettled \cup {"none", "settled", "stuck", "lost"}]]
    /\ flow \in [Jobs -> [Claims -> {"none", "held", "ended", "terminated"}]]
    /\ revived \in [Jobs -> [Claims -> BOOLEAN]]
    /\ ticking \in SUBSET (Jobs \X Claims)
    /\ editor \in [Editors -> [job : Jobs, revision : Nat] \cup {None}]
    /\ closed \in BOOLEAN /\ now \in Nat /\ booted \in Nat /\ restarts \in Nat

\* A job has one run going at a time, apart from ended runs a user continued: ticks, manual runs,
\* edits that cancel a launch, and restarts never launch two (workflow-scheduler.mjs, onCreated).
OneRunPerJob ==
    \A j \in Jobs, n, m \in Claims :
        /\ flow[j][n] = "held" /\ ~revived[j][n]
        /\ flow[j][m] = "held" /\ ~revived[j][m]
        => n = m

\* A run is created for the job as it was when it was claimed: an edit, a disabling or a removal in
\* between cancels it (the test "editing, disabling or deleting a claimed job cancels its launch").
RunsCurrentJob ==
    [][\A j \in Jobs, n \in Claims :
          flow[j][n] = "none" /\ flow'[j][n] # "none" =>
              Present(j) /\ job[j].revision = claim[j][n].revision]_vars

\* Each slot of a job is claimed by a tick at most once, in order, over edits, manual runs and restarts.
SlotsClaimedOnce ==
    \A j \in Jobs, n, m \in Claims :
        n < m /\ m <= issued[j] /\ ~claim[j][n].manual /\ ~claim[j][m].manual =>
            claim[j][n].slot < claim[j][m].slot

\* The slots an unchanged job was claimed for are whole periods apart, however late the ticks came
\* and whatever the service missed: the schedule does not drift (nextRun counts from the slot).
SlotsKeepRhythm ==
    \A j \in Jobs, n, m \in Claims :
        /\ Present(j) /\ n < m /\ m <= issued[j]
        /\ \A i \in {n, m} : ~claim[j][i].manual /\ claim[j][i].revision = job[j].revision
        => (claim[j][m].slot - claim[j][n].slot) % job[j].period = 0

\* A slot that passed while the service was down is not run afterwards (initialize).
MissedSlotsSkipped ==
    [][\A j \in Jobs :
          issued'[j] # issued[j] /\ ~claim'[j][issued'[j]].manual =>
              claim'[j][issued'[j]].slot > booted]_vars

\* No claim holds its job for ever: it is launched, fails, or is taken back.  The one that may is
\* the claim of a failed launch that could not be cleared; an edit or a restart takes it back.
ClaimsEnd ==
    \A j \in Jobs, n \in Claims : job[j].pending = n ~> job[j].pending # n \/ launch[j][n] = "stuck"

\* docs/operations.html:57, "Pending, running or paused work prevents another launch of that job."
HeldWorkPreventsLaunch ==
    [][\A j \in Jobs : issued'[j] # issued[j] => \A n \in Claims : flow[j][n] # "held"]_vars
=============================================================================
