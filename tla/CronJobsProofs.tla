--------------------------- MODULE CronJobsProofs ---------------------------
(***************************************************************************)
(* Proofs about CronJobs, for any jobs, periods and bounds.  The invariant *)
(* says that a pending claim is made for the record as it stands, that the *)
(* run holding a job is the one its record names, and that the slots       *)
(* claimed so far lie before the job's next one.  A second one, about the  *)
(* rhythm of the slots, is at the end.                                     *)
(***************************************************************************)
EXTENDS CronJobs, TLAPS

\* A pending claim was made for this revision, when no run held the job but one later revived.
PendingIsCurrent ==
    \A j \in Jobs : job[j].pending # 0 =>
        /\ claim[j][job[j].pending].revision = job[j].revision
        /\ job[j].last # 0 /\ flow[j][job[j].last] = "held" => revived[j][job[j].last]

HeldIsLast ==
    \A j \in Jobs, n \in Claims :
        Present(j) /\ flow[j][n] = "held" /\ ~revived[j][n] => n = job[j].last

RunsOfSaved == \A j \in Jobs, n \in Claims : flow[j][n] # "none" => job[j].state # "absent"

LaunchInv == PendingIsCurrent /\ HeldIsLast /\ RunsOfSaved /\ OneRunPerJob

\* Claims of ticks.
Slotted(j, n) == n <= issued[j] /\ ~claim[j][n].manual

SlotsPassed == booted <= now /\ \A j \in Jobs, n \in Claims : Slotted(j, n) => claim[j][n].slot <= now

SlotsBehind ==
    \A j \in Jobs : job[j].next # 0 =>
        /\ job[j].next > booted
        /\ \A n \in Claims : Slotted(j, n) => claim[j][n].slot < job[j].next

Scheduled == \A j \in Jobs : job[j].next # 0 => Present(j) /\ job[j].enabled

SlotInv == SlotsPassed /\ SlotsBehind /\ Scheduled /\ SlotsClaimedOnce

(***************************************************************************)
(* Lemmas about the timing and the records.                                *)
(***************************************************************************)
LEMMA DivFacts ==
    ASSUME NEW x \in Nat, NEW p \in Nat \ {0}
    PROVE  x \div p \in Nat /\ (x \div p + 1) * p \in Nat /\ (x \div p + 1) * p > x
  <1>1. x \div p \in Nat
    OBVIOUS
  <1>2. x = p * (x \div p) + (x % p) /\ x % p < p /\ x % p \in Nat
    OBVIOUS
  <1>3. (x \div p + 1) * p = p * (x \div p) + p /\ (x \div p + 1) * p \in Nat
    BY <1>1
  <1> QED
    BY <1>1, <1>2, <1>3

\* The next slot of a timing is a time after the given one.
LEMMA NextRunIsLater ==
    ASSUME NEW p \in Periods, NEW after \in Nat, NEW anchor \in Nat
    PROVE  NextRun(p, after, anchor) \in Nat /\ NextRun(p, after, anchor) > after
  <1>1. p \in Nat \ {0}
    BY PeriodsAssumption
  <1>2. CASE after > anchor
    <2>1. after - anchor \in Nat
      BY <1>2
    <2>2. NextRun(p, after, anchor) = anchor + ((after - anchor) \div p + 1) * p
      BY <1>2 DEF NextRun
    <2> QED
      BY <1>1, <2>1, <2>2, DivFacts
  <1>3. CASE ~(after > anchor)
    <2>1. NextRun(p, after, anchor) = anchor + (0 \div p + 1) * p
      BY <1>3 DEF NextRun
    <2> QED
      BY <1>1, <1>3, <2>1, DivFacts
  <1> QED
    BY <1>2, <1>3

LEMMA NoJobType ==
    /\ NoJob \in JobRecord /\ NoClaim \in ClaimRecord
    /\ NoJob.state = "absent" /\ NoJob.pending = 0 /\ NoJob.last = 0 /\ NoJob.next = 0
  <1>1. (CHOOSE p \in Periods : TRUE) \in Periods
    BY PeriodsAssumption
  <1> QED
    BY <1>1, BoundsAssumption DEF NoJob, NoClaim, JobRecord, ClaimRecord

Launches == Unsettled \cup {"none", "settled", "stuck", "lost"}
Flows == {"none", "held", "ended", "terminated"}

JobMaps == [Jobs -> JobRecord]
ClaimMaps == [Jobs -> [Claims -> ClaimRecord]]
LaunchMaps == [Jobs -> [Claims -> Launches]]
FlowMaps == [Jobs -> [Claims -> Flows]]
EditorMaps == [Editors -> [job : Jobs, revision : Nat] \cup {None}]

LEMMA TypeFacts ==
    TypeOK <=>
        /\ job \in JobMaps /\ issued \in [Jobs -> 0..MaxClaims] /\ claim \in ClaimMaps
        /\ launch \in LaunchMaps /\ flow \in FlowMaps /\ revived \in [Jobs -> [Claims -> BOOLEAN]]
        /\ ticking \in SUBSET (Jobs \X Claims) /\ editor \in EditorMaps
        /\ closed \in BOOLEAN /\ now \in Nat /\ booted \in Nat /\ restarts \in Nat
  BY DEF TypeOK, JobMaps, ClaimMaps, LaunchMaps, FlowMaps, EditorMaps, Launches, Flows

\* The same facts after a step.
LEMMA TypeFactsNext ==
    TypeOK' <=>
        /\ job' \in JobMaps /\ issued' \in [Jobs -> 0..MaxClaims] /\ claim' \in ClaimMaps
        /\ launch' \in LaunchMaps /\ flow' \in FlowMaps /\ revived' \in [Jobs -> [Claims -> BOOLEAN]]
        /\ ticking' \in SUBSET (Jobs \X Claims) /\ editor' \in EditorMaps
        /\ closed' \in BOOLEAN /\ now' \in Nat /\ booted' \in Nat /\ restarts' \in Nat
  BY DEF TypeOK, JobMaps, ClaimMaps, LaunchMaps, FlowMaps, EditorMaps, Launches, Flows

LEMMA ClaimNumbers ==
    /\ 0 \in 0..MaxClaims
    /\ \A n \in Claims : n \in 0..MaxClaims /\ n # 0 /\ n \in Nat
    /\ \A n \in 0..MaxClaims : n < MaxClaims => n + 1 \in Claims /\ n + 1 \in 0..MaxClaims
    /\ \A n \in 0..MaxClaims : n # 0 => n \in Claims
  BY BoundsAssumption DEF Claims

\* A record that is edited stays a record.
LEMMA RecordEdits ==
    ASSUME NEW r \in JobRecord
    PROVE  /\ r.enabled \in BOOLEAN /\ r.period \in Periods /\ r.revision \in Nat /\ r.next \in Nat
           /\ r.pending \in 0..MaxClaims /\ r.last \in 0..MaxClaims
           /\ \A p \in 0..MaxClaims, t \in Nat :
                 [r EXCEPT !.next = t, !.pending = p] \in JobRecord
           /\ \A p \in 0..MaxClaims, t \in Nat :
                 [r EXCEPT !.pending = p, !.next = t] \in JobRecord
           /\ \A v, t \in Nat, p \in 0..MaxClaims :
                 [r EXCEPT !.revision = v, !.pending = p, !.next = t] \in JobRecord
           /\ \A p, l \in 0..MaxClaims : [r EXCEPT !.pending = p, !.last = l] \in JobRecord
           /\ \A p \in 0..MaxClaims : [r EXCEPT !.pending = p] \in JobRecord
           /\ \A v, t \in Nat, e \in BOOLEAN, d \in Periods, p \in 0..MaxClaims :
                 [r EXCEPT !.revision = v, !.enabled = e, !.period = d, !.pending = p, !.next = t] \in JobRecord
  BY DEF JobRecord

LEMMA InitInv == Init => TypeOK /\ LaunchInv /\ SlotInv
  <1> SUFFICES ASSUME Init PROVE TypeOK /\ LaunchInv /\ SlotInv
    OBVIOUS
  <1>1. TypeOK
    <2>1. job \in JobMaps /\ issued \in [Jobs -> 0..MaxClaims] /\ claim \in ClaimMaps
      BY NoJobType, ClaimNumbers DEF Init, JobMaps, ClaimMaps
    <2>2. launch \in LaunchMaps /\ flow \in FlowMaps
      BY DEF Init, LaunchMaps, FlowMaps, Launches, Flows
    <2>3. editor \in EditorMaps /\ ticking \in SUBSET (Jobs \X Claims)
      BY DEF Init, EditorMaps
    <2> QED
      BY <2>1, <2>2, <2>3, TypeFacts DEF Init
  <1>2. LaunchInv
    BY NoJobType DEF Init, LaunchInv, PendingIsCurrent, HeldIsLast, RunsOfSaved, OneRunPerJob
  <1>3. SlotInv
    BY NoJobType, BoundsAssumption
    DEF Init, SlotInv, SlotsPassed, SlotsBehind, Scheduled, SlotsClaimedOnce, Slotted, Claims
  <1> QED
    BY <1>1, <1>2, <1>3

(***************************************************************************)
(* Types.                                                                  *)
(***************************************************************************)
\* What the actions that touch one record do to the maps.
LEMMA OneJob ==
    ASSUME NEW j \in Jobs, NEW r \in JobRecord, job \in JobMaps, job' = [job EXCEPT ![j] = r]
    PROVE  job' \in JobMaps
  BY DEF JobMaps

LEMMA OneLaunch ==
    ASSUME NEW j \in Jobs, NEW n \in Claims, NEW stage \in Launches, launch \in LaunchMaps, Stage(j, n, stage)
    PROVE  launch' \in LaunchMaps
  BY DEF LaunchMaps, Stage

LEMMA TypeStep ==
    ASSUME TypeOK, [Next]_vars
    PROVE  TypeOK'
  <1>a. job \in JobMaps /\ issued \in [Jobs -> 0..MaxClaims] /\ claim \in ClaimMaps
    BY TypeFacts
  <1>b. launch \in LaunchMaps /\ flow \in FlowMaps /\ revived \in [Jobs -> [Claims -> BOOLEAN]]
    BY TypeFacts
  <1>c. ticking \in SUBSET (Jobs \X Claims) /\ editor \in EditorMaps
    BY TypeFacts
  <1>d. closed \in BOOLEAN /\ now \in Nat /\ booted \in Nat /\ restarts \in Nat
    BY TypeFacts
  <1>e. \A j \in Jobs : job[j] \in JobRecord
    BY <1>a DEF JobMaps
  <1>f. \A j \in Jobs : job[j].period \in Periods /\ job[j].next \in Nat /\ job[j].revision \in Nat
    BY <1>e, RecordEdits
  <1>1. CASE Tick
    <2> DEFINE claimed == {j \in Jobs : Due(j) /\ ~Held(j)}
    <2>1. \A j \in claimed : issued[j] < MaxClaims
      BY <1>1 DEF Tick
    <2>2. \A j \in claimed : issued[j] + 1 \in Claims /\ issued[j] + 1 \in 0..MaxClaims
      BY <2>1, <1>a, ClaimNumbers
    <2>3. \A j \in Jobs : NextRun(job[j].period, now, job[j].next) \in Nat
      BY <1>d, <1>f, NextRunIsLater
    <2>4. job' \in JobMaps
      <3>1. ASSUME NEW j \in Jobs PROVE job'[j] \in JobRecord
        <4>1. \A p \in 0..MaxClaims :
                [job[j] EXCEPT !.next = NextRun(job[j].period, now, job[j].next), !.pending = p] \in JobRecord
          BY <1>e, <2>3, RecordEdits
        <4>2. CASE ~Due(j)
          BY <1>1, <1>e, <4>2 DEF Tick
        <4>3. CASE Due(j) /\ j \in claimed
          BY <1>1, <2>2, <4>1, <4>3 DEF Tick
        <4>4. CASE Due(j) /\ j \notin claimed
          <5>1. job'[j] = [job[j] EXCEPT !.next = NextRun(job[j].period, now, job[j].next),
                                         !.pending = job[j].pending]
            BY <1>1, <1>e, <4>4 DEF Tick, JobRecord
          <5> QED
            BY <4>1, <5>1, <1>e, RecordEdits
        <4> QED
          BY <4>2, <4>3, <4>4
      <3>2. job' = [j \in Jobs |-> job'[j]]
        BY <1>1 DEF Tick
      <3> QED
        BY <3>1, <3>2 DEF JobMaps
    <2>5. issued' \in [Jobs -> 0..MaxClaims]
      BY <1>1, <1>a, <2>2 DEF Tick
    <2>6. claim' \in ClaimMaps
      <3>1. \A j \in Jobs : [manual |-> FALSE, revision |-> job[j].revision, slot |-> job[j].next] \in ClaimRecord
        BY <1>f DEF ClaimRecord
      <3> QED
        BY <1>1, <1>a, <2>2, <3>1 DEF Tick, ClaimMaps
    <2>7. launch' \in LaunchMaps
      BY <1>1, <1>b, <2>2 DEF Tick, LaunchMaps, Launches, Unsettled
    <2>8. ticking' \in SUBSET (Jobs \X Claims)
      <3>1. ticking' = {<<j, issued[j] + 1>> : j \in claimed}
        BY <1>1 DEF Tick
      <3>2. \A j \in claimed : <<j, issued[j] + 1>> \in Jobs \X Claims
        BY <2>2
      <3> QED
        BY <3>1, <3>2
    <2> QED
      BY <1>1, <2>4, <2>5, <2>6, <2>7, <2>8, <1>b, <1>c, <1>d, TypeFactsNext DEF Tick, runs, service
  <1>2. ASSUME NEW j \in Jobs, RunNow(j) PROVE TypeOK'
    <2>1. issued[j] + 1 \in Claims /\ issued[j] + 1 \in 0..MaxClaims
      BY <1>2, <1>a, ClaimNumbers DEF RunNow
    <2>2. NextRun(job[j].period, now, now) \in Nat /\ job[j].revision + 1 \in Nat
      <3>1. job[j].period \in Periods /\ job[j].revision \in Nat /\ now \in Nat
        BY <1>d, <1>f
      <3>2. NextRun(job[j].period, now, now) \in Nat
        BY <3>1, NextRunIsLater
      <3> QED
        BY <3>1, <3>2
    <2>3. job' \in JobMaps
      <3> DEFINE t == IF job[j].enabled THEN NextRun(job[j].period, now, now) ELSE 0
                 r == [job[j] EXCEPT !.revision = job[j].revision + 1, !.pending = issued[j] + 1, !.next = t]
      <3>1. t \in Nat
        BY <2>2
      <3> HIDE DEF t
      <3>2. r \in JobRecord
        BY <1>e, <2>1, <2>2, <3>1, RecordEdits
      <3>3. job' = [job EXCEPT ![j] = r]
        BY <1>2 DEF RunNow, t
      <3> QED
        BY <1>a, <3>2, <3>3, OneJob
    <2>4. claim' \in ClaimMaps
      <3>1. [manual |-> TRUE, revision |-> job[j].revision + 1, slot |-> now] \in ClaimRecord
        BY <1>d, <2>2 DEF ClaimRecord
      <3> QED
        BY <1>2, <1>a, <2>1, <3>1 DEF RunNow, ClaimMaps
    <2>5. launch' \in LaunchMaps
      BY <1>2, <1>b, <2>1 DEF RunNow, LaunchMaps, Launches, Unsettled
    <2>6. issued' \in [Jobs -> 0..MaxClaims]
      BY <1>2, <1>a, <2>1 DEF RunNow
    <2> QED
      BY <1>2, <2>3, <2>4, <2>5, <2>6, <1>b, <1>c, <1>d, TypeFactsNext DEF RunNow, runs, service
  <1>3. ASSUME NEW j \in Jobs, NEW n \in Claims, CreateFlow(j, n) PROVE TypeOK'
    <2>1. [job[j] EXCEPT !.pending = 0, !.last = n] \in JobRecord
      BY <1>e, RecordEdits, ClaimNumbers
    <2>2. job' \in JobMaps
      BY <1>3, <1>a, <2>1, OneJob DEF CreateFlow
    <2>3. launch' \in LaunchMaps
      BY <1>3, <1>b, OneLaunch DEF CreateFlow, Launches, Unsettled
    <2>4. flow' \in FlowMaps
      BY <1>3, <1>b DEF CreateFlow, FlowMaps, Flows
    <2> QED
      BY <1>3, <2>2, <2>3, <2>4, <1>a, <1>b, <1>c, <1>d, TypeFactsNext DEF CreateFlow, service
  <1>4. ASSUME NEW j \in Jobs, NEW n \in Claims, LaunchThrows(j, n) PROVE TypeOK'
    <2>1. launch' \in LaunchMaps
      BY <1>4, <1>b, OneLaunch DEF LaunchThrows, Launches, Unsettled
    <2> QED
      BY <1>4, <2>1, <1>a, <1>b, <1>c, <1>d, TypeFactsNext DEF LaunchThrows, runs, service
  <1>5. ASSUME NEW j \in Jobs, NEW n \in Claims, Settle(j, n) PROVE TypeOK'
    <2> DEFINE p == IF launch[j][n] = "failing" /\ job[j].pending = n THEN 0 ELSE job[j].pending
    <2>1. p \in 0..MaxClaims
      BY <1>e, RecordEdits, ClaimNumbers
    <2>2. job' = [job EXCEPT ![j] = [job[j] EXCEPT !.pending = p]]
      BY <1>5 DEF Settle
    <2> HIDE DEF p
    <2>3. job' \in JobMaps
      BY <1>a, <1>e, <2>1, <2>2, OneJob, RecordEdits
    <2>4. launch' \in LaunchMaps
      BY <1>5, <1>b, OneLaunch DEF Settle, Launches
    <2>5. ticking' \in SUBSET (Jobs \X Claims)
      BY <1>5, <1>c DEF Settle
    <2> QED
      BY <1>5, <2>3, <2>4, <2>5, <1>a, <1>b, <1>c, <1>d, TypeFactsNext DEF Settle, runs, service
  <1>6. ASSUME NEW j \in Jobs, NEW enabled \in BOOLEAN, NEW period \in Periods, Create(j, enabled, period)
        PROVE  TypeOK'
    <2> DEFINE t == IF enabled THEN NextRun(period, now, now) ELSE 0
               r == [NoJob EXCEPT !.state = "present", !.enabled = enabled, !.period = period,
                                  !.revision = 1, !.next = t]
    <2>1. t \in Nat
      BY <1>d, NextRunIsLater
    <2> HIDE DEF t
    <2>2. r \in JobRecord
      BY <2>1, NoJobType DEF JobRecord
    <2>3. job' = [job EXCEPT ![j] = r]
      BY <1>6 DEF Create, t
    <2>4. job' \in JobMaps
      BY <1>a, <2>2, <2>3, OneJob
    <2> QED
      BY <1>6, <2>4, <1>a, <1>b, <1>c, <1>d, TypeFactsNext DEF Create, runs, service
  <1>7. ASSUME NEW e \in Editors, NEW j \in Jobs, BeginEdit(e, j) PROVE TypeOK'
    <2>1. [job |-> j, revision |-> job[j].revision] \in [job : Jobs, revision : Nat]
      BY <1>f
    <2>2. editor' \in EditorMaps
      BY <1>7, <1>c, <2>1 DEF BeginEdit, EditorMaps
    <2> QED
      BY <1>7, <2>2, <1>a, <1>b, <1>c, <1>d, TypeFactsNext DEF BeginEdit, runs, service
  <1>8. ASSUME NEW e \in Editors, NEW enabled \in BOOLEAN, NEW period \in Periods, Edit(e, enabled, period)
        PROVE  TypeOK'
    <2> DEFINE j == editor[e].job
               changed == job[j].enabled # enabled \/ job[j].period # period
               t == IF ~enabled THEN 0 ELSE IF changed THEN NextRun(period, now, now) ELSE job[j].next
               r == [job[j] EXCEPT !.revision = job[j].revision + 1, !.enabled = enabled, !.period = period,
                                   !.pending = 0, !.next = t]
    <2>1. j \in Jobs
      BY <1>8, <1>c DEF Edit, EditorMaps
    <2>2. t \in Nat
      BY <1>d, <1>f, <2>1, NextRunIsLater
    <2>3. job' = [job EXCEPT ![j] = r] \/ job' = job
      BY <1>8 DEF Edit
    <2>4. r \in JobRecord
      <3> HIDE DEF t
      <3>1. job[j].revision + 1 \in Nat
        BY <1>f, <2>1
      <3> QED
        BY <1>e, <2>1, <2>2, <3>1, RecordEdits, ClaimNumbers
    <2>5. job' \in JobMaps
      <3> HIDE DEF r, j
      <3> QED
        BY <1>a, <2>1, <2>3, <2>4, OneJob
    <2>6. editor' \in EditorMaps
      BY <1>8, <1>c DEF Edit, EditorMaps
    <2> QED
      BY <1>8, <2>5, <2>6, <1>a, <1>b, <1>c, <1>d, TypeFactsNext DEF Edit, runs, service
  <1>9. ASSUME NEW j \in Jobs, Remove(j) PROVE TypeOK'
    <2>1. [NoJob EXCEPT !.state = "removed"] \in JobRecord
      BY NoJobType DEF JobRecord
    <2>2. job' \in JobMaps
      BY <1>9, <1>a, <2>1, OneJob DEF Remove
    <2> QED
      BY <1>9, <2>2, <1>a, <1>b, <1>c, <1>d, TypeFactsNext DEF Remove, runs, service
  <1>10. ASSUME NEW j \in Jobs, NEW n \in Claims, RunStep(j, n) PROVE TypeOK'
    <2>1. CASE EndFlow(j, n)
      <3>1. PICK end \in {"ended", "terminated"} : flow' = [flow EXCEPT ![j] = [flow[j] EXCEPT ![n] = end]]
        BY <2>1 DEF EndFlow
      <3>2. flow' \in FlowMaps
        BY <1>b, <3>1 DEF FlowMaps, Flows
      <3> QED
        BY <2>1, <3>2, <1>a, <1>b, <1>c, <1>d, TypeFactsNext DEF EndFlow, service
    <2>2. CASE ContinueFlow(j, n)
      <3>1. flow' \in FlowMaps
        BY <2>2, <1>b DEF ContinueFlow, FlowMaps, Flows
      <3>2. revived' \in [Jobs -> [Claims -> BOOLEAN]]
        <4>1. [revived[j] EXCEPT ![n] = TRUE] \in [Claims -> BOOLEAN]
          BY <1>b
        <4> QED
          BY <2>2, <1>b, <4>1 DEF ContinueFlow
      <3> QED
        BY <2>2, <3>1, <3>2, <1>a, <1>b, <1>c, <1>d, TypeFactsNext DEF ContinueFlow, service
    <2> QED
      BY <1>10, <2>1, <2>2 DEF RunStep
  <1>11. CASE Restart
    <2>1. \A j \in Jobs : NextRun(job[j].period, now, job[j].next) \in Nat
      BY <1>d, <1>f, NextRunIsLater
    <2>2. job' \in JobMaps
      BY <1>11, <1>e, <1>f, <2>1, RecordEdits, ClaimNumbers DEF Restart, JobMaps
    <2>3. launch' \in LaunchMaps
      BY <1>11, <1>b DEF Restart, LaunchMaps, Launches
    <2>4. editor' \in EditorMaps /\ ticking' \in SUBSET (Jobs \X Claims)
      BY <1>11 DEF Restart, EditorMaps
    <2>5. closed' \in BOOLEAN /\ booted' \in Nat /\ now' = now
      BY <1>11, <1>d DEF Restart
    <2>6. restarts' \in Nat
      <3>1. restarts' = restarts + 1
        BY <1>11 DEF Restart
      <3> QED
        BY <3>1, <1>d
    <2> QED
      BY <1>11, <2>2, <2>3, <2>4, <2>5, <2>6, <1>a, <1>b, <1>d, TypeFactsNext DEF Restart, runs
  <1>12. CASE Close
    BY <1>12, <1>a, <1>b, <1>c, <1>d, TypeFactsNext DEF Close, runs
  <1>13. CASE Clock
    <2>1. now' \in Nat
      BY <1>13, <1>d DEF Clock
    <2> QED
      BY <1>13, <2>1, <1>a, <1>b, <1>c, <1>d, TypeFactsNext DEF Clock, runs, service
  <1>14. CASE UNCHANGED vars
    BY <1>14, <1>a, <1>b, <1>c, <1>d, TypeFactsNext DEF vars
  <1>15. ASSUME NEW j \in Jobs, NEW n \in Claims, SettleThrows(j, n) PROVE TypeOK'
    <2>1. launch' \in LaunchMaps
      BY <1>15, <1>b, OneLaunch DEF SettleThrows, Launches
    <2>2. ticking' \in SUBSET (Jobs \X Claims)
      BY <1>15, <1>c DEF SettleThrows
    <2> QED
      BY <1>15, <2>1, <2>2, <1>a, <1>b, <1>c, <1>d, TypeFactsNext DEF SettleThrows, runs, service
  <1> QED
    BY <1>1, <1>2, <1>3, <1>4, <1>5, <1>6, <1>7, <1>8, <1>9, <1>10, <1>11, <1>12, <1>13, <1>14, <1>15
    DEF Next, UserStep, LaunchStep

(***************************************************************************)
(* Launches.                                                               *)
(***************************************************************************)
\* The invariant of launches is kept by an action that starts no run, keeps the last runs, and
\* whose new claims are of jobs nothing holds, at their revision.
LEMMA ClaimsKeep ==
    ASSUME LaunchInv, flow' = flow, revived' = revived,
           \A j \in Jobs : job'[j].last = job[j].last /\ job'[j].state = job[j].state,
           \A j \in Jobs : job'[j].pending # 0 =>
               \/ /\ job'[j].pending = job[j].pending /\ job'[j].revision = job[j].revision
                  /\ claim'[j][job[j].pending] = claim[j][job[j].pending]
               \/ claim'[j][job'[j].pending].revision = job'[j].revision /\ ~Held(j)
    PROVE  LaunchInv'
  <1>1. PendingIsCurrent'
    BY DEF LaunchInv, PendingIsCurrent, Held
  <1>2. HeldIsLast'
    BY DEF LaunchInv, HeldIsLast, Present
  <1>3. RunsOfSaved' /\ OneRunPerJob'
    BY DEF LaunchInv, RunsOfSaved, OneRunPerJob
  <1> QED
    BY <1>1, <1>2, <1>3 DEF LaunchInv

LEMMA LaunchInvStep ==
    ASSUME TypeOK, LaunchInv, [Next]_vars
    PROVE  LaunchInv'
  <1>a. job \in JobMaps /\ claim \in ClaimMaps /\ flow \in FlowMaps /\ issued \in [Jobs -> 0..MaxClaims]
        /\ revived \in [Jobs -> [Claims -> BOOLEAN]] /\ editor \in EditorMaps
    BY TypeFacts
  <1>b. \A j \in Jobs : job[j] \in JobRecord
    BY <1>a DEF JobMaps
  <1>c. \A j \in Jobs : job[j].pending \in 0..MaxClaims /\ job[j].last \in 0..MaxClaims
    BY <1>b, RecordEdits
  <1>1. CASE Tick
    <2>1. flow' = flow /\ revived' = revived
      BY <1>1 DEF Tick, runs
    <2>2. ASSUME NEW j \in Jobs
          PROVE  /\ job'[j].last = job[j].last /\ job'[j].state = job[j].state
                 /\ job'[j].pending # 0 =>
                      \/ /\ job'[j].pending = job[j].pending /\ job'[j].revision = job[j].revision
                         /\ claim'[j][job[j].pending] = claim[j][job[j].pending]
                      \/ claim'[j][job'[j].pending].revision = job'[j].revision /\ ~Held(j)
      <3> DEFINE t == NextRun(job[j].period, now, job[j].next)
      <3>1. CASE ~Due(j)
        BY <1>1, <3>1 DEF Tick
      <3>2. CASE Due(j) /\ Held(j)
        <4>1. job'[j] = [job[j] EXCEPT !.next = t, !.pending = job[j].pending]
          BY <1>1, <3>2 DEF Tick
        <4>2. claim'[j] = claim[j]
          BY <1>1, <3>2 DEF Tick
        <4> HIDE DEF t
        <4> QED
          BY <1>b, <4>1, <4>2 DEF JobRecord
      <3>3. CASE Due(j) /\ ~Held(j)
        <4> DEFINE n == issued[j] + 1
        <4>1. job'[j] = [job[j] EXCEPT !.next = t, !.pending = n]
          BY <1>1, <3>3 DEF Tick
        <4>2. n \in Claims
          BY <1>1, <1>a, <3>3, ClaimNumbers DEF Tick
        <4>3. claim'[j] = [claim[j] EXCEPT ![n] =
                             [manual |-> FALSE, revision |-> job[j].revision, slot |-> job[j].next]]
          BY <1>1, <3>3 DEF Tick
        <4>4. claim[j] \in [Claims -> ClaimRecord]
          BY <1>a DEF ClaimMaps
        <4>5. claim'[j][n].revision = job[j].revision
          BY <4>2, <4>3, <4>4
        <4> HIDE DEF t, n
        <4> QED
          BY <1>b, <3>3, <4>1, <4>5 DEF JobRecord
      <3> QED
        BY <3>1, <3>2, <3>3
    <2> QED
      BY <2>1, <2>2, ClaimsKeep
  <1>2. ASSUME NEW j \in Jobs, RunNow(j) PROVE LaunchInv'
    <2> DEFINE n == issued[j] + 1
               v == job[j].revision + 1
               t == IF job[j].enabled THEN NextRun(job[j].period, now, now) ELSE 0
    <2>1. flow' = flow /\ revived' = revived
      BY <1>2 DEF RunNow, runs
    <2>2. job' = [job EXCEPT ![j] = [job[j] EXCEPT !.revision = v, !.pending = n, !.next = t]]
      BY <1>2 DEF RunNow
    <2>3. claim' = [claim EXCEPT ![j] = [claim[j] EXCEPT ![n] = [manual |-> TRUE, revision |-> v, slot |-> now]]]
      BY <1>2 DEF RunNow
    <2>4. n \in Claims
      BY <1>2, <1>a, ClaimNumbers DEF RunNow
    <2> HIDE DEF n, v, t
    <2>5. job'[j] = [job[j] EXCEPT !.revision = v, !.pending = n, !.next = t] /\ claim'[j][n].revision = v
      BY <1>a, <2>2, <2>3, <2>4 DEF JobMaps, ClaimMaps
    <2>6. \A i \in Jobs : i # j => job'[i] = job[i] /\ claim'[i] = claim[i]
      BY <1>a, <2>2, <2>3 DEF JobMaps, ClaimMaps
    <2>7. ~Held(j)
      BY <1>2 DEF RunNow
    <2>8. job'[j].last = job[j].last /\ job'[j].state = job[j].state
          /\ job'[j].pending = n /\ job'[j].revision = v
      BY <1>b, <2>5 DEF JobRecord
    <2> QED
      BY <2>1, <2>5, <2>6, <2>7, <2>8, ClaimsKeep
  <1>3. ASSUME NEW j \in Jobs, NEW n \in Claims, CreateFlow(j, n) PROVE LaunchInv'
    <2>1. job[j].pending = n /\ Present(j) /\ n # 0
      BY <1>3, ClaimNumbers DEF CreateFlow, Unchanged
    <2>2. job'[j] = [job[j] EXCEPT !.pending = 0, !.last = n]
      BY <1>3, <1>a DEF CreateFlow, JobMaps
    <2>3. job'[j].pending = 0 /\ job'[j].last = n /\ job'[j].state = job[j].state
      BY <1>b, <2>2 DEF JobRecord
    <2>4. \A i \in Jobs : i # j => job'[i] = job[i] /\ flow'[i] = flow[i]
      BY <1>3, <1>a DEF CreateFlow, JobMaps, FlowMaps
    <2>5. flow'[j][n] = "held" /\ \A m \in Claims : m # n => flow'[j][m] = flow[j][m]
      BY <1>3, <1>a DEF CreateFlow, FlowMaps
    <2>6. revived' = revived /\ claim' = claim
      BY <1>3 DEF CreateFlow
    <2>7. \A m \in Claims : flow[j][m] = "held" => revived[j][m]
      <3> SUFFICES ASSUME NEW m \in Claims, flow[j][m] = "held", ~revived[j][m] PROVE FALSE
        OBVIOUS
      <3>1. m = job[j].last /\ m # 0
        BY <2>1, ClaimNumbers DEF LaunchInv, HeldIsLast
      <3> QED
        BY <2>1, <3>1 DEF LaunchInv, PendingIsCurrent
    <2>8. PendingIsCurrent'
      BY <2>3, <2>4, <2>6 DEF LaunchInv, PendingIsCurrent
    <2>9. HeldIsLast'
      BY <2>3, <2>4, <2>5, <2>6, <2>7 DEF LaunchInv, HeldIsLast, Present
    <2>10. RunsOfSaved'
      BY <2>1, <2>3, <2>4, <2>5 DEF LaunchInv, RunsOfSaved, Present
    <2>11. OneRunPerJob'
      BY <2>4, <2>5, <2>6, <2>7 DEF LaunchInv, OneRunPerJob
    <2> QED
      BY <2>8, <2>9, <2>10, <2>11 DEF LaunchInv
  <1>4. ASSUME NEW j \in Jobs, NEW n \in Claims, Settle(j, n) PROVE LaunchInv'
    <2> DEFINE p == IF launch[j][n] = "failing" /\ job[j].pending = n THEN 0 ELSE job[j].pending
    <2>1. job' = [job EXCEPT ![j] = [job[j] EXCEPT !.pending = p]]
      BY <1>4 DEF Settle
    <2>2. p = 0 \/ p = job[j].pending
      OBVIOUS
    <2> HIDE DEF p
    <2>3. job'[j] = [job[j] EXCEPT !.pending = p] /\ \A i \in Jobs : i # j => job'[i] = job[i]
      BY <1>a, <2>1 DEF JobMaps
    <2>4. job'[j].last = job[j].last /\ job'[j].state = job[j].state
          /\ job'[j].pending = p /\ job'[j].revision = job[j].revision
      BY <1>b, <2>3 DEF JobRecord
    <2>5. flow' = flow /\ revived' = revived /\ claim' = claim
      BY <1>4 DEF Settle, runs
    <2> QED
      BY <2>2, <2>3, <2>4, <2>5, ClaimsKeep
  <1>5. ASSUME NEW j \in Jobs, NEW enabled \in BOOLEAN, NEW period \in Periods, Create(j, enabled, period)
        PROVE  LaunchInv'
    <2> DEFINE t == IF enabled THEN NextRun(period, now, now) ELSE 0
               r == [NoJob EXCEPT !.state = "present", !.enabled = enabled, !.period = period,
                                  !.revision = 1, !.next = t]
    <2>1. r.pending = 0 /\ r.last = 0 /\ r.state = "present"
      <3> HIDE DEF t
      <3> QED
        BY NoJobType DEF JobRecord
    <2>2. job[j].state = "absent" /\ job' = [job EXCEPT ![j] = r]
      BY <1>5 DEF Create
    <2> HIDE DEF r
    <2>3. job'[j] = r /\ \A i \in Jobs : i # j => job'[i] = job[i]
      BY <1>a, <2>2 DEF JobMaps
    <2>4. flow' = flow /\ revived' = revived /\ claim' = claim
      BY <1>5 DEF Create, runs
    <2>5. \A m \in Claims : flow[j][m] = "none"
      BY <2>2 DEF LaunchInv, RunsOfSaved
    <2>6. PendingIsCurrent' /\ RunsOfSaved'
      BY <2>1, <2>3, <2>4 DEF LaunchInv, PendingIsCurrent, RunsOfSaved
    <2>7. HeldIsLast' /\ OneRunPerJob'
      BY <2>3, <2>4, <2>5 DEF LaunchInv, HeldIsLast, OneRunPerJob, Present
    <2> QED
      BY <2>6, <2>7 DEF LaunchInv
  <1>6. ASSUME NEW e \in Editors, NEW enabled \in BOOLEAN, NEW period \in Periods, Edit(e, enabled, period)
        PROVE  LaunchInv'
    <2> DEFINE j == editor[e].job
               changed == job[j].enabled # enabled \/ job[j].period # period
               t == IF ~enabled THEN 0 ELSE IF changed THEN NextRun(period, now, now) ELSE job[j].next
               v == job[j].revision + 1
    <2>1. j \in Jobs
      BY <1>6, <1>a DEF Edit, EditorMaps
    <2>2. job' = job \/ job' = [job EXCEPT ![j] =
            [job[j] EXCEPT !.revision = v, !.enabled = enabled, !.period = period, !.pending = 0, !.next = t]]
      BY <1>6 DEF Edit
    <2>3. flow' = flow /\ revived' = revived /\ claim' = claim
      BY <1>6 DEF Edit, runs
    <2> HIDE DEF j, v, t
    <2>4. CASE job' = job
      BY <2>3, <2>4, ClaimsKeep
    <2>5. CASE job' = [job EXCEPT ![j] =
            [job[j] EXCEPT !.revision = v, !.enabled = enabled, !.period = period, !.pending = 0, !.next = t]]
      <3>1. \A i \in Jobs : i # j => job'[i] = job[i]
        BY <1>a, <2>1, <2>5 DEF JobMaps
      <3>2. job'[j] =
              [job[j] EXCEPT !.revision = v, !.enabled = enabled, !.period = period, !.pending = 0, !.next = t]
        BY <1>a, <2>1, <2>5 DEF JobMaps
      <3>3. job'[j].last = job[j].last /\ job'[j].state = job[j].state /\ job'[j].pending = 0
        BY <1>b, <2>1, <3>2 DEF JobRecord
      <3> QED
        BY <2>3, <3>1, <3>3, ClaimsKeep
    <2> QED
      BY <2>2, <2>4, <2>5
  <1>7. ASSUME NEW j \in Jobs, Remove(j) PROVE LaunchInv'
    <2>1. job' = [job EXCEPT ![j] = [NoJob EXCEPT !.state = "removed"]]
      BY <1>7 DEF Remove
    <2>2. job'[j].state = "removed" /\ job'[j].pending = 0
      BY <1>a, <2>1, NoJobType DEF JobMaps, JobRecord
    <2>3. \A i \in Jobs : i # j => job'[i] = job[i]
      BY <1>a, <2>1 DEF JobMaps
    <2>4. flow' = flow /\ revived' = revived /\ claim' = claim
      BY <1>7 DEF Remove, runs
    <2>5. PendingIsCurrent' /\ HeldIsLast'
      BY <2>2, <2>3, <2>4 DEF LaunchInv, PendingIsCurrent, HeldIsLast, Present
    <2>6. RunsOfSaved' /\ OneRunPerJob'
      BY <2>2, <2>3, <2>4 DEF LaunchInv, RunsOfSaved, OneRunPerJob
    <2> QED
      BY <2>5, <2>6 DEF LaunchInv
  <1>8. ASSUME NEW j \in Jobs, NEW n \in Claims, RunStep(j, n) PROVE LaunchInv'
    <2>1. job' = job /\ claim' = claim
      BY <1>8 DEF RunStep, EndFlow, ContinueFlow
    <2>2. \A i \in Jobs, m \in Claims :
            /\ flow'[i][m] = "held" => flow[i][m] = "held" \/ revived'[i][m]
            /\ flow'[i][m] # "none" => flow[i][m] # "none"
            /\ revived[i][m] => revived'[i][m]
      <3>1. CASE EndFlow(j, n)
        <4>1. PICK end \in {"ended", "terminated"} : flow' = [flow EXCEPT ![j] = [flow[j] EXCEPT ![n] = end]]
          BY <3>1 DEF EndFlow
        <4>2. revived' = revived /\ flow[j][n] = "held"
          BY <3>1 DEF EndFlow
        <4> QED
          BY <1>a, <4>1, <4>2 DEF FlowMaps
      <3>2. CASE ContinueFlow(j, n)
        BY <1>a, <3>2 DEF ContinueFlow, FlowMaps
      <3> QED
        BY <1>8, <3>1, <3>2 DEF RunStep
    <2>3. PendingIsCurrent'
      BY <1>c, <2>1, <2>2, ClaimNumbers DEF LaunchInv, PendingIsCurrent
    <2>4. HeldIsLast'
      BY <2>1, <2>2 DEF LaunchInv, HeldIsLast, Present
    <2>5. RunsOfSaved' /\ OneRunPerJob'
      BY <2>1, <2>2 DEF LaunchInv, RunsOfSaved, OneRunPerJob
    <2> QED
      BY <2>3, <2>4, <2>5 DEF LaunchInv
  <1>9. CASE Restart
    <2>1. flow' = flow /\ revived' = revived /\ claim' = claim
      BY <1>9 DEF Restart, runs
    <2>2. ASSUME NEW j \in Jobs
          PROVE  job'[j].last = job[j].last /\ job'[j].state = job[j].state /\ job'[j].pending = 0
      <3> DEFINE t == IF Due(j) THEN NextRun(job[j].period, now, job[j].next) ELSE job[j].next
      <3>1. job'[j] = [job[j] EXCEPT !.pending = 0, !.next = t]
        BY <1>9 DEF Restart
      <3> HIDE DEF t
      <3> QED
        BY <1>b, <3>1 DEF JobRecord
    <2> QED
      BY <2>1, <2>2, ClaimsKeep
  <1>10. ASSUME NEW j \in Jobs, NEW n \in Claims, LaunchThrows(j, n) PROVE LaunchInv'
    BY <1>10, ClaimsKeep DEF LaunchThrows, runs
  <1>11. ASSUME NEW e \in Editors, NEW j \in Jobs, BeginEdit(e, j) PROVE LaunchInv'
    BY <1>11, ClaimsKeep DEF BeginEdit, runs
  <1>12. CASE Close
    BY <1>12, ClaimsKeep DEF Close, runs
  <1>13. CASE Clock
    BY <1>13, ClaimsKeep DEF Clock, runs
  <1>14. CASE UNCHANGED vars
    BY <1>14, ClaimsKeep DEF vars
  <1>15. ASSUME NEW j \in Jobs, NEW n \in Claims, SettleThrows(j, n) PROVE LaunchInv'
    BY <1>15, ClaimsKeep DEF SettleThrows, runs
  <1> QED
    BY <1>1, <1>2, <1>3, <1>4, <1>5, <1>6, <1>7, <1>8, <1>9, <1>10, <1>11, <1>12, <1>13, <1>14, <1>15
    DEF Next, UserStep, LaunchStep

(***************************************************************************)
(* Slots.                                                                  *)
(***************************************************************************)
\* The invariant of slots is kept by an action that claims none for a tick, and that moves a job
\* to a time after now if it moves it.
LEMMA SlotsKeep ==
    ASSUME TypeOK, TypeOK', SlotInv, now' >= now, booted' <= now',
           \A j \in Jobs, n \in Claims :
               Slotted(j, n)' => Slotted(j, n) /\ claim'[j][n].slot = claim[j][n].slot,
           \A j \in Jobs : job'[j].next # 0 =>
               /\ job'[j].state = "present" /\ job'[j].enabled
               /\ \/ job'[j].next > now'
                  \/ job'[j].next = job[j].next /\ booted' = booted
    PROVE  SlotInv'
  <1>1. now \in Nat /\ now' \in Nat /\ booted' \in Nat
    BY TypeFacts, TypeFactsNext
  <1>2. \A j \in Jobs : job[j] \in JobRecord /\ job'[j] \in JobRecord
    BY TypeFacts, TypeFactsNext DEF JobMaps
  <1>3. \A j \in Jobs : job[j].next \in Nat /\ job'[j].next \in Nat
    BY <1>2, RecordEdits
  <1>4. \A j \in Jobs, n \in Claims : claim[j][n].slot \in Nat /\ claim'[j][n].slot \in Nat
    BY TypeFacts, TypeFactsNext DEF ClaimMaps, ClaimRecord
  <1>5. \A j \in Jobs : issued[j] \in Nat /\ issued'[j] \in Nat
    BY TypeFacts, TypeFactsNext, BoundsAssumption
  <1>6. SlotsPassed'
    BY <1>1, <1>4 DEF SlotInv, SlotsPassed
  <1>7. SlotsBehind'
    <2> SUFFICES ASSUME NEW j \in Jobs, job'[j].next # 0
                 PROVE  /\ job'[j].next > booted'
                        /\ \A n \in Claims : Slotted(j, n)' => claim'[j][n].slot < job'[j].next
      BY DEF SlotsBehind
    <2>1. CASE job'[j].next > now'
      BY <1>1, <1>3, <1>4, <1>6, <2>1 DEF SlotsPassed
    <2>2. CASE job'[j].next = job[j].next /\ booted' = booted
      BY <1>4, <2>2 DEF SlotInv, SlotsBehind
    <2> QED
      BY <2>1, <2>2
  <1>8. Scheduled'
    BY DEF Scheduled, Present
  <1>9. SlotsClaimedOnce'
    <2> SUFFICES ASSUME NEW j \in Jobs, NEW n \in Claims, NEW m \in Claims, n < m, Slotted(j, m)',
                        ~claim'[j][n].manual
                 PROVE  claim'[j][n].slot < claim'[j][m].slot
      BY DEF SlotsClaimedOnce, Slotted
    <2>1. Slotted(j, n)'
      BY <1>5 DEF Slotted, Claims
    <2>2. Slotted(j, n) /\ Slotted(j, m)
      BY <2>1
    <2>3. claim[j][n].slot < claim[j][m].slot
      BY <2>2 DEF SlotInv, SlotsClaimedOnce, Slotted
    <2> QED
      BY <2>1, <2>3
  <1> QED
    BY <1>6, <1>7, <1>8, <1>9 DEF SlotInv

\* A tick claims a slot after those it claimed before, and moves the job to one after now.
LEMMA TickSlots ==
    ASSUME TypeOK, TypeOK', SlotInv, Tick
    PROVE  SlotInv'
  <1>a. now \in Nat /\ booted \in Nat /\ now' = now /\ booted' = booted
    BY TypeFacts DEF Tick, service
  <1>b. \A j \in Jobs : job[j] \in JobRecord /\ job'[j] \in JobRecord
    BY TypeFacts, TypeFactsNext DEF JobMaps
  <1>c. \A j \in Jobs : job[j].next \in Nat /\ job'[j].next \in Nat /\ job[j].period \in Periods
    BY <1>b, RecordEdits
  <1>d. \A j \in Jobs, n \in Claims : claim[j][n].slot \in Nat /\ claim'[j][n].slot \in Nat
    BY TypeFacts, TypeFactsNext DEF ClaimMaps, ClaimRecord
  <1>e. \A j \in Jobs : issued[j] \in 0..MaxClaims /\ issued[j] \in Nat /\ claim[j] \in [Claims -> ClaimRecord]
    BY TypeFacts, BoundsAssumption DEF ClaimMaps
  <1>1. \A j \in Jobs : ~Due(j) =>
          job'[j] = job[j] /\ issued'[j] = issued[j] /\ claim'[j] = claim[j]
    BY DEF Tick
  <1>2. ASSUME NEW j \in Jobs, Due(j)
        PROVE  job'[j].next > now /\ job'[j].enabled /\ job'[j].state = "present"
    <2> DEFINE t == NextRun(job[j].period, now, job[j].next)
    <2>1. t > now
      BY <1>a, <1>c, NextRunIsLater
    <2>2. PICK p : job'[j] = [job[j] EXCEPT !.next = t, !.pending = p]
      BY <1>2 DEF Tick
    <2> HIDE DEF t
    <2> QED
      BY <1>b, <1>2, <2>1, <2>2 DEF JobRecord, Due, Present
  <1>3. ASSUME NEW j \in Jobs, Due(j), Held(j) PROVE issued'[j] = issued[j] /\ claim'[j] = claim[j]
    BY <1>3 DEF Tick
  <1>4. ASSUME NEW j \in Jobs, Due(j), ~Held(j)
        PROVE  /\ issued'[j] = issued[j] + 1 /\ issued[j] + 1 \in Claims
               /\ claim'[j][issued[j] + 1].slot = job[j].next
               /\ \A n \in Claims : n # issued[j] + 1 => claim'[j][n] = claim[j][n]
    <2> DEFINE n == issued[j] + 1
    <2>1. n \in Claims
      BY <1>4, <1>e, ClaimNumbers DEF Tick
    <2>2. issued'[j] = n
      BY <1>4 DEF Tick
    <2>3. claim'[j] = [claim[j] EXCEPT ![n] =
                         [manual |-> FALSE, revision |-> job[j].revision, slot |-> job[j].next]]
      BY <1>4 DEF Tick
    <2> HIDE DEF n
    <2>4. claim'[j][n].slot = job[j].next /\ \A m \in Claims : m # n => claim'[j][m] = claim[j][m]
      BY <1>e, <2>1, <2>3
    <2> QED
      BY <2>1, <2>2, <2>4 DEF n
  <1>5. \A j \in Jobs, n \in Claims : Slotted(j, n)' =>
          \/ Slotted(j, n) /\ claim'[j][n].slot = claim[j][n].slot
          \/ n = issued[j] + 1 /\ Due(j) /\ ~Held(j) /\ claim'[j][n].slot = job[j].next
    BY <1>1, <1>3, <1>4, <1>e DEF Slotted, Claims
  <1>6. SlotsPassed'
    BY <1>5, <1>a, <1>c, <1>d DEF SlotInv, SlotsPassed, Due
  <1>7. SlotsBehind'
    <2> SUFFICES ASSUME NEW j \in Jobs, job'[j].next # 0
                 PROVE  /\ job'[j].next > booted'
                        /\ \A n \in Claims : Slotted(j, n)' => claim'[j][n].slot < job'[j].next
      BY DEF SlotsBehind
    <2>1. CASE Due(j)
      BY <1>2, <1>6, <1>a, <1>c, <1>d, <2>1 DEF SlotsPassed
    <2>2. CASE ~Due(j)
      BY <1>1, <1>5, <1>a, <2>2 DEF SlotInv, SlotsBehind
    <2> QED
      BY <2>1, <2>2
  <1>8. Scheduled'
    BY <1>1, <1>2 DEF SlotInv, Scheduled, Present
  <1>9. SlotsClaimedOnce'
    <2> SUFFICES ASSUME NEW j \in Jobs, NEW n \in Claims, NEW m \in Claims, n < m, Slotted(j, m)',
                        ~claim'[j][n].manual
                 PROVE  claim'[j][n].slot < claim'[j][m].slot
      BY DEF SlotsClaimedOnce, Slotted
    <2>1. n \in Nat /\ m \in Nat /\ issued'[j] \in Nat
      BY TypeFactsNext, BoundsAssumption DEF Claims
    <2>2. Slotted(j, n)'
      BY <2>1 DEF Slotted
    <2>3. CASE Slotted(j, m) /\ claim'[j][m].slot = claim[j][m].slot
      <3>1. n <= issued[j] /\ n # issued[j] + 1
        BY <1>e, <2>1, <2>3 DEF Slotted
      <3>2. Slotted(j, n) /\ claim'[j][n].slot = claim[j][n].slot
        BY <1>5, <2>2, <3>1
      <3> QED
        BY <2>3, <3>2 DEF SlotInv, SlotsClaimedOnce, Slotted
    <2>4. CASE m = issued[j] + 1 /\ Due(j) /\ claim'[j][m].slot = job[j].next
      <3>1. n # issued[j] + 1
        BY <1>e, <2>1, <2>4
      <3>2. Slotted(j, n) /\ claim'[j][n].slot = claim[j][n].slot
        BY <1>5, <2>2, <3>1
      <3> QED
        BY <2>4, <3>2 DEF SlotInv, SlotsBehind, Due
    <2> QED
      BY <1>5, <2>3, <2>4
  <1> QED
    BY <1>6, <1>7, <1>8, <1>9 DEF SlotInv

LEMMA SlotInvStep ==
    ASSUME TypeOK, TypeOK', SlotInv, [Next]_vars
    PROVE  SlotInv'
  <1>a. job \in JobMaps /\ claim \in ClaimMaps /\ issued \in [Jobs -> 0..MaxClaims] /\ editor \in EditorMaps
    BY TypeFacts
  <1>b. \A j \in Jobs : job[j] \in JobRecord /\ job[j].period \in Periods /\ job[j].next \in Nat
    BY <1>a, RecordEdits DEF JobMaps
  <1>c. now \in Nat /\ booted \in Nat /\ booted <= now
    BY TypeFacts DEF SlotInv, SlotsPassed
  <1>d. \A j \in Jobs : job[j].next # 0 => job[j].state = "present" /\ job[j].enabled
    BY DEF SlotInv, Scheduled, Present
  <1>e. ASSUME UNCHANGED <<job, issued, claim, booted>>, now' >= now PROVE SlotInv'
    BY <1>c, <1>d, <1>e, SlotsKeep, TypeFactsNext DEF Slotted
  <1>1. CASE Tick
    BY <1>1, TickSlots
  <1>2. ASSUME NEW j \in Jobs, RunNow(j) PROVE SlotInv'
    <2> DEFINE n == issued[j] + 1
               v == job[j].revision + 1
               t == IF job[j].enabled THEN NextRun(job[j].period, now, now) ELSE 0
    <2>1. t > now \/ t = 0
      BY <1>b, <1>c, NextRunIsLater
    <2>2. t # 0 => job[j].enabled
      OBVIOUS
    <2>3. job' = [job EXCEPT ![j] = [job[j] EXCEPT !.revision = v, !.pending = n, !.next = t]]
      BY <1>2 DEF RunNow
    <2>4. claim' = [claim EXCEPT ![j] = [claim[j] EXCEPT ![n] = [manual |-> TRUE, revision |-> v, slot |-> now]]]
      BY <1>2 DEF RunNow
    <2>5. n \in Claims /\ issued' = [issued EXCEPT ![j] = n]
      BY <1>2, <1>a, ClaimNumbers DEF RunNow
    <2>6. now' = now /\ booted' = booted /\ job[j].state = "present"
      BY <1>2 DEF RunNow, service, Present
    <2> HIDE DEF n, v, t
    <2>7. job'[j] = [job[j] EXCEPT !.revision = v, !.pending = n, !.next = t]
          /\ \A i \in Jobs : i # j => job'[i] = job[i]
      BY <1>a, <2>3 DEF JobMaps
    <2>8. job'[j].next = t /\ job'[j].enabled = job[j].enabled /\ job'[j].state = "present"
      BY <1>b, <2>6, <2>7 DEF JobRecord
    <2>9. \A i \in Jobs, m \in Claims :
            Slotted(i, m)' => Slotted(i, m) /\ claim'[i][m].slot = claim[i][m].slot
      <3> SUFFICES ASSUME NEW i \in Jobs, NEW m \in Claims, Slotted(i, m)'
                   PROVE  Slotted(i, m) /\ claim'[i][m].slot = claim[i][m].slot
        OBVIOUS
      <3>1. CASE i # j
        BY <1>a, <2>4, <2>5, <3>1 DEF Slotted, ClaimMaps
      <3>2. CASE i = j
        <4>1. claim'[j] = [claim[j] EXCEPT ![n] = [manual |-> TRUE, revision |-> v, slot |-> now]]
          BY <1>a, <2>4 DEF ClaimMaps
        <4>2. claim[j] \in [Claims -> ClaimRecord]
          BY <1>a DEF ClaimMaps
        <4>3. claim'[j][n].manual
          BY <2>5, <4>1, <4>2
        <4>4. m # n /\ m <= issued'[j] /\ issued'[j] = n
          BY <1>a, <2>5, <3>2, <4>3 DEF Slotted
        <4>5. claim'[j][m] = claim[j][m]
          BY <4>1, <4>2, <4>4
        <4>6. m <= issued[j]
          BY <1>a, <4>4, BoundsAssumption DEF Claims, n
        <4> QED
          BY <3>2, <4>5, <4>6 DEF Slotted
      <3> QED
        BY <3>1, <3>2
    <2> QED
      <3>1. \A i \in Jobs : job'[i].next # 0 =>
              /\ job'[i].state = "present" /\ job'[i].enabled
              /\ job'[i].next > now' \/ (job'[i].next = job[i].next /\ booted' = booted)
        BY <1>d, <2>1, <2>2, <2>6, <2>7, <2>8
      <3>2. now' >= now /\ booted' <= now'
        BY <1>c, <2>6
      <3> QED
        BY <2>9, <3>1, <3>2, SlotsKeep
  <1>3. ASSUME NEW j \in Jobs, NEW n \in Claims, LaunchStep(j, n) PROVE SlotInv'
    <2>1. PICK p, l : job' = [job EXCEPT ![j] = [job[j] EXCEPT !.pending = p, !.last = l]]
      <3>1. CASE CreateFlow(j, n)
        BY <3>1 DEF CreateFlow
      <3>2. CASE LaunchThrows(j, n) \/ SettleThrows(j, n)
        <4>1. job' = [job EXCEPT ![j] = [job[j] EXCEPT !.pending = job[j].pending, !.last = job[j].last]]
          BY <1>a, <1>b, <3>2 DEF LaunchThrows, SettleThrows, JobMaps, JobRecord
        <4> QED
          BY <4>1
      <3>3. CASE Settle(j, n)
        <4> DEFINE p == IF launch[j][n] = "failing" /\ job[j].pending = n THEN 0 ELSE job[j].pending
        <4>1. job' = [job EXCEPT ![j] = [job[j] EXCEPT !.pending = p]]
          BY <3>3 DEF Settle
        <4> HIDE DEF p
        <4>2. [job[j] EXCEPT !.pending = p] = [job[j] EXCEPT !.pending = p, !.last = job[j].last]
          BY <1>b DEF JobRecord
        <4> QED
          BY <4>1, <4>2
      <3> QED
        BY <1>3, <3>1, <3>2, <3>3 DEF LaunchStep
    <2>2. \A i \in Jobs : job'[i].next = job[i].next /\ job'[i].state = job[i].state
                          /\ job'[i].enabled = job[i].enabled
      BY <1>a, <1>b, <2>1 DEF JobMaps, JobRecord
    <2>3. issued' = issued /\ claim' = claim /\ now' = now /\ booted' = booted
      BY <1>3 DEF LaunchStep, CreateFlow, LaunchThrows, Settle, SettleThrows, service
    <2> QED
      BY <1>c, <1>d, <2>2, <2>3, SlotsKeep DEF Slotted
  <1>4. ASSUME NEW j \in Jobs, NEW enabled \in BOOLEAN, NEW period \in Periods, Create(j, enabled, period)
        PROVE  SlotInv'
    <2> DEFINE t == IF enabled THEN NextRun(period, now, now) ELSE 0
    <2>1. (t > now \/ t = 0) /\ (t # 0 => enabled)
      BY <1>c, NextRunIsLater
    <2>2. job' = [job EXCEPT ![j] = [NoJob EXCEPT !.state = "present", !.enabled = enabled, !.period = period,
                                                   !.revision = 1, !.next = t]]
      BY <1>4 DEF Create
    <2> HIDE DEF t
    <2>3. job'[j].next = t /\ job'[j].enabled = enabled /\ job'[j].state = "present"
      BY <1>a, <2>2, NoJobType DEF JobMaps, JobRecord
    <2>4. \A i \in Jobs : i # j => job'[i] = job[i]
      BY <1>a, <2>2 DEF JobMaps
    <2>5. issued' = issued /\ claim' = claim /\ now' = now /\ booted' = booted
      BY <1>4 DEF Create, service
    <2> QED
      BY <1>c, <1>d, <2>1, <2>3, <2>4, <2>5, SlotsKeep DEF Slotted
  <1>5. ASSUME NEW e \in Editors, NEW enabled \in BOOLEAN, NEW period \in Periods, Edit(e, enabled, period)
        PROVE  SlotInv'
    <2> DEFINE j == editor[e].job
               changed == job[j].enabled # enabled \/ job[j].period # period
               t == IF ~enabled THEN 0 ELSE IF changed THEN NextRun(period, now, now) ELSE job[j].next
               v == job[j].revision + 1
    <2>1. j \in Jobs
      BY <1>5, <1>a DEF Edit, EditorMaps
    <2>2. (t > now \/ t = 0 \/ t = job[j].next) /\ (t # 0 => enabled)
      BY <1>c, NextRunIsLater
    <2>3. job' = job \/ (Present(j) /\ job' = [job EXCEPT ![j] =
            [job[j] EXCEPT !.revision = v, !.enabled = enabled, !.period = period, !.pending = 0, !.next = t]])
      <3>1. CASE Present(j) /\ job[j].revision = editor[e].revision
        BY <1>5, <3>1 DEF Edit
      <3>2. CASE ~(Present(j) /\ job[j].revision = editor[e].revision)
        <4>1. job' = job
          BY <1>5, <3>2 DEF Edit
        <4> QED
          BY <4>1
      <3> QED
        BY <3>1, <3>2
    <2>4. issued' = issued /\ claim' = claim /\ now' = now /\ booted' = booted
      BY <1>5 DEF Edit, service
    <2> HIDE DEF j, v, t
    <2>5. CASE job' = job
      BY <2>4, <2>5, <1>c, <1>e
    <2>6. CASE Present(j) /\ job' = [job EXCEPT ![j] =
            [job[j] EXCEPT !.revision = v, !.enabled = enabled, !.period = period, !.pending = 0, !.next = t]]
      <3>1. job'[j].next = t /\ job'[j].enabled = enabled /\ job'[j].state = "present"
        BY <1>a, <1>b, <2>1, <2>6 DEF JobMaps, JobRecord, Present
      <3>2. \A i \in Jobs : i # j => job'[i] = job[i]
        BY <1>a, <2>6 DEF JobMaps
      <3> QED
        BY <1>c, <1>d, <2>1, <2>2, <2>4, <3>1, <3>2, SlotsKeep DEF Slotted
    <2> QED
      BY <2>3, <2>5, <2>6
  <1>6. ASSUME NEW j \in Jobs, Remove(j) PROVE SlotInv'
    <2>1. job'[j].next = 0 /\ \A i \in Jobs : i # j => job'[i] = job[i]
      BY <1>6, <1>a, NoJobType DEF Remove, JobMaps, JobRecord
    <2>2. issued' = issued /\ claim' = claim /\ now' = now /\ booted' = booted
      BY <1>6 DEF Remove, service
    <2> QED
      BY <1>c, <1>d, <2>1, <2>2, SlotsKeep DEF Slotted
  <1>7. CASE Restart
    <2>1. issued' = issued /\ claim' = claim /\ now' = now /\ booted' = now
      BY <1>7 DEF Restart
    <2>2. ASSUME NEW j \in Jobs, job'[j].next # 0
          PROVE  job'[j].next > now /\ job'[j].state = "present" /\ job'[j].enabled
      <3> DEFINE t == IF Due(j) THEN NextRun(job[j].period, now, job[j].next) ELSE job[j].next
      <3>1. job'[j] = [job[j] EXCEPT !.pending = 0, !.next = t]
        BY <1>7 DEF Restart
      <3>2. t = 0 \/ (t > now /\ job[j].next # 0)
        <4>1. CASE Due(j)
          BY <1>b, <1>c, <4>1, NextRunIsLater DEF Due
        <4>2. CASE ~Due(j)
          <5>1. t = job[j].next
            BY <4>2
          <5>2. job[j].next # 0 => ~(job[j].next <= now)
            BY <1>d, <4>2 DEF Due, Present
          <5> QED
            BY <1>b, <1>c, <5>1, <5>2
        <4> QED
          BY <4>1, <4>2
      <3> HIDE DEF t
      <3>3. job'[j].next = t /\ job'[j].state = job[j].state /\ job'[j].enabled = job[j].enabled
        BY <1>b, <3>1 DEF JobRecord
      <3> QED
        BY <1>d, <2>2, <3>2, <3>3
    <2> QED
      BY <1>c, <2>1, <2>2, SlotsKeep DEF Slotted
  <1>8. ASSUME NEW e \in Editors, NEW j \in Jobs, BeginEdit(e, j) PROVE SlotInv'
    BY <1>8, <1>c, <1>e DEF BeginEdit, service
  <1>9. ASSUME NEW j \in Jobs, NEW n \in Claims, RunStep(j, n) PROVE SlotInv'
    BY <1>9, <1>c, <1>e DEF RunStep, EndFlow, ContinueFlow, service
  <1>10. CASE Close
    BY <1>10, <1>c, <1>e DEF Close
  <1>11. CASE Clock
    BY <1>11, <1>c, <1>e DEF Clock, service
  <1>12. CASE UNCHANGED vars
    BY <1>12, <1>c, <1>e DEF vars
  <1> QED
    BY <1>1, <1>2, <1>3, <1>4, <1>5, <1>6, <1>7, <1>8, <1>9, <1>10, <1>11, <1>12
    DEF Next, UserStep

(***************************************************************************)
(* The theorems.                                                           *)
(***************************************************************************)
IInv == TypeOK /\ LaunchInv /\ SlotInv

\* The invariant holds in every reachable state.
THEOREM Invariance == Spec => []IInv
  <1>1. Init => IInv
    BY InitInv DEF IInv
  <1>2. IInv /\ [Next]_vars => IInv'
    BY TypeStep, LaunchInvStep, SlotInvStep DEF IInv
  <1> QED
    BY <1>1, <1>2, PTL DEF Spec

\* Every variable of the scheduler keeps its type.
THEOREM TypeCorrect == Spec => []TypeOK
  BY Invariance, PTL DEF IInv

\* No job has two runs going, apart from ended ones a user continued.
THEOREM OneRun == Spec => []OneRunPerJob
  BY Invariance, PTL DEF IInv, LaunchInv

\* A job's slots are claimed in order, each at most once.
THEOREM SlotsOnce == Spec => []SlotsClaimedOnce
  BY Invariance, PTL DEF IInv, SlotInv

\* A run is created only for the record its claim was made for.
THEOREM RunsMatchJob == Spec => RunsCurrentJob
  <1> DEFINE Matches ==
        \A j \in Jobs, n \in Claims :
            flow[j][n] = "none" /\ flow'[j][n] # "none" =>
                Present(j) /\ job[j].revision = claim[j][n].revision
  <1>1. IInv /\ [Next]_vars => [Matches]_vars
    <2> SUFFICES ASSUME IInv, [Next]_vars, NEW j \in Jobs, NEW n \in Claims,
                        flow[j][n] = "none", flow'[j][n] # "none"
                 PROVE  Present(j) /\ job[j].revision = claim[j][n].revision
      OBVIOUS
    <2>1. flow \in FlowMaps
      BY TypeFacts DEF IInv
    <2>2. flow' # flow
      OBVIOUS
    <2>3. PICK i \in Jobs, m \in Claims : CreateFlow(i, m) \/ RunStep(i, m)
      BY <2>2 DEF Next, vars, Tick, UserStep, Create, BeginEdit, Edit, Remove, RunNow, Close, Restart, Clock,
                  LaunchStep, LaunchThrows, Settle, SettleThrows, runs
    <2>4. CASE RunStep(i, m)
      <3>1. flow[i][m] # "none"
        BY <2>4 DEF RunStep, EndFlow, ContinueFlow
      <3>2. \E end : flow' = [flow EXCEPT ![i] = [flow[i] EXCEPT ![m] = end]]
        BY <2>4 DEF RunStep, EndFlow, ContinueFlow
      <3> QED
        BY <2>1, <3>1, <3>2 DEF FlowMaps
    <2>5. CASE CreateFlow(i, m)
      <3>1. flow' = [flow EXCEPT ![i] = [flow[i] EXCEPT ![m] = "held"]]
        BY <2>5 DEF CreateFlow
      <3>2. i = j /\ m = n
        BY <2>1, <3>1 DEF FlowMaps
      <3>3. Present(j) /\ job[j].pending = n /\ n # 0
        BY <2>5, <3>2, ClaimNumbers DEF CreateFlow, Unchanged
      <3> QED
        BY <3>3 DEF IInv, LaunchInv, PendingIsCurrent
    <2> QED
      BY <2>3, <2>4, <2>5
  <1> QED
    BY <1>1, Invariance, PTL DEF Spec, RunsCurrentJob

\* What a tick claims lies after the last start of the service.
THEOREM NoLateRuns == Spec => MissedSlotsSkipped
  <1> DEFINE Skips ==
        \A j \in Jobs :
            issued'[j] # issued[j] /\ ~claim'[j][issued'[j]].manual =>
                claim'[j][issued'[j]].slot > booted
  <1>1. IInv /\ [Next]_vars => [Skips]_vars
    <2> SUFFICES ASSUME IInv, [Next]_vars, NEW j \in Jobs,
                        issued'[j] # issued[j], ~claim'[j][issued'[j]].manual
                 PROVE  claim'[j][issued'[j]].slot > booted
      OBVIOUS
    <2>1. claim \in ClaimMaps /\ claim[j] \in [Claims -> ClaimRecord] /\ issued \in [Jobs -> 0..MaxClaims]
      BY TypeFacts DEF IInv, ClaimMaps
    <2>2. Tick \/ \E i \in Jobs : RunNow(i)
      BY DEF Next, vars, UserStep, Create, BeginEdit, Edit, Remove, Close, Restart, Clock, LaunchStep,
             CreateFlow, LaunchThrows, Settle, SettleThrows, RunStep, EndFlow, ContinueFlow
    <2>3. CASE Tick
      <3> DEFINE n == issued[j] + 1
      <3>1. Due(j) /\ ~Held(j) /\ issued'[j] = n
        BY <2>3 DEF Tick
      <3>2. n \in Claims
        BY <2>1, <2>3, <3>1, ClaimNumbers DEF Tick
      <3>3. claim'[j] = [claim[j] EXCEPT ![n] =
                           [manual |-> FALSE, revision |-> job[j].revision, slot |-> job[j].next]]
        BY <2>3, <3>1 DEF Tick
      <3> HIDE DEF n
      <3>4. claim'[j][n].slot = job[j].next
        BY <2>1, <3>2, <3>3
      <3> QED
        BY <3>1, <3>4 DEF IInv, SlotInv, SlotsBehind, Due
    <2>4. ASSUME NEW i \in Jobs, RunNow(i) PROVE FALSE
      <3> DEFINE n == issued[i] + 1
      <3>1. issued' = [issued EXCEPT ![i] = n]
        BY <2>4 DEF RunNow
      <3>2. i = j /\ issued'[j] = n /\ n \in Claims
        BY <2>1, <2>4, <3>1, ClaimNumbers DEF RunNow
      <3>3. claim' = [claim EXCEPT ![i] = [claim[i] EXCEPT ![n] =
                        [manual |-> TRUE, revision |-> job[i].revision + 1, slot |-> now]]]
        BY <2>4 DEF RunNow
      <3> HIDE DEF n
      <3>4. claim'[j][n].manual
        BY <2>1, <3>2, <3>3 DEF ClaimMaps
      <3> QED
        BY <3>2, <3>4
    <2> QED
      BY <2>2, <2>3, <2>4
  <1> QED
    BY <1>1, Invariance, PTL DEF Spec, MissedSlotsSkipped

(***************************************************************************)
(* The rhythm of the slots.  No claim is of a later revision than the job, *)
(* and a slot claimed for the present revision is followed, in whole       *)
(* periods, by those claimed after it and by the next one.                 *)
(***************************************************************************)
\* b comes whole periods after a, or is a.
Steps(a, b, p) == \E k \in Nat : b = a + k * p

LEMMA StepsFacts ==
    ASSUME NEW p \in Nat \ {0}, NEW a \in Nat, NEW b \in Nat, NEW c \in Nat
    PROVE  /\ Steps(a, a, p)
           /\ Steps(a, b, p) /\ Steps(b, c, p) => Steps(a, c, p)
           /\ Steps(a, b, p) => (b - a) % p = 0
  <1>1. Steps(a, a, p)
    <2>1. a = a + 0 * p
      OBVIOUS
    <2> QED
      BY <2>1 DEF Steps
  <1>2. ASSUME Steps(a, b, p), Steps(b, c, p) PROVE Steps(a, c, p)
    <2>1. PICK k \in Nat, l \in Nat : b = a + k * p /\ c = b + l * p
      BY <1>2 DEF Steps
    <2>2. (k + l) * p = k * p + l * p /\ k + l \in Nat
      BY <2>1
    <2>3. k * p \in Nat /\ l * p \in Nat
      BY <2>1
    <2>4. c = a + (k + l) * p
      BY <2>1, <2>2, <2>3
    <2> QED
      BY <2>2, <2>4 DEF Steps
  <1>3. ASSUME Steps(a, b, p) PROVE (b - a) % p = 0
    <2>1. PICK k \in Nat : b = a + k * p
      BY <1>3 DEF Steps
    <2>2. k * p \in Nat /\ b - a = k * p
      BY <2>1
    <2>3. (k * p) % p = 0
      OBVIOUS
    <2> QED
      BY <2>2, <2>3
  <1> QED
    BY <1>1, <1>2, <1>3

\* The next slot is the first one after the given time, counted in whole
\* periods from the anchor (schedule-timing.mjs, nextRun).
THEOREM NextRunIsFirst ==
    ASSUME NEW p \in Periods, NEW after \in Nat, NEW anchor \in Nat
    PROVE  /\ NextRun(p, after, anchor) > after
           /\ Steps(anchor, NextRun(p, after, anchor), p)
           /\ \A k \in Nat \ {0} : anchor + k * p > after => NextRun(p, after, anchor) <= anchor + k * p
  <1> DEFINE d == IF after > anchor THEN after - anchor ELSE 0
             q == d \div p
  <1>1. p \in Nat \ {0} /\ d \in Nat
    BY PeriodsAssumption
  <1>2. q \in Nat /\ d = p * q + (d % p) /\ d % p \in Nat /\ d % p < p
    <2> HIDE DEF d
    <2> QED
      BY <1>1
  <1>3. NextRun(p, after, anchor) = anchor + (q + 1) * p
    BY DEF NextRun
  <1> HIDE DEF q
  <1>4. Steps(anchor, NextRun(p, after, anchor), p)
    BY <1>2, <1>3 DEF Steps
  <1>5. ASSUME NEW k \in Nat \ {0}, anchor + k * p > after PROVE NextRun(p, after, anchor) <= anchor + k * p
    <2>1. k * p \in Nat
      BY <1>1
    <2>2. k * p > d \/ d = 0
      BY <1>5, <2>1
    <2>3. k >= q + 1
      <3>1. CASE d = 0
        <4>1. p * q \in Nat
          BY <1>1, <1>2
        <4>2. p * q = 0
          BY <1>1, <1>2, <3>1, <4>1
        <4>3. q = 0
          BY <1>1, <1>2, <4>2
        <4> QED
          BY <4>3
      <3>2. CASE k * p > d
        <4>1. SUFFICES ASSUME k <= q PROVE FALSE
          BY <1>2
        <4>2. k * p <= q * p
          BY <1>1, <1>2, <4>1
        <4>3. q * p = p * q /\ p * q \in Nat
          BY <1>1, <1>2
        <4> HIDE DEF d
        <4> QED
          BY <1>1, <1>2, <2>1, <3>2, <4>2, <4>3
      <3> QED
        BY <2>2, <3>1, <3>2
    <2>4. (q + 1) * p <= k * p /\ (q + 1) * p \in Nat
      BY <1>1, <1>2, <2>3
    <2> QED
      BY <1>3, <2>1, <2>4
  <1> QED
    BY <1>4, <1>5, NextRunIsLater

\* A slot claimed for the job as it is.
OfRevision(j, n) == Present(j) /\ Slotted(j, n) /\ claim[j][n].revision = job[j].revision

RhythmInv ==
    /\ \A j \in Jobs : job[j].state = "absent" => issued[j] = 0
    /\ \A j \in Jobs, n \in Claims : Present(j) /\ n <= issued[j] => claim[j][n].revision <= job[j].revision
    /\ \A j \in Jobs, n \in Claims : OfRevision(j, n) =>
          job[j].next # 0 /\ Steps(claim[j][n].slot, job[j].next, job[j].period)
    /\ \A j \in Jobs, n, m \in Claims : n < m /\ OfRevision(j, n) /\ OfRevision(j, m) =>
          Steps(claim[j][n].slot, claim[j][m].slot, job[j].period)

LEMMA InitRhythm == Init => RhythmInv
  BY NoJobType, BoundsAssumption DEF Init, RhythmInv, OfRevision, Present, Slotted, Claims

\* What may become of a record while no claim is made.
Steady(j) ==
    /\ job'[j].state = job[j].state /\ job'[j].revision = job[j].revision /\ job'[j].period = job[j].period
    /\ \/ job'[j].next = job[j].next
       \/ job[j].next # 0 /\ job'[j].next # 0 /\ Steps(job[j].next, job'[j].next, job[j].period)
Newer(j) ==
    /\ job'[j].state = "present"
    /\ \/ issued[j] = 0
       \/ Present(j) /\ job'[j].revision > job[j].revision
Gone(j) == job'[j].state = "removed"

LEMMA RecordTypes ==
    ASSUME TypeOK
    PROVE  /\ \A j \in Jobs : /\ job[j].state \in {"absent", "present", "removed"}
                              /\ job[j].revision \in Nat /\ job[j].next \in Nat /\ issued[j] \in 0..MaxClaims
                              /\ job[j].period \in Nat \ {0}
           /\ \A j \in Jobs, n \in Claims : claim[j][n].revision \in Nat /\ claim[j][n].slot \in Nat
  <1>1. ASSUME NEW j \in Jobs
        PROVE  /\ job[j].state \in {"absent", "present", "removed"}
               /\ job[j].revision \in Nat /\ job[j].next \in Nat /\ issued[j] \in 0..MaxClaims
               /\ job[j].period \in Nat \ {0}
    <2>1. job[j] \in JobRecord /\ issued[j] \in 0..MaxClaims
      BY DEF TypeOK
    <2> QED
      BY <2>1, PeriodsAssumption DEF JobRecord
  <1>2. ASSUME NEW j \in Jobs, NEW n \in Claims
        PROVE  claim[j][n].revision \in Nat /\ claim[j][n].slot \in Nat
    <2>1. claim[j][n] \in ClaimRecord
      BY DEF TypeOK
    <2> QED
      BY <2>1 DEF ClaimRecord
  <1> QED
    BY <1>1, <1>2

LEMMA RhythmFrame ==
    ASSUME TypeOK, TypeOK', RhythmInv, claim' = claim, issued' = issued,
           \A j \in Jobs : Steady(j) \/ Newer(j) \/ Gone(j)
    PROVE  RhythmInv'
  <1>a. /\ \A j \in Jobs : /\ job[j].revision \in Nat /\ job[j].next \in Nat /\ issued[j] \in 0..MaxClaims
                           /\ job[j].period \in Nat \ {0} /\ job'[j].revision \in Nat /\ job'[j].next \in Nat
        /\ \A j \in Jobs, n \in Claims : claim[j][n].revision \in Nat /\ claim[j][n].slot \in Nat
    <2>1. \A j \in Jobs : job'[j].revision \in Nat /\ job'[j].next \in Nat
      BY DEF TypeOK, JobRecord
    <2> QED
      BY <2>1, RecordTypes
  <1>1. ASSUME NEW j \in Jobs, job'[j].state = "absent" PROVE issued'[j] = 0
    BY <1>1 DEF RhythmInv, Steady, Newer, Gone
  <1>2. ASSUME NEW j \in Jobs, NEW n \in Claims, job'[j].state = "present", n <= issued[j]
        PROVE  claim[j][n].revision <= job'[j].revision
    <2>1. issued[j] # 0
      BY <1>2, <1>a, ClaimNumbers DEF Claims
    <2>2. Present(j) /\ job'[j].revision >= job[j].revision
      BY <1>2, <1>a, <2>1 DEF Steady, Newer, Gone, Present
    <2> QED
      BY <1>2, <1>a, <2>2 DEF RhythmInv
  <1>3. ASSUME NEW j \in Jobs, NEW n \in Claims, OfRevision(j, n)' PROVE OfRevision(j, n) /\ Steady(j)
    <2>1. job'[j].state = "present" /\ Slotted(j, n) /\ claim[j][n].revision = job'[j].revision
      BY <1>3 DEF OfRevision, Slotted, Present
    <2>2. issued[j] # 0
      BY <1>a, <2>1, ClaimNumbers DEF Claims, Slotted
    <2>3. Steady(j)
      <3>1. ~Gone(j)
        BY <2>1 DEF Gone
      <3>2. ASSUME Newer(j) PROVE FALSE
        <4>1. Present(j) /\ job'[j].revision > job[j].revision
          BY <2>2, <3>2 DEF Newer
        <4>2. claim[j][n].revision <= job[j].revision
          BY <2>1, <4>1 DEF RhythmInv, Slotted
        <4> QED
          BY <1>a, <2>1, <4>1, <4>2
      <3> QED
        BY <3>1, <3>2
    <2> QED
      BY <2>1, <2>3 DEF Steady, OfRevision, Present
  <1>4. ASSUME NEW j \in Jobs, NEW n \in Claims, OfRevision(j, n)'
        PROVE  job'[j].next # 0 /\ Steps(claim[j][n].slot, job'[j].next, job'[j].period)
    <2>1. Steady(j) /\ job[j].next # 0 /\ Steps(claim[j][n].slot, job[j].next, job[j].period)
      BY <1>3, <1>4 DEF RhythmInv
    <2> QED
      BY <1>a, <2>1, StepsFacts DEF Steady
  <1>5. ASSUME NEW j \in Jobs, NEW n \in Claims, NEW m \in Claims, n < m, OfRevision(j, n)', OfRevision(j, m)'
        PROVE  Steps(claim[j][n].slot, claim[j][m].slot, job'[j].period)
    BY <1>3, <1>5 DEF RhythmInv, Steady
  <1> QED
    BY <1>1, <1>2, <1>4, <1>5 DEF RhythmInv, Present, Steps

\* A tick claims the slot that was next, and moves on from it.
LEMMA RhythmTick ==
    ASSUME IInv, TypeOK', RhythmInv, Tick
    PROVE  RhythmInv'
  <1>a. /\ \A j \in Jobs : /\ job[j].revision \in Nat /\ job[j].next \in Nat /\ issued[j] \in 0..MaxClaims
                           /\ job[j].period \in Nat \ {0} /\ job[j].period \in Periods /\ job[j] \in JobRecord
                           /\ claim[j] \in [Claims -> ClaimRecord]
        /\ \A j \in Jobs, n \in Claims : claim[j][n].revision \in Nat /\ claim[j][n].slot \in Nat
        /\ now \in Nat
    <2>1. \A j \in Jobs : job[j].period \in Periods /\ job[j] \in JobRecord
                          /\ claim[j] \in [Claims -> ClaimRecord]
      BY DEF IInv, TypeOK, JobRecord
    <2> QED
      BY <2>1, RecordTypes DEF IInv, TypeOK
  <1>1. ASSUME NEW j \in Jobs, ~Due(j)
        PROVE  job'[j] = job[j] /\ issued'[j] = issued[j] /\ claim'[j] = claim[j]
    BY <1>1 DEF Tick
  <1>2. ASSUME NEW j \in Jobs, Due(j)
        PROVE  /\ job'[j].state = job[j].state /\ job'[j].revision = job[j].revision
               /\ job'[j].period = job[j].period
               /\ job'[j].next = NextRun(job[j].period, now, job[j].next) /\ job'[j].next # 0
               /\ Steps(job[j].next, job'[j].next, job[j].period) /\ job'[j].next \in Nat
    <2>1. \E p : job'[j] = [job[j] EXCEPT !.next = NextRun(job[j].period, now, job[j].next), !.pending = p]
      BY <1>2 DEF Tick
    <2>2. /\ job'[j].state = job[j].state /\ job'[j].revision = job[j].revision
          /\ job'[j].period = job[j].period
          /\ job'[j].next = NextRun(job[j].period, now, job[j].next)
      BY <1>a, <2>1 DEF JobRecord
    <2>3. /\ NextRun(job[j].period, now, job[j].next) \in Nat
          /\ NextRun(job[j].period, now, job[j].next) > now
      BY <1>a, NextRunIsLater
    <2>4. Steps(job[j].next, NextRun(job[j].period, now, job[j].next), job[j].period)
      BY <1>a, NextRunIsFirst
    <2> QED
      BY <1>a, <2>2, <2>3, <2>4
  <1>3. ASSUME NEW j \in Jobs, Due(j), Held(j)
        PROVE  issued'[j] = issued[j] /\ claim'[j] = claim[j]
    BY <1>3 DEF Tick
  <1>4. ASSUME NEW j \in Jobs, Due(j), ~Held(j)
        PROVE  LET n == issued[j] + 1
               IN  /\ issued'[j] = n /\ n \in Claims
                   /\ claim'[j] = [claim[j] EXCEPT ![n] =
                         [manual |-> FALSE, revision |-> job[j].revision, slot |-> job[j].next]]
    <2>1. issued[j] < MaxClaims /\ issued'[j] = issued[j] + 1
          /\ claim'[j] = [claim[j] EXCEPT ![issued[j] + 1] =
                [manual |-> FALSE, revision |-> job[j].revision, slot |-> job[j].next]]
      BY <1>4 DEF Tick
    <2> QED
      BY <1>a, <2>1, ClaimNumbers
  \* What a claim is afterwards: what it was, or the new one.
  <1>5. ASSUME NEW j \in Jobs, NEW m \in Claims, m <= issued'[j]
        PROVE  \/ m <= issued[j] /\ claim'[j][m] = claim[j][m]
               \/ /\ Due(j) /\ m = issued[j] + 1
                  /\ claim'[j][m] = [manual |-> FALSE, revision |-> job[j].revision, slot |-> job[j].next]
    <2>1. CASE ~Due(j) \/ Held(j)
      BY <1>1, <1>3, <1>5, <2>1
    <2>2. CASE Due(j) /\ ~Held(j)
      <3> DEFINE n == issued[j] + 1
                 new == [manual |-> FALSE, revision |-> job[j].revision, slot |-> job[j].next]
      <3>1. issued'[j] = n /\ n \in Claims /\ claim'[j] = [claim[j] EXCEPT ![n] = new]
        BY <1>4, <2>2
      <3>2. m = n \/ m <= issued[j]
        BY <1>5, <1>a, <3>1 DEF Claims
      <3>3. m <= issued[j] => m # n
        BY <1>a DEF Claims
      <3> HIDE DEF n, new
      <3>4. claim'[j][m] = IF m = n THEN new ELSE claim[j][m]
        BY <1>a, <3>1
      <3> QED
        BY <2>2, <3>2, <3>3, <3>4 DEF n, new
    <2> QED
      BY <2>1, <2>2
  <1>6. ASSUME NEW j \in Jobs
        PROVE  /\ job'[j].state = job[j].state /\ job'[j].revision = job[j].revision
               /\ job'[j].period = job[j].period
               /\ \/ job'[j].next = job[j].next
                  \/ job'[j].next # 0 /\ Steps(job[j].next, job'[j].next, job[j].period)
               /\ job'[j].next \in Nat
    BY <1>a, <1>1, <1>2
  <1>7. ASSUME NEW j \in Jobs, job'[j].state = "absent" PROVE issued'[j] = 0
    <2>1. ~Due(j)
      BY <1>6, <1>7 DEF Due, Present
    <2> QED
      BY <1>1, <1>7, <2>1 DEF RhythmInv
  <1>8. ASSUME NEW j \in Jobs, NEW n \in Claims, job'[j].state = "present", n <= issued'[j]
        PROVE  claim'[j][n].revision <= job'[j].revision
    <2>1. CASE n <= issued[j] /\ claim'[j][n] = claim[j][n]
      BY <1>6, <1>8, <2>1 DEF RhythmInv, Present
    <2>2. CASE claim'[j][n] = [manual |-> FALSE, revision |-> job[j].revision, slot |-> job[j].next]
      BY <1>a, <1>6, <2>2
    <2> QED
      BY <1>5, <1>8, <2>1, <2>2
  <1>9. ASSUME NEW j \in Jobs, NEW n \in Claims, OfRevision(j, n)'
        PROVE  \/ OfRevision(j, n) /\ claim'[j][n] = claim[j][n] /\ n <= issued[j]
               \/ Due(j) /\ n = issued[j] + 1 /\ claim'[j][n].slot = job[j].next
    <2>1. Present(j) /\ n <= issued'[j] /\ ~claim'[j][n].manual /\ claim'[j][n].revision = job[j].revision
      BY <1>6, <1>9 DEF OfRevision, Slotted, Present
    <2>2. CASE n <= issued[j] /\ claim'[j][n] = claim[j][n]
      <3>1. OfRevision(j, n)
        BY <2>1, <2>2 DEF OfRevision, Slotted
      <3> QED
        BY <2>2, <3>1
    <2>3. CASE /\ Due(j) /\ n = issued[j] + 1
               /\ claim'[j][n] = [manual |-> FALSE, revision |-> job[j].revision, slot |-> job[j].next]
      <3>1. claim'[j][n].slot = job[j].next
        BY <2>3
      <3> QED
        BY <2>3, <3>1
    <2> QED
      BY <1>5, <2>1, <2>2, <2>3
  <1>10. ASSUME NEW j \in Jobs, NEW n \in Claims, OfRevision(j, n)'
         PROVE  job'[j].next # 0 /\ Steps(claim'[j][n].slot, job'[j].next, job'[j].period)
    <2>1. CASE OfRevision(j, n) /\ claim'[j][n] = claim[j][n]
      <3>1. job[j].next # 0 /\ Steps(claim[j][n].slot, job[j].next, job[j].period)
        BY <2>1 DEF RhythmInv
      <3> QED
        BY <1>a, <1>6, <2>1, <3>1, StepsFacts
    <2>2. CASE Due(j) /\ claim'[j][n].slot = job[j].next
      BY <1>2, <2>2
    <2> QED
      BY <1>9, <1>10, <2>1, <2>2
  <1>11. ASSUME NEW j \in Jobs, NEW n \in Claims, NEW m \in Claims, n < m, OfRevision(j, n)', OfRevision(j, m)'
         PROVE  Steps(claim'[j][n].slot, claim'[j][m].slot, job'[j].period)
    <2>1. OfRevision(j, n) /\ claim'[j][n] = claim[j][n]
      <3>1. ~(n = issued[j] + 1)
        BY <1>a, <1>9, <1>11 DEF Claims
      <3> QED
        BY <1>9, <1>11, <3>1
    <2>2. CASE OfRevision(j, m) /\ claim'[j][m] = claim[j][m]
      BY <1>6, <1>11, <2>1, <2>2 DEF RhythmInv
    <2>3. CASE claim'[j][m].slot = job[j].next
      BY <1>6, <2>1, <2>3 DEF RhythmInv
    <2> QED
      BY <1>9, <1>11, <2>2, <2>3
  <1> QED
    BY <1>7, <1>8, <1>10, <1>11 DEF RhythmInv, Present, Steps

\* Run now makes a new revision, of which no slot has been claimed.
LEMMA RhythmRunNow ==
    ASSUME IInv, TypeOK', RhythmInv, NEW j \in Jobs, RunNow(j)
    PROVE  RhythmInv'
  <1> DEFINE n == issued[j] + 1
             v == job[j].revision + 1
  <1>a. /\ job[j].revision \in Nat /\ issued[j] \in 0..MaxClaims /\ n \in Claims /\ Present(j)
        /\ \A m \in Claims : claim[j][m].revision \in Nat
    <2>1. issued[j] < MaxClaims /\ Present(j)
      BY DEF RunNow
    <2> QED
      BY <2>1, RecordTypes, ClaimNumbers DEF IInv
  <1>1. /\ \A i \in Jobs : i # j => job'[i] = job[i] /\ issued'[i] = issued[i] /\ claim'[i] = claim[i]
        /\ issued'[j] = n
        /\ claim'[j] = [claim[j] EXCEPT ![n] = [manual |-> TRUE, revision |-> v, slot |-> now]]
        /\ job'[j].revision = v /\ job'[j].state = "present"
    <2>1. /\ job \in [Jobs -> JobRecord] /\ issued \in [Jobs -> 0..MaxClaims]
          /\ claim \in [Jobs -> [Claims -> ClaimRecord]]
      BY DEF IInv, TypeOK
    <2>2. PICK t : job' = [job EXCEPT ![j] = [job[j] EXCEPT !.revision = v, !.pending = n, !.next = t]]
      BY DEF RunNow
    <2>3. /\ issued' = [issued EXCEPT ![j] = n]
          /\ claim' = [claim EXCEPT ![j] = [claim[j] EXCEPT ![n] = [manual |-> TRUE, revision |-> v, slot |-> now]]]
      BY DEF RunNow
    <2> HIDE DEF n, v
    <2>4. job'[j].revision = v /\ job'[j].state = job[j].state
      BY <2>1, <2>2 DEF JobRecord
    <2> QED
      BY <1>a, <2>1, <2>2, <2>3, <2>4 DEF Present
  <1>2. claim[j] \in [Claims -> ClaimRecord]
    BY DEF IInv, TypeOK
  <1>3. ASSUME NEW m \in Claims, m <= issued'[j]
        PROVE  claim'[j][m].revision <= v /\ (claim'[j][m].manual \/ claim'[j][m].revision < v)
    <2>1. CASE m = n
      BY <1>a, <1>1, <1>2, <2>1
    <2>2. CASE m # n
      <3>1. m <= issued[j] /\ claim'[j][m] = claim[j][m]
        BY <1>a, <1>1, <1>2, <1>3, <2>2 DEF Claims
      <3>2. claim[j][m].revision <= job[j].revision
        BY <1>a, <3>1 DEF RhythmInv
      <3> QED
        BY <1>a, <3>1, <3>2
    <2> QED
      BY <2>1, <2>2
  <1>4. \A m \in Claims : ~OfRevision(j, m)'
    <2> SUFFICES ASSUME NEW m \in Claims, OfRevision(j, m)' PROVE FALSE
      OBVIOUS
    <2>1. m <= issued'[j] /\ ~claim'[j][m].manual /\ claim'[j][m].revision = v
      BY <1>1 DEF OfRevision, Slotted
    <2> QED
      BY <1>a, <1>3, <2>1
  <1>5. \A i \in Jobs, m \in Claims : i # j /\ OfRevision(i, m)' => OfRevision(i, m)
    BY <1>1 DEF OfRevision, Slotted, Present
  <1>6. \A i \in Jobs : job'[i].state = "absent" => issued'[i] = 0
    BY <1>1 DEF RhythmInv
  <1>7. \A i \in Jobs, m \in Claims : job'[i].state = "present" /\ m <= issued'[i] =>
          claim'[i][m].revision <= job'[i].revision
    BY <1>1, <1>3 DEF RhythmInv, Present
  <1>8. \A i \in Jobs, m \in Claims : OfRevision(i, m)' =>
          job'[i].next # 0 /\ Steps(claim'[i][m].slot, job'[i].next, job'[i].period)
    BY <1>1, <1>4, <1>5 DEF RhythmInv
  <1>9. \A i \in Jobs, m, k \in Claims : m < k /\ OfRevision(i, m)' /\ OfRevision(i, k)' =>
          Steps(claim'[i][m].slot, claim'[i][k].slot, job'[i].period)
    BY <1>1, <1>4, <1>5 DEF RhythmInv
  <1> QED
    BY <1>6, <1>7, <1>8, <1>9 DEF RhythmInv, Present, Steps

LEMMA RhythmStep ==
    ASSUME IInv, TypeOK', RhythmInv, [Next]_vars
    PROVE  RhythmInv'
  <1>a. /\ job \in [Jobs -> JobRecord] /\ TypeOK /\ now \in Nat
        /\ \A j \in Jobs : /\ job[j] \in JobRecord /\ job[j].period \in Periods
                           /\ job[j].next \in Nat /\ job[j].revision \in Nat
        /\ \A e \in Editors : editor[e] \in [job : Jobs, revision : Nat] \cup {None}
    <2>1. TypeOK
      BY DEF IInv
    <2>2. job \in [Jobs -> JobRecord] /\ now \in Nat /\ editor \in [Editors -> [job : Jobs, revision : Nat] \cup {None}]
      BY <2>1 DEF TypeOK
    <2> QED
      BY <2>1, <2>2 DEF JobRecord
  <1>b. ASSUME job' = job, claim' = claim, issued' = issued PROVE RhythmInv'
    BY <1>a, <1>b, RhythmFrame DEF Steady
  <1>1. ASSUME NEW j \in Jobs, NEW enabled \in BOOLEAN, NEW period \in Periods, Create(j, enabled, period)
        PROVE  RhythmInv'
    <2> DEFINE t == IF enabled THEN NextRun(period, now, now) ELSE 0
    <2>1. job' = [job EXCEPT ![j] = [NoJob EXCEPT !.state = "present", !.enabled = enabled, !.period = period,
                                                   !.revision = 1, !.next = t]]
      BY <1>1 DEF Create
    <2> HIDE DEF t
    <2>2. job'[j].state = "present" /\ \A i \in Jobs : i # j => job'[i] = job[i]
      BY <1>a, <2>1, NoJobType DEF JobRecord
    <2>3. issued[j] = 0 /\ claim' = claim /\ issued' = issued
      BY <1>1 DEF Create, RhythmInv
    <2>4. \A i \in Jobs : Steady(i) \/ Newer(i) \/ Gone(i)
      BY <2>2, <2>3 DEF Steady, Newer
    <2> QED
      BY <1>a, <2>3, <2>4, RhythmFrame
  <1>2. ASSUME NEW e \in Editors, NEW enabled \in BOOLEAN, NEW period \in Periods, Edit(e, enabled, period)
        PROVE  RhythmInv'
    <2> DEFINE j == editor[e].job
               changed == job[j].enabled # enabled \/ job[j].period # period
               t == IF ~enabled THEN 0 ELSE IF changed THEN NextRun(period, now, now) ELSE job[j].next
    <2>1. j \in Jobs
      BY <1>2, <1>a DEF Edit
    <2>2. CASE Present(j) /\ job[j].revision = editor[e].revision
      <3>1. job' = [job EXCEPT ![j] = [job[j] EXCEPT !.revision = job[j].revision + 1, !.enabled = enabled,
                                                     !.period = period, !.pending = 0, !.next = t]]
        BY <1>2, <2>2 DEF Edit
      <3> HIDE DEF j, t
      <3>2. /\ job'[j].state = job[j].state /\ job'[j].revision = job[j].revision + 1
            /\ \A i \in Jobs : i # j => job'[i] = job[i]
        BY <1>a, <2>1, <3>1 DEF JobRecord
      <3>3. Newer(j)
        BY <1>a, <2>1, <2>2, <3>2 DEF Newer, Present
      <3>4. \A i \in Jobs : Steady(i) \/ Newer(i) \/ Gone(i)
        BY <3>2, <3>3 DEF Steady
      <3>5. claim' = claim /\ issued' = issued
        BY <1>2 DEF Edit
      <3> QED
        BY <1>a, <3>4, <3>5, RhythmFrame
    <2>3. CASE ~(Present(j) /\ job[j].revision = editor[e].revision)
      <3>1. job' = job /\ claim' = claim /\ issued' = issued
        BY <1>2, <2>3 DEF Edit
      <3> QED
        BY <1>b, <3>1
    <2> QED
      BY <2>2, <2>3
  <1>3. ASSUME NEW j \in Jobs, Remove(j) PROVE RhythmInv'
    <2>1. job' = [job EXCEPT ![j] = [NoJob EXCEPT !.state = "removed"]] /\ claim' = claim /\ issued' = issued
      BY <1>3 DEF Remove
    <2>2. job'[j].state = "removed" /\ \A i \in Jobs : i # j => job'[i] = job[i]
      BY <1>a, <2>1, NoJobType DEF JobRecord
    <2>3. \A i \in Jobs : Steady(i) \/ Newer(i) \/ Gone(i)
      BY <2>2 DEF Steady, Gone
    <2> QED
      BY <1>a, <2>1, <2>3, RhythmFrame
  <1>4. CASE Restart
    <2>1. ASSUME NEW j \in Jobs PROVE Steady(j)
      <3> DEFINE t == IF Due(j) THEN NextRun(job[j].period, now, job[j].next) ELSE job[j].next
      <3>1. job'[j] = [job[j] EXCEPT !.pending = 0, !.next = t]
        BY <1>4 DEF Restart
      <3>2. t = job[j].next \/ (job[j].next # 0 /\ t # 0 /\ Steps(job[j].next, t, job[j].period))
        <4>1. CASE Due(j)
          <5>1. t = NextRun(job[j].period, now, job[j].next)
            BY <4>1
          <5>2. t > now /\ Steps(job[j].next, t, job[j].period)
            BY <1>a, <5>1, NextRunIsFirst
          <5>3. t \in Nat
            BY <1>a, <5>1, NextRunIsLater
          <5> HIDE DEF t
          <5>4. t # 0
            BY <1>a, <5>2, <5>3
          <5> QED
            BY <4>1, <5>2, <5>4 DEF Due
        <4>2. CASE ~Due(j)
          BY <4>2
        <4> QED
          BY <4>1, <4>2
      <3> HIDE DEF t
      <3>3. job'[j].next = t /\ job'[j].state = job[j].state /\ job'[j].revision = job[j].revision
            /\ job'[j].period = job[j].period
        BY <1>a, <3>1 DEF JobRecord
      <3> QED
        BY <3>2, <3>3 DEF Steady
    <2>2. claim' = claim /\ issued' = issued
      BY <1>4 DEF Restart
    <2> QED
      BY <1>a, <2>1, <2>2, RhythmFrame
  <1>5. ASSUME NEW j \in Jobs, NEW n \in Claims, LaunchStep(j, n) PROVE RhythmInv'
    <2>1. CASE LaunchThrows(j, n) \/ SettleThrows(j, n)
      BY <1>b, <2>1 DEF LaunchThrows, SettleThrows
    <2>2. CASE CreateFlow(j, n) \/ Settle(j, n)
      <3>1. PICK p, l : job' = [job EXCEPT ![j] = [job[j] EXCEPT !.pending = p, !.last = l]]
        <4>1. CASE CreateFlow(j, n)
          BY <4>1 DEF CreateFlow
        <4>2. CASE Settle(j, n)
          <5> DEFINE q == IF launch[j][n] = "failing" /\ job[j].pending = n THEN 0 ELSE job[j].pending
          <5>1. job' = [job EXCEPT ![j] = [job[j] EXCEPT !.pending = q]]
            BY <4>2 DEF Settle
          <5> HIDE DEF q
          <5>2. [job[j] EXCEPT !.pending = q] = [job[j] EXCEPT !.pending = q, !.last = job[j].last]
            BY <1>a DEF JobRecord
          <5> QED
            BY <5>1, <5>2
        <4> QED
          BY <2>2, <4>1, <4>2
      <3>2. \A i \in Jobs : /\ job'[i].state = job[i].state /\ job'[i].revision = job[i].revision
                           /\ job'[i].period = job[i].period /\ job'[i].next = job[i].next
        BY <1>a, <3>1 DEF JobRecord
      <3>3. \A i \in Jobs : Steady(i)
        BY <3>2 DEF Steady
      <3>4. claim' = claim /\ issued' = issued
        BY <2>2 DEF CreateFlow, Settle
      <3> QED
        BY <1>a, <3>3, <3>4, RhythmFrame
    <2> QED
      BY <1>5, <2>1, <2>2 DEF LaunchStep
  <1>6. ASSUME NEW j \in Jobs, NEW n \in Claims, RunStep(j, n) PROVE RhythmInv'
    BY <1>b, <1>6 DEF RunStep, EndFlow, ContinueFlow
  <1>7. ASSUME NEW e \in Editors, NEW j \in Jobs, BeginEdit(e, j) PROVE RhythmInv'
    BY <1>b, <1>7 DEF BeginEdit
  <1>8. CASE Close \/ Clock \/ UNCHANGED vars
    BY <1>b, <1>8 DEF Close, Clock, vars
  <1> QED
    BY <1>1, <1>2, <1>3, <1>4, <1>5, <1>6, <1>7, <1>8, RhythmTick, RhythmRunNow DEF Next, UserStep

\* The slots an unchanged job was claimed for are whole periods apart: the schedule does not drift.
THEOREM RhythmKept == Spec => []SlotsKeepRhythm
  <1>1. Init => RhythmInv
    BY InitRhythm
  <1>2. IInv /\ IInv' /\ RhythmInv /\ [Next]_vars => RhythmInv'
    BY RhythmStep DEF IInv
  <1>3. IInv /\ RhythmInv => SlotsKeepRhythm
    <2> SUFFICES ASSUME IInv, RhythmInv, NEW j \in Jobs, NEW n \in Claims, NEW m \in Claims,
                        Present(j), n < m, m <= issued[j],
                        \A i \in {n, m} : ~claim[j][i].manual /\ claim[j][i].revision = job[j].revision
                 PROVE  (claim[j][m].slot - claim[j][n].slot) % job[j].period = 0
      BY DEF SlotsKeepRhythm
    <2>1. job[j].period \in Nat \ {0} /\ issued[j] \in Nat /\ claim[j][n].slot \in Nat /\ claim[j][m].slot \in Nat
      BY RecordTypes, BoundsAssumption DEF IInv
    <2>2. n <= issued[j]
      BY <2>1, ClaimNumbers
    <2>3. OfRevision(j, n) /\ OfRevision(j, m)
      BY <2>2 DEF OfRevision, Slotted
    <2>4. Steps(claim[j][n].slot, claim[j][m].slot, job[j].period)
      BY <2>3 DEF RhythmInv
    <2> QED
      BY <2>1, <2>4, StepsFacts
  <1> QED
    BY <1>1, <1>2, <1>3, Invariance, PTL DEF Spec
=============================================================================
