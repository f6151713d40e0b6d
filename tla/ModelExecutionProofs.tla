------------------------ MODULE ModelExecutionProofs ------------------------
(***************************************************************************)
(* Proofs about ModelExecution, for any models, tier and bounds.  The      *)
(* invariant adds to what is proved where control may be: the current      *)
(* attempt holds no backend generation before its lease, and whoever       *)
(* leaves an attempt has either seen its upstream end or aborted it.       *)
(***************************************************************************)
EXTENDS ModelExecution, WellFoundedInduction, TLAPS

Control ==
  /\ pc \notin {"walk", "done"} => model \in Models
  /\ pc \in {"try", "backoff"} => tries < MaxTries
  /\ pc \in Attempting \cup Streaming => n > 0
  /\ pc = "lease" => n \notin open

IInv == TypeOK /\ Control /\ LeasesFollowAttempt /\ OneUpstream

----------------------------------------------------------------------------
(* The choice of a child.                                                  *)

\* A tier that still has candidates picks a model.
LEMMA BestIsModel ==
  ASSUME Candidates # {}
  PROVE  Best \in Models
  <1> DEFINE Places == {i \in 1 .. Len(Children) : Children[i] \in Candidates}
             Less == OpToRel(<, Nat)
  <1>1. Len(Children) \in Nat /\ \A i \in 1 .. Len(Children) : Children[i] \in Models
    BY ChildrenAssumption
  <1>2. Candidates \subseteq ChildSet
    BY DEF Candidates, Available
  <1>3. Places # {} /\ Places \subseteq Nat
    BY <1>1, <1>2 DEF ChildSet
  <1>4. \A i, j \in Nat : i < j => <<i, j>> \in Less
    BY DEF OpToRel
  <1>5. PICK i \in Places : \A j \in Places : <<j, i>> \notin Less
    <2> HIDE DEF Places, Less
    <2> QED BY <1>3, NatLessThanWellFounded, WFMin DEF Less
  <1>6. ASSUME NEW j \in 1 .. i - 1
        PROVE  Children[j] \notin Candidates
    <2>1. i \in 1 .. Len(Children) /\ i \in Nat /\ j \in Nat /\ j < i /\ j \in 1 .. Len(Children)
      BY <1>1
    <2>2. <<j, i>> \in Less
      BY <2>1, <1>4
    <2>3. j \notin Places
      BY <1>5, <2>2
    <2> QED BY <2>1, <2>3
  <1> QED BY <1>1, <1>5, <1>6 DEF Best

----------------------------------------------------------------------------
(* The ways out of an attempt and of a stream.                             *)

\* What the end of a child must have done with the upstream.
Settled ==
  /\ open' \subseteq 1 .. n /\ cut' \subseteq 1 .. n
  /\ open' \subseteq cut'

LEMMA ChildFailsKeeps ==
  ASSUME IInv, pc \notin {"walk", "done"}, NEW e \in Errors, ChildFails(e), Settled
  PROVE  IInv'
  <1>1. model \in Models
    BY DEF IInv, Control
  <1>2. TypeOK'
    BY <1>1, NoneAssumption DEF IInv, TypeOK, ChildFails, Settled, End, Errors, Pcs, Outcomes
  <1>3. pc' \in {"walk", "done"}
    BY DEF ChildFails, End
  <1>4. Control' /\ LeasesFollowAttempt'
    BY <1>3 DEF Control, ChildFails, LeasesFollowAttempt, Attempting, Streaming
  <1>5. OneUpstream'
    BY DEF Settled, OneUpstream
  <1> QED BY <1>2, <1>4, <1>5 DEF IInv

LEMMA AttemptFailsKeeps ==
  ASSUME IInv, pc \in Attempting, NEW e \in Errors, AttemptFails(e), Settled
  PROVE  IInv'
  <1>1. CASE e = "transient" /\ tries < MaxTries /\ signal = None
    <2>1. TypeOK' /\ Control'
      BY <1>1 DEF IInv, TypeOK, Control, AttemptFails, Settled, Attempting, Streaming, Pcs, walk
    <2>2. LeasesFollowAttempt'
      BY <1>1 DEF IInv, LeasesFollowAttempt, AttemptFails, Attempting
    <2>3. OneUpstream'
      BY DEF Settled, OneUpstream
    <2> QED BY <2>1, <2>2, <2>3 DEF IInv
  <1>2. CASE ~(e = "transient" /\ tries < MaxTries /\ signal = None)
    BY <1>2, ChildFailsKeeps DEF AttemptFails, Attempting
  <1> QED BY <1>1, <1>2

\* Leaving a stream: respond has read the upstream to its end or aborted it.
LEMMA LeaveKeeps ==
  ASSUME IInv, NEW how \in Outcomes, Leave(how), Settled
  PROVE  IInv'
  <1>1. TypeOK'
    BY DEF IInv, TypeOK, Leave, End, Settled, held, walk, Pcs
  <1>2. Control' /\ LeasesFollowAttempt'
    BY DEF IInv, Control, LeasesFollowAttempt, Leave, End, held, Attempting, Streaming
  <1>3. OneUpstream'
    BY DEF Settled, OneUpstream
  <1> QED BY <1>1, <1>2, <1>3 DEF IInv

\* An upstream that has ended, or been aborted, settles its attempt.
LEMMA SettledByEnd ==
  ASSUME IInv, open' = open \ {n}, cut' = cut
  PROVE  Settled
  BY DEF IInv, TypeOK, OneUpstream, Awaited, Settled

LEMMA SettledByAbort ==
  ASSUME IInv, pc \in Attempting \cup Streaming, open' \subseteq open, cut' = cut \cup {n}
  PROVE  Settled
  BY DEF IInv, TypeOK, Control, OneUpstream, Awaited, Settled

LEMMA SettledBetween ==
  ASSUME IInv, pc \notin Attempting \cup Streaming, open' = open, cut' = cut
  PROVE  Settled
  BY DEF IInv, TypeOK, OneUpstream, Awaited, Settled

----------------------------------------------------------------------------
(* Each action.                                                            *)

LEMMA InitIInv == Init => IInv
  <1> SUFFICES ASSUME Init PROVE IInv
    OBVIOUS
  <1>1. model \in Models \cup {None} /\ pc \in {"walk", "queue"}
    BY DEF Init
  <1>2. pc \in Pcs /\ outcome \in Outcomes
    BY <1>1 DEF Init, Pcs, Outcomes
  <1>3. TypeOK
    <2>1. walked \in 0 .. MaxAttempts /\ tries \in 0 .. MaxTries /\ sent \in 0 .. MaxEvents
      BY BoundsAssumption DEF Init
    <2>2. n \in Nat /\ open \subseteq 1 .. n /\ cut \subseteq 1 .. n
      BY DEF Init
    <2>3. /\ request \in [tier : BOOLEAN, stream : BOOLEAN, budget : BOOLEAN]
          /\ failed \subseteq Models /\ barred \subseteq {Provider[m] : m \in Models}
          /\ last \in Errors \cup {None} /\ slot \in Models \cup {None} /\ lease \in BOOLEAN
          /\ signal \in {None, "client", "budget"} /\ gone \in BOOLEAN
      BY DEF Init
    <2> QED BY <1>1, <1>2, <2>1, <2>2, <2>3 DEF TypeOK
  <1>4. Control /\ LeasesFollowAttempt /\ OneUpstream
    BY DEF Init, Control, LeasesFollowAttempt, OneUpstream, Attempting, Streaming
  <1> QED BY <1>3, <1>4 DEF IInv

LEMMA TryChildKeeps == IInv /\ TryChild => IInv'
  <1> SUFFICES ASSUME IInv, TryChild PROVE IInv'
    OBVIOUS
  <1>1. Best \in Models
    BY BestIsModel DEF TryChild
  <1>2. slot = None /\ ~lease
    BY DEF IInv, LeasesFollowAttempt, TryChild, Attempting
  <1>3. TypeOK'
    BY <1>1, BoundsAssumption DEF IInv, TypeOK, TryChild, held, Pcs
  <1>4. Control' /\ LeasesFollowAttempt'
    BY <1>1, <1>2 DEF TryChild, Control, LeasesFollowAttempt, held, Attempting, Streaming
  <1>5. OneUpstream'
    BY DEF IInv, TryChild, OneUpstream, Awaited, Attempting, Streaming
  <1> QED BY <1>3, <1>4, <1>5 DEF IInv

LEMMA WalkEndsKeeps == IInv /\ WalkEnds => IInv'
  <1> SUFFICES ASSUME IInv, WalkEnds PROVE IInv'
    OBVIOUS
  <1>1. pc' = "done" /\ outcome' \in Outcomes
    BY DEF IInv, TypeOK, WalkEnds, End, Outcomes, Errors
  <1>2. TypeOK'
    BY <1>1 DEF IInv, TypeOK, WalkEnds, held, walk, Pcs
  <1>3. Control' /\ LeasesFollowAttempt'
    BY <1>1 DEF IInv, WalkEnds, Control, LeasesFollowAttempt, held, Attempting, Streaming
  <1>4. OneUpstream'
    BY <1>1 DEF IInv, WalkEnds, OneUpstream, Awaited, Attempting, Streaming
  <1> QED BY <1>2, <1>3, <1>4 DEF IInv

LEMMA GrantedKeeps == IInv /\ Granted => IInv'
  <1> SUFFICES ASSUME IInv, Granted PROVE IInv'
    OBVIOUS
  <1>1. TypeOK' /\ Control'
    BY BoundsAssumption DEF IInv, TypeOK, Granted, Control, walk, Pcs, Attempting, Streaming
  <1>2. LeasesFollowAttempt' /\ OneUpstream'
    BY DEF IInv, Granted, LeasesFollowAttempt, OneUpstream, Awaited, Attempting, Streaming
  <1> QED BY <1>1, <1>2 DEF IInv

LEMMA QueueTimesOutKeeps == IInv /\ QueueTimesOut => IInv'
  BY ChildFailsKeeps, SettledBetween DEF QueueTimesOut, Errors, Attempting, Streaming

LEMMA TryKeeps == IInv /\ Try => IInv'
  <1> SUFFICES ASSUME IInv, Try PROVE IInv'
    OBVIOUS
  <1>1. CASE signal # None
    BY <1>1, ChildFailsKeeps, SettledBetween DEF Try, Errors, Attempting, Streaming
  <1>2. CASE signal = None
    <2>1. /\ pc' = "lease" /\ tries' = tries + 1 /\ n' = n + 1
          /\ UNCHANGED <<request, model, walk, held, open, cut, signal, gone, sent, outcome>>
          /\ n \in Nat /\ tries + 1 \in 0 .. MaxTries
          /\ 1 .. n \subseteq 1 .. (n + 1) /\ n + 1 \notin 1 .. n
      BY <1>2, BoundsAssumption DEF IInv, TypeOK, Try, Control
    <2>2. TypeOK'
      BY <2>1 DEF IInv, TypeOK, held, walk, Pcs, Attempting
    <2>3. Control'
      BY <2>1 DEF IInv, TypeOK, Try, Control, Attempting, Streaming
    <2>4. LeasesFollowAttempt' /\ OneUpstream'
      BY <1>2 DEF IInv, Try, LeasesFollowAttempt, OneUpstream, Awaited, held, Attempting, Streaming
    <2> QED BY <2>2, <2>3, <2>4 DEF IInv
  <1> QED BY <1>1, <1>2

LEMMA BackoffEndsKeeps == IInv /\ BackoffEnds => IInv'
  <1> SUFFICES ASSUME IInv, BackoffEnds PROVE IInv'
    OBVIOUS
  <1>1. CASE signal # None
    BY <1>1, ChildFailsKeeps, SettledBetween DEF BackoffEnds, Errors, Attempting, Streaming
  <1>2. CASE signal = None
    <2>1. TypeOK' /\ Control'
      BY <1>2 DEF IInv, TypeOK, BackoffEnds, Control, held, walk, Pcs, Attempting, Streaming
    <2>2. LeasesFollowAttempt' /\ OneUpstream'
      BY <1>2 DEF IInv, BackoffEnds, LeasesFollowAttempt, OneUpstream, Awaited, held, Attempting, Streaming
    <2> QED BY <2>1, <2>2 DEF IInv
  <1> QED BY <1>1, <1>2

LEMMA LeaseAnswersKeeps == IInv /\ LeaseAnswers => IInv'
  <1> SUFFICES ASSUME IInv, LeaseAnswers PROVE IInv'
    OBVIOUS
  <1>1. CASE \E e \in {"account", "rejected"} : AttemptFails(e) /\ UNCHANGED <<open, cut>>
    <2>1. open' = open \ {n} /\ cut' = cut
      BY <1>1 DEF IInv, Control, LeaseAnswers
    <2>2. Settled
      BY <2>1, SettledByEnd
    <2> QED BY <1>1, <2>2, AttemptFailsKeeps DEF LeaseAnswers, Errors, Attempting
  <1>2. CASE pc' = "dispatch" /\ lease' = TRUE /\ open' = open \cup {n}
             /\ UNCHANGED <<request, model, walk, tries, n, slot, cut, signal, gone, sent, outcome>>
    <2>1. n \in 1 .. n
      BY DEF IInv, TypeOK, Control, LeaseAnswers, Attempting
    <2>2. TypeOK'
      BY <1>2, <2>1 DEF IInv, TypeOK, walk, Pcs, Attempting
    <2>3. Control'
      BY <1>2 DEF IInv, LeaseAnswers, Control, Attempting, Streaming
    <2>4. LeasesFollowAttempt' /\ OneUpstream'
      BY <1>2 DEF IInv, LeaseAnswers, LeasesFollowAttempt, OneUpstream, Awaited, Attempting, Streaming
    <2> QED BY <2>2, <2>3, <2>4 DEF IInv
  <1> QED BY <1>1, <1>2 DEF LeaseAnswers

LEMMA DispatchedKeeps == IInv /\ Dispatched => IInv'
  <1> SUFFICES ASSUME IInv, Dispatched PROVE IInv'
    OBVIOUS
  <1>1. TypeOK' /\ Control'
    BY DEF IInv, TypeOK, Dispatched, Control, held, walk, Pcs, Attempting, Streaming
  <1>2. LeasesFollowAttempt' /\ OneUpstream'
    BY DEF IInv, Dispatched, LeasesFollowAttempt, OneUpstream, Awaited, held, Attempting, Streaming
  <1> QED BY <1>1, <1>2 DEF IInv

LEMMA UpstreamFailsKeeps ==
  ASSUME IInv, NEW e \in Errors, UpstreamFails(e)
  PROVE  IInv'
  <1>1. Settled
    <2>1. CASE pc = "prime"
      BY <2>1, SettledByAbort DEF UpstreamFails, Attempting
    <2>2. CASE pc # "prime"
      BY <2>2, SettledByEnd DEF UpstreamFails
    <2> QED BY <2>1, <2>2
  <1> QED BY <1>1, AttemptFailsKeeps DEF UpstreamFails, Attempting

LEMMA PrimingEndsKeeps == IInv /\ (PrimeTimesOut \/ EmptyAnswer) => IInv'
  BY AttemptFailsKeeps, SettledByAbort DEF PrimeTimesOut, EmptyAnswer, Errors, Attempting

LEMMA CommitKeeps == IInv /\ Commit => IInv'
  <1> SUFFICES ASSUME IInv, Commit PROVE IInv'
    OBVIOUS
  <1>1. TypeOK' /\ Control'
    BY DEF IInv, TypeOK, Commit, Control, held, walk, Pcs, Attempting, Streaming
  <1>2. LeasesFollowAttempt' /\ OneUpstream'
    BY DEF IInv, Commit, LeasesFollowAttempt, OneUpstream, Awaited, held, Attempting, Streaming
  <1> QED BY <1>1, <1>2 DEF IInv

LEMMA CollectedKeeps == IInv /\ Collected => IInv'
  <1> SUFFICES ASSUME IInv, Collected PROVE IInv'
    OBVIOUS
  <1>1. Settled
    BY SettledByEnd DEF Collected
  <1>2. TypeOK' /\ Control'
    BY <1>1 DEF IInv, TypeOK, Collected, Control, Settled, End, walk, Pcs, Outcomes, Attempting, Streaming
  <1>3. LeasesFollowAttempt' /\ OneUpstream'
    BY <1>1 DEF Collected, End, LeasesFollowAttempt, OneUpstream, Settled
  <1> QED BY <1>2, <1>3 DEF IInv

LEMMA StreamLeftKeeps == IInv /\ (LaterStepThrows \/ Departs \/ StreamDone \/ SendFails) => IInv'
  <1> SUFFICES ASSUME IInv, LaterStepThrows \/ Departs \/ StreamDone \/ SendFails PROVE IInv'
    OBVIOUS
  <1>1. CASE LaterStepThrows
    BY <1>1, LeaveKeeps, SettledByAbort DEF LaterStepThrows, Leave, Outcomes, Errors
  <1>2. CASE Departs
    BY <1>2, LeaveKeeps, SettledByAbort DEF Departs, Leave, Outcomes
  <1>3. CASE StreamDone
    BY <1>3, LeaveKeeps, SettledByEnd DEF StreamDone, Outcomes
  <1>4. CASE SendFails
    BY <1>4, LeaveKeeps, SettledByEnd DEF SendFails, Outcomes
  <1> QED BY <1>1, <1>2, <1>3, <1>4

LEMMA StreamGoesOnKeeps == IInv /\ (Begin \/ Event \/ Drains) => IInv'
  <1> SUFFICES ASSUME IInv, Begin \/ Event \/ Drains PROVE IInv'
    OBVIOUS
  <1>1. sent' \in 0 .. MaxEvents
    BY BoundsAssumption DEF IInv, TypeOK, Begin, Event, Drains
  <1>2. pc \in Streaming /\ pc' \in {"send", "drain"}
        /\ UNCHANGED <<request, model, walk, tries, n, held, open, cut, signal, gone, outcome>>
    BY DEF Begin, Event, Drains, Streaming
  <1>5. TypeOK'
    BY <1>1, <1>2 DEF IInv, TypeOK, held, walk, Pcs, Streaming
  <1>3. Control' /\ LeasesFollowAttempt'
    BY <1>2 DEF IInv, Control, LeasesFollowAttempt, held, Attempting, Streaming
  <1>4. OneUpstream'
    BY <1>2 DEF IInv, OneUpstream, Awaited, Attempting, Streaming
  <1> QED BY <1>3, <1>4, <1>5 DEF IInv

\* Aborting a signal disturbs nothing else.
LEMMA CutKeeps ==
  ASSUME IInv, cut \subseteq cut', cut' \subseteq 1 .. n, open' \subseteq open,
         signal' \in {None, "client", "budget"}, gone' \in BOOLEAN,
         open' \ cut' \subseteq Awaited,
         UNCHANGED <<request, pc, model, walk, tries, n, held, sent, outcome>>
  PROVE  IInv'
  <1>1. TypeOK'
    BY DEF IInv, TypeOK, held, walk
  <1>2. Control' /\ LeasesFollowAttempt'
    BY DEF IInv, Control, LeasesFollowAttempt, held
  <1>3. OneUpstream'
    BY DEF OneUpstream, Awaited
  <1> QED BY <1>1, <1>2, <1>3 DEF IInv

LEMMA AbortsKeep == IInv /\ (Disconnect \/ BudgetFires) => IInv'
  <1> SUFFICES ASSUME IInv, Disconnect \/ BudgetFires PROVE IInv'
    OBVIOUS
  <1>1. open' = open /\ cut' = 1 .. n /\ open' \ cut' = {} /\ cut \subseteq cut'
    BY DEF IInv, TypeOK, Disconnect, BudgetFires, Abort
  <1>2. signal' \in {None, "client", "budget"} /\ gone' \in BOOLEAN
    BY DEF IInv, TypeOK, Disconnect, BudgetFires, Abort
  <1> QED BY <1>1, <1>2, CutKeeps DEF Disconnect, BudgetFires, Abort

LEMMA DeadlinesKeep == IInv /\ (DeadlineFires \/ StreamTimesOut) => IInv'
  <1> SUFFICES ASSUME IInv, DeadlineFires \/ StreamTimesOut PROVE IInv'
    OBVIOUS
  <1>1. n \in 1 .. n
    BY DEF IInv, TypeOK, Control, DeadlineFires, StreamTimesOut, Streaming
  <1>2. cut \subseteq cut' /\ cut' \subseteq 1 .. n /\ open' \ cut' \subseteq Awaited
    BY <1>1 DEF IInv, TypeOK, OneUpstream, DeadlineFires, StreamTimesOut
  <1> QED BY <1>2, CutKeeps DEF IInv, TypeOK, DeadlineFires, StreamTimesOut

LEMMA UpstreamEndsKeeps ==
  ASSUME IInv, NEW u \in open, UpstreamEnds(u)
  PROVE  IInv'
  <1>1. open' \subseteq open /\ cut' = cut /\ open' \ cut' \subseteq Awaited
    BY DEF IInv, OneUpstream, UpstreamEnds
  <1> QED BY <1>1, CutKeeps DEF IInv, TypeOK, UpstreamEnds

LEMMA StutterKeeps == IInv /\ UNCHANGED vars => IInv'
  BY DEF vars, walk, held, IInv, TypeOK, Control, LeasesFollowAttempt, OneUpstream, Awaited

----------------------------------------------------------------------------
(* The theorems.                                                           *)

\* Every reachable state satisfies the invariant.
THEOREM Invariance == Spec => []IInv
  <1>1. IInv /\ [Next]_vars => IInv'
    <2> SUFFICES ASSUME IInv, [Next]_vars PROVE IInv'
      OBVIOUS
    <2>1. CASE Walk
      BY <2>1, TryChildKeeps, WalkEndsKeeps, GrantedKeeps, QueueTimesOutKeeps, TryKeeps,
         BackoffEndsKeeps DEF Walk
    <2>2. CASE Attempt
      BY <2>2, LeaseAnswersKeeps, DispatchedKeeps, UpstreamFailsKeeps, PrimingEndsKeeps, CommitKeeps,
         CollectedKeeps, DeadlinesKeep DEF Attempt
    <2>3. CASE Stream
      BY <2>3, StreamLeftKeeps, StreamGoesOnKeeps, DeadlinesKeep DEF Stream
    <2>4. CASE Disconnect \/ BudgetFires
      BY <2>4, AbortsKeep
    <2>5. CASE \E u \in open : UpstreamEnds(u)
      BY <2>5, UpstreamEndsKeeps
    <2>6. CASE UNCHANGED vars
      BY <2>6, StutterKeeps
    <2> QED BY <2>1, <2>2, <2>3, <2>4, <2>5, <2>6 DEF Next
  <1> QED BY <1>1, InitIInv, PTL DEF Spec

\* Every variable keeps its type.
THEOREM TypeCorrect == Spec => []TypeOK
  BY Invariance, PTL DEF IInv

\* Slots and credentials are held by the child and the attempt that asked
\* for them, and by nothing else (concurrency- and credential-lease-middleware).
THEOREM LeasesAreFollowed == Spec => []LeasesFollowAttempt
  BY Invariance, PTL DEF IInv

\* At most one upstream of a request runs unaborted, the one it awaits.
THEOREM AtMostOneUpstream == Spec => []OneUpstream
  BY Invariance, PTL DEF IInv

\* Once an answer is committed, no other model or attempt adds to it.
THEOREM CommitIsFinal == Spec => OneModelAnswers
  <1>1. [Next]_vars => [(pc \in Streaming => model' = model /\ n' = n /\ pc' \in Streaming \cup {"done"})]_vars
    <2> SUFFICES ASSUME Next, pc \in Streaming
                 PROVE  model' = model /\ n' = n /\ pc' \in Streaming \cup {"done"}
      OBVIOUS
    <2>1. ~Walk /\ ~Attempt
      BY DEF Streaming, Walk, TryChild, WalkEnds, Granted, QueueTimesOut, Try, BackoffEnds, Attempt,
             LeaseAnswers, Dispatched, UpstreamFails, PrimeTimesOut, EmptyAnswer, Commit, Collected,
             DeadlineFires, Attempting
    <2>2. CASE Stream
      BY <2>2 DEF Stream, LaterStepThrows, Begin, Event, Drains, Departs, StreamDone, SendFails,
                  StreamTimesOut, Leave, End, Streaming
    <2>3. CASE Disconnect \/ BudgetFires \/ \E u \in open : UpstreamEnds(u)
      BY <2>3 DEF Disconnect, BudgetFires, Abort, UpstreamEnds
    <2> QED BY <2>1, <2>2, <2>3 DEF Next
  <1> QED BY <1>1, PTL DEF Spec, OneModelAnswers

\* A request that was aborted, by its client or its budget, starts no
\* further attempt, wherever it was when that happened.
THEOREM AbortIsFinal == Spec => AbortStops
  <1>1. [Next]_vars => [signal # None => n' = n]_vars
    <2> SUFFICES ASSUME Next, signal # None
                 PROVE  n' = n
      OBVIOUS
    <2>1. CASE Walk
      BY <2>1 DEF Walk, TryChild, WalkEnds, Granted, QueueTimesOut, Try, BackoffEnds, ChildFails
    <2>2. CASE Attempt
      BY <2>2 DEF Attempt, LeaseAnswers, Dispatched, UpstreamFails, PrimeTimesOut, EmptyAnswer,
                  Commit, Collected, DeadlineFires, AttemptFails, ChildFails
    <2>3. CASE Stream
      BY <2>3 DEF Stream, LaterStepThrows, Begin, Event, Drains, Departs, StreamDone, SendFails,
                  StreamTimesOut, Leave
    <2>4. CASE Disconnect \/ BudgetFires \/ \E u \in open : UpstreamEnds(u)
      BY <2>4 DEF Disconnect, BudgetFires, Abort, UpstreamEnds
    <2> QED BY <2>1, <2>2, <2>3, <2>4 DEF Next
  <1> QED BY <1>1, PTL DEF Spec, AbortStops

=============================================================================
