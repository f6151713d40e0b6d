----------------------- MODULE ConcurrencyController -----------------------
(***************************************************************************)
(* The per-model slots of the LLM gateway: ConcurrencyController of        *)
(* soul-gateway/src/runtime/execution/concurrency-controller.mjs and its   *)
(* two users, the chat chain (concurrency-middleware.mjs) and the          *)
(* embeddings route (public-api/embeddings-route.mjs).                     *)
(*                                                                         *)
(* A request asks for a slot of the model it runs on: it installs the      *)
(* limit of its own model record, which lets waiters in, and then takes a  *)
(* free slot or joins the model's queue, all in one turn of the event      *)
(* loop.  A waiter leaves the queue when its timer fires or when a slot is *)
(* handed to it.  A cascade asks again for its next child once the slot of *)
(* the previous one is back, so a request name stands for one caller that  *)
(* asks any number of times.                                               *)
(*                                                                         *)
(* The chat chain returns its slot in a finally block around everything it *)
(* does (retries, credentials, the backend up to the first content of a    *)
(* streamed answer).  The embeddings route awaits its credentials between  *)
(* the slot and its try block.                                             *)
(*                                                                         *)
(* A definition placed just before the one it resembles, and used nowhere, *)
(* is a faulty variant of it (FreeAtLimit, AskWithoutDrain, ...): the      *)
(* property it breaks is named in PROJECT.json.                            *)
(***************************************************************************)
EXTENDS Integers, Sequences, FiniteSets

CONSTANTS
  Requests,     \* callers of the gateway
  Embeddings,   \* those that come in by the embeddings route
  Models,       \* model keys
  Limits,       \* concurrency limits model records may carry
  MaxLost,      \* bound: credential look-ups that throw, per model
  NoModel       \* the model of a request that runs on none

ASSUME RequestsAssumption == IsFiniteSet(Requests) /\ Embeddings \subseteq Requests
ASSUME LimitsAssumption == Limits \subseteq Nat \ {0}
ASSUME LostAssumption == MaxLost \in Nat
ASSUME ModelAssumption == NoModel \notin Models

VARIABLES
  max,      \* the limit of each model, 0 before the first configure
  active,   \* the controller's count of slots in use
  queue,    \* the waiting requests of each model, first come first
  phase,    \* where each request is
  model,    \* the model it is there for
  lost      \* history: slots whose request threw without returning them

vars == <<max, active, queue, phase, model, lost>>

Phases == {"idle", "queued", "credentials", "executing"}

(* Every variable keeps its type.                                         *)
TypeOK ==
  /\ max \in [Models -> Limits \cup {0}]
  /\ active \in [Models -> Nat]
  /\ queue \in [Models -> Seq(Requests)]
  /\ phase \in [Requests -> Phases]
  /\ model \in [Requests -> Models \cup {NoModel}]
  /\ lost \in [Models -> 0 .. MaxLost]

Holders(m) == {r \in Requests : model[r] = m /\ phase[r] \in {"credentials", "executing"}}

Waiting(m) == {r \in Requests : model[r] = m /\ phase[r] = "queued"}

----------------------------------------------------------------------------
(* The controller's queue.                                                 *)

Entered == [r \in Requests |-> IF r \in Embeddings THEN "credentials" ELSE "executing"]

FreeAtLimit(a, k) == a <= k

(* A slot is free below the limit.                                         *)
Free(a, k) == a < k

(* How many waiters _drain lets in from a queue of n, with a slots in use  *)
(* under limit k.                                                          *)
Drained(n, a, k) == IF ~Free(a, k) THEN 0 ELSE IF k - a < n THEN k - a ELSE n

(* The waiters let in: the head of the queue, those who came first.        *)
FirstOnes(q, n) == {q[i] : i \in 1 .. n}

RestOf(q, n) == SubSeq(q, n + 1, Len(q))

Enter(S, ph) == [r \in Requests |-> IF r \in S THEN Entered[r] ELSE ph[r]]

(* The queue without one request.                                          *)
Without(q, r) ==
  LET at == CHOOSE i \in 1 .. Len(q) : q[i] = r
  IN  SubSeq(q, 1, at - 1) \o SubSeq(q, at + 1, Len(q))

----------------------------------------------------------------------------
Init ==
  /\ max = [m \in Models |-> 0]
  /\ active = [m \in Models |-> 0]
  /\ queue = [m \in Models |-> <<>>]
  /\ phase = [r \in Requests |-> "idle"]
  /\ model = [r \in Requests |-> NoModel]
  /\ lost = [m \in Models |-> 0]

AskWithoutDrain(r, m, k) ==
  /\ phase[r] = "idle"
  /\ max' = [max EXCEPT ![m] = k]
  /\ model' = [model EXCEPT ![r] = m]
  /\ IF Free(active[m], k)
     THEN /\ active' = [active EXCEPT ![m] = active[m] + 1]
          /\ phase' = Enter({r}, phase)
          /\ UNCHANGED queue
     ELSE /\ phase' = [phase EXCEPT ![r] = "queued"]
          /\ queue' = [queue EXCEPT ![m] = Append(queue[m], r)]
          /\ UNCHANGED active
  /\ UNCHANGED lost

(* configure and acquire, called one after the other: the limit of the     *)
(* request's own model record is installed and the queue drained under it; *)
(* then the request takes a free slot or waits.                            *)
Ask(r, m, k) ==
  /\ phase[r] = "idle"
  /\ max' = [max EXCEPT ![m] = k]
  /\ model' = [model EXCEPT ![r] = m]
  /\ LET n == Drained(Len(queue[m]), active[m], k)
         in == Enter(FirstOnes(queue[m], n), phase)
         used == active[m] + n
         rest == RestOf(queue[m], n)
     IN  \/ /\ Free(used, k)
            /\ active' = [active EXCEPT ![m] = used + 1]
            /\ phase' = Enter({r}, in)
            /\ queue' = [queue EXCEPT ![m] = rest]
         \/ /\ ~Free(used, k)
            /\ active' = [active EXCEPT ![m] = used]
            /\ phase' = [in EXCEPT ![r] = "queued"]
            /\ queue' = [queue EXCEPT ![m] = Append(rest, r)]
  /\ UNCHANGED lost

TimeOutInQueue(r) ==
  /\ phase[r] = "queued"
  /\ phase' = [phase EXCEPT ![r] = "idle"]
  /\ model' = [model EXCEPT ![r] = NoModel]
  /\ UNCHANGED <<max, active, queue, lost>>

(* The timer of a waiter fires: it leaves the queue and its caller gets    *)
(* ModelQueueTimeoutError.                                                 *)
TimeOut(r) ==
  /\ phase[r] = "queued"
  /\ phase' = [phase EXCEPT ![r] = "idle"]
  /\ model' = [model EXCEPT ![r] = NoModel]
  /\ queue' = [queue EXCEPT ![model[r]] = Without(queue[model[r]], r)]
  /\ UNCHANGED <<max, active, lost>>

(* The embeddings route has its credentials, or none, and enters its try.  *)
GotCredentials(r) ==
  /\ phase[r] = "credentials"
  /\ phase' = [phase EXCEPT ![r] = "executing"]
  /\ UNCHANGED <<max, active, queue, model, lost>>

(* getCredentials throws (the account pool's query fails): the embeddings  *)
(* request leaves without releasing its slot.                              *)
CredentialsThrow(r) ==
  /\ phase[r] = "credentials"
  /\ lost[model[r]] < MaxLost
  /\ lost' = [lost EXCEPT ![model[r]] = lost[model[r]] + 1]
  /\ phase' = [phase EXCEPT ![r] = "idle"]
  /\ model' = [model EXCEPT ![r] = NoModel]
  /\ UNCHANGED <<max, active, queue>>

FinishWithoutDrain(r) ==
  /\ phase[r] = "executing"
  /\ active' = [active EXCEPT ![model[r]] = active[model[r]] - 1]
  /\ phase' = [phase EXCEPT ![r] = "idle"]
  /\ model' = [model EXCEPT ![r] = NoModel]
  /\ UNCHANGED <<max, queue, lost>>

(* The finally block: the slot is returned and the queue drained, however  *)
(* the execution ended.                                                    *)
Finish(r) ==
  /\ phase[r] = "executing"
  /\ LET m == model[r]
         n == Drained(Len(queue[m]), active[m] - 1, max[m])
     IN  /\ active' = [active EXCEPT ![m] = active[m] - 1 + n]
         /\ queue' = [queue EXCEPT ![m] = RestOf(queue[m], n)]
         /\ phase' = [Enter(FirstOnes(queue[m], n), phase) EXCEPT ![r] = "idle"]
  /\ model' = [model EXCEPT ![r] = NoModel]
  /\ UNCHANGED <<max, lost>>

Next ==
  \E r \in Requests :
    \/ \E m \in Models, k \in Limits : Ask(r, m, k)
    \/ TimeOut(r)
    \/ GotCredentials(r)
    \/ CredentialsThrow(r)
    \/ Finish(r)

Spec == Init /\ [][Next]_vars

(* Executions end: the chain's attempts are bounded in number and in time. *)
(* A look-up ends.  Timers are not fair: a queue timeout may be as long as *)
(* a timer can be.                                                         *)
FairSpec ==
  /\ Spec
  /\ \A r \in Requests : /\ WF_vars(Finish(r))
                        /\ WF_vars(GotCredentials(r) \/ CredentialsThrow(r))

----------------------------------------------------------------------------
(* The properties.                                                         *)

(* The controller's count is the requests that hold a slot, and the slots  *)
(* lost for good: no path but a throwing credential look-up loses one, and *)
(* none returns one twice (concurrency-controller.mjs:65-75).              *)
SlotsAccounted ==
  \A m \in Models : active[m] = Cardinality(Holders(m)) + lost[m]

(* No slot is free while a request waits, whatever limits were installed   *)
(* meanwhile and whoever left the queue (_drain, lines 77-87).             *)
NoIdleSlots ==
  \A m \in Models : queue[m] # <<>> => ~Free(active[m], max[m])

(* The queue holds the waiting requests of its model, each once: one that  *)
(* timed out is not let in later (lines 53-61).                            *)
QueueIsWaiting ==
  \A m \in Models :
    /\ FirstOnes(queue[m], Len(queue[m])) = Waiting(m)
    /\ \A i, j \in 1 .. Len(queue[m]) : queue[m][i] = queue[m][j] => i = j

(* Requests that come to hold a slot find the model's holders within the   *)
(* limit then in force, although the limit may have shrunk below the slots *)
(* in use before ("configurable max concurrent requests", line 7).         *)
GrantsWithinLimit ==
  [][\A m \in Models :
       ~(Holders(m)' \subseteq Holders(m)) => Cardinality(Holders(m)') <= max'[m]]_vars

(* Nobody is let in before a request that waited longer: not a waiter      *)
(* behind it, and not a newcomer ("Excess requests wait in a FIFO queue",  *)
(* line 8).                                                                *)
ServedInOrder ==
  [][\A m \in Models : \A i \in 1 .. Len(queue[m]) :
       queue[m][i] \in Waiting(m)' =>
         \A r \in Holders(m)' \ Holders(m) :
           \E j \in 1 .. i - 1 : queue[m][j] = r]_vars

(* A waiter is answered although no timer fires: the slots before it come  *)
(* back, and each return lets the next one in (acquire, lines 39-63).      *)
(* Only lost slots could keep it waiting.                                  *)
WaitersAnswered ==
  \A r \in Requests, m \in Models :
    r \in Waiting(m) ~> r \notin Waiting(m) \/ lost[m] > 0

(* DS007: "The gateway must release concurrency, credential, and backend   *)
(* generation leases in every outcome."                                    *)
SlotsReturned ==
  \A m \in Models : active[m] = Cardinality(Holders(m))
=============================================================================
