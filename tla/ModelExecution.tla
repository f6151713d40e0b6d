--------------------------- MODULE ModelExecution ---------------------------
(***************************************************************************)
(* One model request of the LLM gateway, from the choice of a model to the *)
(* last byte for the client: the middleware chain of                       *)
(* soul-gateway/src/runtime/execution and the respond step of              *)
(* runtime/route/respond.mjs.                                              *)
(*                                                                         *)
(* A tier walks its children (cascade-middleware.mjs); each child takes a  *)
(* concurrency slot and makes up to MaxTries attempts (retry-middleware);  *)
(* each attempt leases credentials, takes a lease on the backend           *)
(* generation, and pulls the upstream until its first content              *)
(* (prime-stream-middleware).  A buffered request collects the rest inside *)
(* the attempt; a streamed one is committed there, and respond pulls the   *)
(* rest while it writes to the client.  Deadlines, the tier's budget and   *)
(* the client's disconnect abort the attempt's signal, to which the        *)
(* upstream reacts in its own time.                                        *)
(*                                                                         *)
(* An upstream is named by the number of its attempt.  Timers carry no     *)
(* times: an armed one may fire at any step.  Events that are neither      *)
(* content nor the end of a stream change nothing here but the timers.     *)
(* A definition placed just before the one it resembles is a faulty        *)
(* variant of it, named in PROJECT.json with the property it breaks.       *)
(***************************************************************************)
EXTENDS Integers, Sequences, FiniteSets

CONSTANTS
  Models,       \* direct models
  Children,     \* the children of the tier, in order of priority
  Provider,     \* the provider of each model
  Unfit,        \* models that lack what the request needs (images, tools)
  MaxAttempts,  \* children a walk may try
  MaxTries,     \* attempts on one child
  MaxEvents,    \* bound: content events of a streamed answer
  None

ASSUME ChildrenAssumption == Children \in Seq(Models)
ASSUME BoundsAssumption == MaxAttempts \in Nat /\ MaxTries \in Nat \ {0} /\ MaxEvents \in Nat
ASSUME NoneAssumption == None \notin Models

VARIABLES
  request,   \* what the client asked for
  pc,        \* what the request is awaiting
  model,     \* the model it is trying
  walked,    \* children tried
  failed,    \* children that failed
  barred,    \* providers whose account failed
  last,      \* the error of the last child
  tries,     \* attempts on the current child
  n,         \* attempts of the request so far
  slot,      \* the model whose concurrency slot is held
  lease,     \* a credential lease is held
  open,      \* upstreams that hold a lease on the backend generation
  cut,       \* attempts whose signal is aborted
  signal,    \* what aborted the request's own signal first
  gone,      \* the client has disconnected
  sent,      \* content events written to the client
  outcome    \* how the request ended

walk == <<walked, failed, barred, last>>
held == <<slot, lease>>
vars == <<request, pc, model, walk, tries, n, held, open, cut, signal, gone, sent, outcome>>

(* Errors by what they allow: transient ones are retried, account ones bar *)
(* the provider, rejected ones (and unclassified ones) end the walk.       *)
Errors == {"transient", "refused", "account", "rejected"}

Attempting == {"lease", "dispatch", "prime", "collect"}
Streaming == {"respond", "send", "drain"}
Pcs == {"walk", "queue", "try", "backoff", "done"} \cup Attempting \cup Streaming
Outcomes == Errors \cup {"exhausted", "budget", "client", "answered", "broken", "aborted", None}

(* Every variable keeps its type.                                          *)
TypeOK ==
  /\ request \in [tier : BOOLEAN, stream : BOOLEAN, budget : BOOLEAN]
  /\ pc \in Pcs
  /\ model \in Models \cup {None}
  /\ walked \in 0 .. MaxAttempts /\ tries \in 0 .. MaxTries
  /\ failed \subseteq Models /\ barred \subseteq {Provider[m] : m \in Models}
  /\ last \in Errors \cup {None}
  /\ n \in Nat /\ open \subseteq 1 .. n /\ cut \subseteq 1 .. n
  /\ slot \in Models \cup {None} /\ lease \in BOOLEAN
  /\ signal \in {None, "client", "budget"} /\ gone \in BOOLEAN
  /\ sent \in 0 .. MaxEvents
  /\ outcome \in Outcomes

----------------------------------------------------------------------------
(* Choosing a child.                                                       *)

ChildSet == {Children[i] : i \in 1 .. Len(Children)}

Available == {m \in ChildSet : m \notin failed /\ Provider[m] \notin barred}

(* Unfit children count only when nothing else is left.                    *)
Candidates == IF Available \subseteq Unfit THEN Available ELSE Available \ Unfit

Best == Children[CHOOSE i \in 1 .. Len(Children) :
                   /\ Children[i] \in Candidates
                   /\ \A j \in 1 .. i - 1 : Children[j] \notin Candidates]

----------------------------------------------------------------------------
Init ==
  /\ request \in [tier : BOOLEAN, stream : BOOLEAN, budget : BOOLEAN]
  /\ request.budget => request.tier
  /\ IF request.tier THEN pc = "walk" /\ model = None ELSE pc = "queue" /\ model \in Models
  /\ walked = 0 /\ failed = {} /\ barred = {} /\ last = None
  /\ tries = 0 /\ n = 0 /\ slot = None /\ lease = FALSE
  /\ open = {} /\ cut = {} /\ signal = None /\ gone = FALSE
  /\ sent = 0 /\ outcome = None

End(how) == pc' = "done" /\ outcome' = how

(* A child is over: its slot goes back, and a tier walks on unless the     *)
(* error forbids it.                                                       *)
ChildFails(e) ==
  /\ slot' = None /\ lease' = FALSE
  /\ last' = e
  /\ failed' = failed \cup {model}
  /\ barred' = IF e = "account" THEN barred \cup {Provider[model]} ELSE barred
  /\ IF request.tier /\ e # "rejected" THEN pc' = "walk" /\ UNCHANGED outcome ELSE End(e)
  /\ UNCHANGED <<request, model, walked, tries, n, signal, gone, sent>>

(* An attempt is over: its credentials go back, and a transient error is   *)
(* retried after a pause while the request's signal is quiet.              *)
AttemptFails(e) ==
  IF e = "transient" /\ tries < MaxTries /\ signal = None
  THEN /\ pc' = "backoff" /\ lease' = FALSE
       /\ UNCHANGED <<request, model, walk, tries, n, slot, signal, gone, sent, outcome>>
  ELSE ChildFails(e)

----------------------------------------------------------------------------
(* The walk and the retry loop.                                            *)

TryChild ==
  /\ pc = "walk" /\ walked < MaxAttempts /\ signal = None /\ Candidates # {}
  /\ model' = Best /\ walked' = walked + 1 /\ pc' = "queue"
  /\ UNCHANGED <<request, failed, barred, last, tries, n, held, open, cut, signal, gone, sent, outcome>>

WalkEnds ==
  /\ pc = "walk"
  /\ \/ walked = MaxAttempts /\ End("exhausted")
     \/ walked < MaxAttempts /\ signal # None /\ End(signal)
     \/ /\ walked < MaxAttempts /\ signal = None /\ Candidates = {}
        /\ End(IF last = "account" THEN "account" ELSE "exhausted")
  /\ UNCHANGED <<request, model, walk, tries, n, held, open, cut, signal, gone, sent>>

(* The slot is granted, or the queue timer fires.                          *)
Granted ==
  /\ pc = "queue" /\ pc' = "try" /\ slot' = model /\ tries' = 0
  /\ UNCHANGED <<request, model, walk, n, lease, open, cut, signal, gone, sent, outcome>>

QueueTimesOut == pc = "queue" /\ ChildFails("transient") /\ UNCHANGED <<open, cut>>

TryUnlessBackedOff ==
  /\ pc = "try" /\ tries' = tries + 1 /\ n' = n + 1 /\ pc' = "lease"
  /\ UNCHANGED <<request, model, walk, held, open, cut, signal, gone, sent, outcome>>

(* The loop starts an attempt, with its own deadline, unless the request   *)
(* has been aborted.                                                       *)
Try ==
  /\ pc = "try"
  /\ IF signal = None
     THEN /\ tries' = tries + 1 /\ n' = n + 1 /\ pc' = "lease"
          /\ UNCHANGED <<request, model, walk, held, open, cut, signal, gone, sent, outcome>>
     ELSE ChildFails(IF signal = "client" THEN "rejected" ELSE "transient") /\ UNCHANGED <<open, cut>>

BackoffEnds ==
  /\ pc = "backoff"
  /\ IF signal = None
     THEN pc' = "try" /\ UNCHANGED <<request, model, walk, tries, n, held, signal, gone, sent, outcome>>
     ELSE ChildFails("transient")
  /\ UNCHANGED <<open, cut>>

----------------------------------------------------------------------------
(* One attempt.                                                            *)

(* Credentials are leased and a backend generation with them; or no        *)
(* account is usable; or the look-up throws.                               *)
LeaseAnswers ==
  /\ pc = "lease"
  /\ \/ /\ lease' = TRUE /\ open' = open \cup {n} /\ pc' = "dispatch"
        /\ UNCHANGED <<request, model, walk, tries, n, slot, cut, signal, gone, sent, outcome>>
     \/ \E e \in {"account", "rejected"} : AttemptFails(e) /\ UNCHANGED <<open, cut>>

Dispatched ==
  /\ pc = "dispatch" /\ pc' = "prime"
  /\ UNCHANGED <<request, model, walk, tries, n, held, open, cut, signal, gone, sent, outcome>>

(* The upstream throws, before its stream exists or from it; the failure   *)
(* of a stream that is being primed aborts the attempt as well.            *)
UpstreamFails(e) ==
  /\ pc \in {"dispatch", "prime", "collect"}
  /\ open' = open \ {n}
  /\ cut' = IF pc = "prime" THEN cut \cup {n} ELSE cut
  /\ AttemptFails(e)

PrimeWithoutAbort ==
  /\ pc = "prime" /\ AttemptFails("transient") /\ UNCHANGED <<open, cut>>

(* No event within the silence window, or no content within its cap: the   *)
(* attempt fails at once, and the aborted upstream is left to end.         *)
PrimeTimesOut ==
  /\ pc = "prime" /\ cut' = cut \cup {n} /\ AttemptFails("transient") /\ UNCHANGED open

(* The stream ended without content: another child may be tried.           *)
EmptyAnswer ==
  /\ pc = "prime" /\ cut' = cut \cup {n} /\ AttemptFails("refused") /\ UNCHANGED open

(* The first content (or a reply cut off by its length) commits a streamed *)
(* request: the chain returns, and slot and credentials go back.           *)
Commit ==
  /\ pc = "prime"
  /\ IF request.stream THEN pc' = "respond" /\ slot' = None /\ lease' = FALSE
                       ELSE pc' = "collect" /\ UNCHANGED held
  /\ UNCHANGED <<request, model, walk, tries, n, open, cut, signal, gone, sent, outcome>>

(* A buffered answer is complete.                                          *)
Collected ==
  /\ pc = "collect" /\ open' = open \ {n} /\ slot' = None /\ lease' = FALSE /\ End("answered")
  /\ UNCHANGED <<request, model, walk, tries, n, cut, signal, gone, sent>>

----------------------------------------------------------------------------
(* The committed stream.  When respond leaves, for whatever reason, it     *)
(* disposes the streams of the request, read or not.                       *)

Leave(how) ==
  /\ pc \in Streaming /\ End(how)
  /\ UNCHANGED <<request, model, walk, tries, n, held, signal, gone, sent>>

LaterStepKeepsStream == Leave("rejected") /\ pc = "respond" /\ UNCHANGED <<open, cut>>

(* A step between priming and the response throws.                         *)
LaterStepThrows ==
  Leave("rejected") /\ pc = "respond" /\ cut' = cut \cup {n} /\ UNCHANGED open

Begin ==
  /\ pc = "respond" /\ ~gone /\ pc' = "send"
  /\ UNCHANGED <<request, model, walk, tries, n, held, open, cut, signal, gone, sent, outcome>>

(* A content event is written; the socket may be full.                     *)
Event ==
  /\ pc = "send" /\ ~gone /\ sent < MaxEvents
  /\ sent' = sent + 1 /\ pc' \in {"send", "drain"}
  /\ UNCHANGED <<request, model, walk, tries, n, held, open, cut, signal, gone, outcome>>

Drains ==
  /\ pc = "drain" /\ ~gone /\ pc' = "send"
  /\ UNCHANGED <<request, model, walk, tries, n, held, open, cut, signal, gone, sent, outcome>>

WaitsForDrainOnly ==
  pc \in {"respond", "send"} /\ gone /\ Leave("aborted") /\ cut' = cut \cup {n} /\ UNCHANGED open

(* The client has left: nothing more is written, and a wait for the socket *)
(* to drain ends.                                                          *)
Departs ==
  gone /\ Leave("aborted") /\ cut' = cut \cup {n} /\ UNCHANGED open

StreamDone ==
  /\ pc = "send" /\ Leave(IF gone THEN "aborted" ELSE "answered")
  /\ open' = open \ {n} /\ UNCHANGED cut

SendFallsBack ==
  /\ pc = "send" /\ open' = open \ {n} /\ UNCHANGED cut
  /\ IF sent = 0 THEN AttemptFails("transient") ELSE Leave("broken")

(* The upstream fails after the commit: the client gets an error event.    *)
SendFails ==
  /\ pc = "send" /\ Leave(IF gone THEN "aborted" ELSE "broken")
  /\ open' = open \ {n} /\ UNCHANGED cut

(* No event, or no content, for too long, whether the upstream is silent   *)
(* or the client is not reading.                                           *)
StreamTimesOut ==
  /\ pc \in {"send", "drain"} /\ n \notin cut /\ cut' = cut \cup {n}
  /\ UNCHANGED <<request, pc, model, walk, tries, n, held, open, signal, gone, sent, outcome>>

----------------------------------------------------------------------------
(* Aborts, and the upstreams nobody waits for.                             *)

(* Every attempt's signal is linked to the request's.                      *)
Abort(why) ==
  /\ signal' = IF signal = None THEN why ELSE signal
  /\ cut' = 1 .. n
  /\ UNCHANGED <<request, pc, model, walk, tries, n, held, open, sent, outcome>>

Disconnect == pc # "done" /\ ~gone /\ gone' = TRUE /\ Abort("client")

(* The tier's budget runs until a child commits.                           *)
BudgetFires ==
  /\ request.budget /\ pc \notin Streaming \cup {"done"} /\ signal # "budget"
  /\ Abort("budget") /\ UNCHANGED gone

DeadlineFires ==
  /\ pc \in Attempting /\ n \notin cut /\ cut' = cut \cup {n}
  /\ UNCHANGED <<request, pc, model, walk, tries, n, held, open, signal, gone, sent, outcome>>

Awaited == {u \in {n} : pc \in Streaming \cup Attempting}

(* An aborted upstream that nobody awaits ends, and its generation is      *)
(* released.                                                               *)
UpstreamEnds(u) ==
  /\ u \in (open \cap cut) \ Awaited /\ open' = open \ {u}
  /\ UNCHANGED <<request, pc, model, walk, tries, n, held, cut, signal, gone, sent, outcome>>

Walk == TryChild \/ WalkEnds \/ Granted \/ QueueTimesOut \/ Try \/ BackoffEnds

Attempt ==
  \/ LeaseAnswers \/ Dispatched \/ (\E e \in Errors : UpstreamFails(e))
  \/ PrimeTimesOut \/ EmptyAnswer \/ Commit \/ Collected \/ DeadlineFires

Stream ==
  \/ LaterStepThrows \/ Begin \/ Event \/ Drains \/ Departs
  \/ StreamDone \/ SendFails \/ StreamTimesOut

Next ==
  \/ Walk \/ Attempt \/ Stream \/ Disconnect \/ BudgetFires
  \/ \E u \in open : UpstreamEnds(u)

Spec == Init /\ [][Next]_vars

(* Promises and timers run; a queue wait ends by its timer; credentials    *)
(* are answered; an aborted upstream reacts.  Nothing makes an upstream    *)
(* answer, a client read, or anybody leave.                                *)
UpstreamReacts == n \in cut /\ ((\E e \in Errors : UpstreamFails(e)) \/ SendFails)

FairSpec ==
  /\ Spec
  /\ WF_vars(Walk) /\ WF_vars(LeaseAnswers) /\ WF_vars(DeadlineFires)
  /\ WF_vars(UpstreamReacts)
  /\ WF_vars(LaterStepThrows \/ Begin) /\ WF_vars(Departs) /\ WF_vars(StreamTimesOut)
  /\ \A u \in 1 .. (MaxAttempts + 1) * MaxTries : WF_vars(u \in open /\ UpstreamEnds(u))

----------------------------------------------------------------------------
(* Properties.                                                             *)

(* A model's slot is held from its grant to the end of the child's tries,  *)
(* credentials only while their own attempt runs; neither outlives the     *)
(* commit of a streamed answer.                                            *)
LeasesFollowAttempt ==
  /\ slot # None => slot = model /\ pc \in {"try", "backoff"} \cup Attempting
  /\ lease => pc \in Attempting

(* At most one upstream of a request runs, the one that is being awaited;  *)
(* every other one has been aborted, even while it still holds its         *)
(* backend generation (retries, fallbacks, unread streams).                *)
OneUpstream == open \ cut \subseteq Awaited

(* Once an answer is committed, no failure is replaced by another model's  *)
(* or another attempt's output (prime-stream-middleware.mjs, respond.mjs). *)
OneModelAnswers ==
  [][(pc \in Streaming => model' = model /\ n' = n /\ pc' \in Streaming \cup {"done"})]_vars

(* A disconnect or an expired budget starts no further attempt, whatever   *)
(* the request was waiting for when it came (retry-middleware.mjs:81).     *)
AbortStops == [][signal # None => n' = n]_vars

(* Every request ends, unless a client that stays does not read.           *)
RequestEnds == <>(pc = "done") \/ <>[](pc = "drain" /\ ~gone)

(* A request that ended leaves no backend generation leased: not by an     *)
(* attempt that timed out, nor by a stream that was never read.            *)
LeasesReturned == (pc = "done") ~> (open = {} /\ slot = None /\ ~lease)

=============================================================================
