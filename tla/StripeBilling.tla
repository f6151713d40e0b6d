--------------------------- MODULE StripeBilling ---------------------------
(***************************************************************************)
(* Purchases of credits (userPersistoAgent/lib/billing.mjs) over the       *)
(* credit ledger: checkouts, Stripe's webhooks, the user's reservations,   *)
(* and crashes.                                                            *)
(*                                                                         *)
(* createCheckout and processStripeWebhook hold the key "stripe:billing"   *)
(* over all of their steps; other operations, such as the user's on his    *)
(* credits, run and save between those steps.  One user buys under one     *)
(* idempotency key; requests with other parameters are refused before any  *)
(* effect and left out.  Stripe is external: it answers an idempotency key *)
(* with the session it made for it while it remembers the key, and sends   *)
(* an event until it is answered.  A save is one step (DurableStore); one  *)
(* that fails leaves the store refusing everything until it is reopened,   *)
(* which Crash covers.  No other store call of billing.mjs itself throws.  *)
(* Subscriptions are left out.                                             *)
(* A definition placed just before the one it resembles is a faulty        *)
(* variant of it, named in PROJECT.json with the property it breaks.       *)
(***************************************************************************)
EXTENDS CreditLedger, FiniteSets

CONSTANTS
  Sessions,    \* checkout sessions Stripe can make
  EventKinds,  \* events of one session that report it paid
  Credits,     \* what the checkout buys
  RetryFor,    \* how long an intent is submitted again (23 hours)
  KeepFor,     \* how long Stripe remembers a key (24 hours)
  MaxFaults    \* bound on crashes, thrown changes and lost answers

ASSUME TimeAssumption == RetryFor \in Nat /\ KeepFor \in Nat /\ RetryFor < KeepFor

(* A session is told from an event.                                        *)
ASSUME SessionsAssumption == Sessions \cap (Sessions \X EventKinds) = {}

VARIABLES
  ledger,      \* the user's credits, in memory
  books,       \* the billing tables in memory: intent, payments, events
  saved,       \* both, as the snapshot has them
  answered,    \* the last credit operation of this process was answered
  pc,          \* the step of the billing operation under way
  subject,     \* the session or event it is about
  stripe,      \* Stripe: the key it remembers, sessions made, sessions paid
  acked,       \* events Stripe got an answer to
  faults

memory == <<ledger, books>>
vars == <<ledger, books, saved, answered, pc, subject, stripe, acked, faults>>

Events == Sessions \X EventKinds
SessionOf(event) == event[1]

(* A checkout's intent, and the key by which Stripe knows it.              *)
Intent == [session : {None} \cup Sessions, url : BOOLEAN, age : 0 .. RetryFor]
Key == [session : Sessions, age : 0 .. KeepFor]

ASSUME NoneAssumption == None \notin Intent \cup Key /\ None # "processed"

EmptyBooks ==
  [intent |-> None, payment |-> [s \in Sessions |-> None], event |-> [e \in Events |-> None]]

Init ==
  /\ ledger = EmptyLedger /\ books = EmptyBooks
  /\ saved = [ledger |-> ledger, books |-> books]
  /\ answered = TRUE /\ pc = "idle" /\ subject = None
  /\ stripe = [key |-> None, made |-> {}, paid |-> {}]
  /\ acked = {} /\ faults = 0

(* What is in memory after the step is in the snapshot.                    *)
Save == saved' = [ledger |-> ledger', books |-> books']

Fault == faults < MaxFaults /\ faults' = faults + 1

----------------------------------------------------------------------------
(* createCheckout.                                                         *)

NewIntent == [session |-> None, url |-> FALSE, age |-> 0]

Unresolved(intent) == intent.session = None \/ ~intent.url

RetryAnyAge ==
  /\ pc = "idle" /\ books.intent # None /\ Unresolved(books.intent)
  /\ pc' = "post"
  /\ UNCHANGED <<memory, saved, answered, subject, stripe, acked, faults>>

(* An intent without an answer is submitted again, unless Stripe may have  *)
(* forgotten its key.                                                      *)
Retry ==
  /\ pc = "idle" /\ books.intent # None /\ Unresolved(books.intent)
  /\ books.intent.session = None => books.intent.age < RetryFor
  /\ pc' = "post"
  /\ UNCHANGED <<memory, saved, answered, subject, stripe, acked, faults>>

FirstCheckout ==
  /\ pc = "idle" /\ books.intent = None
  /\ books' = [books EXCEPT !.intent = NewIntent] /\ pc' = "intent"
  /\ UNCHANGED <<ledger, saved, answered, subject, stripe, acked, faults>>

PostUnsaved ==
  /\ pc = "intent" /\ pc' = "post"
  /\ UNCHANGED <<memory, saved, answered, subject, stripe, acked, faults>>

(* The intent is on disk before Stripe is asked.                           *)
IntentSaved ==
  /\ UNCHANGED <<memory, answered, subject, stripe, acked, faults>>
  /\ pc = "intent" /\ Save /\ pc' = "post"

(* Stripe makes a session for a key it does not remember, and the answer   *)
(* comes or is lost; the session of an intent that knows it is fetched.    *)
Posted ==
  /\ pc = "post"
  /\ \E s \in Sessions :
       /\ IF books.intent.session # None THEN s = books.intent.session /\ UNCHANGED stripe
          ELSE IF stripe.key # None THEN s = stripe.key.session /\ UNCHANGED stripe
          ELSE /\ stripe.made # Sessions /\ s = (CHOOSE new \in Sessions : new \notin stripe.made)
               /\ stripe' = [stripe EXCEPT !.key = [session |-> s, age |-> 0], !.made = @ \cup {s}]
       /\ \/ pc' = "payment" /\ subject' = s /\ UNCHANGED faults
          \/ Fault /\ pc' = "idle" /\ UNCHANGED subject
  /\ UNCHANGED <<memory, saved, answered, acked>>

(* The request never reached Stripe.                                       *)
PostLost ==
  /\ pc = "post" /\ Fault /\ pc' = "idle"
  /\ UNCHANGED <<memory, saved, answered, subject, stripe, acked>>

(* upsertPayment: a paid payment stays paid.                               *)
WithPayment(s, status) ==
  IF status = "created" /\ books.payment[s] # None THEN books
  ELSE [books EXCEPT !.payment[s] = status]

PaymentCreated ==
  /\ pc = "payment" /\ books' = WithPayment(subject, "created") /\ pc' = "link"
  /\ UNCHANGED <<ledger, saved, answered, subject, stripe, acked, faults>>

IntentLinked ==
  /\ pc = "link" /\ pc' = "answer"
  /\ books' = [books EXCEPT !.intent.session = subject, !.intent.url = TRUE]
  /\ UNCHANGED <<ledger, saved, answered, subject, stripe, acked, faults>>

CheckoutAnswered ==
  /\ UNCHANGED <<memory, answered, stripe, acked, faults>>
  /\ pc = "answer" /\ Save /\ pc' = "idle" /\ subject' = None

----------------------------------------------------------------------------
(* processStripeWebhook.  An event that was processed is only answered.    *)

Marked(status) == books' = [books EXCEPT !.event[subject] = status]

Delivered(e) ==
  /\ pc = "idle" /\ e \notin acked /\ SessionOf(e) \in stripe.paid
  /\ IF books.event[e] = "processed"
     THEN acked' = acked \cup {e} /\ UNCHANGED <<books, pc, subject>>
     ELSE /\ pc' = "event" /\ subject' = e
          /\ books' = [books EXCEPT !.event[e] = "processing"] /\ UNCHANGED acked
  /\ UNCHANGED <<ledger, saved, answered, stripe, faults>>

EventSaved ==
  /\ UNCHANGED <<memory, answered, subject, stripe, acked, faults>>
  /\ pc = "event" /\ Save /\ pc' = "find"

FoundPaymentOnly ==
  /\ pc = "find" /\ pc' = (IF books.payment[SessionOf(subject)] # None THEN "paid" ELSE "failed")
  /\ UNCHANGED <<memory, saved, answered, subject, stripe, acked, faults>>

(* The session's payment is known; or its intent is, because the webhook   *)
(* overtook the answer of the checkout; or the checkout is not ours.       *)
Found ==
  /\ pc = "find"
  /\ LET s == SessionOf(subject) IN
     IF books.payment[s] # None THEN pc' = "paid" /\ UNCHANGED books
     ELSE IF books.intent # None /\ books.intent.session \in {None, s}
          THEN pc' = "adopt" /\ books' = WithPayment(s, "created")
          ELSE pc' = "failed" /\ UNCHANGED books
  /\ UNCHANGED <<ledger, saved, answered, subject, stripe, acked, faults>>

Adopted ==
  /\ UNCHANGED <<ledger, answered, subject, stripe, acked, faults>>
  /\ pc = "adopt" /\ books' = [books EXCEPT !.intent.session = SessionOf(subject)]
  /\ Save /\ pc' = "paid"

PaymentPaid ==
  /\ pc = "paid" /\ books' = WithPayment(SessionOf(subject), "paid") /\ pc' = "credit"
  /\ UNCHANGED <<ledger, saved, answered, subject, stripe, acked, faults>>

(* A credit operation ends with one of the Results, saved when it is "ok". *)
Operate(result) ==
  /\ ledger' = result.ledger
  /\ answered' = (result.answer = "ok" \/ (answered /\ result.answer = "refused"))
  /\ IF result.answer = "ok" THEN Save ELSE UNCHANGED saved
  /\ IF result.answer = "threw" THEN Fault ELSE UNCHANGED faults

PurchaseOfEvent == [type |-> "purchase", ref |-> subject, amount |-> Credits]

(* applyPurchase: the session is the reference, whichever event pays it.   *)
Purchase == [type |-> "purchase", ref |-> SessionOf(subject), amount |-> Credits]

Credited ==
  /\ pc = "credit" /\ UNCHANGED <<books, subject, stripe, acked>>
  /\ \E result \in Results(ledger, Purchase) :
       Operate(result) /\ pc' = (IF result.answer = "ok" THEN "processed" ELSE "failed")

Processed ==
  /\ pc = "processed" /\ Marked("processed") /\ pc' = "ack"
  /\ UNCHANGED <<ledger, saved, answered, subject, stripe, acked, faults>>

(* Saved, and answered; the answer may be lost.                            *)
Acked ==
  /\ UNCHANGED <<memory, answered, stripe>>
  /\ pc = "ack" /\ Save /\ pc' = "idle" /\ subject' = None
  /\ \/ acked' = acked \cup {subject} /\ UNCHANGED faults
     \/ Fault /\ UNCHANGED acked

ForgetsFailure ==
  /\ pc = "failed" /\ Marked("processed") /\ pc' = "ack"
  /\ UNCHANGED <<ledger, saved, answered, subject, stripe, acked, faults>>

(* Saved as failed and answered with an error: Stripe sends it again.      *)
Failed ==
  /\ UNCHANGED <<ledger, answered, stripe, acked, faults>>
  /\ pc = "failed" /\ Marked("failed") /\ Save /\ pc' = "idle" /\ subject' = None

----------------------------------------------------------------------------
(* The user's credits, other saves, Stripe, time and crashes.              *)

Reserves(tx) ==
  /\ UNCHANGED <<books, pc, subject, stripe, acked>>
  /\ \E result \in Results(ledger, tx) : Operate(result)

GetBalance ==
  /\ UNCHANGED <<books, pc, subject, stripe, acked, faults>>
  /\ ledger' = ReconcileAccount(ledger) /\ answered' = TRUE /\ Save

OtherSave ==
  /\ UNCHANGED <<memory, answered, pc, subject, stripe, acked, faults>>
  /\ Save /\ saved' # saved

Pays(s) ==
  /\ s \in stripe.made \ stripe.paid /\ stripe' = [stripe EXCEPT !.paid = @ \cup {s}]
  /\ UNCHANGED <<memory, saved, answered, pc, subject, acked, faults>>

Older(tables) ==
  IF tables.intent = None \/ tables.intent.age = RetryFor THEN tables
  ELSE [tables EXCEPT !.intent.age = @ + 1]

(* Time passes for the intent and for Stripe's key; a request to Stripe is *)
(* given up within 15 seconds.  Once the checkout is resolved, its age     *)
(* matters to nothing.                                                     *)
Tick ==
  /\ pc # "post"
  /\ books.intent # None => Unresolved(books.intent)
  /\ books' = Older(books) /\ saved' = [saved EXCEPT !.books = Older(@)]
  /\ stripe' = IF stripe.key = None \/ stripe.key.age = KeepFor THEN stripe
               ELSE [stripe EXCEPT !.key.age = @ + 1]
  /\ UNCHANGED <<ledger, answered, pc, subject, acked, faults>>

Forgets ==
  /\ stripe.key # None /\ stripe.key.age = KeepFor
  /\ stripe' = [stripe EXCEPT !.key = None]
  /\ UNCHANGED <<memory, saved, answered, pc, subject, acked, faults>>

Crash ==
  /\ Fault /\ ledger' = saved.ledger /\ books' = saved.books
  /\ answered' = FALSE /\ pc' = "idle" /\ subject' = None
  /\ UNCHANGED <<saved, stripe, acked>>

Billing ==
  \/ IntentSaved \/ Posted \/ PostLost \/ PaymentCreated \/ IntentLinked \/ CheckoutAnswered
  \/ EventSaved \/ Found \/ Adopted \/ PaymentPaid \/ Credited \/ Processed \/ Acked \/ Failed

Next ==
  \/ FirstCheckout \/ Retry \/ Billing \/ GetBalance \/ OtherSave \/ Tick \/ Forgets \/ Crash
  \/ \E e \in Events : Delivered(e)
  \/ \E s \in Sessions : Pays(s)
  \/ \E tx \in Requests : Reserves(tx)

Spec == Init /\ [][Next]_vars

(* The key is handed on in order of arrival, so a webhook gets it; Stripe  *)
(* sends events as long as one is not answered.                            *)
FairSpec == Spec /\ WF_vars(Billing) /\ SF_vars(\E e \in Events : Delivered(e))

----------------------------------------------------------------------------
(* Properties.                                                             *)

(* However often a checkout is retried, and whatever was lost between,     *)
(* one idempotency key buys once: Stripe makes one session for it          *)
(* (billing.mjs, the intent saved first, the retries that stop in time).   *)
OneCheckout == Cardinality(stripe.made) <= 1

Purchases(l, s) == {i \in DOMAIN l.journal : l.journal[i].type = "purchase" /\
                                             l.journal[i].ref \in {s} \cup {s} \X EventKinds}

(* A session is credited once, whichever of its events report it and       *)
(* however often; and never before it is paid.                             *)
CreditedOnce ==
  \A l \in {ledger, saved.ledger}, s \in Sessions :
    /\ Cardinality(Purchases(l, s)) <= 1
    /\ Purchases(l, s) # {} => s \in stripe.paid

(* An event that the snapshot has as processed, which is only answered     *)
(* from then on, left its credits in that snapshot.                        *)
ProcessedIsCredited ==
  \A e \in Events : saved.books.event[e] = "processed" => Purchases(saved.ledger, SessionOf(e)) # {}

(* What the user and the webhooks ask of the credits, and the journal holds. *)
Entry == Requests \cup [type : {"purchase"}, ref : Sessions, amount : {Credits}]

(* An operation that a failing call cut short is completed when it is      *)
(* asked again: to the ledger and the answer it would have had at once.    *)
RetryCompletes ==
  \A tx \in Entry :
    LET ends == Results(ledger, tx)
        whole == {end \in ends : end.answer # "threw"}
    IN  \A cut \in ends \ whole : {end \in Results(cut.ledger, tx) : end.answer # "threw"} = whole

(* No reservation is both spent and released, or closed with another       *)
(* amount, or unopened; no balance was ever negative; and the balances     *)
(* equal the journal's once an operation has been answered, although any   *)
(* operation may have stopped after any of its changes.                    *)
LedgerSound ==
  /\ \A ref \in References :
       LET closing == Entries(ledger.journal, {"spend", "release"}, ref)
           opening == Entries(ledger.journal, {"reserve"}, ref)
       IN  Cardinality(closing) <= 1 /\ \A tx \in closing : [tx EXCEPT !.type = "reserve"] \in opening
  /\ \A n \in 0 .. Len(ledger.journal) : ~Negative(Balances(ledger.journal)[n])
  /\ answered => ledger.account = Replay(ledger.journal)

(* A checkout that was paid is credited, on disk, whatever was lost on the *)
(* way, as long as Stripe repeats its events.  No session leaves paid, so  *)
(* this says it of each of them.                                           *)
PaidIsCredited ==
  stripe.paid # {} ~> \A s \in stripe.paid : Purchases(saved.ledger, s) # {}

=============================================================================
