------------------------ MODULE StripeBillingProofs ------------------------
(***************************************************************************)
(* Proofs about StripeBilling, for any sessions, requests and bounds.      *)
(*                                                                         *)
(* One idempotency key makes one session.  The intent is on disk before    *)
(* Stripe is asked, so no crash forgets that it was; and in memory as on   *)
(* disk it is at least as old as the key Stripe remembers, so when Stripe  *)
(* forgets the key the intent is too old to be submitted again (IInv).     *)
(*                                                                         *)
(* A session is credited once.  An operation adds its transaction to the   *)
(* journal only when its reference is new there, and the session is the    *)
(* reference, whichever event reports it paid (LInv).                      *)
(*                                                                         *)
(* The ledger is sound.  Every entry was permitted by the balances the     *)
(* journal before it gives, and closes a reservation the journal holds     *)
(* open, with its amount; the account and the reservations are those of    *)
(* the journal once an operation was answered (SInv).  The balances        *)
(* are recursive in the journal; what is said of every prefix is said of   *)
(* a least one that fails (Least).  An operation that was cut short and is *)
(* asked again ends as if nothing had happened (AskedAgain).               *)
(***************************************************************************)
EXTENDS StripeBilling, FiniteSetTheorems, WellFoundedInduction, TLAPS

CheckoutSteps == {"payment", "link", "answer"}
WebhookSteps == {"event", "find", "adopt", "paid", "credit", "processed", "ack", "failed"}

Books ==
  [intent : {None} \cup Intent, payment : [Sessions -> {None, "created", "paid"}],
   event : [Events -> {None, "processing", "failed", "processed"}]]

(* The billing variables keep their types.                                 *)
TypeOK ==
  /\ books \in Books
  /\ saved = [ledger |-> saved.ledger, books |-> saved.books] /\ saved.books \in Books
  /\ stripe \in [key : {None} \cup Key, made : SUBSET Sessions, paid : SUBSET Sessions]
  /\ pc \in {"idle", "intent", "post"} \cup CheckoutSteps \cup WebhookSteps
  /\ pc \in CheckoutSteps => subject \in Sessions
  /\ pc \in WebhookSteps => subject \in Events

(* Stripe is only asked about an intent that no crash can forget.          *)
Remembered ==
  /\ books.intent = None \/ saved.books.intent = None => stripe.made = {}
  /\ books.intent # None /\ pc # "intent" => saved.books.intent # None
  /\ pc = "intent" => books.intent # None /\ stripe.made = {}
  /\ pc \in {"post", "payment", "link", "adopt"} => books.intent # None

(* An intent is no younger than Stripe's key, up to the age that counts.   *)
NoYounger(intent) ==
  IF stripe.key = None THEN intent.age >= RetryFor
  ELSE intent.age >= RetryFor \/ intent.age >= stripe.key.age

Aged ==
  /\ stripe.made # {} => NoYounger(books.intent) /\ NoYounger(saved.books.intent)
  /\ pc = "post" /\ books.intent.session = None =>
       books.intent.age < RetryFor \/ stripe.made = {}

AtMostOne == stripe.made = {} \/ \E s \in Sessions : stripe.made = {s}

IInv == TypeOK /\ Remembered /\ Aged /\ AtMostOne

----------------------------------------------------------------------------
(* Steps that make no session and let no time pass.                        *)

\* What such a step may do to the intents.
SameIntents ==
  /\ \/ books'.intent = books.intent
     \/ books.intent \in Intent /\ books'.intent \in Intent /\ books'.intent.age = books.intent.age
  /\ saved'.books = saved.books \/ saved'.books = books'

LEMMA QuietKeeps ==
  ASSUME IInv, TypeOK', SameIntents, stripe'.made = stripe.made, stripe'.key = stripe.key,
         pc' \in {"intent", "post"} => pc' = pc /\ books' = books,
         pc' \in {"payment", "link", "adopt"} => books.intent # None,
         pc = "intent" /\ pc' # "intent" => saved'.books = books'
  PROVE  IInv'
  <1>1. None \notin Intent
    BY NoneAssumption
  <1>2. books'.intent = None <=> books.intent = None
    BY <1>1 DEF SameIntents
  <1>3. books.intent # None => books'.intent.age = books.intent.age
    BY DEF SameIntents
  <1>4. Remembered'
    BY <1>2 DEF IInv, Remembered, SameIntents
  <1>5. Aged'
    <2>1. stripe.made # {} => NoYounger(books.intent)' /\ NoYounger(saved.books.intent)'
      BY <1>3 DEF IInv, Remembered, Aged, NoYounger, SameIntents
    <2> QED BY <2>1 DEF IInv, Aged
  <1>6. AtMostOne'
    BY DEF IInv, AtMostOne
  <1> QED BY <1>4, <1>5, <1>6 DEF IInv

\* A save copies the books.
LEMMA SaveFacts ==
  ASSUME Save
  PROVE  saved'.books = books' /\ saved' = [ledger |-> saved'.ledger, books |-> saved'.books]
  BY DEF Save

LEMMA WithPaymentFacts ==
  ASSUME books \in Books, NEW s \in Sessions, NEW status \in {"created", "paid"}
  PROVE  WithPayment(s, status) \in Books /\ WithPayment(s, status).intent = books.intent
  BY DEF WithPayment, Books

LEMMA MarkedFacts ==
  ASSUME books \in Books, NEW e \in Events, NEW status \in {"processing", "failed", "processed"}
  PROVE  /\ [books EXCEPT !.event[e] = status] \in Books
         /\ [books EXCEPT !.event[e] = status].intent = books.intent
  BY DEF Books

LEMMA LinkFacts ==
  ASSUME books \in Books, books.intent # None, NEW s \in Sessions
  PROVE  /\ books.intent \in Intent
         /\ [books EXCEPT !.intent.session = s] \in Books
         /\ [books EXCEPT !.intent.session = s].intent \in Intent
         /\ [books EXCEPT !.intent.session = s].intent.age = books.intent.age
         /\ [books EXCEPT !.intent.session = s, !.intent.url = TRUE] \in Books
         /\ [books EXCEPT !.intent.session = s, !.intent.url = TRUE].intent \in Intent
         /\ [books EXCEPT !.intent.session = s, !.intent.url = TRUE].intent.age = books.intent.age
  BY DEF Books, Intent

----------------------------------------------------------------------------
(* The checkout.                                                           *)

LEMMA InitIInv == Init => IInv
  <1> SUFFICES ASSUME Init PROVE IInv
    OBVIOUS
  <1>1. books \in Books /\ saved.books \in Books /\ books.intent = None
    BY DEF Init, Books, EmptyBooks
  <1>2. TypeOK
    BY <1>1 DEF Init, TypeOK, CheckoutSteps, WebhookSteps
  <1>3. Remembered /\ Aged /\ AtMostOne
    BY DEF Init, Remembered, Aged, AtMostOne
  <1> QED BY <1>2, <1>3 DEF IInv

\* The books are untouched, and so is what was saved.
LEMMA AwaitKeeps ==
  ASSUME IInv, UNCHANGED <<books, saved>>, stripe' = stripe,
         pc' \in {"idle", "intent", "post"} \cup CheckoutSteps \cup WebhookSteps,
         pc' \in CheckoutSteps => subject' \in Sessions,
         pc' \in WebhookSteps => subject' \in Events,
         pc' \in {"intent", "post"} => pc' = pc,
         pc = "intent" => pc' = "intent",
         pc' \in {"payment", "link", "adopt"} => books.intent # None
  PROVE  IInv'
  <1>1. TypeOK'
    BY DEF IInv, TypeOK
  <1>2. SameIntents
    BY DEF SameIntents
  <1> QED BY <1>1, <1>2, QuietKeeps

LEMMA FirstCheckoutKeeps == IInv /\ FirstCheckout => IInv'
  <1> SUFFICES ASSUME IInv, FirstCheckout PROVE IInv'
    OBVIOUS
  <1>1. NewIntent \in Intent /\ NewIntent # None
    <2>1. 0 \in 0 .. RetryFor
      BY TimeAssumption
    <2>2. NewIntent \in Intent
      BY <2>1 DEF NewIntent, Intent
    <2> QED BY <2>2, NoneAssumption
  <1>2. books' = [books EXCEPT !.intent = NewIntent] /\ pc' = "intent" /\ UNCHANGED <<saved, stripe>>
        /\ books.intent = None /\ stripe.made = {}
    BY DEF FirstCheckout, IInv, Remembered
  <1>3. books' \in Books /\ books'.intent = NewIntent
    BY <1>1, <1>2 DEF IInv, TypeOK, Books
  <1>4. TypeOK'
    BY <1>2, <1>3 DEF IInv, TypeOK, CheckoutSteps, WebhookSteps
  <1>5. Remembered' /\ Aged' /\ AtMostOne'
    BY <1>1, <1>2, <1>3 DEF IInv, Remembered, Aged, AtMostOne
  <1> QED BY <1>4, <1>5 DEF IInv

LEMMA RetryKeeps == IInv /\ Retry => IInv'
  <1> SUFFICES ASSUME IInv, Retry PROVE IInv'
    OBVIOUS
  <1>1. UNCHANGED <<books, saved, stripe>> /\ pc = "idle" /\ pc' = "post" /\ books.intent # None
        /\ (books.intent.session = None => books.intent.age < RetryFor)
    BY DEF Retry, memory
  <1>2. TypeOK'
    BY <1>1 DEF IInv, TypeOK, CheckoutSteps, WebhookSteps
  <1>3. Remembered' /\ Aged' /\ AtMostOne'
    BY <1>1 DEF IInv, Remembered, Aged, AtMostOne, NoYounger
  <1> QED BY <1>2, <1>3 DEF IInv

LEMMA IntentSavedKeeps == IInv /\ IntentSaved => IInv'
  <1> SUFFICES ASSUME IInv, IntentSaved PROVE IInv'
    OBVIOUS
  <1>1. UNCHANGED <<books, stripe>> /\ pc = "intent" /\ pc' = "post"
        /\ books.intent # None /\ stripe.made = {}
    BY DEF IntentSaved, memory, IInv, Remembered
  <1>2. saved'.books = books /\ saved' = [ledger |-> saved'.ledger, books |-> saved'.books]
    BY <1>1, SaveFacts DEF IntentSaved
  <1>3. TypeOK'
    BY <1>1, <1>2 DEF IInv, TypeOK, CheckoutSteps, WebhookSteps
  <1>4. Remembered' /\ Aged' /\ AtMostOne'
    BY <1>1, <1>2 DEF Remembered, Aged, AtMostOne
  <1> QED BY <1>3, <1>4 DEF IInv

\* The heart of it: a new session is only made while there is none.
LEMMA PostedKeeps == IInv /\ Posted => IInv'
  <1> SUFFICES ASSUME IInv, Posted PROVE IInv'
    OBVIOUS
  <1>1. UNCHANGED <<books, saved>> /\ pc = "post" /\ books.intent # None /\ saved.books.intent # None
    BY DEF Posted, memory, IInv, Remembered
  <1>2. PICK s \in Sessions :
          /\ IF books.intent.session # None THEN s = books.intent.session /\ UNCHANGED stripe
             ELSE IF stripe.key # None THEN s = stripe.key.session /\ UNCHANGED stripe
             ELSE stripe' = [stripe EXCEPT !.key = [session |-> s, age |-> 0], !.made = @ \cup {s}]
          /\ (pc' = "payment" /\ subject' = s) \/ pc' = "idle"
    BY DEF Posted
  <1>3. CASE UNCHANGED stripe
    BY <1>1, <1>2, <1>3, AwaitKeeps DEF CheckoutSteps, WebhookSteps
  <1>4. CASE /\ books.intent.session = None /\ stripe.key = None
             /\ stripe' = [stripe EXCEPT !.key = [session |-> s, age |-> 0], !.made = @ \cup {s}]
    <2>1. /\ stripe'.key = [session |-> s, age |-> 0] /\ stripe'.made = stripe.made \cup {s}
          /\ stripe' \in [key : {None} \cup Key, made : SUBSET Sessions, paid : SUBSET Sessions]
      <3>1. 0 \in 0 .. KeepFor
        BY TimeAssumption
      <3>2. [session |-> s, age |-> 0] \in Key
        BY <3>1 DEF Key
      <3> QED BY <1>4, <3>2 DEF IInv, TypeOK
    <2>2. books.intent.age \in Nat /\ saved.books.intent.age \in Nat
      BY <1>1, TimeAssumption DEF IInv, TypeOK, Books, Intent
    <2>3. stripe.made = {}
      BY <1>1, <1>4, <2>2, TimeAssumption DEF IInv, Aged, NoYounger
    <2>4. TypeOK'
      BY <1>1, <1>2, <2>1 DEF IInv, TypeOK, CheckoutSteps, WebhookSteps
    <2>5. Remembered'
      BY <1>1, <1>2 DEF Remembered
    <2>6. Aged'
      <3>1. stripe'.key.age = 0
        BY <2>1
      <3>2. NoYounger(books.intent)' /\ NoYounger(saved.books.intent)'
        BY <1>1, <2>1, <2>2, <3>1, NoneAssumption, TimeAssumption DEF NoYounger, Key
      <3> QED BY <1>2, <3>2 DEF Aged
    <2>7. AtMostOne'
      BY <2>1, <2>3 DEF AtMostOne
    <2> QED BY <2>4, <2>5, <2>6, <2>7 DEF IInv
  <1> QED BY <1>2, <1>3, <1>4

LEMMA PostLostKeeps == IInv /\ PostLost => IInv'
  BY AwaitKeeps DEF PostLost, memory, CheckoutSteps, WebhookSteps

\* Steps that change the books without a save, and those that save them.
LEMMA BooksKeep ==
  ASSUME IInv, books' \in Books, stripe' = stripe,
         UNCHANGED saved \/ Save,
         \/ books'.intent = books.intent
         \/ books.intent \in Intent /\ books'.intent \in Intent /\ books'.intent.age = books.intent.age,
         pc \notin {"intent", "post"},
         pc' \in {"idle"} \cup CheckoutSteps \cup WebhookSteps,
         pc' \in CheckoutSteps => subject' \in Sessions,
         pc' \in WebhookSteps => subject' \in Events,
         pc' \in {"payment", "link", "adopt"} => books.intent # None
  PROVE  IInv'
  <1>1. saved' = [ledger |-> saved'.ledger, books |-> saved'.books]
        /\ (saved'.books = saved.books \/ saved'.books = books')
    BY SaveFacts DEF IInv, TypeOK
  <1>2. TypeOK'
    BY <1>1 DEF IInv, TypeOK
  <1>3. SameIntents
    BY <1>1 DEF SameIntents
  <1>4. pc' \notin {"intent", "post"}
    BY DEF CheckoutSteps, WebhookSteps
  <1> QED BY <1>2, <1>3, <1>4, QuietKeeps

LEMMA CheckoutKeeps ==
  IInv /\ (PaymentCreated \/ IntentLinked \/ CheckoutAnswered) => IInv'
  <1> SUFFICES ASSUME IInv, PaymentCreated \/ IntentLinked \/ CheckoutAnswered PROVE IInv'
    OBVIOUS
  <1>1. CASE PaymentCreated
    <2>1. subject \in Sessions /\ books.intent # None /\ books \in Books
      BY <1>1 DEF PaymentCreated, IInv, TypeOK, Remembered, CheckoutSteps
    <2>2. books' \in Books /\ books'.intent = books.intent
      BY <1>1, <2>1, WithPaymentFacts DEF PaymentCreated
    <2> QED BY <1>1, <2>1, <2>2, BooksKeep DEF PaymentCreated, CheckoutSteps, WebhookSteps
  <1>2. CASE IntentLinked
    <2>1. subject \in Sessions /\ books.intent # None /\ books \in Books
      BY <1>2 DEF IntentLinked, IInv, TypeOK, Remembered, CheckoutSteps
    <2>2. /\ books' \in Books /\ books.intent \in Intent /\ books'.intent \in Intent
          /\ books'.intent.age = books.intent.age
      BY <1>2, <2>1, LinkFacts DEF IntentLinked
    <2> QED BY <1>2, <2>1, <2>2, BooksKeep DEF IntentLinked, CheckoutSteps, WebhookSteps
  <1>3. CASE CheckoutAnswered
    <2>1. books' = books /\ books \in Books
      BY <1>3 DEF CheckoutAnswered, memory, IInv, TypeOK
    <2> QED BY <1>3, <2>1, BooksKeep DEF CheckoutAnswered, CheckoutSteps, WebhookSteps
  <1> QED BY <1>1, <1>2, <1>3

----------------------------------------------------------------------------
(* Webhooks, credits, time and crashes.                                    *)

LEMMA DeliveredKeeps ==
  ASSUME IInv, NEW e \in Events, Delivered(e)
  PROVE  IInv'
  <1>1. UNCHANGED <<saved, stripe>> /\ pc = "idle" /\ books \in Books
    BY DEF Delivered, IInv, TypeOK
  <1>2. CASE UNCHANGED <<books, pc>>
    BY <1>1, <1>2, AwaitKeeps DEF CheckoutSteps, WebhookSteps
  <1>3. CASE pc' = "event" /\ subject' = e /\ books' = [books EXCEPT !.event[e] = "processing"]
    <2>1. books' \in Books /\ books'.intent = books.intent
      BY <1>1, <1>3, MarkedFacts
    <2> QED BY <1>1, <1>3, <2>1, BooksKeep DEF CheckoutSteps, WebhookSteps
  <1> QED BY <1>2, <1>3 DEF Delivered

LEMMA WebhookKeeps ==
  IInv /\ (EventSaved \/ Found \/ Adopted \/ PaymentPaid \/ Processed \/ Acked \/ Failed) => IInv'
  <1> SUFFICES ASSUME IInv, EventSaved \/ Found \/ Adopted \/ PaymentPaid \/ Processed \/ Acked \/ Failed
               PROVE  IInv'
    OBVIOUS
  <1>1. subject \in Events /\ SessionOf(subject) \in Sessions /\ books \in Books /\ stripe' = stripe
    BY DEF EventSaved, Found, Adopted, PaymentPaid, Processed, Acked, Failed, IInv, TypeOK,
           WebhookSteps, Events, SessionOf
  <1>2. CASE EventSaved
    BY <1>1, <1>2, BooksKeep DEF EventSaved, memory, CheckoutSteps, WebhookSteps
  <1>3. CASE Found
    <2>1. /\ books' = books \/ books' = WithPayment(SessionOf(subject), "created")
          /\ pc' \in {"paid", "adopt", "failed"} /\ (pc' = "adopt" => books.intent # None)
          /\ UNCHANGED <<saved, subject>> /\ pc = "find"
      BY <1>3 DEF Found
    <2>2. books' \in Books /\ books'.intent = books.intent
      BY <1>1, <2>1, WithPaymentFacts
    <2> QED BY <1>1, <2>1, <2>2, BooksKeep DEF CheckoutSteps, WebhookSteps
  <1>4. CASE Adopted
    <2>1. books.intent # None
      BY <1>4 DEF Adopted, IInv, Remembered
    <2>2. /\ books' \in Books /\ books.intent \in Intent /\ books'.intent \in Intent
          /\ books'.intent.age = books.intent.age
      BY <1>1, <1>4, <2>1, LinkFacts DEF Adopted
    <2> QED BY <1>1, <1>4, <2>2, BooksKeep DEF Adopted, CheckoutSteps, WebhookSteps
  <1>5. CASE PaymentPaid
    <2>1. books' \in Books /\ books'.intent = books.intent
      BY <1>1, <1>5, WithPaymentFacts DEF PaymentPaid
    <2> QED BY <1>1, <1>5, <2>1, BooksKeep DEF PaymentPaid, CheckoutSteps, WebhookSteps
  <1>6. CASE Processed
    <2>1. books' \in Books /\ books'.intent = books.intent
      BY <1>1, <1>6, MarkedFacts DEF Processed, Marked
    <2> QED BY <1>1, <1>6, <2>1, BooksKeep DEF Processed, CheckoutSteps, WebhookSteps
  <1>7. CASE Acked
    BY <1>1, <1>7, BooksKeep DEF Acked, memory, CheckoutSteps, WebhookSteps
  <1>8. CASE Failed
    <2>1. books' \in Books /\ books'.intent = books.intent
      BY <1>1, <1>8, MarkedFacts DEF Failed, Marked
    <2> QED BY <1>1, <1>8, <2>1, BooksKeep DEF Failed, CheckoutSteps, WebhookSteps
  <1> QED BY <1>2, <1>3, <1>4, <1>5, <1>6, <1>7, <1>8

LEMMA CreditedKeeps == IInv /\ Credited => IInv'
  <1> SUFFICES ASSUME IInv, Credited PROVE IInv'
    OBVIOUS
  <1>1. /\ UNCHANGED <<books, subject, stripe>> /\ pc = "credit" /\ pc' \in {"processed", "failed"}
        /\ Save \/ UNCHANGED saved
    BY DEF Credited, Operate
  <1>2. subject \in Events /\ books \in Books
    BY <1>1 DEF IInv, TypeOK, WebhookSteps
  <1> QED BY <1>1, <1>2, BooksKeep DEF CheckoutSteps, WebhookSteps

\* Whoever else runs and saves meanwhile.
LEMMA OthersKeep ==
  ASSUME IInv, UNCHANGED <<books, pc, subject>>, stripe' = stripe, Save \/ UNCHANGED saved
  PROVE  IInv'
  <1>1. saved' = [ledger |-> saved'.ledger, books |-> saved'.books]
        /\ (saved'.books = saved.books \/ saved'.books = books')
    BY SaveFacts DEF IInv, TypeOK
  <1>2. TypeOK' /\ SameIntents
    BY <1>1 DEF IInv, TypeOK, SameIntents
  <1>3. pc' \in {"payment", "link", "adopt"} => books.intent # None
    BY DEF IInv, Remembered
  <1> QED BY <1>2, <1>3, QuietKeeps

LEMMA ReservesKeeps == \A tx \in Requests : IInv /\ Reserves(tx) => IInv'
  BY OthersKeep DEF Reserves, Operate

LEMMA OtherSavesKeep == IInv /\ (GetBalance \/ OtherSave) => IInv'
  BY OthersKeep DEF GetBalance, OtherSave, memory

LEMMA PaysKeeps ==
  ASSUME IInv, NEW s \in Sessions, Pays(s)
  PROVE  IInv'
  <1>1. /\ UNCHANGED <<books, saved, pc, subject>> /\ stripe' = [stripe EXCEPT !.paid = @ \cup {s}]
    BY DEF Pays, memory
  <1>2. /\ stripe'.made = stripe.made /\ stripe'.key = stripe.key
        /\ stripe' \in [key : {None} \cup Key, made : SUBSET Sessions, paid : SUBSET Sessions]
    BY <1>1 DEF IInv, TypeOK
  <1>3. TypeOK' /\ SameIntents
    BY <1>1, <1>2 DEF IInv, TypeOK, SameIntents
  <1>4. pc' \in {"payment", "link", "adopt"} => books.intent # None
    BY <1>1 DEF IInv, Remembered
  <1> QED BY <1>1, <1>2, <1>3, <1>4, QuietKeeps

\* An intent grows older up to the age that counts.
LEMMA OlderFacts ==
  ASSUME NEW b \in Books
  PROVE  /\ Older(b) \in Books /\ (Older(b).intent = None <=> b.intent = None)
         /\ b.intent # None =>
              Older(b).intent.age = IF b.intent.age = RetryFor THEN RetryFor ELSE b.intent.age + 1
  <1>1. CASE b.intent = None \/ b.intent.age = RetryFor
    BY <1>1 DEF Older
  <1>2. CASE b.intent # None /\ b.intent.age # RetryFor
    <2>1. b.intent \in Intent /\ b.intent.age + 1 \in 0 .. RetryFor
      BY <1>2, TimeAssumption DEF Books, Intent
    <2>2. Older(b) = [b EXCEPT !.intent.age = b.intent.age + 1]
      BY <1>2 DEF Older
    <2>3. Older(b).intent = [b.intent EXCEPT !.age = b.intent.age + 1]
      BY <2>2 DEF Books
    <2>4. Older(b).intent \in Intent /\ Older(b).intent.age = b.intent.age + 1
      BY <2>1, <2>3 DEF Intent
    <2>5. Older(b) \in Books
      BY <2>2, <2>4 DEF Books
    <2> QED BY <1>2, <2>4, <2>5, NoneAssumption
  <1> QED BY <1>1, <1>2

LEMMA TickKeeps == IInv /\ Tick => IInv'
  <1> SUFFICES ASSUME IInv, Tick PROVE IInv'
    OBVIOUS
  <1>1. /\ pc # "post" /\ UNCHANGED <<pc, subject>> /\ books' = Older(books)
        /\ saved'.books = Older(saved.books)
        /\ saved' = [ledger |-> saved'.ledger, books |-> saved'.books]
    <2>1. saved' = [saved EXCEPT !.books = Older(@)]
      BY DEF Tick
    <2>2. saved = [ledger |-> saved.ledger, books |-> saved.books]
      BY DEF IInv, TypeOK
    <2>3. saved' = [ledger |-> saved.ledger, books |-> Older(saved.books)]
      BY <2>1, <2>2
    <2> QED BY <2>3 DEF Tick
  <1>2. books \in Books /\ saved.books \in Books
    BY DEF IInv, TypeOK
  <1>3. books' \in Books /\ saved'.books \in Books
        /\ (books'.intent = None <=> books.intent = None)
        /\ (saved'.books.intent = None <=> saved.books.intent = None)
    BY <1>1, <1>2, OlderFacts
  <1>4. /\ stripe'.made = stripe.made
        /\ stripe' \in [key : {None} \cup Key, made : SUBSET Sessions, paid : SUBSET Sessions]
        /\ stripe.key = None => stripe'.key = None
        /\ stripe.key # None => stripe'.key # None /\ stripe.key.age \in 0 .. KeepFor
             /\ \/ stripe'.key.age = stripe.key.age /\ stripe.key.age = KeepFor
                \/ stripe'.key.age = stripe.key.age + 1
    <2>1. CASE stripe.key = None \/ stripe.key.age = KeepFor
      BY <2>1 DEF Tick, IInv, TypeOK, Key
    <2>2. CASE stripe.key # None /\ stripe.key.age # KeepFor
      <3>1. stripe' = [stripe EXCEPT !.key.age = stripe.key.age + 1]
        BY <2>2 DEF Tick
      <3>2. stripe.key \in Key /\ stripe.key.age + 1 \in 0 .. KeepFor
        BY <2>2, TimeAssumption DEF IInv, TypeOK, Key
      <3>3. stripe'.key = [stripe.key EXCEPT !.age = stripe.key.age + 1]
        BY <3>1 DEF IInv, TypeOK
      <3>4. stripe'.key \in Key /\ stripe'.key.age = stripe.key.age + 1
        BY <3>2, <3>3 DEF Key
      <3> QED BY <2>2, <3>1, <3>2, <3>4, NoneAssumption DEF IInv, TypeOK, Key
    <2> QED BY <2>1, <2>2
  <1>5. TypeOK'
    BY <1>1, <1>3, <1>4 DEF IInv, TypeOK
  <1>6. Remembered'
    BY <1>1, <1>3, <1>4 DEF IInv, Remembered
  <1>7. ASSUME stripe.made # {}
        PROVE  NoYounger(books.intent)' /\ NoYounger(saved.books.intent)'
    <2>1. books.intent # None /\ saved.books.intent # None
      BY <1>7 DEF IInv, Remembered
    <2>2. NoYounger(books.intent) /\ NoYounger(saved.books.intent)
      BY <1>7 DEF IInv, Aged
    <2>3. books.intent.age \in 0 .. RetryFor /\ saved.books.intent.age \in 0 .. RetryFor
      BY <1>2, <2>1 DEF Books, Intent
    <2>4. /\ books'.intent.age = IF books.intent.age = RetryFor THEN RetryFor ELSE books.intent.age + 1
          /\ saved'.books.intent.age =
               IF saved.books.intent.age = RetryFor THEN RetryFor ELSE saved.books.intent.age + 1
      BY <1>1, <1>2, <2>1, OlderFacts
    <2> QED BY <1>4, <2>2, <2>3, <2>4, TimeAssumption DEF NoYounger
  <1>8. Aged' /\ AtMostOne'
    BY <1>1, <1>4, <1>7 DEF IInv, Aged, AtMostOne
  <1> QED BY <1>5, <1>6, <1>8 DEF IInv

LEMMA ForgetsKeeps == IInv /\ Forgets => IInv'
  <1> SUFFICES ASSUME IInv, Forgets PROVE IInv'
    OBVIOUS
  <1>1. /\ UNCHANGED <<books, saved, pc, subject>> /\ stripe' = [stripe EXCEPT !.key = None]
        /\ stripe.key # None /\ stripe.key.age = KeepFor
    BY DEF Forgets, memory
  <1>2. /\ stripe'.made = stripe.made /\ stripe'.key = None
        /\ stripe' \in [key : {None} \cup Key, made : SUBSET Sessions, paid : SUBSET Sessions]
    BY <1>1 DEF IInv, TypeOK
  <1>3. TypeOK' /\ Remembered' /\ AtMostOne'
    BY <1>1, <1>2 DEF IInv, TypeOK, Remembered, AtMostOne
  <1>4. ASSUME stripe.made # {}
        PROVE  NoYounger(books.intent)' /\ NoYounger(saved.books.intent)'
    <2>1. books.intent \in Intent /\ saved.books.intent \in Intent
      BY <1>4 DEF IInv, TypeOK, Remembered, Books
    <2>2. NoYounger(books.intent) /\ NoYounger(saved.books.intent)
      BY <1>4 DEF IInv, Aged
    <2> QED BY <1>1, <1>2, <2>1, <2>2, TimeAssumption DEF NoYounger, Intent
  <1>5. Aged'
    BY <1>1, <1>2, <1>4 DEF IInv, Aged
  <1> QED BY <1>3, <1>5 DEF IInv

LEMMA CrashKeeps == IInv /\ Crash => IInv'
  <1> SUFFICES ASSUME IInv, Crash PROVE IInv'
    OBVIOUS
  <1>1. UNCHANGED <<saved, stripe>> /\ books' = saved.books /\ pc' = "idle"
    BY DEF Crash
  <1>2. TypeOK'
    BY <1>1 DEF IInv, TypeOK, CheckoutSteps, WebhookSteps
  <1>3. Remembered' /\ Aged' /\ AtMostOne'
    BY <1>1 DEF IInv, Remembered, Aged, AtMostOne, NoYounger
  <1> QED BY <1>2, <1>3 DEF IInv

LEMMA StutterKeeps == IInv /\ UNCHANGED vars => IInv'
  BY DEF vars, memory, IInv, TypeOK, Remembered, Aged, AtMostOne, NoYounger

----------------------------------------------------------------------------
(* The theorems.                                                           *)

\* Every reachable state satisfies the invariant.
THEOREM Invariance == Spec => []IInv
  <1>1. IInv /\ [Next]_vars => IInv'
    <2> SUFFICES ASSUME IInv, [Next]_vars PROVE IInv'
      OBVIOUS
    <2>1. CASE Billing
      BY <2>1, IntentSavedKeeps, PostedKeeps, PostLostKeeps, CheckoutKeeps, WebhookKeeps, CreditedKeeps
         DEF Billing
    <2>2. CASE ~Billing
      BY <2>2, FirstCheckoutKeeps, RetryKeeps, DeliveredKeeps, ReservesKeeps, OtherSavesKeep, PaysKeeps,
         TickKeeps, ForgetsKeeps, CrashKeeps, StutterKeeps DEF Next
    <2> QED BY <2>1, <2>2
  <1> QED BY <1>1, InitIInv, PTL DEF Spec

\* The billing tables, Stripe and the steps keep their types.
THEOREM TypeCorrect == Spec => []TypeOK
  BY Invariance, PTL DEF IInv

\* One idempotency key makes one session, whatever is lost between a checkout
\* and its answer, whenever the process dies and however late it is retried.
THEOREM OneSession == Spec => []OneCheckout
  <1>1. IInv => OneCheckout
    <2> SUFFICES ASSUME IInv PROVE Cardinality(stripe.made) <= 1
      BY DEF OneCheckout
    <2>1. CASE stripe.made = {}
      BY <2>1, FS_EmptySet
    <2>2. CASE \E s \in Sessions : stripe.made = {s}
      BY <2>2, FS_Singleton
    <2> QED BY <2>1, <2>2 DEF IInv, AtMostOne
  <1> QED BY <1>1, Invariance, PTL

----------------------------------------------------------------------------
(* The journal: one purchase for each session, and only for paid ones.     *)

Shaped(l) == l = [journal |-> l.journal, reservation |-> l.reservation, account |-> l.account]

IsPurchase(l, i) == l.journal[i].type = "purchase"

JournalOK(l) ==
  /\ Shaped(l) /\ l.journal \in Seq(Entry)
  /\ \A i \in 1 .. Len(l.journal) : IsPurchase(l, i) => l.journal[i].ref \in stripe.paid
  /\ \A i, j \in 1 .. Len(l.journal) :
       IsPurchase(l, i) /\ IsPurchase(l, j) /\ l.journal[i].ref = l.journal[j].ref => i = j

SubjectPaid == pc \in WebhookSteps => SessionOf(subject) \in stripe.paid

LInv == JournalOK(ledger) /\ JournalOK(saved.ledger) /\ SubjectPaid /\ stripe.paid \subseteq Sessions

\* Reconciliation, and what an operation does to the projections, leave the
\* journal alone.
LEMMA ProjectionFacts ==
  ASSUME NEW l, Shaped(l), NEW tx, NEW ref
  PROVE  /\ Shaped(ReconcileAccount(l)) /\ ReconcileAccount(l).journal = l.journal
         /\ Shaped(ReconcileReservation(l, ref)) /\ ReconcileReservation(l, ref).journal = l.journal
         /\ Shaped(Reserved(l, tx)) /\ Reserved(l, tx).journal = l.journal
         /\ Shaped(Accounted(l, tx)) /\ Accounted(l, tx).journal = l.journal
         /\ Shaped(Journalled(l, tx)) /\ Journalled(l, tx).journal = Append(l.journal, tx)
  <1>1. ASSUME NEW x
        PROVE  /\ Shaped([l EXCEPT !.account = x]) /\ [l EXCEPT !.account = x].journal = l.journal
               /\ Shaped([l EXCEPT !.reservation = x]) /\ [l EXCEPT !.reservation = x].journal = l.journal
               /\ Shaped([l EXCEPT !.journal = x]) /\ [l EXCEPT !.journal = x].journal = x
    BY DEF Shaped
  <1>2. ASSUME NEW x, NEW r
        PROVE  [l EXCEPT !.reservation[r] = x] = [l EXCEPT !.reservation = [l.reservation EXCEPT ![r] = x]]
    OBVIOUS
  <1>3. Shaped(ReconcileAccount(l)) /\ ReconcileAccount(l).journal = l.journal
    BY <1>1 DEF ReconcileAccount
  <1>4. Shaped(Accounted(l, tx)) /\ Accounted(l, tx).journal = l.journal
    BY <1>1 DEF Accounted
  <1>5. Shaped(Journalled(l, tx)) /\ Journalled(l, tx).journal = Append(l.journal, tx)
    BY <1>1 DEF Journalled
  <1>6. Shaped(ReconcileReservation(l, ref)) /\ ReconcileReservation(l, ref).journal = l.journal
    BY <1>1, <1>2 DEF ReconcileReservation
  <1>7. Shaped(Reserved(l, tx)) /\ Reserved(l, tx).journal = l.journal
    BY <1>1, <1>2 DEF Reserved
  <1> QED BY <1>3, <1>4, <1>5, <1>6, <1>7

\* An operation journals its transaction at most once, and only when the
\* reference is new.
LEMMA ResultsFacts ==
  ASSUME NEW l, Shaped(l), NEW tx, NEW result \in Results(l, tx)
  PROVE  /\ Shaped(result.ledger)
         /\ \/ result.ledger.journal = l.journal
            \/ /\ result.ledger.journal = Append(l.journal, tx)
               /\ Entries(l.journal, {tx.type}, tx.ref) = {}
  <1> DEFINE ready == Prepared(l, tx)
             journalled == Journalled(ready, tx)
             reserved == Reserved(journalled, tx)
             accounted == Accounted(reserved, tx)
  <1>1. Shaped(ReconcileAccount(l)) /\ ReconcileAccount(l).journal = l.journal
    BY ProjectionFacts
  <1>2. Shaped(ready) /\ ready.journal = l.journal
    BY <1>1, ProjectionFacts DEF Prepared
  <1> HIDE DEF ready
  <1>3. Shaped(journalled) /\ journalled.journal = Append(l.journal, tx)
    <2>1. Shaped(Journalled(ready, tx)) /\ Journalled(ready, tx).journal = Append(ready.journal, tx)
      BY <1>2, ProjectionFacts
    <2> QED BY <1>2, <2>1
  <1> HIDE DEF journalled
  <1>4. Shaped(reserved) /\ reserved.journal = Append(l.journal, tx)
    BY <1>3, ProjectionFacts
  <1> HIDE DEF reserved
  <1>5. Shaped(accounted) /\ accounted.journal = Append(l.journal, tx)
    BY <1>4, ProjectionFacts
  <1> HIDE DEF accounted
  <1>6. CASE Entries(l.journal, {tx.type}, tx.ref) = {}
    <2>1. result \in FirstUse(l, tx)
      BY <1>6 DEF Results
    <2>2. result.ledger \in {l, ReconcileAccount(l), ready, journalled, reserved, accounted}
      BY <2>1 DEF FirstUse, Result, Cut, ready, journalled, reserved, accounted
    <2> QED BY <1>1, <1>2, <1>3, <1>4, <1>5, <1>6, <2>2
  <1>7. CASE Entries(l.journal, {tx.type}, tx.ref) # {}
    <2>1. result \in Repeated(l, tx)
      BY <1>7 DEF Results
    <2>2. result.ledger \in {l, ReconcileAccount(l), ready}
      BY <2>1 DEF Repeated, Result, Cut, ready
    <2> QED BY <1>1, <1>2, <2>2
  <1> QED BY <1>6, <1>7

\* A journal stays sound when no purchase is added, or one whose reference is
\* new and paid.
LEMMA JournalKeeps ==
  ASSUME NEW l, JournalOK(l), NEW k, Shaped(k), NEW tx \in Entry,
         tx.type = "purchase" => tx.ref \in stripe.paid,
         \/ k.journal = l.journal
         \/ k.journal = Append(l.journal, tx) /\ Entries(l.journal, {tx.type}, tx.ref) = {}
  PROVE  JournalOK(k)
  <1>1. CASE k.journal = l.journal
    BY <1>1 DEF JournalOK, IsPurchase
  <1>2. CASE k.journal = Append(l.journal, tx) /\ Entries(l.journal, {tx.type}, tx.ref) = {}
    <2>1. /\ k.journal \in Seq(Entry) /\ Len(k.journal) = Len(l.journal) + 1 /\ Len(l.journal) \in Nat
          /\ \A i \in 1 .. Len(l.journal) : k.journal[i] = l.journal[i]
          /\ k.journal[Len(l.journal) + 1] = tx
      BY <1>2 DEF JournalOK
    <2>2. \A i \in 1 .. Len(l.journal) :
            l.journal[i].type = "purchase" /\ tx.type = "purchase" => l.journal[i].ref # tx.ref
      <3> SUFFICES ASSUME NEW i \in 1 .. Len(l.journal), l.journal[i].type = "purchase",
                          tx.type = "purchase", l.journal[i].ref = tx.ref
                   PROVE  FALSE
        OBVIOUS
      <3>1. i \in DOMAIN l.journal
        BY DEF JournalOK
      <3>2. l.journal[i] \in Entries(l.journal, {tx.type}, tx.ref)
        BY <3>1 DEF Entries
      <3> QED BY <1>2, <3>2
    <2>3. \A i \in 1 .. Len(k.journal) : i \in 1 .. Len(l.journal) \/ i = Len(l.journal) + 1
      BY <2>1
    <2>4. \A i \in 1 .. Len(k.journal) : IsPurchase(k, i) => k.journal[i].ref \in stripe.paid
      BY <2>1, <2>3 DEF JournalOK, IsPurchase
    <2>5. \A i, j \in 1 .. Len(k.journal) :
            IsPurchase(k, i) /\ IsPurchase(k, j) /\ k.journal[i].ref = k.journal[j].ref => i = j
      BY <2>1, <2>2, <2>3 DEF JournalOK, IsPurchase
    <2> QED BY <2>1, <2>4, <2>5 DEF JournalOK
  <1> QED BY <1>1, <1>2

----------------------------------------------------------------------------
(* Each step keeps the journal.                                            *)

LEMMA InitLInv == Init => LInv
  <1> SUFFICES ASSUME Init PROVE LInv
    OBVIOUS
  <1>1. Shaped(EmptyLedger) /\ EmptyLedger.journal = <<>>
    BY DEF EmptyLedger, Shaped
  <1>2. ledger = EmptyLedger /\ saved.ledger = EmptyLedger
    BY DEF Init
  <1>3. JournalOK(EmptyLedger)
    BY <1>1 DEF JournalOK
  <1> QED BY <1>2, <1>3 DEF Init, LInv, SubjectPaid, WebhookSteps

\* A step that changes no journal.
LEMMA JournalFrame ==
  ASSUME LInv, ledger' \in {ledger, saved.ledger}, saved'.ledger \in {ledger, saved.ledger},
         stripe.paid \subseteq stripe'.paid, stripe'.paid \subseteq Sessions,
         pc' \in WebhookSteps => SessionOf(subject') \in stripe'.paid
  PROVE  LInv'
  <1>1. JournalOK(ledger)'
    BY DEF LInv, JournalOK, Shaped, IsPurchase
  <1>2. JournalOK(saved.ledger)'
    BY DEF LInv, JournalOK, Shaped, IsPurchase
  <1> QED BY <1>1, <1>2 DEF LInv, SubjectPaid

\* One credit operation.
LEMMA OperateKeeps ==
  ASSUME LInv, NEW tx \in Entry, NEW result \in Results(ledger, tx), Operate(result), stripe' = stripe,
         tx.type = "purchase" => tx.ref \in stripe.paid, subject' = subject,
         pc' \in WebhookSteps => pc \in WebhookSteps
  PROVE  LInv'
  <1>1. ledger' = result.ledger
    BY DEF Operate
  <1>2. saved' = saved \/ saved'.ledger = ledger'
    BY DEF Operate, Save
  <1>3. JournalOK(result.ledger)
    <2>1. Shaped(ledger)
      BY DEF LInv, JournalOK
    <2>2. /\ Shaped(result.ledger)
          /\ \/ result.ledger.journal = ledger.journal
             \/ /\ result.ledger.journal = Append(ledger.journal, tx)
                /\ Entries(ledger.journal, {tx.type}, tx.ref) = {}
      BY <2>1, ResultsFacts
    <2> QED BY <2>2, JournalKeeps DEF LInv
  <1>4. JournalOK(ledger)'
    BY <1>1, <1>3 DEF JournalOK, Shaped, IsPurchase
  <1>5. JournalOK(saved.ledger)'
    BY <1>2, <1>4 DEF LInv, JournalOK, Shaped, IsPurchase
  <1> QED BY <1>4, <1>5 DEF LInv, SubjectPaid

LEMMA CreditsLInv == LInv /\ IInv /\ (Credited \/ \E tx \in Requests : Reserves(tx)) => LInv'
  <1> SUFFICES ASSUME LInv, IInv, Credited \/ \E tx \in Requests : Reserves(tx) PROVE LInv'
    OBVIOUS
  <1>1. CASE Credited
    <2>1. PICK result \in Results(ledger, Purchase) : Operate(result)
      BY <1>1 DEF Credited
    <2>2. subject \in Events /\ pc \in WebhookSteps /\ UNCHANGED <<stripe, subject>>
      BY <1>1 DEF Credited, IInv, TypeOK, WebhookSteps
    <2>3. Purchase \in Entry /\ Purchase.ref \in stripe.paid
      BY <2>2 DEF Purchase, Entry, Events, SessionOf, LInv, SubjectPaid
    <2> QED BY <2>1, <2>2, <2>3, OperateKeeps
  <1>2. ASSUME NEW tx \in Requests, Reserves(tx) PROVE LInv'
    <2>1. PICK result \in Results(ledger, tx) : Operate(result)
      BY <1>2 DEF Reserves
    <2>2. tx \in Entry /\ tx.type # "purchase"
      BY RequestsAssumption DEF Entry
    <2>3. UNCHANGED <<pc, subject, stripe>>
      BY <1>2 DEF Reserves
    <2> QED BY <2>1, <2>2, <2>3, OperateKeeps
  <1> QED BY <1>1, <1>2

LEMMA GetBalanceLInv == LInv /\ GetBalance => LInv'
  <1> SUFFICES ASSUME LInv, GetBalance PROVE LInv'
    OBVIOUS
  <1> DEFINE k == ReconcileAccount(ledger)
  <1>1. /\ ledger' = k /\ saved'.ledger = ledger' /\ UNCHANGED <<pc, subject, stripe>>
    BY DEF GetBalance, Save
  <1>2. Shaped(k) /\ k.journal = ledger.journal
    BY ProjectionFacts DEF LInv, JournalOK
  <1> HIDE DEF k
  <1>3. JournalOK(k)
    BY <1>2 DEF LInv, JournalOK, IsPurchase
  <1>4. JournalOK(ledger)' /\ JournalOK(saved.ledger)'
    BY <1>1, <1>3 DEF JournalOK, Shaped, IsPurchase
  <1> QED BY <1>1, <1>4 DEF LInv, SubjectPaid

LEMMA BillingLInv ==
  LInv /\ IInv /\ (Billing \/ FirstCheckout \/ Retry) /\ ~Credited => LInv'
  <1> SUFFICES ASSUME LInv, IInv, Billing \/ FirstCheckout \/ Retry, ~Credited PROVE LInv'
    OBVIOUS
  <1>1. CASE FirstCheckout \/ Retry \/ PostLost \/ PaymentCreated \/ IntentLinked
    BY <1>1, JournalFrame DEF FirstCheckout, Retry, PostLost, PaymentCreated, IntentLinked, memory,
                              LInv, WebhookSteps
  <1>2. CASE IntentSaved \/ CheckoutAnswered
    BY <1>2, JournalFrame DEF IntentSaved, CheckoutAnswered, Save, memory, LInv, WebhookSteps
  <1>3. CASE Posted
    <2>1. UNCHANGED <<ledger, saved>> /\ pc' \in {"payment", "idle"} /\ stripe'.paid = stripe.paid
      BY <1>3 DEF Posted, memory, IInv, TypeOK
    <2> QED BY <2>1, JournalFrame DEF LInv, WebhookSteps
  <1>4. CASE Found \/ PaymentPaid \/ Processed
    BY <1>4, JournalFrame DEF Found, PaymentPaid, Processed, LInv, SubjectPaid, WebhookSteps
  <1>5. CASE EventSaved \/ Adopted \/ Acked \/ Failed
    BY <1>5, JournalFrame DEF EventSaved, Adopted, Acked, Failed, Save, memory, LInv, SubjectPaid,
                              WebhookSteps
  <1> QED BY <1>1, <1>2, <1>3, <1>4, <1>5 DEF Billing

LEMMA OthersLInv ==
  ASSUME LInv, IInv,
         \/ OtherSave \/ Tick \/ Forgets \/ Crash \/ UNCHANGED vars
         \/ (\E e \in Events : Delivered(e)) \/ (\E s \in Sessions : Pays(s))
  PROVE  LInv'
  <1>1. CASE OtherSave
    BY <1>1, JournalFrame DEF OtherSave, Save, memory, LInv, SubjectPaid
  <1>2. CASE Tick
    <2>1. saved'.ledger = saved.ledger
      <3>1. saved = [ledger |-> saved.ledger, books |-> saved.books]
        BY DEF IInv, TypeOK
      <3>2. saved' = [saved EXCEPT !.books = Older(saved.books)]
        BY <1>2 DEF Tick
      <3> QED BY <3>1, <3>2
    <2>2. stripe'.paid = stripe.paid
      BY <1>2 DEF Tick, IInv, TypeOK
    <2> QED BY <1>2, <2>1, <2>2, JournalFrame DEF Tick, LInv, SubjectPaid
  <1>3. CASE Forgets
    <2>1. stripe'.paid = stripe.paid
      BY <1>3 DEF Forgets, IInv, TypeOK
    <2> QED BY <1>3, <2>1, JournalFrame DEF Forgets, memory, LInv, SubjectPaid
  <1>4. CASE Crash
    BY <1>4, JournalFrame DEF Crash, LInv, WebhookSteps
  <1>5. CASE UNCHANGED vars
    BY <1>5, JournalFrame DEF vars, memory, LInv, SubjectPaid
  <1>6. ASSUME NEW e \in Events, Delivered(e) PROVE LInv'
    BY <1>6, JournalFrame DEF Delivered, LInv, SubjectPaid
  <1>7. ASSUME NEW s \in Sessions, Pays(s) PROVE LInv'
    <2>1. stripe'.paid = stripe.paid \cup {s}
      BY <1>7 DEF Pays, IInv, TypeOK
    <2> QED BY <1>7, <2>1, JournalFrame DEF Pays, memory, LInv, SubjectPaid
  <1> QED BY <1>1, <1>2, <1>3, <1>4, <1>5, <1>6, <1>7

LEMMA JournalInvariance == Spec => []LInv
  <1>1. IInv /\ LInv /\ [Next]_vars => LInv'
    <2> SUFFICES ASSUME IInv, LInv, [Next]_vars PROVE LInv'
      OBVIOUS
    <2>1. CASE Credited \/ \E tx \in Requests : Reserves(tx)
      BY <2>1, CreditsLInv
    <2>2. CASE GetBalance
      BY <2>2, GetBalanceLInv
    <2>3. CASE (Billing \/ FirstCheckout \/ Retry) /\ ~Credited
      BY <2>3, BillingLInv
    <2>4. CASE \/ OtherSave \/ Tick \/ Forgets \/ Crash \/ UNCHANGED vars
               \/ (\E e \in Events : Delivered(e)) \/ (\E s \in Sessions : Pays(s))
      BY <2>4, OthersLInv
    <2> QED BY <2>1, <2>2, <2>3, <2>4 DEF Next
  <1> QED BY <1>1, InitLInv, Invariance, PTL DEF Spec

\* A session is credited once, and only when it is paid, in memory and on
\* disk, whichever of its events report it, however often, over any crashes.
THEOREM CreditsOnce == Spec => []CreditedOnce
  <1>1. ASSUME NEW l, JournalOK(l), stripe.paid \subseteq Sessions, NEW s \in Sessions
        PROVE  Cardinality(Purchases(l, s)) <= 1 /\ (Purchases(l, s) # {} => s \in stripe.paid)
    <2>1. DOMAIN l.journal = 1 .. Len(l.journal)
      BY <1>1 DEF JournalOK
    <2>2. \A i \in Purchases(l, s) : /\ i \in 1 .. Len(l.journal) /\ IsPurchase(l, i)
                                     /\ l.journal[i].ref = s /\ s \in stripe.paid
      <3> SUFFICES ASSUME NEW i \in Purchases(l, s)
                   PROVE  /\ i \in 1 .. Len(l.journal) /\ IsPurchase(l, i)
                          /\ l.journal[i].ref = s /\ s \in stripe.paid
        OBVIOUS
      <3>1. /\ i \in 1 .. Len(l.journal) /\ l.journal[i].type = "purchase"
            /\ l.journal[i].ref \in {s} \cup {s} \X EventKinds
        BY <2>1 DEF Purchases
      <3>2. l.journal[i].ref \in stripe.paid
        BY <1>1, <3>1 DEF JournalOK, IsPurchase
      <3>3. l.journal[i].ref = s
        BY <1>1, <3>1, <3>2, SessionsAssumption
      <3> QED BY <3>1, <3>2, <3>3 DEF IsPurchase
    <2>3. \A i, j \in Purchases(l, s) : i = j
      BY <1>1, <2>2 DEF JournalOK
    <2>4. CASE Purchases(l, s) = {}
      BY <2>4, FS_EmptySet
    <2>5. CASE Purchases(l, s) # {}
      <3>1. PICK i : i \in Purchases(l, s)
        BY <2>5
      <3>2. Purchases(l, s) = {i}
        BY <2>3, <3>1
      <3>3. Cardinality(Purchases(l, s)) = 1
        BY <3>2, FS_Singleton
      <3> QED BY <2>2, <3>1, <3>3
    <2> QED BY <2>4, <2>5
  <1>2. LInv => CreditedOnce
    BY <1>1 DEF LInv, CreditedOnce
  <1> QED BY <1>2, JournalInvariance, PTL

----------------------------------------------------------------------------
(* What is marked as processed has been credited.                          *)

Has(l, s) == \E i \in 1 .. Len(l.journal) : IsPurchase(l, i) /\ l.journal[i].ref = s

PInv ==
  /\ \A e \in Events : books.event[e] = "processed" => Has(ledger, SessionOf(e))
  /\ \A e \in Events : saved.books.event[e] = "processed" => Has(saved.ledger, SessionOf(e))
  /\ pc \in {"processed", "ack"} => Has(ledger, SessionOf(subject))

\* Memory and snapshot are judged by what they hold; a save copies both.
LEMMA ProcessedFrame ==
  ASSUME PInv,
         \A s \in Sessions : Has(ledger, s) => Has(ledger', s),
         \A e \in Events : books'.event[e] = "processed" =>
            books.event[e] = "processed" \/ Has(ledger', SessionOf(e)),
         \/ saved'.ledger = saved.ledger /\ saved'.books.event = saved.books.event
         \/ saved'.ledger = ledger' /\ saved'.books = books',
         pc' \in {"processed", "ack"} => Has(ledger', SessionOf(subject'))
  PROVE  PInv'
  <1>1. \A e \in Events : SessionOf(e) \in Sessions
    BY DEF Events, SessionOf
  <1>2. \A e \in Events : books'.event[e] = "processed" => Has(ledger', SessionOf(e))
    BY <1>1 DEF PInv
  <1>3. \A e \in Events : saved'.books.event[e] = "processed" => Has(saved'.ledger, SessionOf(e))
    BY <1>2 DEF PInv
  <1> QED BY <1>2, <1>3 DEF PInv, Has, IsPurchase, SessionOf

\* Journals only grow.
LEMMA AppendHas ==
  ASSUME NEW l, JournalOK(l), NEW k, NEW tx \in Entry,
         k.journal = l.journal \/ k.journal = Append(l.journal, tx)
  PROVE  /\ \A s \in Sessions : Has(l, s) => Has(k, s)
         /\ k.journal = Append(l.journal, tx) /\ tx.type = "purchase" => Has(k, tx.ref)
  <1>1. CASE k.journal = l.journal
    <2>1. Len(Append(l.journal, tx)) = Len(l.journal) + 1 /\ Len(l.journal) \in Nat
      BY DEF JournalOK
    <2>2. k.journal # Append(l.journal, tx)
      BY <1>1, <2>1
    <2> QED BY <1>1, <2>2 DEF Has, IsPurchase
  <1>2. CASE k.journal = Append(l.journal, tx)
    <2>1. /\ Len(k.journal) = Len(l.journal) + 1 /\ Len(l.journal) \in Nat
          /\ \A i \in 1 .. Len(l.journal) : k.journal[i] = l.journal[i]
          /\ k.journal[Len(l.journal) + 1] = tx
      BY <1>2 DEF JournalOK
    <2>2. 1 .. Len(l.journal) \subseteq 1 .. Len(k.journal) /\ Len(l.journal) + 1 \in 1 .. Len(k.journal)
      BY <2>1
    <2> QED BY <2>1, <2>2 DEF Has, IsPurchase
  <1> QED BY <1>1, <1>2

\* An operation that is answered has its transaction in the journal.
LEMMA AnsweredHas ==
  ASSUME NEW l, JournalOK(l), NEW tx \in Entry, tx.type = "purchase",
         NEW result \in Results(l, tx), result.answer = "ok"
  PROVE  Has(result.ledger, tx.ref)
  <1>1. CASE Entries(l.journal, {tx.type}, tx.ref) = {}
    <2>1. Shaped(l)
      BY DEF JournalOK
    <2> DEFINE ready == Prepared(l, tx)
               reserved == Reserved(Journalled(ready, tx), tx)
    <2>2. result = Result("ok", Accounted(reserved, tx))
      <3>1. result \in FirstUse(l, tx)
        BY <1>1 DEF Results
      <3> HIDE DEF ready, reserved
      <3> QED BY <3>1 DEF FirstUse, Result, Cut, ready, reserved
    <2>3. Shaped(ReconcileAccount(l)) /\ ReconcileAccount(l).journal = l.journal
      BY <2>1, ProjectionFacts
    <2>4. Shaped(ready) /\ ready.journal = l.journal
      BY <2>3, ProjectionFacts DEF Prepared
    <2> HIDE DEF ready
    <2>5. Shaped(Journalled(ready, tx)) /\ Journalled(ready, tx).journal = Append(l.journal, tx)
      <3>1. /\ Shaped(Journalled(ready, tx))
            /\ Journalled(ready, tx).journal = Append(ready.journal, tx)
        BY <2>4, ProjectionFacts
      <3> QED BY <2>4, <3>1
    <2>6. Shaped(reserved) /\ reserved.journal = Append(l.journal, tx)
      BY <2>5, ProjectionFacts
    <2> HIDE DEF reserved
    <2>7. Accounted(reserved, tx).journal = Append(l.journal, tx)
      BY <2>6, ProjectionFacts
    <2>8. result.ledger.journal = Append(l.journal, tx)
      BY <2>2, <2>7 DEF Result
    <2> QED BY <2>8, AppendHas
  <1>2. CASE Entries(l.journal, {tx.type}, tx.ref) # {}
    <2>1. PICK i \in DOMAIN l.journal : l.journal[i].type = tx.type /\ l.journal[i].ref = tx.ref
      BY <1>2 DEF Entries
    <2>2. Has(l, tx.ref)
      BY <2>1 DEF Has, IsPurchase, JournalOK
    <2>3. \/ result.ledger.journal = l.journal
          \/ result.ledger.journal = Append(l.journal, tx)
      BY ResultsFacts DEF JournalOK
    <2> QED BY <2>2, <2>3, AppendHas DEF Entry, Has, IsPurchase
  <1> QED BY <1>1, <1>2

LEMMA InitPInv == Init => PInv
  BY NoneAssumption DEF Init, EmptyBooks, PInv, SessionOf

LEMMA CreditsPInv ==
  IInv /\ LInv /\ PInv /\ (Credited \/ \E tx \in Requests : Reserves(tx)) => PInv'
  <1> SUFFICES ASSUME IInv, LInv, PInv, Credited \/ \E tx \in Requests : Reserves(tx) PROVE PInv'
    OBVIOUS
  <1>1. ASSUME NEW tx \in Entry, NEW result \in Results(ledger, tx), Operate(result), UNCHANGED books
        PROVE  /\ \A s \in Sessions : Has(ledger, s) => Has(ledger', s)
               /\ \/ saved'.ledger = saved.ledger /\ saved'.books.event = saved.books.event
                  \/ saved'.ledger = ledger' /\ saved'.books = books'
               /\ tx.type = "purchase" /\ result.answer = "ok" => Has(ledger', tx.ref)
    <2>1. ledger' = result.ledger
      BY <1>1 DEF Operate
    <2>2. JournalOK(ledger)
      BY DEF LInv
    <2>3. result.ledger.journal = ledger.journal \/ result.ledger.journal = Append(ledger.journal, tx)
      BY <2>2, ResultsFacts DEF JournalOK
    <2>4. \A s \in Sessions : Has(ledger, s) => Has(ledger', s)
      BY <2>1, <2>2, <2>3, AppendHas
    <2>5. \/ saved'.ledger = saved.ledger /\ saved'.books.event = saved.books.event
          \/ saved'.ledger = ledger' /\ saved'.books = books'
      BY <1>1 DEF Operate, Save
    <2>6. tx.type = "purchase" /\ result.answer = "ok" => Has(ledger', tx.ref)
      BY <2>1, <2>2, AnsweredHas
    <2> QED BY <2>4, <2>5, <2>6
  <1>2. CASE Credited
    <2>1. PICK result \in Results(ledger, Purchase) :
            Operate(result) /\ pc' = (IF result.answer = "ok" THEN "processed" ELSE "failed")
      BY <1>2 DEF Credited
    <2>2. subject \in Events /\ UNCHANGED <<books, subject>>
      BY <1>2 DEF Credited, IInv, TypeOK, WebhookSteps
    <2>3. Purchase \in Entry /\ Purchase.type = "purchase" /\ Purchase.ref = SessionOf(subject)
      BY <2>2 DEF Purchase, Entry, Events, SessionOf
    <2> QED BY <1>1, <2>1, <2>2, <2>3, ProcessedFrame
  <1>3. ASSUME NEW tx \in Requests, Reserves(tx) PROVE PInv'
    <2>1. PICK result \in Results(ledger, tx) : Operate(result)
      BY <1>3 DEF Reserves
    <2>2. tx \in Entry /\ UNCHANGED <<books, pc, subject>>
      BY <1>3 DEF Entry, Reserves
    <2>3. pc \in {"processed", "ack"} => SessionOf(subject) \in Sessions
      BY DEF IInv, TypeOK, WebhookSteps, Events, SessionOf
    <2>4. pc' \in {"processed", "ack"} => Has(ledger', SessionOf(subject'))
      BY <1>1, <2>1, <2>2, <2>3 DEF PInv
    <2> QED BY <1>1, <2>1, <2>2, <2>4, ProcessedFrame
  <1> QED BY <1>2, <1>3

LEMMA GetBalancePInv == IInv /\ LInv /\ PInv /\ GetBalance => PInv'
  <1> SUFFICES ASSUME IInv, LInv, PInv, GetBalance PROVE PInv'
    OBVIOUS
  <1>1. UNCHANGED <<books, pc, subject>> /\ saved'.ledger = ledger' /\ saved'.books = books'
        /\ ledger' = ReconcileAccount(ledger)
    BY DEF GetBalance, Save
  <1>2. ledger'.journal = ledger.journal
    BY <1>1, ProjectionFacts DEF LInv, JournalOK
  <1>3. \A s : Has(ledger', s) <=> Has(ledger, s)
    BY <1>2 DEF Has, IsPurchase
  <1> QED BY <1>1, <1>3, ProcessedFrame DEF PInv

\* Steps of billing change no journal; only one that has seen its credits in
\* the journal marks its event.
LEMMA BillingPInv ==
  IInv /\ PInv /\ (Billing \/ FirstCheckout \/ Retry) /\ ~Credited => PInv'
  <1> SUFFICES ASSUME IInv, PInv, Billing \/ FirstCheckout \/ Retry, ~Credited PROVE PInv'
    OBVIOUS
  <1>1. books \in Books
    BY DEF IInv, TypeOK
  <1>2. CASE Retry \/ Posted \/ PostLost
    BY <1>2, ProcessedFrame DEF Retry, Posted, PostLost, memory
  <1>3. CASE IntentSaved \/ CheckoutAnswered \/ EventSaved
    BY <1>3, ProcessedFrame DEF IntentSaved, CheckoutAnswered, EventSaved, Save, memory
  <1>4. CASE Acked
    BY <1>4, ProcessedFrame DEF Acked, Save, memory
  <1>5. CASE FirstCheckout \/ IntentLinked \/ Adopted
    <2>1. books'.event = books.event /\ ledger' = ledger /\ pc' \notin {"processed", "ack"}
          /\ (UNCHANGED saved \/ Save)
      BY <1>1, <1>5 DEF FirstCheckout, IntentLinked, Adopted, Books
    <2> QED BY <2>1, ProcessedFrame DEF Save
  <1>6. CASE PaymentCreated \/ Found \/ PaymentPaid
    <2>1. books'.event = books.event /\ UNCHANGED <<ledger, saved>> /\ pc' \notin {"processed", "ack"}
      BY <1>1, <1>6 DEF PaymentCreated, Found, PaymentPaid, WithPayment, Books
    <2> QED BY <2>1, ProcessedFrame
  <1>7. CASE Processed
    <2>1. /\ subject \in Events /\ UNCHANGED <<ledger, saved, subject>>
          /\ Has(ledger, SessionOf(subject))
          /\ books' = [books EXCEPT !.event[subject] = "processed"]
      BY <1>7 DEF Processed, Marked, PInv, IInv, TypeOK, WebhookSteps
    <2>2. \A e \in Events : e # subject => books'.event[e] = books.event[e]
      BY <1>1, <2>1 DEF Books
    <2> QED BY <2>1, <2>2, ProcessedFrame
  <1>8. CASE Failed
    <2>1. /\ subject \in Events /\ ledger' = ledger /\ Save /\ pc' = "idle"
          /\ books' = [books EXCEPT !.event[subject] = "failed"]
      BY <1>8 DEF Failed, Marked, IInv, TypeOK, WebhookSteps
    <2>2. \A e \in Events : books'.event[e] = "processed" => books.event[e] = "processed"
      BY <1>1, <2>1 DEF Books
    <2> QED BY <2>1, <2>2, ProcessedFrame DEF Save
  <1> QED BY <1>2, <1>3, <1>4, <1>5, <1>6, <1>7, <1>8 DEF Billing

LEMMA OthersPInv ==
  ASSUME IInv, PInv,
         \/ OtherSave \/ Tick \/ Forgets \/ Crash \/ UNCHANGED vars
         \/ (\E e \in Events : Delivered(e)) \/ (\E s \in Sessions : Pays(s))
  PROVE  PInv'
  <1>1. CASE OtherSave
    BY <1>1, ProcessedFrame DEF OtherSave, Save, memory, PInv
  <1>2. CASE Tick
    <2>1. \A b \in Books : Older(b).event = b.event
      BY DEF Older, Books
    <2>2. saved = [ledger |-> saved.ledger, books |-> saved.books] /\ saved.books \in Books
          /\ books \in Books
      BY DEF IInv, TypeOK
    <2>3. /\ saved' = [saved EXCEPT !.books = Older(saved.books)] /\ books' = Older(books)
          /\ UNCHANGED <<ledger, pc, subject>>
      BY <1>2 DEF Tick
    <2>4. saved'.ledger = saved.ledger /\ saved'.books = Older(saved.books)
      BY <2>2, <2>3
    <2> QED BY <2>1, <2>2, <2>3, <2>4, ProcessedFrame DEF PInv
  <1>3. CASE Forgets \/ UNCHANGED vars
    BY <1>3, ProcessedFrame DEF Forgets, vars, memory, PInv
  <1>4. CASE Crash
    <2>1. ledger' = saved.ledger /\ books' = saved.books /\ saved' = saved /\ pc' = "idle"
      BY <1>4 DEF Crash
    <2> QED BY <2>1 DEF PInv, Has, IsPurchase, SessionOf
  <1>5. ASSUME NEW e \in Events, Delivered(e) PROVE PInv'
    <2>1. books \in Books /\ pc = "idle" /\ UNCHANGED <<ledger, saved>>
      BY <1>5 DEF Delivered, IInv, TypeOK
    <2>2. (books' = books \/ books' = [books EXCEPT !.event[e] = "processing"])
          /\ pc' \in {"idle", "event"}
      BY <1>5 DEF Delivered
    <2>3. \A f \in Events : books'.event[f] = "processed" => books.event[f] = "processed"
      BY <2>1, <2>2 DEF Books
    <2> QED BY <2>1, <2>2, <2>3, ProcessedFrame
  <1>6. ASSUME NEW s \in Sessions, Pays(s) PROVE PInv'
    BY <1>6, ProcessedFrame DEF Pays, memory, PInv
  <1> QED BY <1>1, <1>2, <1>3, <1>4, <1>5, <1>6

\* An event that the snapshot has as processed, and that is only answered from
\* then on, left its credits in the same snapshot.
THEOREM ProcessedMeansCredited == Spec => []ProcessedIsCredited
  <1>1. IInv /\ LInv /\ PInv /\ [Next]_vars => PInv'
    <2> SUFFICES ASSUME IInv, LInv, PInv, [Next]_vars PROVE PInv'
      OBVIOUS
    <2>1. CASE Credited \/ \E tx \in Requests : Reserves(tx)
      BY <2>1, CreditsPInv
    <2>2. CASE GetBalance
      BY <2>2, GetBalancePInv
    <2>3. CASE (Billing \/ FirstCheckout \/ Retry) /\ ~Credited
      BY <2>3, BillingPInv
    <2>4. CASE \/ OtherSave \/ Tick \/ Forgets \/ Crash \/ UNCHANGED vars
               \/ (\E e \in Events : Delivered(e)) \/ (\E s \in Sessions : Pays(s))
      BY <2>4, OthersPInv
    <2> QED BY <2>1, <2>2, <2>3, <2>4 DEF Next
  <1>2. LInv /\ PInv => ProcessedIsCredited
    <2> SUFFICES ASSUME LInv, PInv, NEW e \in Events, saved.books.event[e] = "processed"
                 PROVE  Purchases(saved.ledger, SessionOf(e)) # {}
      BY DEF ProcessedIsCredited
    <2>1. PICK i \in 1 .. Len(saved.ledger.journal) :
            saved.ledger.journal[i].type = "purchase" /\ saved.ledger.journal[i].ref = SessionOf(e)
      BY DEF PInv, Has, IsPurchase
    <2>2. i \in DOMAIN saved.ledger.journal
      BY DEF LInv, JournalOK
    <2> QED BY <2>1, <2>2 DEF Purchases
  <1> QED BY <1>1, <1>2, InitPInv, Invariance, JournalInvariance, PTL DEF Spec

----------------------------------------------------------------------------
(* Induction: whatever holds of no least number holds of none.             *)

Less == {p \in Nat \X Nat : p[1] < p[2]}

LEMMA Least ==
  ASSUME NEW S \in SUBSET Nat, S # {}
  PROVE  \E n \in S : \A m \in S : n <= m
  <1>1. OpToRel(<, Nat) = Less
    BY DEF OpToRel, Less
  <1>2. IsWellFoundedOn(Less, Nat)
    BY <1>1, NatLessThanWellFounded, Zenon
  <1>3. PICK n \in S : \A m \in S : <<m, n>> \notin Less
    BY <1>2, WFMin
  <1>4. \A m \in S : m < n => <<m, n>> \in Less
    BY DEF Less
  <1>5. \A m \in S : ~(m < n)
    BY <1>3, <1>4
  <1>6. \A m \in S : m \in Nat
    OBVIOUS
  <1>7. \A m \in S : n <= m
    BY <1>5, <1>6
  <1> QED BY <1>7

\* The recursion that defines the balances has a solution.
Solves(f, journal, k) ==
  f = [n \in 0 .. k |-> IF n = 0 THEN EmptyLedger.account ELSE Counted(f[n - 1], journal[n])]

LEMMA Solvable ==
  ASSUME NEW journal, NEW k \in Nat
  PROVE  \E f : Solves(f, journal, k)
  <1> DEFINE Bad == {n \in Nat : ~\E f : Solves(f, journal, n)}
  <1> SUFFICES ASSUME Bad # {} PROVE FALSE
    OBVIOUS
  <1>1. PICK n \in Bad : \A m \in Bad : n <= m
    <2> HIDE DEF Bad
    <2>1. Bad \in SUBSET Nat
      BY DEF Bad
    <2> QED BY <2>1, Least
  <1>2. CASE n = 0
    <2> DEFINE f == [i \in 0 .. 0 |-> EmptyLedger.account]
    <2>1. Solves(f, journal, 0)
      BY DEF Solves
    <2> QED BY <1>1, <1>2, <2>1
  <1>3. CASE n # 0
    <2>1. n \in Nat /\ n - 1 \in Nat /\ n - 1 \notin Bad
      BY <1>1, <1>3
    <2>2. PICK g : Solves(g, journal, n - 1)
      BY <2>1
    <2> DEFINE f == [i \in 0 .. n |-> IF i = n THEN Counted(g[n - 1], journal[n]) ELSE g[i]]
    <2>3. \A i \in 0 .. n : f[i] = IF i = 0 THEN EmptyLedger.account ELSE Counted(f[i - 1], journal[i])
      <3> SUFFICES ASSUME NEW i \in 0 .. n
                   PROVE  f[i] = IF i = 0 THEN EmptyLedger.account ELSE Counted(f[i - 1], journal[i])
        OBVIOUS
      <3>1. CASE i = n
        BY <1>3, <2>1, <3>1
      <3>2. CASE i # n
        <4>1. i \in 0 .. n - 1 /\ f[i] = g[i]
          BY <2>1, <3>2
        <4>2. g[i] = IF i = 0 THEN EmptyLedger.account ELSE Counted(g[i - 1], journal[i])
          BY <2>2, <4>1 DEF Solves
        <4>3. CASE i = 0
          BY <4>1, <4>2, <4>3
        <4>4. CASE i # 0
          <5>1. i - 1 \in 0 .. n /\ i - 1 # n
            BY <2>1, <4>1, <4>4
          <5>2. f[i - 1] = g[i - 1]
            BY <5>1
          <5> QED BY <4>1, <4>2, <4>4, <5>2
        <4> QED BY <4>3, <4>4
      <3> QED BY <3>1, <3>2
    <2>4. Solves(f, journal, n)
      <3>1. f = [i \in 0 .. n |-> f[i]]
        OBVIOUS
      <3> HIDE DEF f
      <3> QED BY <2>3, <3>1 DEF Solves
    <2> QED BY <1>1, <2>4
  <1> QED BY <1>2, <1>3

LEMMA BalancesSolve ==
  ASSUME NEW journal, Len(journal) \in Nat
  PROVE  /\ Balances(journal)[0] = EmptyLedger.account
         /\ \A n \in 1 .. Len(journal) :
              Balances(journal)[n] = Counted(Balances(journal)[n - 1], journal[n])
  <1>1. Solves(Balances(journal), journal, Len(journal))
    <2>1. Balances(journal) = CHOOSE f : Solves(f, journal, Len(journal))
      BY DEF Balances, Solves
    <2> QED BY <2>1, Solvable
  <1> QED BY <1>1 DEF Solves

\* What is counted already is not changed by a transaction that follows.
LEMMA BalancesPrefix ==
  ASSUME NEW T, NEW journal \in Seq(T), NEW tx \in T, NEW n \in 0 .. Len(journal)
  PROVE  Balances(Append(journal, tx))[n] = Balances(journal)[n]
  <1> DEFINE k == Append(journal, tx)
             Bad == {i \in Nat : i \in 0 .. Len(journal) /\ Balances(k)[i] # Balances(journal)[i]}
  <1> SUFFICES ASSUME Bad # {} PROVE FALSE
    BY DEF Bad
  <1>1. PICK i \in Bad : \A m \in Bad : i <= m
    <2> HIDE DEF Bad
    <2>1. Bad \in SUBSET Nat
      BY DEF Bad
    <2> QED BY <2>1, Least
  <1>2. /\ Len(journal) \in Nat /\ Len(k) = Len(journal) + 1
        /\ \A m \in 1 .. Len(journal) : k[m] = journal[m]
    OBVIOUS
  <1> HIDE DEF k
  <1>3. CASE i = 0
    BY <1>1, <1>2, <1>3, BalancesSolve
  <1>4. CASE i # 0
    <2>1. i \in 1 .. Len(journal) /\ i \in 1 .. Len(k) /\ i - 1 \in 0 .. Len(journal) /\ i - 1 \in Nat
      BY <1>1, <1>2, <1>4
    <2>2. i - 1 \notin Bad
      BY <1>1, <2>1
    <2>3. Balances(k)[i - 1] = Balances(journal)[i - 1] /\ k[i] = journal[i]
      BY <1>2, <2>1, <2>2
    <2>4. Balances(journal)[i] = Counted(Balances(journal)[i - 1], journal[i])
      BY <1>2, <2>1, BalancesSolve
    <2>5. Balances(k)[i] = Counted(Balances(k)[i - 1], k[i])
      <3>1. Len(k) \in Nat
        BY <1>2
      <3> QED BY <2>1, <3>1, BalancesSolve
    <2> QED BY <1>1, <2>3, <2>4, <2>5
  <1> QED BY <1>3, <1>4

\* Replaying a longer journal counts one transaction more.
LEMMA ReplayAppend ==
  ASSUME NEW T, NEW journal \in Seq(T), NEW tx \in T
  PROVE  Replay(Append(journal, tx)) = Counted(Replay(journal), tx)
  <1> DEFINE k == Append(journal, tx)
             l == Len(journal)
  <1>1. l \in Nat /\ Len(k) = l + 1 /\ k[l + 1] = tx
    OBVIOUS
  <1>2. Balances(k)[l] = Balances(journal)[l]
    BY <1>1, BalancesPrefix
  <1> HIDE DEF k, l
  <1>3. Len(k) \in Nat /\ l + 1 \in 1 .. Len(k) /\ (l + 1) - 1 = l
    BY <1>1
  <1>4. Balances(k)[l + 1] = Counted(Balances(k)[l], tx)
    BY <1>1, <1>3, BalancesSolve
  <1> QED BY <1>1, <1>2, <1>4 DEF Replay, k, l

LEMMA EntriesAppend ==
  ASSUME NEW T, NEW journal \in Seq(T), NEW tx \in T, NEW types, NEW ref
  PROVE  Entries(Append(journal, tx), types, ref)
           = Entries(journal, types, ref) \cup {t \in {tx} : t.type \in types /\ t.ref = ref}
  <1> DEFINE k == Append(journal, tx)
  <1>1. /\ Len(journal) \in Nat /\ DOMAIN journal = 1 .. Len(journal)
        /\ DOMAIN k = 1 .. Len(journal) + 1
        /\ \A i \in 1 .. Len(journal) : k[i] = journal[i]
        /\ k[Len(journal) + 1] = tx
    OBVIOUS
  <1> HIDE DEF k
  <1>2. \A i \in 1 .. Len(journal) + 1 : i \in 1 .. Len(journal) \/ i = Len(journal) + 1
    BY <1>1
  <1>3. 1 .. Len(journal) \subseteq 1 .. Len(journal) + 1 /\ Len(journal) + 1 \in 1 .. Len(journal) + 1
    BY <1>1
  <1>4. Entries(k, types, ref) \subseteq Entries(journal, types, ref) \cup {t \in {tx} : t.type \in types /\ t.ref = ref}
    BY <1>1, <1>2 DEF Entries
  <1>5. Entries(journal, types, ref) \subseteq Entries(k, types, ref)
    BY <1>1, <1>3 DEF Entries
  <1>6. tx.type \in types /\ tx.ref = ref => tx \in Entries(k, types, ref)
    BY <1>1, <1>3 DEF Entries
  <1> QED BY <1>4, <1>5, <1>6 DEF k

----------------------------------------------------------------------------
(* The ledger.                                                             *)

Closing == {"spend", "release"}
Opened(tx) == [tx EXCEPT !.type = "reserve"]

SoundJournal(l) ==
  /\ \A n \in 0 .. Len(l.journal) : ~Negative(Balances(l.journal)[n])
  /\ \A ref \in References :
       /\ \A tx, ty \in Entries(l.journal, Closing, ref) : tx = ty
       /\ \A tx \in Entries(l.journal, Closing, ref) : Opened(tx) \in Entries(l.journal, {"reserve"}, ref)

(* A reservation's record stands on an entry of the journal.               *)
RecordsOpened(l) ==
  /\ l.reservation = [ref \in References |-> l.reservation[ref]]
  /\ \A ref \in References : l.reservation[ref] # None => Entries(l.journal, {"reserve"}, ref) # {}

Sound(l) == SoundJournal(l) /\ RecordsOpened(l)

SInv ==
  /\ Sound(ledger) /\ Sound(saved.ledger)
  /\ answered => ledger.account = Replay(ledger.journal)

\* What is in the journal, by type.
LEMMA EntryFacts ==
  ASSUME NEW tx \in Entry
  PROVE  /\ tx.type = "purchase" => ~IsReservation(tx)
         /\ tx.type # "purchase" => /\ tx \in Requests /\ IsReservation(tx) /\ tx.ref \in References
                                   /\ tx = [type |-> tx.type, ref |-> tx.ref, amount |-> tx.amount]
  BY RequestsAssumption DEF Entry, IsReservation

LEMMA EntriesFacts ==
  ASSUME NEW journal \in Seq(Entry), NEW types, NEW ref
  PROVE  \A tx \in Entries(journal, types, ref) : tx \in Entry /\ tx.type \in types /\ tx.ref = ref
  <1>1. \A i \in DOMAIN journal : journal[i] \in Entry
    OBVIOUS
  <1> QED BY <1>1 DEF Entries

\* An account that is reconciled agrees with the journal.
LEMMA ReconciledAccount ==
  ASSUME NEW l, Shaped(l)
  PROVE  /\ ReconcileAccount(l).journal = l.journal /\ ReconcileAccount(l).reservation = l.reservation
         /\ ReconcileAccount(l).account = Replay(l.journal) /\ Shaped(ReconcileAccount(l))
  <1>1. \A x : /\ [l EXCEPT !.account = x].journal = l.journal
               /\ [l EXCEPT !.account = x].reservation = l.reservation
               /\ [l EXCEPT !.account = x].account = x
    BY DEF Shaped
  <1> QED BY <1>1, ProjectionFacts DEF ReconcileAccount

\* A reservation that is reconciled has the status and amount of the journal.
LEMMA ReconciledReservation ==
  ASSUME NEW l, Shaped(l), RecordsOpened(l), NEW ref \in References
  PROVE  LET k == ReconcileReservation(l, ref)
             opening == Entries(l.journal, {"reserve"}, ref)
         IN  /\ Shaped(k) /\ k.journal = l.journal /\ k.account = l.account /\ RecordsOpened(k)
             /\ k.reservation[ref] # None =>
                  /\ k.reservation[ref].status = JournalStatus(l.journal, ref)
                  /\ \E tx \in opening : k.reservation[ref].amount = tx.amount
  <1> DEFINE k == ReconcileReservation(l, ref)
             opening == Entries(l.journal, {"reserve"}, ref)
  <1>1. CASE opening = {}
    <2>1. k = l /\ l.reservation[ref] = None
      BY <1>1 DEF ReconcileReservation, RecordsOpened
    <2> QED BY <2>1
  <1>2. CASE opening # {}
    <2> DEFINE tx == CHOOSE t \in opening : TRUE
               r == [status |-> JournalStatus(l.journal, ref), amount |-> tx.amount]
    <2>1. tx \in opening
      BY <1>2
    <2>2. k = [l EXCEPT !.reservation = [l.reservation EXCEPT ![ref] = r]]
      BY <1>2 DEF ReconcileReservation
    <2>3. r.status = JournalStatus(l.journal, ref) /\ r.amount = tx.amount
      OBVIOUS
    <2> HIDE DEF tx, r, k
    <2>4. /\ k.journal = l.journal /\ k.account = l.account
          /\ k.reservation = [l.reservation EXCEPT ![ref] = r]
      BY <2>2 DEF Shaped
    <2>5. Shaped(k)
      BY ProjectionFacts DEF k
    <2>6. k.reservation[ref] = r /\ RecordsOpened(k)
      BY <1>2, <2>4 DEF RecordsOpened
    <2> QED BY <2>1, <2>3, <2>4, <2>5, <2>6 DEF k
  <1> QED BY <1>1, <1>2

\* Before an operation decides, account and record agree with the journal.
LEMMA PreparedFacts ==
  ASSUME NEW l, Shaped(l), RecordsOpened(l), NEW tx \in Entry
  PROVE  LET ready == Prepared(l, tx)
         IN  /\ Shaped(ready) /\ ready.journal = l.journal /\ ready.account = Replay(l.journal)
             /\ RecordsOpened(ready)
             /\ IsReservation(tx) /\ ready.reservation[tx.ref] # None =>
                  /\ ready.reservation[tx.ref].status = JournalStatus(l.journal, tx.ref)
                  /\ \E ty \in Entries(l.journal, {"reserve"}, tx.ref) :
                       ready.reservation[tx.ref].amount = ty.amount
  <1> DEFINE k == ReconcileAccount(l)
  <1>1. /\ k.journal = l.journal /\ k.reservation = l.reservation /\ k.account = Replay(l.journal)
        /\ Shaped(k)
    BY ReconciledAccount
  <1> HIDE DEF k
  <1>2. RecordsOpened(k)
    BY <1>1 DEF RecordsOpened
  <1>3. CASE IsReservation(tx)
    <2>1. tx.ref \in References
      BY <1>3, EntryFacts
    <2>2. Prepared(l, tx) = ReconcileReservation(k, tx.ref)
      BY <1>3 DEF Prepared, k
    <2> QED BY <1>1, <1>2, <2>1, <2>2, ReconciledReservation
  <1>4. CASE ~IsReservation(tx)
    BY <1>1, <1>2, <1>4 DEF Prepared, k
  <1> QED BY <1>3, <1>4

\* A reservation that the operation may close was opened with that amount and
\* is not closed yet.
LEMMA MayClose ==
  ASSUME NEW l, Shaped(l), RecordsOpened(l), l.journal \in Seq(Entry), NEW tx \in Entry,
         tx.type \in Closing, ~Refuses(Prepared(l, tx), tx)
  PROVE  /\ Entries(l.journal, Closing, tx.ref) = {}
         /\ Opened(tx) \in Entries(l.journal, {"reserve"}, tx.ref)
  <1> DEFINE record == Prepared(l, tx).reservation[tx.ref]
  <1>1. tx.type # "purchase" /\ IsReservation(tx) /\ tx = [type |-> tx.type, ref |-> tx.ref, amount |-> tx.amount]
    BY EntryFacts DEF Closing
  <1>2. record # None /\ record.amount = tx.amount /\ record.status = "reserved"
    BY DEF Refuses, Closing
  <1>3. /\ record.status = JournalStatus(l.journal, tx.ref)
        /\ \E ty \in Entries(l.journal, {"reserve"}, tx.ref) : record.amount = ty.amount
    BY <1>1, <1>2, PreparedFacts
  <1> HIDE DEF record
  <1>4. Entries(l.journal, {"spend"}, tx.ref) = {} /\ Entries(l.journal, {"release"}, tx.ref) = {}
    BY <1>2, <1>3 DEF JournalStatus
  <1>5. Entries(l.journal, Closing, tx.ref) = {}
    BY <1>4 DEF Entries, Closing
  <1>6. PICK ty \in Entries(l.journal, {"reserve"}, tx.ref) : ty.amount = tx.amount
    BY <1>2, <1>3
  <1>7. ty \in Entry /\ ty.type = "reserve" /\ ty.ref = tx.ref
    BY <1>6, EntriesFacts
  <1>8. ty = [type |-> "reserve", ref |-> tx.ref, amount |-> tx.amount]
    BY <1>6, <1>7, EntryFacts
  <1>9. Opened(tx) = ty
    BY <1>1, <1>8 DEF Opened
  <1> QED BY <1>5, <1>6, <1>9

\* A transaction that leaves no balance negative, and closes only what it may,
\* keeps the journal sound.
LEMMA SoundAppend ==
  ASSUME NEW l, SoundJournal(l), l.journal \in Seq(Entry), NEW tx \in Entry,
         ~Negative(Counted(Replay(l.journal), tx)),
         tx.type \in Closing => /\ Entries(l.journal, Closing, tx.ref) = {}
                                /\ Opened(tx) \in Entries(l.journal, {"reserve"}, tx.ref),
         NEW k, k.journal = Append(l.journal, tx)
  PROVE  SoundJournal(k)
  <1>1. Len(l.journal) \in Nat /\ Len(k.journal) = Len(l.journal) + 1
    OBVIOUS
  <1>2. ASSUME NEW n \in 0 .. Len(k.journal) PROVE ~Negative(Balances(k.journal)[n])
    <2>1. CASE n \in 0 .. Len(l.journal)
      <3>1. Balances(k.journal)[n] = Balances(l.journal)[n]
        BY <2>1, BalancesPrefix
      <3> QED BY <2>1, <3>1 DEF SoundJournal
    <2>2. CASE n = Len(k.journal)
      <3>1. Balances(k.journal)[n] = Counted(Replay(l.journal), tx)
        BY <2>2, ReplayAppend DEF Replay
      <3> QED BY <3>1
    <2> QED BY <1>1, <2>1, <2>2
  <1>3. \A types, ref : Entries(k.journal, types, ref)
                        = Entries(l.journal, types, ref) \cup {t \in {tx} : t.type \in types /\ t.ref = ref}
    BY EntriesAppend
  <1>4. ASSUME NEW ref \in References
        PROVE  /\ \A t, u \in Entries(k.journal, Closing, ref) : t = u
               /\ \A t \in Entries(k.journal, Closing, ref) : Opened(t) \in Entries(k.journal, {"reserve"}, ref)
    <2>1. CASE tx.type \in Closing /\ tx.ref = ref
      <3>1. Entries(k.journal, Closing, ref) = {tx}
        BY <1>3, <2>1
      <3> QED BY <1>3, <2>1, <3>1
    <2>2. CASE ~(tx.type \in Closing /\ tx.ref = ref)
      <3>1. {t \in {tx} : t.type \in Closing /\ t.ref = ref} = {}
        BY <2>2
      <3>2. Entries(k.journal, Closing, ref)
              = Entries(l.journal, Closing, ref) \cup {t \in {tx} : t.type \in Closing /\ t.ref = ref}
        BY <1>3
      <3>3. Entries(k.journal, Closing, ref) = Entries(l.journal, Closing, ref)
        BY <3>1, <3>2
      <3> QED BY <1>3, <3>3 DEF SoundJournal
    <2> QED BY <2>1, <2>2
  <1> QED BY <1>2, <1>4 DEF SoundJournal

\* Nothing but the journal and the reservations matters to soundness.
LEMMA SoundFrame ==
  ASSUME NEW l, NEW k, k.journal = l.journal, k.reservation = l.reservation
  PROVE  Sound(l) => Sound(k)
  BY DEF Sound, SoundJournal, RecordsOpened

\* An operation that is new to the journal, wherever it stops.
LEMMA FirstUseSound ==
  ASSUME NEW l, Shaped(l), Sound(l), l.journal \in Seq(Entry), NEW tx \in Entry,
         NEW result \in FirstUse(l, tx)
  PROVE  /\ Sound(result.ledger)
         /\ result.answer # "threw" => result.ledger.account = Replay(result.ledger.journal)
  <1> DEFINE ready == Prepared(l, tx)
             journalled == Journalled(ready, tx)
             reserved == Reserved(journalled, tx)
             accounted == Accounted(reserved, tx)
  <1>1. /\ Shaped(ready) /\ ready.journal = l.journal /\ ready.account = Replay(l.journal)
        /\ RecordsOpened(ready)
    BY PreparedFacts DEF Sound
  <1>2. Sound(ready)
    BY <1>1 DEF Sound, SoundJournal
  <1>3. ASSUME IsReservation(tx), ~Refuses(ready, tx), tx.type \in Closing
        PROVE  /\ Entries(l.journal, Closing, tx.ref) = {}
               /\ Opened(tx) \in Entries(l.journal, {"reserve"}, tx.ref)
    BY <1>3, MayClose DEF Sound
  <1> DEFINE account == ReconcileAccount(l)
  <1>9. Sound(account) /\ account.account = Replay(account.journal)
    <2>1. /\ account.journal = l.journal /\ account.reservation = l.reservation
          /\ account.account = Replay(l.journal)
      BY ReconciledAccount
    <2> HIDE DEF account
    <2> QED BY <2>1, SoundFrame
  <1>4. CASE Negative(Counted(ready.account, tx))
    <2>1. result \in {Result("refused", account), Result("threw", l), Result("threw", account)}
      BY <1>4 DEF FirstUse, Cut
    <2> HIDE DEF account
    <2> QED BY <1>9, <2>1 DEF Result
  <1>5. CASE ~Negative(Counted(ready.account, tx)) /\ IsReservation(tx) /\ Refuses(ready, tx)
    <2>1. result \in {Result("refused", ready), Result("threw", l), Result("threw", account),
                      Result("threw", ready)}
      BY <1>5 DEF FirstUse, Cut
    <2> HIDE DEF account, ready
    <2> QED BY <1>1, <1>2, <1>9, <2>1 DEF Result
  <1>6. CASE ~Negative(Counted(ready.account, tx)) /\ ~(IsReservation(tx) /\ Refuses(ready, tx))
    <2>1. result \in {Result("ok", accounted), Result("threw", l), Result("threw", account),
                      Result("threw", ready), Result("threw", journalled), Result("threw", reserved),
                      Result("threw", accounted)}
      BY <1>6 DEF FirstUse, Cut
    <2> HIDE DEF ready, account
    <2>2. /\ Shaped(journalled) /\ journalled.journal = Append(l.journal, tx)
          /\ journalled.reservation = ready.reservation /\ journalled.account = ready.account
      <3>1. Shaped(journalled) /\ journalled.journal = Append(ready.journal, tx)
        BY <1>1, ProjectionFacts
      <3>2. journalled.reservation = ready.reservation /\ journalled.account = ready.account
        BY <1>1 DEF Journalled, Shaped
      <3> QED BY <1>1, <3>1, <3>2
    <2>3. SoundJournal(journalled)
      <3>1. tx.type \in Closing => IsReservation(tx)
        BY DEF Closing, IsReservation
      <3>2. ~Negative(Counted(Replay(l.journal), tx))
        BY <1>1, <1>6
      <3> HIDE DEF journalled
      <3> QED BY <1>3, <1>6, <2>2, <3>1, <3>2, SoundAppend DEF Sound
    <2>4. \A ref : Entries(l.journal, {"reserve"}, ref) \subseteq Entries(journalled.journal, {"reserve"}, ref)
      <3> HIDE DEF journalled
      <3> QED BY <2>2, EntriesAppend
    <2>5. RecordsOpened(journalled)
      <3> HIDE DEF journalled
      <3> QED BY <1>1, <2>2, <2>4 DEF RecordsOpened
    <2> HIDE DEF journalled
    <2>6. Shaped(reserved) /\ reserved.journal = journalled.journal /\ reserved.account = journalled.account
      <3>1. Shaped(reserved) /\ reserved.journal = journalled.journal
        BY <2>2, ProjectionFacts
      <3>2. \A r : [journalled EXCEPT !.reservation = r].account = journalled.account
        BY <2>2 DEF Shaped
      <3> QED BY <3>1, <3>2 DEF Reserved
    <2>7. RecordsOpened(reserved)
      <3>1. CASE ~IsReservation(tx)
        BY <2>5, <3>1 DEF Reserved, reserved
      <3>2. CASE IsReservation(tx)
        <4>1. PICK r : reserved = [journalled EXCEPT !.reservation = [journalled.reservation EXCEPT ![tx.ref] = r]]
          BY <3>2 DEF Reserved, reserved
        <4>2. reserved.reservation = [journalled.reservation EXCEPT ![tx.ref] = r]
          BY <2>2, <4>1 DEF Shaped
        <4>3. Entries(journalled.journal, {"reserve"}, tx.ref) # {}
          <5>1. CASE tx.type = "reserve"
            <6>1. Entries(journalled.journal, {"reserve"}, tx.ref)
                    = Entries(l.journal, {"reserve"}, tx.ref)
                        \cup {t \in {tx} : t.type \in {"reserve"} /\ t.ref = tx.ref}
              BY <2>2, EntriesAppend
            <6> QED BY <5>1, <6>1
          <5>2. CASE tx.type # "reserve"
            BY <1>3, <1>6, <2>4, <3>2, <5>2 DEF IsReservation, Closing
          <5> QED BY <5>1, <5>2
        <4> HIDE DEF reserved
        <4> QED BY <2>5, <2>6, <4>2, <4>3 DEF RecordsOpened
      <3> QED BY <3>1, <3>2
    <2>8. Sound(reserved)
      BY <2>3, <2>6, <2>7 DEF Sound, SoundJournal
    <2> HIDE DEF reserved
    <2>9. /\ accounted.journal = reserved.journal /\ accounted.reservation = reserved.reservation
          /\ accounted.account = Counted(reserved.account, tx)
      BY <2>6 DEF Accounted, Shaped
    <2> HIDE DEF accounted
    <2>10. Sound(accounted)
      BY <2>8, <2>9, SoundFrame
    <2>11. accounted.account = Replay(accounted.journal)
      <3>1. Replay(Append(l.journal, tx)) = Counted(Replay(l.journal), tx)
        BY ReplayAppend
      <3> QED BY <1>1, <2>2, <2>6, <2>9, <3>1
    <2>12. Sound(journalled)
      BY <2>3, <2>5 DEF Sound
    <2> QED BY <1>2, <1>9, <2>1, <2>8, <2>10, <2>11, <2>12 DEF Result
  <1> QED BY <1>4, <1>5, <1>6

\* An operation whose reference was used before.
LEMMA RepeatedSound ==
  ASSUME NEW l, Shaped(l), Sound(l), NEW tx \in Entry, NEW result \in Repeated(l, tx)
  PROVE  /\ Sound(result.ledger)
         /\ \/ result.ledger.account = Replay(result.ledger.journal)
            \/ result.answer = "threw"
            \/ result.answer = "refused" /\ result.ledger = l
  <1> DEFINE account == ReconcileAccount(l)
             ready == Prepared(l, tx)
  <1>1. account.journal = l.journal /\ account.reservation = l.reservation
    BY ReconciledAccount
  <1>2. ready.journal = l.journal /\ ready.account = Replay(l.journal) /\ RecordsOpened(ready)
    BY PreparedFacts DEF Sound
  <1>3. result \in {Result("refused", l), Result("ok", ready), Result("threw", l),
                    Result("threw", account), Result("threw", ready)}
    BY DEF Repeated, Cut
  <1> HIDE DEF account, ready
  <1>4. Sound(account)
    BY <1>1, SoundFrame
  <1>5. Sound(ready) /\ ready.account = Replay(ready.journal)
    BY <1>2 DEF Sound, SoundJournal
  <1> QED BY <1>3, <1>4, <1>5 DEF Result

LEMMA ResultsSound ==
  ASSUME NEW l, Shaped(l), Sound(l), l.journal \in Seq(Entry), NEW tx \in Entry,
         NEW result \in Results(l, tx)
  PROVE  /\ Sound(result.ledger)
         /\ \/ result.ledger.account = Replay(result.ledger.journal)
            \/ result.answer = "threw"
            \/ result.answer = "refused" /\ result.ledger = l
  BY FirstUseSound, RepeatedSound DEF Results

----------------------------------------------------------------------------
(* Each step keeps the ledger sound.                                       *)

LEMMA InitSInv == Init => SInv
  <1> SUFFICES ASSUME Init PROVE SInv
    OBVIOUS
  <1>1. ledger = EmptyLedger /\ saved.ledger = EmptyLedger
    BY DEF Init
  <1>2. EmptyLedger.journal = <<>> /\ EmptyLedger.account = [balance |-> 0, reserved |-> 0]
        /\ EmptyLedger.reservation = [r \in References |-> None]
    BY DEF EmptyLedger
  <1>3. Len(<<>>) = 0 /\ Balances(<<>>)[0] = EmptyLedger.account
    BY BalancesSolve
  <1>4. \A types, ref : Entries(<<>>, types, ref) = {}
    BY DEF Entries
  <1>5. Sound(EmptyLedger)
    BY <1>2, <1>3, <1>4 DEF Sound, SoundJournal, RecordsOpened, Negative
  <1>6. EmptyLedger.account = Replay(EmptyLedger.journal)
    BY <1>2, <1>3 DEF Replay
  <1> QED BY <1>1, <1>5, <1>6 DEF SInv

\* A step that takes its ledgers from memory or snapshot.
LEMMA LedgersSound ==
  ASSUME SInv, ledger' \in {ledger, saved.ledger}, saved'.ledger \in {ledger, saved.ledger},
         answered' => answered /\ ledger' = ledger
  PROVE  SInv'
  <1>1. Sound(ledger)' /\ Sound(saved.ledger)'
    BY DEF SInv, Sound, SoundJournal, RecordsOpened
  <1> QED BY <1>1 DEF SInv

LEMMA OperateSound ==
  ASSUME LInv, SInv, NEW tx \in Entry, NEW result \in Results(ledger, tx), Operate(result)
  PROVE  SInv'
  <1>1. ledger' = result.ledger
    BY DEF Operate
  <1>2. /\ answered' = (result.answer = "ok" \/ (answered /\ result.answer = "refused"))
        /\ (saved' = saved \/ saved'.ledger = ledger')
    BY DEF Operate, Save
  <1>3. /\ Sound(result.ledger)
        /\ \/ result.ledger.account = Replay(result.ledger.journal)
           \/ result.answer = "threw"
           \/ result.answer = "refused" /\ result.ledger = ledger
    BY ResultsSound DEF LInv, JournalOK, SInv
  <1>4. Sound(ledger)' /\ (answered' => ledger'.account = Replay(ledger'.journal))
    BY <1>1, <1>2, <1>3 DEF SInv, Sound, SoundJournal, RecordsOpened
  <1>5. Sound(saved.ledger)'
    BY <1>2, <1>4 DEF SInv, Sound, SoundJournal, RecordsOpened
  <1> QED BY <1>4, <1>5 DEF SInv

LEMMA CreditsSInv == LInv /\ IInv /\ SInv /\ (Credited \/ \E tx \in Requests : Reserves(tx)) => SInv'
  <1> SUFFICES ASSUME LInv, IInv, SInv, Credited \/ \E tx \in Requests : Reserves(tx) PROVE SInv'
    OBVIOUS
  <1>1. CASE Credited
    <2>1. PICK result \in Results(ledger, Purchase) : Operate(result)
      BY <1>1 DEF Credited
    <2>2. subject \in Events
      BY <1>1 DEF Credited, IInv, TypeOK, WebhookSteps
    <2>3. Purchase \in Entry
      BY <2>2 DEF Purchase, Entry, Events, SessionOf
    <2> QED BY <2>1, <2>3, OperateSound
  <1>2. ASSUME NEW tx \in Requests, Reserves(tx) PROVE SInv'
    BY <1>2, OperateSound DEF Reserves, Entry
  <1> QED BY <1>1, <1>2

LEMMA GetBalanceSInv == LInv /\ SInv /\ GetBalance => SInv'
  <1> SUFFICES ASSUME LInv, SInv, GetBalance PROVE SInv'
    OBVIOUS
  <1>1. ledger' = ReconcileAccount(ledger) /\ saved'.ledger = ledger'
    BY DEF GetBalance, Save
  <1>2. /\ ledger'.journal = ledger.journal /\ ledger'.reservation = ledger.reservation
        /\ ledger'.account = Replay(ledger.journal)
    BY <1>1, ReconciledAccount DEF LInv, JournalOK
  <1>3. Sound(ledger)' /\ Sound(saved.ledger)'
    BY <1>1, <1>2 DEF SInv, Sound, SoundJournal, RecordsOpened
  <1> QED BY <1>2, <1>3 DEF SInv

\* All other steps take both ledgers as they are, or the snapshot's.
LEMMA OthersSInv ==
  ASSUME IInv, SInv, ~Credited, ~GetBalance, ~\E tx \in Requests : Reserves(tx), [Next]_vars
  PROVE  SInv'
  <1>1. CASE Tick
    <2>1. saved = [ledger |-> saved.ledger, books |-> saved.books]
      BY DEF IInv, TypeOK
    <2>2. saved' = [saved EXCEPT !.books = Older(saved.books)] /\ UNCHANGED <<ledger, answered>>
      BY <1>1 DEF Tick
    <2>3. saved'.ledger = saved.ledger
      BY <2>1, <2>2
    <2> QED BY <2>2, <2>3, LedgersSound
  <1>2. CASE Crash
    BY <1>2, LedgersSound DEF Crash
  <1>3. CASE /\ ~Tick /\ ~Crash
    <2>1. UNCHANGED <<ledger, answered>> /\ (UNCHANGED saved \/ Save)
      BY <1>3 DEF Next, Billing, vars, memory, FirstCheckout, Retry, IntentSaved, Posted, PostLost,
         PaymentCreated, IntentLinked, CheckoutAnswered, EventSaved, Found, Adopted, PaymentPaid,
         Processed, Acked, Failed, OtherSave, Forgets, Delivered, Pays
    <2>2. saved'.ledger \in {ledger, saved.ledger}
      BY <2>1 DEF Save
    <2> QED BY <2>1, <2>2, LedgersSound
  <1> QED BY <1>1, <1>2, <1>3

----------------------------------------------------------------------------
(* An operation that was cut short is completed when it is asked again.    *)

\* The record the journal gives a reservation.
Recorded(journal, ref) ==
  [status |-> JournalStatus(journal, ref),
   amount |-> (CHOOSE tx \in Entries(journal, {"reserve"}, ref) : TRUE).amount]

Table(l) == l.reservation = [ref \in References |-> l.reservation[ref]]

LEMMA SameLedger ==
  ASSUME NEW l, Shaped(l), NEW k, Shaped(k), l.journal = k.journal,
         l.reservation = k.reservation, l.account = k.account
  PROVE  l = k
  BY DEF Shaped

LEMMA ReconciledRecord ==
  ASSUME NEW l, Shaped(l), NEW ref, Entries(l.journal, {"reserve"}, ref) # {}
  PROVE  LET k == ReconcileReservation(l, ref)
         IN  /\ k.journal = l.journal /\ k.account = l.account
             /\ k.reservation = [l.reservation EXCEPT ![ref] = Recorded(l.journal, ref)]
  <1> DEFINE r == Recorded(l.journal, ref)
  <1>1. ReconcileReservation(l, ref) = [l EXCEPT !.reservation = [l.reservation EXCEPT ![ref] = r]]
    BY DEF ReconcileReservation, Recorded
  <1> HIDE DEF r
  <1>2. \A x : /\ [l EXCEPT !.reservation = x].journal = l.journal
               /\ [l EXCEPT !.reservation = x].account = l.account
               /\ [l EXCEPT !.reservation = x].reservation = x
    BY DEF Shaped
  <1> QED BY <1>1, <1>2 DEF r

\* What has been prepared stays as it is when it is prepared again.
LEMMA PreparedTwice ==
  ASSUME NEW l, Shaped(l), RecordsOpened(l), NEW tx \in Entry
  PROVE  LET ready == Prepared(l, tx)
         IN  /\ Prepared(ready, tx) = ready
             /\ IsReservation(tx) /\ Entries(l.journal, {"reserve"}, tx.ref) # {} =>
                  ready.reservation[tx.ref] = Recorded(l.journal, tx.ref)
  <1> DEFINE ready == Prepared(l, tx)
             k == ReconcileAccount(l)
             again == ReconcileAccount(ready)
  <1>1. /\ Shaped(ready) /\ ready.journal = l.journal /\ ready.account = Replay(l.journal)
        /\ RecordsOpened(ready)
    BY PreparedFacts
  <1>2. /\ k.journal = l.journal /\ k.reservation = l.reservation /\ k.account = Replay(l.journal)
        /\ Shaped(k)
    BY ReconciledAccount
  <1>3. again = ready
    <2> HIDE DEF ready
    <2>1. /\ again.journal = ready.journal /\ again.reservation = ready.reservation
          /\ again.account = Replay(ready.journal) /\ Shaped(again)
      BY <1>1, ReconciledAccount
    <2> HIDE DEF again
    <2> QED BY <1>1, <2>1, SameLedger
  <1>4. CASE ~IsReservation(tx)
    BY <1>3, <1>4 DEF Prepared
  <1>5. CASE IsReservation(tx) /\ Entries(l.journal, {"reserve"}, tx.ref) = {}
    <2>1. Prepared(ready, tx) = ReconcileReservation(ready, tx.ref)
      BY <1>3, <1>5 DEF Prepared
    <2> QED BY <1>1, <1>5, <2>1 DEF ReconcileReservation
  <1>6. CASE IsReservation(tx) /\ Entries(l.journal, {"reserve"}, tx.ref) # {}
    <2>1. tx.ref \in References
      BY <1>6, EntryFacts
    <2>2. ready = ReconcileReservation(k, tx.ref)
      BY <1>6 DEF Prepared
    <2>3. Prepared(ready, tx) = ReconcileReservation(ready, tx.ref)
      BY <1>3, <1>6 DEF Prepared
    <2> HIDE DEF ready, k
    <2>4. ready.reservation = [l.reservation EXCEPT ![tx.ref] = Recorded(l.journal, tx.ref)]
      BY <1>2, <1>6, <2>2, ReconciledRecord
    <2>5. ready.reservation[tx.ref] = Recorded(l.journal, tx.ref)
      BY <2>1, <2>4 DEF RecordsOpened
    <2> DEFINE twice == ReconcileReservation(ready, tx.ref)
    <2>6. /\ twice.journal = ready.journal /\ twice.account = ready.account
          /\ twice.reservation = [ready.reservation EXCEPT ![tx.ref] = Recorded(ready.journal, tx.ref)]
      BY <1>1, <1>6, ReconciledRecord
    <2>7. Shaped(twice)
      BY <1>1, ProjectionFacts
    <2> HIDE DEF twice
    <2>8. twice.reservation = ready.reservation
      BY <1>1, <2>1, <2>5, <2>6 DEF RecordsOpened
    <2>9. twice = ready
      BY <1>1, <2>6, <2>7, <2>8, SameLedger
    <2> QED BY <2>3, <2>5, <2>9 DEF twice, ready
  <1> QED BY <1>4, <1>5, <1>6

\* Once an operation is in the journal, the journal gives its reservation the
\* record the operation writes.
LEMMA RecordedLast ==
  ASSUME NEW l, Shaped(l), Sound(l), l.journal \in Seq(Entry), NEW tx \in Entry, IsReservation(tx),
         Entries(l.journal, {tx.type}, tx.ref) = {}, ~Refuses(Prepared(l, tx), tx)
  PROVE  /\ Entries(Append(l.journal, tx), {"reserve"}, tx.ref) # {}
         /\ Recorded(Append(l.journal, tx), tx.ref) =
              [amount |-> tx.amount,
               status |-> CASE tx.type = "reserve" -> "reserved"
                            [] tx.type = "spend" -> "committed"
                            [] tx.type = "release" -> "released"]
  <1> DEFINE J == Append(l.journal, tx)
             opening == Entries(l.journal, {"reserve"}, tx.ref)
  <1>1. \A types : Entries(J, types, tx.ref)
                     = Entries(l.journal, types, tx.ref) \cup {t \in {tx} : t.type \in types /\ t.ref = tx.ref}
    BY EntriesAppend
  <1> HIDE DEF J
  <1>2. \A type : Entries(J, {type}, tx.ref)
                    = IF type = tx.type THEN Entries(l.journal, {type}, tx.ref) \cup {tx}
                                        ELSE Entries(l.journal, {type}, tx.ref)
    <2> TAKE type
    <2>1. {t \in {tx} : t.type \in {type} /\ t.ref = tx.ref} = IF type = tx.type THEN {tx} ELSE {}
      OBVIOUS
    <2>2. Entries(J, {type}, tx.ref)
            = Entries(l.journal, {type}, tx.ref) \cup {t \in {tx} : t.type \in {type} /\ t.ref = tx.ref}
      BY <1>1
    <2> QED BY <2>1, <2>2
  <1>3. CASE tx.type = "reserve"
    <2>1. Entries(J, {"reserve"}, tx.ref) = {tx}
      BY <1>2, <1>3
    <2>2. tx.ref \in References
      BY EntryFacts
    <2>3. Entries(l.journal, Closing, tx.ref) = {}
      BY <1>3, <2>2 DEF Sound, SoundJournal
    <2>4. Entries(l.journal, {"spend"}, tx.ref) = {} /\ Entries(l.journal, {"release"}, tx.ref) = {}
      BY <2>3 DEF Entries, Closing
    <2>5. Entries(J, {"spend"}, tx.ref) = {} /\ Entries(J, {"release"}, tx.ref) = {}
      BY <1>2, <1>3, <2>4
    <2>6. JournalStatus(J, tx.ref) = "reserved"
      BY <2>5 DEF JournalStatus
    <2>7. (CHOOSE t \in Entries(J, {"reserve"}, tx.ref) : TRUE) = tx
      BY <2>1
    <2> QED BY <1>3, <2>1, <2>6, <2>7 DEF Recorded, J
  <1>4. CASE tx.type \in Closing
    <2>1. /\ Entries(l.journal, Closing, tx.ref) = {} /\ Opened(tx) \in opening
      BY <1>4, MayClose DEF Sound
    <2>2. Entries(l.journal, {"spend"}, tx.ref) = {} /\ Entries(l.journal, {"release"}, tx.ref) = {}
      <3>1. \A type \in Closing : Entries(l.journal, {type}, tx.ref) \subseteq Entries(l.journal, Closing, tx.ref)
        BY DEF Entries
      <3> QED BY <2>1, <3>1 DEF Closing
    <2>3. Entries(J, {"reserve"}, tx.ref) = opening
      BY <1>2, <1>4 DEF Closing
    <2>4. Prepared(l, tx).reservation[tx.ref] = Recorded(l.journal, tx.ref)
      BY <2>1, PreparedTwice DEF Sound
    <2>5. Recorded(l.journal, tx.ref).amount = tx.amount
      <3>1. Prepared(l, tx).reservation[tx.ref].amount = tx.amount
        BY <1>4 DEF Refuses, Closing
      <3> QED BY <2>4, <3>1
    <2>6. (CHOOSE t \in opening : TRUE).amount = tx.amount
      BY <2>5 DEF Recorded
    <2>7. CASE tx.type = "spend"
      <3>1. tx \in Entries(J, {"spend"}, tx.ref)
        BY <1>2, <2>7
      <3>2. JournalStatus(J, tx.ref) = "committed"
        BY <3>1 DEF JournalStatus
      <3> QED BY <2>1, <2>3, <2>6, <2>7, <3>2 DEF Recorded, J
    <2>8. CASE tx.type = "release"
      <3>1. Entries(J, {"spend"}, tx.ref) = {} /\ tx \in Entries(J, {"release"}, tx.ref)
        BY <1>2, <2>2, <2>8
      <3>2. JournalStatus(J, tx.ref) = "released"
        BY <3>1 DEF JournalStatus
      <3> QED BY <2>1, <2>3, <2>6, <2>8, <3>2 DEF Recorded, J
    <2> QED BY <1>4, <2>7, <2>8 DEF Closing
  <1> QED BY <1>3, <1>4 DEF IsReservation, Closing

\* The changes of an operation that is accepted, one after the other.
LEMMA Changes ==
  ASSUME NEW l, Shaped(l), RecordsOpened(l), NEW tx \in Entry
  PROVE  LET ready == Prepared(l, tx)
             journalled == Journalled(ready, tx)
             reserved == Reserved(journalled, tx)
             accounted == Accounted(reserved, tx)
         IN  /\ \A m \in {journalled, reserved, accounted} :
                  /\ Shaped(m) /\ m.journal = Append(l.journal, tx)
                  /\ \/ m.reservation = ready.reservation
                     \/ \E r : m.reservation = [ready.reservation EXCEPT ![tx.ref] = r]
             /\ accounted.account = Counted(ready.account, tx)
             /\ accounted.reservation =
                  IF IsReservation(tx)
                  THEN [ready.reservation EXCEPT ![tx.ref] =
                          [amount |-> tx.amount,
                           status |-> CASE tx.type = "reserve" -> "reserved"
                                        [] tx.type = "spend" -> "committed"
                                        [] tx.type = "release" -> "released"]]
                  ELSE ready.reservation
  <1> DEFINE ready == Prepared(l, tx)
             journalled == Journalled(ready, tx)
             reserved == Reserved(journalled, tx)
             accounted == Accounted(reserved, tx)
             record == [amount |-> tx.amount,
                        status |-> CASE tx.type = "reserve" -> "reserved"
                                     [] tx.type = "spend" -> "committed"
                                     [] tx.type = "release" -> "released"]
  <1>1. Shaped(ready) /\ ready.journal = l.journal
    BY PreparedFacts
  <1> HIDE DEF ready
  <1>2. /\ Shaped(journalled) /\ journalled.journal = Append(l.journal, tx)
        /\ journalled.reservation = ready.reservation /\ journalled.account = ready.account
    <2>1. Shaped(journalled) /\ journalled.journal = Append(ready.journal, tx)
      BY <1>1, ProjectionFacts
    <2>2. journalled.reservation = ready.reservation /\ journalled.account = ready.account
      BY <1>1 DEF Journalled, Shaped
    <2> QED BY <1>1, <2>1, <2>2
  <1> HIDE DEF journalled
  <1>3. Shaped(reserved) /\ reserved.journal = journalled.journal
    BY <1>2, ProjectionFacts
  <1>4. /\ reserved.account = ready.account
        /\ reserved.reservation = IF IsReservation(tx) THEN [ready.reservation EXCEPT ![tx.ref] = record]
                                                        ELSE ready.reservation
    <2>1. CASE ~IsReservation(tx)
      BY <1>2, <2>1 DEF Reserved
    <2>2. CASE IsReservation(tx)
      <3>1. reserved = [journalled EXCEPT !.reservation = [journalled.reservation EXCEPT ![tx.ref] = record]]
        BY <2>2 DEF Reserved
      <3> HIDE DEF record, reserved
      <3>2. \A x : /\ [journalled EXCEPT !.reservation = x].account = journalled.account
                   /\ [journalled EXCEPT !.reservation = x].reservation = x
        BY <1>2 DEF Shaped
      <3> QED BY <1>2, <2>2, <3>1, <3>2
    <2> QED BY <2>1, <2>2
  <1> HIDE DEF reserved
  <1>5. Shaped(accounted) /\ accounted.journal = reserved.journal
    BY <1>3, ProjectionFacts
  <1>6. accounted.reservation = reserved.reservation /\ accounted.account = Counted(reserved.account, tx)
    BY <1>3 DEF Accounted, Shaped
  <1> HIDE DEF accounted, record
  <1>7. \A m \in {journalled, reserved, accounted} :
          /\ Shaped(m) /\ m.journal = Append(l.journal, tx)
          /\ \/ m.reservation = ready.reservation
             \/ \E r : m.reservation = [ready.reservation EXCEPT ![tx.ref] = r]
    BY <1>2, <1>3, <1>4, <1>5, <1>6
  <1> QED BY <1>4, <1>6, <1>7 DEF ready, journalled, reserved, accounted, record

\* How an operation ends when no call throws.
Ends(l, tx) == {end \in Results(l, tx) : end.answer # "threw"}

\* Repairing a ledger again changes nothing.
LEMMA RepairedTwice ==
  ASSUME NEW l, Shaped(l), RecordsOpened(l), NEW tx \in Entry
  PROVE  /\ ReconcileAccount(ReconcileAccount(l)) = ReconcileAccount(l)
         /\ \A c \in {l, ReconcileAccount(l), Prepared(l, tx)} :
               c.journal = l.journal /\ Prepared(c, tx) = Prepared(l, tx)
  <1> DEFINE account == ReconcileAccount(l)
             twice == ReconcileAccount(account)
  <1>1. /\ Shaped(account) /\ account.journal = l.journal /\ account.reservation = l.reservation
        /\ account.account = Replay(l.journal)
    BY ReconciledAccount
  <1>2. twice = account
    <2> HIDE DEF account
    <2>1. /\ Shaped(twice) /\ twice.journal = account.journal /\ twice.reservation = account.reservation
          /\ twice.account = Replay(account.journal)
      BY <1>1, ReconciledAccount
    <2> HIDE DEF twice
    <2> QED BY <1>1, <2>1, SameLedger
  <1>3. Prepared(account, tx) = Prepared(l, tx)
    BY <1>2 DEF Prepared
  <1>4. Prepared(l, tx).journal = l.journal /\ Prepared(Prepared(l, tx), tx) = Prepared(l, tx)
    BY PreparedFacts, PreparedTwice
  <1> QED BY <1>1, <1>2, <1>3, <1>4

\* The ends of an operation whose reference was used before, and the ledgers it may be cut short with.
LEMMA RepeatedEnds ==
  ASSUME NEW l, NEW tx, tx \in Entries(l.journal, {tx.type}, tx.ref)
  PROVE  /\ Ends(l, tx) = {Result("ok", Prepared(l, tx))}
         /\ \A cut \in Results(l, tx) :
               cut.answer = "threw" => cut.ledger \in {l, ReconcileAccount(l), Prepared(l, tx)}
  <1>1. Results(l, tx) = {Result("ok", Prepared(l, tx))}
                           \cup {Result("threw", m) : m \in {l, ReconcileAccount(l), Prepared(l, tx)}}
    BY DEF Results, Repeated, Cut
  <1>2. \A answer, m : Result(answer, m).answer = answer /\ Result(answer, m).ledger = m
    BY DEF Result
  <1> QED BY <1>1, <1>2 DEF Ends

\* The same of an operation whose reference is new.
LEMMA FirstEnds ==
  ASSUME NEW l, NEW tx, Entries(l.journal, {tx.type}, tx.ref) = {}
  PROVE  LET ready == Prepared(l, tx)
             journalled == Journalled(ready, tx)
             reserved == Reserved(journalled, tx)
             accounted == Accounted(reserved, tx)
             poor == Negative(Counted(ready.account, tx))
             clash == IsReservation(tx) /\ Refuses(ready, tx)
         IN  /\ Ends(l, tx) = {IF poor THEN Result("refused", ReconcileAccount(l))
                               ELSE IF clash THEN Result("refused", ready) ELSE Result("ok", accounted)}
             /\ \A cut \in Results(l, tx) : cut.answer = "threw" =>
                   \/ cut.ledger \in {l, ReconcileAccount(l)}
                   \/ cut.ledger = ready /\ ~poor
                   \/ cut.ledger \in {journalled, reserved, accounted} /\ ~poor /\ ~clash
  <1> DEFINE ready == Prepared(l, tx)
             journalled == Journalled(ready, tx)
             reserved == Reserved(journalled, tx)
             accounted == Accounted(reserved, tx)
             account == ReconcileAccount(l)
             poor == Negative(Counted(ready.account, tx))
             clash == IsReservation(tx) /\ Refuses(ready, tx)
  <1>1. Results(l, tx) =
          IF poor THEN {Result("refused", account)} \cup {Result("threw", m) : m \in {l, account}}
          ELSE IF clash THEN {Result("refused", ready)} \cup {Result("threw", m) : m \in {l, account} \cup {ready}}
          ELSE {Result("ok", accounted)}
                 \cup {Result("threw", m) : m \in {l, account} \cup {ready, journalled, reserved, accounted}}
    BY DEF Results, FirstUse, Cut
  <1>2. \A answer, m : Result(answer, m).answer = answer /\ Result(answer, m).ledger = m
    BY DEF Result
  <1> HIDE DEF ready, journalled, reserved, accounted, account, poor, clash
  <1>3. Ends(l, tx) = {IF poor THEN Result("refused", account)
                       ELSE IF clash THEN Result("refused", ready) ELSE Result("ok", accounted)}
    BY <1>1, <1>2 DEF Ends
  <1>4. ASSUME NEW cut \in Results(l, tx), cut.answer = "threw"
        PROVE  \/ cut.ledger \in {l, account}
               \/ cut.ledger = ready /\ ~poor
               \/ cut.ledger \in {journalled, reserved, accounted} /\ ~poor /\ ~clash
    BY <1>1, <1>2, <1>4
  <1> QED BY <1>3, <1>4 DEF ready, journalled, reserved, accounted, account, poor, clash

\* One operation that is cut short, and asked again.
LEMMA AskedAgain ==
  ASSUME NEW l, Shaped(l), Sound(l), l.journal \in Seq(Entry), NEW tx \in Entry,
         NEW cut \in Results(l, tx), cut.answer = "threw"
  PROVE  Ends(cut.ledger, tx) = Ends(l, tx)
  <1> DEFINE ready == Prepared(l, tx)
             journalled == Journalled(ready, tx)
             reserved == Reserved(journalled, tx)
             accounted == Accounted(reserved, tx)
             J == Append(l.journal, tx)
             poor == Negative(Counted(ready.account, tx))
             clash == IsReservation(tx) /\ Refuses(ready, tx)
  <1>0. /\ ReconcileAccount(ReconcileAccount(l)) = ReconcileAccount(l)
        /\ \A c \in {l, ReconcileAccount(l), ready} : c.journal = l.journal /\ Prepared(c, tx) = ready
    BY RepairedTwice DEF Sound
  <1>9. CASE Entries(l.journal, {tx.type}, tx.ref) # {}
    <2>1. tx \in Entries(l.journal, {tx.type}, tx.ref)
      BY <1>9 DEF Results, Repeated, Result
    <2>2. Ends(l, tx) = {Result("ok", ready)} /\ cut.ledger \in {l, ReconcileAccount(l), ready}
      BY <2>1, RepeatedEnds
    <2> HIDE DEF ready
    <2>3. cut.ledger.journal = l.journal /\ Prepared(cut.ledger, tx) = ready
      BY <1>0, <2>2
    <2>4. Ends(cut.ledger, tx) = {Result("ok", Prepared(cut.ledger, tx))}
      BY <2>1, <2>3, RepeatedEnds
    <2> QED BY <2>2, <2>3, <2>4
  <1> SUFFICES ASSUME Entries(l.journal, {tx.type}, tx.ref) = {} PROVE Ends(cut.ledger, tx) = Ends(l, tx)
    BY <1>9
  <1>1. Entries(l.journal, {tx.type}, tx.ref) = {}
    OBVIOUS
  <1>3. Ends(l, tx) = {IF poor THEN Result("refused", ReconcileAccount(l))
                       ELSE IF clash THEN Result("refused", ready) ELSE Result("ok", accounted)}
    BY <1>1, FirstEnds
  <1>4. \/ cut.ledger \in {l, ReconcileAccount(l)}
        \/ cut.ledger = ready /\ ~poor
        \/ cut.ledger \in {journalled, reserved, accounted} /\ ~poor /\ ~clash
    BY <1>1, FirstEnds
  <1>6. /\ Shaped(ready) /\ ready.journal = l.journal /\ ready.account = Replay(l.journal)
        /\ RecordsOpened(ready)
    BY PreparedFacts DEF Sound
  <1>7. CASE \/ cut.ledger \in {l, ReconcileAccount(l)}
             \/ cut.ledger = ready /\ ~poor
    <2> DEFINE c == cut.ledger
    <2>1. c.journal = l.journal /\ Prepared(c, tx) = ready
      BY <1>0, <1>7
    <2>2. poor => ReconcileAccount(c) = ReconcileAccount(l)
      BY <1>0, <1>7
    <2> HIDE DEF ready
    <2>3. Ends(c, tx) = {IF poor THEN Result("refused", ReconcileAccount(c))
                         ELSE IF clash THEN Result("refused", ready) ELSE Result("ok", accounted)}
      BY <1>1, <2>1, FirstEnds
    <2> HIDE DEF poor, clash, accounted, c
    <2> QED BY <1>3, <2>2, <2>3 DEF c
  <1>8. CASE cut.ledger \in {journalled, reserved, accounted} /\ ~poor /\ ~clash
    <2>0. Ends(l, tx) = {Result("ok", accounted)}
      BY <1>3, <1>8
    <2>20. ~clash
      BY <1>8
    <2>21. cut.ledger \in {journalled, reserved, accounted}
      BY <1>8
    <2> DEFINE m == cut.ledger
               k == ReconcileAccount(m)
               repaired == IF IsReservation(tx) THEN ReconcileReservation(k, tx.ref) ELSE k
    <2> HIDE DEF poor, clash
    <2>1. /\ Shaped(m) /\ m.journal = J
          /\ \/ m.reservation = ready.reservation
             \/ \E r : m.reservation = [ready.reservation EXCEPT ![tx.ref] = r]
      <3>1. \A n \in {journalled, reserved, accounted} :
              /\ Shaped(n) /\ n.journal = J
              /\ \/ n.reservation = ready.reservation
                 \/ \E r : n.reservation = [ready.reservation EXCEPT ![tx.ref] = r]
        BY Changes DEF Sound
      <3> HIDE DEF ready, journalled, reserved, accounted, J
      <3> QED BY <2>21, <3>1
    <2>2. /\ Shaped(accounted) /\ accounted.journal = J /\ accounted.account = Replay(J)
      <3>1. Shaped(accounted) /\ accounted.journal = J /\ accounted.account = Counted(ready.account, tx)
        BY Changes DEF Sound
      <3>2. Replay(J) = Counted(Replay(l.journal), tx)
        BY ReplayAppend
      <3> QED BY <1>6, <3>1, <3>2
    <2>3. Entries(J, {tx.type}, tx.ref) = {tx}
      <3>1. Entries(J, {tx.type}, tx.ref)
              = Entries(l.journal, {tx.type}, tx.ref) \cup {t \in {tx} : t.type \in {tx.type} /\ t.ref = tx.ref}
        BY EntriesAppend
      <3> QED BY <1>1, <3>1
    <2>4. Ends(m, tx) = {Result("ok", repaired)}
      <3>1. tx \in Entries(m.journal, {tx.type}, tx.ref)
        BY <2>1, <2>3
      <3>2. Ends(m, tx) = {Result("ok", Prepared(m, tx))}
        BY <3>1, RepeatedEnds
      <3> QED BY <3>2 DEF Prepared
    <2>5. /\ Shaped(k) /\ k.journal = J /\ k.reservation = m.reservation /\ k.account = Replay(J)
      <3> HIDE DEF m, J
      <3> QED BY <2>1, ReconciledAccount
    <2>6. repaired = accounted
      <3>1. CASE IsReservation(tx)
        <4> DEFINE r == Recorded(J, tx.ref)
        <4>1. /\ Entries(J, {"reserve"}, tx.ref) # {}
              /\ accounted.reservation = [ready.reservation EXCEPT ![tx.ref] = r]
          <5>1. Entries(J, {"reserve"}, tx.ref) # {} /\ r =
                  [amount |-> tx.amount,
                   status |-> CASE tx.type = "reserve" -> "reserved"
                                [] tx.type = "spend" -> "committed"
                                [] tx.type = "release" -> "released"]
            BY <1>1, <2>20, <3>1, RecordedLast DEF clash
          <5> HIDE DEF r
          <5> QED BY <3>1, <5>1, Changes DEF Sound
        <4>2. repaired = ReconcileReservation(k, tx.ref)
          BY <3>1
        <4> HIDE DEF repaired, k, m, J, accounted, ready
        <4>3. /\ repaired.journal = J /\ repaired.account = Replay(J)
              /\ repaired.reservation = [m.reservation EXCEPT ![tx.ref] = r]
          <5>1. Entries(k.journal, {"reserve"}, tx.ref) # {}
            BY <2>5, <4>1
          <5>2. /\ repaired.journal = k.journal /\ repaired.account = k.account
                /\ repaired.reservation = [k.reservation EXCEPT ![tx.ref] = Recorded(k.journal, tx.ref)]
            BY <2>5, <4>2, <5>1, ReconciledRecord
          <5> QED BY <2>5, <5>2
        <4>4. Shaped(repaired)
          BY <2>5, <4>2, ProjectionFacts
        <4> HIDE DEF r
        <4>5. [m.reservation EXCEPT ![tx.ref] = r] = [ready.reservation EXCEPT ![tx.ref] = r]
          BY <2>1
        <4> QED BY <2>2, <4>1, <4>3, <4>4, <4>5, SameLedger
      <3>2. CASE ~IsReservation(tx)
        <4>1. repaired = k /\ m.reservation = ready.reservation /\ accounted.reservation = ready.reservation
          <5>1. repaired = k /\ accounted.reservation = ready.reservation
            BY <3>2, Changes DEF Sound
          <5>2. reserved = journalled
            BY <3>2 DEF Reserved
          <5>3. journalled.reservation = ready.reservation
            BY <1>6 DEF Journalled, Shaped
          <5> QED BY <2>21, <5>1, <5>2, <5>3
        <4> HIDE DEF repaired, k, m, J, accounted, ready
        <4> QED BY <2>2, <2>5, <4>1, SameLedger
      <3> QED BY <3>1, <3>2
    <2> HIDE DEF repaired, accounted
    <2> QED BY <2>0, <2>4, <2>6
  <1> QED BY <1>4, <1>7, <1>8

LEMMA SoundCompletes == LInv /\ SInv => RetryCompletes
  <1> SUFFICES ASSUME LInv, SInv, NEW tx \in Entry,
                      NEW cut \in Results(ledger, tx), cut.answer = "threw"
               PROVE  {end \in Results(cut.ledger, tx) : end.answer # "threw"}
                        = {end \in Results(ledger, tx) : end.answer # "threw"}
    BY DEF RetryCompletes
  <1>1. Ends(cut.ledger, tx) = Ends(ledger, tx)
    BY AskedAgain DEF LInv, JournalOK, SInv
  <1> QED BY <1>1 DEF Ends

\* An operation that a failing call cut short (credits.mjs, mutate) and that is
\* asked again ends with the answer and the ledger it would have had at once:
\* nothing is counted twice, and no projection stays behind.
THEOREM RetriesComplete == Spec => []RetryCompletes
  <1>1. IInv /\ LInv /\ SInv /\ [Next]_vars => SInv'
    BY CreditsSInv, GetBalanceSInv, OthersSInv
  <1> QED BY <1>1, SoundCompletes, InitSInv, Invariance, JournalInvariance, PTL DEF Spec

\* No reservation is closed twice, or with another amount, or unopened; no
\* balance was ever negative; and the account agrees with the journal once an
\* operation was answered, wherever earlier ones stopped (credits.mjs, mutate).
THEOREM LedgerStaysSound == Spec => []LedgerSound
  <1>1. IInv /\ LInv /\ SInv /\ [Next]_vars => SInv'
    BY CreditsSInv, GetBalanceSInv, OthersSInv
  <1>2. SInv => LedgerSound
    <2> SUFFICES ASSUME SInv PROVE LedgerSound
      OBVIOUS
    <2>1. ASSUME NEW ref \in References
          PROVE  LET closing == Entries(ledger.journal, {"spend", "release"}, ref)
                     opening == Entries(ledger.journal, {"reserve"}, ref)
                 IN  Cardinality(closing) <= 1 /\ \A tx \in closing : [tx EXCEPT !.type = "reserve"] \in opening
      <3> DEFINE closing == Entries(ledger.journal, {"spend", "release"}, ref)
      <3>1. /\ \A tx, ty \in closing : tx = ty
            /\ \A tx \in closing : [tx EXCEPT !.type = "reserve"] \in Entries(ledger.journal, {"reserve"}, ref)
        BY DEF SInv, Sound, SoundJournal, Closing, Opened
      <3> HIDE DEF closing
      <3>2. CASE closing = {}
        BY <3>2, FS_EmptySet DEF closing
      <3>3. CASE closing # {}
        <4>1. PICK tx : closing = {tx}
          BY <3>1, <3>3
        <4>2. Cardinality(closing) = 1
          BY <4>1, FS_Singleton
        <4> QED BY <3>1, <4>2 DEF closing
      <3> QED BY <3>2, <3>3
    <2> QED BY <2>1 DEF LedgerSound, SInv, Sound, SoundJournal
  <1> QED BY <1>1, <1>2, InitSInv, Invariance, JournalInvariance, PTL DEF Spec

=============================================================================
