---------------------------- MODULE CreditLedger ----------------------------
(***************************************************************************)
(* One user's credits (userPersistoAgent/lib/credits.mjs): the journal of  *)
(* credit transactions, and the account and the reservations projected     *)
(* from it.                                                                *)
(*                                                                         *)
(* A ledger is [journal, reservation, account].  An operation runs alone   *)
(* inside the persistence scope (DurableStore), so its store calls are one *)
(* step here, which a call that throws may cut short after any of them:    *)
(* Results gives every ledger and answer an operation can end with.  A     *)
(* transaction's id is the hash of its type and reference, so these name   *)
(* it.  Reservations kept under their older, global ids are left out.      *)
(* A definition placed just before the one it resembles is a faulty        *)
(* variant of it.                                                          *)
(***************************************************************************)
EXTENDS Integers, Sequences

CONSTANTS
  References,   \* of reservations
  Requests,     \* what the user may ask for: reserve, spend or release
  None

ASSUME RequestsAssumption ==
  Requests \subseteq [type : {"reserve", "spend", "release"}, ref : References, amount : Nat \ {0}]

Status == {"reserved", "committed", "released"}

EmptyLedger ==
  [journal |-> <<>>, reservation |-> [r \in References |-> None],
   account |-> [balance |-> 0, reserved |-> 0]]

(* What a transaction does to the balances; purchases stand for grants,    *)
(* refunds and adjustments, which count alike.                             *)
Counted(account, tx) ==
  CASE tx.type = "purchase" -> [account EXCEPT !.balance = @ + tx.amount]
    [] tx.type = "reserve" -> [balance |-> account.balance - tx.amount,
                               reserved |-> account.reserved + tx.amount]
    [] tx.type = "spend" -> [account EXCEPT !.reserved = @ - tx.amount]
    [] tx.type = "release" -> [balance |-> account.balance + tx.amount,
                               reserved |-> account.reserved - tx.amount]

(* The balances after each transaction of a journal.                       *)
Balances(journal) ==
  LET after[n \in 0 .. Len(journal)] ==
        IF n = 0 THEN EmptyLedger.account ELSE Counted(after[n - 1], journal[n])
  IN  after

Replay(journal) == Balances(journal)[Len(journal)]

Negative(account) == account.balance < 0 \/ account.reserved < 0

Entries(journal, types, ref) ==
  {journal[i] : i \in {j \in DOMAIN journal : journal[j].type \in types /\ journal[j].ref = ref}}

(* The status a reservation has by the journal.                            *)
JournalStatus(journal, ref) ==
  IF Entries(journal, {"spend"}, ref) # {} THEN "committed"
  ELSE IF Entries(journal, {"release"}, ref) # {} THEN "released" ELSE "reserved"

ReconcileAccount(ledger) == [ledger EXCEPT !.account = Replay(ledger.journal)]

(* Without an opening entry the record, if any, is left as it is.          *)
ReconcileReservation(ledger, ref) ==
  LET opening == Entries(ledger.journal, {"reserve"}, ref)
  IN  IF opening = {} THEN ledger
      ELSE [ledger EXCEPT !.reservation[ref] =
             [status |-> JournalStatus(ledger.journal, ref),
              amount |-> (CHOOSE tx \in opening : TRUE).amount]]

IsReservation(tx) == tx.type \in {"reserve", "spend", "release"}

Refuses(ledger, tx) ==
  LET record == ledger.reservation[tx.ref]
  IN  IF tx.type = "reserve" THEN record # None
      ELSE record = None \/ record.amount # tx.amount \/ record.status # "reserved"

(* The three changes of an operation, in their order.                      *)
Journalled(ledger, tx) == [ledger EXCEPT !.journal = Append(@, tx)]

Reserved(ledger, tx) ==
  IF ~IsReservation(tx) THEN ledger
  ELSE [ledger EXCEPT !.reservation[tx.ref] =
          [amount |-> tx.amount,
           status |-> CASE tx.type = "reserve" -> "reserved"
                        [] tx.type = "spend" -> "committed"
                        [] tx.type = "release" -> "released"]]

Accounted(ledger, tx) == [ledger EXCEPT !.account = Counted(@, tx)]

Result(answer, ledger) == [answer |-> answer, ledger |-> ledger]

(* A call that throws leaves the ledger as it was after one of the changes *)
(* before it.                                                              *)
Cut(ledgers) == {Result("threw", l) : l \in ledgers}

PreparedFromRecord(ledger, tx) == ReconcileAccount(ledger)

(* What is repaired before an operation goes on.                           *)
Prepared(ledger, tx) ==
  IF IsReservation(tx) THEN ReconcileReservation(ReconcileAccount(ledger), tx.ref)
                       ELSE ReconcileAccount(ledger)

(* A reference that was used before only repairs both projections.         *)
Repeated(ledger, tx) ==
  IF tx \notin Entries(ledger.journal, {tx.type}, tx.ref) THEN {Result("refused", ledger)}
  ELSE {Result("ok", Prepared(ledger, tx))}
         \cup Cut({ledger, ReconcileAccount(ledger), Prepared(ledger, tx)})

FirstUse(ledger, tx) ==
  LET ready == Prepared(ledger, tx)
      journalled == Journalled(ready, tx)
      reserved == Reserved(journalled, tx)
      accounted == Accounted(reserved, tx)
      repairing == {ledger, ReconcileAccount(ledger)}
  IN  IF Negative(Counted(ready.account, tx))
      THEN {Result("refused", ReconcileAccount(ledger))} \cup Cut(repairing)
      ELSE IF IsReservation(tx) /\ Refuses(ready, tx)
      THEN {Result("refused", ready)} \cup Cut(repairing \cup {ready})
      ELSE {Result("ok", accounted)}
             \cup Cut(repairing \cup {ready, journalled, reserved, accounted})

(* credits.mutate: an answer "ok" comes after a save.                      *)
Results(ledger, tx) ==
  IF Entries(ledger.journal, {tx.type}, tx.ref) # {} THEN Repeated(ledger, tx) ELSE FirstUse(ledger, tx)

=============================================================================
