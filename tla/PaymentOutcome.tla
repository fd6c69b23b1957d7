--------------------------- MODULE PaymentOutcome ---------------------------
(***************************************************************************)
(* What the order and payment modules promise together, without intents,   *)
(* workers, events, locks or ledger: an order is open until it is either   *)
(* fulfilled or closed, for good; a payment that arrives fulfils an open   *)
(* order, or is kept for its payer; money never does two of those things.  *)
(***************************************************************************)
CONSTANTS Orders, Payments, OrderOf(_)

VARIABLES
  status,  \* none, open, fulfilled or closed
  money    \* per payment: none, paid (fulfilled its order), kept, credited

\* The type invariant of the promise.
TypeOK ==
  /\ status \in [Orders -> {"none", "open", "fulfilled", "closed"}]
  /\ money \in [Payments -> {"none", "paid", "kept", "credited"}]

Init ==
  /\ status = [o \in Orders |-> "none"]
  /\ money = [pay \in Payments |-> "none"]

Set(o, st) == status' = [status EXCEPT ![o] = st]
Book(pay, m) == money' = [money EXCEPT ![pay] = m]

Open(o) == status[o] = "none" /\ Set(o, "open") /\ UNCHANGED money

(* Nothing to pay: free, or paid for by the balance. *)
FulfilUnpaid(o) == status[o] = "none" /\ Set(o, "fulfilled") /\ UNCHANGED money

(* A payment fulfils its order; an offline payment may come with it. *)
Fulfil(pay) ==
  /\ money[pay] = "none"
  /\ status[OrderOf(pay)] \in {"none", "open"}
  /\ Set(OrderOf(pay), "fulfilled")
  /\ Book(pay, "paid")

Close(o) == status[o] = "open" /\ Set(o, "closed") /\ UNCHANGED money

(* The order did not take the money. *)
Keep(pay) ==
  /\ money[pay] = "none"
  /\ status[OrderOf(pay)] # "none"
  /\ Book(pay, "kept")
  /\ UNCHANGED status

(* The payer gets it as balance, at once (and the order is closed if it is *)
(* still open) or later.                                                   *)
Credit(pay) ==
  \/ /\ money[pay] = "none"
     /\ status[OrderOf(pay)] = "open"
     /\ Set(OrderOf(pay), "closed")
     /\ Book(pay, "credited")
  \/ /\ money[pay] = "none"
     /\ status[OrderOf(pay)] \in {"fulfilled", "closed"}
     /\ Book(pay, "credited")
     /\ UNCHANGED status
  \/ /\ money[pay] = "kept"
     /\ Book(pay, "credited")
     /\ UNCHANGED status

(* Most of what the panel does is not seen at this level. *)
Unseen == UNCHANGED <<status, money>>

Next ==
  \/ Unseen
  \/ \E o \in Orders : Open(o) \/ FulfilUnpaid(o) \/ Close(o)
  \/ \E pay \in Payments : Fulfil(pay) \/ Keep(pay) \/ Credit(pay)

Spec == Init /\ [][Next]_<<status, money>>
=============================================================================
