--------------------------- MODULE MCOrderPayment ---------------------------
(* Instances of OrderPayment for model checking. *)
EXTENDS OrderPayment, TLC

CONSTANTS u1, u2, c1

(* An order of a user over a price, with or without balance and coupon.    *)
Priced(kind, u, total, applied, c) ==
  [kind |-> kind, user |-> u, total |-> total, applied |-> applied, refund |-> 0, coupon |-> c]

OneNewOrder == {Priced("new", u1, 1, 0, NoCoupon)}

(* Two users who want the one coupon there is, orders that use a part or   *)
(* all of the balance, a top-up and an upgrade that pays back.             *)
Mixed ==
  {Priced("new", u2, 2, 1, c1), Priced("new", u1, 1, 0, c1), Priced("topup", u2, 1, 0, NoCoupon),
   Priced("stack", u2, 1, 1, c1), [Priced("upgrade", u2, 0, 0, NoCoupon) EXCEPT !.refund = 1],
   Priced("renewal", u2, 2, 0, NoCoupon)}

(* Two orders of one user that compete for the balance while both are paid. *)
Rivals ==
  {Priced("new", u2, 2, 1, c1), Priced("topup", u2, 1, 0, NoCoupon)}

Placed == {o \in Orders : orderStatus[o] # "none"}

(* Bound: at most one change of the catalogue, a plan or a coupon that can *)
(* no longer be bought with, at a time, and none beside three orders.      *)
OneCatalogueChange ==
  Cardinality({x \in {"plan", "coupon", "window"} :
                 \/ x = "plan" /\ planArchived
                 \/ x = "coupon" /\ couponStatus[c1] = "paused"
                 \/ x = "window" /\ ~ windowOpen[c1]})
    <= IF Cardinality(Placed) < 3 THEN 1 ELSE 0

(* Bound: the balance of the one user whose orders use it is adjusted, and *)
(* orders are paid offline, or one of two rivals is paid at a channel.     *)
OfflineOrRivals ==
  /\ OneCatalogueChange
  /\ adjusted[u1] = 0
  /\ \/ \A o \in Orders : intents[o] = <<>>
     \/ /\ Cardinality({o \in Orders : intents[o] # <<>>}) = 1
        /\ Cardinality(Placed) <= 2
        /\ \A o \in Orders : draft[o] \in Rivals \cup {NoDraft}
        /\ ~ planArchived
        /\ couponStatus[c1] = "active" /\ windowOpen[c1]

(* Bound: the payer uses two payment pages, or one of them twice, and at   *)
(* most two payments of an order are taken, by channels or offline.        *)
TwoPagesOrTwoPayments ==
  /\ Cardinality(captured) <= 2
  /\ \/ \A pay \in captured : CaptureOf(pay) = 1
     \/ \A o \in Orders : Len(intents[o]) <= 1

UpAndDown == {1, -1}

NobodyRefers == [u \in Users |-> NoUser]

(* The second user was invited by the first. *)
SecondIsReferred == [u \in Users |-> IF u = u2 THEN u1 ELSE NoUser]

OneUse == [c \in Coupons |-> 1]

WorkerSymmetry == Permutations(Workers)
OrderSymmetry == Permutations(Orders)
=============================================================================
