------------------------------- MODULE Promo -------------------------------
(***************************************************************************)
(* Coupons and their occupation by orders (module promo of the panel).     *)
(*                                                                         *)
(* A coupon row carries two counters, reserved_count and redeemed_count,   *)
(* that are kept next to, and in the same transactions as, the rows of     *)
(* coupon_redemptions (one row per order at most).  An order that uses a   *)
(* coupon holds it while it waits for its payment, captures it when it is  *)
(* paid and releases it when it is cancelled or times out.                 *)
(*                                                                         *)
(* The order module runs every operation below inside its own transaction; *)
(* the actions here touch only the variables of this module, so that       *)
(* OrderPayment can conjoin them with the rest of the transaction.         *)
(***************************************************************************)
EXTENDS Panel

CONSTANTS
  Coupons,         \* coupon ids
  NoCoupon,        \* "this order has no row in coupon_redemptions"
  MaxRedemptions,  \* coupons.max_redemptions, Unlimited where it is NULL
  MaxPerUser,      \* coupons.max_redemptions_per_user
  Unlimited        \* stands for NULL in MaxRedemptions

ASSUME PromoConstants ==
  /\ NoCoupon \notin Coupons
  /\ Unlimited \notin Nat
  /\ MaxRedemptions \in [Coupons -> Nat \cup {Unlimited}]
  /\ MaxPerUser \in [Coupons -> Nat]

VARIABLES
  couponStatus,    \* coupons.status: what an administrator last set
  windowOpen,      \* now lies in [valid_from, valid_until]
  reserved,        \* coupons.reserved_count
  redeemed,        \* coupons.redeemed_count
  redStatus,       \* coupon_redemptions.status of the order's row
  redCoupon,       \* coupon_redemptions.coupon_id of the order's row
  redUser          \* coupon_redemptions.user_id of the order's row

promoVars == <<couponStatus, windowOpen, reserved, redeemed,
               redStatus, redCoupon, redUser>>

promoRows == <<reserved, redeemed, redStatus, redCoupon, redUser>>

RedemptionStates == {"none", "held", "captured", "released"}

(* The rows of coupon_redemptions of coupon c in state st. *)
Rows(c, st) == {o \in Orders : redStatus[o] = st /\ redCoupon[o] = c}

(* The rows CountActiveByUser counts: held or captured, of one user. *)
ActiveByUser(c, u) ==
  {o \in Orders : /\ redStatus[o] \in {"held", "captured"}
                  /\ redCoupon[o] = c
                  /\ redUser[o] = u}

PromoInit ==
  /\ couponStatus = [c \in Coupons |-> "active"]
  /\ windowOpen = [c \in Coupons |-> TRUE]
  /\ reserved = [c \in Coupons |-> 0]
  /\ redeemed = [c \in Coupons |-> 0]
  /\ redStatus = [o \in Orders |-> "none"]
  /\ redCoupon = [o \in Orders |-> NoCoupon]
  /\ redUser = [o \in Orders |-> NoUser]

(* Mutant: the occupation by unpaid orders is not counted. *)
HasCapacityIgnoringReserved(c) ==
  MaxRedemptions[c] # Unlimited => redeemed[c] < MaxRedemptions[c]

-----------------------------------------------------------------------------
(* apply: what Evaluate and Reserve check, under the lock on the coupon    *)
(* row.  Plan scope, user group and minimum amount do not change while an  *)
(* order lives and only narrow the set of buyers; they are left out.       *)

HasCapacity(c) ==
  MaxRedemptions[c] # Unlimited => redeemed[c] + reserved[c] < MaxRedemptions[c]

checkBasics(c) == couponStatus[c] = "active" /\ windowOpen[c] /\ HasCapacity(c)

UserBelowLimit(c, u) == Cardinality(ActiveByUser(c, u)) < MaxPerUser[c]

apply(c, u) == checkBasics(c) /\ UserBelowLimit(c, u)

(* Reserve: one row per order, and the counter goes up with it. *)
Reserve(o, c, u) ==
  /\ apply(c, u)
  /\ redStatus[o] = "none"
  /\ redStatus' = [redStatus EXCEPT ![o] = "held"]
  /\ redCoupon' = [redCoupon EXCEPT ![o] = c]
  /\ redUser' = [redUser EXCEPT ![o] = u]
  /\ reserved' = [reserved EXCEPT ![c] = @ + 1]
  /\ UNCHANGED <<couponStatus, windowOpen, redeemed>>

(* Capture: FinishHeld(captured), then MoveReservedToRedeemed. *)
Capture(o) ==
  /\ redStatus[o] = "held"
  /\ reserved[redCoupon[o]] > 0
  /\ redStatus' = [redStatus EXCEPT ![o] = "captured"]
  /\ reserved' = [reserved EXCEPT ![redCoupon[o]] = @ - 1]
  /\ redeemed' = [redeemed EXCEPT ![redCoupon[o]] = @ + 1]
  /\ UNCHANGED <<couponStatus, windowOpen, redCoupon, redUser>>

(* Reserve and Capture of one order in one transaction: an order that has  *)
(* nothing left to pay is settled where it is created (settleZeroPay).     *)
ReserveCaptured(o, c, u) ==
  /\ apply(c, u)
  /\ redStatus[o] = "none"
  /\ redStatus' = [redStatus EXCEPT ![o] = "captured"]
  /\ redCoupon' = [redCoupon EXCEPT ![o] = c]
  /\ redUser' = [redUser EXCEPT ![o] = u]
  /\ redeemed' = [redeemed EXCEPT ![c] = @ + 1]
  /\ UNCHANGED <<couponStatus, windowOpen, reserved>>

(* Release: FinishHeld(released), then DecrementReserved. *)
Release(o) ==
  /\ redStatus[o] = "held"
  /\ reserved[redCoupon[o]] > 0
  /\ redStatus' = [redStatus EXCEPT ![o] = "released"]
  /\ reserved' = [reserved EXCEPT ![redCoupon[o]] = @ - 1]
  /\ UNCHANGED <<couponStatus, windowOpen, redeemed, redCoupon, redUser>>

(* An administrator pauses or resumes a coupon. *)
SetCouponStatus(c, st) ==
  /\ couponStatus[c] # st
  /\ couponStatus' = [couponStatus EXCEPT ![c] = st]
  /\ UNCHANGED <<windowOpen, promoRows>>

(* valid_until passes. *)
WindowCloses(c) ==
  /\ windowOpen[c]
  /\ windowOpen' = [windowOpen EXCEPT ![c] = FALSE]
  /\ UNCHANGED <<couponStatus, promoRows>>

(* What happens to coupons outside the transactions of an order. *)
PromoAdmin ==
  \E c \in Coupons :
    \/ \E st \in {"active", "paused"} : SetCouponStatus(c, st)
    \/ WindowCloses(c)

PromoNext ==
  \/ \E o \in Orders, c \in Coupons, u \in Users :
       Reserve(o, c, u) \/ ReserveCaptured(o, c, u)
  \/ \E o \in Orders : Capture(o) \/ Release(o)
  \/ PromoAdmin

PromoSpec == PromoInit /\ [][PromoNext]_promoVars

-----------------------------------------------------------------------------
(* Type invariant of the coupon tables; a row exists exactly when it names *)
(* a coupon and a user (coupon_redemptions columns are NOT NULL).          *)
PromoTypeOK ==
  /\ couponStatus \in [Coupons -> {"active", "paused"}]
  /\ windowOpen \in [Coupons -> BOOLEAN]
  /\ reserved \in [Coupons -> Nat]
  /\ redeemed \in [Coupons -> Nat]
  /\ redStatus \in [Orders -> RedemptionStates]
  /\ redCoupon \in [Orders -> Coupons \cup {NoCoupon}]
  /\ redUser \in [Orders -> Users \cup {NoUser}]
  /\ \A o \in Orders : redStatus[o] # "none" =>
                          redCoupon[o] \in Coupons /\ redUser[o] \in Users

(* The two counters of a coupon always equal the number of held and of     *)
(* captured rows: Reserve, Capture and Release keep the counter and the    *)
(* rows together, so the "counter mismatch" errors of Release and Capture  *)
(* are unreachable.                                                        *)
CountersMatchRows ==
  \A c \in Coupons :
    /\ reserved[c] = Cardinality(Rows(c, "held"))
    /\ redeemed[c] = Cardinality(Rows(c, "captured"))

(* A coupon is never used by more orders than max_redemptions allows,      *)
(* counting the orders that still wait for their payment.                  *)
WithinCapacity ==
  \A c \in Coupons :
    MaxRedemptions[c] # Unlimited =>
      Cardinality(Rows(c, "held")) + Cardinality(Rows(c, "captured"))
        <= MaxRedemptions[c]

(* One user never has more unreleased uses of a coupon than                *)
(* max_redemptions_per_user.                                               *)
WithinUserLimit ==
  \A c \in Coupons, u \in Users : Cardinality(ActiveByUser(c, u)) <= MaxPerUser[c]

(* A captured or released row is final: CanTransition only leaves held.    *)
RedemptionIsFinal ==
  [][\A o \in Orders :
       redStatus[o] \in {"captured", "released"} =>
         redStatus'[o] = redStatus[o] /\ redCoupon'[o] = redCoupon[o]]_promoVars

(* What holds of the coupon tables in every state: the counters are right   *)
(* and neither limit is exceeded.                                           *)
CouponInv ==
  /\ PromoTypeOK
  /\ CountersMatchRows
  /\ WithinCapacity
  /\ WithinUserLimit
=============================================================================
