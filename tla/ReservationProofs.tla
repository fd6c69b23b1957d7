------------------------- MODULE ReservationProofs -------------------------
(***************************************************************************)
(* Proofs about what an order holds, for any orders, users, coupons,       *)
(* providers, workers and amounts: the reservation row, the coupon and the *)
(* part of the balance follow the status of the order, and no user account *)
(* is overdrawn, whatever the payment channels and the jobs do.            *)
(*                                                                         *)
(* The invariant ReservationsFollowOrder is not inductive by itself.  A    *)
(* settlement posts amounts of the draft and of the intent, so they must   *)
(* be amounts (DraftsAreSound, PaymentsAreKnown), and what a posting does  *)
(* to a hold is known for a sound ledger only.                             *)
(***************************************************************************)
EXTENDS SettlementProofs

ReservationInv ==
  /\ DraftsAreSound
  /\ PaymentsAreKnown
  /\ Sound(ledger)
  /\ ReservationsFollowOrder

-----------------------------------------------------------------------------
(* The reservation that each status of an order calls for. *)
LEMMA ReservationStates ==
  /\ ReservationOf("none") = "none"
  /\ ReservationOf("pending_payment") = "held"
  /\ ReservationOf("fulfilled") = "captured"
  /\ ReservationOf("cancelled") = "released"
  /\ ReservationOf("expired") = "released"
BY Zenon DEF ReservationOf

(* The rows of all orders but o are left alone. *)
OrdersKept(o) ==
  \A q \in Orders \ {o} :
    orderStatus'[q] = orderStatus[q] /\ draft'[q] = draft[q] /\ resv'[q] = resv[q]

CouponsKept(o) ==
  \A q \in Orders \ {o} :
    redStatus'[q] = redStatus[q] /\ redCoupon'[q] = redCoupon[q] /\ redUser'[q] = redUser[q]

HoldsKept(o) ==
  \A q \in Orders \ {o} :
    /\ ledger'.hold[q] = ledger.hold[q]
    /\ ledger'.amount[q] = ledger.amount[q]
    /\ ledger'.owner[q] = ledger.owner[q]

(* A step on one order has to be looked at for that order only. *)
LEMMA OneOrderFollows ==
  ASSUME ReservationsFollowOrder, NEW o \in Orders,
         OrdersKept(o), CouponsKept(o), HoldsKept(o), Follows(o)'
  PROVE  ReservationsFollowOrder'
<1>1. ASSUME NEW q \in Orders \ {o} PROVE Follows(q)'
  <2>1. Follows(q)
    BY Zenon DEF ReservationsFollowOrder
  <2>2. orderStatus'[q] = orderStatus[q] /\ draft'[q] = draft[q] /\ resv'[q] = resv[q]
    BY Zenon DEF OrdersKept
  <2>3. CouponFollows(q, ReservationOf(orderStatus[q]))'
    BY <2>1, <2>2, Zenon DEF Follows, CouponFollows, CouponsKept
  <2>4. HoldFollows(q, ReservationOf(orderStatus[q]))'
    BY <2>1, <2>2, Zenon DEF Follows, HoldFollows, HoldsKept
  <2> QED BY <2>1, <2>2, <2>3, <2>4, Zenon DEF Follows
<1> QED BY <1>1, Zenon DEF ReservationsFollowOrder

(* A step that leaves the rows alone keeps them as they should be. *)
LEMMA SameRowsFollow ==
  ASSUME ReservationsFollowOrder, UNCHANGED <<orderStatus, draft, resv>>,
         UNCHANGED <<redStatus, redCoupon, redUser>>, SameHolds(ledger, ledger')
  PROVE  ReservationsFollowOrder'
<1> SUFFICES ASSUME NEW q \in Orders PROVE Follows(q)'
  BY Zenon DEF ReservationsFollowOrder
<1>1. Follows(q)
  BY Zenon DEF ReservationsFollowOrder
<1>2. CouponFollows(q, ReservationOf(orderStatus[q]))'
  BY <1>1, Zenon DEF Follows, CouponFollows
<1>3. HoldFollows(q, ReservationOf(orderStatus[q]))'
  BY <1>1, Zenon DEF Follows, HoldFollows, SameHolds
<1> QED BY <1>1, <1>2, <1>3, Zenon DEF Follows

(* The rows are functions on the orders. *)
OrderRows ==
  /\ orderStatus \in [Orders -> OrderStates] /\ draft \in [Orders -> Drafts]
  /\ resv \in [Orders -> HoldStates]

CouponRows ==
  /\ redStatus \in [Orders -> RedemptionStates]
  /\ redCoupon \in [Orders -> Coupons \cup {NoCoupon}]
  /\ redUser \in [Orders -> Users \cup {NoUser}]

HoldRows ==
  /\ ledger.hold \in [Orders -> HoldStates] /\ ledger.amount \in [Orders -> Nat]
  /\ ledger.owner \in [Orders -> Users \cup {NoUser}]

(* They are, by the type invariants. *)
LEMMA RowsTyped ==
  ASSUME OrderPaymentTypeOK, PromoTypeOK, Sound(ledger)
  PROVE  OrderRows /\ CouponRows /\ HoldRows
<1>1. OrderRows
  BY Zenon DEF OrderPaymentTypeOK, OrderRows
<1>2. CouponRows
  BY Zenon DEF PromoTypeOK, CouponRows
<1>3. HoldRows
  BY Zenon DEF Sound, Ledgers, HoldRows
<1> QED BY <1>1, <1>2, <1>3, Zenon

(* What an order holds before it is placed. *)
LEMMA NothingHeld ==
  ASSUME DraftsAreSound, ReservationsFollowOrder, NEW o \in Orders, orderStatus[o] = "none"
  PROVE  resv[o] = "none" /\ redStatus[o] = "none" /\ ledger.hold[o] = "none"
<1>1. Follows(o)
  BY Zenon DEF ReservationsFollowOrder
<1>2. draft[o].coupon = NoCoupon /\ draft[o].applied = 0
  BY DEF DraftsAreSound, NoDraft
<1> QED BY <1>1, <1>2, ReservationStates, Zenon DEF Follows, CouponFollows, HoldFollows

-----------------------------------------------------------------------------
(* How the rows of one order move.  st is the state it is taken to.        *)
OrderMoves(o, status, d, st) ==
  /\ orderStatus' = [orderStatus EXCEPT ![o] = status]
  /\ draft' = [draft EXCEPT ![o] = d]
  /\ resv' = [resv EXCEPT ![o] = st]
  /\ ReservationOf(status) = st

CouponTaken(o, d, st) ==
  IF d.coupon = NoCoupon
  THEN redStatus[o] = "none" /\ UNCHANGED <<redStatus, redCoupon, redUser>>
  ELSE /\ redStatus' = [redStatus EXCEPT ![o] = st]
       /\ redCoupon' = [redCoupon EXCEPT ![o] = d.coupon]
       /\ redUser' = [redUser EXCEPT ![o] = d.user]

HoldTaken(o, d, st) ==
  IF d.applied = 0
  THEN ledger.hold[o] = "none" /\ SameHolds(ledger, ledger')
  ELSE /\ ledger'.hold = [ledger.hold EXCEPT ![o] = st]
       /\ ledger'.amount = [ledger.amount EXCEPT ![o] = d.applied]
       /\ ledger'.owner = [ledger.owner EXCEPT ![o] = d.user]

(* A step that takes the three rows of one order to one state. *)
LEMMA TakenFollows ==
  ASSUME OrderRows, CouponRows, HoldRows, ReservationsFollowOrder,
         NEW o \in Orders, NEW status, NEW d, NEW st,
         OrderMoves(o, status, d, st), CouponTaken(o, d, st), HoldTaken(o, d, st)
  PROVE  ReservationsFollowOrder'
<1>1. OrdersKept(o) /\ orderStatus'[o] = status /\ draft'[o] = d /\ resv'[o] = st
  BY Zenon DEF OrderRows, OrderMoves, OrdersKept
<1>2. CouponsKept(o) /\ CouponFollows(o, st)'
  <2>1. CASE d.coupon = NoCoupon
    BY <1>1, <2>1, Zenon DEF CouponRows, CouponTaken, CouponsKept, CouponFollows
  <2>2. CASE d.coupon # NoCoupon
    BY <1>1, <2>2, Zenon DEF CouponRows, CouponTaken, CouponsKept, CouponFollows
  <2> QED BY <2>1, <2>2, SMTT(20)
<1>3. HoldsKept(o) /\ HoldFollows(o, st)'
  <2>1. CASE d.applied = 0
    BY <1>1, <2>1, Zenon DEF HoldRows, HoldTaken, HoldsKept, HoldFollows, SameHolds
  <2>2. CASE d.applied # 0
    BY <1>1, <2>2, Zenon DEF HoldRows, HoldTaken, HoldsKept, HoldFollows
  <2> QED BY <2>1, <2>2, Zenon
<1>4. ReservationOf(status) = st
  BY Zenon DEF OrderMoves
<1>5. Follows(o)'
  BY <1>1, <1>2, <1>3, <1>4, SMTT(20) DEF Follows, CouponFollows, HoldFollows
<1> QED BY <1>1, <1>2, <1>3, <1>5, OneOrderFollows, SMTT(20)

(* How the rows of an order move that keeps its draft. *)
OrderFinished(o, status, st) ==
  /\ orderStatus' = [orderStatus EXCEPT ![o] = status]
  /\ draft' = draft
  /\ resv' = [resv EXCEPT ![o] = st]
  /\ ReservationOf(status) = st

CouponFinished(o, st) ==
  /\ redCoupon' = redCoupon /\ redUser' = redUser
  /\ redStatus' = IF draft[o].coupon = NoCoupon THEN redStatus
                  ELSE [redStatus EXCEPT ![o] = st]

HoldFinished(o, st) ==
  /\ draft[o].applied = 0 => ledger'.hold = ledger.hold
  /\ draft[o].applied # 0 => ledger'.hold = [ledger.hold EXCEPT ![o] = st]
  /\ ledger'.amount = ledger.amount
  /\ ledger'.owner = ledger.owner

(* A step that takes the three rows of a placed order to one state. *)
LEMMA FinishedFollows ==
  ASSUME OrderRows, CouponRows, HoldRows, ReservationsFollowOrder,
         NEW o \in Orders, NEW status, NEW st,
         OrderFinished(o, status, st), CouponFinished(o, st), HoldFinished(o, st)
  PROVE  ReservationsFollowOrder'
<1>0. Follows(o)
  BY Zenon DEF ReservationsFollowOrder
<1>1. OrdersKept(o) /\ orderStatus'[o] = status /\ draft' = draft /\ resv'[o] = st
  BY Zenon DEF OrderRows, OrderFinished, OrdersKept
<1>2. CouponsKept(o) /\ CouponFollows(o, st)'
  <2>1. CASE draft[o].coupon = NoCoupon
    BY <1>0, <1>1, <2>1, SMTT(20) DEF CouponFinished, CouponsKept, CouponFollows, Follows
  <2>2. CASE draft[o].coupon # NoCoupon
    BY <1>0, <1>1, <2>2, Zenon DEF CouponRows, CouponFinished, CouponsKept, CouponFollows, Follows
  <2> QED BY <2>1, <2>2, Zenon
<1>3. HoldsKept(o) /\ HoldFollows(o, st)'
  <2>1. CASE draft[o].applied = 0
    BY <1>0, <1>1, <2>1, SMTT(20) DEF HoldFinished, HoldsKept, HoldFollows, Follows
  <2>2. CASE draft[o].applied # 0
    BY <1>0, <1>1, <2>2, Zenon DEF HoldRows, HoldFinished, HoldsKept, HoldFollows, Follows
  <2> QED BY <2>1, <2>2, Zenon
<1>4. ReservationOf(status) = st
  BY Zenon DEF OrderFinished
<1>5. Follows(o)'
  BY <1>1, <1>2, <1>3, <1>4, SMTT(20) DEF Follows, CouponFollows, HoldFollows
<1> QED BY <1>1, <1>2, <1>3, <1>5, OneOrderFollows, SMTT(20)

-----------------------------------------------------------------------------
(* Placing an order. *)
LEMMA PlaceFollows ==
  ASSUME OrderPaymentTypeOK, PromoTypeOK, ReservationInv,
         NEW o \in Orders, NEW d \in Placements, Place(o, d)
  PROVE  Sound(ledger') /\ ReservationsFollowOrder'
<1>0. Sound(ledger) /\ DraftsAreSound /\ ReservationsFollowOrder
  BY Zenon DEF ReservationInv
<1>1. orderStatus[o] = "none" /\ OrderMoves(o, "pending_payment", d, "held")
  BY ReservationStates, Zenon DEF Place, CanPlace, OrderMoves
<1>2. ledger.hold[o] = "none" /\ redStatus[o] = "none"
  BY <1>0, <1>1, NothingHeld, SMTT(20)
<1>3. CouponTaken(o, d, "held")
  BY <1>2, Zenon DEF Place, Reserve, promoVars, CouponTaken
<1>4. Sound(ledger') /\ HoldTaken(o, d, "held")
  <2>1. d.user \in Users /\ d.applied \in Nat
    BY PlacementTypes, SMTT(20)
  <2>2. CASE d.applied = 0
    BY <1>0, <1>2, <2>2, SMTT(20) DEF Place, HoldTaken, SameHolds
  <2>3. CASE d.applied # 0
    <3>1. d.applied > 0
      BY <2>1, <2>3
    <3>2. /\ CanHold(ledger, o, d.user, d.applied)
          /\ ledger' = HoldForOrder(ledger, o, d.user, d.applied)
      BY <2>3, <3>1, Zenon DEF Place
    <3> QED BY <1>0, <2>1, <2>3, <3>2, HoldSound, SMTT(20) DEF HoldTaken
  <2> QED BY <2>2, <2>3, SMTT(20)
<1>5. OrderRows /\ CouponRows /\ HoldRows
  BY <1>0, RowsTyped, Zenon
<1> QED BY <1>0, <1>1, <1>3, <1>4, <1>5, TakenFollows, SMTT(20)

(* Placing an order that has nothing left to pay. *)
LEMMA PlaceZeroFollows ==
  ASSUME OrderPaymentTypeOK, PromoTypeOK, ReservationInv,
         NEW o \in Orders, NEW d \in Placements, PlaceZero(o, d)
  PROVE  Sound(ledger') /\ ReservationsFollowOrder'
<1>0. Sound(ledger) /\ DraftsAreSound /\ ReservationsFollowOrder
  BY Zenon DEF ReservationInv
<1>1. orderStatus[o] = "none" /\ OrderMoves(o, "fulfilled", d, "captured")
  BY ReservationStates, Zenon DEF PlaceZero, CanPlace, OrderMoves
<1>2. ledger.hold[o] = "none" /\ redStatus[o] = "none"
  BY <1>0, <1>1, NothingHeld, SMTT(20)
<1>3. CouponTaken(o, d, "captured")
  BY <1>2, Zenon DEF PlaceZero, ReserveCaptured, promoVars, CouponTaken
<1>4. d \in PlacedDrafts /\ d.user \in Users /\ d.applied \in Nat
  BY PlacementTypes, Zenon
<1>5. Sound(ledger') /\ HoldTaken(o, d, "captured")
  <2>1. CASE d.applied = 0
    <3>1. ledger' = Refunded(ledger, o, d)
      BY <2>1, Zenon DEF PlaceZero
    <3>2. Sound(ledger') /\ SameHolds(ledger, ledger')
      BY <1>0, <1>4, <3>1, RefundedSound, SMTT(20)
    <3> QED BY <1>2, <2>1, <3>2, SMTT(20) DEF HoldTaken
  <2>2. CASE d.applied # 0
    <3>1. d.applied > 0
      BY <1>4, <2>2
    <3>2. PICK L : L = CaptureFromBalance(ledger, o, d.user, d.applied)
      BY Zenon
    <3>3. /\ CanCaptureFromBalance(ledger, o, d.user, d.applied)
          /\ ledger' = Refunded(L, o, d)
      BY <2>2, <3>1, <3>2, SMTT(20) DEF PlaceZero
    <3>4. /\ Sound(L)
          /\ L.hold = [ledger.hold EXCEPT ![o] = "captured"]
          /\ L.amount = [ledger.amount EXCEPT ![o] = d.applied]
          /\ L.owner = [ledger.owner EXCEPT ![o] = d.user]
      BY <1>0, <1>4, <3>2, <3>3, CaptureSound, SMTT(20)
    <3>5. Sound(ledger') /\ SameHolds(L, ledger')
      BY <1>4, <3>3, <3>4, RefundedSound, SMTT(20)
    <3> QED BY <2>2, <3>4, <3>5, SMTT(20) DEF HoldTaken, SameHolds
  <2> QED BY <2>1, <2>2, Zenon
<1>6. OrderRows /\ CouponRows /\ HoldRows
  BY <1>0, RowsTyped, Zenon
<1> QED BY <1>0, <1>1, <1>3, <1>5, <1>6, TakenFollows, SMTT(20)

(* A manual order that is placed and paid offline. *)
LEMMA PlaceOfflineFollows ==
  ASSUME OrderPaymentTypeOK, PromoTypeOK, ReservationInv,
         NEW o \in Orders, NEW d \in Placements, NEW k \in 1..MaxCaptures, PlaceOffline(o, d, k)
  PROVE  Sound(ledger') /\ ReservationsFollowOrder'
<1>0. Sound(ledger) /\ DraftsAreSound /\ ReservationsFollowOrder
  BY Zenon DEF ReservationInv
<1>1. orderStatus[o] = "none" /\ OrderMoves(o, "fulfilled", d, "captured")
  BY ReservationStates, Zenon DEF PlaceOffline, CanPlace, OrderMoves
<1>2. ledger.hold[o] = "none" /\ redStatus[o] = "none"
  BY <1>0, <1>1, NothingHeld, SMTT(20)
<1>3. /\ d.applied = 0 /\ d.coupon = NoCoupon
      /\ CanSettle(ledger, o, d, Offline, 0)
      /\ ledger' = Settled(ledger, o, d, Offline, 0)
      /\ UNCHANGED promoVars
  BY Zenon DEF PlaceOffline
<1>4. CouponTaken(o, d, "captured")
  BY <1>2, <1>3, SMTT(20) DEF promoVars, CouponTaken
<1>5. Sound(ledger') /\ SameHolds(ledger, ledger')
  <2>1. PICK x \in Nat, p \in Providers : x = 0 /\ p = Offline
    BY PanelConstants, Zenon DEF PanelConstants
  <2>2. CanSettle(ledger, o, d, p, x) /\ ledger' = Settled(ledger, o, d, p, x)
    BY <1>3, <2>1, Zenon
  <2>3. d \in PlacedDrafts /\ d.applied <= d.total /\ (d.kind = "topup" => d.applied = 0)
    BY <1>3, PlacementTypes, SMTT(20)
  <2>4. SettledFrom(ledger, ledger', o, d)
    BY <1>0, <2>2, <2>3, SettledSound, SMTT(20)
  <2> QED BY <1>3, <2>4, Zenon DEF SettledFrom, SameHolds
<1>6. HoldTaken(o, d, "captured")
  BY <1>2, <1>3, <1>5, SMTT(20) DEF HoldTaken
<1>7. OrderRows /\ CouponRows /\ HoldRows
  BY <1>0, RowsTyped, Zenon
<1> QED BY <1>0, <1>1, <1>4, <1>5, <1>6, <1>7, TakenFollows, SMTT(20)

(* The settlement of a pending order: its coupon and its hold are captured *)
(* with it.                                                                *)
LEMMA SettleFollows ==
  ASSUME OrderPaymentTypeOK, PromoTypeOK, ReservationInv,
         NEW o \in Orders, NEW p \in Providers, NEW x \in Nat, SettleOrderWith(o, p, x)
  PROVE  Sound(ledger') /\ ReservationsFollowOrder'
<1>0. Sound(ledger) /\ DraftsAreSound /\ ReservationsFollowOrder
  BY Zenon DEF ReservationInv
<1>1. /\ orderStatus[o] = "pending_payment"
      /\ OrderFinished(o, "fulfilled", "captured")
      /\ CanSettle(ledger, o, draft[o], p, x)
      /\ ledger' = Settled(ledger, o, draft[o], p, x)
  BY ReservationStates, SMTT(20) DEF SettleOrderWith, Accepts, OrderFinished
<1>2. CouponFinished(o, "captured")
  BY Zenon DEF SettleOrderWith, Capture, promoVars, CouponFinished
<1>3. Sound(ledger') /\ HoldFinished(o, "captured")
  <2>1. PICK d : d = draft[o]
    BY SMTT(20)
  <2>2. /\ d \in PlacedDrafts /\ d.applied <= d.total
        /\ d.kind = "topup" => d.applied = 0
    BY <1>0, <1>1, <2>1, SMTT(20) DEF DraftsAreSound
  <2>3. CanSettle(ledger, o, d, p, x) /\ ledger' = Settled(ledger, o, d, p, x)
    BY <1>1, <2>1, SMTT(20)
  <2>4. SettledFrom(ledger, ledger', o, d)
    BY <1>0, <2>2, <2>3, SettledSound, SMTT(20)
  <2> QED BY <2>1, <2>4, Zenon DEF SettledFrom, HoldFinished
<1>4. OrderRows /\ CouponRows /\ HoldRows
  BY <1>0, RowsTyped, SMTT(20)
<1> QED BY <1>0, <1>1, <1>2, <1>3, <1>4, FinishedFollows, SMTT(20)

(* The release of a pending order: its coupon and its hold are given back  *)
(* with it, also after postings that leave the holds alone.                *)
LEMMA ReleaseFollows ==
  ASSUME OrderPaymentTypeOK, PromoTypeOK, ReservationInv,
         NEW o \in Orders, NEW to \in {"cancelled", "expired"}, ReleaseReservations(o, to),
         NEW L, Sound(L), SameHolds(ledger, L), CanRelease(L, o), ledger' = HoldGivenBack(L, o)
  PROVE  Sound(ledger') /\ ReservationsFollowOrder'
<1>0. Sound(ledger) /\ DraftsAreSound /\ ReservationsFollowOrder
  BY Zenon DEF ReservationInv
<1>1. /\ orderStatus[o] = "pending_payment"
      /\ OrderFinished(o, to, "released")
      /\ draft[o].applied > 0 => ledger.hold[o] = "held"
  BY ReservationStates, SMTT(20) DEF ReleaseReservations, OrderFinished
<1>2. CouponFinished(o, "released")
  BY Zenon DEF ReleaseReservations, Release, promoVars, CouponFinished
<1>3. Sound(ledger') /\ HoldFinished(o, "released")
  <2>1. CASE draft[o].applied = 0
    BY <2>1, SMTT(20) DEF HoldGivenBack, SameHolds, HoldFinished
  <2>2. CASE draft[o].applied # 0
    <3>0. PICK d : d = draft[o]
      BY Zenon
    <3>1. d \in PlacedDrafts
      BY <1>0, <1>1, <3>0, Zenon DEF DraftsAreSound
    <3>2. d.applied \in Nat
      BY <3>1, Zenon DEF PlacedDrafts
    <3>3. d.applied > 0
      BY <2>2, <3>0, <3>2, SMTT(20)
    <3>4. ledger' = ReleaseOrderHold(L, o) /\ L.hold[o] = "held"
      BY <1>1, <2>2, <3>0, <3>3, SMTT(20) DEF HoldGivenBack, SameHolds
    <3> QED BY <2>2, <3>4, ReleaseSound DEF SameHolds, HoldFinished
  <2> QED BY <2>1, <2>2, SMTT(20)
<1>4. OrderRows /\ CouponRows /\ HoldRows
  BY <1>0, RowsTyped, SMTT(20)
<1> QED BY <1>0, <1>1, <1>2, <1>3, <1>4, FinishedFollows, SMTT(20)

-----------------------------------------------------------------------------
(* Every step of the system keeps the ledger sound and what the orders     *)
(* hold in line with their status.                                         *)
LEMMA OrderFollows ==
  ASSUME OrderPaymentTypeOK, PromoTypeOK, ReservationInv, OrderNext
  PROVE  Sound(ledger') /\ ReservationsFollowOrder'
<1> PICK o \in Orders :
      \/ \E d \in Placements : Place(o, d) \/ PlaceZero(o, d)
      \/ \E d \in Placements, k \in 1..MaxCaptures : PlaceOffline(o, d, k)
      \/ \E k \in 1..MaxCaptures : MarkPaid(o, k)
      \/ Cancel(o) \/ Lapse(o) \/ expireOne(o) \/ SubscriptionChanges(o)
  BY Zenon DEF OrderNext
<1>1. CASE \E d \in Placements : Place(o, d) \/ PlaceZero(o, d)
  BY <1>1, PlaceFollows, PlaceZeroFollows, SMTT(20)
<1>2. CASE \E d \in Placements, k \in 1..MaxCaptures : PlaceOffline(o, d, k)
  BY <1>2, PlaceOfflineFollows, Zenon
<1>3. CASE \E k \in 1..MaxCaptures : MarkPaid(o, k)
  <2>1. SettleOrderWith(o, Offline, 0) /\ Offline \in Providers /\ 0 \in Nat
    BY <1>3, PanelConstants, Zenon DEF MarkPaid, PanelConstants
  <2> QED BY <2>1, SettleFollows, Zenon
<1>4. ASSUME NEW to \in {"cancelled", "expired"}, NEW intentTo, releaseOrder(o, to, intentTo)
      PROVE  Sound(ledger') /\ ReservationsFollowOrder'
  <2>1. Sound(ledger) /\ SameHolds(ledger, ledger)
    BY Zenon DEF ReservationInv, SameHolds
  <2>2. /\ ReleaseReservations(o, to) /\ CanRelease(ledger, o)
        /\ ledger' = HoldGivenBack(ledger, o)
    BY <1>4, Zenon DEF releaseOrder
  <2> QED BY <2>1, <2>2, ReleaseFollows, SMTT(20)
<1>5. CASE Cancel(o) \/ expireOne(o)
  BY <1>4, <1>5, SMTT(20) DEF Cancel, expireOne
<1>6. CASE Lapse(o) \/ SubscriptionChanges(o)
  <2>1. UNCHANGED <<orderStatus, draft, resv, promoVars, ledger>>
    BY <1>6, Zenon DEF Lapse, SubscriptionChanges, orderVars
  <2> QED BY <2>1, SameRowsFollow, SMTT(20) DEF promoVars, SameHolds, ReservationInv
<1> QED BY <1>1, <1>2, <1>3, <1>5, <1>6, SMTT(20)

(* So do the transactions that record and apply payments. *)
LEMMA RecordFollows ==
  ASSUME OrderPaymentTypeOK, PromoTypeOK, ReservationInv, RecordNext
  PROVE  Sound(ledger') /\ ReservationsFollowOrder'
<1>0. Sound(ledger) /\ DraftsAreSound /\ ReservationsFollowOrder
  BY Zenon DEF ReservationInv
<1>1. ASSUME UNCHANGED <<orderVars, promoVars>>, Sound(ledger'), SameHolds(ledger, ledger')
      PROVE  Sound(ledger') /\ ReservationsFollowOrder'
  BY <1>0, <1>1, SameRowsFollow, SMTT(20) DEF orderVars, promoVars
<1>2. ASSUME NEW w \in Workers, worker[w].pc # "idle"
      PROVE  /\ worker[w].pay \in Payments /\ Known(worker[w].pay)
             /\ OrderOf(worker[w].pay) \in Orders
  BY <1>2, BusyTypes, Zenon DEF ReservationInv, PaymentsAreKnown
<1>3. ASSUME NEW w \in Workers, RecordSettle(w)
      PROVE  Sound(ledger') /\ ReservationsFollowOrder'
  <2>1. /\ OrderOf(worker[w].pay) \in Orders
        /\ ProviderOf(worker[w].pay) \in Providers /\ SurchargeOf(worker[w].pay) \in Nat
    <3>1. worker[w].pc # "idle"
      BY <1>3, Zenon DEF RecordSettle, FirstRecord
    <3> QED BY <1>0, <1>2, <3>1, KnownParts, Zenon
  <2>2. SettleOrderWith(OrderOf(worker[w].pay), ProviderOf(worker[w].pay),
                        SurchargeOf(worker[w].pay))
    BY <1>3, Zenon DEF RecordSettle
  <2> QED BY <2>1, <2>2, SettleFollows, SMTT(20)
<1>4. ASSUME NEW w \in Workers, RecordQuarantine(w)
      PROVE  Sound(ledger') /\ ReservationsFollowOrder'
  <2>1. worker[w].pc # "idle"
    BY <1>4, Zenon DEF RecordQuarantine
  <2>2. /\ ledger' = Suspended(ledger, worker[w].pay)
        /\ UNCHANGED <<orderVars, promoVars>>
    BY <1>4, SMTT(20) DEF RecordQuarantine
  <2>3. Sound(ledger') /\ SameHolds(ledger, ledger')
    BY <1>0, <1>2, <2>1, <2>2, SuspendedSound, SMTT(20)
  <2> QED BY <1>1, <2>2, <2>3, Zenon
<1>5. ASSUME NEW w \in Workers, RecordArchived(w)
      PROVE  Sound(ledger') /\ ReservationsFollowOrder'
  <2>1. worker[w].pc # "idle"
    BY <1>5, Zenon DEF RecordArchived
  <2>2. PICK pay \in Payments : pay = worker[w].pay /\ Known(pay) /\ OrderOf(pay) \in Orders
    BY <1>2, <2>1, Zenon
  <2>3. PICK S : S = Suspended(ledger, pay)
    BY Zenon
  <2>4. PICK L : L = Credited(S, pay)
    BY Zenon
  <2>5. Sound(S) /\ SameHolds(ledger, S)
    BY <1>0, <2>2, <2>3, SuspendedSound, Zenon
  <2>6. Sound(L) /\ SameHolds(S, L)
    BY <1>0, <2>2, <2>4, <2>5, CreditedSound, SMTT(20)
  <2>7. SameHolds(ledger, L)
    BY <2>5, <2>6, Zenon DEF SameHolds
  <2>8. \/ /\ ReleaseReservations(OrderOf(pay), "cancelled")
           /\ CanRelease(L, OrderOf(pay))
           /\ ledger' = HoldGivenBack(L, OrderOf(pay))
        \/ ledger' = L /\ UNCHANGED <<orderVars, promoVars>>
    BY <1>5, <2>2, <2>3, <2>4, Zenon DEF RecordArchived
  <2>9. CASE ledger' = L /\ UNCHANGED <<orderVars, promoVars>>
    BY <1>1, <2>6, <2>7, <2>9, SMTT(20)
  <2>10. CASE /\ ReleaseReservations(OrderOf(pay), "cancelled")
              /\ CanRelease(L, OrderOf(pay))
              /\ ledger' = HoldGivenBack(L, OrderOf(pay))
    BY <2>2, <2>6, <2>7, <2>10, ReleaseFollows, Zenon
  <2> QED BY <2>8, <2>9, <2>10, Zenon
<1>6. ASSUME NEW pay \in Payments, ApplyLatePayment(pay)
      PROVE  Sound(ledger') /\ ReservationsFollowOrder'
  <2>1. ledger' = Credited(ledger, pay) /\ UNCHANGED <<orderVars, promoVars>>
    BY <1>6, Zenon DEF ApplyLatePayment
  <2>2. Known(pay)
    BY <1>6, Zenon DEF ApplyLatePayment, ReservationInv, PaymentsAreKnown, Recorded
  <2>3. Sound(ledger') /\ SameHolds(ledger, ledger')
    BY <1>0, <2>1, <2>2, CreditedSound, Zenon
  <2> QED BY <1>1, <2>1, <2>3, Zenon
<1>7. ASSUME UNCHANGED <<orderVars, promoVars, ledger>>
      PROVE  Sound(ledger') /\ ReservationsFollowOrder'
  BY <1>0, <1>1, <1>7, Zenon DEF SameHolds
<1>8. ASSUME NEW w \in Workers, RecordKnown(w) \/ RecordNotPayable(w) \/ RecordAbort(w)
      PROVE  Sound(ledger') /\ ReservationsFollowOrder'
  BY <1>7, <1>8, Zenon DEF RecordKnown, RecordNotPayable, RecordAbort
<1>9. ASSUME NEW pay, NEW report, NEW w,
             ChannelCapture(pay) \/ RecordRefused(pay, report) \/ RecordBegin(w, pay, report)
      PROVE  Sound(ledger') /\ ReservationsFollowOrder'
  BY <1>7, <1>9, Zenon DEF ChannelCapture, RecordRefused, RecordBegin
<1> QED BY <1>3, <1>4, <1>5, <1>6, <1>8, <1>9, SMTT(20) DEF RecordNext, RecordStep

(* The invariant is kept by every step. *)
LEMMA StepReservations ==
  OrderPaymentTypeOK /\ OrderPaymentTypeOK' /\ PromoTypeOK /\ ReservationInv /\ [Next]_vars
    => ReservationInv'
<1> SUFFICES ASSUME OrderPaymentTypeOK, OrderPaymentTypeOK', PromoTypeOK, ReservationInv,
                    [Next]_vars
             PROVE  ReservationInv'
  BY Zenon
<1>1. DraftsAreSound' /\ PaymentsAreKnown'
  BY StepDrafts, StepPayments, Zenon DEF ReservationInv
<1>2. Sound(ledger') /\ ReservationsFollowOrder'
  <2>0. Sound(ledger) /\ ReservationsFollowOrder
    BY Zenon DEF ReservationInv
  <2>1. CASE OrderNext
    BY <2>1, OrderFollows, Zenon
  <2>2. CASE RecordNext
    BY <2>2, RecordFollows, Zenon
  <2>3. CASE IntentNext
    BY <2>0, <2>3, IntentsOnly, SameRowsFollow, Zenon DEF IntentStep, orderVars, promoVars, SameHolds
  <2>4. CASE PanelNext
    <3>1. CASE ArchivePlan
      BY <2>0, <3>1, SameRowsFollow, Zenon DEF ArchivePlan, orderVars, promoVars, SameHolds
    <3>2. CASE CouponChanges
      <4>1. UNCHANGED <<orderVars, ledger, redStatus, redCoupon, redUser>>
        BY <3>2, Zenon DEF CouponChanges, PromoAdmin, SetCouponStatus, WindowCloses, promoRows
      <4> QED BY <2>0, <4>1, SameRowsFollow, Zenon DEF orderVars, SameHolds
    <3>3. ASSUME NEW u \in Users, NEW x \in Adjustments, Adjust(u, x)
          PROVE  Sound(ledger') /\ ReservationsFollowOrder'
      <4>1. Sound(ledger') /\ SameHolds(ledger, ledger')
        BY <2>0, <3>3, AdjustSound, OrderPaymentConstants, Zenon
           DEF Adjust, AdjustBalance, SameHolds, OrderPaymentConstants
      <4> QED BY <2>0, <3>3, <4>1, SameRowsFollow, SMTT(20) DEF Adjust, orderVars, promoVars
    <3> QED BY <2>4, <3>1, <3>2, <3>3, Zenon DEF PanelNext
  <2>5. CASE UNCHANGED vars
    BY <2>0, <2>5, SameRowsFollow, Zenon DEF vars, orderVars, promoVars, SameHolds
  <2> QED BY <2>1, <2>2, <2>3, <2>4, <2>5, Zenon DEF Next
<1> QED BY <1>1, <1>2, Zenon DEF ReservationInv

(* It holds where no order was placed yet. *)
LEMMA InitReservations == Init => ReservationInv
<1> SUFFICES ASSUME Init PROVE ReservationInv
  BY Zenon
<1>1. DraftsAreSound
  BY Zenon DEF Init, DraftsAreSound
<1>2. PaymentsAreKnown
  BY Zenon DEF Init, PaymentsAreKnown, Recorded, Idle
<1>3. Sound(ledger) /\ ledger = EmptyLedger
  BY EmptySound, Zenon DEF Init, LedgerInit
<1>4. ReservationsFollowOrder
  <2> SUFFICES ASSUME NEW o \in Orders PROVE Follows(o)
    BY Zenon DEF ReservationsFollowOrder
  <2>1. /\ orderStatus[o] = "none" /\ resv[o] = "none" /\ redStatus[o] = "none"
        /\ draft[o].coupon = NoCoupon /\ draft[o].applied = 0
        /\ ledger.hold[o] = "none"
    BY <1>3, Zenon DEF Init, PromoInit, NoDraft, EmptyLedger
  <2> QED BY <2>1, ReservationStates, Zenon DEF Follows, CouponFollows, HoldFollows
<1> QED BY <1>1, <1>2, <1>3, <1>4, Zenon DEF ReservationInv

(* In every reachable state of the composed system. *)
LEMMA ReservationsSafe == Spec => []ReservationInv
<1>1. Init => ReservationInv
  BY InitReservations, Zenon
<1>2. Spec => []OrderPaymentTypeOK /\ []PromoTypeOK
  BY OrderPaymentIsTyped, CouponsStayWithinLimits, PTL DEF CouponInv
<1>3. OrderPaymentTypeOK /\ OrderPaymentTypeOK' /\ PromoTypeOK /\ ReservationInv /\ [Next]_vars
        => ReservationInv'
  BY StepReservations, Zenon
<1> QED BY <1>1, <1>2, <1>3, PTL DEF Spec

(* The reservation row, the coupon and the balance hold of an order are    *)
(* always in the state the status of the order calls for, with the coupon, *)
(* user and amount it was placed with: a reservation is neither leaked by  *)
(* a closed order nor given back under a pending or paid one.              *)
THEOREM ReservationsAlwaysFollow == Spec => []ReservationsFollowOrder
<1>1. ReservationInv => ReservationsFollowOrder
  BY Zenon DEF ReservationInv
<1> QED BY <1>1, ReservationsSafe, PTL

(* No user account of the composed system is ever negative, and the holds  *)
(* agree with the transactions of their orders; although applyLateCase,    *)
(* quarantine and the commission post without looking at a balance.        *)
THEOREM NoUserOverdrawn == Spec => []LedgerInv
<1>1. ReservationInv => LedgerInv
  BY Zenon DEF ReservationInv, Sound, NonNegative, History, LedgerInv, LedgerTypeOK,
         UserAccountsNonNegative, HoldHistory
<1> QED BY <1>1, ReservationsSafe, PTL
=============================================================================
