--------------------------- MODULE PromiseProofs ---------------------------
(***************************************************************************)
(* Proofs that the order and payment code keeps the promise of module      *)
(* PaymentOutcome, that what it closed stays closed, that the rows of a    *)
(* payment agree and that a referral is rewarded once, for any orders,     *)
(* users, coupons, providers, workers and amounts.                         *)
(*                                                                         *)
(* A step of the code is a step of the promise only in states the code can *)
(* be in: a payment that is about to be kept or credited is not booked yet *)
(* (the lock on its key, PaidOnceProofs), and is for an order that was     *)
(* placed (PaymentsAreKnown of SettlementProofs).                          *)
(***************************************************************************)
EXTENDS PaidOnceProofs, ReservationProofs

(* What an order and a payment look like from the outside. *)
Fate(st) ==
  CASE st = "none" -> "none"
    [] st = "pending_payment" -> "open"
    [] st = "fulfilled" -> "fulfilled"
    [] OTHER -> "closed"

Booked(x) ==
  CASE x = "none" -> "none"
    [] x = "settled" -> "paid"
    [] x = "suspense" -> "kept"
    [] OTHER -> "credited"

(* The two are the values of the refinement mapping. *)
LEMMA Mapped ==
  /\ AbstractStatus = [o \in Orders |-> Fate(orderStatus[o])]
  /\ AbstractMoney = [pay \in Payments |-> Booked(outcome[pay])]
BY Zenon DEF AbstractStatus, AbstractMoney, Fate, Booked

(* The statuses that the code writes, from the outside. *)
LEMMA Fates ==
  /\ Fate("none") = "none" /\ Fate("pending_payment") = "open"
  /\ Fate("fulfilled") = "fulfilled"
  /\ Fate("cancelled") = "closed" /\ Fate("expired") = "closed"
  /\ Booked("none") = "none" /\ Booked("settled") = "paid"
  /\ Booked("suspense") = "kept" /\ Booked("applied") = "credited"
BY Zenon DEF Fate, Booked

(* One order moves. *)
LEMMA FateMoves ==
  ASSUME orderStatus \in [Orders -> OrderStates], NEW o \in Orders, NEW st,
         orderStatus' = [orderStatus EXCEPT ![o] = st]
  PROVE  AbstractStatus' = [AbstractStatus EXCEPT ![o] = Fate(st)]
<1>1. \A q \in Orders : orderStatus'[q] = IF q = o THEN st ELSE orderStatus[q]
  BY Zenon
<1>2. AbstractStatus' = [q \in Orders |-> Fate(orderStatus'[q])]
  BY Mapped, Zenon DEF AbstractStatus, Fate
<1> QED BY <1>1, <1>2, Mapped, Zenon

(* One payment is booked. *)
LEMMA BookingMoves ==
  ASSUME outcome \in [Payments -> Outcomes], NEW pay \in Payments, NEW x,
         outcome' = [outcome EXCEPT ![pay] = x]
  PROVE  AbstractMoney' = [AbstractMoney EXCEPT ![pay] = Booked(x)]
<1>1. \A q \in Payments : outcome'[q] = IF q = pay THEN x ELSE outcome[q]
  BY Zenon
<1>2. AbstractMoney' = [q \in Payments |-> Booked(outcome'[q])]
  BY Mapped, Zenon DEF AbstractMoney, Booked
<1> QED BY <1>1, <1>2, Mapped, Zenon

-----------------------------------------------------------------------------
(* The kinds of steps there are.                                           *)

(* No order moves and no payment is booked. *)
LEMMA UnseenStep ==
  ASSUME UNCHANGED <<orderStatus, outcome>>
  PROVE  Promise!Next
<1>1. AbstractStatus' = AbstractStatus /\ AbstractMoney' = AbstractMoney
  BY Zenon DEF AbstractStatus, AbstractMoney
<1> QED BY <1>1, Zenon DEF Promise!Next, Promise!Unseen

(* An order moves without money. *)
LEMMA OrderStepKeeps ==
  ASSUME OrderPaymentTypeOK, NEW o \in Orders, NEW from, NEW st, orderStatus[o] = from,
         orderStatus' = [orderStatus EXCEPT ![o] = st], UNCHANGED outcome,
         \/ from = "none" /\ st \in {"pending_payment", "fulfilled"}
         \/ from = "pending_payment" /\ st \in {"cancelled", "expired"}
  PROVE  Promise!Next
<1>1. AbstractStatus' = [AbstractStatus EXCEPT ![o] = Fate(st)]
  BY FateMoves, Zenon DEF OrderPaymentTypeOK
<1>2. AbstractStatus[o] = Fate(from)
  BY Mapped, Zenon
<1>3. AbstractMoney' = AbstractMoney
  BY Zenon DEF AbstractMoney
<1>4. \/ AbstractStatus[o] = "none" /\ AbstractStatus' = [AbstractStatus EXCEPT ![o] = "open"]
      \/ AbstractStatus[o] = "none"
         /\ AbstractStatus' = [AbstractStatus EXCEPT ![o] = "fulfilled"]
      \/ AbstractStatus[o] = "open" /\ AbstractStatus' = [AbstractStatus EXCEPT ![o] = "closed"]
  BY <1>1, <1>2, Fates, Zenon
<1> QED BY <1>3, <1>4, Zenon
        DEF Promise!Next, Promise!Open, Promise!FulfilUnpaid, Promise!Close, Promise!Set

(* A payment settles its order. *)
LEMMA SettleStepKeeps ==
  ASSUME OrderPaymentTypeOK, NEW pay \in Payments, outcome[pay] = "none",
         outcome' = [outcome EXCEPT ![pay] = "settled"],
         orderStatus[OrderOf(pay)] \in {"none", "pending_payment"},
         orderStatus' = [orderStatus EXCEPT ![OrderOf(pay)] = "fulfilled"]
  PROVE  Promise!Next
<1>0. /\ OrderOf(pay) \in Orders
      /\ orderStatus \in [Orders -> OrderStates] /\ outcome \in [Payments -> Outcomes]
  BY PaymentTypes, Zenon DEF OrderPaymentTypeOK
<1>1. AbstractStatus' = [AbstractStatus EXCEPT ![OrderOf(pay)] = Fate("fulfilled")]
  BY <1>0, FateMoves, Zenon
<1>2. AbstractStatus[OrderOf(pay)] \in {"none", "open"}
  BY <1>0, Mapped, Fates, Zenon
<1>3. AbstractMoney' = [AbstractMoney EXCEPT ![pay] = Booked("settled")]
  BY <1>0, BookingMoves, Zenon
<1>m. AbstractMoney[pay] = "none"
  BY Mapped, Fates, Zenon
<1>4. Promise!Fulfil(pay)
  BY <1>1, <1>2, <1>3, <1>m, Fates, Zenon DEF Promise!Fulfil, Promise!Set, Promise!Book
<1> QED BY <1>4, Zenon DEF Promise!Next

(* A payment is kept for its payer, or is credited; the order stays. *)
LEMMA LateStepKeeps ==
  ASSUME OrderPaymentTypeOK, NEW pay \in Payments, UNCHANGED orderStatus,
         \/ /\ outcome[pay] = "none" /\ outcome' = [outcome EXCEPT ![pay] = "suspense"]
            /\ orderStatus[OrderOf(pay)] # "none"
         \/ /\ outcome[pay] = "none" /\ outcome' = [outcome EXCEPT ![pay] = "applied"]
            /\ orderStatus[OrderOf(pay)] \notin {"none", "pending_payment"}
         \/ outcome[pay] = "suspense" /\ outcome' = [outcome EXCEPT ![pay] = "applied"]
  PROVE  Promise!Next
<1>0. OrderOf(pay) \in Orders /\ outcome \in [Payments -> Outcomes]
  BY PaymentTypes, Zenon DEF OrderPaymentTypeOK
<1>1. UNCHANGED AbstractStatus
  BY Zenon DEF AbstractStatus
<1>2. /\ AbstractStatus[OrderOf(pay)] = Fate(orderStatus[OrderOf(pay)])
      /\ AbstractMoney[pay] = Booked(outcome[pay])
  BY <1>0, Mapped, Zenon
<1>3. /\ orderStatus[OrderOf(pay)] # "none" => AbstractStatus[OrderOf(pay)] # "none"
      /\ orderStatus[OrderOf(pay)] \notin {"none", "pending_payment"}
           => AbstractStatus[OrderOf(pay)] \in {"fulfilled", "closed"}
  BY <1>2, Zenon DEF Fate
<1>4. CASE outcome[pay] = "none" /\ outcome' = [outcome EXCEPT ![pay] = "suspense"]
           /\ orderStatus[OrderOf(pay)] # "none"
  <2>m. AbstractMoney' = [AbstractMoney EXCEPT ![pay] = Booked("suspense")]
    BY <1>0, <1>4, BookingMoves, Zenon
  <2>1. AbstractMoney' = [AbstractMoney EXCEPT ![pay] = "kept"] /\ AbstractMoney[pay] = "none"
    BY <1>2, <1>4, <2>m, Fates, Zenon
  <2>2. Promise!Keep(pay)
    BY <1>1, <1>3, <1>4, <2>1, Zenon DEF Promise!Keep, Promise!Book
  <2> QED BY <2>2, Zenon DEF Promise!Next
<1>5. CASE outcome[pay] = "none" /\ outcome' = [outcome EXCEPT ![pay] = "applied"]
           /\ orderStatus[OrderOf(pay)] \notin {"none", "pending_payment"}
  <2>m. AbstractMoney' = [AbstractMoney EXCEPT ![pay] = Booked("applied")]
    BY <1>0, <1>5, BookingMoves, Zenon
  <2>1. /\ AbstractMoney' = [AbstractMoney EXCEPT ![pay] = "credited"]
        /\ AbstractMoney[pay] = "none"
    BY <1>2, <1>5, <2>m, Fates, Zenon
  <2>2. Promise!Credit(pay)
    BY <1>1, <1>3, <1>5, <2>1, Zenon DEF Promise!Credit, Promise!Book
  <2> QED BY <2>2, Zenon DEF Promise!Next
<1>6. CASE outcome[pay] = "suspense" /\ outcome' = [outcome EXCEPT ![pay] = "applied"]
  <2>m. AbstractMoney' = [AbstractMoney EXCEPT ![pay] = Booked("applied")]
    BY <1>0, <1>6, BookingMoves, Zenon
  <2>1. /\ AbstractMoney' = [AbstractMoney EXCEPT ![pay] = "credited"]
        /\ AbstractMoney[pay] = "kept"
    BY <1>2, <1>6, <2>m, Fates, Zenon
  <2>2. Promise!Credit(pay)
    BY <1>1, <2>1, Zenon DEF Promise!Credit, Promise!Book
  <2> QED BY <2>2, Zenon DEF Promise!Next
<1> QED BY <1>4, <1>5, <1>6, Zenon

(* CloseArchivedOrder: a pending order is closed and its payment credited. *)
LEMMA ArchivedStepKeeps ==
  ASSUME OrderPaymentTypeOK, NEW pay \in Payments, outcome[pay] = "none",
         outcome' = [outcome EXCEPT ![pay] = "applied"],
         orderStatus[OrderOf(pay)] = "pending_payment",
         orderStatus' = [orderStatus EXCEPT ![OrderOf(pay)] = "cancelled"]
  PROVE  Promise!Next
<1>0. /\ OrderOf(pay) \in Orders
      /\ orderStatus \in [Orders -> OrderStates] /\ outcome \in [Payments -> Outcomes]
  BY PaymentTypes, Zenon DEF OrderPaymentTypeOK
<1>1. AbstractStatus' = [AbstractStatus EXCEPT ![OrderOf(pay)] = Fate("cancelled")]
  BY <1>0, FateMoves, Zenon
<1>2. AbstractMoney' = [AbstractMoney EXCEPT ![pay] = Booked("applied")]
  BY <1>0, BookingMoves, Zenon
<1>3. AbstractStatus[OrderOf(pay)] = "open" /\ AbstractMoney[pay] = "none"
  BY <1>0, Mapped, Fates, Zenon
<1>4. Promise!Credit(pay)
  BY <1>1, <1>2, <1>3, Fates, Zenon DEF Promise!Credit, Promise!Set, Promise!Book
<1> QED BY <1>4, Zenon DEF Promise!Next

-----------------------------------------------------------------------------
(* Placing, MarkPaid, cancelling and expiring do what the promise says. *)
LEMMA OrderKeepsPromise ==
  ASSUME OrderPaymentTypeOK, OrderNext
  PROVE  Promise!Next
<1> PICK o \in Orders :
      \/ \E d \in Placements : Place(o, d) \/ PlaceZero(o, d)
      \/ \E d \in Placements, k \in 1..MaxCaptures : PlaceOffline(o, d, k)
      \/ \E k \in 1..MaxCaptures : MarkPaid(o, k)
      \/ Cancel(o) \/ Lapse(o) \/ expireOne(o) \/ SubscriptionChanges(o)
  BY Zenon DEF OrderNext
<1>1. ASSUME NEW d \in Placements, Place(o, d) \/ PlaceZero(o, d) PROVE Promise!Next
  <2>1. /\ orderStatus[o] = "none" /\ UNCHANGED outcome
        /\ \E st \in {"pending_payment", "fulfilled"} :
             orderStatus' = [orderStatus EXCEPT ![o] = st]
    BY <1>1, Zenon DEF Place, PlaceZero, CanPlace, recordVars
  <2>2. PICK from, st : /\ from = "none" /\ st \in {"pending_payment", "fulfilled"}
                        /\ orderStatus' = [orderStatus EXCEPT ![o] = st]
    BY <2>1, Zenon
  <2> QED BY <2>1, <2>2, OrderStepKeeps, Zenon
<1>2. ASSUME NEW k \in 1..MaxCaptures, OfflineRecorded(o, k),
             orderStatus[o] \in {"none", "pending_payment"},
             orderStatus' = [orderStatus EXCEPT ![o] = "fulfilled"]
      PROVE  Promise!Next
  <2>1. PICK pay : pay = <<o, 0, k>>
    BY Zenon
  <2>2. pay \in Payments /\ OrderOf(pay) = o
    BY <2>1, PaymentTypes, Zenon DEF OrderOf
  <2>3. outcome[pay] = "none" /\ outcome' = [outcome EXCEPT ![pay] = "settled"]
    BY <1>2, <2>1, Zenon DEF OfflineRecorded, ReferenceFree
  <2> QED BY <1>2, <2>2, <2>3, SettleStepKeeps, Zenon
<1>3. ASSUME NEW d \in Placements, NEW k \in 1..MaxCaptures, PlaceOffline(o, d, k)
      PROVE  Promise!Next
  BY <1>2, <1>3, Zenon DEF PlaceOffline, CanPlace
<1>4. ASSUME NEW k \in 1..MaxCaptures, MarkPaid(o, k) PROVE Promise!Next
  BY <1>2, <1>4, Zenon DEF MarkPaid, SettleOrderWith, Accepts
<1>5. CASE Cancel(o) \/ expireOne(o)
  <2>1. PICK from, st : /\ from = "pending_payment" /\ st \in {"cancelled", "expired"}
                        /\ orderStatus[o] = from
                        /\ orderStatus' = [orderStatus EXCEPT ![o] = st]
                        /\ UNCHANGED outcome
    BY <1>5, Zenon DEF Cancel, expireOne, releaseOrder, ReleaseReservations, recordVars
  <2> QED BY <2>1, OrderStepKeeps, Zenon
<1>6. CASE Lapse(o) \/ SubscriptionChanges(o)
  BY <1>6, UnseenStep, Zenon DEF Lapse, SubscriptionChanges, orderVars, recordVars
<1> QED BY <1>1, <1>3, <1>4, <1>5, <1>6, Zenon

(* recordPayment, whatever becomes of it, and ApplyLatePayment do too.     *)
(* Between the refusal of the order and the booking of the payment nobody  *)
(* else booked it: its key is locked.                                      *)
LEMMA RecordKeepsPromise ==
  ASSUME OrderPaymentTypeOK, PaymentsAreKnown, KeysAreExclusive, RecordNext
  PROVE  Promise!Next
<1>1. ASSUME NEW w \in Workers, RecordSettle(w) PROVE Promise!Next
  <2>1. PICK pay : pay = worker[w].pay
    BY Zenon
  <2>2. /\ worker[w].pc = "read" /\ pay \notin Recorded
        /\ outcome' = [outcome EXCEPT ![pay] = "settled"]
        /\ orderStatus[OrderOf(pay)] = "pending_payment"
        /\ orderStatus' = [orderStatus EXCEPT ![OrderOf(pay)] = "fulfilled"]
    BY <1>1, <2>1, Zenon DEF RecordSettle, FirstRecord, SettleOrderWith, Accepts
  <2>3. pay \in Payments
    BY <2>1, <2>2, BusyTypes, Zenon
  <2>4. outcome[pay] = "none" /\ orderStatus[OrderOf(pay)] \in {"none", "pending_payment"}
    BY <2>2, <2>3, Zenon DEF Recorded
  <2> QED BY <2>2, <2>3, <2>4, SettleStepKeeps, Zenon
<1>2. ASSUME NEW w \in Workers, HoldsKey(w)
      PROVE  \E pay \in Payments : /\ pay = worker[w].pay /\ outcome[pay] = "none"
                                   /\ orderStatus[OrderOf(pay)] # "none"
  <2>1. worker[w].pc # "idle"
    BY <1>2, Zenon DEF HoldsKey
  <2>2. worker[w].pay \in Payments /\ worker[w].pay \in captured
    BY <2>1, BusyTypes, Zenon DEF PaymentsAreKnown
  <2> QED BY <1>2, <2>2, Zenon DEF KeysAreExclusive, PaymentsAreKnown, Known
<1>3. ASSUME NEW w \in Workers, RecordQuarantine(w) PROVE Promise!Next
  <2>1. HoldsKey(w)
    BY <1>3, Zenon DEF RecordQuarantine, HoldsKey
  <2>2. PICK pay \in Payments : /\ pay = worker[w].pay /\ outcome[pay] = "none"
                                /\ orderStatus[OrderOf(pay)] # "none"
    BY <1>2, <2>1, Zenon
  <2>3. outcome' = [outcome EXCEPT ![pay] = "suspense"] /\ UNCHANGED orderStatus
    BY <1>3, <2>2, Zenon DEF RecordQuarantine, orderVars
  <2> QED BY <2>2, <2>3, LateStepKeeps, Zenon
<1>4. ASSUME NEW w \in Workers, RecordArchived(w) PROVE Promise!Next
  <2>1. HoldsKey(w)
    BY <1>4, SMTT(20) DEF RecordArchived, HoldsKey
  <2>2. PICK pay \in Payments : /\ pay = worker[w].pay /\ outcome[pay] = "none"
                                /\ orderStatus[OrderOf(pay)] # "none"
    BY <1>2, <2>1, Zenon
  <2>3. /\ outcome' = [outcome EXCEPT ![pay] = "applied"]
        /\ \/ /\ orderStatus[OrderOf(pay)] = "pending_payment"
              /\ orderStatus' = [orderStatus EXCEPT ![OrderOf(pay)] = "cancelled"]
           \/ orderStatus[OrderOf(pay)] # "pending_payment" /\ UNCHANGED orderStatus
    BY <1>4, <2>2, Zenon DEF RecordArchived, ReleaseReservations, orderVars
  <2>4. CASE orderStatus[OrderOf(pay)] = "pending_payment"
    BY <2>2, <2>3, <2>4, ArchivedStepKeeps, Zenon
  <2>5. CASE orderStatus[OrderOf(pay)] # "pending_payment"
    <3>1. UNCHANGED orderStatus /\ orderStatus[OrderOf(pay)] \notin {"none", "pending_payment"}
      BY <2>2, <2>3, <2>5, Zenon
    <3> QED BY <2>2, <2>3, <3>1, LateStepKeeps, Zenon
  <2> QED BY <2>4, <2>5, SMTT(20)
<1>5. ASSUME NEW pay \in Payments, ApplyLatePayment(pay) PROVE Promise!Next
  BY <1>5, LateStepKeeps, Zenon DEF ApplyLatePayment, orderVars
<1>6. ASSUME NEW w \in Workers, RecordKnown(w) \/ RecordNotPayable(w) \/ RecordAbort(w)
      PROVE  Promise!Next
  BY <1>6, UnseenStep, Zenon DEF RecordKnown, RecordNotPayable, RecordAbort, orderVars
<1>7. ASSUME NEW pay, NEW report, NEW w,
             ChannelCapture(pay) \/ RecordRefused(pay, report) \/ RecordBegin(w, pay, report)
      PROVE  Promise!Next
  BY <1>7, UnseenStep, Zenon DEF ChannelCapture, RecordRefused, RecordBegin, orderVars, recordVars
<1> QED BY <1>1, <1>3, <1>4, <1>5, <1>6, <1>7, Zenon DEF RecordNext, RecordStep

(* Every step of the code is a step of the promise. *)
LEMMA StepKeepsPromise ==
  ASSUME OrderPaymentTypeOK, PaymentsAreKnown, KeysAreExclusive, [Next]_vars
  PROVE  Promise!Next
<1>1. CASE IntentNext
  BY <1>1, IntentsOnly, UnseenStep, Zenon DEF IntentStep, orderVars, recordVars
<1>2. CASE PanelNext
  BY <1>2, UnseenStep, Zenon DEF PanelNext, ArchivePlan, CouponChanges, Adjust, orderVars, recordVars
<1>3. CASE UNCHANGED vars
  BY <1>3, UnseenStep, Zenon DEF vars, orderVars, recordVars
<1> QED BY <1>1, <1>2, <1>3, OrderKeepsPromise, RecordKeepsPromise, Zenon DEF Next

(* Whatever is captured, reported, retried, refused or given back, and in  *)
(* whatever order: an order is open until it is fulfilled or closed, for   *)
(* good; a payment fulfils its order, is kept for its payer or is credited *)
(* to them, and never two of those.                                        *)
THEOREM PromiseIsKept == Spec => KeepsPromise
<1>1. Init => Promise!Init
  <2> SUFFICES ASSUME Init PROVE Promise!Init
    BY Zenon
  <2> QED BY Mapped, Fates, Zenon DEF Init, Promise!Init
<1>2. Spec => []PaymentsAreKnown /\ []KeysAreExclusive
  <2>1. ReservationInv => PaymentsAreKnown
    BY Zenon DEF ReservationInv
  <2>2. PaidInv => KeysAreExclusive
    BY Zenon DEF PaidInv
  <2> QED BY <2>1, <2>2, ReservationsSafe, PaidSafe, PTL
<1>3. OrderPaymentTypeOK /\ PaymentsAreKnown /\ KeysAreExclusive /\ [Next]_vars
        => [Promise!Next]_<<AbstractStatus, AbstractMoney>>
  BY StepKeepsPromise, Zenon
<1> QED BY <1>1, <1>2, <1>3, OrderPaymentIsTyped, PTL DEF Spec, KeepsPromise, Promise!Spec

-----------------------------------------------------------------------------
(* A fulfilled or closed order stays so. *)
LEMMA FatesAreFinal ==
  ASSUME OrderPaymentTypeOK, OrderPaymentTypeOK', Promise!Next, NEW o \in Orders,
         orderStatus[o] \in Closed
  PROVE  ReservationOf(orderStatus'[o]) = ReservationOf(orderStatus[o])
<1>1. orderStatus[o] \in OrderStates /\ orderStatus'[o] \in OrderStates
  BY Zenon DEF OrderPaymentTypeOK
<1>2. /\ AbstractStatus[o] = Fate(orderStatus[o])
      /\ AbstractStatus'[o] = Fate(orderStatus'[o])
  BY Mapped, Zenon DEF AbstractStatus, Fate
<1>3. AbstractStatus[o] \in {"fulfilled", "closed"}
  BY <1>2, Zenon DEF Fate, Closed
<1>4. DOMAIN AbstractStatus = Orders
  BY Zenon DEF AbstractStatus
<1>5. AbstractStatus'[o] = AbstractStatus[o]
  <2>1. ASSUME NEW q \in Orders, NEW st, AbstractStatus' = [AbstractStatus EXCEPT ![q] = st],
               AbstractStatus[q] \in {"none", "open"}
        PROVE  AbstractStatus'[o] = AbstractStatus[o]
    <3>1. q # o
      BY <1>3, <2>1, Zenon
    <3> QED BY <1>4, <2>1, <3>1, SMTT(20)
  <2>2. ASSUME NEW q \in Orders,
               Promise!Open(q) \/ Promise!FulfilUnpaid(q) \/ Promise!Close(q)
        PROVE  AbstractStatus'[o] = AbstractStatus[o]
    BY <2>1, <2>2, Zenon DEF Promise!Open, Promise!FulfilUnpaid, Promise!Close, Promise!Set
  <2>3. ASSUME NEW pay \in Payments,
               Promise!Fulfil(pay) \/ Promise!Keep(pay) \/ Promise!Credit(pay)
        PROVE  AbstractStatus'[o] = AbstractStatus[o]
    <3>1. OrderOf(pay) \in Orders
      BY PaymentTypes, Zenon
    <3> QED BY <2>1, <2>3, <3>1, Zenon
            DEF Promise!Fulfil, Promise!Keep, Promise!Credit, Promise!Set
  <2>4. CASE Promise!Unseen
    BY <2>4, Zenon DEF Promise!Unseen
  <2> QED BY <2>2, <2>3, <2>4, Zenon DEF Promise!Next
<1> QED BY <1>1, <1>2, <1>5, ReservationStates, SMTT(20) DEF Fate, OrderStates, Closed

(* What an order was placed with stays. *)
LEMMA DraftsAreFinal ==
  ASSUME OrderPaymentTypeOK, [Next]_vars, NEW o \in Orders, orderStatus[o] # "none"
  PROVE  draft'[o] = draft[o]
<1>1. draft \in [Orders -> Drafts]
  BY Zenon DEF OrderPaymentTypeOK
<1>2. ASSUME NEW q \in Orders, NEW d, Placed(q, d) PROVE draft'[o] = draft[o]
  <2>1. q # o
    BY <1>2, SMTT(20) DEF Placed
  <2> QED BY <1>1, <1>2, <2>1, Zenon DEF Placed
<1> QED BY <1>2, StepMovesOrders, Zenon DEF OrdersMove, Moved

(* A step leaves what is final of the coupon and of the hold of an order. *)
CouponStays(o) ==
  redStatus[o] \in {"captured", "released"} =>
    redStatus'[o] = redStatus[o] /\ redCoupon'[o] = redCoupon[o]

HoldStays(o) ==
  /\ ledger.hold[o] \in {"captured", "released"} => ledger'.hold[o] = ledger.hold[o]
  /\ ledger.hold[o] # "none" => /\ ledger'.amount[o] = ledger.amount[o]
                                /\ ledger'.owner[o] = ledger.owner[o]

(* The coupon and the hold of an order follow its status, before and after *)
(* a step; so they are as final as the status.                             *)
LEMMA HoldsStay ==
  ASSUME OrderPaymentTypeOK, OrderPaymentTypeOK', PaymentsAreKnown, KeysAreExclusive,
         ReservationsFollowOrder, ReservationsFollowOrder', [Next]_vars, NEW o \in Orders
  PROVE  CouponStays(o) /\ HoldStays(o)
<1>1. Follows(o) /\ Follows(o)'
  BY Zenon DEF ReservationsFollowOrder
<1>2. PICK st : st = ReservationOf(orderStatus[o])
  BY Zenon
<1>3. PICK after : after = ReservationOf(orderStatus'[o])
  BY Zenon
<1>4. CouponFollows(o, st) /\ HoldFollows(o, st)
  BY <1>1, <1>2, SMTT(20) DEF Follows
<1>5. /\ IF draft'[o].coupon = NoCoupon
         THEN redStatus'[o] = "none"
         ELSE redStatus'[o] = after /\ redCoupon'[o] = draft'[o].coupon
      /\ IF draft'[o].applied = 0
         THEN ledger'.hold[o] = "none"
         ELSE /\ ledger'.hold[o] = after
              /\ ledger'.amount[o] = draft'[o].applied
              /\ ledger'.owner[o] = draft'[o].user
  BY <1>1, <1>3, SMTT(20) DEF Follows, CouponFollows, HoldFollows, ReservationOf
<1>6. st # "none" => draft'[o] = draft[o]
  BY <1>2, DraftsAreFinal, ReservationStates, SMTT(20)
<1>7. st \in {"captured", "released"} => after = st
  <2>1. st \in {"captured", "released"} => orderStatus[o] \in Closed
    BY <1>2, ReservationStates, Zenon DEF OrderPaymentTypeOK, OrderStates
  <2> QED BY <1>2, <1>3, <2>1, StepKeepsPromise, FatesAreFinal, Zenon
<1> QED BY <1>4, <1>5, <1>6, <1>7, SMTT(20) DEF CouponFollows, HoldFollows, CouponStays, HoldStays

-----------------------------------------------------------------------------
(* At most one intent is open, and none of an order that is not pending.   *)
OpenAlone(o) ==
  /\ \A m, n \in Active(o) : m = n
  /\ Active(o) # {} => orderStatus[o] = "pending_payment"

IntentInv == RefsStored /\ \A o \in Orders : OpenAlone(o)

(* Later intents are open only if the earlier were. *)
LEMMA ActiveShrinks ==
  ASSUME NEW o \in Orders, AllLater(o, intents'[o])
  PROVE  Active(o)' \cap DOMAIN intents[o] \subseteq Active(o)
BY Zenon DEF AllLater, Later, Active

(* Every step keeps it so. *)
LEMMA StepOneOpen ==
  ASSUME OrderPaymentTypeOK, PaymentsAreKnown, IntentInv, [Next]_vars
  PROVE  IntentInv'
<1>0. intents \in [Orders -> Seq(Intents)] /\ IntentsAdvance
  BY StepIntents, Zenon DEF OrderPaymentTypeOK, IntentInv
<1>1. CASE UNCHANGED intents /\ \A o \in Orders : orderStatus[o] # "none" => orderStatus'[o] = orderStatus[o]
  <2>1. RefsStored'
    BY <1>1, Zenon DEF IntentInv, RefsStored
  <2>2. ASSUME NEW o \in Orders PROVE OpenAlone(o)'
    <3>1. Active(o)' = Active(o)
      BY <1>1, Zenon DEF Active
    <3>2. orderStatus[o] = "none" => Active(o) = {}
      BY DEF PaymentsAreKnown, Active
    <3> QED BY <1>1, <3>1, <3>2, SMTT(20) DEF IntentInv, OpenAlone
  <2> QED BY <2>1, <2>2, Zenon DEF IntentInv
<1>2. ASSUME NEW o \in Orders, NEW is, Rewritten(o, is) \/ Begun(o, is) PROVE IntentInv'
  <2>1. intents'[o] = is /\ AllLater(o, is) /\ \A q \in Orders \ {o} : intents'[q] = intents[q]
    BY <1>0, <1>2, Zenon DEF Rewritten, Begun
  <2>2. \A q \in Orders \ {o} : orderStatus'[q] = orderStatus[q]
    BY <1>2, Zenon DEF Rewritten, Begun
  <2>3. ASSUME NEW q \in Orders \ {o} PROVE OpenAlone(q)'
    <3>1. Active(q)' = Active(q)
      BY <2>1, Zenon DEF Active
    <3> QED BY <2>2, <3>1, SMTT(20) DEF IntentInv, OpenAlone
  <2>4. Active(o)' \cap DOMAIN intents[o] \subseteq Active(o)
    BY <2>1, ActiveShrinks, SMTT(20)
  <2>5. \A n \in DOMAIN intents[o] : is[n].ref => is[n].provider \in StoresRef
    BY <2>1, Zenon DEF AllLater, Later, IntentInv, RefsStored
  <2>6. CASE Rewritten(o, is)
    <3>1. DOMAIN intents'[o] = DOMAIN intents[o]
      BY <2>1, <2>6, SMTT(20) DEF Rewritten
    <3>2. Active(o)' \subseteq Active(o)
      BY <2>4, <3>1, SMTT(20) DEF Active
    <3>3. orderStatus'[o] = orderStatus[o] \/ Active(o)' = {}
      BY <2>1, <2>6, <3>1, SMTT(20) DEF Rewritten, NoneOpen, Active
    <3>4. OpenAlone(o)'
      BY <3>2, <3>3, SMTT(20) DEF IntentInv, OpenAlone
    <3>5. RefsStored'
      BY <2>1, <2>5, <3>1, SMTT(20) DEF IntentInv, RefsStored
    <3> QED BY <2>3, <3>4, <3>5, SMTT(20) DEF IntentInv
  <2>7. CASE Begun(o, is)
    <3>1. PICK n : DOMAIN is = DOMAIN intents[o] \cup {n} /\ ~ is[n].ref
      BY <2>7, Zenon DEF Begun
    <3>2. Active(o)' \subseteq {n}
      BY <2>1, <2>7, <3>1, SMTT(20) DEF Begun, NoneOpen, Active
    <3>3. orderStatus'[o] = "pending_payment"
      BY <2>7, Zenon DEF Begun
    <3>4. OpenAlone(o)'
      BY <3>2, <3>3, SMTT(20) DEF OpenAlone
    <3>5. RefsStored'
      BY <2>1, <2>5, <3>1, Zenon DEF IntentInv, RefsStored
    <3> QED BY <2>3, <3>4, <3>5, Zenon DEF IntentInv
  <2> QED BY <1>2, <2>6, <2>7, SMTT(20)
<1> QED BY <1>0, <1>1, <1>2, Zenon DEF IntentsAdvance

(* In every reachable state. *)
LEMMA IntentsSafe == Spec => []IntentInv
<1>1. Init => IntentInv
  <2> SUFFICES ASSUME Init, NEW o \in Orders
               PROVE  OpenAlone(o) /\ DOMAIN intents[o] = {}
    BY Zenon DEF IntentInv, RefsStored
  <2>1. DOMAIN intents[o] = {}
    BY DEF Init
  <2> QED BY <2>1, Zenon DEF OpenAlone, Active
<1>2. ReservationInv => PaymentsAreKnown
  BY Zenon DEF ReservationInv
<1>3. OrderPaymentTypeOK /\ PaymentsAreKnown /\ IntentInv /\ [Next]_vars => IntentInv'
  BY StepOneOpen, Zenon
<1> QED BY <1>1, <1>2, <1>3, OrderPaymentIsTyped, ReservationsSafe, PTL DEF Spec

(* An intent keeps what it was made for, and its status once closed. *)
LEMMA IntentsStay ==
  ASSUME OrderPaymentTypeOK, RefsStored, [Next]_vars,
         NEW o \in Orders, NEW n \in DOMAIN intents[o]
  PROVE  Later(intents[o][n], intents'[o][n])
<1>1. /\ intents \in [Orders -> Seq(Intents)] /\ IntentsAdvance
      /\ intents[o] \in Seq(Intents)
  BY StepIntents, Zenon DEF OrderPaymentTypeOK
<1>2. intents[o][n] \in Intents
  BY <1>1, LenProperties, ElementOfSeq, SMTT(20)
<1>3. Later(intents[o][n], intents[o][n])
  BY <1>2, OneLater, Zenon
<1>4. ASSUME NEW q \in Orders, NEW is, Rewritten(q, is) \/ Begun(q, is)
      PROVE  Later(intents[o][n], intents'[o][n])
  <2>1. AllLater(q, is) /\ intents' = [intents EXCEPT ![q] = is]
    BY <1>4, Zenon DEF Rewritten, Begun
  <2>2. CASE q = o
    BY <1>1, <2>1, <2>2, SMTT(20) DEF AllLater
  <2>3. CASE q # o
    BY <1>1, <1>3, <2>1, <2>3, SMTT(20)
  <2> QED BY <2>2, <2>3, Zenon
<1> QED BY <1>1, <1>3, <1>4, Zenon DEF IntentsAdvance

(* What an order was placed with, what an intent was made for, the status  *)
(* of a closed intent, a captured or released coupon redemption or hold:   *)
(* none of it ever changes, whatever channel call, retry or job is late.   *)
THEOREM RowsStayFinal == Spec => RowsAreFinal
<1>1. OrderPaymentTypeOK /\ IntentInv /\ [Next]_vars =>
        \A o \in Orders :
          /\ orderStatus[o] # "none" => draft'[o] = draft[o]
          /\ \A n \in DOMAIN intents[o] :
               LET i == intents[o][n]
                   j == intents'[o][n]
               IN /\ j.provider = i.provider /\ j.surcharge = i.surcharge
                  /\ i.ref => j.ref
                  /\ i.status # "requires_action" => j.status = i.status
  BY DraftsAreFinal, IntentsStay, Zenon DEF IntentInv, Later
<1>2. OrderPaymentTypeOK /\ OrderPaymentTypeOK' /\ ReservationInv /\ ReservationInv'
        /\ PaidInv /\ [Next]_vars => \A o \in Orders : CouponStays(o) /\ HoldStays(o)
  <2>1. ReservationInv => PaymentsAreKnown /\ ReservationsFollowOrder
    BY Zenon DEF ReservationInv
  <2>2. ReservationInv' => ReservationsFollowOrder'
    BY Zenon DEF ReservationInv
  <2>3. PaidInv => KeysAreExclusive
    BY Zenon DEF PaidInv
  <2> QED BY <2>1, <2>2, <2>3, HoldsStay, Zenon
<1>3. (\A o \in Orders : CouponStays(o) /\ HoldStays(o)) =>
        /\ \A o \in Orders :
             redStatus[o] \in {"captured", "released"} =>
               redStatus'[o] = redStatus[o] /\ redCoupon'[o] = redCoupon[o]
        /\ \A o \in Orders :
             /\ ledger.hold[o] \in {"captured", "released"} => ledger'.hold[o] = ledger.hold[o]
             /\ ledger.hold[o] # "none" => /\ ledger'.amount[o] = ledger.amount[o]
                                           /\ ledger'.owner[o] = ledger.owner[o]
  BY Zenon DEF CouponStays, HoldStays
<1> QED BY <1>1, <1>2, <1>3, OrderPaymentIsTyped, IntentsSafe, ReservationsSafe, PaidSafe, PTL
        DEF Spec, RowsAreFinal, IntentsAreFinal, RedemptionIsFinal, HoldIsFinal

-----------------------------------------------------------------------------
(* Money is recorded only if the channel took it, an event is never        *)
(* committed without its payment, a payment has a late case exactly if it  *)
(* did not settle its order, and at most one intent of an order is open,   *)
(* none once the order is closed.                                          *)
THEOREM PaymentRowsAgree == Spec => []PaymentInv
<1>1. Init => RecordInv
  BY DEF Init, RecordInv, HoldsKey, Idle
<1>2. ReservationInv => PaymentsAreKnown
  BY Zenon DEF ReservationInv
<1>3. PaidInv => KeysAreExclusive
  BY Zenon DEF PaidInv
<1>4. OrderPaymentTypeOK /\ PaymentsAreKnown /\ KeysAreExclusive /\ RecordInv /\ [Next]_vars
        => RecordInv'
  BY StepRecords, Zenon
<1>5. OrderPaymentTypeOK /\ PaymentsAreKnown /\ RecordInv /\ IntentInv => PaymentInv
  <2> SUFFICES ASSUME OrderPaymentTypeOK, PaymentsAreKnown, RecordInv, IntentInv
               PROVE  PaymentInv
    BY Zenon
  <2>1. RecordsMatchMoney
    BY Zenon DEF RecordsMatchMoney, PaymentsAreKnown, RecordInv
  <2>2. ASSUME NEW o \in Orders PROVE Cardinality(Active(o)) <= 1
    <3>1. Active(o) = {} \/ \E n : Active(o) = {n}
      BY Zenon DEF IntentInv, OpenAlone
    <3>2. Cardinality({}) = 0 /\ \A n : Cardinality({n}) = 1
      BY FS_EmptySet, FS_Singleton, SMTT(20)
    <3>3. CASE Active(o) = {}
      BY <3>2, <3>3
    <3>4. ASSUME NEW n, Active(o) = {n} PROVE Cardinality(Active(o)) <= 1
      <4>1. Cardinality(Active(o)) = 1
        BY <3>2, <3>4, Zenon
      <4> QED BY <4>1
    <3> QED BY <3>1, <3>3, <3>4, Zenon
  <2>3. OneOpenIntent
    BY <2>2, Zenon DEF OneOpenIntent, IntentInv, OpenAlone
  <2> QED BY <2>1, <2>3, Zenon DEF PaymentInv
<1> QED BY <1>1, <1>2, <1>3, <1>4, <1>5, OrderPaymentIsTyped, ReservationsSafe, PaidSafe,
           IntentsSafe, PTL DEF Spec

-----------------------------------------------------------------------------
(* A step keeps the commissions so: an order with an entry stays fulfilled *)
(* and keeps its user, and a new entry is for another user.                *)
LEMMA StepCommissions ==
  ASSUME OrderPaymentTypeOK, OrderPaymentTypeOK', PaymentsAreKnown, KeysAreExclusive,
         CommissionAccruedOnce, [Next]_vars
  PROVE  CommissionAccruedOnce'
<1>1. ASSUME NEW o \in accrued
      PROVE  o \in Orders /\ orderStatus'[o] = "fulfilled" /\ draft'[o] = draft[o]
  <2>1. o \in Orders /\ orderStatus[o] = "fulfilled"
    BY <1>1, Zenon DEF OrderPaymentTypeOK, CommissionAccruedOnce
  <2>2. orderStatus'[o] \in OrderStates /\ orderStatus[o] \in Closed
    BY <2>1, Zenon DEF OrderPaymentTypeOK, Closed
  <2>3. ReservationOf(orderStatus'[o]) = ReservationOf(orderStatus[o])
    BY <2>1, <2>2, StepKeepsPromise, FatesAreFinal, Zenon
  <2>4. orderStatus'[o] = "fulfilled"
    BY <2>1, <2>2, <2>3, ReservationStates, SMTT(20) DEF OrderStates, ReservationOf
  <2>5. draft'[o] = draft[o]
    BY <2>1, DraftsAreFinal, SMTT(20)
  <2> QED BY <2>1, <2>4, <2>5, Zenon
<1>2. CASE UNCHANGED accrued
  <2>1. \A o \in accrued' : orderStatus'[o] = "fulfilled"
    BY <1>1, <1>2, Zenon
  <2>2. ASSUME FirstOrderOnly, NEW q \in accrued', NEW r \in accrued',
               draft'[q].user = draft'[r].user
        PROVE  q = r
    <3>1. q \in accrued /\ r \in accrued
      BY <1>2, Zenon
    <3>2. draft[q].user = draft[r].user
      BY <1>1, <2>2, <3>1, Zenon
    <3> QED BY <2>2, <3>1, <3>2, Zenon DEF CommissionAccruedOnce
  <2> QED BY <2>1, <2>2, Zenon DEF CommissionAccruedOnce
<1>3. ASSUME NEW o \in Orders, CommissionEntered(o) PROVE CommissionAccruedOnce'
  <2>1. CASE Accrues(o, draft'[o])
    <3>1. accrued' = accrued \cup {o}
      BY <1>3, <2>1, Zenon DEF CommissionEntered, AccruedAfter
    <3>2. FirstOrderOnly => \A q \in accrued : draft'[q].user # draft'[o].user
      BY <1>1, <2>1, Zenon DEF Accrues
    <3>3. \A q \in accrued' : orderStatus'[q] = "fulfilled"
      BY <1>1, <1>3, <3>1, Zenon DEF CommissionEntered
    <3>4. ASSUME FirstOrderOnly, NEW q \in accrued', NEW r \in accrued',
                 draft'[q].user = draft'[r].user
          PROVE  q = r
      <4>1. CASE q \in accrued /\ r \in accrued
        BY <1>1, <3>4, <4>1, Zenon DEF CommissionAccruedOnce
      <4> QED BY <3>1, <3>2, <3>4, <4>1, Zenon
    <3> QED BY <3>3, <3>4, Zenon DEF CommissionAccruedOnce
  <2>2. CASE ~ Accrues(o, draft'[o])
    BY <1>2, <1>3, <2>2, Zenon DEF CommissionEntered, AccruedAfter
  <2> QED BY <2>1, <2>2, Zenon
<1> QED BY <1>2, <1>3, StepAccrues, Zenon

(* Commission is accrued for fulfilled orders only, and under the          *)
(* first-order scope once per referee (OnOrderPaid).                       *)
THEOREM ReferralsPayOnce == Spec => []CommissionAccruedOnce
<1>1. Init => CommissionAccruedOnce
  BY Zenon DEF Init, CommissionAccruedOnce
<1>2. ReservationInv => PaymentsAreKnown
  BY Zenon DEF ReservationInv
<1>3. PaidInv => KeysAreExclusive
  BY Zenon DEF PaidInv
<1>4. OrderPaymentTypeOK /\ OrderPaymentTypeOK' /\ PaymentsAreKnown /\ KeysAreExclusive
        /\ CommissionAccruedOnce /\ [Next]_vars => CommissionAccruedOnce'
  BY StepCommissions, Zenon
<1> QED BY <1>1, <1>2, <1>3, <1>4, OrderPaymentIsTyped, ReservationsSafe, PaidSafe, PTL DEF Spec
=============================================================================
