-------------------------- MODULE PaidOnceProofs --------------------------
(***************************************************************************)
(* Proof that an order is paid exactly once, for any orders, providers,    *)
(* workers, intents and captures: the webhook, the queries, the patrol and *)
(* an administrator race to record the payments of one order, and each may *)
(* fail and be tried again.                                                *)
(*                                                                         *)
(* The argument needs both locks.  SettlePayment settles a pending order   *)
(* only, under the order lock, so an order takes one payment.  The lock on *)
(* the payment key is held from the look-up of the payment to the commit,  *)
(* so a payment that one transaction is about to quarantine was not booked *)
(* by another one in between, although the order lock was given back.      *)
(***************************************************************************)
EXTENDS SettlementProofs

(* The payments booked as settling an order. *)
SettledBy(o) == PaymentsOf(o, {"settled"})

(* A transaction that holds the lock on its payment key. *)
HoldsKey(w) == worker[w].pc \in {"quarantine", "archived"}

KeysAreExclusive ==
  /\ \A w \in Workers : worker[w].pc # "idle" => ~ IsOffline(worker[w].pay)
  /\ \A w \in Workers : HoldsKey(w) => outcome[worker[w].pay] = "none"
  /\ \A v, w \in Workers : HoldsKey(v) /\ HoldsKey(w) /\ v # w => worker[v].pay # worker[w].pay

(* A pending order has something left to pay. *)
PendingIsDue ==
  \A o \in Orders : orderStatus[o] = "pending_payment" => Payable(o) > 0

PaidOnce(o) ==
  IF orderStatus[o] = "fulfilled" /\ Payable(o) > 0
  THEN \E pay : SettledBy(o) = {pay}
  ELSE SettledBy(o) = {}

PaidInv == KeysAreExclusive /\ PendingIsDue /\ \A o \in Orders : PaidOnce(o)

-----------------------------------------------------------------------------
(* What booking one payment does to the sets of settling payments. *)
LEMMA BookOne ==
  ASSUME OrderPaymentTypeOK, NEW pay \in Payments, NEW x, outcome[pay] # "settled",
         outcome' = [outcome EXCEPT ![pay] = x]
  PROVE  /\ x # "settled" => \A q \in Orders : SettledBy(q)' = SettledBy(q)
         /\ x = "settled" =>
              \A q \in Orders : SettledBy(q)' = IF q = OrderOf(pay) THEN SettledBy(q) \cup {pay}
                                                ELSE SettledBy(q)
<1>1. outcome \in [Payments -> Outcomes]
  BY Zenon DEF OrderPaymentTypeOK
<1>2. \A q \in Payments : outcome'[q] = IF q = pay THEN x ELSE outcome[q]
  BY <1>1, Zenon
<1> QED BY <1>2, Zenon DEF SettledBy, PaymentsOf, OrderOf

(* An order that is not fulfilled, or has nothing to pay, was settled by   *)
(* no payment.                                                             *)
LEMMA NothingSettled ==
  ASSUME PaidInv, NEW o \in Orders, orderStatus[o] # "fulfilled"
  PROVE  SettledBy(o) = {}
BY Zenon DEF PaidInv, PaidOnce

(* A step that leaves the outcomes alone, and moves an order to a state in *)
(* which no payment is asked for.                                          *)
LEMMA UnpaidMove ==
  ASSUME OrderPaymentTypeOK, PaidInv, NEW o \in Orders,
         NEW st, orderStatus' = [orderStatus EXCEPT ![o] = st],
         NEW d, draft' = [draft EXCEPT ![o] = d], orderStatus[o] # "fulfilled",
         st = "fulfilled" => ~ (d.total - d.applied > 0),
         st = "pending_payment" => d.total - d.applied > 0,
         \A q \in Orders : SettledBy(q)' = SettledBy(q)
  PROVE  PendingIsDue' /\ \A q \in Orders : PaidOnce(q)'
<1>1. orderStatus \in [Orders -> OrderStates] /\ draft \in [Orders -> Drafts]
  BY Zenon DEF OrderPaymentTypeOK
<1>2. SettledBy(o) = {}
  BY NothingSettled, Zenon
<1>3. ASSUME NEW q \in Orders, q # o
      PROVE  orderStatus'[q] = orderStatus[q] /\ draft'[q] = draft[q]
  BY <1>1, <1>3, Zenon
<1>4. orderStatus'[o] = st /\ draft'[o] = d
  BY <1>1, Zenon
<1>5. PendingIsDue'
  BY <1>3, <1>4, Zenon DEF PaidInv, PendingIsDue, Payable
<1>6. ASSUME NEW q \in Orders PROVE PaidOnce(q)'
  <2>1. CASE q = o
    BY <1>2, <1>4, <2>1, Zenon DEF PaidOnce, Payable
  <2>2. CASE q # o
    BY <1>3, <2>2, Zenon DEF PaidInv, PaidOnce, Payable
  <2> QED BY <2>1, <2>2, Zenon
<1> QED BY <1>5, <1>6, Zenon

(* The settlement of an order by one payment. *)
LEMMA PaidMove ==
  ASSUME OrderPaymentTypeOK, PaidInv, NEW pay \in Payments, outcome[pay] # "settled",
         outcome' = [outcome EXCEPT ![pay] = "settled"],
         orderStatus' = [orderStatus EXCEPT ![OrderOf(pay)] = "fulfilled"],
         NEW d, draft' = [draft EXCEPT ![OrderOf(pay)] = d], d.total - d.applied > 0,
         orderStatus[OrderOf(pay)] # "fulfilled"
  PROVE  PendingIsDue' /\ \A q \in Orders : PaidOnce(q)'
<1> DEFINE o == OrderOf(pay)
<1>1. orderStatus \in [Orders -> OrderStates] /\ draft \in [Orders -> Drafts] /\ o \in Orders
  BY PaymentTypes, Zenon DEF OrderPaymentTypeOK
<1>2. SettledBy(o) = {}
  BY <1>1, NothingSettled, Zenon
<1>3. \A q \in Orders : SettledBy(q)' = IF q = o THEN {pay} ELSE SettledBy(q)
  BY <1>2, BookOne, Zenon
<1>4. ASSUME NEW q \in Orders, q # o
      PROVE  orderStatus'[q] = orderStatus[q] /\ draft'[q] = draft[q]
  BY <1>1, <1>4, Zenon
<1>5. orderStatus'[o] = "fulfilled" /\ draft'[o] = d
  BY <1>1, Zenon
<1> HIDE DEF o
<1>6. PendingIsDue'
  BY <1>4, <1>5, Zenon DEF PaidInv, PendingIsDue, Payable
<1>7. ASSUME NEW q \in Orders PROVE PaidOnce(q)'
  <2>1. CASE q = o
    BY <1>1, <1>3, <1>5, <2>1, Zenon DEF PaidOnce, Payable
  <2>2. CASE q # o
    BY <1>3, <1>4, <2>2, Zenon DEF PaidInv, PaidOnce, Payable
  <2> QED BY <2>1, <2>2, Zenon
<1> QED BY <1>6, <1>7, Zenon

(* A step that leaves the orders and the settling payments alone. *)
LEMMA StillMove ==
  ASSUME PaidInv, UNCHANGED <<orderStatus, draft>>,
         \A q \in Orders : SettledBy(q)' = SettledBy(q)
  PROVE  PendingIsDue' /\ \A q \in Orders : PaidOnce(q)'
BY Zenon DEF PaidInv, PendingIsDue, PaidOnce, Payable

-----------------------------------------------------------------------------
(* The locks on the payment keys stay exclusive.                           *)

(* Booking a payment that no transaction holds the key of, or that the     *)
(* committing transaction w holds, while w becomes idle.                   *)
LEMMA CommitKeys ==
  ASSUME OrderPaymentTypeOK, KeysAreExclusive, NEW w \in Workers,
         worker' = [worker EXCEPT ![w] = Idle],
         NEW pay \in Payments, NEW x,
         outcome' = [outcome EXCEPT ![pay] = x] \/ UNCHANGED outcome,
         \A v \in Workers \ {w} : HoldsKey(v) => worker[v].pay # pay
  PROVE  KeysAreExclusive'
<1>1. worker \in [Workers -> WorkerStates] /\ outcome \in [Payments -> Outcomes]
  BY Zenon DEF OrderPaymentTypeOK
<1>2. worker'[w].pc = "idle" /\ \A v \in Workers \ {w} : worker'[v] = worker[v]
  BY <1>1, Zenon DEF Idle
<1>3. \A v \in Workers \ {w} : HoldsKey(v) => outcome'[worker[v].pay] = "none"
  <2>1. \A v \in Workers : HoldsKey(v) => worker[v].pay \in Payments
    BY BusyTypes, Zenon DEF HoldsKey
  <2> QED BY <1>1, <2>1, Zenon DEF KeysAreExclusive
<1>4. ~ HoldsKey(w)' /\ \A v \in Workers \ {w} : HoldsKey(v)' <=> HoldsKey(v)
  BY <1>2, Zenon DEF HoldsKey
<1> QED BY <1>2, <1>3, <1>4 DEF KeysAreExclusive, IsOffline, NumberOf

(* Steps that leave the workers alone and book a payment that no worker    *)
(* has in hand.                                                            *)
LEMMA OtherKeys ==
  ASSUME OrderPaymentTypeOK, KeysAreExclusive, UNCHANGED worker,
         UNCHANGED outcome \/ \E pay \in Payments, x \in Outcomes :
           /\ outcome' = [outcome EXCEPT ![pay] = x]
           /\ IsOffline(pay) \/ outcome[pay] # "none"
  PROVE  KeysAreExclusive'
<1>1. outcome \in [Payments -> Outcomes]
  BY Zenon DEF OrderPaymentTypeOK
<1>2. \A v \in Workers : HoldsKey(v) => outcome'[worker[v].pay] = outcome[worker[v].pay]
  <2>1. \A v \in Workers : HoldsKey(v) => worker[v].pay \in Payments /\ worker[v].pc # "idle"
    BY BusyTypes, Zenon DEF HoldsKey
  <2> QED BY <1>1, <2>1, Zenon DEF KeysAreExclusive
<1> QED BY <1>2, Zenon DEF KeysAreExclusive, HoldsKey, IsOffline, NumberOf

(* Each step of recordPaymentTx keeps the keys exclusive. *)
LEMMA RecordStepKeys ==
  ASSUME OrderPaymentTypeOK, KeysAreExclusive, NEW w \in Workers,
         RecordStep(w) \/ RecordAbort(w)
  PROVE  KeysAreExclusive'
<1>1. worker[w].pc # "idle"
  BY Zenon DEF RecordStep, RecordKnown, RecordSettle, RecordNotPayable, RecordQuarantine,
         RecordArchived, FirstRecord, RecordAbort, Busy
<1>2. PICK pay \in Payments : pay = worker[w].pay
  BY <1>1, BusyTypes, Zenon
<1>3. ASSUME worker[w].pc = "read", KeyFree(w), NEW v \in Workers \ {w}, HoldsKey(v)
      PROVE  worker[v].pay # pay
  BY <1>2, <1>3, Zenon DEF KeyFree, Busy, HoldsKey
<1>4. ASSUME HoldsKey(w), NEW v \in Workers \ {w}, HoldsKey(v)
      PROVE  worker[v].pay # pay
  BY <1>2, <1>4, Zenon DEF KeysAreExclusive
<1>5. CASE RecordAbort(w)
  <2>1. worker' = [worker EXCEPT ![w] = Idle] /\ UNCHANGED outcome
    BY <1>5, Zenon DEF RecordAbort
  <2>2. worker'[w].pc = "idle" /\ \A v \in Workers \ {w} : worker'[v] = worker[v]
    BY <2>1, Zenon DEF OrderPaymentTypeOK, Idle
  <2>3. ~ HoldsKey(w)' /\ \A v \in Workers \ {w} : HoldsKey(v)' <=> HoldsKey(v)
    BY <2>2, Zenon DEF HoldsKey
  <2> QED BY <2>1, <2>2, <2>3 DEF KeysAreExclusive, IsOffline, NumberOf
<1>6. CASE RecordKnown(w)
  <2>1. /\ worker' = [worker EXCEPT ![w] = Idle] /\ UNCHANGED outcome
        /\ worker[w].pc = "read" /\ KeyFree(w)
    BY <1>6, Zenon DEF RecordKnown, Commit
  <2> QED BY <1>3, <2>1, CommitKeys, Zenon
<1>7. CASE RecordSettle(w)
  <2>1. /\ worker' = [worker EXCEPT ![w] = Idle]
        /\ outcome' = [outcome EXCEPT ![pay] = "settled"]
        /\ worker[w].pc = "read" /\ KeyFree(w)
    BY <1>2, <1>7, Zenon DEF RecordSettle, FirstRecord, Commit
  <2> QED BY <1>3, <2>1, CommitKeys, Zenon
<1>8. CASE RecordQuarantine(w) \/ RecordArchived(w)
  <2>1. HoldsKey(w)
    BY <1>8, ZenonT(20) DEF RecordQuarantine, RecordArchived, HoldsKey
  <2>2. /\ worker' = [worker EXCEPT ![w] = Idle]
        /\ \E x \in {"suspense", "applied"} : outcome' = [outcome EXCEPT ![pay] = x]
    BY <1>2, <1>8, ZenonT(20) DEF RecordQuarantine, RecordArchived, Commit
  <2> QED BY <1>4, <2>1, <2>2, CommitKeys, ZenonT(20)
<1>9. CASE RecordNotPayable(w)
  <2>1. /\ worker[w].pc = "read" /\ KeyFree(w) /\ outcome[pay] = "none" /\ UNCHANGED outcome
    BY <1>2, <1>9, Zenon DEF RecordNotPayable, FirstRecord, Recorded
  <2>2. PICK pc, seen : worker' = [worker EXCEPT ![w].pc = pc, ![w].seen = seen]
    BY <1>9, Zenon DEF RecordNotPayable
  <2>3. worker[w] \in [pc : {"read", "quarantine", "archived"}, pay : Payments,
                       report : Reports, seen : OrderStates, active : BOOLEAN]
    BY <1>1, BusyTypes, Zenon
  <2>4. worker'[w].pay = pay /\ \A v \in Workers \ {w} : worker'[v] = worker[v]
    BY <1>2, <2>2, <2>3, Zenon DEF OrderPaymentTypeOK
  <2>5. \A v \in Workers \ {w} : /\ HoldsKey(v)' <=> HoldsKey(v)
                                 /\ HoldsKey(v) => worker[v].pay # pay
    BY <1>3, <2>1, <2>4, Zenon DEF HoldsKey
  <2>6. ~ IsOffline(pay)
    BY <1>1, <1>2, Zenon DEF KeysAreExclusive
  <2>7. /\ \A v \in Workers : worker'[v].pc # "idle" => ~ IsOffline(worker'[v].pay)
        /\ \A v \in Workers : HoldsKey(v)' => outcome'[worker'[v].pay] = "none"
        /\ \A u, v \in Workers : HoldsKey(u)' /\ HoldsKey(v)' /\ u # v
             => worker'[u].pay # worker'[v].pay
    BY <2>1, <2>4, <2>5, <2>6 DEF KeysAreExclusive
  <2> QED BY <2>7, Zenon DEF KeysAreExclusive, IsOffline, NumberOf
<1> QED BY <1>5, <1>6, <1>7, <1>8, <1>9, SMTT(20) DEF RecordStep

(* So does every other step. *)
LEMMA StepKeys ==
  ASSUME OrderPaymentTypeOK, KeysAreExclusive, [Next]_vars
  PROVE  KeysAreExclusive'
<1>1. ASSUME UNCHANGED <<worker, outcome>> PROVE KeysAreExclusive'
  BY <1>1, OtherKeys, Zenon
<1>2. CASE OrderNext
  <2>1. ASSUME NEW o \in Orders, NEW k \in 1..MaxCaptures, OfflineRecorded(o, k)
        PROVE  KeysAreExclusive'
    <3>1. <<o, 0, k>> \in Payments /\ IsOffline(<<o, 0, k>>) /\ "settled" \in Outcomes
      BY PaymentTypes, Zenon DEF IsOffline, NumberOf, Outcomes
    <3>2. outcome' = [outcome EXCEPT ![<<o, 0, k>>] = "settled"] /\ UNCHANGED worker
      BY <2>1, Zenon DEF OfflineRecorded
    <3> QED BY <3>1, <3>2, OtherKeys, ZenonT(20)
  <2>2. ASSUME NEW o \in Orders, NEW d \in Placements, Place(o, d) \/ PlaceZero(o, d)
        PROVE  KeysAreExclusive'
    BY <1>1, <2>2, SMTT(20) DEF Place, PlaceZero, recordVars
  <2>3. ASSUME NEW o \in Orders,
               Cancel(o) \/ Lapse(o) \/ expireOne(o) \/ SubscriptionChanges(o)
        PROVE  KeysAreExclusive'
    BY <1>1, <2>3, Zenon DEF Cancel, expireOne, releaseOrder, Lapse, SubscriptionChanges, recordVars
  <2> QED BY <1>2, <2>1, <2>2, <2>3, Zenon DEF OrderNext, PlaceOffline, MarkPaid
<1>3. CASE IntentNext
  BY <1>1, <1>3, IntentsOnly, Zenon DEF IntentStep, recordVars
<1>4. CASE RecordNext
  <2>1. ASSUME NEW pay \in Payments, ChannelCapture(pay) PROVE KeysAreExclusive'
    BY <1>1, <2>1, Zenon DEF ChannelCapture, recordVars
  <2>2. ASSUME NEW pay \in Payments, ApplyLatePayment(pay) PROVE KeysAreExclusive'
    <3>1. /\ outcome' = [outcome EXCEPT ![pay] = "applied"] /\ UNCHANGED worker
          /\ outcome[pay] # "none" /\ "applied" \in Outcomes
      BY <2>2, Zenon DEF ApplyLatePayment, Outcomes
    <3> QED BY <3>1, OtherKeys, Zenon
  <2>3. ASSUME NEW pay \in Payments, NEW report \in Reports, RecordRefused(pay, report)
        PROVE  KeysAreExclusive'
    BY <1>1, <2>3, Zenon DEF RecordRefused
  <2>4. ASSUME NEW pay \in Payments, NEW report \in Reports, NEW w \in Workers,
               RecordBegin(w, pay, report)
        PROVE  KeysAreExclusive'
    <3>1. PICK active :
            worker' = [worker EXCEPT ![w] = [pc |-> "read", pay |-> pay, report |-> report,
                                             seen |-> "none", active |-> active]]
      BY <2>4, Zenon DEF RecordBegin
    <3>2. ~ IsOffline(pay) /\ UNCHANGED outcome
      BY <2>4, Zenon DEF RecordBegin
    <3>3. /\ worker'[w].pc = "read" /\ worker'[w].pay = pay
          /\ \A v \in Workers \ {w} : worker'[v] = worker[v]
      BY <3>1, Zenon DEF OrderPaymentTypeOK
    <3>4. ~ HoldsKey(w)' /\ \A v \in Workers \ {w} : HoldsKey(v)' <=> HoldsKey(v)
      BY <3>3, Zenon DEF HoldsKey
    <3>5. /\ \A v \in Workers : worker'[v].pc # "idle" => ~ IsOffline(worker'[v].pay)
          /\ \A v \in Workers : HoldsKey(v)' => outcome'[worker'[v].pay] = "none"
          /\ \A u, v \in Workers : HoldsKey(u)' /\ HoldsKey(v)' /\ u # v
               => worker'[u].pay # worker'[v].pay
      BY <3>2, <3>3, <3>4, Zenon DEF KeysAreExclusive
    <3> QED BY <3>5, Zenon DEF KeysAreExclusive, IsOffline, NumberOf
  <2> QED BY <1>4, <2>1, <2>2, <2>3, <2>4, RecordStepKeys, SMTT(20) DEF RecordNext
<1>5. CASE PanelNext
  BY <1>1, <1>5, Zenon DEF PanelNext, ArchivePlan, CouponChanges, Adjust, recordVars
<1>6. CASE UNCHANGED vars
  BY <1>1, <1>6, Zenon DEF vars, recordVars
<1> QED BY <1>2, <1>3, <1>4, <1>5, <1>6, SMTT(20) DEF Next

-----------------------------------------------------------------------------
(* The steps on orders keep every order paid at most once. *)
LEMMA OrderPaidOnce ==
  ASSUME OrderPaymentTypeOK, PaidInv, OrderNext
  PROVE  PendingIsDue' /\ \A q \in Orders : PaidOnce(q)'
<1> PICK o \in Orders :
      \/ \E d \in Placements : Place(o, d) \/ PlaceZero(o, d)
      \/ \E d \in Placements, k \in 1..MaxCaptures : PlaceOffline(o, d, k)
      \/ \E k \in 1..MaxCaptures : MarkPaid(o, k)
      \/ Cancel(o) \/ Lapse(o) \/ expireOne(o) \/ SubscriptionChanges(o)
  BY Zenon DEF OrderNext
<1>0. draft = [draft EXCEPT ![o] = draft[o]]
  BY SMTT(20) DEF OrderPaymentTypeOK
<1>1. ASSUME UNCHANGED outcome PROVE \A q \in Orders : SettledBy(q)' = SettledBy(q)
  BY <1>1, Zenon DEF SettledBy, PaymentsOf, OrderOf
<1>2. ASSUME NEW d \in Placements, Place(o, d)
      PROVE  PendingIsDue' /\ \A q \in Orders : PaidOnce(q)'
  <2>1. /\ orderStatus[o] # "fulfilled" /\ d.applied < d.total
        /\ orderStatus' = [orderStatus EXCEPT ![o] = "pending_payment"]
        /\ draft' = [draft EXCEPT ![o] = d]
        /\ UNCHANGED outcome
    BY <1>2, Zenon DEF Place, CanPlace, recordVars
  <2>2. d.total - d.applied > 0
    BY <2>1, PlacementTypes
  <2>3. PICK st : st = "pending_payment"
    BY Zenon
  <2>4. /\ orderStatus' = [orderStatus EXCEPT ![o] = st]
        /\ st = "fulfilled" => ~ (d.total - d.applied > 0)
        /\ st = "pending_payment" => d.total - d.applied > 0
    BY <2>1, <2>2, <2>3, Zenon
  <2> QED BY <1>1, <2>1, <2>4, UnpaidMove, Zenon
<1>3. ASSUME NEW d \in Placements, PlaceZero(o, d)
      PROVE  PendingIsDue' /\ \A q \in Orders : PaidOnce(q)'
  <2>1. /\ orderStatus[o] # "fulfilled" /\ d.applied = d.total
        /\ orderStatus' = [orderStatus EXCEPT ![o] = "fulfilled"]
        /\ draft' = [draft EXCEPT ![o] = d]
        /\ UNCHANGED outcome
    BY <1>3, Zenon DEF PlaceZero, CanPlace, recordVars
  <2>2. ~ (d.total - d.applied > 0)
    BY <2>1, PlacementTypes
  <2>3. PICK st : st = "fulfilled"
    BY Zenon
  <2>4. /\ orderStatus' = [orderStatus EXCEPT ![o] = st]
        /\ st = "fulfilled" => ~ (d.total - d.applied > 0)
        /\ st = "pending_payment" => d.total - d.applied > 0
    BY <2>1, <2>2, <2>3, SMTT(20)
  <2> QED BY <1>1, <2>1, <2>4, UnpaidMove, Zenon
<1>4. ASSUME NEW k \in 1..MaxCaptures, OfflineRecorded(o, k)
      PROVE  /\ <<o, 0, k>> \in Payments /\ OrderOf(<<o, 0, k>>) = o
             /\ outcome[<<o, 0, k>>] # "settled"
             /\ outcome' = [outcome EXCEPT ![<<o, 0, k>>] = "settled"]
  BY <1>4, PaymentTypes, Zenon DEF OfflineRecorded, ReferenceFree, OrderOf
<1>5. ASSUME NEW d \in Placements, NEW k \in 1..MaxCaptures, PlaceOffline(o, d, k)
      PROVE  PendingIsDue' /\ \A q \in Orders : PaidOnce(q)'
  <2>1. /\ orderStatus[o] # "fulfilled" /\ d.applied = 0 /\ d.total > 0
        /\ orderStatus' = [orderStatus EXCEPT ![o] = "fulfilled"]
        /\ draft' = [draft EXCEPT ![o] = d]
        /\ OfflineRecorded(o, k)
    BY <1>5, Zenon DEF PlaceOffline, CanPlace
  <2>2. d.total - d.applied > 0
    BY <2>1, PlacementTypes
  <2>3. PICK pay \in Payments : pay = <<o, 0, k>> /\ OrderOf(pay) = o
    BY <1>4, <2>1, Zenon
  <2>4. outcome[pay] # "settled" /\ outcome' = [outcome EXCEPT ![pay] = "settled"]
    BY <1>4, <2>1, <2>3, Zenon
  <2> QED BY <2>1, <2>2, <2>3, <2>4, PaidMove, Zenon
<1>6. ASSUME NEW k \in 1..MaxCaptures, MarkPaid(o, k)
      PROVE  PendingIsDue' /\ \A q \in Orders : PaidOnce(q)'
  <2>1. /\ orderStatus[o] = "pending_payment"
        /\ orderStatus' = [orderStatus EXCEPT ![o] = "fulfilled"]
        /\ draft' = draft
        /\ OfflineRecorded(o, k)
    BY <1>6, Zenon DEF MarkPaid, SettleOrderWith, Accepts
  <2>2. draft[o].total - draft[o].applied > 0
    BY <2>1, Zenon DEF PaidInv, PendingIsDue, Payable
  <2>3. PICK pay \in Payments : pay = <<o, 0, k>> /\ OrderOf(pay) = o
    BY <1>4, <2>1, Zenon
  <2>4. outcome[pay] # "settled" /\ outcome' = [outcome EXCEPT ![pay] = "settled"]
    BY <1>4, <2>1, <2>3, Zenon
  <2> QED BY <1>0, <2>1, <2>2, <2>3, <2>4, PaidMove, ZenonT(20)
<1>7. CASE Cancel(o) \/ expireOne(o)
  <2>1. /\ orderStatus[o] = "pending_payment"
        /\ \E st \in {"cancelled", "expired"} : orderStatus' = [orderStatus EXCEPT ![o] = st]
        /\ draft' = draft
        /\ UNCHANGED outcome
    BY <1>7, Zenon DEF Cancel, expireOne, releaseOrder, ReleaseReservations, recordVars
  <2> QED BY <1>0, <1>1, <2>1, UnpaidMove, Zenon
<1>8. CASE Lapse(o) \/ SubscriptionChanges(o)
  <2>1. UNCHANGED <<orderStatus, draft, outcome>>
    BY <1>8, Zenon DEF Lapse, SubscriptionChanges, orderVars, recordVars
  <2> QED BY <1>1, <2>1, StillMove, SMTT(20)
<1> QED BY <1>2, <1>3, <1>5, <1>6, <1>7, <1>8, SMTT(20)

(* So do the transactions that record and apply payments. *)
LEMMA RecordPaidOnce ==
  ASSUME OrderPaymentTypeOK, PaidInv, RecordNext
  PROVE  PendingIsDue' /\ \A q \in Orders : PaidOnce(q)'
<1>1. ASSUME UNCHANGED outcome PROVE \A q \in Orders : SettledBy(q)' = SettledBy(q)
  BY <1>1, Zenon DEF SettledBy, PaymentsOf, OrderOf
<1>2. ASSUME NEW w \in Workers, worker[w].pc # "idle"
      PROVE  /\ worker[w].pay \in Payments /\ OrderOf(worker[w].pay) \in Orders
             /\ draft = [draft EXCEPT ![OrderOf(worker[w].pay)] =
                           draft[OrderOf(worker[w].pay)]]
  BY <1>2, BusyTypes, Zenon DEF OrderPaymentTypeOK
<1>3. ASSUME NEW w \in Workers, RecordSettle(w)
      PROVE  PendingIsDue' /\ \A q \in Orders : PaidOnce(q)'
  <2>1. worker[w].pc # "idle" /\ worker[w].pay \notin Recorded
    BY <1>3, Zenon DEF RecordSettle, FirstRecord
  <2>2. PICK pay \in Payments : pay = worker[w].pay
    BY <1>2, <2>1, SMTT(20)
  <2>3. /\ outcome[pay] # "settled"
        /\ outcome' = [outcome EXCEPT ![pay] = "settled"]
        /\ orderStatus[OrderOf(pay)] = "pending_payment"
        /\ orderStatus' = [orderStatus EXCEPT ![OrderOf(pay)] = "fulfilled"]
        /\ draft' = [draft EXCEPT ![OrderOf(pay)] = draft[OrderOf(pay)]]
    BY <1>2, <1>3, <2>1, <2>2, SMTT(20) DEF RecordSettle, SettleOrderWith, Accepts, Recorded
  <2>4. draft[OrderOf(pay)].total - draft[OrderOf(pay)].applied > 0
    BY <2>3, PaymentTypes, SMTT(20) DEF PaidInv, PendingIsDue, Payable
  <2> QED BY <2>3, <2>4, PaidMove, ZenonT(20)
<1>4. ASSUME NEW w \in Workers, RecordQuarantine(w) \/ RecordArchived(w)
      PROVE  PendingIsDue' /\ \A q \in Orders : PaidOnce(q)'
  <2>1. worker[w].pc # "idle" /\ HoldsKey(w)
    BY <1>4, Zenon DEF RecordQuarantine, RecordArchived, HoldsKey
  <2>2. PICK pay \in Payments : pay = worker[w].pay /\ OrderOf(pay) \in Orders
    BY <1>2, <2>1, Zenon
  <2>3. outcome[pay] # "settled"
    BY <2>1, <2>2, SMTT(20) DEF PaidInv, KeysAreExclusive
  <2>4. PICK x \in {"suspense", "applied"} : outcome' = [outcome EXCEPT ![pay] = x]
    BY <1>4, <2>2, Zenon DEF RecordQuarantine, RecordArchived
  <2>5. \A q \in Orders : SettledBy(q)' = SettledBy(q)
    BY <2>3, <2>4, BookOne, Zenon
  <2>6. \/ UNCHANGED <<orderStatus, draft>>
        \/ /\ orderStatus[OrderOf(pay)] = "pending_payment"
           /\ orderStatus' = [orderStatus EXCEPT ![OrderOf(pay)] = "cancelled"]
           /\ draft' = draft
    BY <1>4, <2>2, Zenon DEF RecordQuarantine, RecordArchived, ReleaseReservations, orderVars
  <2>7. CASE UNCHANGED <<orderStatus, draft>>
    BY <2>5, <2>7, StillMove, Zenon
  <2>8. CASE /\ orderStatus[OrderOf(pay)] = "pending_payment"
             /\ orderStatus' = [orderStatus EXCEPT ![OrderOf(pay)] = "cancelled"]
             /\ draft' = draft
    <3>1. draft' = [draft EXCEPT ![OrderOf(pay)] = draft[OrderOf(pay)]]
      BY <1>2, <2>1, <2>2, <2>8, Zenon
    <3>2. PICK q \in Orders : q = OrderOf(pay)
      BY <2>2, Zenon
    <3>2d. PICK d : d = draft[OrderOf(pay)]
      BY Zenon
    <3>3. PICK st : st = "cancelled"
      BY Zenon
    <3>4. /\ orderStatus[q] # "fulfilled"
          /\ orderStatus' = [orderStatus EXCEPT ![q] = st]
          /\ draft' = [draft EXCEPT ![q] = d]
          /\ st = "fulfilled" => ~ (d.total - d.applied > 0)
          /\ st = "pending_payment" => d.total - d.applied > 0
      BY <2>8, <3>1, <3>2, <3>2d, <3>3, Zenon
    <3> QED BY <2>5, <3>4, UnpaidMove, Zenon
  <2> QED BY <2>6, <2>7, <2>8, SMTT(20)
<1>5. ASSUME NEW pay \in Payments, ApplyLatePayment(pay)
      PROVE  PendingIsDue' /\ \A q \in Orders : PaidOnce(q)'
  <2>1. /\ outcome[pay] # "settled"
        /\ outcome' = [outcome EXCEPT ![pay] = "applied"]
        /\ UNCHANGED <<orderStatus, draft>>
    BY <1>5, Zenon DEF ApplyLatePayment, orderVars
  <2>2. \A q \in Orders : SettledBy(q)' = SettledBy(q)
    BY <2>1, BookOne, Zenon
  <2> QED BY <2>1, <2>2, StillMove, SMTT(20)
<1>6. ASSUME UNCHANGED <<orderVars, outcome>>
      PROVE  PendingIsDue' /\ \A q \in Orders : PaidOnce(q)'
  BY <1>1, <1>6, StillMove, Zenon DEF orderVars
<1>7. ASSUME NEW w \in Workers, RecordKnown(w) \/ RecordNotPayable(w) \/ RecordAbort(w)
      PROVE  PendingIsDue' /\ \A q \in Orders : PaidOnce(q)'
  BY <1>6, <1>7, SMTT(20) DEF RecordKnown, RecordNotPayable, RecordAbort
<1>8. ASSUME NEW pay, NEW report, NEW w,
             ChannelCapture(pay) \/ RecordRefused(pay, report) \/ RecordBegin(w, pay, report)
      PROVE  PendingIsDue' /\ \A q \in Orders : PaidOnce(q)'
  BY <1>6, <1>8, Zenon DEF ChannelCapture, RecordRefused, RecordBegin, recordVars
<1> QED BY <1>3, <1>4, <1>5, <1>7, <1>8, SMTT(20) DEF RecordNext, RecordStep

(* The invariant is kept by every step. *)
LEMMA StepPaidOnce == OrderPaymentTypeOK /\ PaidInv /\ [Next]_vars => PaidInv'
<1> SUFFICES ASSUME OrderPaymentTypeOK, PaidInv, [Next]_vars PROVE PaidInv'
  BY Zenon
<1>1. KeysAreExclusive'
  BY StepKeys, Zenon DEF PaidInv
<1>2. ASSUME UNCHANGED <<orderVars, outcome>>
      PROVE  PendingIsDue' /\ \A q \in Orders : PaidOnce(q)'
  BY <1>2, StillMove, Zenon DEF orderVars, SettledBy, PaymentsOf, OrderOf
<1>3. CASE IntentNext
  BY <1>1, <1>2, <1>3, IntentsOnly, Zenon DEF IntentStep, recordVars, PaidInv
<1>4. CASE PanelNext
  <2>1. UNCHANGED <<orderVars, outcome>>
    BY <1>4, Zenon DEF PanelNext, ArchivePlan, CouponChanges, Adjust, recordVars
  <2> QED BY <1>1, <1>2, <2>1, Zenon DEF PaidInv
<1>5. CASE UNCHANGED vars
  BY <1>1, <1>2, <1>5, Zenon DEF vars, recordVars, PaidInv
<1> QED BY <1>1, <1>3, <1>4, <1>5, OrderPaidOnce, RecordPaidOnce, SMTT(20) DEF Next, PaidInv

(* In every reachable state of the composed system. *)
LEMMA PaidSafe == Spec => []PaidInv
<1>1. Init => PaidInv
  <2> SUFFICES ASSUME Init PROVE PaidInv
    BY Zenon
  <2>1. KeysAreExclusive
    BY Zenon DEF Init, KeysAreExclusive, HoldsKey, Idle
  <2>2. PendingIsDue
    BY Zenon DEF Init, PendingIsDue
  <2>3. \A o \in Orders : PaidOnce(o)
    BY Zenon DEF Init, PaidOnce, SettledBy, PaymentsOf
  <2> QED BY <2>1, <2>2, <2>3, Zenon DEF PaidInv
<1>2. OrderPaymentTypeOK /\ PaidInv /\ [Next]_vars => PaidInv'
  BY StepPaidOnce, Zenon
<1> QED BY <1>1, <1>2, OrderPaymentIsTyped, PTL DEF Spec

(* An order with something to pay is fulfilled by exactly one payment, and *)
(* no payment is booked as settling an order that is not fulfilled,        *)
(* whatever is captured, reported, retried or recorded at the same time.   *)
THEOREM OrdersArePaidExactlyOnce == Spec => []PaidExactlyOnce
<1>1. PaidInv => PaidExactlyOnce
  BY FS_EmptySet, FS_Singleton, Zenon DEF PaidInv, PaidOnce, PaidExactlyOnce, SettledBy
<1> QED BY <1>1, PaidSafe, PTL

-----------------------------------------------------------------------------
(* What recordPayment writes.  A refused order was placed, so the status   *)
(* that its late case takes is not "none".                                 *)
RecordInv ==
  /\ \A e \in events : e[1] \in Recorded
  /\ \A pay \in Payments :
       caseStatus[pay] # "none" <=> outcome[pay] \in {"suspense", "applied"}
  /\ \A w \in Workers : HoldsKey(w) => worker[w].seen # "none"

(* A step that leaves the records alone, and starts no late case. *)
LEMMA RecordsStill ==
  ASSUME RecordInv, UNCHANGED <<outcome, caseStatus, events, worker>>
  PROVE  RecordInv'
BY Zenon DEF RecordInv, Recorded, HoldsKey

(* A payment is booked, with or without a case, and its event with it. *)
LEMMA RecordsBooked ==
  ASSUME OrderPaymentTypeOK, RecordInv, NEW pay \in Payments, NEW x \in Outcomes \ {"none"},
         outcome' = [outcome EXCEPT ![pay] = x],
         NEW st, caseStatus' = [caseStatus EXCEPT ![pay] = st],
         st # "none" <=> x \in {"suspense", "applied"},
         NEW S, events' = events \cup S, \A e \in S : e[1] = pay,
         \A w \in Workers : worker'[w] = worker[w] \/ worker'[w] = Idle
  PROVE  RecordInv'
<1>1. outcome \in [Payments -> Outcomes] /\ caseStatus \in [Payments -> OrderStates]
  BY Zenon DEF OrderPaymentTypeOK
<1>2. \A q \in Payments : /\ outcome'[q] = IF q = pay THEN x ELSE outcome[q]
                          /\ caseStatus'[q] = IF q = pay THEN st ELSE caseStatus[q]
  BY <1>1, Zenon
<1>3. Recorded' = Recorded \cup {pay}
  BY <1>2, Zenon DEF Recorded
<1>4. \A e \in events' : e[1] \in Recorded'
  BY <1>3, Zenon DEF RecordInv
<1>5. \A q \in Payments : caseStatus'[q] # "none" <=> outcome'[q] \in {"suspense", "applied"}
  BY <1>2 DEF RecordInv
<1>6. \A w \in Workers : HoldsKey(w)' => worker'[w].seen # "none"
  BY DEF RecordInv, HoldsKey, Idle
<1> QED BY <1>4, <1>5, <1>6, Zenon DEF RecordInv

(* Every step of recordPaymentTx keeps the records so. *)
LEMMA RecordStepRecords ==
  ASSUME OrderPaymentTypeOK, PaymentsAreKnown, KeysAreExclusive, RecordInv,
         NEW w \in Workers, RecordStep(w)
  PROVE  RecordInv'
<1>0. /\ caseStatus \in [Payments -> OrderStates] /\ worker \in [Workers -> WorkerStates]
      /\ outcome \in [Payments -> Outcomes]
  BY Zenon DEF OrderPaymentTypeOK
<1>1. worker[w].pc # "idle"
  BY Zenon DEF RecordStep, RecordKnown, RecordSettle, RecordNotPayable, RecordQuarantine,
               RecordArchived, FirstRecord
<1>2. PICK pay \in Payments : pay = worker[w].pay /\ orderStatus[OrderOf(pay)] # "none"
  BY <1>1, BusyTypes, Zenon DEF PaymentsAreKnown, Known
<1>3. Event(w)[1] = pay
  BY <1>2, Zenon DEF Event
<1>4. ASSUME Commit(w)
      PROVE  /\ events' = events \cup {Event(w)} /\ \A e \in {Event(w)} : e[1] = pay
             /\ \A v \in Workers : worker'[v] = worker[v] \/ worker'[v] = Idle
  BY <1>0, <1>3, <1>4, SMTT(20) DEF Commit
<1>5. HoldsKey(w) => outcome[pay] = "none" /\ worker[w].seen # "none"
  BY <1>2, Zenon DEF KeysAreExclusive, RecordInv
<1>6. CASE RecordKnown(w)
  <2>1. pay \in Recorded /\ Commit(w) /\ UNCHANGED <<outcome, caseStatus>>
    BY <1>2, <1>6, SMTT(20) DEF RecordKnown
  <2>2. \A e \in events' : e[1] \in Recorded'
    BY <1>3, <2>1, SMTT(20) DEF Commit, RecordInv, Recorded
  <2>3. \A v \in Workers : HoldsKey(v)' => worker'[v].seen # "none"
    BY <1>4, <2>1 DEF RecordInv, HoldsKey, Idle
  <2> QED BY <2>1, <2>2, <2>3, Zenon DEF RecordInv
<1>7. CASE RecordSettle(w)
  <2>1. PICK x, st : x = "settled" /\ st = "none"
    BY Zenon
  <2>2. /\ outcome[pay] = "none" /\ outcome' = [outcome EXCEPT ![pay] = x]
        /\ UNCHANGED caseStatus /\ Commit(w)
    BY <1>2, <1>7, <2>1, Zenon DEF RecordSettle, FirstRecord, Recorded
  <2>3. caseStatus[pay] = st
    BY <2>1, <2>2, Zenon DEF RecordInv
  <2>4. caseStatus' = [caseStatus EXCEPT ![pay] = st]
    BY <1>0, <2>2, <2>3, Zenon
  <2>5. x \in Outcomes \ {"none"} /\ (st # "none" <=> x \in {"suspense", "applied"})
    BY <2>1, Zenon DEF Outcomes
  <2>6. PICK S : S = {Event(w)}
    BY Zenon
  <2>7. /\ events' = events \cup S /\ \A e \in S : e[1] = pay
        /\ \A v \in Workers : worker'[v] = worker[v] \/ worker'[v] = Idle
    BY <1>4, <2>2, <2>6, Zenon
  <2>8. outcome' = [outcome EXCEPT ![pay] = x]
    BY <2>2, Zenon
  <2> QED BY <2>4, <2>5, <2>7, <2>8, RecordsBooked, Zenon
<1>8. CASE RecordQuarantine(w)
  <2>1. PICK x, st : x = "suspense" /\ st = worker[w].seen
    BY Zenon
  <2>2. /\ HoldsKey(w) /\ outcome' = [outcome EXCEPT ![pay] = x]
        /\ caseStatus' = [caseStatus EXCEPT ![pay] = st] /\ Commit(w)
    BY <1>2, <1>8, <2>1, Zenon DEF RecordQuarantine, HoldsKey
  <2>3. x \in Outcomes \ {"none"} /\ (st # "none" <=> x \in {"suspense", "applied"})
    BY <1>5, <2>1, <2>2, Zenon DEF Outcomes
  <2> QED BY <1>4, <2>2, <2>3, RecordsBooked, Zenon
<1>9. CASE RecordArchived(w)
  <2>1. PICK x, st : x = "applied" /\ st = orderStatus[OrderOf(pay)]
    BY Zenon
  <2>2. /\ outcome' = [outcome EXCEPT ![pay] = x]
        /\ caseStatus' = [caseStatus EXCEPT ![pay] = st] /\ Commit(w)
    BY <1>2, <1>9, <2>1, Zenon DEF RecordArchived
  <2>3. x \in Outcomes \ {"none"} /\ (st # "none" <=> x \in {"suspense", "applied"})
    BY <1>2, <2>1, Zenon DEF Outcomes
  <2> QED BY <1>4, <2>2, <2>3, RecordsBooked, Zenon
<1>10. CASE RecordNotPayable(w)
  <2>1. PICK pc, seen : /\ worker' = [worker EXCEPT ![w].pc = pc, ![w].seen = seen]
                        /\ seen = orderStatus[OrderOf(pay)]
    BY <1>2, <1>10, Zenon DEF RecordNotPayable
  <2>2. worker[w] \in [pc : {"read", "quarantine", "archived"}, pay : Payments,
                       report : Reports, seen : OrderStates, active : BOOLEAN]
    BY <1>1, BusyTypes, Zenon
  <2>3. worker'[w].seen = seen /\ \A v \in Workers \ {w} : worker'[v] = worker[v]
    BY <1>0, <2>1, <2>2, SMTT(20)
  <2>4. \A v \in Workers : HoldsKey(v)' => worker'[v].seen # "none"
    BY <1>2, <2>1, <2>3, Zenon DEF RecordInv, HoldsKey
  <2>5. UNCHANGED <<outcome, caseStatus, events>>
    BY <1>10, Zenon DEF RecordNotPayable
  <2> QED BY <2>4, <2>5, Zenon DEF RecordInv, Recorded
<1> QED BY <1>6, <1>7, <1>8, <1>9, <1>10, Zenon DEF RecordStep

(* And so does every other step. *)
LEMMA StepRecords ==
  ASSUME OrderPaymentTypeOK, PaymentsAreKnown, KeysAreExclusive, RecordInv, [Next]_vars
  PROVE  RecordInv'
<1> USE DEF recordVars
<1>0. caseStatus \in [Payments -> OrderStates] /\ worker \in [Workers -> WorkerStates]
  BY Zenon DEF OrderPaymentTypeOK
<1>1. ASSUME NEW o \in Orders, NEW k \in 1..MaxCaptures, OfflineRecorded(o, k)
      PROVE  RecordInv'
  <2>1. PICK pay, x, st, S : /\ pay = <<o, 0, k>> /\ x = "settled" /\ st = "none"
                             /\ S = {<<pay, "offline">>}
    BY Zenon
  <2>2. pay \in Payments
    BY <2>1, PaymentTypes, Zenon
  <2>3. /\ outcome[pay] = "none" /\ outcome' = [outcome EXCEPT ![pay] = x]
        /\ UNCHANGED <<caseStatus, worker>> /\ events' = events \cup S
    BY <1>1, <2>1, Zenon DEF OfflineRecorded, ReferenceFree
  <2>4. caseStatus' = [caseStatus EXCEPT ![pay] = st]
    BY <1>0, <2>1, <2>2, <2>3, SMTT(20) DEF RecordInv
  <2>5. /\ x \in Outcomes \ {"none"} /\ (st # "none" <=> x \in {"suspense", "applied"})
        /\ \A e \in S : e[1] = pay
    BY <2>1 DEF Outcomes
  <2> QED BY <2>2, <2>3, <2>4, <2>5, RecordsBooked, Zenon
<1>2. CASE OrderNext
  <2>1. ASSUME NEW o \in Orders, NEW d \in Placements, Place(o, d) \/ PlaceZero(o, d)
        PROVE  RecordInv'
    BY <2>1, RecordsStill, Zenon DEF Place, PlaceZero
  <2>2. ASSUME NEW o \in Orders,
               Cancel(o) \/ Lapse(o) \/ expireOne(o) \/ SubscriptionChanges(o)
        PROVE  RecordInv'
    BY <2>2, RecordsStill, Zenon DEF Cancel, expireOne, releaseOrder, Lapse, SubscriptionChanges
  <2> QED BY <1>1, <1>2, <2>1, <2>2, Zenon DEF OrderNext, PlaceOffline, MarkPaid
<1>3. CASE IntentNext
  BY <1>3, IntentsOnly, RecordsStill, Zenon DEF IntentStep
<1>4. CASE RecordNext
  <2>1. ASSUME NEW w \in Workers, RecordAbort(w) PROVE RecordInv'
    <3>1. \A v \in Workers : worker'[v] = worker[v] \/ worker'[v] = Idle
      BY <1>0, <2>1, SMTT(20) DEF RecordAbort
    <3>2. \A v \in Workers : HoldsKey(v)' => worker'[v].seen # "none"
      BY <3>1 DEF RecordInv, HoldsKey, Idle
    <3>3. UNCHANGED <<outcome, caseStatus, events>>
      BY <2>1, Zenon DEF RecordAbort
    <3> QED BY <3>2, <3>3, Zenon DEF RecordInv, Recorded
  <2>2. ASSUME NEW pay \in Payments, ApplyLatePayment(pay) PROVE RecordInv'
    <3>1. PICK x, st, S : x = "applied" /\ st = caseStatus[pay] /\ S = {}
      BY Zenon
    <3>2. /\ outcome[pay] = "suspense" /\ outcome' = [outcome EXCEPT ![pay] = x]
          /\ UNCHANGED <<caseStatus, worker, events>>
      BY <2>2, <3>1, Zenon DEF ApplyLatePayment
    <3>3. caseStatus' = [caseStatus EXCEPT ![pay] = st] /\ events' = events \cup S
      BY <1>0, <3>1, <3>2, Zenon
    <3>4. /\ x \in Outcomes \ {"none"} /\ (st # "none" <=> x \in {"suspense", "applied"})
          /\ \A e \in S : e[1] = pay
      BY <3>1, <3>2, Zenon DEF Outcomes, RecordInv
    <3> QED BY <3>2, <3>3, <3>4, RecordsBooked, Zenon
  <2>3. ASSUME NEW w \in Workers, NEW pay \in Payments, NEW report \in Reports,
               RecordBegin(w, pay, report)
        PROVE  RecordInv'
    <3>0. PICK active :
            worker' = [worker EXCEPT ![w] = [pc |-> "read", pay |-> pay, report |-> report,
                                             seen |-> "none", active |-> active]]
      BY <2>3, Zenon DEF RecordBegin
    <3> DEFINE r == [pc |-> "read", pay |-> pay, report |-> report, seen |-> "none",
                     active |-> active]
    <3>1. worker' = [worker EXCEPT ![w] = r] /\ r.pc = "read"
      BY <3>0, Zenon
    <3> HIDE DEF r
    <3>2. \A v \in Workers : HoldsKey(v)' => worker'[v].seen # "none"
      BY <1>0, <3>1, SMTT(20) DEF RecordInv, HoldsKey
    <3>3. UNCHANGED <<outcome, caseStatus, events>>
      BY <2>3, Zenon DEF RecordBegin
    <3> QED BY <3>2, <3>3, Zenon DEF RecordInv, Recorded
  <2>4. ASSUME NEW pay, NEW report, ChannelCapture(pay) \/ RecordRefused(pay, report)
        PROVE  RecordInv'
    BY <2>4, RecordsStill, Zenon DEF ChannelCapture, RecordRefused
  <2> QED BY <1>4, <2>1, <2>2, <2>3, <2>4, RecordStepRecords, Zenon DEF RecordNext
<1>5. CASE PanelNext
  BY <1>5, RecordsStill, Zenon DEF PanelNext, ArchivePlan, CouponChanges, Adjust
<1>6. CASE UNCHANGED vars
  BY <1>6, RecordsStill, Zenon DEF vars
<1> QED BY <1>2, <1>3, <1>4, <1>5, <1>6, Zenon DEF Next
=============================================================================
