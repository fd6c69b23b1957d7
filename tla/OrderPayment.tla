---------------------------- MODULE OrderPayment ----------------------------
(***************************************************************************)
(* Orders, payment intents and channel payments of the panel (modules      *)
(* order and payment), composed with the coupons of module Promo and the   *)
(* ledger of module Ledger.                                                *)
(*                                                                         *)
(* One step of the model is one database transaction (they are serialised  *)
(* by the row lock on the order), one call to or by the payment channel,   *)
(* or one part of a transaction that is cut by the release of a lock: the  *)
(* recording of a payment reads the intent without a lock, then tries to   *)
(* settle under the order lock, and, when the order refuses the money,     *)
(* rolls back to a savepoint (which gives the order lock back) before it   *)
(* quarantines the money or closes the order.                              *)
(***************************************************************************)
EXTENDS Promo, Ledger, Sequences

CONSTANTS
  Placements,      \* what orders can be placed with (a set of drafts)
  Adjustments,     \* the amounts by which administrators adjust a balance
  StoresRef,       \* providers whose adapter returns a ProviderRef (invoice id)
  StrictRef,       \* those of them whose mismatch is refused (not coinpayments)
  Workers,         \* concurrent executions of recordPayment
  Referrer,        \* the user who invited a user, or NoUser
  RatePercent,     \* commission rate in percent, one level
  FirstOrderOnly   \* commission scope: only the first order of a referee

AllKinds == {"new", "renewal", "stack", "upgrade", "traffic_reset", "topup"}

(* An order as it is placed: total is what the coupon and the worth of an  *)
(* old subscription left of the price, applied is the part of it that the  *)
(* balance pays, refund what the old subscription was worth beyond it.     *)
PlacedDrafts ==
  [kind : AllKinds, user : Users, total : Nat, applied : Nat, refund : Nat,
   coupon : Coupons \cup {NoCoupon}]

ASSUME OrderPaymentConstants ==
  /\ Placements \subseteq PlacedDrafts
  /\ Adjustments \subseteq Int
  /\ StrictRef \subseteq StoresRef
  /\ StoresRef \subseteq Providers \ {Offline}
  /\ Referrer \in [Users -> Users \cup {NoUser}]
  /\ \A u \in Users : Referrer[u] # u
  /\ RatePercent \in 0..100
  /\ FirstOrderOnly \in BOOLEAN

VARIABLES
  orderStatus,   \* orders.status; "none": not placed yet
  draft,         \* what the order was placed with and never changes
  resv,          \* order_reservations.state
  lapsed,        \* the orders whose expires_at has passed
  ineligible,    \* orders whose subscription cannot take the change now
  planArchived,  \* the plan of the plan orders is archived
  intents,       \* payment_intents of an order, in the order of creation
  captured,      \* the payments the channel has taken from the payer
  outcome,       \* what a recorded payment became; "none": not recorded
  caseStatus,    \* late_payment_cases.order_status, "none" without a case
  events,        \* the committed rows of payment_events
  evidence,      \* the refused payments of which a mismatch event was kept
  worker,        \* the executions of recordPayment under way
  accrued,       \* the orders with a commission entry
  adjusted       \* per user, the sum of the administrators' adjustments

orderVars   == <<orderStatus, draft, resv, lapsed>>
contextVars == <<ineligible, planArchived>>
recordVars  == <<outcome, caseStatus, events, evidence, worker>>
vars == <<orderVars, contextVars, intents, captured, recordVars, accrued, adjusted,
          promoVars, ledger>>

-----------------------------------------------------------------------------
Closed == {"fulfilled", "cancelled", "expired"}
OrderStates == {"none", "pending_payment"} \cup Closed

NoDraft == [kind |-> "none", user |-> NoUser, total |-> 0, applied |-> 0,
            refund |-> 0, coupon |-> NoCoupon]

Drafts == PlacedDrafts \cup {NoDraft}

Payable(o) == draft[o].total - draft[o].applied

IntentStates == {"requires_action", "succeeded", "cancelled", "expired"}

(* handler: where CompleteIntent is for this intent: it has yet to call    *)
(* the channel, holds the channel's answer, or is over.                    *)
Intents == [provider : Providers, surcharge : Nat, status : IntentStates,
            filled : BOOLEAN, ref : BOOLEAN, fresh : BOOLEAN,
            handler : {"begun", "answered", "over"}, invoice : BOOLEAN]

(* A payment is <<order, intent number, capture number>>; intent number 0  *)
(* is an offline collection, whose capture number is its reference.        *)
OrderOf(pay)  == pay[1]
NumberOf(pay) == pay[2]
CaptureOf(pay) == pay[3]
IsOffline(pay) == NumberOf(pay) = 0
IntentOf(pay) == intents[OrderOf(pay)][NumberOf(pay)]

ProviderOf(pay)  == IF IsOffline(pay) THEN Offline ELSE IntentOf(pay).provider
SurchargeOf(pay) == IF IsOffline(pay) THEN 0 ELSE IntentOf(pay).surcharge

Active(o) == {n \in DOMAIN intents[o] : intents[o][n].status = "requires_action"}

Outcomes == {"none", "settled", "suspense", "applied"}
Recorded == {pay \in Payments : outcome[pay] # "none"}

Idle == [pc |-> "idle"]

planOrder(kind) == kind \in {"new", "renewal", "stack", "upgrade"}

(* Orders that act on an existing subscription.  Every user has one here.  *)
changesSubscription(kind) == kind \in {"renewal", "stack", "upgrade", "traffic_reset"}

Init ==
  /\ orderStatus = [o \in Orders |-> "none"]
  /\ draft = [o \in Orders |-> NoDraft]
  /\ resv = [o \in Orders |-> "none"]
  /\ lapsed = {}
  /\ ineligible = {}
  /\ planArchived = FALSE
  /\ intents = [o \in Orders |-> <<>>]
  /\ captured = {}
  /\ outcome = [pay \in Payments |-> "none"]
  /\ caseStatus = [pay \in Payments |-> "none"]
  /\ events = {}
  /\ evidence = {}
  /\ worker = [w \in Workers |-> Idle]
  /\ accrued = {}
  /\ adjusted = [u \in Users |-> 0]
  /\ PromoInit
  /\ LedgerInit

-----------------------------------------------------------------------------
(* Creating an order.  The purchase limits per user (limits.go) only       *)
(* refuse placements and are left out here.                                *)

(* orders_one_open_subscription_change and orders_one_open_traffic_reset.  *)
OpenChange(u, kinds) ==
  \E o \in Orders : /\ orderStatus[o] = "pending_payment"
                    /\ draft[o].user = u
                    /\ draft[o].kind \in kinds

CanPlace(o, d) ==
  /\ orderStatus[o] = "none"
  /\ planOrder(d.kind) => ~ planArchived
  /\ d.kind \in {"topup", "traffic_reset"} => d.coupon = NoCoupon
  /\ d.kind = "topup" => d.applied = 0
  /\ d.kind \in {"renewal", "stack", "upgrade"} =>
       ~ OpenChange(d.user, {"renewal", "stack", "upgrade"})
  /\ d.kind = "traffic_reset" => ~ OpenChange(d.user, {"traffic_reset"})

(* fulfilPlanChange: what the old subscription was worth beyond the new    *)
(* price goes back to the balance.                                         *)
CanRefund(L, o, d) ==
  d.refund > 0 => CanPost(L, "plan_change_refund", o,
                          Leg(Revenue, d.refund), Leg(Balance(d.user), d.refund))

Refunded(L, o, d) ==
  IF d.refund > 0
  THEN post(L, "plan_change_refund", o, Leg(Revenue, d.refund), Leg(Balance(d.user), d.refund))
  ELSE L

(* place, with something left to pay: the coupon and the part of the       *)
(* balance that the order uses are taken at once.                          *)
Place(o, d) ==
  /\ CanPlace(o, d)
  /\ d.applied < d.total
  /\ d.refund = 0
  /\ orderStatus' = [orderStatus EXCEPT ![o] = "pending_payment"]
  /\ draft' = [draft EXCEPT ![o] = d]
  /\ resv' = [resv EXCEPT ![o] = "held"]
  /\ IF d.coupon = NoCoupon THEN UNCHANGED promoVars ELSE Reserve(o, d.coupon, d.user)
  /\ IF d.applied = 0
     THEN UNCHANGED ledger
     ELSE /\ CanHold(ledger, o, d.user, d.applied)
          /\ ledger' = HoldForOrder(ledger, o, d.user, d.applied)
  /\ UNCHANGED <<lapsed, contextVars, intents, captured, recordVars, accrued, adjusted>>

(* place and settleZeroPay: nothing left to pay, so the order is settled   *)
(* and fulfilled in the transaction that creates it.  No commission.       *)
PlaceZero(o, d) ==
  LET L == IF d.applied = 0 THEN ledger ELSE CaptureFromBalance(ledger, o, d.user, d.applied)
  IN /\ CanPlace(o, d)
     /\ d.kind # "topup"
     /\ d.applied = d.total
     /\ d.refund > 0 => d.kind = "upgrade" /\ d.total = 0
     /\ orderStatus' = [orderStatus EXCEPT ![o] = "fulfilled"]
     /\ draft' = [draft EXCEPT ![o] = d]
     /\ resv' = [resv EXCEPT ![o] = "captured"]
     /\ IF d.coupon = NoCoupon
        THEN UNCHANGED promoVars
        ELSE ReserveCaptured(o, d.coupon, d.user)
     /\ d.applied > 0 => CanCaptureFromBalance(ledger, o, d.user, d.applied)
     /\ CanRefund(L, o, d)
     /\ ledger' = Refunded(L, o, d)
     /\ UNCHANGED <<lapsed, contextVars, intents, captured, recordVars, accrued, adjusted>>

-----------------------------------------------------------------------------
(* Payment intents: BeginIntent inside the transaction of order.Pay, then  *)
(* CompleteIntent, which calls the channel outside of any transaction.     *)

SetIntent(o, n, i) == intents' = [intents EXCEPT ![o][n] = i]

(* A sequence of intents after those still open were moved to `to`. *)
CloseIntents(is, to) ==
  [n \in DOMAIN is |->
     IF is[n].status = "requires_action" THEN [is[n] EXCEPT !.status = to] ELSE is[n]]

CloseOrderIntents(o, to) == CloseIntents(intents[o], to)

(* An open intent is superseded, unless the channel call of a fresh        *)
(* placeholder may still be under way (PaymentInProgress).  A filled one   *)
(* that is unexpired and for the same method and amount is reused, without *)
(* any change of state; expiry and method are not told apart here.         *)
Supersedable(i) == i.filled \/ ~ i.fresh

Pay(o, p, x) ==
  /\ orderStatus[o] = "pending_payment"
  /\ o \notin lapsed
  /\ planOrder(draft[o].kind) => ~ planArchived
  /\ p # Offline
  /\ \A n \in Active(o) : Supersedable(intents[o][n])
  /\ Len(intents[o]) < MaxIntents
  /\ intents' = [intents EXCEPT ![o] = Append(CloseOrderIntents(o, "cancelled"),
       [provider |-> p, surcharge |-> x, status |-> "requires_action", filled |-> FALSE,
        ref |-> FALSE, fresh |-> TRUE, handler |-> "begun", invoice |-> FALSE])]
  /\ UNCHANGED <<orderVars, contextVars, captured, recordVars, accrued, adjusted,
                 promoVars, ledger>>

IntentStep == UNCHANGED <<orderVars, contextVars, captured, recordVars, accrued, adjusted,
                          promoVars, ledger>>

(* CreatePayment answers: the channel has an invoice. *)
ChannelAnswers(o, n) ==
  /\ intents[o][n].handler = "begun"
  /\ SetIntent(o, n, [intents[o][n] EXCEPT !.handler = "answered", !.invoice = TRUE])
  /\ IntentStep

(* CreatePayment fails or its deadline passes (then the channel may have   *)
(* the invoice all the same): CancelPlaceholderIntent.                     *)
ChannelFails(o, n, invoice) ==
  LET i == intents[o][n]
  IN /\ i.handler = "begun"
     /\ SetIntent(o, n, [i EXCEPT !.handler = "over", !.invoice = invoice,
          !.status = IF @ = "requires_action" /\ ~ i.filled THEN "cancelled" ELSE @])
     /\ IntentStep

(* Mutant: the answer of the channel is written without looking at status. *)
FillAnyStatus(o, n) ==
  LET i == intents[o][n]
  IN /\ i.handler = "answered"
     /\ SetIntent(o, n, [i EXCEPT !.handler = "over", !.ref = i.provider \in StoresRef,
          !.filled = TRUE, !.status = "requires_action"])
     /\ IntentStep

(* FillPlaceholderIntent, or SetIntentProviderRef when the placeholder was *)
(* closed in the meantime.                                                 *)
Fill(o, n) ==
  LET i == intents[o][n]
  IN /\ i.handler = "answered"
     /\ SetIntent(o, n, [i EXCEPT !.handler = "over", !.ref = i.provider \in StoresRef,
          !.filled = @ \/ i.status = "requires_action"])
     /\ IntentStep

(* The process dies, or the database fails, before the answer is written.  *)
HandlerDies(o, n) ==
  /\ intents[o][n].handler # "over"
  /\ SetIntent(o, n, [intents[o][n] EXCEPT !.handler = "over"])
  /\ IntentStep

(* intentCreatingWindow passes. *)
WindowPasses(o, n) ==
  /\ intents[o][n].fresh
  /\ SetIntent(o, n, [intents[o][n] EXCEPT !.fresh = FALSE])
  /\ IntentStep

-----------------------------------------------------------------------------
(* What a payment does to the ledger. *)

(* OnOrderPaid, for one level of referrers. *)
Commission(d) == (d.total * RatePercent) \div 100

(* Mutant: the scope of the commission is ignored. *)
AccruesEveryOrder(o, d) ==
  d.kind # "topup" /\ Referrer[d.user] # NoUser /\ Commission(d) > 0 /\ o \notin accrued

Accrues(o, d) ==
  /\ d.kind # "topup"
  /\ Referrer[d.user] # NoUser
  /\ Commission(d) > 0
  /\ o \notin accrued
  /\ FirstOrderOnly => \A other \in accrued : draft[other].user # d.user

(* Mutant: the commission goes to the spendable balance at once. *)
AccrueToBalance(L, o, d) ==
  IF Accrues(o, d)
  THEN post(L, "commission_accrued", o, Leg(Revenue, Commission(d)),
            Leg(Balance(Referrer[d.user]), Commission(d)))
  ELSE L

Accrue(L, o, d) ==
  IF Accrues(o, d)
  THEN post(L, "commission_accrued", o, Leg(Revenue, Commission(d)),
            Leg(CommissionPending(Referrer[d.user]), Commission(d)))
  ELSE L

(* postSettlement, then OnOrderPaid.  d is the draft of order o. *)
CanSettle(L, o, d, p, x) ==
  IF d.kind = "topup"
  THEN CanTopup(L, o, d.user, d.total, x, p)
  ELSE CanOrderPaid(L, o, d.user, d.total, d.total - d.applied, x, p)

postSettlement(L, o, d, p, x) ==
  IF d.kind = "topup"
  THEN Topup(L, o, d.user, d.total, x, p)
  ELSE PostOrderPaid(L, o, d.user, d.total, d.total - d.applied, x, p)

Settled(L, o, d, p, x) == Accrue(postSettlement(L, o, d, p, x), o, d)

AccruedAfter(o, d) == IF Accrues(o, d) THEN accrued \cup {o} ELSE accrued

(* Mutant: the surcharge is put into suspense with the rest. *)
SuspendedGross(L, pay) ==
  LET gross == Payable(OrderOf(pay)) + SurchargeOf(pay)
  IN post(L, "late_payment_suspense", pay, Leg(Cash(ProviderOf(pay)), gross),
          Leg(LateSuspense, gross))

(* quarantine: buildSuspenseLegs. *)
Suspended(L, pay) ==
  LET due == Payable(OrderOf(pay))
      x == SurchargeOf(pay)
  IN post(L, "late_payment_suspense", pay, Leg(Cash(ProviderOf(pay)), due + x),
          And(Leg(LateSuspense, due), Leg(SurchargeFee, x)))

CanSuspend(L, pay) == <<"late_payment_suspense", pay>> \notin L.posted

(* applyLateCase. *)
Credited(L, pay) ==
  LET o == OrderOf(pay)
  IN post(L, "late_payment_applied", pay, Leg(LateSuspense, Payable(o)),
          Leg(Balance(draft[o].user), Payable(o)))

-----------------------------------------------------------------------------
(* The payment channel, outside of the repository: an invoice can be paid  *)
(* after everything else has happened to the order, and more than once.    *)
ChannelCapture(pay) ==
  /\ ~ IsOffline(pay)
  /\ NumberOf(pay) \in DOMAIN intents[OrderOf(pay)]
  /\ IntentOf(pay).invoice
  /\ pay \notin captured
  /\ CaptureOf(pay) > 1 => <<OrderOf(pay), NumberOf(pay), CaptureOf(pay) - 1>> \in captured
  /\ captured' = captured \cup {pay}
  /\ UNCHANGED <<orderVars, contextVars, intents, recordVars, accrued, adjusted,
                 promoVars, ledger>>

-----------------------------------------------------------------------------
(* recordPayment: the webhook or a query (of the user, an administrator or *)
(* the patrol) reports a captured payment; each reports under an event id  *)
(* of its own.  An event row that is being inserted by another transaction *)
(* makes the second insert wait, and it conflicts if that one commits.     *)
Reports == {"webhook", "query"}

Event(w) == <<worker[w].pay, worker[w].report>>
Busy == {w \in Workers : worker[w].pc # "idle"}

(* A second payment of one invoice has another reference than the invoice. *)
RefMismatch(pay) ==
  CaptureOf(pay) > 1 /\ IntentOf(pay).ref /\ IntentOf(pay).provider \in StrictRef

Unreported(pay, report) ==
  /\ pay \in captured
  /\ <<pay, report>> \notin events
  /\ \A v \in Busy : Event(v) # <<pay, report>>

(* Mutant: only payments of open intents are taken in. *)
RecordBeginOpenIntent(w, pay, report) ==
  /\ worker[w] = Idle
  /\ ~ IsOffline(pay)
  /\ Unreported(pay, report)
  /\ ~ RefMismatch(pay)
  /\ IntentOf(pay).status = "requires_action"
  /\ worker' = [worker EXCEPT ![w] =
       [pc |-> "read", pay |-> pay, report |-> report, seen |-> "none", active |-> TRUE]]
  /\ UNCHANGED <<orderVars, contextVars, intents, captured, outcome, caseStatus, events,
                 evidence, accrued, adjusted, promoVars, ledger>>

(* recordPaymentTx up to the lock: the intent is read without a lock.      *)
RecordBegin(w, pay, report) ==
  /\ worker[w] = Idle
  /\ ~ IsOffline(pay)
  /\ Unreported(pay, report)
  /\ ~ RefMismatch(pay)
  /\ worker' = [worker EXCEPT ![w] =
       [pc |-> "read", pay |-> pay, report |-> report, seen |-> "none",
        active |-> IntentOf(pay).status = "requires_action"]]
  /\ UNCHANGED <<orderVars, contextVars, intents, captured, outcome, caseStatus, events,
                 evidence, accrued, adjusted, promoVars, ledger>>

(* ErrProviderRefMismatch: the transaction is rolled back and an event of  *)
(* another key is kept as evidence; the channel may report it again.       *)
RecordRefused(pay, report) ==
  /\ ~ IsOffline(pay)
  /\ Unreported(pay, report)
  /\ RefMismatch(pay)
  /\ evidence' = evidence \cup {pay}
  /\ UNCHANGED <<orderVars, contextVars, intents, captured, outcome, caseStatus, events,
                 worker, accrued, adjusted, promoVars, ledger>>

(* Mutant: the event row survives the failure. *)
RecordAbortKeepsEvent(w) ==
  /\ w \in Busy
  /\ worker' = [worker EXCEPT ![w] = Idle]
  /\ events' = events \cup {Event(w)}
  /\ UNCHANGED <<orderVars, contextVars, intents, captured, outcome, caseStatus,
                 evidence, accrued, adjusted, promoVars, ledger>>

(* Any error or crash before the commit: everything is rolled back. *)
RecordAbort(w) ==
  /\ w \in Busy
  /\ worker' = [worker EXCEPT ![w] = Idle]
  /\ UNCHANGED <<orderVars, contextVars, intents, captured, outcome, caseStatus, events,
                 evidence, accrued, adjusted, promoVars, ledger>>

(* LockPaymentKey: held until the end of the transaction. *)
KeyFree(w) ==
  \A v \in Busy \ {w} : worker[v].pc # "read" => worker[v].pay # worker[w].pay

Commit(w) ==
  /\ events' = events \cup {Event(w)}
  /\ worker' = [worker EXCEPT ![w] = Idle]

(* PaymentByProviderRef finds the payment: the event is ignored. *)
RecordKnown(w) ==
  /\ worker[w].pc = "read"
  /\ KeyFree(w)
  /\ worker[w].pay \in Recorded
  /\ Commit(w)
  /\ UNCHANGED <<orderVars, contextVars, intents, captured, outcome, caseStatus, evidence,
                 accrued, adjusted, promoVars, ledger>>

(* Mutant: the payment row is not looked up under the lock. *)
FirstRecordUnchecked(w) == worker[w].pc = "read"

FirstRecord(w) ==
  /\ worker[w].pc = "read"
  /\ KeyFree(w)
  /\ worker[w].pay \notin Recorded

-----------------------------------------------------------------------------
(* SettlePayment: the checks under the order lock, in their order. *)
PlanRetired(o) == planOrder(draft[o].kind) /\ planArchived

Accepts(o) ==
  /\ orderStatus[o] = "pending_payment"
  /\ ~ PlanRetired(o)
  /\ o \notin ineligible

(* captureReservation, postSettlement, markPaid, OnOrderPaid and fulfil.   *)
(* paid is a state inside of this transaction only.                        *)
SettleOrderWith(o, p, x) ==
  /\ Accepts(o)
  /\ resv[o] = "held"
  /\ CanSettle(ledger, o, draft[o], p, x)
  /\ orderStatus' = [orderStatus EXCEPT ![o] = "fulfilled"]
  /\ resv' = [resv EXCEPT ![o] = "captured"]
  /\ IF draft[o].coupon = NoCoupon THEN UNCHANGED promoVars ELSE Capture(o)
  /\ ledger' = Settled(ledger, o, draft[o], p, x)
  /\ accrued' = AccruedAfter(o, draft[o])
  /\ UNCHANGED <<draft, lapsed>>

(* markIntentSucceeded, if the intent was open when it was read; it may    *)
(* have been closed since, and then keeps its status.                      *)
MarkIntentSucceeded(o, n, active) ==
  [m \in DOMAIN intents[o] |->
     IF m = n /\ active /\ intents[o][m].status = "requires_action"
     THEN [intents[o][m] EXCEPT !.status = "succeeded"] ELSE intents[o][m]]

(* ... and CloseOrderIntents for the others. *)
IntentsPaid(o, n, active) == CloseIntents(MarkIntentSucceeded(o, n, active), "cancelled")

(* recordPaymentTx when SettlePayment succeeds: afterSettleSuccess. *)
RecordSettle(w) ==
  LET pay == worker[w].pay
      o == OrderOf(pay)
  IN /\ FirstRecord(w)
     /\ SettleOrderWith(o, ProviderOf(pay), SurchargeOf(pay))
     /\ intents' = [intents EXCEPT ![o] = IntentsPaid(o, NumberOf(pay), worker[w].active)]
     /\ outcome' = [outcome EXCEPT ![pay] = "settled"]
     /\ Commit(w)
     /\ UNCHANGED <<contextVars, captured, caseStatus, evidence, adjusted>>

(* SettlePayment returns NotPayable: its writes are rolled back to the     *)
(* savepoint, and with them the lock on the order is gone.                 *)
RecordNotPayable(w) ==
  LET o == OrderOf(worker[w].pay)
      archived == orderStatus[o] = "pending_payment" /\ PlanRetired(o)
  IN /\ FirstRecord(w)
     /\ ~ Accepts(o)
     /\ worker' = [worker EXCEPT ![w].pc = IF archived THEN "archived" ELSE "quarantine",
                                 ![w].seen = orderStatus[o]]
     /\ UNCHANGED <<orderVars, contextVars, intents, captured, outcome, caseStatus, events,
                    evidence, accrued, adjusted, promoVars, ledger>>

(* afterSettleQuarantine: the case takes the status that SettlePayment saw. *)
RecordQuarantine(w) ==
  LET pay == worker[w].pay
      o == OrderOf(pay)
  IN /\ worker[w].pc = "quarantine"
     /\ CanSuspend(ledger, pay)
     /\ ledger' = Suspended(ledger, pay)
     /\ outcome' = [outcome EXCEPT ![pay] = "suspense"]
     /\ caseStatus' = [caseStatus EXCEPT ![pay] = worker[w].seen]
     /\ intents' = [intents EXCEPT ![o] =
                      MarkIntentSucceeded(o, NumberOf(pay), worker[w].active)]
     /\ Commit(w)
     /\ UNCHANGED <<orderVars, contextVars, captured, evidence, accrued, adjusted, promoVars>>

(* Mutant: the coupon of a closed order stays held. *)
ReleaseKeepingCoupon(o, to) ==
  /\ orderStatus[o] = "pending_payment"
  /\ resv[o] = "held"
  /\ orderStatus' = [orderStatus EXCEPT ![o] = to]
  /\ resv' = [resv EXCEPT ![o] = "released"]
  /\ UNCHANGED <<draft, lapsed, promoVars>>

(* The reservations of a pending order, given back by releaseOrderWith.    *)
(* The ledger is left to the caller, who may post before the hold is       *)
(* released.                                                               *)
ReleaseReservations(o, to) ==
  /\ orderStatus[o] = "pending_payment"
  /\ resv[o] = "held"
  /\ draft[o].applied > 0 => ledger.hold[o] = "held"
  /\ orderStatus' = [orderStatus EXCEPT ![o] = to]
  /\ resv' = [resv EXCEPT ![o] = "released"]
  /\ IF draft[o].coupon = NoCoupon THEN UNCHANGED promoVars ELSE Release(o)
  /\ UNCHANGED <<draft, lapsed>>

HoldGivenBack(L, o) == IF draft[o].applied > 0 THEN ReleaseOrderHold(L, o) ELSE L

(* afterSettleArchived and CloseArchivedOrder: the order is locked again.  *)
(* If it is still pending it is cancelled, and in any case the money goes  *)
(* to the balance of the user.                                             *)
RecordArchived(w) ==
  LET pay == worker[w].pay
      o == OrderOf(pay)
      L == Credited(Suspended(ledger, pay), pay)
  IN /\ worker[w].pc = "archived"
     /\ CanSuspend(ledger, pay)
     /\ \/ /\ ReleaseReservations(o, "cancelled")
           /\ CanRelease(L, o)
           /\ ledger' = HoldGivenBack(L, o)
           /\ intents' = [intents EXCEPT ![o] =
                            IntentsPaid(o, NumberOf(pay), worker[w].active)]
        \/ /\ orderStatus[o] # "pending_payment"
           /\ ledger' = L
           /\ intents' = [intents EXCEPT ![o] =
                            MarkIntentSucceeded(o, NumberOf(pay), worker[w].active)]
           /\ UNCHANGED <<orderVars, promoVars>>
     /\ outcome' = [outcome EXCEPT ![pay] = "applied"]
     /\ caseStatus' = [caseStatus EXCEPT ![pay] = orderStatus[o]]
     /\ Commit(w)
     /\ UNCHANGED <<contextVars, captured, evidence, accrued, adjusted>>

-----------------------------------------------------------------------------
(* RecordOffline: money taken outside of a channel, with a reference that  *)
(* one order only may use.  It shares recordPaymentTx, but a refusal of    *)
(* the order rolls everything back.                                        *)
ReferenceFree(k) == \A o \in Orders : outcome[<<o, 0, k>>] = "none"

OfflineRecorded(o, k) ==
  /\ ReferenceFree(k)
  /\ captured' = captured \cup {<<o, 0, k>>}
  /\ outcome' = [outcome EXCEPT ![<<o, 0, k>>] = "settled"]
  /\ events' = events \cup {<<<<o, 0, k>>, "offline">>}
  /\ UNCHANGED <<contextVars, caseStatus, evidence, worker, adjusted>>

(* MarkPaid, by an administrator; the payment deadline is not looked at.   *)
MarkPaid(o, k) ==
  /\ SettleOrderWith(o, Offline, 0)
  /\ OfflineRecorded(o, k)
  /\ intents' = [intents EXCEPT ![o] = CloseOrderIntents(o, "cancelled")]

(* CreateManualOrder with offline settlement: placed and paid at once.     *)
PlaceOffline(o, d, k) ==
  /\ CanPlace(o, d)
  /\ planOrder(d.kind)
  /\ d.applied = 0 /\ d.refund = 0 /\ d.coupon = NoCoupon /\ d.total > 0
  /\ CanSettle(ledger, o, d, Offline, 0)
  /\ orderStatus' = [orderStatus EXCEPT ![o] = "fulfilled"]
  /\ draft' = [draft EXCEPT ![o] = d]
  /\ resv' = [resv EXCEPT ![o] = "captured"]
  /\ ledger' = Settled(ledger, o, d, Offline, 0)
  /\ accrued' = AccruedAfter(o, d)
  /\ OfflineRecorded(o, k)
  /\ UNCHANGED <<lapsed, intents, promoVars>>

(* Mutant: the state of the case is not looked at. *)
ApplyLatePaymentAgain(pay) ==
  /\ pay \in Recorded
  /\ ledger' = Credited(ledger, pay)
  /\ outcome' = [outcome EXCEPT ![pay] = "applied"]
  /\ UNCHANGED <<orderVars, contextVars, intents, captured, caseStatus, events, evidence,
                 worker, accrued, adjusted, promoVars>>

(* ApplyLatePayment: an administrator gives quarantined money to the user. *)
ApplyLatePayment(pay) ==
  /\ outcome[pay] = "suspense"
  /\ ledger' = Credited(ledger, pay)
  /\ outcome' = [outcome EXCEPT ![pay] = "applied"]
  /\ UNCHANGED <<orderVars, contextVars, intents, captured, caseStatus, events, evidence,
                 worker, accrued, adjusted, promoVars>>

-----------------------------------------------------------------------------
(* releaseOrder, for a cancellation or for the expiry job. *)
releaseOrder(o, to, intentTo) ==
  /\ ReleaseReservations(o, to)
  /\ CanRelease(ledger, o)
  /\ ledger' = HoldGivenBack(ledger, o)
  /\ intents' = [intents EXCEPT ![o] = CloseOrderIntents(o, intentTo)]
  /\ UNCHANGED <<contextVars, captured, recordVars, accrued, adjusted>>

Cancel(o) == releaseOrder(o, "cancelled", "cancelled")

(* Mutant: orders with an open intent are left alone. *)
expireOneUnlessPaying(o) ==
  o \in lapsed /\ Active(o) = {} /\ releaseOrder(o, "expired", "expired")

expireOne(o) == o \in lapsed /\ releaseOrder(o, "expired", "expired")

(* The payment deadline of the order passes. *)
Lapse(o) ==
  /\ orderStatus[o] = "pending_payment"
  /\ o \notin lapsed
  /\ lapsed' = lapsed \cup {o}
  /\ UNCHANGED <<orderStatus, draft, resv, contextVars, intents, captured, recordVars, accrued,
                 adjusted, promoVars, ledger>>

-----------------------------------------------------------------------------
(* What other parts of the panel do meanwhile. *)

(* Archiving a plan cannot be undone. *)
ArchivePlan ==
  /\ ~ planArchived
  /\ planArchived' = TRUE
  /\ UNCHANGED <<orderVars, ineligible, intents, captured, recordVars, accrued, adjusted,
                 promoVars, ledger>>

(* The subscription is suspended, resumed, changes its plan, expires...    *)
SubscriptionChanges(o) ==
  /\ orderStatus[o] = "pending_payment"
  /\ changesSubscription(draft[o].kind)
  /\ ineligible' = IF o \in ineligible THEN ineligible \ {o} ELSE ineligible \cup {o}
  /\ UNCHANGED <<orderVars, planArchived, intents, captured, recordVars, accrued, adjusted,
                 promoVars, ledger>>

Adjust(u, x) ==
  /\ AdjustBalance(u, x)
  /\ adjusted' = [adjusted EXCEPT ![u] = @ + x]
  /\ UNCHANGED <<orderVars, contextVars, intents, captured, recordVars, accrued, promoVars>>

CouponChanges ==
  /\ PromoAdmin
  /\ UNCHANGED <<orderVars, contextVars, intents, captured, recordVars, accrued, adjusted,
                 ledger>>

-----------------------------------------------------------------------------
OrderNext ==
  \E o \in Orders :
    \/ \E d \in Placements : Place(o, d) \/ PlaceZero(o, d)
    \/ \E d \in Placements, k \in 1..MaxCaptures : PlaceOffline(o, d, k)
    \/ \E k \in 1..MaxCaptures : MarkPaid(o, k)
    \/ Cancel(o) \/ Lapse(o) \/ expireOne(o) \/ SubscriptionChanges(o)

IntentNext ==
  \E o \in Orders :
    \/ \E p \in Providers, x \in Surcharges : Pay(o, p, x)
    \/ \E n \in DOMAIN intents[o] :
         \/ ChannelAnswers(o, n)
         \/ \E invoice \in BOOLEAN : ChannelFails(o, n, invoice)
         \/ Fill(o, n) \/ HandlerDies(o, n) \/ WindowPasses(o, n)

(* The steps of a transaction that has begun, but for its failure. *)
RecordStep(w) ==
  \/ RecordKnown(w) \/ RecordSettle(w) \/ RecordNotPayable(w)
  \/ RecordQuarantine(w) \/ RecordArchived(w)

RecordNext ==
  \/ \E w \in Workers : RecordStep(w) \/ RecordAbort(w)
  \/ \E pay \in Payments :
       \/ ChannelCapture(pay)
       \/ ApplyLatePayment(pay)
       \/ \E report \in Reports :
            RecordRefused(pay, report) \/ \E w \in Workers : RecordBegin(w, pay, report)

PanelNext ==
  \/ ArchivePlan
  \/ CouponChanges
  \/ \E u \in Users, x \in Adjustments : Adjust(u, x)

Next == OrderNext \/ IntentNext \/ RecordNext \/ PanelNext

Spec == Init /\ [][Next]_vars

(* Fairness.  Time passes and the expiry job runs every minute; a channel  *)
(* reports a payment until the webhook answers with success, which it does *)
(* once the event is committed or refused for good; and a transaction that *)
(* is tried again and again does not fail every time.                      *)
ChannelPayments == {pay \in Payments : ~ IsOffline(pay)}

Handling(w, pay) == w \in Busy /\ worker[w].pay = pay

Fairness ==
  /\ \A o \in Orders : WF_vars(Lapse(o)) /\ WF_vars(expireOne(o))
  /\ \A pay \in ChannelPayments :
       /\ SF_vars(\E w \in Workers : RecordBegin(w, pay, "webhook"))
       /\ WF_vars(RecordRefused(pay, "webhook"))
       /\ SF_vars(\E w \in Workers : Handling(w, pay) /\ (RecordKnown(w) \/ RecordSettle(w)))
       /\ SF_vars(\E w \in Workers : Handling(w, pay) /\ RecordNotPayable(w))
       /\ SF_vars(\E w \in Workers :
                    Handling(w, pay) /\ (RecordQuarantine(w) \/ RecordArchived(w)))

FairSpec == Spec /\ Fairness

-----------------------------------------------------------------------------
WorkerStates ==
  {Idle} \cup [pc : {"read", "quarantine", "archived"}, pay : Payments, report : Reports,
               seen : OrderStates, active : BOOLEAN]

(* Type invariant. *)
OrderPaymentTypeOK ==
  /\ orderStatus \in [Orders -> OrderStates]
  /\ draft \in [Orders -> Drafts]
  /\ resv \in [Orders -> HoldStates]
  /\ lapsed \subseteq Orders
  /\ ineligible \subseteq Orders
  /\ planArchived \in BOOLEAN
  /\ intents \in [Orders -> Seq(Intents)]
  /\ captured \subseteq Payments
  /\ outcome \in [Payments -> Outcomes]
  /\ caseStatus \in [Payments -> OrderStates]
  /\ events \subseteq Payments \X (Reports \cup {"offline"})
  /\ evidence \subseteq Payments
  /\ worker \in [Workers -> WorkerStates]
  /\ accrued \subseteq Orders
  /\ adjusted \in [Users -> Int]

(* What the reservations of an order are in each of its states. *)
ReservationOf(status) ==
  CASE status = "none" -> "none"
    [] status = "pending_payment" -> "held"
    [] status = "fulfilled" -> "captured"
    [] OTHER -> "released"

(* The coupon redemption and the balance hold of an order are in state st, *)
(* for the coupon, the user and the amount the order was placed with.      *)
CouponFollows(o, st) ==
  IF draft[o].coupon = NoCoupon
  THEN redStatus[o] = "none"
  ELSE redStatus[o] = st /\ redCoupon[o] = draft[o].coupon /\ redUser[o] = draft[o].user

HoldFollows(o, st) ==
  IF draft[o].applied = 0
  THEN ledger.hold[o] = "none"
  ELSE /\ ledger.hold[o] = st
       /\ ledger.amount[o] = draft[o].applied
       /\ ledger.owner[o] = draft[o].user

Follows(o) ==
  /\ resv[o] = ReservationOf(orderStatus[o])
  /\ CouponFollows(o, ReservationOf(orderStatus[o]))
  /\ HoldFollows(o, ReservationOf(orderStatus[o]))

(* The reservation row, the coupon redemption and the balance hold of an   *)
(* order are always in the state that the order's own status calls for,    *)
(* for the coupon, the user and the amount the order was placed with: no   *)
(* path of captureReservation, settleZeroPay, releaseOrderWith or          *)
(* CloseArchivedOrder does only a part.                                    *)
ReservationsFollowOrder == \A o \in Orders : Follows(o)

PaymentsOf(o, kinds) == {pay \in Payments : OrderOf(pay) = o /\ outcome[pay] \in kinds}

(* An order with something to pay is fulfilled by exactly one payment, and *)
(* no payment is booked as settling an order that is not fulfilled: the    *)
(* webhook, the queries, the patrol and MarkPaid can race without paying   *)
(* an order twice (SettlePayment under the order lock).                    *)
PaidExactlyOnce ==
  \A o \in Orders :
    Cardinality(PaymentsOf(o, {"settled"})) =
      IF orderStatus[o] = "fulfilled" /\ Payable(o) > 0 THEN 1 ELSE 0

(* Money is recorded only if the channel took it, an event row is never    *)
(* committed without its payment, and a payment has a late case exactly if *)
(* it did not settle its order.                                            *)
RecordsMatchMoney ==
  /\ Recorded \subseteq captured
  /\ \A e \in events : e[1] \in Recorded
  /\ \A pay \in Payments : caseStatus[pay] # "none" <=> outcome[pay] \in {"suspense", "applied"}

(* At most one intent of an order is open, and none once it is closed, so  *)
(* that a payer is not sent to pay twice.                                  *)
OneOpenIntent ==
  \A o \in Orders :
    /\ Cardinality(Active(o)) <= 1
    /\ Active(o) # {} => orderStatus[o] = "pending_payment"

SumOver(S, f(_)) == MapThenSumSet(f, S)

(* The platform accounts can be recomputed from the payments and orders:   *)
(* the cash of a channel is what its recorded payments brought, the        *)
(* suspense account is the open late cases, the surcharges are income      *)
(* whether or not the order was settled, the revenue is the fulfilled      *)
(* orders less refunds and commissions, and what a referrer has pending is *)
(* the commissions on the orders of those they invited.                    *)
BooksReconcile ==
  /\ TrialBalance
  /\ \A p \in Providers :
       ledger.bal[Cash(p)] =
         SumOver({pay \in Recorded : ProviderOf(pay) = p},
                 LAMBDA pay : Payable(OrderOf(pay)) + SurchargeOf(pay))
  /\ ledger.bal[LateSuspense] =
       SumOver({pay \in Recorded : outcome[pay] = "suspense"}, LAMBDA pay : Payable(OrderOf(pay)))
  /\ ledger.bal[SurchargeFee] = SumOver(Recorded, SurchargeOf)
  /\ ledger.bal[Revenue] =
       SumOver({o \in Orders : orderStatus[o] = "fulfilled" /\ draft[o].kind # "topup"},
               LAMBDA o : draft[o].total - draft[o].refund)
       - SumOver(accrued, LAMBDA o : Commission(draft[o]))
  /\ \A r \in Users :
       ledger.bal[CommissionPending(r)] =
         SumOver({o \in accrued : Referrer[draft[o].user] = r}, LAMBDA o : Commission(draft[o]))

(* A user's balance and holds together are exactly what was topped up,     *)
(* credited, refunded and adjusted, less what fulfilled orders used: no    *)
(* interleaving of holds, releases, captures and late payments creates or  *)
(* destroys a user's money.                                                *)
UserMoneyConserved ==
  \A u \in Users :
    LET mine == {o \in Orders : draft[o].user = u}
        done == {o \in mine : orderStatus[o] = "fulfilled"}
    IN ledger.bal[Balance(u)] + ledger.bal[BalanceHold(u)] =
         adjusted[u]
         + SumOver(done, LAMBDA o : IF draft[o].kind = "topup" THEN draft[o].total
                                    ELSE draft[o].refund - draft[o].applied)
         + SumOver({pay \in Payments : outcome[pay] = "applied" /\ OrderOf(pay) \in mine},
                   LAMBDA pay : Payable(OrderOf(pay)))

(* Commission is accrued for fulfilled orders only, and under the          *)
(* first-order scope once per referee, however many of their orders are    *)
(* settled and in whatever order (OnOrderPaid).                            *)
CommissionAccruedOnce ==
  /\ \A o \in accrued : orderStatus[o] = "fulfilled"
  /\ FirstOrderOnly => \A o1, o2 \in accrued : draft[o1].user = draft[o2].user => o1 = o2

(* What an order was placed with never changes, and neither does what an   *)
(* intent was made for; an intent that is closed stays closed, whatever    *)
(* the channel call that is still under way for it answers (the CAS of     *)
(* FillPlaceholderIntent, SetIntentStatus and CancelPlaceholderIntent).    *)
IntentsAreFinal ==
  [][\A o \in Orders :
       /\ orderStatus[o] # "none" => draft'[o] = draft[o]
       /\ \A n \in DOMAIN intents[o] :
            LET i == intents[o][n]
                j == intents'[o][n]
            IN /\ j.provider = i.provider /\ j.surcharge = i.surcharge
               /\ i.ref => j.ref
               /\ i.status # "requires_action" => j.status = i.status]_vars

(* What holds of the rows of a payment in every state.                      *)
PaymentInv ==
  /\ OrderPaymentTypeOK
  /\ RecordsMatchMoney
  /\ OneOpenIntent

(* All money of the platform and of its users is accounted for.             *)
MoneyInv == BooksReconcile /\ UserMoneyConserved

(* What is closed stays closed: intents, coupon redemptions and holds.      *)
RowsAreFinal == IntentsAreFinal /\ RedemptionIsFinal /\ HoldIsFinal

(* Every pending order is closed in the end, with nothing left reserved:   *)
(* no state of the intents, of the plan or of a payment that is being      *)
(* recorded keeps the expiry job from releasing it.                        *)
PendingOrdersClose ==
  \A o \in Orders : orderStatus[o] = "pending_payment" ~> orderStatus[o] \in Closed

(* Money that a channel took is recorded in the end, for the order or as a *)
(* late payment, or it is refused with evidence of the other reference;    *)
(* whatever happens to the order, the plan and the subscription meanwhile. *)
CapturedMoneyIsRecorded ==
  \A pay \in ChannelPayments : pay \in captured ~> pay \in Recorded \cup evidence

(* types.go (NotPayableError.OrderStatus, "the state of the order at this  *)
(* moment, recorded in the case"): a late case takes the status the order  *)
(* has when the case is opened.                                            *)
CaseTakesCurrentStatus ==
  [][\A pay \in Payments :
       caseStatus'[pay] # caseStatus[pay] => caseStatus'[pay] = orderStatus[OrderOf(pay)]]_vars

-----------------------------------------------------------------------------
(* The promise of PaymentOutcome, with intents, workers and the ledger     *)
(* forgotten.                                                              *)
AbstractStatus ==
  [o \in Orders |->
     CASE orderStatus[o] = "none" -> "none"
       [] orderStatus[o] = "pending_payment" -> "open"
       [] orderStatus[o] = "fulfilled" -> "fulfilled"
       [] OTHER -> "closed"]

AbstractMoney ==
  [pay \in Payments |->
     CASE outcome[pay] = "none" -> "none"
       [] outcome[pay] = "settled" -> "paid"
       [] outcome[pay] = "suspense" -> "kept"
       [] OTHER -> "credited"]

Promise == INSTANCE PaymentOutcome WITH status <- AbstractStatus, money <- AbstractMoney

(* Every step of the order and payment code is a step that PaymentOutcome  *)
(* allows, or changes neither an order's fate nor a payment's.             *)
KeepsPromise == Promise!Spec
=============================================================================
