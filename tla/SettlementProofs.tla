------------------------- MODULE SettlementProofs -------------------------
(***************************************************************************)
(* Proofs about what stands behind a settlement, for any orders, users,    *)
(* providers, workers and amounts: a placed order keeps a sound draft,     *)
(* money is captured and recorded for placed orders and their intents      *)
(* only, and each posting of a payment keeps the ledger sound and moves no *)
(* hold but that of its order.                                             *)
(***************************************************************************)
EXTENDS OrderPaymentProofs

(* An order that was placed has a draft of the kind the code accepts. *)
DraftsAreSound ==
  \A o \in Orders :
    IF orderStatus[o] = "none"
    THEN draft[o] = NoDraft
    ELSE /\ draft[o] \in PlacedDrafts
         /\ draft[o].applied <= draft[o].total
         /\ draft[o].kind = "topup" => draft[o].applied = 0

(* Money is for an order that was placed, and through an intent it has. *)
Known(pay) ==
  /\ orderStatus[OrderOf(pay)] # "none"
  /\ IsOffline(pay) \/ NumberOf(pay) \in DOMAIN intents[OrderOf(pay)]

PaymentsAreKnown ==
  /\ \A o \in Orders : orderStatus[o] = "none" => intents[o] = <<>>
  /\ \A pay \in captured : Known(pay)
  /\ \A w \in Workers : worker[w].pc # "idle" => worker[w].pay \in captured
  /\ Recorded \subseteq captured

(* The two ledgers have the same rows of balance_holds. *)
SameHolds(L, M) == M.hold = L.hold /\ M.amount = L.amount /\ M.owner = L.owner

-----------------------------------------------------------------------------
(* The parts of a placed draft, and what is left to pay. *)
LEMMA DraftParts ==
  ASSUME NEW d \in PlacedDrafts, d.applied <= d.total
  PROVE  /\ d.user \in Users
         /\ d.total \in Nat /\ d.applied \in Nat /\ d.refund \in Nat
         /\ d.total - d.applied \in Nat
BY DEF PlacedDrafts

(* What is known of a captured payment: who took it, and how much. *)
LEMMA KnownParts ==
  ASSUME OrderPaymentTypeOK, DraftsAreSound, NEW pay \in Payments, Known(pay)
  PROVE  /\ OrderOf(pay) \in Orders
         /\ draft[OrderOf(pay)].user \in Users
         /\ Payable(OrderOf(pay)) \in Nat
         /\ ProviderOf(pay) \in Providers
         /\ SurchargeOf(pay) \in Nat
<1>1. OrderOf(pay) \in Orders
  BY PaymentTypes, Zenon
<1>2. draft[OrderOf(pay)].user \in Users /\ Payable(OrderOf(pay)) \in Nat
  BY <1>1, DraftParts, Zenon DEF Known, DraftsAreSound, Payable
<1>3. CASE IsOffline(pay)
  BY <1>1, <1>2, <1>3, PanelConstants, Zenon DEF PanelConstants, ProviderOf, SurchargeOf
<1>4. CASE ~ IsOffline(pay)
  <2>1. NumberOf(pay) \in DOMAIN intents[OrderOf(pay)]
        /\ intents[OrderOf(pay)] \in Seq(Intents)
    BY <1>1, <1>4, Zenon DEF Known, OrderPaymentTypeOK
  <2>2. IntentOf(pay) \in Intents
    BY <2>1, LenProperties, ElementOfSeq, Zenon DEF IntentOf
  <2>3. IntentOf(pay).provider \in Providers /\ IntentOf(pay).surcharge \in Nat
    BY <2>2, Zenon DEF Intents
  <2> QED BY <1>1, <1>2, <1>4, <2>3, Zenon DEF ProviderOf, SurchargeOf
<1> QED BY <1>3, <1>4, Zenon

-----------------------------------------------------------------------------
(* A posting that takes nothing from a user account keeps a ledger sound,  *)
(* whatever the balances are, and leaves the holds alone.                  *)
LEMMA CreditSound ==
  ASSUME NEW L, Sound(L), NEW kind \in Kinds \ {"balance_hold", "balance_release"},
         NEW src \in Sources,
         NEW d \in [Accounts -> Int], NEW c \in [Accounts -> Int],
         \A a \in UserAccounts : ~ DebitNormal(a) /\ d[a] = 0 /\ c[a] >= 0
  PROVE  /\ Sound(post(L, kind, src, d, c))
         /\ SameHolds(L, post(L, kind, src, d, c))
<1> DEFINE M == post(L, kind, src, d, c)
<1>1. L \in Ledgers /\ NonNegative(L)
  BY Zenon DEF Sound
<1>2. nextBalances(L, d, c) \in [Accounts -> Int]
  BY <1>1 DEF nextBalances, signedDelta, Ledgers
<1>3. /\ M.bal = nextBalances(L, d, c)
      /\ M.posted = L.posted \cup {<<kind, src>>}
      /\ SameHolds(L, M)
  BY <1>1, Zenon DEF post, Ledgers, SameHolds
<1>4. M \in Ledgers
  <2>1. L.posted \cup {<<kind, src>>} \in SUBSET (Kinds \X Sources)
    BY <1>1 DEF Ledgers
  <2> QED BY <1>1, <1>2, <2>1, Zenon DEF post, Ledgers
<1>5. NonNegative(M)
  <2> SUFFICES ASSUME NEW a \in UserAccounts PROVE M.bal[a] >= 0
    BY Zenon DEF NonNegative
  <2>1. a \in Accounts
    BY Zenon DEF Accounts
  <2>2. nextBalances(L, d, c)[a] = L.bal[a] + (c[a] - d[a])
    BY <2>1, Zenon DEF nextBalances, signedDelta
  <2>3. L.bal[a] \in Int /\ L.bal[a] >= 0 /\ c[a] \in Int /\ d[a] = 0 /\ c[a] >= 0
    BY <1>1, <2>1, Zenon DEF Ledgers, NonNegative
  <2> QED BY <1>3, <2>2, <2>3
<1> HIDE DEF M
<1>6. History(M) /\ Owned(M)
  BY <1>3, Zenon DEF Sound, History, Owned, SameHolds
<1> QED BY <1>3, <1>4, <1>5, <1>6, Zenon DEF Sound, M

(* Which accounts belong to users, and that those are credit accounts. *)
LEMMA UserAccountFacts ==
  ASSUME NEW a \in UserAccounts
  PROVE  /\ a \in Accounts
         /\ ~ DebitNormal(a)
         /\ \A p : a # Cash(p)
         /\ a # Revenue /\ a # SurchargeFee /\ a # LateSuspense
BY DEF UserAccounts, UserTypes, Accounts, DebitNormal, DebitAccounts, Cash, Revenue,
       SurchargeFee, LateSuspense, ManualAdjust

(* quarantine: what is put into suspense leaves users and holds alone. *)
LEMMA SuspendedSound ==
  ASSUME OrderPaymentTypeOK, DraftsAreSound, NEW pay \in Payments, Known(pay),
         NEW L, Sound(L)
  PROVE  Sound(Suspended(L, pay)) /\ SameHolds(L, Suspended(L, pay))
<1> DEFINE d == Leg(Cash(ProviderOf(pay)), Payable(OrderOf(pay)) + SurchargeOf(pay))
           c1 == Leg(LateSuspense, Payable(OrderOf(pay)))
           c2 == Leg(SurchargeFee, SurchargeOf(pay))
           c == And(c1, c2)
<1>1. /\ d \in [Accounts -> Int] /\ c1 \in [Accounts -> Int] /\ c2 \in [Accounts -> Int]
  <2>1. /\ Cash(ProviderOf(pay)) \in Accounts
        /\ LateSuspense \in Accounts /\ SurchargeFee \in Accounts
        /\ Payable(OrderOf(pay)) \in Int /\ SurchargeOf(pay) \in Int
        /\ Payable(OrderOf(pay)) + SurchargeOf(pay) \in Int
    BY KnownParts, AccountTypes
  <2> QED BY <2>1, LegType, Zenon
<1>2. c \in [Accounts -> Int]
  BY <1>1, AndType, Zenon
<1>3. \A a \in UserAccounts : ~ DebitNormal(a) /\ d[a] = 0 /\ c[a] >= 0
  BY UserAccountFacts DEF Leg, And
<1>4. /\ "late_payment_suspense" \in Kinds \ {"balance_hold", "balance_release"}
      /\ pay \in Sources
  BY Zenon DEF Kinds, OnePerSource, Sources
<1>5. Suspended(L, pay) = post(L, "late_payment_suspense", pay, d, c)
  BY Zenon DEF Suspended
<1> HIDE DEF d, c1, c2, c
<1> QED BY <1>1, <1>2, <1>3, <1>4, <1>5, CreditSound, Zenon

(* applyLateCase: what is credited to the user leaves the holds alone. *)
LEMMA CreditedSound ==
  ASSUME OrderPaymentTypeOK, DraftsAreSound, NEW pay \in Payments, Known(pay),
         NEW L, Sound(L)
  PROVE  Sound(Credited(L, pay)) /\ SameHolds(L, Credited(L, pay))
<1> DEFINE x == Payable(OrderOf(pay))
           d == Leg(LateSuspense, x)
           c == Leg(Balance(draft[OrderOf(pay)].user), x)
<1>0. x \in Nat /\ Balance(draft[OrderOf(pay)].user) \in Accounts
  BY KnownParts, AccountTypes, Zenon
<1>1. d \in [Accounts -> Int] /\ c \in [Accounts -> Int]
  <2>1. x \in Int /\ LateSuspense \in Accounts
    BY <1>0, AccountTypes
  <2> QED BY <1>0, <2>1, LegType, Zenon
<1>2. \A a \in UserAccounts : ~ DebitNormal(a) /\ d[a] = 0 /\ c[a] >= 0
  BY <1>0, UserAccountFacts DEF Leg
<1>3. /\ "late_payment_applied" \in Kinds \ {"balance_hold", "balance_release"}
      /\ pay \in Sources
  BY Zenon DEF Kinds, Sources
<1>4. Credited(L, pay) = post(L, "late_payment_applied", pay, d, c)
  BY Zenon DEF Credited
<1> HIDE DEF d, c, x
<1> QED BY <1>1, <1>2, <1>3, <1>4, CreditSound, SMTT(20)

(* OnOrderPaid: the commission leaves the holds alone. *)
LEMMA AccrueSound ==
  ASSUME NEW o \in Orders, NEW d \in PlacedDrafts, NEW L, Sound(L)
  PROVE  Sound(Accrue(L, o, d)) /\ SameHolds(L, Accrue(L, o, d))
<1>1. CASE ~ Accrues(o, d)
  BY <1>1, Zenon DEF Accrue, SameHolds
<1>2. CASE Accrues(o, d)
  <2> DEFINE x == Commission(d)
             b == Leg(Revenue, x)
             c == Leg(CommissionPending(Referrer[d.user]), x)
  <2>1. x \in Int /\ x > 0 /\ Referrer[d.user] \in Users
    <3>1. d.total \in Nat /\ d.user \in Users
      BY Zenon DEF PlacedDrafts
    <3>2. RatePercent \in Nat /\ Referrer \in [Users -> Users \cup {NoUser}]
      BY OrderPaymentConstants DEF OrderPaymentConstants
    <3>3. d.total * RatePercent \in Int
      BY <3>1, <3>2
    <3>4. (d.total * RatePercent) \div 100 \in Int
      BY <3>3
    <3> QED BY <1>2, <3>1, <3>2, <3>4, Zenon DEF Accrues, Commission
  <2>2. b \in [Accounts -> Int] /\ c \in [Accounts -> Int]
    <3>1. Revenue \in Accounts /\ CommissionPending(Referrer[d.user]) \in Accounts
      BY <2>1, AccountTypes, Zenon
    <3> QED BY <2>1, <3>1, LegType, Zenon
  <2>3. \A a \in UserAccounts : ~ DebitNormal(a) /\ b[a] = 0 /\ c[a] >= 0
    BY <2>1, UserAccountFacts DEF Leg
  <2>4. /\ "commission_accrued" \in Kinds \ {"balance_hold", "balance_release"}
        /\ o \in Sources
    BY Zenon DEF Kinds, Sources
  <2>5. Accrue(L, o, d) = post(L, "commission_accrued", o, b, c)
    BY <1>2, Zenon DEF Accrue
  <2> HIDE DEF b, c, x
  <2> QED BY <2>2, <2>3, <2>4, <2>5, CreditSound, SMTT(20)
<1> QED BY <1>1, <1>2, Zenon

(* fulfilPlanChange: so does the refund of a downgrade. *)
LEMMA RefundedSound ==
  ASSUME NEW o \in Orders, NEW d \in PlacedDrafts, NEW L, Sound(L)
  PROVE  Sound(Refunded(L, o, d)) /\ SameHolds(L, Refunded(L, o, d))
<1>0. d.refund \in Nat /\ d.user \in Users
  BY Zenon DEF PlacedDrafts
<1>1. CASE ~ (d.refund > 0)
  BY <1>1, Zenon DEF Refunded, SameHolds
<1>2. CASE d.refund > 0
  <2> DEFINE b == Leg(Revenue, d.refund)
             c == Leg(Balance(d.user), d.refund)
  <2>1. b \in [Accounts -> Int] /\ c \in [Accounts -> Int]
    <3>1. Revenue \in Accounts /\ Balance(d.user) \in Accounts /\ d.refund \in Int
      BY <1>0, AccountTypes
    <3> QED BY <3>1, LegType, Zenon
  <2>2. \A a \in UserAccounts : ~ DebitNormal(a) /\ b[a] = 0 /\ c[a] >= 0
    BY <1>0, UserAccountFacts DEF Leg
  <2>3. /\ "plan_change_refund" \in Kinds \ {"balance_hold", "balance_release"}
        /\ o \in Sources
    BY Zenon DEF Kinds, OnePerSource, Sources
  <2>4. Refunded(L, o, d) = post(L, "plan_change_refund", o, b, c)
    BY <1>2, Zenon DEF Refunded
  <2> HIDE DEF b, c
  <2> QED BY <2>1, <2>2, <2>3, <2>4, CreditSound, Zenon
<1> QED BY <1>1, <1>2, Zenon

(* Ledger M after the settlement of order o, against L before it. *)
SettledFrom(L, M, o, d) ==
  /\ Sound(M)
  /\ d.applied = 0 => M.hold = L.hold
  /\ d.applied # 0 => M.hold = [L.hold EXCEPT ![o] = "captured"]
  /\ M.amount = L.amount
  /\ M.owner = L.owner

(* The settlement of an order captures its hold, if it has one, and no     *)
(* other (captureReservation, postSettlement, OnOrderPaid).                *)
LEMMA SettledSound ==
  ASSUME NEW o \in Orders, NEW d \in PlacedDrafts, d.applied <= d.total,
         d.kind = "topup" => d.applied = 0,
         NEW p \in Providers, NEW x \in Nat, NEW L, Sound(L), CanSettle(L, o, d, p, x)
  PROVE  SettledFrom(L, Settled(L, o, d, p, x), o, d)
<1>0. /\ d.user \in Users /\ d.total \in Nat /\ d.applied \in Nat
      /\ d.total - d.applied \in Nat
  BY DraftParts, Zenon
<1>1. PICK N : N = postSettlement(L, o, d, p, x)
  BY Zenon
<1>2. SettledFrom(L, N, o, d)
  <2>1. CASE d.kind = "topup"
    BY <1>0, <1>1, <2>1, TopupSound, SMTT(20) DEF CanSettle, postSettlement, SettledFrom
  <2>2. CASE d.kind # "topup"
    <3>1. CanOrderPaid(L, o, d.user, d.total, d.total - d.applied, x, p)
          /\ N = PostOrderPaid(L, o, d.user, d.total, d.total - d.applied, x, p)
      BY <1>1, <2>2, SMTT(20) DEF CanSettle, postSettlement
    <3>2. /\ Sound(N)
          /\ N.hold = IF d.total > d.total - d.applied
                      THEN [L.hold EXCEPT ![o] = "captured"] ELSE L.hold
          /\ N.amount = L.amount
          /\ N.owner = L.owner
      BY <1>0, <3>1, OrderPaidSound
    <3>3. d.total > d.total - d.applied <=> d.applied # 0
      BY <1>0
    <3> QED BY <3>2, <3>3, Zenon DEF SettledFrom
  <2> QED BY <2>1, <2>2, SMTT(20)
<1>3. Settled(L, o, d, p, x) = Accrue(N, o, d)
  BY <1>1, Zenon DEF Settled
<1>4. Sound(Accrue(N, o, d)) /\ SameHolds(N, Accrue(N, o, d))
  BY <1>2, AccrueSound, Zenon DEF SettledFrom
<1> QED BY <1>2, <1>3, <1>4, SMTT(20) DEF SameHolds, SettledFrom

-----------------------------------------------------------------------------
(* How a step moves an order: it is placed with a draft of Placements, or  *)
(* it was placed before and keeps its draft, or nothing happens to it.     *)
Placed(o, d) ==
  /\ orderStatus[o] = "none"
  /\ d \in PlacedDrafts
  /\ d.applied <= d.total
  /\ d.kind = "topup" => d.applied = 0
  /\ \E st \in OrderStates \ {"none"} : orderStatus' = [orderStatus EXCEPT ![o] = st]
  /\ draft' = [draft EXCEPT ![o] = d]

Moved(o) ==
  /\ orderStatus[o] # "none"
  /\ \E st \in OrderStates \ {"none"} : orderStatus' = [orderStatus EXCEPT ![o] = st]
  /\ draft' = draft

OrdersMove ==
  \/ \E o \in Orders, d \in Placements : Placed(o, d)
  \/ \E o \in Orders : Moved(o)
  \/ UNCHANGED <<orderStatus, draft>>

(* Every step moves at most one order, and only in these ways. *)
LEMMA StepMovesOrders ==
  ASSUME OrderPaymentTypeOK, [Next]_vars
  PROVE  OrdersMove
<1> USE DEF OrdersMove, orderVars
<1>1. ASSUME NEW o \in Orders, NEW to \in Closed, ReleaseReservations(o, to)
      PROVE  Moved(o)
  BY <1>1, Zenon DEF ReleaseReservations, Moved, OrderStates, Closed
<1>2. ASSUME NEW o \in Orders, NEW p, NEW x, SettleOrderWith(o, p, x)
      PROVE  Moved(o)
  BY <1>2, Zenon DEF SettleOrderWith, Accepts, Moved, OrderStates, Closed
<1>3. CASE OrderNext
  <2>1. ASSUME NEW o \in Orders, NEW d \in Placements,
               Place(o, d) \/ PlaceZero(o, d) \/ \E k \in 1..MaxCaptures : PlaceOffline(o, d, k)
        PROVE  Placed(o, d)
    <3>1. d \in PlacedDrafts /\ d.total \in Nat /\ d.applied \in Nat
      BY PlacementTypes, Zenon
    <3>2. "pending_payment" \in OrderStates \ {"none"} /\ "fulfilled" \in OrderStates \ {"none"}
      BY Zenon DEF OrderStates, Closed
    <3>3. CASE Place(o, d)
      <4>1. /\ orderStatus[o] = "none"
            /\ d.kind = "topup" => d.applied = 0
            /\ d.applied < d.total
            /\ orderStatus' = [orderStatus EXCEPT ![o] = "pending_payment"]
            /\ draft' = [draft EXCEPT ![o] = d]
        BY <3>3, Zenon DEF Place, CanPlace
      <4>2. d.applied <= d.total
        BY <3>1, <4>1
      <4> QED BY <3>1, <3>2, <4>1, <4>2, Zenon DEF Placed
    <3>4. CASE PlaceZero(o, d)
      <4>1. /\ orderStatus[o] = "none"
            /\ d.kind = "topup" => d.applied = 0
            /\ d.applied = d.total
            /\ orderStatus' = [orderStatus EXCEPT ![o] = "fulfilled"]
            /\ draft' = [draft EXCEPT ![o] = d]
        BY <3>4, Zenon DEF PlaceZero, CanPlace
      <4>2. d.applied <= d.total
        BY <3>1, <4>1
      <4> QED BY <3>1, <3>2, <4>1, <4>2, Zenon DEF Placed
    <3>5. CASE \E k \in 1..MaxCaptures : PlaceOffline(o, d, k)
      <4>1. /\ orderStatus[o] = "none"
            /\ d.kind = "topup" => d.applied = 0
            /\ d.applied = 0
            /\ orderStatus' = [orderStatus EXCEPT ![o] = "fulfilled"]
            /\ draft' = [draft EXCEPT ![o] = d]
        BY <3>5, Zenon DEF PlaceOffline, CanPlace
      <4>2. d.applied <= d.total
        BY <3>1, <4>1
      <4> QED BY <3>1, <3>2, <4>1, <4>2, Zenon DEF Placed
    <3> QED BY <2>1, <3>3, <3>4, <3>5, SMTT(20)
  <2>2. ASSUME NEW o \in Orders, NEW k, MarkPaid(o, k) PROVE Moved(o)
    BY <1>2, <2>2, Zenon DEF MarkPaid
  <2>3. ASSUME NEW o \in Orders, Cancel(o) \/ expireOne(o) PROVE Moved(o)
    BY <1>1, <2>3, Zenon DEF Cancel, expireOne, releaseOrder, Closed
  <2>4. ASSUME NEW o \in Orders, Lapse(o) \/ SubscriptionChanges(o)
        PROVE UNCHANGED <<orderStatus, draft>>
    BY <2>4, Zenon DEF Lapse, SubscriptionChanges
  <2> QED BY <1>3, <2>1, <2>2, <2>3, <2>4, SMTT(20) DEF OrderNext
<1>4. CASE IntentNext
  BY <1>4, IntentsOnly, Zenon DEF IntentStep
<1>5. CASE RecordNext
  <2>1. ASSUME NEW w \in Workers, RecordSettle(w) \/ RecordArchived(w) PROVE OrdersMove
    <3>1. OrderOf(worker[w].pay) \in Orders
      <4>1. worker[w].pc # "idle"
        BY <2>1, Zenon DEF RecordSettle, RecordArchived, FirstRecord
      <4> QED BY <4>1, BusyTypes, SMTT(20)
    <3>2. CASE RecordSettle(w)
      BY <1>2, <3>1, <3>2, SMTT(20) DEF RecordSettle
    <3>3. CASE RecordArchived(w)
      BY <1>1, <3>1, <3>3, Zenon DEF RecordArchived, Closed
    <3> QED BY <2>1, <3>2, <3>3, SMTT(20)
  <2>2. ASSUME NEW w, RecordKnown(w) \/ RecordNotPayable(w) \/ RecordQuarantine(w)
                      \/ RecordAbort(w)
        PROVE UNCHANGED <<orderStatus, draft>>
    BY <2>2, SMTT(20) DEF RecordKnown, RecordNotPayable, RecordQuarantine, RecordAbort
  <2>3. ASSUME NEW pay, NEW report, NEW w,
               ChannelCapture(pay) \/ ApplyLatePayment(pay) \/ RecordRefused(pay, report)
               \/ RecordBegin(w, pay, report)
        PROVE UNCHANGED <<orderStatus, draft>>
    BY <2>3, Zenon DEF ChannelCapture, ApplyLatePayment, RecordRefused, RecordBegin
  <2> QED BY <1>5, <2>1, <2>2, <2>3, Zenon DEF RecordNext, RecordStep
<1>6. CASE PanelNext
  BY <1>6, Zenon DEF PanelNext, ArchivePlan, CouponChanges, Adjust
<1>7. CASE UNCHANGED vars
  BY <1>7, SMTT(20) DEF vars
<1> QED BY <1>3, <1>4, <1>5, <1>6, <1>7, Zenon DEF Next

(* So the drafts stay sound, and no order is ever unplaced. *)
LEMMA StepDrafts ==
  ASSUME OrderPaymentTypeOK, DraftsAreSound, [Next]_vars
  PROVE  /\ DraftsAreSound'
         /\ \A o \in Orders : orderStatus[o] # "none" => orderStatus'[o] # "none"
<1> USE DEF OrderPaymentTypeOK
<1>1. ASSUME NEW o \in Orders, NEW d \in Placements, Placed(o, d)
      PROVE  /\ DraftsAreSound'
             /\ \A q \in Orders : orderStatus[q] # "none" => orderStatus'[q] # "none"
  BY <1>1, Zenon DEF Placed, DraftsAreSound
<1>2. ASSUME NEW o \in Orders, Moved(o)
      PROVE  /\ DraftsAreSound'
             /\ \A q \in Orders : orderStatus[q] # "none" => orderStatus'[q] # "none"
  BY <1>2, Zenon DEF Moved, DraftsAreSound
<1>3. CASE UNCHANGED <<orderStatus, draft>>
  BY <1>3, Zenon DEF DraftsAreSound
<1> QED BY <1>1, <1>2, <1>3, StepMovesOrders, SMTT(20) DEF OrdersMove

-----------------------------------------------------------------------------
(* A step leaves the intents alone, or writes those of one placed order,   *)
(* of which it drops none.                                                 *)
IntentsOfOne(o, is) ==
  /\ orderStatus[o] # "none"
  /\ DOMAIN intents[o] \subseteq DOMAIN is
  /\ intents' = [intents EXCEPT ![o] = is]

IntentsMove == UNCHANGED intents \/ \E o \in Orders : \E is : IntentsOfOne(o, is)

(* The lists of intents that the code writes drop none of them. *)
LEMMA IntentDomains ==
  ASSUME NEW o, NEW n, NEW active, NEW to
  PROVE  /\ DOMAIN CloseOrderIntents(o, to) = DOMAIN intents[o]
         /\ DOMAIN MarkIntentSucceeded(o, n, active) = DOMAIN intents[o]
         /\ DOMAIN IntentsPaid(o, n, active) = DOMAIN intents[o]
BY Zenon DEF CloseOrderIntents, CloseIntents, MarkIntentSucceeded, IntentsPaid

(* Every step changes intents only in these ways. *)
LEMMA StepMovesIntents ==
  ASSUME OrderPaymentTypeOK, PaymentsAreKnown, [Next]_vars
  PROVE  IntentsMove
<1> USE DEF recordVars
<1>1. CASE OrderNext
  <2> PICK o \in Orders :
        \/ \E d \in Placements : Place(o, d) \/ PlaceZero(o, d)
        \/ \E d \in Placements, k \in 1..MaxCaptures : PlaceOffline(o, d, k)
        \/ \E k \in 1..MaxCaptures : MarkPaid(o, k)
        \/ Cancel(o) \/ Lapse(o) \/ expireOne(o) \/ SubscriptionChanges(o)
    BY <1>1, SMTT(20) DEF OrderNext
  <2>1. CASE \E d \in Placements : Place(o, d) \/ PlaceZero(o, d)
    BY <2>1, Zenon DEF Place, PlaceZero, IntentsMove
  <2>2. CASE \E d \in Placements, k \in 1..MaxCaptures : PlaceOffline(o, d, k)
    BY <2>2, Zenon DEF PlaceOffline, IntentsMove
  <2>3. CASE \E k \in 1..MaxCaptures : MarkPaid(o, k)
    <3>1. IntentsOfOne(o, CloseOrderIntents(o, "cancelled"))
      BY <2>3, IntentDomains, Zenon DEF MarkPaid, SettleOrderWith, Accepts, IntentsOfOne
    <3> QED BY <3>1, SMTT(20) DEF IntentsMove
  <2>4. ASSUME NEW to, NEW intentTo, releaseOrder(o, to, intentTo) PROVE IntentsMove
    <3>1. IntentsOfOne(o, CloseOrderIntents(o, intentTo))
      BY <2>4, IntentDomains, Zenon DEF releaseOrder, ReleaseReservations, IntentsOfOne
    <3> QED BY <3>1, SMTT(20) DEF IntentsMove
  <2>5. CASE Cancel(o) \/ expireOne(o)
    BY <2>4, <2>5, SMTT(20) DEF Cancel, expireOne
  <2>6. CASE Lapse(o) \/ SubscriptionChanges(o)
    BY <2>6, SMTT(20) DEF Lapse, SubscriptionChanges, IntentsMove
  <2> QED BY <2>1, <2>2, <2>3, <2>5, <2>6, SMTT(20)
<1>2. CASE IntentNext
  <2> PICK o \in Orders :
        \/ \E p \in Providers, x \in Surcharges : Pay(o, p, x)
        \/ \E n \in DOMAIN intents[o] :
             \/ ChannelAnswers(o, n)
             \/ \E invoice \in BOOLEAN : ChannelFails(o, n, invoice)
             \/ Fill(o, n) \/ HandlerDies(o, n) \/ WindowPasses(o, n)
    BY <1>2, Zenon DEF IntentNext
  <2>0. intents \in [Orders -> Seq(Intents)] /\ intents[o] \in Seq(Intents)
    BY SMTT(20) DEF OrderPaymentTypeOK
  <2>1. CASE \E p \in Providers, x \in Surcharges : Pay(o, p, x)
    <3>1. PICK i \in Intents :
            intents' = [intents EXCEPT ![o] = Append(CloseOrderIntents(o, "cancelled"), i)]
      BY <2>1, LedgerConstants, ZenonT(20) DEF Pay, Intents, IntentStates, LedgerConstants
    <3>2. CloseOrderIntents(o, "cancelled") \in Seq(Intents)
      BY <2>0, CloseIntentsType, Zenon DEF CloseOrderIntents, IntentStates
    <3>3. DOMAIN intents[o] \subseteq DOMAIN Append(CloseOrderIntents(o, "cancelled"), i)
      <4>1. DOMAIN CloseOrderIntents(o, "cancelled") = DOMAIN intents[o]
        BY IntentDomains, ZenonT(20)
      <4>2. DOMAIN CloseOrderIntents(o, "cancelled")
              \subseteq DOMAIN Append(CloseOrderIntents(o, "cancelled"), i)
        BY <3>2, AppendProperties, LenProperties, SMTT(20)
      <4> QED BY <4>1, <4>2, SMTT(20)
    <3>4. orderStatus[o] # "none"
      BY <2>1, Zenon DEF Pay
    <3> QED BY <3>1, <3>3, <3>4, Zenon DEF IntentsOfOne, IntentsMove
  <2>2. ASSUME NEW n \in DOMAIN intents[o],
               \/ ChannelAnswers(o, n)
               \/ \E invoice \in BOOLEAN : ChannelFails(o, n, invoice)
               \/ Fill(o, n) \/ HandlerDies(o, n) \/ WindowPasses(o, n)
        PROVE  IntentsMove
    <3>1. \E i : SetIntent(o, n, i)
      BY <2>2, Zenon DEF ChannelAnswers, ChannelFails, Fill, HandlerDies, WindowPasses
    <3>2. PICK i : SetIntent(o, n, i)
      BY <3>1, Zenon
    <3>3. intents' = [intents EXCEPT ![o] = [intents[o] EXCEPT ![n] = i]]
      BY <2>0, <3>2, SMTT(20) DEF SetIntent
    <3>4. DOMAIN [intents[o] EXCEPT ![n] = i] = DOMAIN intents[o]
      BY SMTT(20)
    <3>5. orderStatus[o] # "none"
      <4>1. DOMAIN <<>> = {}
        OBVIOUS
      <4> QED BY <4>1, Zenon DEF PaymentsAreKnown
    <3> QED BY <3>3, <3>4, <3>5, Zenon DEF IntentsOfOne, IntentsMove
  <2> QED BY <2>1, <2>2, Zenon
<1>3. CASE RecordNext
  <2>1. ASSUME NEW w \in Workers,
               RecordSettle(w) \/ RecordQuarantine(w) \/ RecordArchived(w)
        PROVE  IntentsMove
    <3> DEFINE pay == worker[w].pay
               o == OrderOf(pay)
    <3>1. worker[w].pc # "idle"
      BY <2>1, ZenonT(20) DEF RecordSettle, RecordQuarantine, RecordArchived, FirstRecord
    <3>2. o \in Orders /\ orderStatus[o] # "none"
      BY <3>1, BusyTypes, ZenonT(20) DEF PaymentsAreKnown, Known
    <3>3. \/ intents' = [intents EXCEPT ![o] = IntentsPaid(o, NumberOf(pay), worker[w].active)]
          \/ intents' = [intents EXCEPT ![o] =
                           MarkIntentSucceeded(o, NumberOf(pay), worker[w].active)]
      BY <2>1, ZenonT(20) DEF RecordSettle, RecordQuarantine, RecordArchived
    <3>4. /\ DOMAIN IntentsPaid(o, NumberOf(pay), worker[w].active) = DOMAIN intents[o]
          /\ DOMAIN MarkIntentSucceeded(o, NumberOf(pay), worker[w].active) = DOMAIN intents[o]
      BY IntentDomains, Zenon
    <3> HIDE DEF o, pay
    <3> QED BY <3>2, <3>3, <3>4, SMTT(20) DEF IntentsOfOne, IntentsMove
  <2>2. ASSUME NEW w, RecordKnown(w) \/ RecordNotPayable(w) \/ RecordAbort(w)
        PROVE UNCHANGED intents
    BY <2>2, SMTT(20) DEF RecordKnown, RecordNotPayable, RecordAbort
  <2>3. ASSUME NEW pay, NEW report, NEW w,
               ChannelCapture(pay) \/ ApplyLatePayment(pay) \/ RecordRefused(pay, report)
               \/ RecordBegin(w, pay, report)
        PROVE UNCHANGED intents
    BY <2>3, Zenon DEF ChannelCapture, ApplyLatePayment, RecordRefused, RecordBegin
  <2> QED BY <1>3, <2>1, <2>2, <2>3, SMTT(20) DEF RecordNext, RecordStep, IntentsMove
<1>4. CASE PanelNext
  BY <1>4, Zenon DEF PanelNext, ArchivePlan, CouponChanges, Adjust, IntentsMove
<1>5. CASE UNCHANGED vars
  BY <1>5, SMTT(20) DEF vars, IntentsMove
<1> QED BY <1>1, <1>2, <1>3, <1>4, <1>5, SMTT(20) DEF Next

(* Money that was captured, is being recorded or was recorded is still     *)
(* known after the step, and what is new is known too.                     *)
MoneyMoves ==
  /\ captured \subseteq captured'
  /\ \A pay \in captured' : pay \in captured \/ Known(pay)'
  /\ \A w \in Workers : worker'[w].pc # "idle" => worker'[w].pay \in captured'
  /\ \A pay \in Payments : outcome'[pay] # "none" => pay \in captured'

(* Every step keeps these facts about the money. *)
LEMMA StepMovesMoney ==
  ASSUME OrderPaymentTypeOK, PaymentsAreKnown, [Next]_vars
  PROVE  MoneyMoves
<1>0. /\ \A w \in Workers : worker[w].pc # "idle" => worker[w].pay \in captured
      /\ \A pay \in Payments : outcome[pay] # "none" => pay \in captured
      /\ outcome \in [Payments -> Outcomes] /\ captured \subseteq Payments
  BY Zenon DEF PaymentsAreKnown, Recorded, OrderPaymentTypeOK
<1>a. ASSUME UNCHANGED <<captured, outcome, worker>> PROVE MoneyMoves
  BY <1>0, <1>a, Zenon DEF MoneyMoves
<1>w. worker \in [Workers -> WorkerStates] /\ Idle.pc = "idle"
  BY Zenon DEF OrderPaymentTypeOK, Idle
<1>1. CASE OrderNext
  <2>1. ASSUME NEW o \in Orders, NEW k \in 1..MaxCaptures, OfflineRecorded(o, k),
               orderStatus'[o] # "none"
        PROVE  MoneyMoves
    <3>1. <<o, 0, k>> \in Payments /\ IsOffline(<<o, 0, k>>) /\ OrderOf(<<o, 0, k>>) = o
      BY PaymentTypes, Zenon DEF IsOffline, NumberOf, OrderOf
    <3>2. Known(<<o, 0, k>>)'
      BY <2>1, <3>1, Zenon DEF Known, IsOffline, NumberOf
    <3> QED BY <1>0, <2>1, <3>1, <3>2, Zenon DEF OfflineRecorded, MoneyMoves
  <2>2. ASSUME NEW o \in Orders, NEW d \in Placements, NEW k \in 1..MaxCaptures,
               PlaceOffline(o, d, k)
        PROVE  MoneyMoves
    BY <2>1, <2>2, Zenon DEF PlaceOffline, OrderPaymentTypeOK
  <2>3. ASSUME NEW o \in Orders, NEW k \in 1..MaxCaptures, MarkPaid(o, k) PROVE MoneyMoves
    BY <2>1, <2>3, SMTT(20) DEF MarkPaid, SettleOrderWith, OrderPaymentTypeOK
  <2>4. ASSUME NEW o \in Orders, NEW d \in Placements, Place(o, d) \/ PlaceZero(o, d)
        PROVE  MoneyMoves
    BY <1>a, <2>4, SMTT(20) DEF Place, PlaceZero, recordVars
  <2>5. ASSUME NEW o \in Orders,
               Cancel(o) \/ Lapse(o) \/ expireOne(o) \/ SubscriptionChanges(o)
        PROVE  MoneyMoves
    BY <1>a, <2>5, Zenon DEF Cancel, expireOne, releaseOrder, Lapse, SubscriptionChanges, recordVars
  <2> QED BY <1>1, <2>2, <2>3, <2>4, <2>5, SMTT(20) DEF OrderNext
<1>2. CASE IntentNext
  BY <1>a, <1>2, IntentsOnly, Zenon DEF IntentStep, recordVars
<1>3. CASE RecordNext
  <2>1. ASSUME NEW w \in Workers, worker'= [worker EXCEPT ![w] = Idle], UNCHANGED captured,
               \/ UNCHANGED outcome
               \/ /\ worker[w].pc # "idle"
                  /\ \E x : outcome' = [outcome EXCEPT ![worker[w].pay] = x]
        PROVE  MoneyMoves
    BY <1>0, <1>w, <2>1, Zenon DEF MoneyMoves
  <2>2. ASSUME NEW w \in Workers,
               RecordKnown(w) \/ RecordSettle(w) \/ RecordQuarantine(w) \/ RecordArchived(w)
               \/ RecordAbort(w)
        PROVE  MoneyMoves
    <3>1. CASE RecordKnown(w) \/ RecordAbort(w)
      BY <2>1, <3>1, Zenon DEF RecordKnown, RecordAbort, Commit
    <3>2. CASE RecordSettle(w)
      BY <2>1, <3>2, Zenon DEF RecordSettle, FirstRecord, Commit
    <3>3. CASE RecordQuarantine(w)
      BY <2>1, <3>3, Zenon DEF RecordQuarantine, Commit
    <3>4. CASE RecordArchived(w)
      BY <2>1, <3>4, Zenon DEF RecordArchived, Commit
    <3> QED BY <2>2, <3>1, <3>2, <3>3, <3>4, SMTT(20)
  <2>3. ASSUME NEW w \in Workers, RecordNotPayable(w) PROVE MoneyMoves
    <3>1. worker[w].pc # "idle"
      BY <2>3, Zenon DEF RecordNotPayable, FirstRecord
    <3>2. PICK pc, seen : worker' = [worker EXCEPT ![w].pc = pc, ![w].seen = seen]
      BY <2>3, Zenon DEF RecordNotPayable
    <3>3. worker[w] \in [pc : {"read", "quarantine", "archived"}, pay : Payments,
                         report : Reports, seen : OrderStates, active : BOOLEAN]
      BY <3>1, BusyTypes, Zenon
    <3>4. worker'[w].pay = worker[w].pay /\ \A v \in Workers \ {w} : worker'[v] = worker[v]
      BY <1>w, <3>2, <3>3, Zenon
    <3>5. UNCHANGED <<captured, outcome>>
      BY <2>3, Zenon DEF RecordNotPayable
    <3> QED BY <1>0, <3>1, <3>4, <3>5, Zenon DEF MoneyMoves
  <2>4. ASSUME NEW pay \in Payments, ChannelCapture(pay) PROVE MoneyMoves
    <3>1. orderStatus[OrderOf(pay)] # "none"
      <4>1. OrderOf(pay) \in Orders /\ DOMAIN <<>> = {}
        BY PaymentTypes
      <4> QED BY <2>4, <4>1, Zenon DEF ChannelCapture, PaymentsAreKnown
    <3>2. Known(pay)'
      BY <2>4, <3>1, Zenon DEF ChannelCapture, Known, orderVars, IsOffline, NumberOf, OrderOf
    <3>3. captured' = captured \cup {pay} /\ UNCHANGED <<outcome, worker>>
      BY <2>4, Zenon DEF ChannelCapture, recordVars
    <3> QED BY <1>0, <3>2, <3>3, SMTT(20) DEF MoneyMoves
  <2>5. ASSUME NEW pay \in Payments, ApplyLatePayment(pay) PROVE MoneyMoves
    BY <1>0, <2>5, Zenon DEF ApplyLatePayment, MoneyMoves
  <2>6. ASSUME NEW pay \in Payments, NEW report \in Reports, RecordRefused(pay, report)
        PROVE  MoneyMoves
    BY <1>a, <2>6, Zenon DEF RecordRefused
  <2>7. ASSUME NEW pay \in Payments, NEW report \in Reports, NEW w \in Workers,
               RecordBegin(w, pay, report)
        PROVE  MoneyMoves
    <3>1. PICK active :
            worker' = [worker EXCEPT ![w] = [pc |-> "read", pay |-> pay, report |-> report,
                                             seen |-> "none", active |-> active]]
      BY <2>7, Zenon DEF RecordBegin
    <3>2. pay \in captured /\ UNCHANGED <<captured, outcome>>
      BY <2>7, Zenon DEF RecordBegin, Unreported
    <3> QED BY <1>0, <1>w, <3>1, <3>2, SMTT(20) DEF MoneyMoves
  <2> QED BY <1>3, <2>2, <2>3, <2>4, <2>5, <2>6, <2>7, SMTT(20) DEF RecordNext, RecordStep
<1>4. CASE PanelNext
  BY <1>a, <1>4, Zenon DEF PanelNext, ArchivePlan, CouponChanges, Adjust, recordVars
<1>5. CASE UNCHANGED vars
  BY <1>a, <1>5, Zenon DEF vars, recordVars
<1> QED BY <1>1, <1>2, <1>3, <1>4, <1>5, Zenon DEF Next

(* Money stays known. *)
LEMMA StepPayments ==
  ASSUME OrderPaymentTypeOK, OrderPaymentTypeOK', DraftsAreSound, PaymentsAreKnown, [Next]_vars
  PROVE  PaymentsAreKnown'
<1>1. \A o \in Orders : orderStatus[o] # "none" => orderStatus'[o] # "none"
  BY StepDrafts, SMTT(20)
<1>2. /\ \A o \in Orders : DOMAIN intents[o] \subseteq DOMAIN intents'[o]
      /\ \A o \in Orders : orderStatus'[o] = "none" => intents'[o] = <<>>
  <2>1. intents \in [Orders -> Seq(Intents)]
        /\ \A o \in Orders : orderStatus[o] = "none" => intents[o] = <<>>
    BY Zenon DEF OrderPaymentTypeOK, PaymentsAreKnown
  <2>2. CASE UNCHANGED intents
    BY <1>1, <2>1, <2>2, Zenon
  <2>3. ASSUME NEW o \in Orders, NEW is, IntentsOfOne(o, is)
        PROVE  /\ \A q \in Orders : DOMAIN intents[q] \subseteq DOMAIN intents'[q]
               /\ \A q \in Orders : orderStatus'[q] = "none" => intents'[q] = <<>>
    BY <1>1, <2>1, <2>3, Zenon DEF IntentsOfOne
  <2> QED BY <2>2, <2>3, StepMovesIntents, SMTT(20) DEF IntentsMove
<1>3. MoneyMoves
  BY StepMovesMoney, Zenon
<1>4. \A pay \in captured' : Known(pay)'
  <2> SUFFICES ASSUME NEW pay \in captured' PROVE Known(pay)'
    BY Zenon
  <2>1. CASE pay \in captured
    <3>1. Known(pay) /\ OrderOf(pay) \in Orders
      BY <2>1, PaymentTypes, Zenon DEF PaymentsAreKnown, OrderPaymentTypeOK
    <3> QED BY <1>1, <1>2, <3>1, SMTT(20) DEF Known, IsOffline, NumberOf, OrderOf
  <2> QED BY <1>3, <2>1, Zenon DEF MoneyMoves
<1> QED BY <1>2, <1>3, <1>4, Zenon DEF MoneyMoves, PaymentsAreKnown, Recorded

-----------------------------------------------------------------------------
(* Commissions.  A step enters one for at most one order, the one that it  *)
(* fulfils, and looks at the entries there are (OnOrderPaid inside the     *)
(* settlement).                                                            *)
CommissionEntered(o) ==
  /\ orderStatus'[o] = "fulfilled"
  /\ accrued' = AccruedAfter(o, draft'[o])

(* Every step enters a commission in that way, or leaves the entries alone. *)
LEMMA StepAccrues ==
  ASSUME OrderPaymentTypeOK, [Next]_vars
  PROVE  UNCHANGED accrued \/ \E o \in Orders : CommissionEntered(o)
<1>0. orderStatus \in [Orders -> OrderStates] /\ draft \in [Orders -> Drafts]
  BY Zenon DEF OrderPaymentTypeOK
<1>1. ASSUME NEW o \in Orders, NEW p, NEW x, SettleOrderWith(o, p, x)
      PROVE  CommissionEntered(o)
  <2>1. /\ orderStatus' = [orderStatus EXCEPT ![o] = "fulfilled"]
        /\ draft' = draft /\ accrued' = AccruedAfter(o, draft[o])
    BY <1>1, Zenon DEF SettleOrderWith
  <2>2. orderStatus'[o] = "fulfilled"
    BY <1>0, <2>1, Zenon
  <2> QED BY <2>1, <2>2, Zenon DEF CommissionEntered
<1>2. ASSUME NEW o \in Orders, NEW d, NEW k, PlaceOffline(o, d, k)
      PROVE  CommissionEntered(o)
  <2>1. /\ orderStatus' = [orderStatus EXCEPT ![o] = "fulfilled"]
        /\ draft' = [draft EXCEPT ![o] = d] /\ accrued' = AccruedAfter(o, d)
    BY <1>2, Zenon DEF PlaceOffline
  <2>2. orderStatus'[o] = "fulfilled" /\ draft'[o] = d
    BY <1>0, <2>1, Zenon
  <2> QED BY <2>1, <2>2, Zenon DEF CommissionEntered
<1>3. CASE OrderNext
  <2>1. ASSUME NEW o \in Orders, NEW d \in Placements, Place(o, d) \/ PlaceZero(o, d)
        PROVE  UNCHANGED accrued
    BY <2>1, Zenon DEF Place, PlaceZero
  <2>2. ASSUME NEW o \in Orders,
               Cancel(o) \/ Lapse(o) \/ expireOne(o) \/ SubscriptionChanges(o)
        PROVE  UNCHANGED accrued
    BY <2>2, Zenon DEF Cancel, expireOne, releaseOrder, Lapse, SubscriptionChanges
  <2> QED BY <1>1, <1>2, <1>3, <2>1, <2>2, Zenon DEF OrderNext, MarkPaid
<1>4. CASE IntentNext
  BY <1>4, IntentsOnly, Zenon DEF IntentStep
<1>5. CASE RecordNext
  <2>1. ASSUME NEW w \in Workers, RecordStep(w)
        PROVE  UNCHANGED accrued \/ \E o \in Orders : CommissionEntered(o)
    <3>1. CASE RecordSettle(w)
      <4>1. worker[w].pay \in Payments
        BY <3>1, BusyTypes, Zenon DEF RecordSettle, FirstRecord
      <4>2. OrderOf(worker[w].pay) \in Orders
        BY <4>1, PaymentTypes, Zenon
      <4> QED BY <1>1, <3>1, <4>2, Zenon DEF RecordSettle
    <3> QED BY <2>1, <3>1, Zenon DEF RecordStep, RecordKnown, RecordNotPayable,
            RecordQuarantine, RecordArchived
  <2>2. ASSUME NEW w \in Workers, RecordAbort(w) PROVE UNCHANGED accrued
    BY <2>2, Zenon DEF RecordAbort
  <2>3. ASSUME NEW pay \in Payments, ChannelCapture(pay) \/ ApplyLatePayment(pay)
        PROVE  UNCHANGED accrued
    BY <2>3, Zenon DEF ChannelCapture, ApplyLatePayment
  <2>4. ASSUME NEW pay \in Payments, NEW report \in Reports, NEW w,
               RecordRefused(pay, report) \/ RecordBegin(w, pay, report)
        PROVE  UNCHANGED accrued
    BY <2>4, Zenon DEF RecordRefused, RecordBegin
  <2> QED BY <1>5, <2>1, <2>2, <2>3, <2>4, Zenon DEF RecordNext
<1>6. CASE PanelNext
  BY <1>6, Zenon DEF PanelNext, ArchivePlan, CouponChanges, Adjust
<1>7. CASE UNCHANGED vars
  BY <1>7, Zenon DEF vars
<1> QED BY <1>3, <1>4, <1>5, <1>6, <1>7, Zenon DEF Next
=============================================================================
