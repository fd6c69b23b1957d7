----------------------------- MODULE PlanChange -----------------------------
(***************************************************************************)
(* The money side of changing plans: what the paid rest of a period is     *)
(* worth, the change order that freezes that value when it is placed and   *)
(* is settled later, and the gift cards, renewals, extensions and edits of *)
(* the end that move the period in between.                                *)
(*                                                                         *)
(* One subscription of plans billed by the interval.  Everything that      *)
(* touches it holds its row lock and is one step, except that a card       *)
(* redemption reads its clock (CardClock) before it gets that lock         *)
(* (CardRenew, CardChange).  The clock is the panel's, with a resolution   *)
(* so fine that two holders of one lock never read the same instant: every *)
(* step that stamps a time waits for a later one (Stamp).                  *)
(***************************************************************************)
EXTENDS Integers, FiniteSets, FiniteSetsExt

CONSTANTS
    Plans,
    Price,        \* [Plans -> Nat]
    Interval,       \* [Plans -> Nat], the billing interval
    Discounts,    \* coupon discounts a change order may carry
    MaxSmallDue,  \* MaxSmallDueCents: what a change order may be waived
    QuoteWindow,  \* QuoteAsOfWindow
    Window,       \* RenewalWindow
    Days,         \* extensions that may be granted
    Ops,          \* the operations that may happen
    MaxTime, MaxOps,   \* bounds
    None

\* What the bounds and settings of an instance satisfy.
PlanChangeAssumption ==
    /\ Price \in [Plans -> Nat] /\ Interval \in [Plans -> Nat \ {0}]
    /\ Discounts \subseteq Nat /\ Days \subseteq Nat \ {0}
    /\ \A n \in {MaxSmallDue, QuoteWindow, Window, MaxTime, MaxOps} : n \in Nat

VARIABLES
    now,        \* the clock
    stamped,    \* a time was stamped at this instant
    sub,        \* [plan, start, end, closed, period]; period counts the restarts
    basis,      \* [value, span] of the fulfilled orders of the running period
    order,      \* the open change or renewal order, None without one
    card,       \* [kind, at] of a redemption that has read its clock
    received,   \* what the user paid for this subscription
    returned,   \* what was paid back into the balance
    foreign,    \* a change order was settled in another period than its own
    ops         \* operations spent, against MaxOps

money == <<received, returned, foreign>>
vars == <<now, stamped, sub, basis, order, card, money, ops>>

-----------------------------------------------------------------------------
\* Remaining value

\* Mutant: a quote from before the period is not capped at the whole of it.
PaidRemainingUncapped(t) == Min({basis.span - (t - sub.start), sub.end - t})

\* paidRemaining: paid time goes first, given time last.
PaidRemaining(t) == Min({basis.span - (t - sub.start), sub.end - t, basis.span})

\* prorationCredit, rounded down.
ProrationCredit(t) ==
    IF basis.value <= 0 \/ basis.span <= 0 \/ PaidRemaining(t) <= 0 THEN 0
    ELSE (basis.value * PaidRemaining(t)) \div basis.span

\* OrderTotal, before anything is waived.
OrderTotal(subtotal, discount, credit) == Max({subtotal - discount - credit, 0})

\* planChangeRefund
PlanChangeRefund(credit, subtotal, discount) == Max({credit - (subtotal - discount), 0})

\* basisOf: what an order adds to the value of its period.
ValueOf(subtotal, discount, waived) == Max({subtotal - discount - waived, 0})

\* StateAt is not ended.
AcceptsChange == ~sub.closed

Spend(op) == op \in Ops /\ ops < MaxOps /\ ops' = ops + 1
Stamp == ~stamped /\ stamped' = TRUE

-----------------------------------------------------------------------------
\* What happens to the subscription

\* A period of plan p over [start, end) in which value was paid for span.
Restart(p, start, end, value, span) ==
    /\ sub' = [plan |-> p, start |-> start, end |-> end, closed |-> FALSE,
               period |-> sub.period + 1]
    /\ basis' = [value |-> value, span |-> span]

\* ChangePlan: an order brings its value and span, a card neither.
ChangePlan(p, value, span) == Restart(p, now, now + Interval[p], value, span)

\* Renew: after a lapse the period starts at paidAt; created is None for a
\* card.
Renew(paidAt, created, value, span) ==
    IF sub.end > paidAt \/ (created # None /\ created < sub.end)
    THEN /\ sub' = [sub EXCEPT !.end = @ + Interval[sub.plan]]
         /\ basis' = [value |-> basis.value + value, span |-> basis.span + span]
    ELSE Restart(sub.plan, paidAt, paidAt + Interval[sub.plan], value, span)

-----------------------------------------------------------------------------
\* A bought subscription.
Init ==
    \E p \in Plans :
        /\ now = 0 /\ stamped = TRUE
        /\ sub = [plan |-> p, start |-> 0, end |-> Interval[p], closed |-> FALSE, period |-> 1]
        /\ basis = [value |-> Price[p], span |-> Interval[p]]
        /\ order = None /\ card = None
        /\ received = Price[p] /\ returned = 0 /\ foreign = FALSE
        /\ ops = 0

\* Amounts of a change order: its own, and what settling it moves.
Due(o) == OrderTotal(Price[o.plan], o.discount, o.credit) - o.waived

\* fulfilPlanChange
FulfilChange(o) ==
    /\ ChangePlan(o.plan, ValueOf(Price[o.plan], o.discount, o.waived), Interval[o.plan])
    /\ received' = received + Due(o)
    /\ returned' = returned + PlanChangeRefund(o.credit, Price[o.plan], o.discount)

\* CreatePlanChangeOrder, and an admin's order (a grant discounts the whole
\* price): the value is taken as of the quote.  The change happens at once
\* when nothing is due, the balance pays it all (atOnce), or it pays all but
\* a small rest that is waived.
PlaceChange(p, asOf, discount, waived, atOnce) ==
    LET credit == ProrationCredit(asOf)
        o == [kind |-> "upgrade", plan |-> p, created |-> now, credit |-> credit,
              discount |-> discount, waived |-> waived, period |-> sub.period]
    IN  /\ AcceptsChange /\ order = None /\ p # sub.plan
        /\ discount <= Price[p]
        /\ waived <= OrderTotal(Price[p], discount, credit)
        /\ Due(o) = 0 \/ waived > 0 => atOnce
        /\ Stamp /\ Spend("change")
        /\ IF atOnce
           THEN FulfilChange(o) /\ UNCHANGED order
           ELSE order' = o /\ UNCHANGED <<sub, basis, received, returned>>
        /\ UNCHANGED <<now, card, foreign>>

\* CreateRenewalOrder
PlaceRenewal ==
    /\ AcceptsChange /\ order = None
    /\ Stamp /\ Spend("renew")
    /\ order' = [kind |-> "renewal", plan |-> sub.plan, created |-> now]
    /\ UNCHANGED <<now, sub, basis, card, money>>

\* SettleOrder.  Money for an ended subscription, for a period that began
\* after the change order, or for a plan the subscription has left goes to a
\* case and changes nothing here.
Settle ==
    /\ order # None /\ AcceptsChange /\ Stamp
    /\ IF order.kind = "upgrade"
       THEN /\ sub.start <= order.created
            /\ FulfilChange(order)
            /\ foreign' = (foreign \/ order.period # sub.period)
       ELSE /\ order.plan = sub.plan
            /\ Renew(now, order.created, Price[sub.plan], Interval[sub.plan])
            /\ received' = received + Price[sub.plan]
            /\ UNCHANGED <<returned, foreign>>
    /\ order' = None
    /\ UNCHANGED <<now, card, ops>>

\* Cancelled by the user or an admin, or expired by the sweeper.
Release ==
    /\ order # None
    /\ order' = None
    /\ UNCHANGED <<now, stamped, sub, basis, card, money, ops>>

\* Redeem reads its clock once it has the lock of the code.
CardClock(kind) ==
    /\ card = None /\ Stamp /\ Spend(kind)
    /\ card' = [kind |-> kind, plan |-> sub.plan, at |-> now]
    /\ UNCHANGED <<now, sub, basis, order, money>>

\* A card of the plan the subscription was on when its options were read.
CardRenew ==
    /\ card # None /\ card.kind = "card_renew"
    /\ IF AcceptsChange /\ sub.plan = card.plan
       THEN Renew(card.at, None, 0, 0)
       ELSE UNCHANGED <<sub, basis>>
    /\ card' = None
    /\ UNCHANGED <<now, stamped, order, money, ops>>

\* preparePlanTarget and grantPlanChange: refused while a change or renewal
\* order is open (RemainingValue), otherwise the value is paid back.
CardChange(p) ==
    /\ card # None /\ card.kind = "card_change" /\ p # card.plan
    /\ IF AcceptsChange /\ sub.plan # p /\ order = None
       THEN /\ Stamp
            /\ ChangePlan(p, 0, 0)
            /\ returned' = returned + ProrationCredit(card.at)
       ELSE UNCHANGED <<stamped, sub, basis, returned>>
    /\ card' = None
    /\ UNCHANGED <<now, order, received, foreign, ops>>

\* Extend: after a lapse the period starts now.
Extend(days) ==
    /\ AcceptsChange /\ Stamp /\ Spend("extend")
    /\ IF sub.end <= now
       THEN Restart(sub.plan, now, now + days, 0, 0)
       ELSE sub' = [sub EXCEPT !.end = @ + days] /\ UNCHANGED basis
    /\ UNCHANGED <<now, order, card, money>>

\* AdminSetPeriodEnd
AdminSetPeriodEnd(end) ==
    /\ now < sub.end /\ now < end /\ end # sub.end /\ Spend("end")
    /\ sub' = [sub EXCEPT !.end = end]
    /\ UNCHANGED <<now, stamped, basis, order, card, money>>

\* closeBatch: the scan closes the renewal window, some time after it is due.
CloseWindow ==
    /\ ~sub.closed /\ sub.end + Window <= now
    /\ sub' = [sub EXCEPT !.closed = TRUE]
    /\ UNCHANGED <<now, stamped, basis, order, card, money, ops>>

Tick ==
    /\ now < MaxTime
    /\ now' = now + 1 /\ stamped' = FALSE
    /\ UNCHANGED <<sub, basis, order, card, money, ops>>

Next ==
    \/ \E p \in Plans, asOf \in Max({now - QuoteWindow, 0})..now, d \in Discounts,
          waived \in 0..MaxSmallDue, atOnce \in BOOLEAN : PlaceChange(p, asOf, d, waived, atOnce)
    \/ PlaceRenewal \/ Settle \/ Release
    \/ \E kind \in {"card_renew", "card_change"} : CardClock(kind)
    \/ CardRenew
    \/ \E p \in Plans : CardChange(p)
    \/ \E d \in Days : Extend(d)
    \/ \E end \in 0..MaxTime : AdminSetPeriodEnd(end)
    \/ CloseWindow \/ Tick

Spec == Init /\ [][Next]_vars

-----------------------------------------------------------------------------
Orders ==
    [kind : {"upgrade"}, plan : Plans, created : 0..MaxTime, credit : Nat, discount : Discounts,
     waived : 0..MaxSmallDue, period : Nat]
    \cup [kind : {"renewal"}, plan : Plans, created : 0..MaxTime]

\* The type invariant: no amount, period or instant ever leaves its range, in
\* particular none that settle or the valuer computes is negative.
TypeOK ==
    /\ now \in 0..MaxTime /\ stamped \in BOOLEAN
    /\ sub \in [plan : Plans, start : 0..MaxTime, end : Nat, closed : BOOLEAN, period : Nat]
    /\ basis \in [value : Nat, span : Nat]
    /\ order \in Orders \cup {None}
    /\ card \in [kind : {"card_renew", "card_change"}, plan : Plans, at : 0..MaxTime] \cup {None}
    /\ received \in Nat /\ returned \in Nat /\ foreign \in BOOLEAN
    /\ ops \in 0..MaxOps

\* However periods are renewed, restarted, given away and changed, and
\* however old the quote is: what has been paid back never exceeds what was
\* paid, and what the running period counts as paid is still covered by it.
\* So no period's value is returned or credited twice (settle, valuer).
ValueCovered == basis.value <= received - returned

\* The comment in settle on frozen credits: a change order is settled only in
\* the period its credit was taken from.
SettlesItsOwnPeriod == ~foreign
=============================================================================
