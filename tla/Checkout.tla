------------------------------ MODULE Checkout ------------------------------
(***************************************************************************)
(* What an order costs, how much of it the balance pays and how much the   *)
(* user pays online: the quote, and the order that is placed on it.        *)
(*                                                                         *)
(* The page shows a quote (Quote); the user confirms it and the panel      *)
(* computes everything again from the balance it reads (PlaceOrder) and    *)
(* holds or takes the balance under the lock of the account (TakeBalance). *)
(* Between those steps other requests spend and fill the balance, and an   *)
(* admin changes the price and the site's minimum payment.  Amounts are in *)
(* cents.  A request that sends no quote back is not compared with one and *)
(* not modelled.                                                           *)
(***************************************************************************)
EXTENDS Portal, Integers, FiniteSetsExt

CONSTANTS
    MaxAmount,      \* bound on totals and balances
    MinPayments,    \* the minimum payments an admin may set
    SmallDue,       \* MaxSmallDueCents
    MaxMoves        \* bound on the changes by others

ASSUME CheckoutAssumption ==
    /\ {MaxAmount, SmallDue, MaxMoves} \subseteq Nat
    /\ MinPayments \subseteq Nat /\ MinPayments # {}

VARIABLES
    balance,   \* what the user may spend
    minPay,    \* the site's minimum payment
    total,     \* what the order would cost now, before anything is waived
    waive,     \* a change of plan: a small rest may be waived
    quote,     \* what the page shows, None without a quote
    placing,   \* what place has computed, from the balance it read
    order,     \* the committed order
    moves      \* changes by others, against MaxMoves

checkoutVars == <<balance, minPay, total, waive, quote, placing, order, moves>>

Amounts == 0..MaxAmount

-----------------------------------------------------------------------------
\* PlanBalance and WaiveSmallDue

Plan(applied, payable) ==
    [applied |-> applied, payable |-> payable, waived |-> 0, kept |-> 0,
     forced |-> FALSE, belowMinimum |-> FALSE]

\* Up to a cent there is no minimum.
NoMinimum(min) == min <= 1

PlanBalance(due, available, requested, min) ==
    LET use == Min({requested, due, available})
    IN  CASE use = due ->
               [Plan(use, 0) EXCEPT !.forced = due > 0 /\ ~NoMinimum(min) /\ due < min]
          [] use < due /\ (NoMinimum(min) \/ due - use >= min) ->
               Plan(use, due - use)
          [] use < due /\ ~NoMinimum(min) /\ due - use < min /\ due >= min ->
               [Plan(due - min, min) EXCEPT !.kept = use - (due - min)]
          [] use < due /\ ~NoMinimum(min) /\ due < min /\ available >= due ->
               [Plan(due, 0) EXCEPT !.forced = TRUE]
          [] use < due /\ ~NoMinimum(min) /\ due < min /\ available < due ->
               [Plan(available, due - available) EXCEPT !.belowMinimum = TRUE]

WaiveSmallDue(b, allowed) ==
    IF allowed /\ b.belowMinimum /\ b.payable \in 1..SmallDue
    THEN [b EXCEPT !.waived = b.payable, !.payable = 0, !.belowMinimum = FALSE]
    ELSE b

\* balanceFor: the balance is read when it is asked for or needed, and with
\* nothing due there is nothing to plan.
BalanceFor(requested) ==
    IF total = 0 THEN Plan(0, 0)
    ELSE LET available == IF requested > 0 \/ total < minPay THEN balance ELSE 0
         IN  WaiveSmallDue(PlanBalance(total, available, requested, minPay), waive)

-----------------------------------------------------------------------------
CheckoutInit ==
    /\ balance \in Amounts /\ total \in Amounts
    /\ minPay \in MinPayments
    /\ waive \in BOOLEAN
    /\ quote = None /\ placing = None /\ order = None
    /\ moves = 0

\* Quote, applyQuoteBalances: with the balance and without it.
Quote ==
    /\ quote = None
    /\ \E requested \in {balance, 0} :
          quote' = [requested |-> requested, total |-> total,
                    plan |-> WaiveSmallDue(PlanBalance(total, balance, requested, minPay), waive)]
    /\ UNCHANGED <<balance, minPay, total, waive, placing, order, moves>>

\* checkExpect: the amounts on the page against the amounts computed now.
Expected(b) ==
    quote.total = total /\ quote.plan.applied = b.applied /\ quote.plan.payable = b.payable

\* Mutant: what the page showed is not compared.
PlaceUnchecked ==
    LET b == BalanceFor(quote.requested)
    IN  /\ quote # None /\ placing = None /\ order = None
        /\ IF ~b.belowMinimum THEN placing' = b /\ UNCHANGED quote
           ELSE quote' = None /\ UNCHANGED placing
        /\ UNCHANGED <<balance, minPay, total, waive, order, moves>>

\* place, up to the amounts of the order: a plan below the minimum is
\* refused, and so is one that is not what the page showed.
PlaceOrder ==
    LET b == BalanceFor(quote.requested)
    IN  /\ quote # None /\ placing = None /\ order = None
        /\ IF ~b.belowMinimum /\ Expected(b) THEN placing' = b /\ UNCHANGED quote
           ELSE quote' = None /\ UNCHANGED placing
        /\ UNCHANGED <<balance, minPay, total, waive, order, moves>>

\* HoldForOrder, or CaptureFromBalance when nothing is left to pay: short of
\* balance the whole transaction is rolled back.
TakeBalance ==
    /\ placing # None
    /\ IF balance >= placing.applied
       THEN order' = placing /\ balance' = balance - placing.applied /\ UNCHANGED quote
       ELSE quote' = None /\ UNCHANGED <<order, balance>>
    /\ placing' = None
    /\ UNCHANGED <<minPay, total, waive, moves>>

\* Another request of the user, or an admin, moves the balance.
MoveBalance(b) ==
    /\ moves < MaxMoves /\ b # balance
    /\ balance' = b /\ moves' = moves + 1
    /\ UNCHANGED <<minPay, total, waive, quote, placing, order>>

\* An admin changes the minimum payment.
SetMinPayment(min) ==
    /\ moves < MaxMoves /\ min # minPay
    /\ minPay' = min /\ moves' = moves + 1
    /\ UNCHANGED <<balance, total, waive, quote, placing, order>>

\* An admin changes the price.
Reprice(t) ==
    /\ moves < MaxMoves /\ t # total
    /\ total' = t /\ moves' = moves + 1
    /\ UNCHANGED <<balance, minPay, waive, quote, placing, order>>

CheckoutNext ==
    \/ Quote \/ PlaceOrder \/ TakeBalance
    \/ \E n \in Amounts : MoveBalance(n) \/ Reprice(n)
    \/ \E min \in MinPayments : SetMinPayment(min)

CheckoutSpec == CheckoutInit /\ [][CheckoutNext]_checkoutVars

-----------------------------------------------------------------------------
Plans ==
    [applied : Nat, payable : Nat, waived : Nat, kept : Nat, forced : BOOLEAN, belowMinimum : BOOLEAN]

\* The type invariant: no part of a quoted, placed or stored amount is negative.
CheckoutTypeOK ==
    /\ balance \in Int /\ total \in Amounts /\ minPay \in MinPayments
    /\ waive \in BOOLEAN
    /\ quote \in [requested : Amounts, total : Amounts, plan : Plans] \cup {None}
    /\ placing \in Plans \cup {None} /\ order \in Plans \cup {None}
    /\ moves \in 0..MaxMoves

\* Ways to pay total with a available: from the balance and online, where an
\* online payment reaches the minimum.
Payable(min, n) == n = 0 \/ NoMinimum(min) \/ n >= min
WaysToPay(a) == {use \in 0..Min({a, total}) : Payable(minPay, total - use)}

\* PlanBalance against its definition: of the ways to pay, it takes the one
\* that uses most of the balance without using more than was asked for; if
\* there is none, the one that uses least; and it says BelowMinimum exactly
\* when there is no way to pay, with the balance used up so that the rest is
\* as small as it can be.  WaiveSmallDue waives such a rest and no other.
PlansTheClosestWay ==
    \A requested \in Amounts :
        LET b == PlanBalance(total, balance, requested, minPay)
            ways == WaysToPay(balance)
            asked == {use \in ways : use <= requested}
        IN  /\ b.applied + b.payable = total
            /\ b.belowMinimum <=> ways = {}
            /\ b.applied = IF ways = {} THEN balance
                           ELSE IF asked # {} THEN Max(asked) ELSE Min(ways)
            /\ b.kept = IF ways = {} THEN 0
                        ELSE Max({Min({requested, balance, total}) - b.applied, 0})
            /\ WaiveSmallDue(b, waive).waived > 0 => ways = {}

\* place: the order charges the amounts the page showed, whatever happened
\* to the price, the balance and the minimum in between, and its parts add up.
ChargedAsShown ==
    order # None =>
        /\ quote.plan.applied = order.applied /\ quote.plan.payable = order.payable
        /\ order.applied + order.payable + order.waived = quote.total
        /\ order.waived > 0 => waive /\ order.payable = 0 /\ order.waived <= SmallDue
        /\ ~order.belowMinimum

\* HoldForOrder: an order never takes more from the balance than is there.
NeverOverdrawn == balance >= 0

\* PlanBalance takes the way to pay that is closest to what was asked for, the
\* order charges what the page showed, and the balance is never overdrawn.
CheckoutInv ==
    /\ CheckoutTypeOK
    /\ PlansTheClosestWay
    /\ ChargedAsShown
    /\ NeverOverdrawn
=============================================================================
