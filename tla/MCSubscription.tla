--------------------------- MODULE MCSubscription ---------------------------
(***************************************************************************)
(* Small instances of Subscription, with a cycle of three days and a       *)
(* renewal window of three, and beside it of PlanChange: a short and a     *)
(* long plan, in units of which a day has more than one.  The two share    *)
(* nothing here; focus says which one moves.                               *)
(***************************************************************************)
EXTENDS Subscription

VARIABLES focus, clock, stamped, contract, basis, change, card, received, returned, foreign, changes

changeVars == <<clock, stamped, contract, basis, change, card, received, returned, foreign, changes>>

\* Periods that are moved four times in nine days.
Moving ==
    [ops |-> {"renew", "card", "extend", "change", "end", "publish"}, dayQuota |-> FALSE,
     maxTime |-> 9, maxOps |-> 4, maxCharges |-> 0]

\* Traffic that is charged twice.
Charging ==
    [ops |-> {"delete", "card", "extend", "change", "stack", "reset", "bonus", "limit"},
     dayQuota |-> TRUE, maxTime |-> 6, maxOps |-> 2, maxCharges |-> 2]

MovingOrCharging == {Moving, Charging}

PriceOf == [p \in {"basic", "pro"} |-> IF p = "basic" THEN 5 ELSE 8]
IntervalOf == [p \in {"basic", "pro"} |-> IF p = "basic" THEN 2 ELSE 3]

\* Quotes, change orders, renewals, cards, extensions and edits of the end.
Value == INSTANCE PlanChange
         WITH Plans <- {"basic", "pro"}, Price <- PriceOf, Interval <- IntervalOf,
              Discounts <- {0, 3, 8}, MaxSmallDue <- 1, QuoteWindow <- 2, Window <- 2,
              Days <- {1}, MaxTime <- 6, MaxOps <- 3,
              Ops <- {"change", "renew", "card_renew", "card_change", "extend", "end"},
              now <- clock, sub <- contract, order <- change, ops <- changes

\* Without card renewals, whose clock is read before the lock.
Own == INSTANCE PlanChange
       WITH Plans <- {"basic", "pro"}, Price <- PriceOf, Interval <- IntervalOf,
            Discounts <- {0}, MaxSmallDue <- 1, QuoteWindow <- 2, Window <- 2,
            Days <- {1}, MaxTime <- 6, MaxOps <- 3,
            Ops <- {"change", "renew", "card_change", "extend", "end"},
            now <- clock, sub <- contract, order <- change, ops <- changes

ASSUME Value!PlanChangeAssumption /\ Own!PlanChangeAssumption

MCInit ==
    /\ focus \in {"periods", "value", "own"}
    /\ Init
    /\ focus # "periods" => agenda = Moving
    /\ IF focus # "periods" THEN Value!Init
       ELSE /\ clock = None /\ stamped = None /\ contract = None /\ basis = None
            /\ change = None /\ card = None /\ received = None /\ returned = None
            /\ foreign = None /\ changes = None

MCNext ==
    \/ focus = "periods" /\ Next /\ UNCHANGED <<focus, agenda, changeVars>>
    \/ focus = "value" /\ Value!Next /\ UNCHANGED <<focus, vars, agenda>>
    \/ focus = "own" /\ Own!Next /\ UNCHANGED <<focus, vars, agenda>>

MCSpec == MCInit /\ [][MCNext]_<<focus, vars, agenda, changeVars>>

\* No period's paid value is returned or credited twice, no amount settle or the
\* valuer computes is negative, and without card renewals a change order is
\* settled only in the period its credit was taken from.
ChangeInv ==
    /\ focus = "value" => Value!TypeOK /\ Value!ValueCovered
    /\ focus = "own" => Own!SettlesItsOwnPeriod
=============================================================================
