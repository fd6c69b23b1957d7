--------------------------- MODULE PurchaseLimits ---------------------------
(***************************************************************************)
(* The limits on what one user may buy in the portal: how many             *)
(* subscriptions they may have, and how many orders may wait for a payment.*)
(*                                                                         *)
(* Several requests of the user create orders at once, while payments,     *)
(* cancellations, the sweeper and the expiry scan commit beside them.      *)
(* PostgreSQL runs them READ COMMITTED: each count of a request is a       *)
(* statement, and a step, of its own; an order and what it reserves appear *)
(* when the request commits.                                               *)
(***************************************************************************)
EXTENDS Portal, Naturals

CONSTANTS
    MaxSubscriptions, MaxUnpaidOrders,   \* settings; 0 is no limit
    MaxOrders                            \* bound on the orders created

ASSUME LimitsAssumption ==
    /\ MaxSubscriptions \in Nat /\ MaxUnpaidOrders \in Nat /\ MaxOrders \in Nat
    /\ None \notin Requests

VARIABLES
    pending,   \* [new, other -> [live, lapsed -> count]] of pending_payment orders
    held,      \* subscriptions that are not closed
    lock,      \* the request that holds LockUserPurchases
    tx,        \* [Requests -> record]
    created    \* orders created, against MaxOrders

limitVars == <<pending, held, lock, tx, created>>

Kinds == {"new", "other"}
Limited == MaxSubscriptions > 0 \/ MaxUnpaidOrders > 0
Idle == [step |-> "idle", kind |-> "new", paysOnline |-> FALSE, counted |-> 0]

\* PendingCounts
PendingAll == pending["new"].live + pending["other"].live

PendingNew == pending["new"].live + pending["new"].lapsed

-----------------------------------------------------------------------------
LimitsInit ==
    /\ pending = [k \in Kinds |-> [live |-> 0, lapsed |-> 0]]
    /\ held = 0
    /\ lock = None
    /\ tx = [r \in Requests |-> Idle]
    /\ created = 0

\* A request ends, with its transaction and its lock.
Finish(r) ==
    /\ tx' = [tx EXCEPT ![r] = Idle]
    /\ lock' = IF lock = r THEN None ELSE lock

\* place up to purchaseGate: the advisory lock of the user's purchases.
Begin(r, kind, paysOnline) ==
    /\ tx[r].step = "idle" /\ created < MaxOrders
    /\ lock = None \/ ~Limited
    /\ lock' = IF Limited THEN r ELSE lock
    /\ tx' = [tx EXCEPT ![r] =
                 [Idle EXCEPT !.kind = kind, !.paysOnline = paysOnline,
                              !.step = IF kind = "new" /\ MaxSubscriptions > 0
                                       THEN "first" ELSE "unpaid"]]
    /\ UNCHANGED <<pending, held, created>>

\* The first of the two counts of subscriptionCap, and the second: at the
\* limit the request is refused.
CountFirst(r, n) ==
    /\ tx[r].step = "first"
    /\ tx' = [tx EXCEPT ![r].counted = n, ![r].step = "second"]
    /\ UNCHANGED <<pending, held, lock, created>>

CountSecond(r, n) ==
    /\ tx[r].step = "second"
    /\ IF tx[r].counted + n >= MaxSubscriptions
       THEN Finish(r)
       ELSE tx' = [tx EXCEPT ![r].step = "unpaid"] /\ UNCHANGED lock
    /\ UNCHANGED <<pending, held, created>>

\* Mutant: the subscriptions are counted before the orders.
SubscriptionCapHeldFirst(r) == CountFirst(r, held) \/ CountSecond(r, PendingNew)

\* subscriptionCap
SubscriptionCap(r) == CountFirst(r, PendingNew) \/ CountSecond(r, held)

\* checkUnpaidCap, for an order that leaves something to pay.
CheckUnpaidCap(r) ==
    /\ tx[r].step = "unpaid"
    /\ IF tx[r].paysOnline /\ MaxUnpaidOrders > 0 /\ PendingAll >= MaxUnpaidOrders
       THEN Finish(r)
       ELSE tx' = [tx EXCEPT ![r].step = "insert"] /\ UNCHANGED lock
    /\ UNCHANGED <<pending, held, created>>

\* The rest of place commits: an order that waits for its payment, or one
\* that is settled at once and opens a subscription if it is a new one.
Commit(r) ==
    LET k == tx[r].kind
    IN  /\ tx[r].step = "insert" /\ created < MaxOrders
        /\ IF tx[r].paysOnline
           THEN pending' = [pending EXCEPT ![k].live = @ + 1] /\ UNCHANGED held
           ELSE held' = held + (IF k = "new" THEN 1 ELSE 0) /\ UNCHANGED pending
        /\ created' = created + 1
        /\ Finish(r)

\* Anything else in place fails.
Fail(r) ==
    /\ tx[r].step # "idle"
    /\ Finish(r)
    /\ UNCHANGED <<pending, held, created>>

\* The payment deadline passes.
Lapse(k) ==
    /\ pending[k].live > 0
    /\ pending' = [pending EXCEPT ![k] = [live |-> @.live - 1, lapsed |-> @.lapsed + 1]]
    /\ UNCHANGED <<held, lock, tx, created>>

\* SettlePayment, in time or late: a new order opens a subscription.
Settle(k, age) ==
    /\ pending[k][age] > 0
    /\ pending' = [pending EXCEPT ![k][age] = @ - 1]
    /\ held' = held + (IF k = "new" THEN 1 ELSE 0)
    /\ UNCHANGED <<lock, tx, created>>

\* Cancelled, or expired by the sweeper.
Release(k, age) ==
    /\ pending[k][age] > 0
    /\ pending' = [pending EXCEPT ![k][age] = @ - 1]
    /\ UNCHANGED <<held, lock, tx, created>>

\* The renewal window of a subscription closes.
Close ==
    /\ held > 0
    /\ held' = held - 1
    /\ UNCHANGED <<pending, lock, tx, created>>

LimitsNext ==
    \/ \E r \in Requests :
          \/ \E k \in Kinds, paysOnline \in BOOLEAN : Begin(r, k, paysOnline)
          \/ SubscriptionCap(r) \/ CheckUnpaidCap(r) \/ Commit(r) \/ Fail(r)
    \/ \E k \in Kinds : Lapse(k) \/ \E age \in {"live", "lapsed"} : Settle(k, age) \/ Release(k, age)
    \/ Close

LimitsSpec == LimitsInit /\ [][LimitsNext]_limitVars

-----------------------------------------------------------------------------
Steps == {"idle", "first", "second", "unpaid", "insert"}

\* The type invariant: the counts of a user's orders and subscriptions are never negative.
LimitsTypeOK ==
    /\ pending \in [Kinds -> [live : Nat, lapsed : Nat]]
    /\ held \in Nat /\ created \in Nat
    /\ lock \in Requests \cup {None}
    /\ tx \in [Requests -> [step : Steps, kind : Kinds, paysOnline : BOOLEAN,
                            counted : Nat]]

\* subscriptionCap: however requests, payments and late payments interleave,
\* a user's subscriptions and the new orders that may still become one never
\* exceed the limit.
SubscriptionCapKept ==
    MaxSubscriptions > 0 => PendingNew + held <= MaxSubscriptions

\* checkUnpaidCap: nor do the orders that can still be paid.
UnpaidCapKept ==
    MaxUnpaidOrders > 0 => PendingAll <= MaxUnpaidOrders

\* Neither purchase limit is ever exceeded (limits.go).
CapsInv ==
    /\ LimitsTypeOK
    /\ SubscriptionCapKept
    /\ UnpaidCapKept
=============================================================================
