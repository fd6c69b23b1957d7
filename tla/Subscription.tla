---------------------------- MODULE Subscription ----------------------------
(***************************************************************************)
(* One subscription and its traffic quota rows: provisioning, renewal,     *)
(* extension, plan change, stacking, resets, bonuses, admin edits, the     *)
(* minute expiry scan, the ten-minute quota roll, the traffic charges of   *)
(* the nodes and the deletion of the account.                              *)
(*                                                                         *)
(* Every operation but the charge locks the subscription row and then its  *)
(* quota rows, and the roll and the expiry scan skip locked rows, so each  *)
(* of them is one step.  The charge takes no subscription lock: it reads   *)
(* its clock (ChargeClock) and locks the quota rows afterwards             *)
(* (ChargeCommit), where PostgreSQL evaluates the window condition again   *)
(* on the rows as they are once the lock is granted.                       *)
(*                                                                         *)
(* Time is counted in days.  A row is [start, end, limit, bonus, used,     *)
(* version]; version is the plan version its limit was taken from.         *)
(***************************************************************************)
EXTENDS Integers, FiniteSets, FiniteSetsExt

CONSTANTS
    Cycle,        \* billing interval of the subscription plan
    Validity,     \* days of the one-time price
    Grace,        \* TrafficQuotaGrace
    Window,       \* RenewalWindow
    PayWindow,    \* PaymentWindow, rounded up to a day
    Days,         \* the extensions that may be granted
    DayLimit,     \* limit of the day row
    Agendas,      \* what may happen, and the bounds on it: see agenda
    None

ASSUME SubscriptionAssumption ==
    /\ Cycle \in Nat \ {0} /\ Validity \in Nat \ {0} /\ Grace \in Nat \ {0}
    /\ Days \subseteq Nat \ {0}
    /\ \A n \in {Window, PayWindow, DayLimit} : n \in Nat
    /\ \A a \in Agendas :
         a.dayQuota \in BOOLEAN /\ {a.maxTime, a.maxOps, a.maxCharges} \subseteq Nat

VARIABLES
    now,        \* the clock of the panel
    sub,        \* the subscriptions row, None before provisioning
    row,        \* its quota_balances rows by period: a partial function
    current,    \* the plans' current published version
    order,      \* creation time of the open renewal order, None without one
    inflight,   \* clock reading of a charge that has not locked its rows yet
    charged,    \* bytes ever added to the rows of a period kind
    logged,     \* consumed_before in the reset logs, by period kind
    missed,     \* a charge to a live subscription found no row of its plan
    allowances, \* full cycle allowances handed out
    granted,    \* days bought, given or set by an admin
    ops,        \* operations spent, against MaxOps
    agenda      \* from beginning to end: the operations of users, cards and
                \* admins that may happen, whether the subscription plan limits
                \* the traffic of a day too, and the bounds

books == <<charged, logged, missed>>
vars == <<now, sub, row, current, order, inflight, books, allowances, granted, ops>>

DayQuota == agenda.dayQuota
MaxTime == agenda.maxTime
MaxOps == agenda.maxOps
MaxCharges == agenda.maxCharges

Plans == {"subscription", "one_time"}
Periods == {"cycle", "day", "total"}
Versions == {1, 2}
LimitOf(v) == v + 1
Times == 0..(MaxTime + 2 * Cycle * (MaxOps + 1) + MaxOps * Max(Days \cup {Validity}))

-----------------------------------------------------------------------------
\* States of a subscription

\* StateAt
State ==
    IF sub.closed THEN "ended"
    ELSE IF sub.status = "active" /\ sub.end > now THEN "live"
    ELSE "revivable"

Live == sub # None /\ State = "live"
AcceptsChange == sub # None /\ State # "ended"

\* The period whose row carries the plan's traffic (trafficPeriod).
TrafficPeriod(plan) == IF plan = "one_time" THEN "total" ELSE "cycle"

\* A permanent row (period_end NULL) has end None.  trafficQuotaWindowCond
InWindow(q, t) == q.start <= t /\ (q.end = None \/ q.end > t - Grace)

Over(q) == q.end # None /\ q.end <= now

Remaining(q) == q.limit + q.bonus - q.used

\* ServingSubscriptions
Serving ==
    /\ Live
    /\ \A p \in DOMAIN row : InWindow(row[p], now) => Remaining(row[p]) > 0

\* quotaRollDueWhere: rows the roll takes up.
Due(p) ==
    /\ sub.status = "active" /\ sub.end > now
    /\ Over(row[p])
    /\ p = "cycle" => sub.end > row[p].end

-----------------------------------------------------------------------------
\* Periods

\* QuotaPeriodEnd
QuotaPeriodEnd(p, start, cycleEnd) ==
    CASE p = "total" -> None [] p = "day" -> start + 1 [] OTHER -> cycleEnd

\* RenewalBase: <<base, restart>>
RenewalBase(oldEnd, paidAt, created) ==
    IF oldEnd > paidAt \/ (created # None /\ created < oldEnd)
    THEN <<oldEnd, FALSE>>
    ELSE <<paidAt, TRUE>>

\* Ends of the cycles from oldEnd to subEnd: NextCycleEnd merges what is left
\* after the last whole cycle into that cycle.
CycleEnds(oldEnd, subEnd) ==
    {subEnd} \cup {e \in oldEnd + 1..subEnd : (e - oldEnd) % Cycle = 0 /\ e + Cycle <= subEnd}

\* Mutant: one cycle forward only, however long the roll was not run.
CycleRollOnce(oldEnd, subEnd) ==
    [start |-> oldEnd, end |-> Min(CycleEnds(oldEnd, subEnd))]

\* cycleRollWindow: the first cycle that ends after now, or the last one.
CycleRollWindow(oldEnd, subEnd) ==
    LET ends == CycleEnds(oldEnd, subEnd)
        end == Min({e \in ends : e > now \/ e = subEnd})
    IN  [start |-> Max({oldEnd} \cup {e \in ends : e < end}), end |-> end]

\* naturalRollStart of a day row: the last boundary that has passed, which is
\* now itself at the resolution of a day.
DayRollWindow == [start |-> now, end |-> QuotaPeriodEnd("day", now, None)]

\* ProratedQuota
ProratedQuota(limit, days) == (limit * days) \div Cycle

-----------------------------------------------------------------------------
\* Quota rows

\* withKind and quotaRows: the rows of a plan's version over [start, end).
QuotaRows(plan, v, start, end) ==
    LET Fresh(p) == [start |-> start, end |-> QuotaPeriodEnd(p, start, end),
                     limit |-> IF p = "day" THEN DayLimit ELSE LimitOf(v),
                     bonus |-> 0, used |-> 0, version |-> v]
        day == IF DayQuota /\ plan = "subscription" THEN {"day"} ELSE {}
    IN  [p \in {TrafficPeriod(plan)} \cup day |-> Fresh(p)]

\* logResets of the rows of the periods in reset.
LogResets(reset) ==
    logged' = [p \in Periods |-> logged[p] + IF p \in reset THEN row[p].used ELSE 0]

\* rebuildQuotas: rows the version does not define are deleted, the others
\* start afresh; all of them are logged.
RebuildQuotas(plan, v, start, end) ==
    /\ row' = QuotaRows(plan, v, start, end)
    /\ LogResets(DOMAIN row)
    /\ allowances' = allowances + IF plan = "subscription" THEN 1 ELSE 0

\* One of the operations that may happen, counted against the bound.
Spend(op) == op \in agenda.ops /\ ops < MaxOps /\ ops' = ops + 1

\* What an operation on a subscription leaves alone.
Steady == UNCHANGED <<now, current, inflight, charged, missed>>

-----------------------------------------------------------------------------
Init ==
    /\ now = 0 /\ sub = None /\ row = <<>>
    /\ current = 1 /\ order = None /\ inflight = None
    /\ charged = [p \in Periods |-> 0] /\ logged = [p \in Periods |-> 0]
    /\ missed = FALSE /\ allowances = 0 /\ granted = 0 /\ ops = 0
    /\ agenda \in Agendas

Length(plan) == IF plan = "one_time" THEN Validity ELSE Cycle

\* Provision
Provision(plan) ==
    /\ sub = None
    /\ sub' = [plan |-> plan, version |-> current, status |-> "active",
               end |-> now + Length(plan), closed |-> FALSE, deleted |-> FALSE]
    /\ row' = QuotaRows(plan, current, now, now + Length(plan))
    /\ allowances' = IF plan = "subscription" THEN 1 ELSE 0
    /\ granted' = Length(plan)
    /\ UNCHANGED <<order, logged, ops>> /\ Steady

\* LockTrafficQuotas is given the clock as it was read before the lock.
ChargeClock ==
    /\ sub # None /\ inflight = None
    /\ \A p \in Periods : charged[p] < MaxCharges
    /\ inflight' = now
    /\ UNCHANGED <<now, sub, row, current, order, books, allowances, granted, ops>>

\* ChargeTraffic once its rows are locked: one byte on each of them, over the
\* limit too.
ChargeCommit ==
    LET hit == {p \in DOMAIN row : InWindow(row[p], inflight)}
    IN  /\ inflight # None
        /\ row' = [p \in DOMAIN row |->
                      IF p \in hit THEN [row[p] EXCEPT !.used = @ + 1] ELSE row[p]]
        /\ charged' = [p \in Periods |-> charged[p] + IF p \in hit THEN 1 ELSE 0]
        /\ missed' = (missed \/ (Live /\ TrafficPeriod(sub.plan) \notin hit))
        /\ inflight' = None
        /\ UNCHANGED <<now, sub, current, order, logged, allowances, granted, ops>>

\* RollQuotas: every due row in one batch.
Roll ==
    LET due == {p \in DOMAIN row : Due(p)}
        Rolled(p) ==
            LET w == IF p = "cycle" THEN CycleRollWindow(row[p].end, sub.end) ELSE DayRollWindow
                v == IF p = "cycle" THEN current ELSE row[p].version
            IN  [start |-> w.start, end |-> w.end,
                 limit |-> IF p = "cycle" THEN LimitOf(v) ELSE row[p].limit,
                 bonus |-> 0, used |-> 0, version |-> v]
    IN  /\ sub # None /\ due # {}
        /\ row' = [p \in DOMAIN row |-> IF p \in due THEN Rolled(p) ELSE row[p]]
        /\ LogResets(due)
        /\ sub' = IF "cycle" \in due THEN [sub EXCEPT !.version = current] ELSE sub
        /\ allowances' = allowances + IF "cycle" \in due THEN 1 ELSE 0
        /\ UNCHANGED <<order, granted, ops>> /\ Steady

\* ExpireDue, first half
Expire ==
    /\ sub # None /\ sub.status = "active" /\ sub.end <= now
    /\ sub' = [sub EXCEPT !.status = "expired"]
    /\ UNCHANGED <<row, order, logged, allowances, granted, ops>> /\ Steady

\* ExpireDue, second half
CloseWindow ==
    /\ sub # None /\ sub.status = "expired" /\ ~sub.closed /\ sub.end <= now - Window
    /\ sub' = [sub EXCEPT !.closed = TRUE]
    /\ UNCHANGED <<row, order, logged, allowances, granted, ops>> /\ Steady

\* CloseUserSubscriptions
DeleteAccount ==
    /\ sub # None /\ ~sub.deleted /\ Spend("delete")
    /\ sub' = [sub EXCEPT !.status = "expired", !.closed = TRUE, !.deleted = TRUE,
                          !.end = IF sub.status = "active" /\ @ > now THEN now ELSE @]
    /\ order' = None
    /\ UNCHANGED <<row, logged, allowances, granted>> /\ Steady

\* Renew
Renew(created) ==
    LET base == RenewalBase(sub.end, now, created)[1]
        restart == RenewalBase(sub.end, now, created)[2]
        end == base + Cycle
    IN  /\ AcceptsChange /\ sub.plan = "subscription"
        /\ sub' = [sub EXCEPT !.status = "active", !.end = end,
                              !.version = IF restart THEN current ELSE @]
        /\ IF restart
           THEN RebuildQuotas("subscription", current, now, end)
           ELSE UNCHANGED <<row, logged, allowances>>
        /\ granted' = granted + Cycle

\* A renewal order is opened; one open order at a time (openChangeConflict).
OpenRenewal ==
    /\ AcceptsChange /\ sub.plan = "subscription" /\ order = None
    /\ order' = now
    /\ Spend("renew")
    /\ UNCHANGED <<sub, row, logged, allowances, granted>> /\ Steady

\* Its payment arrives; money for a plan the subscription has left, or for a
\* closed subscription, goes to a case.
SettleRenewal ==
    /\ order # None
    /\ order' = None
    /\ IF AcceptsChange /\ sub.plan = "subscription"
       THEN Renew(order)
       ELSE UNCHANGED <<sub, row, logged, allowances, granted>>
    /\ UNCHANGED ops /\ Steady

\* A gift card of the same plan renews without an order.
RenewByCard == Renew(None) /\ Spend("card") /\ UNCHANGED order /\ Steady

\* Mutant: the cycle row stays behind when the end moves.
ExtendLeavesCycle(days) ==
    LET end == Max({sub.end, now}) + days
        restarted == IF sub.end <= now THEN DOMAIN row \cap {"day"} ELSE {}
    IN  /\ AcceptsChange /\ Spend("extend")
        /\ sub' = [sub EXCEPT !.status = "active", !.end = end]
        /\ row' = [p \in DOMAIN row |->
                      IF p \in restarted
                      THEN [row[p] EXCEPT !.used = 0, !.start = now, !.end = now + 1]
                      ELSE row[p]]
        /\ LogResets(restarted)
        /\ granted' = granted + days
        /\ UNCHANGED <<order, allowances>> /\ Steady

\* Extend
Extend(days) ==
    LET lapsed == sub.end <= now
        rescued == lapsed \/ sub.status = "expired"
        end == Max({sub.end, now}) + days
        Moved(q) == [q EXCEPT !.end = end,
                              !.limit = @ + IF rescued THEN ProratedQuota(@, days) ELSE 0]
        Restarted(p) == [row[p] EXCEPT !.used = 0, !.start = now,
                                       !.end = QuotaPeriodEnd(p, now, end)]
        restarted == IF lapsed THEN DOMAIN row \cap {"day"} ELSE {}
    IN  /\ AcceptsChange /\ Spend("extend")
        /\ sub' = [sub EXCEPT !.status = "active", !.end = end]
        /\ row' = [p \in DOMAIN row |->
                      IF p = "cycle" /\ row[p].end = sub.end THEN Moved(row[p])
                      ELSE IF p \in restarted THEN Restarted(p)
                      ELSE row[p]]
        /\ LogResets(restarted)
        /\ granted' = granted + days
        /\ UNCHANGED <<order, allowances>> /\ Steady

\* ChangePlan: a new period of the other plan starts now.
ChangePlan ==
    LET plan == CHOOSE q \in Plans : q # sub.plan
        end == now + Length(plan)
    IN  /\ AcceptsChange /\ Spend("change")
        /\ sub' = [sub EXCEPT !.plan = plan, !.version = current, !.status = "active", !.end = end]
        /\ RebuildQuotas(plan, current, now, end)
        /\ granted' = granted + Length(plan)
        /\ UNCHANGED order /\ Steady

\* Stack: another validity span and another allowance on the total row.
Stack ==
    /\ AcceptsChange /\ sub.plan = "one_time" /\ Spend("stack")
    /\ sub' = [sub EXCEPT !.version = current, !.status = "active",
                          !.end = Max({@, now}) + Validity]
    /\ row' = [row EXCEPT !["total"].limit = @ + LimitOf(current)]
    /\ granted' = granted + Validity
    /\ UNCHANGED <<order, logged, allowances>> /\ Steady

\* ResetTraffic
ResetTraffic ==
    /\ Live /\ Spend("reset")
    /\ row' = [p \in DOMAIN row |-> [row[p] EXCEPT !.used = 0]]
    /\ LogResets(DOMAIN row)
    /\ UNCHANGED <<sub, order, allowances, granted>> /\ Steady

\* GrantBonus: refused while the cycle row waits for its roll.
GrantBonus ==
    LET p == TrafficPeriod(sub.plan)
    IN  /\ Live /\ Spend("bonus")
        /\ ~Over(row[p])
        /\ row' = [row EXCEPT ![p].bonus = @ + 1]
        /\ UNCHANGED <<sub, order, logged, allowances, granted>> /\ Steady

\* AdminSetPeriodEnd: the cycle row that ended with the subscription follows,
\* a day row is cut short.
AdminSetPeriodEnd(end) ==
    LET Follows(p) == \/ p = "cycle" /\ row[p].end = sub.end
                      \/ p = "day" /\ row[p].end > end
    IN  /\ Live /\ end > now /\ Spend("end")
        /\ sub' = [sub EXCEPT !.end = end]
        /\ row' = [p \in DOMAIN row |->
                      IF Follows(p) THEN [row[p] EXCEPT !.end = end] ELSE row[p]]
        /\ granted' = granted + Max({end - sub.end, 0})
        /\ UNCHANGED <<order, logged, allowances>> /\ Steady

\* AdminSetQuotaLimit
AdminSetQuotaLimit(p, limit) ==
    /\ AcceptsChange /\ p \in DOMAIN row /\ Spend("limit")
    /\ row' = [row EXCEPT ![p].limit = limit]
    /\ UNCHANGED <<sub, order, logged, allowances, granted>> /\ Steady

\* The catalog publishes the plans' next version.
Publish ==
    /\ "publish" \in agenda.ops /\ current = 1 /\ current' = 2
    /\ UNCHANGED <<now, sub, row, order, inflight, books, allowances, granted, ops>>

\* The order sweeper cancels a renewal order past its payment window.
CancelRenewal ==
    /\ order # None /\ order + PayWindow <= now
    /\ order' = None
    /\ UNCHANGED <<sub, row, logged, allowances, granted, ops>> /\ Steady

Tick ==
    /\ now < MaxTime
    /\ now' = now + 1
    /\ UNCHANGED <<sub, row, current, order, inflight, books, allowances, granted, ops>>

Next ==
    \/ \E plan \in Plans : Provision(plan)
    \/ ChargeClock \/ ChargeCommit
    \/ Roll \/ Expire \/ CloseWindow
    \/ DeleteAccount
    \/ OpenRenewal \/ SettleRenewal \/ CancelRenewal \/ RenewByCard
    \/ \E days \in Days : Extend(days)
    \/ ChangePlan \/ Stack \/ ResetTraffic \/ GrantBonus
    \/ \E end \in 1..MaxTime : AdminSetPeriodEnd(end)
    \/ \E p \in Periods : AdminSetQuotaLimit(p, 1)
    \/ Publish
    \/ Tick

Spec == Init /\ [][Next /\ UNCHANGED agenda]_<<vars, agenda>>

-----------------------------------------------------------------------------
\* Properties

\* The subscriptions row and the quota rows have the columns of the tables,
\* and a row exists for the traffic period of the plan.
TypeOK ==
    /\ now \in 0..MaxTime /\ current \in Versions
    /\ \A t \in {order, inflight} : t \in 0..MaxTime \cup {None}
    /\ sub # None =>
         /\ sub.plan \in Plans /\ sub.version \in Versions
         /\ sub.status \in {"active", "expired"} /\ sub.end \in Times
         /\ TrafficPeriod(sub.plan) \in DOMAIN row
    /\ DOMAIN row \subseteq Periods
    /\ \A p \in DOMAIN row :
         /\ row[p].start \in Times /\ row[p].end \in Times \cup {None}
         /\ row[p].end # None => row[p].start < row[p].end
         /\ {row[p].limit, row[p].bonus, row[p].used} \subseteq Nat

\* A subscription on the nodes' roster never runs on unmetered traffic for good:
\* either the row that carries its plan's traffic is in the window the charges
\* use, or the next quota roll takes that row up (quotaRollDueWhere).
MeteredOrDue ==
    Serving => LET p == TrafficPeriod(sub.plan) IN InWindow(row[p], now) \/ Due(p)

\* Every full cycle allowance a roll, a restart or a plan change hands out is
\* backed by a whole billing interval that was bought, given as days or set by
\* an admin, however renewals, extensions, edits and late rolls are ordered.
AllowanceBacked == allowances * Cycle <= granted

\* The limit a subscription runs on comes from the version its row names:
\* switching versions and rewriting the cycle row never come apart.
VersionsAgree ==
    sub # None /\ sub.plan = "subscription" => row["cycle"].version = sub.version

\* No traffic leaves the books: what was charged to rows of a kind is what the
\* rows still show as consumed plus what the reset logs say they had consumed.
BytesAccounted ==
    \A p \in Periods :
        charged[p] = logged[p] + IF p \in DOMAIN row THEN row[p].used ELSE 0

\* A closed subscription is over: it is expired, and unless the account was
\* deleted it was closed only after a full renewal window without a new end.
EndedIsOver ==
    sub # None /\ sub.closed =>
        sub.status = "expired" /\ (sub.deleted \/ sub.end + Window <= now)

\* One roll catches up: whatever the backlog, every row it touches covers the
\* present afterwards ("一步追上").
RollCatchesUp ==
    [][Roll => \A p \in DOMAIN row :
          row'[p] # row[p] => row'[p].start <= now /\ now < row'[p].end]_vars

\* Traffic of a live subscription is recorded on the row of its plan even when
\* it exceeds the limit ("不够仍记在配额上").
ChargesLand == ~missed

\* What holds of a subscription and its quota rows in every state: traffic is
\* metered or due to be, allowances are paid for, the limit is that of the
\* version, charged bytes stay in the books, and only what is over is closed.
SubscriptionInv ==
    /\ TypeOK
    /\ MeteredOrDue
    /\ AllowanceBacked
    /\ VersionsAgree
    /\ BytesAccounted
    /\ EndedIsOver
=============================================================================
