--------------------------- MODULE CounterProofs ---------------------------
(***************************************************************************)
(* Proofs about what is bought and redeemed at the counter of the portal:  *)
(* the purchase limits, the redemption of gift cards and the amounts of a  *)
(* checkout, for any number of requests, users, codes and settings.        *)
(***************************************************************************)
EXTENDS PurchaseLimits, GiftCard, Checkout, FiniteSetTheorems, TLAPS

-----------------------------------------------------------------------------
(***************************************************************************)
(* The purchase limits hold for every number of concurrent requests and    *)
(* for every value of the two settings.                                    *)
(*                                                                         *)
(* The limits alone are not inductive: what keeps them is what a request   *)
(* knows between its counts and its commit.  No other request runs while   *)
(* it holds the advisory lock, so new orders can only leave the pending    *)
(* ones, either for good or into the subscriptions, which are counted      *)
(* later.  Knowledge says so for each step of a request.                   *)
(***************************************************************************)

\* Only the holder of the lock is under way, when there is a limit at all.
OnlyHolder == Limited => \A r \in Requests : tx[r].step # "idle" => lock = r

\* What a request has made sure of at each of its steps.
Knowledge ==
    \A r \in Requests :
        /\ tx[r].step = "second" /\ MaxSubscriptions > 0 => PendingNew <= tx[r].counted
        /\ tx[r].step \in {"unpaid", "insert"} /\ tx[r].kind = "new" /\ MaxSubscriptions > 0
             => PendingNew + held < MaxSubscriptions
        /\ tx[r].step = "insert" /\ tx[r].paysOnline /\ MaxUnpaidOrders > 0
             => PendingAll < MaxUnpaidOrders

LimitsIInv == LimitsTypeOK /\ OnlyHolder /\ Knowledge /\ SubscriptionCapKept /\ UnpaidCapKept

-----------------------------------------------------------------------------
(* The counts are numbers.                                                 *)
LEMMA CountsAreNumbers ==
    ASSUME LimitsTypeOK
    PROVE  /\ PendingNew \in Nat /\ PendingAll \in Nat
           /\ \A k \in Kinds : pending[k].live \in Nat /\ pending[k].lapsed \in Nat
BY DEF LimitsTypeOK, PendingNew, PendingAll, Kinds

(* A step that adds no order and no subscription, and moves at most an     *)
(* order into the subscriptions, takes nothing away from what requests     *)
(* have made sure of.                                                      *)
LEMMA FewerIsFine ==
    ASSUME LimitsAssumption, LimitsIInv, LimitsTypeOK',
           UNCHANGED <<lock, tx>>,
           PendingNew' <= PendingNew, PendingAll' <= PendingAll,
           PendingNew' + held' <= PendingNew + held
    PROVE  LimitsIInv'
<1>1. /\ PendingNew \in Nat /\ PendingAll \in Nat /\ held \in Nat
      /\ PendingNew' \in Nat /\ PendingAll' \in Nat /\ held' \in Nat
  <2>1. PendingNew \in Nat /\ PendingAll \in Nat /\ held \in Nat
    BY CountsAreNumbers, Zenon DEF LimitsIInv, LimitsTypeOK
  <2>2. PendingNew' \in Nat /\ PendingAll' \in Nat /\ held' \in Nat
    BY DEF LimitsTypeOK, PendingNew, PendingAll, Kinds
  <2> QED BY <2>1, <2>2, Zenon
<1>2. \A r \in Requests : tx[r].counted \in Nat
  BY Zenon DEF LimitsIInv, LimitsTypeOK
<1>3. PICK a \in Nat, b \in Nat, h \in Nat, a1 \in Nat, b1 \in Nat, h1 \in Nat :
        /\ a = PendingNew /\ b = PendingAll /\ h = held
        /\ a1 = PendingNew' /\ b1 = PendingAll' /\ h1 = held'
  BY <1>1, Zenon
<1>4. a1 <= a /\ b1 <= b /\ a1 + h1 <= a + h
  BY <1>3, Zenon
<1>5. SubscriptionCapKept'
  <2>1. MaxSubscriptions > 0 => a + h <= MaxSubscriptions
    BY <1>3, Zenon DEF LimitsIInv, SubscriptionCapKept
  <2>2. MaxSubscriptions > 0 => a1 + h1 <= MaxSubscriptions
    BY <1>4, <2>1 DEF LimitsAssumption
  <2> QED BY <1>3, <2>2, Zenon DEF SubscriptionCapKept
<1>6. UnpaidCapKept'
  <2>1. MaxUnpaidOrders > 0 => b <= MaxUnpaidOrders
    BY <1>3, Zenon DEF LimitsIInv, UnpaidCapKept
  <2>2. MaxUnpaidOrders > 0 => b1 <= MaxUnpaidOrders
    BY <1>4, <2>1 DEF LimitsAssumption
  <2> QED BY <1>3, <2>2, Zenon DEF UnpaidCapKept
<1>7. OnlyHolder'
  BY Zenon DEF LimitsIInv, OnlyHolder, Limited
<1>8. Knowledge'
  <2> SUFFICES ASSUME NEW r \in Requests
               PROVE  /\ tx[r].step = "second" /\ MaxSubscriptions > 0 => a1 <= tx[r].counted
                      /\ tx[r].step \in {"unpaid", "insert"} /\ tx[r].kind = "new"
                           /\ MaxSubscriptions > 0 => a1 + h1 < MaxSubscriptions
                      /\ tx[r].step = "insert" /\ tx[r].paysOnline /\ MaxUnpaidOrders > 0
                           => b1 < MaxUnpaidOrders
    BY <1>3, Zenon DEF Knowledge
  <2>1. /\ tx[r].step = "second" /\ MaxSubscriptions > 0 => a <= tx[r].counted
        /\ tx[r].step \in {"unpaid", "insert"} /\ tx[r].kind = "new" /\ MaxSubscriptions > 0
             => a + h < MaxSubscriptions
        /\ tx[r].step = "insert" /\ tx[r].paysOnline /\ MaxUnpaidOrders > 0
             => b < MaxUnpaidOrders
    BY <1>3, Zenon DEF LimitsIInv, Knowledge
  <2>2. tx[r].step = "second" /\ MaxSubscriptions > 0 => a1 <= tx[r].counted
    BY <1>2, <1>4, <2>1
  <2>3. a + h < MaxSubscriptions => a1 + h1 < MaxSubscriptions
    BY <1>4 DEF LimitsAssumption
  <2>4. b < MaxUnpaidOrders => b1 < MaxUnpaidOrders
    BY <1>4 DEF LimitsAssumption
  <2> QED BY <2>1, <2>2, <2>3, <2>4, Zenon
<1> QED BY <1>5, <1>6, <1>7, <1>8, Zenon DEF LimitsIInv

(* A request that ends changes no count.                                   *)
LEMMA FinishIsFine ==
    ASSUME LimitsAssumption, LimitsIInv, NEW r \in Requests, Finish(r),
           LimitsTypeOK, UNCHANGED <<pending, held, created>>
    PROVE  LimitsIInv'
<1>1. /\ PendingNew' = PendingNew /\ PendingAll' = PendingAll /\ held' = held
      /\ \A q \in Requests : q # r => tx'[q] = tx[q]
      /\ tx'[r] = Idle
  BY Zenon DEF Finish, LimitsTypeOK, PendingNew, PendingAll
<1>2. Idle \in [step : Steps, kind : Kinds, paysOnline : BOOLEAN, counted : Nat] /\ Idle.step = "idle"
  BY Zenon DEF Idle, Steps, Kinds
<1>3. LimitsTypeOK'
  BY <1>2, Zenon DEF LimitsTypeOK, Finish
<1>4. OnlyHolder'
  BY <1>1, <1>2, Zenon DEF LimitsIInv, OnlyHolder, Limited, Finish, LimitsAssumption
<1>5. Knowledge' /\ SubscriptionCapKept' /\ UnpaidCapKept'
  BY <1>1, <1>2, Zenon DEF LimitsIInv, Knowledge, SubscriptionCapKept, UnpaidCapKept
<1> QED BY <1>3, <1>4, <1>5, Zenon DEF LimitsIInv

(* A request that goes on has the lock if there is a limit, and changes    *)
(* neither the counts nor what the other requests know: there are none.    *)
LEMMA AdvanceIsFine ==
    ASSUME LimitsAssumption, LimitsIInv, NEW r \in Requests, UNCHANGED <<pending, held, created>>,
           NEW t \in [step : Steps, kind : Kinds, paysOnline : BOOLEAN, counted : Nat],
           tx' = [tx EXCEPT ![r] = t],
           lock' \in Requests \cup {None},
           Limited => lock' = r /\ (lock = None \/ lock = r),
           t.step = "second" /\ MaxSubscriptions > 0 => PendingNew <= t.counted,
           t.step \in {"unpaid", "insert"} /\ t.kind = "new" /\ MaxSubscriptions > 0
             => PendingNew + held < MaxSubscriptions,
           t.step = "insert" /\ t.paysOnline /\ MaxUnpaidOrders > 0
             => PendingAll < MaxUnpaidOrders
    PROVE  LimitsIInv'
<1>1. /\ PendingNew' = PendingNew /\ PendingAll' = PendingAll /\ held' = held
      /\ \A q \in Requests : q # r => tx'[q] = tx[q]
      /\ tx'[r] = t
  BY Zenon DEF LimitsIInv, LimitsTypeOK, PendingNew, PendingAll
<1>2. LimitsTypeOK'
  BY Zenon DEF LimitsIInv, LimitsTypeOK
<1>3. OnlyHolder'
  BY <1>1 DEF LimitsIInv, OnlyHolder, Limited, LimitsAssumption
<1>4. Knowledge' /\ SubscriptionCapKept' /\ UnpaidCapKept'
  BY <1>1, Zenon DEF LimitsIInv, Knowledge, SubscriptionCapKept, UnpaidCapKept
<1> QED BY <1>2, <1>3, <1>4, Zenon DEF LimitsIInv

-----------------------------------------------------------------------------
(* The steps of a request.                                                 *)

(* purchaseGate: nobody else is under way when the lock is free.           *)
LEMMA BeginKeeps ==
    ASSUME LimitsAssumption, LimitsIInv, NEW r \in Requests, NEW kind \in Kinds, NEW online \in BOOLEAN,
           Begin(r, kind, online)
    PROVE  LimitsIInv'
<1> DEFINE t == [Idle EXCEPT !.kind = kind, !.paysOnline = online,
                             !.step = IF kind = "new" /\ MaxSubscriptions > 0
                                      THEN "first" ELSE "unpaid"]
<1>1. t \in [step : Steps, kind : Kinds, paysOnline : BOOLEAN, counted : Nat]
  BY Zenon DEF Idle, Steps, Kinds
<1>2. /\ t.step \in {"first", "unpaid"} /\ t.kind = kind
      /\ kind = "new" /\ MaxSubscriptions > 0 => t.step = "first"
  BY Zenon DEF Idle
<1>3. /\ tx' = [tx EXCEPT ![r] = t] /\ UNCHANGED <<pending, held, created>>
      /\ lock' \in Requests \cup {None}
      /\ Limited => lock' = r /\ lock = None
  BY Zenon DEF Begin, LimitsIInv, LimitsTypeOK
<1> HIDE DEF t
<1> QED BY <1>1, <1>2, <1>3, AdvanceIsFine, Zenon

(* The first count of subscriptionCap: what it counts can only get less.   *)
LEMMA CountFirstKeeps ==
    ASSUME LimitsAssumption, LimitsIInv, NEW r \in Requests, CountFirst(r, PendingNew)
    PROVE  LimitsIInv'
<1> DEFINE t == [tx[r] EXCEPT !.counted = PendingNew, !.step = "second"]
<1>0. PendingNew \in Nat
  BY CountsAreNumbers, Zenon DEF LimitsIInv
<1>1. t \in [step : Steps, kind : Kinds, paysOnline : BOOLEAN, counted : Nat]
  BY <1>0, Zenon DEF LimitsIInv, LimitsTypeOK, Steps
<1>2. t.step = "second" /\ t.counted = PendingNew
  BY Zenon DEF LimitsIInv, LimitsTypeOK
<1>3. tx' = [tx EXCEPT ![r] = t] /\ UNCHANGED <<pending, held, created>>
  BY Zenon DEF CountFirst, LimitsIInv, LimitsTypeOK
<1>4. lock' = lock /\ lock \in Requests \cup {None} /\ (Limited => lock = r)
  BY Zenon DEF CountFirst, LimitsIInv, LimitsTypeOK, OnlyHolder
<1>5. PendingNew <= PendingNew
  BY <1>0
<1> HIDE DEF t
<1> QED BY <1>1, <1>2, <1>3, <1>4, <1>5, AdvanceIsFine, Zenon

(* The second count: an order that became a subscription in between has    *)
(* been counted at least once.                                             *)
LEMMA CountSecondKeeps ==
    ASSUME LimitsAssumption, LimitsIInv, NEW r \in Requests, CountSecond(r, held)
    PROVE  LimitsIInv'
<1>1. CASE tx[r].counted + held >= MaxSubscriptions
  BY <1>1, FinishIsFine, Zenon DEF CountSecond, LimitsIInv
<1>2. CASE ~(tx[r].counted + held >= MaxSubscriptions)
  <2> DEFINE t == [tx[r] EXCEPT !.step = "unpaid"]
  <2>1. t \in [step : Steps, kind : Kinds, paysOnline : BOOLEAN, counted : Nat]
    BY Zenon DEF LimitsIInv, LimitsTypeOK, Steps
  <2>2. t.step = "unpaid" /\ t.kind = tx[r].kind
    BY Zenon DEF LimitsIInv, LimitsTypeOK
  <2>3. tx' = [tx EXCEPT ![r] = t] /\ UNCHANGED <<pending, held, created>>
    BY <1>2, Zenon DEF CountSecond, LimitsIInv, LimitsTypeOK
  <2>4. lock' = lock /\ lock \in Requests \cup {None} /\ (Limited => lock = r)
    BY <1>2, Zenon DEF CountSecond, LimitsIInv, LimitsTypeOK, OnlyHolder
  <2>5. MaxSubscriptions > 0 => PendingNew <= tx[r].counted
    BY Zenon DEF LimitsIInv, Knowledge, CountSecond
  <2>6. PICK a \in Nat, c \in Nat, h \in Nat : a = PendingNew /\ c = tx[r].counted /\ h = held
    BY CountsAreNumbers, Zenon DEF LimitsIInv, LimitsTypeOK
  <2>7. (MaxSubscriptions > 0 => a <= c) /\ ~(c + h >= MaxSubscriptions)
    BY <1>2, <2>5, <2>6, Zenon
  <2>8. MaxSubscriptions > 0 => a + h < MaxSubscriptions
    BY <2>7 DEF LimitsAssumption
  <2>9. MaxSubscriptions > 0 => PendingNew + held < MaxSubscriptions
    BY <2>6, <2>8, Zenon
  <2> HIDE DEF t
  <2> QED BY <2>1, <2>2, <2>3, <2>4, <2>9, AdvanceIsFine, Zenon
<1> QED BY <1>1, <1>2, Zenon

(* checkUnpaidCap: an order that leaves something to pay goes on only      *)
(* below the limit.                                                        *)
LEMMA CheckUnpaidCapKeeps ==
    ASSUME LimitsAssumption, LimitsIInv, NEW r \in Requests, CheckUnpaidCap(r)
    PROVE  LimitsIInv'
<1> DEFINE refused == tx[r].paysOnline /\ MaxUnpaidOrders > 0 /\ PendingAll >= MaxUnpaidOrders
<1>1. CASE refused
  BY <1>1, FinishIsFine, Zenon DEF CheckUnpaidCap, LimitsIInv
<1>2. CASE ~refused
  <2> DEFINE t == [tx[r] EXCEPT !.step = "insert"]
  <2>1. t \in [step : Steps, kind : Kinds, paysOnline : BOOLEAN, counted : Nat]
    BY Zenon DEF LimitsIInv, LimitsTypeOK, Steps
  <2>2. t.step = "insert" /\ t.kind = tx[r].kind /\ t.paysOnline = tx[r].paysOnline
    BY Zenon DEF LimitsIInv, LimitsTypeOK
  <2>3. tx' = [tx EXCEPT ![r] = t] /\ UNCHANGED <<pending, held, created>>
    BY <1>2, Zenon DEF CheckUnpaidCap, LimitsIInv, LimitsTypeOK
  <2>4. lock' = lock /\ lock \in Requests \cup {None} /\ (Limited => lock = r)
    BY <1>2, Zenon DEF CheckUnpaidCap, LimitsIInv, LimitsTypeOK, OnlyHolder
  <2>5. tx[r].kind = "new" /\ MaxSubscriptions > 0 => PendingNew + held < MaxSubscriptions
    BY Zenon DEF LimitsIInv, Knowledge, CheckUnpaidCap
  <2>6. PICK b \in Nat : b = PendingAll
    BY CountsAreNumbers, Zenon DEF LimitsIInv
  <2>7. ~(b >= MaxUnpaidOrders) => b < MaxUnpaidOrders
    BY DEF LimitsAssumption
  <2>8. tx[r].paysOnline /\ MaxUnpaidOrders > 0 => PendingAll < MaxUnpaidOrders
    BY <1>2, <2>6, <2>7, Zenon
  <2> HIDE DEF t
  <2> QED BY <2>1, <2>2, <2>3, <2>4, <2>5, <2>8, AdvanceIsFine, Zenon
<1> QED BY <1>1, <1>2, Zenon

(* place commits: one order or one subscription more, and no request is    *)
(* left that relies on the old counts.                                     *)
LEMMA CommitKeeps ==
    ASSUME LimitsAssumption, LimitsIInv, NEW r \in Requests, Commit(r)
    PROVE  LimitsIInv'
<1> DEFINE k == tx[r].kind
<1>1. /\ k \in Kinds /\ tx[r].paysOnline \in BOOLEAN /\ held \in Nat /\ created \in Nat
      /\ pending \in [Kinds -> [live : Nat, lapsed : Nat]]
  BY Zenon DEF LimitsIInv, LimitsTypeOK
<1>2. /\ \A q \in Requests : q # r => tx'[q] = tx[q]
      /\ tx'[r] = Idle
      /\ Idle \in [step : Steps, kind : Kinds, paysOnline : BOOLEAN, counted : Nat]
      /\ Idle.step = "idle"
  BY Zenon DEF Commit, Finish, Idle, Steps, Kinds, LimitsIInv, LimitsTypeOK
<1>3. LimitsTypeOK'
  <2>1. tx' \in [Requests -> [step : Steps, kind : Kinds, paysOnline : BOOLEAN, counted : Nat]]
    BY <1>2, Zenon DEF Commit, Finish, LimitsIInv, LimitsTypeOK
  <2>2. lock' \in Requests \cup {None} /\ created' \in Nat
    BY <1>1 DEF Commit, Finish, LimitsIInv, LimitsTypeOK
  <2>3. held' \in Nat /\ pending' \in [Kinds -> [live : Nat, lapsed : Nat]]
    <3>1. CASE tx[r].paysOnline
      BY <1>1, <3>1 DEF Commit, Kinds
    <3>2. CASE ~tx[r].paysOnline
      BY <1>1, <3>2 DEF Commit
    <3> QED BY <3>1, <3>2, Zenon
  <2> QED BY <2>1, <2>2, <2>3, Zenon DEF LimitsTypeOK
<1>4. Limited => \A q \in Requests : tx'[q].step = "idle"
  BY <1>2, Zenon DEF LimitsIInv, OnlyHolder, Commit
<1>5. OnlyHolder'
  BY <1>4, Zenon DEF OnlyHolder, Limited
<1>6. Knowledge'
  <2>1. CASE Limited
    BY <1>4, <2>1, Zenon DEF Knowledge
  <2>2. CASE ~Limited
    BY <2>2, Zenon DEF Knowledge, Limited
  <2> QED BY <2>1, <2>2, Zenon
<1>7. /\ k = "new" /\ MaxSubscriptions > 0 => PendingNew + held < MaxSubscriptions
      /\ tx[r].paysOnline /\ MaxUnpaidOrders > 0 => PendingAll < MaxUnpaidOrders
      /\ MaxSubscriptions > 0 => PendingNew + held <= MaxSubscriptions
      /\ MaxUnpaidOrders > 0 => PendingAll <= MaxUnpaidOrders
  BY Zenon DEF LimitsIInv, Knowledge, Commit, SubscriptionCapKept, UnpaidCapKept
<1>8. SubscriptionCapKept' /\ UnpaidCapKept'
  <2>1. PICK nl \in Nat, nx \in Nat, ol \in Nat, h \in Nat :
           /\ nl = pending["new"].live /\ nx = pending["new"].lapsed
           /\ ol = pending["other"].live /\ h = held
    BY <1>1, Zenon DEF Kinds
  <2>2. PendingNew = nl + nx /\ PendingAll = nl + ol
    BY <2>1, Zenon DEF PendingNew, PendingAll
  <2>3. CASE tx[r].paysOnline /\ k = "new"
    <3>1. pending'["new"].live = nl + 1 /\ pending'["new"].lapsed = nx
          /\ pending'["other"].live = ol /\ held' = h
      BY <1>1, <2>1, <2>3 DEF Commit, Kinds
    <3>2. PendingNew' = nl + 1 + nx /\ PendingAll' = nl + 1 + ol
      BY <3>1, Zenon DEF PendingNew, PendingAll
    <3>3. /\ MaxSubscriptions > 0 => nl + nx + h < MaxSubscriptions
          /\ MaxUnpaidOrders > 0 => nl + ol < MaxUnpaidOrders
      BY <1>7, <2>1, <2>2, <2>3, Zenon
    <3>4. /\ MaxSubscriptions > 0 => nl + 1 + nx + h <= MaxSubscriptions
          /\ MaxUnpaidOrders > 0 => nl + 1 + ol <= MaxUnpaidOrders
      BY <3>3 DEF LimitsAssumption
    <3> QED BY <3>1, <3>2, <3>4, Zenon DEF SubscriptionCapKept, UnpaidCapKept
  <2>4. CASE tx[r].paysOnline /\ k = "other"
    <3>1. pending'["new"].live = nl /\ pending'["new"].lapsed = nx
          /\ pending'["other"].live = ol + 1 /\ held' = h
      BY <1>1, <2>1, <2>4 DEF Commit, Kinds
    <3>2. PendingNew' = nl + nx /\ PendingAll' = nl + (ol + 1)
      BY <3>1, Zenon DEF PendingNew, PendingAll
    <3>3. /\ MaxSubscriptions > 0 => nl + nx + h <= MaxSubscriptions
          /\ MaxUnpaidOrders > 0 => nl + ol < MaxUnpaidOrders
      BY <1>7, <2>1, <2>2, <2>4, Zenon
    <3>4. MaxUnpaidOrders > 0 => nl + (ol + 1) <= MaxUnpaidOrders
      BY <3>3 DEF LimitsAssumption
    <3> QED BY <3>1, <3>2, <3>3, <3>4, Zenon DEF SubscriptionCapKept, UnpaidCapKept
  <2>5. CASE ~tx[r].paysOnline
    <3>1. pending' = pending /\ held' = h + (IF k = "new" THEN 1 ELSE 0)
      BY <2>1, <2>5, Zenon DEF Commit
    <3>2. PendingNew' = nl + nx /\ PendingAll' = nl + ol
      BY <2>2, <3>1, Zenon DEF PendingNew, PendingAll
    <3>3. /\ MaxSubscriptions > 0 => nl + nx + h <= MaxSubscriptions
          /\ k = "new" /\ MaxSubscriptions > 0 => nl + nx + h < MaxSubscriptions
          /\ MaxUnpaidOrders > 0 => nl + ol <= MaxUnpaidOrders
      BY <1>7, <2>1, <2>2, Zenon
    <3>4. MaxSubscriptions > 0
             => nl + nx + (h + (IF k = "new" THEN 1 ELSE 0)) <= MaxSubscriptions
      BY <3>3 DEF LimitsAssumption
    <3> QED BY <3>1, <3>2, <3>3, <3>4, Zenon DEF SubscriptionCapKept, UnpaidCapKept
  <2> QED BY <1>1, <2>3, <2>4, <2>5, Zenon DEF Kinds
<1> QED BY <1>3, <1>5, <1>6, <1>8, Zenon DEF LimitsIInv

-----------------------------------------------------------------------------
(* What happens to the user's orders and subscriptions meanwhile.          *)

(* SettlePayment, in time or late: a new order is counted among the        *)
(* subscriptions from the moment it leaves the pending orders.             *)
LEMMA SettleKeeps ==
    ASSUME LimitsAssumption, LimitsIInv, NEW k \in Kinds, NEW age \in {"live", "lapsed"}, Settle(k, age)
    PROVE  LimitsIInv'
<1>1. /\ held \in Nat /\ pending \in [Kinds -> [live : Nat, lapsed : Nat]]
      /\ pending[k][age] > 0
  BY Zenon DEF LimitsIInv, LimitsTypeOK, Settle
<1>2. pending[k][age] \in Nat /\ pending[k][age] - 1 \in Nat
  BY <1>1
<1>3. LimitsTypeOK'
  BY <1>1, <1>2 DEF LimitsIInv, LimitsTypeOK, Settle, Kinds
<1>4. /\ PendingNew' <= PendingNew /\ PendingAll' <= PendingAll
      /\ PendingNew' + held' <= PendingNew + held
  BY <1>1, <1>2 DEF Settle, PendingNew, PendingAll, Kinds
<1>5. UNCHANGED <<lock, tx>>
  BY Zenon DEF Settle
<1> QED BY <1>3, <1>4, <1>5, FewerIsFine, Zenon

(* Cancellation and expiry.                                                *)
LEMMA ReleaseKeeps ==
    ASSUME LimitsAssumption, LimitsIInv, NEW k \in Kinds, NEW age \in {"live", "lapsed"}, Release(k, age)
    PROVE  LimitsIInv'
<1>1. /\ held \in Nat /\ pending \in [Kinds -> [live : Nat, lapsed : Nat]]
      /\ pending[k][age] > 0
  BY Zenon DEF LimitsIInv, LimitsTypeOK, Release
<1>2. pending[k][age] \in Nat /\ pending[k][age] - 1 \in Nat
  BY <1>1
<1>3. LimitsTypeOK'
  BY <1>1, <1>2 DEF LimitsIInv, LimitsTypeOK, Release, Kinds
<1>4. /\ PendingNew' <= PendingNew /\ PendingAll' <= PendingAll
      /\ PendingNew' + held' <= PendingNew + held
  BY <1>1, <1>2 DEF Release, PendingNew, PendingAll, Kinds
<1>5. UNCHANGED <<lock, tx>>
  BY Zenon DEF Release
<1> QED BY <1>3, <1>4, <1>5, FewerIsFine, Zenon

(* The payment deadline: a lapsed new order stays counted.                 *)
LEMMA LapseKeeps ==
    ASSUME LimitsAssumption, LimitsIInv, NEW k \in Kinds, Lapse(k)
    PROVE  LimitsIInv'
<1>1. /\ held \in Nat /\ pending \in [Kinds -> [live : Nat, lapsed : Nat]]
      /\ pending[k].live > 0
  BY Zenon DEF LimitsIInv, LimitsTypeOK, Lapse
<1>2. pending[k].live - 1 \in Nat /\ pending[k].lapsed + 1 \in Nat
  BY <1>1
<1>3. LimitsTypeOK'
  BY <1>1, <1>2, Zenon DEF LimitsIInv, LimitsTypeOK, Lapse, Kinds
<1>4. /\ PendingNew' <= PendingNew /\ PendingAll' <= PendingAll
      /\ PendingNew' + held' <= PendingNew + held
  BY <1>1, <1>2 DEF Lapse, PendingNew, PendingAll, Kinds
<1>5. UNCHANGED <<lock, tx>>
  BY Zenon DEF Lapse
<1> QED BY <1>3, <1>4, <1>5, FewerIsFine, Zenon

(* A subscription is closed.                                               *)
LEMMA CloseKeeps ==
    ASSUME LimitsAssumption, LimitsIInv, Close
    PROVE  LimitsIInv'
<1>1. held \in Nat /\ held > 0 /\ pending \in [Kinds -> [live : Nat, lapsed : Nat]]
  BY Zenon DEF LimitsIInv, LimitsTypeOK, Close
<1>2. LimitsTypeOK'
  BY <1>1 DEF LimitsIInv, LimitsTypeOK, Close
<1>3. /\ PendingNew' <= PendingNew /\ PendingAll' <= PendingAll
      /\ PendingNew' + held' <= PendingNew + held
  BY <1>1 DEF Close, PendingNew, PendingAll, Kinds
<1>4. UNCHANGED <<lock, tx>>
  BY Zenon DEF Close
<1> QED BY <1>2, <1>3, <1>4, FewerIsFine, Zenon

-----------------------------------------------------------------------------
(* A user starts without orders and subscriptions.                         *)
LEMMA LimitsInitKeep == LimitsAssumption /\ LimitsInit => LimitsIInv
<1> SUFFICES ASSUME LimitsAssumption, LimitsInit PROVE LimitsIInv
  BY Zenon
<1>1. Idle \in [step : Steps, kind : Kinds, paysOnline : BOOLEAN, counted : Nat] /\ Idle.step = "idle"
  BY Zenon DEF Idle, Steps, Kinds
<1>2. LimitsTypeOK
  BY <1>1, Zenon DEF LimitsInit, LimitsTypeOK
<1>3. \A r \in Requests : tx[r].step = "idle"
  BY <1>1, Zenon DEF LimitsInit
<1>4. PendingNew = 0 /\ PendingAll = 0 /\ held = 0
  BY DEF LimitsInit, PendingNew, PendingAll, Kinds
<1>5. OnlyHolder /\ Knowledge
  BY <1>3, Zenon DEF OnlyHolder, Knowledge
<1>6. SubscriptionCapKept /\ UnpaidCapKept
  BY <1>4 DEF SubscriptionCapKept, UnpaidCapKept, LimitsAssumption
<1> QED BY <1>2, <1>5, <1>6, Zenon DEF LimitsIInv

(* Every step keeps the limits and what requests know.                     *)
LEMMA LimitsNextKeep == LimitsAssumption /\ LimitsIInv /\ [LimitsNext]_limitVars => LimitsIInv'
<1> SUFFICES ASSUME LimitsAssumption, LimitsIInv, [LimitsNext]_limitVars PROVE LimitsIInv'
  BY Zenon
<1>1. CASE UNCHANGED limitVars
  BY <1>1, Zenon DEF limitVars, LimitsIInv, LimitsTypeOK, OnlyHolder, Limited, Knowledge, SubscriptionCapKept,
              UnpaidCapKept, PendingNew, PendingAll
<1>2. ASSUME NEW r \in Requests, NEW k \in Kinds, NEW online \in BOOLEAN, Begin(r, k, online)
      PROVE  LimitsIInv'
  BY <1>2, BeginKeeps, Zenon
<1>3. ASSUME NEW r \in Requests, SubscriptionCap(r) PROVE LimitsIInv'
  BY <1>3, CountFirstKeeps, CountSecondKeeps, Zenon DEF SubscriptionCap
<1>4. ASSUME NEW r \in Requests, CheckUnpaidCap(r) PROVE LimitsIInv'
  BY <1>4, CheckUnpaidCapKeeps, Zenon
<1>5. ASSUME NEW r \in Requests, Commit(r) PROVE LimitsIInv'
  BY <1>5, CommitKeeps, SMTT(20)
<1>6. ASSUME NEW r \in Requests, Fail(r) PROVE LimitsIInv'
  BY <1>6, FinishIsFine, Zenon DEF Fail, LimitsIInv
<1>7. ASSUME NEW k \in Kinds, Lapse(k) PROVE LimitsIInv'
  BY <1>7, LapseKeeps, Zenon
<1>8. ASSUME NEW k \in Kinds, NEW age \in {"live", "lapsed"}, Settle(k, age) \/ Release(k, age)
      PROVE  LimitsIInv'
  BY <1>8, SettleKeeps, ReleaseKeeps, Zenon
<1>9. CASE Close
  BY <1>9, CloseKeeps, Zenon
<1> QED BY <1>1, <1>2, <1>3, <1>4, <1>5, <1>6, <1>7, <1>8, <1>9, Zenon DEF LimitsNext

(* purchaseGate, subscriptionCap and checkUnpaidCap: the inductive         *)
(* invariant holds in every state.                                         *)
THEOREM LimitsInvariant == LimitsSpec => []LimitsIInv
<1>1. LimitsAssumption
  BY LimitsAssumption, Zenon
<1>2. LimitsInit => LimitsIInv
  BY <1>1, LimitsInitKeep, Zenon
<1>3. LimitsIInv /\ [LimitsNext]_limitVars => LimitsIInv'
  BY <1>1, LimitsNextKeep, Zenon
<1> QED BY <1>2, <1>3, PTL DEF LimitsSpec

(* subscriptionCap and checkUnpaidCap: whatever interleaves with the       *)
(* counts of a request, neither the user's subscriptions with the orders   *)
(* that may become one, nor the unpaid orders, exceed their limit.         *)
THEOREM LimitsHold == LimitsSpec => []CapsInv
<1>1. LimitsIInv => CapsInv
  BY Zenon DEF LimitsIInv, CapsInv
<1> QED BY <1>1, LimitsInvariant, PTL

-----------------------------------------------------------------------------
(***************************************************************************)
(* Redemptions of gift cards, for any users, codes and requests.           *)
(*                                                                         *)
(* A limit is kept because of what a request knows between its count and   *)
(* its commit: it alone has the advisory lock of its user, so the limited  *)
(* redemptions it counted are still all there are.  That a request acts    *)
(* for an active user follows from the share lock it took first.           *)
(***************************************************************************)
Redemptions == [code : Codes, user : Users, limit : Limits]

\* The limited redemptions of a user, which LimitKept is about.
LimitedOf(u) == {i \in 1..Len(redemptions) : redemptions[i].user = u /\ redemptions[i].limit > 0}

\* What a request in flight knows.
RequestKnows(r) ==
    redeeming[r] # None =>
        /\ redeeming[r] \in Redeemings
        /\ user[redeeming[r].user] = "active"
        /\ redeeming[r].step \in {"limit", "place", "grant"} => redeeming[r].limit \in Limits
        /\ HoldsLimit(r, redeeming[r].user) =>
              Cardinality(LimitedOf(redeeming[r].user)) < redeeming[r].limit

OneLimitHolder ==
    \A r, o \in Requests : \A u \in Users : HoldsLimit(r, u) /\ HoldsLimit(o, u) => r = o

CardIInv ==
    /\ CardTypeOK /\ UsedIffRedeemed /\ LimitKept
    /\ OneLimitHolder
    /\ \A r \in Requests : RequestKnows(r)

-----------------------------------------------------------------------------
(* The redemptions of a user are counted, limited ones among them.         *)
LEMMA RedemptionsCounted ==
    ASSUME CardTypeOK, NEW u
    PROVE  /\ IsFiniteSet(LimitedOf(u)) /\ Cardinality(LimitedOf(u)) \in Nat
           /\ UserTemplateUsage(u) \in Nat /\ Cardinality(LimitedOf(u)) <= UserTemplateUsage(u)
<1>1. Len(redemptions) \in Nat
  BY DEF CardTypeOK
<1>2. IsFiniteSet(1..Len(redemptions))
  BY <1>1, FS_Interval
<1> DEFINE U == {i \in 1..Len(redemptions) : redemptions[i].user = u}
<1>3. U \in SUBSET (1..Len(redemptions)) /\ LimitedOf(u) \in SUBSET U
  BY Zenon DEF LimitedOf
<1>4. IsFiniteSet(U)
  BY <1>2, <1>3, FS_Subset, Zenon
<1>5. IsFiniteSet(LimitedOf(u)) /\ Cardinality(LimitedOf(u)) <= Cardinality(U)
  BY <1>3, <1>4, FS_Subset, Zenon
<1>6. Cardinality(U) \in Nat /\ Cardinality(LimitedOf(u)) \in Nat
  BY <1>4, <1>5, FS_CardinalityType, Zenon
<1> QED BY <1>5, <1>6, Zenon DEF UserTemplateUsage

(* A request that goes on or ends takes nothing from the others, as long   *)
(* as it gets an advisory lock only when nobody has it.                    *)
LEMMA RequestMoves ==
    ASSUME CardIInv, NEW r \in Requests, NEW x \in Redeemings \cup {None},
           redeeming' = [redeeming EXCEPT ![r] = x], UNCHANGED <<user, redemptions>>,
           x # None =>
              /\ user[x.user] = "active"
              /\ x.step \in {"limit", "place", "grant"} => x.limit \in Limits
              /\ x.limit > 0 /\ x.step \in {"place", "grant"} =>
                    /\ Cardinality(LimitedOf(x.user)) < x.limit
                    /\ \A o \in Requests : HoldsLimit(o, x.user) => o = r
    PROVE  OneLimitHolder' /\ \A o \in Requests : RequestKnows(o)'
<1>1. redeeming'[r] = x /\ \A o \in Requests : o # r => redeeming'[o] = redeeming[o]
  BY Zenon DEF CardIInv, CardTypeOK
<1>2. \A u : LimitedOf(u)' = LimitedOf(u)
  BY Zenon DEF LimitedOf
<1>3. \A o \in Requests : o # r => (\A u : HoldsLimit(o, u)' <=> HoldsLimit(o, u))
  BY <1>1, Zenon DEF HoldsLimit
<1>4. ASSUME NEW u, HoldsLimit(r, u)'
      PROVE  x # None /\ x.user = u /\ x.limit > 0 /\ x.step \in {"place", "grant"}
  BY <1>1, <1>4, Zenon DEF HoldsLimit
<1>5. \A u : HoldsLimit(r, u)' => \A o \in Requests : HoldsLimit(o, u) => o = r
  BY <1>4, Zenon
<1>6. OneLimitHolder'
  BY <1>3, <1>5, Zenon DEF OneLimitHolder, CardIInv
<1>7. ASSUME NEW o \in Requests PROVE RequestKnows(o)'
  <2>1. CASE o = r
    <3>1. CASE x = None
      BY <1>1, <2>1, <3>1, Zenon DEF RequestKnows
    <3>2. CASE x # None
      <4>1. HoldsLimit(r, x.user)' => Cardinality(LimitedOf(x.user)) < x.limit
        BY <1>4, <3>2, Zenon
      <4>2. x \in Redeemings
        BY <3>2, Zenon
      <4> QED BY <1>1, <1>2, <2>1, <3>2, <4>1, <4>2, Zenon DEF RequestKnows
    <3> QED BY <3>1, <3>2, Zenon
  <2>2. CASE o # r
    BY <1>1, <1>2, <1>3, <2>2, Zenon DEF RequestKnows, CardIInv
  <2> QED BY <2>1, <2>2, Zenon
<1> QED BY <1>6, <1>7, Zenon

(* What a request in flight is, by its step.                               *)
LEMMA InFlight ==
    ASSUME CardIInv, NEW r \in Requests, redeeming[r] # None
    PROVE  /\ redeeming[r] \in Redeemings /\ redeeming[r].user \in Users /\ redeeming[r].code \in Codes
           /\ redeeming[r].limit \in Nat /\ user[redeeming[r].user] = "active"
           /\ redeeming[r].step \in {"limit", "place", "grant"} => redeeming[r].limit \in Limits
           /\ HoldsLimit(r, redeeming[r].user) =>
                 /\ Cardinality(LimitedOf(redeeming[r].user)) < redeeming[r].limit
                 /\ \A o \in Requests : HoldsLimit(o, redeeming[r].user) => o = r
<1>1. RequestKnows(r) /\ OneLimitHolder
  BY Zenon DEF CardIInv
<1>2. redeeming[r] \in Redeemings
  BY <1>1, Zenon DEF RequestKnows
<1>3. redeeming[r].user \in Users /\ redeeming[r].code \in Codes /\ redeeming[r].limit \in Nat
  <2>1. redeeming[r].limit \in Limits \cup {0}
    BY <1>2, Zenon DEF Redeemings
  <2>2. redeeming[r].limit \in Nat
    <3>1. Limits \subseteq Nat
      BY GiftCardAssumption, Zenon
    <3> QED BY <2>1, <3>1
  <2>3. redeeming[r].user \in Users /\ redeeming[r].code \in Codes
    BY <1>2, Zenon DEF Redeemings
  <2> QED BY <2>2, <2>3, Zenon
<1> QED BY <1>1, <1>2, <1>3, Zenon DEF RequestKnows, OneLimitHolder

(* A step that leaves codes, redemptions and rewards alone keeps what is   *)
(* said of them.                                                           *)
LEMMA BooksAlone ==
    ASSUME UsedIffRedeemed, LimitKept, UNCHANGED <<code, redemptions, paid>>
    PROVE  UsedIffRedeemed' /\ LimitKept'
BY Zenon DEF UsedIffRedeemed, LimitKept

(* So does one that only moves codes nobody has redeemed.                  *)
LEMMA CodesUnredeemed ==
    ASSUME UsedIffRedeemed, UNCHANGED <<redemptions, paid>>,
           \A c \in Codes : \/ code'[c] = code[c]
                            \/ code[c].status # "used" /\ code'[c].status # "used" /\ code'[c].usedBy = None
    PROVE  UsedIffRedeemed'
<1> SUFFICES ASSUME NEW c \in Codes
             PROVE  LET by == {i \in 1..Len(redemptions) : redemptions[i].code = c}
                    IN  IF code'[c].status = "used"
                        THEN /\ paid[c] = 1 /\ Cardinality(by) = 1
                             /\ \A i \in by : redemptions[i].user = code'[c].usedBy
                        ELSE by = {} /\ paid[c] = 0 /\ code'[c].usedBy = None
  BY DEF UsedIffRedeemed
<1>1. CASE code'[c] = code[c]
  BY <1>1, ZenonT(30) DEF UsedIffRedeemed
<1>2. CASE code[c].status # "used" /\ code'[c].status # "used" /\ code'[c].usedBy = None
  BY <1>2, Zenon DEF UsedIffRedeemed
<1> QED BY <1>1, <1>2, Zenon

-----------------------------------------------------------------------------
(* IsDeleted, the template, the count under the lock, the placement and    *)
(* an abort: the steps of a request that write nothing.                    *)
LEMMA ReadsKeepCards ==
    ASSUME CardIInv, NEW r \in Requests,
           \/ \E u \in Users, c \in Codes : BeginRedeem(r, u, c)
           \/ ReadTemplate(r) \/ LockLimit(r) \/ Place(r) \/ Abort(r)
    PROVE  CardIInv'
<1>1. UNCHANGED <<user, target, code, late, template, redemptions, paid, edits>>
  BY Zenon DEF BeginRedeem, ReadTemplate, LockLimit, Place, Abort
<1>2. redeeming \in [Requests -> {None} \cup Redeemings] /\ template.limit \in Limits
  BY Zenon DEF CardIInv, CardTypeOK
<1>3. PICK x \in Redeemings \cup {None} :
        /\ redeeming' = [redeeming EXCEPT ![r] = x]
        /\ x # None =>
              /\ user[x.user] = "active"
              /\ x.step \in {"limit", "place", "grant"} => x.limit \in Limits
              /\ x.limit > 0 /\ x.step \in {"place", "grant"} =>
                    /\ Cardinality(LimitedOf(x.user)) < x.limit
                    /\ \A o \in Requests : HoldsLimit(o, x.user) => o = r
  <2>1. CASE \E u \in Users, c \in Codes : BeginRedeem(r, u, c)
    <3>1. PICK u \in Users, c \in Codes : BeginRedeem(r, u, c)
      BY <2>1, Zenon
    <3> DEFINE x == [user |-> u, code |-> c, limit |-> 0, step |-> "lock"]
    <3>2. x \in Redeemings
      BY Zenon DEF Redeemings, RedeemSteps
    <3>3. redeeming' = [redeeming EXCEPT ![r] = x] /\ user[u] = "active"
      BY <3>1, Zenon DEF BeginRedeem
    <3>4. x.user = u /\ x.step = "lock"
      BY Zenon
    <3> HIDE DEF x
    <3> QED BY <3>2, <3>3, <3>4, Zenon
  <2>2. CASE ReadTemplate(r)
    <3> DEFINE x == IF template.status # "active" THEN None
                    ELSE [redeeming[r] EXCEPT !.limit = template.limit,
                                              !.step = IF template.limit > 0 THEN "limit" ELSE "place"]
    <3>1. redeeming[r] # None /\ redeeming' = [redeeming EXCEPT ![r] = x]
      BY <1>2, <2>2, Zenon DEF ReadTemplate
    <3>2. redeeming[r] \in Redeemings /\ user[redeeming[r].user] = "active"
      BY <3>1, InFlight, Zenon
    <3>3. x # None => /\ x \in Redeemings /\ x.user = redeeming[r].user /\ x.limit = template.limit
                      /\ x.step = IF template.limit > 0 THEN "limit" ELSE "place"
      BY <1>2, <3>2, Zenon DEF Redeemings, RedeemSteps
    <3> HIDE DEF x
    <3>4. x \in Redeemings \cup {None}
      BY <3>3, Zenon
    <3> QED BY <1>2, <3>1, <3>2, <3>3, <3>4, Zenon
  <2>3. CASE LockLimit(r)
    <3> DEFINE x == IF UserTemplateUsage(redeeming[r].user) >= redeeming[r].limit THEN None
                    ELSE [redeeming[r] EXCEPT !.step = "place"]
    <3>1. /\ redeeming[r] # None /\ redeeming[r].step = "limit" /\ redeeming' = [redeeming EXCEPT ![r] = x]
          /\ \A o \in Requests : ~HoldsLimit(o, redeeming[r].user)
      BY <1>2, <2>3, Zenon DEF LockLimit
    <3>2. /\ redeeming[r] \in Redeemings /\ user[redeeming[r].user] = "active"
          /\ redeeming[r].limit \in Limits /\ redeeming[r].limit \in Nat
      BY <3>1, InFlight, Zenon
    <3>3. x # None => /\ x \in Redeemings /\ x.user = redeeming[r].user /\ x.limit = redeeming[r].limit
                      /\ ~(UserTemplateUsage(redeeming[r].user) >= redeeming[r].limit)
      BY <3>2, Zenon DEF Redeemings, RedeemSteps
    <3>4. x # None => Cardinality(LimitedOf(x.user)) < x.limit
      BY <3>2, <3>3, RedemptionsCounted DEF CardIInv
    <3> HIDE DEF x
    <3>5. x \in Redeemings \cup {None}
      BY <3>3, Zenon
    <3> QED BY <3>1, <3>2, <3>3, <3>4, <3>5, Zenon
  <2>4. CASE Place(r)
    <3> DEFINE x == IF ~Lands(redeeming[r].user) THEN None ELSE [redeeming[r] EXCEPT !.step = "grant"]
    <3>1. redeeming[r] # None /\ redeeming[r].step = "place" /\ redeeming' = [redeeming EXCEPT ![r] = x]
      BY <1>2, <2>4, Zenon DEF Place
    <3>2. /\ redeeming[r] \in Redeemings /\ user[redeeming[r].user] = "active"
          /\ redeeming[r].limit \in Limits
          /\ HoldsLimit(r, redeeming[r].user) =>
                /\ Cardinality(LimitedOf(redeeming[r].user)) < redeeming[r].limit
                /\ \A o \in Requests : HoldsLimit(o, redeeming[r].user) => o = r
      BY <3>1, InFlight, Zenon
    <3>3. redeeming[r].limit > 0 => HoldsLimit(r, redeeming[r].user)
      BY <3>1, Zenon DEF HoldsLimit
    <3>4. x # None => x \in Redeemings /\ x.user = redeeming[r].user /\ x.limit = redeeming[r].limit
      BY <3>2, Zenon DEF Redeemings, RedeemSteps
    <3> HIDE DEF x
    <3>5. x \in Redeemings \cup {None}
      BY <3>4, Zenon
    <3> QED BY <3>1, <3>2, <3>3, <3>4, <3>5, Zenon
  <2>5. CASE Abort(r)
    BY <2>5, Zenon DEF Abort
  <2> QED BY <2>1, <2>2, <2>3, <2>4, <2>5, Zenon
<1>4. OneLimitHolder' /\ \A o \in Requests : RequestKnows(o)'
  BY <1>1, <1>3, RequestMoves, Zenon
<1>5. redeeming' \in [Requests -> {None} \cup Redeemings]
  BY <1>2, <1>3, Zenon
<1>6. CardTypeOK'
  BY <1>1, <1>5, Zenon DEF CardIInv, CardTypeOK
<1>7. UsedIffRedeemed' /\ LimitKept'
  BY <1>1, BooksAlone, Zenon DEF CardIInv
<1> QED BY <1>4, <1>6, <1>7, Zenon DEF CardIInv
(* CodeByHash: a code that has lapsed is marked; nobody has redeemed it.   *)
LEMMA LockCodeKeepsCards ==
    ASSUME CardIInv, NEW r \in Requests, LockCode(r)
    PROVE  CardIInv' /\ FinalCodesKept
<1> DEFINE c == redeeming[r].code
           lapsed == code[c].status = "unused" /\ c \in late
           x == IF code[c].status # "unused" \/ lapsed THEN None ELSE [redeeming[r] EXCEPT !.step = "template"]
<1>1. UNCHANGED <<user, target, late, template, redemptions, paid, edits>> /\ redeeming[r] # None
  BY Zenon DEF LockCode
<1>2. /\ redeeming \in [Requests -> {None} \cup Redeemings]
      /\ code \in [Codes -> [status : CodeStatuses, usedBy : Users \cup {None}]]
  BY Zenon DEF CardIInv, CardTypeOK
<1>3. /\ redeeming' = [redeeming EXCEPT ![r] = x]
      /\ code' = IF lapsed THEN [code EXCEPT ![c].status = "expired"] ELSE code
  BY <1>2, Zenon DEF LockCode
<1>4. redeeming[r] \in Redeemings /\ c \in Codes /\ user[redeeming[r].user] = "active"
  BY <1>1, InFlight, Zenon
<1>5. x # None => x \in Redeemings /\ x.user = redeeming[r].user /\ x.step = "template"
  BY <1>4, Zenon DEF Redeemings, RedeemSteps
<1>6. x \in Redeemings \cup {None}
  BY <1>5, Zenon
<1> HIDE DEF x
<1>7. OneLimitHolder' /\ \A o \in Requests : RequestKnows(o)'
  BY <1>1, <1>3, <1>4, <1>5, <1>6, RequestMoves, Zenon
<1>8. code' \in [Codes -> [status : CodeStatuses, usedBy : Users \cup {None}]]
  BY <1>2, <1>3, <1>4, Zenon DEF CodeStatuses
<1>9. CardTypeOK'
  <2>1. redeeming' \in [Requests -> {None} \cup Redeemings]
    BY <1>2, <1>3, <1>6, Zenon
  <2> QED BY <1>1, <1>8, <2>1, Zenon DEF CardIInv, CardTypeOK
<1>10. \A d \in Codes :
         \/ code'[d] = code[d]
         \/ code[d].status = "unused" /\ code'[d].status = "expired" /\ code'[d].usedBy = code[d].usedBy
  BY <1>2, <1>3, <1>4, SMTT(20)
<1>11. UsedIffRedeemed'
  <2>1. \A d \in Codes : code[d].status = "unused" => code[d].usedBy = None
    BY Zenon DEF CardIInv, UsedIffRedeemed
  <2>2. \A d \in Codes : \/ code'[d] = code[d]
                         \/ code[d].status # "used" /\ code'[d].status # "used" /\ code'[d].usedBy = None
    BY <1>10, <2>1, Zenon
  <2> QED BY <1>1, <2>2, CodesUnredeemed, Zenon DEF CardIInv
<1>12. LimitKept'
  BY <1>1, Zenon DEF CardIInv, LimitKept
<1>13. FinalCodesKept
  BY <1>10, Zenon DEF FinalCodesKept
<1> QED BY <1>7, <1>9, <1>11, <1>12, <1>13, Zenon DEF CardIInv

(* Admins, time and deletion: no redemption comes or goes, and a code      *)
(* stays what it is or was one that nobody has redeemed.                   *)
LEMMA AdminKeepsCards ==
    ASSUME CardIInv, CardTypeOK', UNCHANGED <<redemptions, paid, redeeming>>,
           \A u \in Users : user'[u] = user[u] \/ \A r \in Requests : redeeming[r] # None => redeeming[r].user # u,
           \A c \in Codes : \/ code'[c] = code[c]
                            \/ /\ code[c].status \in {"absent", "unused", "disabled"}
                               /\ code'[c].status \in {"unused", "disabled"}
                               /\ code'[c].usedBy = None
    PROVE  CardIInv' /\ FinalCodesKept /\ RedeemedByActive
<1>1. \A u : LimitedOf(u)' = LimitedOf(u)
  BY Zenon DEF LimitedOf
<1>2. \A r \in Requests : \A u : HoldsLimit(r, u)' <=> HoldsLimit(r, u)
  BY Zenon DEF HoldsLimit
<1>3. OneLimitHolder'
  BY <1>2, Zenon DEF OneLimitHolder, CardIInv
<1>4. ASSUME NEW r \in Requests PROVE RequestKnows(r)'
  <2>1. CASE redeeming[r] = None
    BY <2>1, Zenon DEF RequestKnows
  <2>2. CASE redeeming[r] # None
    <3>1. redeeming[r].user \in Users /\ user[redeeming[r].user] = "active" /\ RequestKnows(r)
      BY <2>2, InFlight, Zenon DEF CardIInv
    <3>2. user'[redeeming[r].user] = user[redeeming[r].user]
      BY <2>2, <3>1, SMTT(20)
    <3> QED BY <1>1, <1>2, <2>2, <3>1, <3>2, Zenon DEF RequestKnows
  <2> QED BY <2>1, <2>2, Zenon
<1>5. UsedIffRedeemed'
  <2>1. \A d \in Codes : \/ code'[d] = code[d]
                         \/ code[d].status # "used" /\ code'[d].status # "used" /\ code'[d].usedBy = None
    BY Zenon
  <2> QED BY <2>1, CodesUnredeemed, Zenon DEF CardIInv
<1>6. LimitKept' /\ FinalCodesKept
  BY Zenon DEF CardIInv, LimitKept, FinalCodesKept
<1>7. RedeemedByActive
  <2>1. Len(redemptions') = Len(redemptions) /\ Len(redemptions) \in Nat
    BY DEF CardIInv, CardTypeOK
  <2> QED BY <2>1 DEF RedeemedByActive
<1> QED BY <1>3, <1>4, <1>5, <1>6, <1>7, Zenon DEF CardIInv

(* GenerateCodes, ToggleCode, SaveTemplate, the deletion of an account,    *)
(* the end of a subscription and the deadline of a code.                   *)
LEMMA AdminsKeepCards ==
    ASSUME CardIInv,
           \/ \E batch \in SUBSET Codes : GenerateCodes(batch)
           \/ \E c \in Codes : LapseCode(c) \/ \E disabled \in BOOLEAN : ToggleCode(c, disabled)
           \/ \E status \in TemplateStatuses, limit \in Limits : SaveTemplate(status, limit)
           \/ \E u \in Users : DeleteAccount(u) \/ EndTarget(u)
    PROVE  CardIInv' /\ FinalCodesKept /\ RedeemedByActive
<1>1. CardTypeOK
  BY Zenon DEF CardIInv
<1>2. /\ code \in [Codes -> [status : CodeStatuses, usedBy : Users \cup {None}]]
      /\ \A c \in Codes : code[c].status # "used" => code[c].usedBy = None
  BY Zenon DEF CardIInv, CardTypeOK, UsedIffRedeemed
<1>3. ASSUME Edit PROVE edits' \in 0..MaxEdits
  BY <1>1, <1>3, GiftCardAssumption, SMTT(20) DEF CardTypeOK, Edit
<1>4. ASSUME NEW batch \in SUBSET Codes, GenerateCodes(batch)
      PROVE  CardIInv' /\ FinalCodesKept /\ RedeemedByActive
  <2>1. UNCHANGED <<user, target, late, template, redemptions, paid, redeeming>> /\ Edit
    BY <1>4, Zenon DEF GenerateCodes
  <2>2. \A c \in Codes : /\ c \in batch => code[c].status = "absent"
                         /\ code'[c] = IF c \in batch THEN [code[c] EXCEPT !.status = "unused"] ELSE code[c]
    BY <1>4, Zenon DEF GenerateCodes
  <2>3. code' \in [Codes -> [status : CodeStatuses, usedBy : Users \cup {None}]]
    BY <1>2, <1>4, Zenon DEF GenerateCodes, CodeStatuses
  <2>4. CardTypeOK'
    BY <1>1, <1>3, <2>1, <2>3, Zenon DEF CardTypeOK
  <2>5. \A c \in Codes : \/ code'[c] = code[c]
                         \/ /\ code[c].status \in {"absent", "unused", "disabled"}
                            /\ code'[c].status \in {"unused", "disabled"}
                            /\ code'[c].usedBy = None
    BY <1>2, <2>2, Zenon
  <2> QED BY <2>1, <2>4, <2>5, AdminKeepsCards, Zenon
<1>5. ASSUME NEW c \in Codes, NEW disabled \in BOOLEAN, ToggleCode(c, disabled)
      PROVE  CardIInv' /\ FinalCodesKept /\ RedeemedByActive
  <2>1. UNCHANGED <<user, target, late, template, redemptions, paid, redeeming>> /\ Edit
    BY <1>5, Zenon DEF ToggleCode
  <2>2. PICK to \in {"unused", "disabled"} :
          /\ code[c].status \in {"unused", "disabled"}
          /\ code' = [code EXCEPT ![c] = [status |-> to, usedBy |-> None]]
    BY <1>5, Zenon DEF ToggleCode
  <2>3. code' \in [Codes -> [status : CodeStatuses, usedBy : Users \cup {None}]]
    BY <1>2, <2>2, Zenon DEF CodeStatuses
  <2>4. CardTypeOK'
    BY <1>1, <1>3, <2>1, <2>3, Zenon DEF CardTypeOK
  <2>5. \A d \in Codes : \/ code'[d] = code[d]
                         \/ /\ code[d].status \in {"absent", "unused", "disabled"}
                            /\ code'[d].status \in {"unused", "disabled"}
                            /\ code'[d].usedBy = None
    BY <1>2, <2>2, SMTT(20)
  <2> QED BY <2>1, <2>4, <2>5, AdminKeepsCards, Zenon
<1>6. ASSUME NEW c \in Codes, LapseCode(c)
      PROVE  CardIInv' /\ FinalCodesKept /\ RedeemedByActive
  <2>1. UNCHANGED <<user, target, code, template, redemptions, paid, redeeming>> /\ Edit /\ late' = late \cup {c}
    BY <1>6, Zenon DEF LapseCode
  <2>2. CardTypeOK'
    BY <1>1, <1>3, <2>1, Zenon DEF CardTypeOK
  <2> QED BY <2>1, <2>2, AdminKeepsCards, Zenon
<1>7. ASSUME NEW status \in TemplateStatuses, NEW limit \in Limits, SaveTemplate(status, limit)
      PROVE  CardIInv' /\ FinalCodesKept /\ RedeemedByActive
  <2>1. UNCHANGED <<user, target, code, late, redemptions, paid, redeeming>> /\ Edit
    BY <1>7, ZenonT(20) DEF SaveTemplate
  <2>2. template' \in [status : TemplateStatuses, limit : Limits, placed : BOOLEAN]
    BY <1>1, <1>7, Zenon DEF SaveTemplate, CardTypeOK
  <2>3. CardTypeOK'
    BY <1>1, <1>3, <2>1, <2>2, SMTT(20) DEF CardTypeOK
  <2> QED BY <2>1, <2>3, AdminKeepsCards, SMTT(20)
<1>8. ASSUME NEW u \in Users, DeleteAccount(u)
      PROVE  CardIInv' /\ FinalCodesKept /\ RedeemedByActive
  <2>1. UNCHANGED <<code, late, template, redemptions, paid, redeeming>> /\ Edit
    BY <1>8, Zenon DEF DeleteAccount
  <2>2. user' = [user EXCEPT ![u] = "deleted"] /\ target' = [target EXCEPT ![u] = "ended"]
    BY <1>8, Zenon DEF DeleteAccount
  <2>3. CardTypeOK'
    BY <1>1, <1>3, <2>1, <2>2, SMTT(20) DEF CardTypeOK
  <2>4. \A r \in Requests : redeeming[r] # None => redeeming[r].user # u
    BY <1>8, Zenon DEF DeleteAccount
  <2>5. \A v \in Users : v # u => user'[v] = user[v]
    BY <1>1, <2>2, Zenon DEF CardTypeOK
  <2> QED BY <2>1, <2>3, <2>4, <2>5, AdminKeepsCards, SMTT(20)
<1>9. ASSUME NEW u \in Users, EndTarget(u)
      PROVE  CardIInv' /\ FinalCodesKept /\ RedeemedByActive
  <2>1. UNCHANGED <<user, code, late, template, redemptions, paid, redeeming>> /\ Edit
        /\ target' = [target EXCEPT ![u] = "ended"]
    BY <1>9, Zenon DEF EndTarget
  <2>2. CardTypeOK'
    BY <1>1, <1>3, <2>1, Zenon DEF CardTypeOK
  <2> QED BY <2>1, <2>2, AdminKeepsCards, Zenon
<1> QED BY <1>4, <1>5, <1>6, <1>7, <1>8, <1>9, Zenon
-----------------------------------------------------------------------------
(* One more redemption, of a code that had none.                           *)
LEMMA RedeemedOnce ==
    ASSUME CardTypeOK, UsedIffRedeemed, NEW c \in Codes, NEW u \in Users, NEW e \in Redemptions,
           e.code = c, e.user = u, code[c].status = "unused",
           redemptions' = Append(redemptions, e),
           code' = [code EXCEPT ![c] = [status |-> "used", usedBy |-> u]],
           paid' = [paid EXCEPT ![c] = @ + 1]
    PROVE  UsedIffRedeemed'
<1> DEFINE By(d) == {i \in 1..Len(redemptions) : redemptions[i].code = d}
           ByNow(d) == {i \in 1..Len(redemptions') : redemptions'[i].code = d}
           n == Len(redemptions)
<1>1. n \in Nat /\ redemptions \in Seq(Redemptions)
  BY DEF CardTypeOK, Redemptions
<1>2. /\ Len(redemptions') = n + 1 /\ redemptions'[n + 1] = e
      /\ \A i \in 1..n : redemptions'[i] = redemptions[i]
  BY <1>1
<1>3. ASSUME NEW d \in Codes, d # c
      PROVE  ByNow(d) = By(d) /\ code'[d] = code[d] /\ paid'[d] = paid[d]
  <2>1. code'[d] = code[d] /\ paid'[d] = paid[d]
    BY <1>3, SMTT(20) DEF CardTypeOK
  <2>2. ByNow(d) = By(d)
    BY <1>1, <1>2, <1>3
  <2> QED BY <2>1, <2>2, Zenon
<1>4. By(c) = {} /\ paid[c] = 0
  BY Zenon DEF UsedIffRedeemed
<1>5. ByNow(c) = {n + 1}
  BY <1>1, <1>2, <1>4
<1>6. Cardinality(ByNow(c)) = 1 /\ paid'[c] = 1 /\ code'[c].status = "used" /\ code'[c].usedBy = u
  <2>1. Cardinality(ByNow(c)) = 1
    BY <1>5, FS_Singleton, Zenon
  <2>2. paid'[c] = 1
    BY <1>4 DEF CardTypeOK
  <2>3. code'[c].status = "used" /\ code'[c].usedBy = u
    BY Zenon DEF CardTypeOK
  <2> QED BY <2>1, <2>2, <2>3, Zenon
<1>7. \A i \in ByNow(c) : redemptions'[i].user = u
  BY <1>2, <1>5, Zenon
<1>8. ASSUME NEW d \in Codes
      PROVE  IF code'[d].status = "used"
             THEN /\ paid'[d] = 1 /\ Cardinality(ByNow(d)) = 1
                  /\ \A i \in ByNow(d) : redemptions'[i].user = code'[d].usedBy
             ELSE ByNow(d) = {} /\ paid'[d] = 0 /\ code'[d].usedBy = None
  <2>1. CASE d = c
    BY <1>6, <1>7, <2>1, Zenon
  <2>2. CASE d # c
    <3>1. IF code[d].status = "used"
          THEN /\ paid[d] = 1 /\ Cardinality(By(d)) = 1
               /\ \A i \in By(d) : redemptions[i].user = code[d].usedBy
          ELSE By(d) = {} /\ paid[d] = 0 /\ code[d].usedBy = None
      BY Zenon DEF UsedIffRedeemed
    <3>2. \A i \in By(d) : redemptions'[i] = redemptions[i]
      BY <1>2, Zenon
    <3>3. ByNow(d) = By(d) /\ code'[d] = code[d] /\ paid'[d] = paid[d]
      BY <1>3, <2>2, Zenon
    <3> HIDE DEF By, ByNow
    <3>4. CASE code[d].status = "used"
      <4>1. /\ paid[d] = 1 /\ Cardinality(By(d)) = 1
            /\ \A i \in By(d) : redemptions[i].user = code[d].usedBy
        BY <3>1, <3>4, Zenon
      <4>2. \A i \in ByNow(d) : redemptions'[i].user = code'[d].usedBy
        BY <3>2, <3>3, <4>1, Zenon
      <4> QED BY <3>3, <3>4, <4>1, <4>2, Zenon
    <3>5. CASE code[d].status # "used"
      BY <3>1, <3>3, <3>5, Zenon
    <3> QED BY <3>4, <3>5, Zenon
  <2> QED BY <2>1, <2>2, Zenon
<1> QED BY <1>8, Zenon DEF UsedIffRedeemed

(* A limited redemption is within its limit when the limited ones before   *)
(* it were below.                                                          *)
LEMMA LimitStillKept ==
    ASSUME CardTypeOK, LimitKept, NEW e \in Redemptions, redemptions' = Append(redemptions, e),
           e.limit > 0 => Cardinality(LimitedOf(e.user)) < e.limit
    PROVE  /\ LimitKept'
           /\ \A u \in Users : ~(u = e.user /\ e.limit > 0) => LimitedOf(u)' = LimitedOf(u)
<1> DEFINE n == Len(redemptions)
           Before(rs, i) == {j \in 1..i : rs[j].user = rs[i].user /\ rs[j].limit > 0}
<1>1. n \in Nat /\ redemptions \in Seq(Redemptions)
  BY SMTT(20) DEF CardTypeOK, Redemptions
<1>2. /\ Len(redemptions') = n + 1 /\ redemptions'[n + 1] = e
      /\ \A i \in 1..n : redemptions'[i] = redemptions[i]
  BY <1>1
<1>3. \A i \in 1..n : Before(redemptions', i) = Before(redemptions, i)
  BY <1>1, <1>2
<1>4. ASSUME e.limit > 0
      PROVE  Cardinality(Before(redemptions', n + 1)) <= e.limit
  <2>1. Before(redemptions', n + 1) = LimitedOf(e.user) \cup {n + 1}
    BY <1>1, <1>2, <1>4 DEF LimitedOf
  <2>2. IsFiniteSet(LimitedOf(e.user)) /\ Cardinality(LimitedOf(e.user)) \in Nat
    BY RedemptionsCounted, Zenon
  <2>3. n + 1 \notin LimitedOf(e.user)
    BY <1>1 DEF LimitedOf
  <2>4. Cardinality(LimitedOf(e.user) \cup {n + 1}) = Cardinality(LimitedOf(e.user)) + 1
    BY <2>2, <2>3, FS_AddElement, Zenon
  <2>5. e.limit \in Nat
    BY GiftCardAssumption, Zenon DEF Redemptions
  <2>6. Cardinality(LimitedOf(e.user)) < e.limit
    BY <1>4, Zenon
  <2> HIDE DEF Before
  <2>7. PICK k \in Nat : k = Cardinality(LimitedOf(e.user))
    BY <2>2, Zenon
  <2>8. Cardinality(Before(redemptions', n + 1)) = k + 1 /\ k < e.limit
    BY <2>1, <2>4, <2>6, <2>7, Zenon
  <2> QED BY <2>5, <2>8
<1>5. ASSUME NEW i \in 1..Len(redemptions'), redemptions'[i].limit > 0
      PROVE  Cardinality(Before(redemptions', i)) <= redemptions'[i].limit
  <2>1. CASE i = n + 1
    BY <1>2, <1>4, <1>5, <2>1, Zenon
  <2>2. CASE i # n + 1
    <3>1. i \in 1..n
      BY <1>1, <1>2, <2>2
    <3>2. redemptions[i].limit > 0 => Cardinality(Before(redemptions, i)) <= redemptions[i].limit
      BY <3>1, Zenon DEF LimitKept
    <3> HIDE DEF Before
    <3> QED BY <1>2, <1>3, <1>5, <3>1, <3>2, Zenon
  <2> QED BY <2>1, <2>2, Zenon
<1>6. LimitKept'
  BY <1>5, Zenon DEF LimitKept
<1>7. ASSUME NEW u \in Users, ~(u = e.user /\ e.limit > 0)
      PROVE  LimitedOf(u)' = LimitedOf(u)
  BY <1>1, <1>2, <1>7 DEF LimitedOf
<1> QED BY <1>6, <1>7, Zenon

(* UpdateCodeStatus, grant and InsertRedemption.                           *)
LEMMA GrantKeepsCards ==
    ASSUME CardIInv, NEW r \in Requests, Grant(r)
    PROVE  CardIInv' /\ FinalCodesKept /\ RedeemedByActive
<1> DEFINE c == redeeming[r].code
           u == redeeming[r].user
           e == [code |-> c, user |-> u, limit |-> redeeming[r].limit]
           ok == code[c].status = "unused" /\ Lands(u)
<1>1. /\ UNCHANGED <<user, target, late, template, edits>> /\ redeeming' = [redeeming EXCEPT ![r] = None]
      /\ redeeming[r] # None /\ redeeming[r].step = "grant"
  BY SMTT(20) DEF Grant
<1>2. /\ redeeming[r] \in Redeemings /\ u \in Users /\ c \in Codes /\ redeeming[r].limit \in Limits
      /\ user[u] = "active"
      /\ HoldsLimit(r, u) => Cardinality(LimitedOf(u)) < redeeming[r].limit
      /\ HoldsLimit(r, u) => \A o \in Requests : HoldsLimit(o, u) => o = r
  BY <1>1, InFlight, Zenon
<1>3. redeeming' \in [Requests -> {None} \cup Redeemings]
  BY <1>1, Zenon DEF CardIInv, CardTypeOK
<1>4. CardTypeOK /\ UsedIffRedeemed /\ LimitKept
  BY Zenon DEF CardIInv
<1>5. CASE ~ok
  <2>1. UNCHANGED <<code, redemptions, paid>>
    BY <1>5, Zenon DEF Grant
  <2>2. OneLimitHolder' /\ \A o \in Requests : RequestKnows(o)'
    BY <1>1, <2>1, RequestMoves, Zenon
  <2>3. CardTypeOK'
    BY <1>1, <1>3, <1>4, <2>1, Zenon DEF CardTypeOK
  <2>4. FinalCodesKept /\ RedeemedByActive
    <3>1. Len(redemptions) \in Nat /\ Len(redemptions') = Len(redemptions)
      BY <1>4, <2>1 DEF CardTypeOK
    <3> QED BY <2>1, <3>1 DEF FinalCodesKept, RedeemedByActive
  <2> QED BY <1>4, <2>1, <2>2, <2>3, <2>4, BooksAlone, Zenon DEF CardIInv
<1>6. CASE ok
  <2>1. /\ code' = [code EXCEPT ![c] = [status |-> "used", usedBy |-> u]]
        /\ redemptions' = Append(redemptions, e)
        /\ paid' = [paid EXCEPT ![c] = @ + 1]
    BY <1>6, SMTT(20) DEF Grant
  <2>2. e \in Redemptions /\ e.code = c /\ e.user = u /\ e.limit = redeeming[r].limit
    BY <1>2, Zenon DEF Redemptions
  <2>3. HoldsLimit(r, u) <=> e.limit > 0
    BY <1>1, <2>2, Zenon DEF HoldsLimit
  <2> HIDE DEF e
  <2>4. code[c].status = "unused"
    BY <1>6, SMTT(20)
  <2>5. UsedIffRedeemed'
    BY <1>2, <1>4, <2>1, <2>2, <2>4, RedeemedOnce, Zenon
  <2>6. LimitKept' /\ \A v \in Users : ~(v = u /\ e.limit > 0) => LimitedOf(v)' = LimitedOf(v)
    BY <1>2, <1>4, <2>1, <2>2, <2>3, LimitStillKept, Zenon
  <2>7. CardTypeOK'
    <3>1. redemptions' \in Seq([code : Codes, user : Users, limit : Limits])
      BY <1>4, <2>1, <2>2 DEF CardTypeOK, Redemptions
    <3>2. code' \in [Codes -> [status : CodeStatuses, usedBy : Users \cup {None}]]
      BY <1>2, <1>4, <2>1, Zenon DEF CardTypeOK, CodeStatuses
    <3>3. paid' \in [Codes -> Nat]
      <4>1. paid \in [Codes -> Nat]
        BY <1>4, Zenon DEF CardTypeOK
      <4>2. PICK d \in Codes : d = c
        BY <1>2, Zenon
      <4>3. paid' = [paid EXCEPT ![d] = paid[d] + 1]
        BY <2>1, <4>2, Zenon
      <4> QED BY <4>1, <4>3
    <3> QED BY <1>1, <1>3, <1>4, <3>1, <3>2, <3>3, Zenon DEF CardTypeOK
  <2>8. redeeming'[r] = None /\ \A o \in Requests : o # r => redeeming'[o] = redeeming[o]
    BY <1>1, <1>4, Zenon DEF CardTypeOK
  <2>9. \A o \in Requests : \A v \in Users : HoldsLimit(o, v)' => o # r /\ HoldsLimit(o, v)
    BY <2>8, Zenon DEF HoldsLimit
  <2>10. OneLimitHolder'
    BY <2>9, Zenon DEF OneLimitHolder, CardIInv
  <2>11. ASSUME NEW o \in Requests PROVE RequestKnows(o)'
    <3>1. CASE redeeming'[o] = None
      BY <3>1, Zenon DEF RequestKnows
    <3>2. CASE redeeming'[o] # None
      <4>1. o # r /\ redeeming'[o] = redeeming[o] /\ redeeming[o] # None
        BY <2>8, <3>2, SMTT(20)
      <4>2. RequestKnows(o) /\ redeeming[o].user \in Users
        BY <4>1, InFlight, Zenon DEF CardIInv
      <4>3. PICK v \in Users : v = redeeming[o].user /\ v = redeeming'[o].user
        BY <4>1, <4>2, Zenon
      <4>4. HoldsLimit(o, v)' => HoldsLimit(o, v)
        BY <2>9, Zenon
      <4>5. ASSUME HoldsLimit(o, v) PROVE LimitedOf(v)' = LimitedOf(v)
        <5>1. ~(v = u /\ e.limit > 0)
          BY <1>2, <2>3, <4>1, <4>5, Zenon
        <5> QED BY <2>6, <5>1, Zenon
      <4>6. HoldsLimit(o, v) => Cardinality(LimitedOf(v)) < redeeming[o].limit
        BY <4>1, <4>2, <4>3, SMTT(20) DEF RequestKnows
      <4>7. HoldsLimit(o, v)' => Cardinality(LimitedOf(v)') < redeeming'[o].limit
        BY <4>1, <4>4, <4>5, <4>6, SMTT(20)
      <4>8. /\ redeeming'[o] \in Redeemings /\ user'[v] = "active"
            /\ redeeming'[o].step \in {"limit", "place", "grant"} => redeeming'[o].limit \in Limits
        BY <1>1, <4>1, <4>2, <4>3, SMTT(20) DEF RequestKnows
      <4> QED BY <4>3, <4>7, <4>8, Zenon DEF RequestKnows
    <3> QED BY <3>1, <3>2, Zenon
  <2>12. FinalCodesKept
    BY <1>4, <2>1, <2>4, Zenon DEF FinalCodesKept, CardTypeOK
  <2>13. RedeemedByActive
    <3>1. /\ Len(redemptions) \in Nat /\ Len(redemptions') = Len(redemptions) + 1
          /\ redemptions'[Len(redemptions) + 1] = e
      BY <1>4, <2>1, <2>2 DEF CardTypeOK, Redemptions
    <3> QED BY <1>2, <2>2, <3>1 DEF RedeemedByActive
  <2> QED BY <2>5, <2>6, <2>7, <2>10, <2>11, <2>12, <2>13, SMTT(20) DEF CardIInv
<1> QED BY <1>5, <1>6, Zenon

-----------------------------------------------------------------------------
(* Every step keeps the invariant and is one CardSteps allows.             *)
LEMMA CardStepsKeep ==
    ASSUME CardIInv, [CardNext]_cardVars
    PROVE  CardIInv' /\ ((RedeemedByActive /\ FinalCodesKept) \/ UNCHANGED cardVars)
<1>1. ASSUME UNCHANGED redemptions PROVE RedeemedByActive
  <2>1. Len(redemptions') = Len(redemptions) /\ Len(redemptions) \in Nat
    BY <1>1 DEF CardIInv, CardTypeOK
  <2> QED BY <2>1 DEF RedeemedByActive
<1>2. ASSUME NEW r \in Requests,
             \/ \E u \in Users, c \in Codes : BeginRedeem(r, u, c)
             \/ ReadTemplate(r) \/ LockLimit(r) \/ Place(r) \/ Abort(r)
      PROVE  CardIInv' /\ RedeemedByActive /\ FinalCodesKept
  <2>1. UNCHANGED <<code, redemptions>>
    BY <1>2, Zenon DEF BeginRedeem, ReadTemplate, LockLimit, Place, Abort
  <2>2. FinalCodesKept
    BY <2>1, Zenon DEF FinalCodesKept
  <2> QED BY <1>1, <1>2, <2>1, <2>2, ReadsKeepCards, Zenon
<1>3. ASSUME NEW r \in Requests, LockCode(r)
      PROVE  CardIInv' /\ RedeemedByActive /\ FinalCodesKept
  <2>1. UNCHANGED redemptions
    BY <1>3, Zenon DEF LockCode
  <2> QED BY <1>1, <1>3, <2>1, LockCodeKeepsCards, Zenon
<1>4. ASSUME NEW r \in Requests, Grant(r)
      PROVE  CardIInv' /\ RedeemedByActive /\ FinalCodesKept
  BY <1>4, GrantKeepsCards, Zenon
<1>5. CASE \/ \E batch \in SUBSET Codes : GenerateCodes(batch)
           \/ \E c \in Codes : LapseCode(c) \/ \E disabled \in BOOLEAN : ToggleCode(c, disabled)
           \/ \E status \in TemplateStatuses, limit \in Limits : SaveTemplate(status, limit)
           \/ \E u \in Users : DeleteAccount(u) \/ EndTarget(u)
  BY <1>5, AdminsKeepCards, Zenon
<1>6. CASE UNCHANGED cardVars
  <2>1. UNCHANGED <<redemptions, paid, redeeming, user, code>> /\ CardTypeOK'
    BY <1>6, Zenon DEF cardVars, CardIInv, CardTypeOK
  <2> QED BY <1>6, <2>1, AdminKeepsCards, Zenon
<1> QED BY <1>2, <1>3, <1>4, <1>5, <1>6, Zenon DEF CardNext

(* The invariant holds from the beginning.                                 *)
LEMMA CardsBegin == CardInit => CardIInv
<1> SUFFICES ASSUME CardInit PROVE CardIInv
  BY Zenon
<1>1. CardTypeOK
  BY GiftCardAssumption DEF CardInit, CardTypeOK, CodeStatuses, TemplateStatuses
<1>2. Len(redemptions) = 0 /\ 1..0 = {}
  BY DEF CardInit
<1>3. UsedIffRedeemed /\ LimitKept
  BY <1>2, Zenon DEF CardInit, UsedIffRedeemed, LimitKept
<1>4. \A r \in Requests : redeeming[r] = None
  BY Zenon DEF CardInit
<1>5. OneLimitHolder /\ \A r \in Requests : RequestKnows(r)
  BY <1>4, Zenon DEF OneLimitHolder, RequestKnows, HoldsLimit
<1> QED BY <1>1, <1>3, <1>5, Zenon DEF CardIInv

(* Redeem: for any users, codes and concurrent requests, and whatever      *)
(* admins change meanwhile, a code is used exactly when one redemption     *)
(* names it and its reward was handed out once, and no redemption exceeds  *)
(* the limit it was made under.                                            *)
THEOREM CardsPayOnce == CardSpec => []CardInv
<1>1. CardIInv /\ [CardNext]_cardVars => CardIInv'
  BY CardStepsKeep, Zenon
<1>2. CardIInv => CardInv
  BY Zenon DEF CardIInv, CardInv
<1> QED BY CardsBegin, <1>1, <1>2, PTL DEF CardSpec

(* IsDeleted and codeTransitions: nothing is redeemed for an account once  *)
(* its deletion has committed, and used and expired codes stay as they     *)
(* are.                                                                    *)
THEOREM CardsStayFinal == CardSpec => CardSteps
<1>1. CardIInv /\ [CardNext]_cardVars => CardIInv'
  BY CardStepsKeep, Zenon
<1>2. CardIInv /\ [CardNext]_cardVars => [RedeemedByActive /\ FinalCodesKept]_cardVars
  BY CardStepsKeep, Zenon
<1> QED BY CardsBegin, <1>1, <1>2, PTL DEF CardSpec, CardSteps

-----------------------------------------------------------------------------
(***************************************************************************)
(* What a checkout charges, for any amounts and any settings.              *)
(***************************************************************************)

(* The least of three amounts.                                             *)
LEMMA LeastOfThree ==
    ASSUME NEW a \in Nat, NEW b \in Nat, NEW c \in Nat
    PROVE  LET m == Min({a, b, c}) IN
           m \in Nat /\ m <= a /\ m <= b /\ m <= c /\ m \in {a, b, c}
<1>1. \E x \in {a, b, c} : \A y \in {a, b, c} : x =< y
  <2>1. CASE a <= b /\ a <= c
    BY <2>1
  <2>2. CASE b <= a /\ b <= c
    BY <2>2
  <2>3. CASE c <= a /\ c <= b
    BY <2>3
  <2> QED BY <2>1, <2>2, <2>3
<1>2. Min({a, b, c}) \in {a, b, c} /\ \A y \in {a, b, c} : Min({a, b, c}) =< y
  BY <1>1, Zenon DEF Min
<1> QED BY <1>2, Zenon

(* Of a set of numbers, the one that bounds the others is its maximum.     *)
LEMMA MaximumIs ==
    ASSUME NEW S \in SUBSET Int, NEW m \in S, \A y \in S : y <= m
    PROVE  Max(S) = m
<1>1. \E x \in S : \A y \in S : x >= y
  BY Zenon
<1>2. Max(S) \in S /\ \A y \in S : Max(S) >= y
  BY <1>1, Zenon DEF Max
<1>3. PICK x : x = Max(S)
  BY Zenon
<1>4. x \in S /\ x \in Int /\ m \in Int /\ x >= m
  BY <1>2, <1>3, Zenon
<1>5. x <= m
  BY <1>4, Zenon
<1>6. x = m
  BY <1>4, <1>5
<1> QED BY <1>3, <1>6, Zenon

(* Likewise for its minimum.                                               *)
LEMMA MinimumIs ==
    ASSUME NEW S \in SUBSET Int, NEW m \in S, \A y \in S : m <= y
    PROVE  Min(S) = m
<1>1. \E x \in S : \A y \in S : x =< y
  BY Zenon
<1>2. Min(S) \in S /\ \A y \in S : Min(S) =< y
  BY <1>1, Zenon DEF Min
<1>3. PICK x : x = Min(S)
  BY Zenon
<1>4. x \in S /\ x \in Int /\ m \in Int /\ x =< m
  BY <1>2, <1>3, Zenon
<1>5. x >= m
  BY <1>4, Zenon
<1>6. x = m
  BY <1>4, <1>5
<1> QED BY <1>3, <1>6, Zenon

(* What PlanBalance may come to, when use is what was asked for, cut down  *)
(* to what is due and to what is available.                                *)
PlanCase(due, available, requested, min, use, b) ==
    /\ use \in Nat /\ use <= requested /\ use <= due /\ use <= available
    /\ use = requested \/ use = due \/ use = available
    /\ b \in Plans /\ b.waived = 0
    /\ \/ use = due /\ b.applied = due /\ b.payable = 0 /\ b.kept = 0 /\ ~b.belowMinimum
       \/ /\ use < due /\ (min <= 1 \/ due - use >= min)
          /\ b.applied = use /\ b.payable = due - use /\ b.kept = 0 /\ ~b.belowMinimum
       \/ /\ use < due /\ min > 1 /\ due - use < min /\ due >= min
          /\ b.applied = due - min /\ b.payable = min /\ b.kept = use - (due - min) /\ ~b.belowMinimum
       \/ /\ use < due /\ min > 1 /\ due < min /\ available >= due
          /\ b.applied = due /\ b.payable = 0 /\ b.kept = 0 /\ ~b.belowMinimum
       \/ /\ use < due /\ min > 1 /\ due < min /\ available < due
          /\ b.applied = available /\ b.payable = due - available /\ b.kept = 0 /\ b.belowMinimum

(* PlanBalance comes to one of its five cases.                             *)
LEMMA PlanBalanceCases ==
    ASSUME NEW due \in Nat, NEW available \in Nat, NEW requested \in Nat, NEW min \in Nat,
           NEW use, use = Min({requested, due, available}),
           NEW b, b = PlanBalance(due, available, requested, min)
    PROVE  PlanCase(due, available, requested, min, use, b)
<1> USE DEF PlanCase
<1>1. use \in Nat /\ use <= requested /\ use <= due /\ use <= available /\ use \in {requested, due, available}
  BY LeastOfThree, Zenon
<1>2. ASSUME NEW x \in Nat, NEW y \in Nat
      PROVE  /\ Plan(x, y) \in Plans /\ Plan(x, y).applied = x /\ Plan(x, y).payable = y
             /\ Plan(x, y).waived = 0 /\ Plan(x, y).kept = 0 /\ ~Plan(x, y).belowMinimum
  BY Zenon DEF Plan, Plans
<1>3. PICK full, rest, back, forced, short :
         /\ full = [Plan(use, 0) EXCEPT !.forced = due > 0 /\ ~NoMinimum(min) /\ due < min]
         /\ rest = Plan(use, due - use)
         /\ back = [Plan(due - min, min) EXCEPT !.kept = use - (due - min)]
         /\ forced = [Plan(due, 0) EXCEPT !.forced = TRUE]
         /\ short = [Plan(available, due - available) EXCEPT !.belowMinimum = TRUE]
  BY Zenon
<1>4. b = CASE use = due -> full
            [] use < due /\ (NoMinimum(min) \/ due - use >= min) -> rest
            [] use < due /\ ~NoMinimum(min) /\ due - use < min /\ due >= min -> back
            [] use < due /\ ~NoMinimum(min) /\ due < min /\ available >= due -> forced
            [] use < due /\ ~NoMinimum(min) /\ due < min /\ available < due -> short
  BY <1>3, Zenon DEF PlanBalance
<1>5. CASE use = due
  <2>1. b = full
    BY <1>4, <1>5
  <2>2. PICK f \in BOOLEAN : full = [Plan(use, 0) EXCEPT !.forced = f]
    BY <1>3, Zenon
  <2>3. full \in Plans /\ full.applied = due /\ full.payable = 0 /\ full.waived = 0 /\ full.kept = 0 /\ ~full.belowMinimum
    BY <1>1, <1>2, <1>5, <2>2 DEF Plans
  <2> QED BY <1>1, <1>5, <2>1, <2>3, Zenon
<1>6. CASE use < due /\ (NoMinimum(min) \/ due - use >= min)
  <2>1. b = rest
    BY <1>1, <1>4, <1>6 DEF NoMinimum
  <2>2. due - use \in Nat
    BY <1>1, <1>6
  <2>3. rest \in Plans /\ rest.applied = use /\ rest.payable = due - use /\ rest.waived = 0 /\ rest.kept = 0 /\ ~rest.belowMinimum
    BY <1>1, <1>2, <1>3, <2>2, SMTT(20)
  <2> QED BY <1>1, <1>6, <2>1, <2>3, Zenon DEF NoMinimum
<1>7. CASE use < due /\ ~NoMinimum(min) /\ due - use < min /\ due >= min
  <2>1. b = back
    BY <1>1, <1>4, <1>7 DEF NoMinimum
  <2>2. due - min \in Nat /\ use - (due - min) \in Nat /\ min > 1
    BY <1>1, <1>7 DEF NoMinimum
  <2>3. PICK p \in Plans : p = Plan(due - min, min)
    BY <1>2, <2>2, Zenon
  <2>4. p.applied = due - min /\ p.payable = min /\ p.waived = 0 /\ ~p.belowMinimum
    BY <1>2, <2>2, <2>3
  <2>5. back = [p EXCEPT !.kept = use - (due - min)]
    BY <1>3, <2>3, Zenon
  <2>6. /\ back \in Plans /\ back.applied = p.applied /\ back.payable = p.payable /\ back.waived = p.waived
        /\ back.kept = use - (due - min) /\ back.belowMinimum = p.belowMinimum
    BY <2>2, <2>5, Zenon DEF Plans
  <2> QED BY <1>1, <1>7, <2>1, <2>2, <2>4, <2>6, Zenon
<1>8. CASE use < due /\ ~NoMinimum(min) /\ due < min /\ available >= due
  <2>1. b = forced
    BY <1>1, <1>4, <1>8 DEF NoMinimum
  <2>2. min > 1
    BY <1>8 DEF NoMinimum
  <2>3. /\ forced \in Plans /\ forced.applied = due /\ forced.payable = 0 /\ forced.waived = 0 /\ forced.kept = 0
        /\ ~forced.belowMinimum
    <3>1. PICK p \in Plans : p = Plan(due, 0)
      BY <1>2, Zenon
    <3>2. p.applied = due /\ p.payable = 0 /\ p.waived = 0 /\ p.kept = 0 /\ ~p.belowMinimum
      BY <1>2, <3>1
    <3>3. forced = [p EXCEPT !.forced = TRUE]
      BY <1>3, <3>1, Zenon
    <3> QED BY <3>2, <3>3, Zenon DEF Plans
  <2> QED BY <1>1, <1>8, <2>1, <2>2, <2>3, Zenon
<1>9. CASE use < due /\ ~NoMinimum(min) /\ due - use < min /\ due < min /\ available < due
  <2>1. b = short
    BY <1>1, <1>4, <1>9 DEF NoMinimum
  <2>2. min > 1 /\ due - available \in Nat
    BY <1>9 DEF NoMinimum
  <2>3. /\ short \in Plans /\ short.applied = available /\ short.payable = due - available /\ short.waived = 0
        /\ short.kept = 0 /\ short.belowMinimum
    <3>1. PICK p \in Plans : p = Plan(available, due - available)
      BY <1>2, <2>2, Zenon
    <3>2. p.applied = available /\ p.payable = due - available /\ p.waived = 0 /\ p.kept = 0
      BY <1>2, <2>2, <3>1
    <3>3. short = [p EXCEPT !.belowMinimum = TRUE]
      BY <1>3, <3>1, Zenon
    <3> QED BY <3>2, <3>3, Zenon DEF Plans
  <2> QED BY <1>1, <1>9, <2>1, <2>2, <2>3, SMTT(30)
<1> HIDE DEF PlanCase
<1>10. \/ use = due
       \/ use < due /\ (NoMinimum(min) \/ due - use >= min)
       \/ use < due /\ ~NoMinimum(min) /\ due - use < min /\ due >= min
       \/ use < due /\ ~NoMinimum(min) /\ due < min /\ available >= due
       \/ use < due /\ ~NoMinimum(min) /\ due - use < min /\ due < min /\ available < due
  BY <1>1 DEF NoMinimum
<1> QED BY <1>5, <1>6, <1>7, <1>8, <1>9, <1>10, Zenon

(* What WaiveSmallDue leaves and takes.                                    *)
LEMMA WaiveGives ==
    ASSUME NEW b \in Plans, NEW allowed \in BOOLEAN, NEW w, w = WaiveSmallDue(b, allowed),
           b.waived = 0
    PROVE  /\ w \in Plans /\ w.applied = b.applied
           /\ w.payable + w.waived = b.payable
           /\ w.waived > 0 => allowed /\ b.belowMinimum /\ w.payable = 0 /\ w.waived <= SmallDue
<1>1. CASE allowed /\ b.belowMinimum /\ b.payable \in 1..SmallDue
  <2>1. w = [b EXCEPT !.waived = b.payable, !.payable = 0, !.belowMinimum = FALSE]
    BY <1>1, Zenon DEF WaiveSmallDue
  <2>2. w \in Plans /\ w.applied = b.applied /\ w.payable = 0 /\ w.waived = b.payable
    BY <2>1, Zenon DEF Plans
  <2>3. w.payable + w.waived = b.payable
    BY <2>2 DEF Plans
  <2>4. w.waived <= SmallDue
    <3>1. SmallDue \in Nat
      BY CheckoutAssumption, Zenon
    <3>2. b.payable \in 1..SmallDue
      BY <1>1, Zenon
    <3>3. b.payable <= SmallDue
      BY <3>1, <3>2
    <3> QED BY <2>2, <3>3, Zenon
  <2> QED BY <1>1, <2>2, <2>3, <2>4, Zenon
<1>2. CASE ~(allowed /\ b.belowMinimum /\ b.payable \in 1..SmallDue)
  <2>1. w = b
    BY <1>2, Zenon DEF WaiveSmallDue
  <2> QED BY <2>1 DEF Plans
<1> QED BY <1>1, <1>2, Zenon

(* The ways to pay, one by one.                                            *)
LEMMA WaysAre ==
    ASSUME total \in Nat, balance \in Nat, minPay \in Nat, NEW u
    PROVE  u \in WaysToPay(balance)
              <=> /\ u \in Nat /\ u <= balance /\ u <= total
                  /\ u = total \/ minPay <= 1 \/ total - u >= minPay
<1>1. PICK m : m = Min({balance, total})
  BY Zenon
<1>2. \E x \in {balance, total} : \A y \in {balance, total} : x =< y
  <2>1. CASE balance <= total
    BY <2>1
  <2>2. CASE total <= balance
    BY <2>2
  <2> QED BY <2>1, <2>2
<1>3. m \in {balance, total} /\ \A y \in {balance, total} : m =< y
  BY <1>1, <1>2, Zenon DEF Min
<1>4. m \in Nat /\ m <= balance /\ m <= total /\ (m = balance \/ m = total)
  BY <1>3, Zenon
<1>5. WaysToPay(balance) = {use \in 0..m : total - use = 0 \/ minPay <= 1 \/ total - use >= minPay}
  BY <1>1, SMTT(20) DEF WaysToPay, Payable, NoMinimum
<1> QED BY <1>4, <1>5

(* PlanBalance takes the way to pay that is closest to what was asked for, *)
(* and sets BelowMinimum exactly when there is none, in each of its five   *)
(* cases.                                                                  *)
LEMMA PlanIsClosest ==
    ASSUME total \in Nat, balance \in Nat, minPay \in Nat, NEW requested \in Nat,
           NEW b, b = PlanBalance(total, balance, requested, minPay),
           NEW ways, ways = WaysToPay(balance),
           NEW asked, asked = {use \in ways : use <= requested}
    PROVE  /\ b.applied + b.payable = total
           /\ b.belowMinimum <=> ways = {}
           /\ b.applied = IF ways = {} THEN balance
                          ELSE IF asked # {} THEN Max(asked) ELSE Min(ways)
           /\ b.kept = IF ways = {} THEN 0
                       ELSE Max({Min({requested, balance, total}) - b.applied, 0})
<1>1. PICK use : use = Min({requested, total, balance})
  BY Zenon
<1>2. {requested, balance, total} = {requested, total, balance}
  BY Zenon
<1>3. Min({requested, balance, total}) = use
  BY <1>1, <1>2, Zenon
<1>4. /\ use \in Nat /\ use <= requested /\ use <= total /\ use <= balance
      /\ use = requested \/ use = total \/ use = balance
  BY <1>1, PlanBalanceCases DEF PlanCase
<1>5. ways \in SUBSET Int /\ asked \in SUBSET Int
  BY WaysAre
<1>6. \A u : u \in ways <=> /\ u \in Nat /\ u <= balance /\ u <= total
                            /\ u = total \/ minPay <= 1 \/ total - u >= minPay
  BY WaysAre, Zenon
<1>7. \A u : u \in asked <=> u \in ways /\ u <= requested
  BY Zenon
<1>8. ASSUME NEW k \in Int, NEW l \in Nat, (k >= 0 /\ l = k) \/ (k <= 0 /\ l = 0)
      PROVE  l = Max({k, 0})
  <2>1. l \in {k, 0} /\ \A y \in {k, 0} : y <= l
    BY <1>8
  <2>2. {k, 0} \in SUBSET Int
    OBVIOUS
  <2> QED BY <2>1, <2>2, MaximumIs, Zenon
<1> HIDE DEF WaysToPay
<1>9. CASE use = total /\ b.applied = total /\ b.payable = 0 /\ b.kept = 0 /\ ~b.belowMinimum
  <2>1. total \in asked /\ \A y \in asked : y <= total
    BY <1>4, <1>6, <1>7, <1>9, Zenon
  <2>2. Max(asked) = total /\ ways # {} /\ asked # {}
    BY <1>5, <1>7, <2>1, MaximumIs, Zenon
  <2>3. b.kept = Max({use - b.applied, 0})
    BY <1>4, <1>8, <1>9
  <2>4. b.applied + b.payable = total
    BY <1>9
  <2> QED BY <1>3, <1>9, <2>2, <2>3, <2>4, Zenon
<1>10. CASE /\ use < total /\ (minPay <= 1 \/ total - use >= minPay)
            /\ b.applied = use /\ b.payable = total - use /\ b.kept = 0 /\ ~b.belowMinimum
  <2>1. use \in asked /\ \A y \in asked : y <= use
    BY <1>4, <1>6, <1>7, <1>10, Zenon
  <2>2. Max(asked) = use /\ ways # {} /\ asked # {}
    BY <1>5, <1>7, <2>1, MaximumIs, Zenon
  <2>3. b.kept = Max({use - b.applied, 0})
    BY <1>4, <1>8, <1>10
  <2>4. b.applied + b.payable = total
    BY <1>4, <1>10
  <2> QED BY <1>3, <1>10, <2>2, <2>3, <2>4, Zenon
<1>11. CASE /\ use < total /\ minPay > 1 /\ total - use < minPay /\ total >= minPay
            /\ b.applied = total - minPay /\ b.payable = minPay /\ b.kept = use - (total - minPay) /\ ~b.belowMinimum
  <2>1. total - minPay \in asked /\ \A y \in asked : y <= total - minPay
    BY <1>4, <1>6, <1>7, <1>11
  <2>2. Max(asked) = total - minPay /\ ways # {} /\ asked # {}
    BY <1>5, <1>7, <2>1, MaximumIs, Zenon
  <2>3. b.kept = Max({use - b.applied, 0})
    <3>1. use - b.applied \in Int /\ b.kept \in Nat /\ use - b.applied >= 0 /\ b.kept = use - b.applied
      BY <1>4, <1>11
    <3> QED BY <1>8, <3>1, Zenon
  <2>4. b.applied + b.payable = total
    BY <1>4, <1>11
  <2> QED BY <1>3, <1>11, <2>2, <2>3, <2>4, Zenon
<1>12. CASE /\ use < total /\ minPay > 1 /\ total < minPay /\ balance >= total
            /\ b.applied = total /\ b.payable = 0 /\ b.kept = 0 /\ ~b.belowMinimum
  <2>1. total \in ways /\ \A y \in ways : y = total
    BY <1>4, <1>6, <1>12
  <2>2. asked = {}
    <3>1. ~(total <= requested)
      BY <1>4, <1>12
    <3> QED BY <1>7, <2>1, <3>1, Zenon
  <2>3. Min(ways) = total /\ ways # {}
    BY <1>5, <2>1, MinimumIs
  <2>4. b.kept = Max({use - b.applied, 0})
    <3>1. use - b.applied \in Int /\ b.kept \in Nat /\ use - b.applied <= 0 /\ b.kept = 0
      BY <1>4, <1>12
    <3> QED BY <1>8, <3>1, Zenon
  <2> QED BY <1>3, <1>12, <2>2, <2>3, <2>4
<1>13. CASE /\ use < total /\ minPay > 1 /\ total < minPay /\ balance < total
            /\ b.applied = balance /\ b.payable = total - balance /\ b.kept = 0 /\ b.belowMinimum
  <2>1. ways = {}
    BY <1>4, <1>6, <1>13
  <2>2. b.applied + b.payable = total
    BY <1>13
  <2> QED BY <1>13, <2>1, <2>2, Zenon
<1>14. PlanCase(total, balance, requested, minPay, use, b)
  BY <1>1, PlanBalanceCases, Zenon
<1> QED BY <1>9, <1>10, <1>11, <1>12, <1>13, <1>14, Zenon DEF PlanCase

(* What a plan charges adds up to what is due, and it waives only a small  *)
(* rest that may be waived.                                                *)
AddsUp(w, due, allowed) ==
    /\ w \in Plans
    /\ w.applied + w.payable + w.waived = due
    /\ w.waived > 0 => allowed /\ w.payable = 0 /\ w.waived <= SmallDue

(* PlanBalance and WaiveSmallDue charge what is due.                       *)
LEMMA PlanAddsUp ==
    ASSUME NEW due \in Nat, NEW available \in Nat, NEW requested \in Nat, NEW min \in Nat,
           NEW allowed \in BOOLEAN,
           NEW w, w = WaiveSmallDue(PlanBalance(due, available, requested, min), allowed)
    PROVE  AddsUp(w, due, allowed)
<1>1. PICK b : b = PlanBalance(due, available, requested, min)
  BY Zenon
<1>2. b \in Plans /\ b.waived = 0 /\ b.applied + b.payable = due
  <2>1. PICK use : use = Min({requested, due, available})
    BY Zenon
  <2>2. PlanCase(due, available, requested, min, use, b)
    BY <1>1, <2>1, PlanBalanceCases, Zenon
  <2>3. b \in Plans /\ b.waived = 0
    BY <2>2, Zenon DEF PlanCase
  <2>4. b.applied + b.payable = due
    BY <2>2 DEF PlanCase
  <2> QED BY <2>3, <2>4, Zenon
<1>4. /\ w \in Plans /\ w.applied = b.applied /\ w.payable + w.waived = b.payable
      /\ w.waived > 0 => allowed /\ b.belowMinimum /\ w.payable = 0 /\ w.waived <= SmallDue
  BY <1>1, <1>2, WaiveGives
<1>5. w.applied \in Nat /\ w.payable \in Nat /\ w.waived \in Nat
  BY <1>4, Zenon DEF Plans
<1> QED BY <1>2, <1>4, <1>5 DEF AddsUp

(* balanceFor, which reads the balance only when it needs it.              *)
LEMMA BalanceForAddsUp ==
    ASSUME CheckoutTypeOK, balance \in Amounts, NEW requested \in Amounts,
           NEW b, b = BalanceFor(requested)
    PROVE  AddsUp(b, total, waive)
<1>1. total \in Nat /\ balance \in Nat /\ requested \in Nat /\ minPay \in Nat /\ waive \in BOOLEAN
  BY CheckoutAssumption DEF CheckoutTypeOK, Amounts
<1>2. CASE total = 0
  <2>1. b = Plan(0, 0)
    BY <1>2, Zenon DEF BalanceFor
  <2>2. b \in Plans /\ b.applied = 0 /\ b.payable = 0 /\ b.waived = 0
    BY <2>1 DEF Plan, Plans
  <2> QED BY <1>2, <2>2 DEF AddsUp
<1>3. CASE total # 0
  <2>1. PICK available \in Nat : available = IF requested > 0 \/ total < minPay THEN balance ELSE 0
    BY <1>1, Zenon
  <2>2. b = WaiveSmallDue(PlanBalance(total, available, requested, minPay), waive)
    BY <1>3, <2>1, Zenon DEF BalanceFor
  <2> QED BY <1>1, <2>2, PlanAddsUp, Zenon
<1> QED BY <1>2, <1>3, Zenon

(* An order as the page showed it: the amounts of the quote, adding up to  *)
(* its total.                                                              *)
AsQuoted(b) ==
    /\ quote # None
    /\ quote.plan.applied = b.applied /\ quote.plan.payable = b.payable
    /\ b.applied + b.payable + b.waived = quote.total
    /\ b.waived > 0 => waive /\ b.payable = 0 /\ b.waived <= SmallDue
    /\ ~b.belowMinimum

(* The inductive invariant.  ChargedAsShown speaks of the committed order; *)
(* it holds because what place has computed already agreed with the quote, *)
(* and the quote stays on the page as long as there is something to commit *)
(* or an order.                                                            *)
CheckoutIInv ==
    /\ CheckoutTypeOK
    /\ balance \in Amounts
    /\ placing # None => order = None /\ AsQuoted(placing)
    /\ order # None => placing = None /\ AsQuoted(order)

(* A checkout starts with nothing quoted, placed or ordered.               *)
LEMMA CheckoutStarts ==
    CheckoutInit => CheckoutIInv
<1>1. 0 \in 0..MaxMoves
  BY CheckoutAssumption
<1>2. ASSUME balance \in Amounts PROVE balance \in Int
  BY <1>2, CheckoutAssumption DEF Amounts
<1> QED BY <1>1, <1>2, Zenon DEF CheckoutInit, CheckoutIInv, CheckoutTypeOK

(* Quote shows a plan; there is nothing to compare it with yet.            *)
LEMMA QuoteKeeps ==
    ASSUME CheckoutIInv, Quote PROVE CheckoutIInv'
<1> USE DEF CheckoutIInv
<1>1. PICK requested \in {balance, 0} :
         quote' = [requested |-> requested, total |-> total,
                   plan |-> WaiveSmallDue(PlanBalance(total, balance, requested, minPay), waive)]
  BY Zenon DEF Quote
<1>2. total \in Nat /\ balance \in Nat /\ requested \in Nat /\ minPay \in Nat /\ waive \in BOOLEAN /\ requested \in Amounts
  BY CheckoutAssumption DEF CheckoutTypeOK, Amounts
<1>3. PICK w : w = WaiveSmallDue(PlanBalance(total, balance, requested, minPay), waive)
  BY Zenon
<1>4. w \in Plans
  BY <1>2, <1>3, PlanAddsUp, Zenon DEF AddsUp
<1>5. quote' \in [requested : Amounts, total : Amounts, plan : Plans]
  BY <1>1, <1>2, <1>3, <1>4, SMTT(20) DEF CheckoutTypeOK
<1>6. placing = None /\ order = None /\ UNCHANGED <<balance, minPay, total, waive, placing, order, moves>>
  BY Zenon DEF Quote, AsQuoted
<1> QED BY <1>5, <1>6, Zenon DEF CheckoutTypeOK

(* place computes the order again and compares it with the quote.          *)
LEMMA PlaceOrderKeeps ==
    ASSUME CheckoutIInv, PlaceOrder PROVE CheckoutIInv'
<1> USE DEF CheckoutIInv
<1>1. PICK b : b = BalanceFor(quote.requested)
  BY Zenon
<1>2. /\ quote # None /\ placing = None /\ order = None
      /\ IF ~b.belowMinimum /\ Expected(b) THEN placing' = b /\ quote' = quote
         ELSE quote' = None /\ placing' = placing
      /\ UNCHANGED <<balance, minPay, total, waive, order, moves>>
  BY <1>1, Zenon DEF PlaceOrder
<1>3. quote \in [requested : Amounts, total : Amounts, plan : Plans]
  BY <1>2, Zenon DEF CheckoutTypeOK
<1>4. /\ b \in Plans
      /\ b.applied + b.payable + b.waived = total
      /\ b.waived > 0 => waive /\ b.payable = 0 /\ b.waived <= SmallDue
  <2>1. quote.requested \in Amounts
    BY <1>3, Zenon
  <2> QED BY <1>1, <2>1, BalanceForAddsUp, Zenon DEF AddsUp
<1>5. CASE ~b.belowMinimum /\ Expected(b)
  <2>1. placing' = b /\ quote' = quote
    BY <1>2, <1>5, Zenon
  <2>2. quote.total = total /\ quote.plan.applied = b.applied /\ quote.plan.payable = b.payable
    BY <1>5, SMTT(20) DEF Expected
  <2>3. AsQuoted(b)
    BY <1>2, <1>4, <1>5, <2>2, Zenon DEF AsQuoted
  <2>4. AsQuoted(b)'
    BY <1>2, <2>1, <2>3, Zenon DEF AsQuoted
  <2>5. AsQuoted(placing)'
    BY <2>1, <2>4, Zenon DEF AsQuoted
  <2> QED BY <1>2, <1>4, <2>1, <2>5, Zenon DEF CheckoutTypeOK
<1>6. CASE ~(~b.belowMinimum /\ Expected(b))
  <2>1. quote' = None /\ placing' = placing
    BY <1>2, <1>6, Zenon
  <2> QED BY <1>2, <2>1, Zenon DEF CheckoutTypeOK
<1> QED BY <1>5, <1>6, Zenon

(* The balance is taken, or the transaction is rolled back.                *)
LEMMA TakeBalanceKeeps ==
    ASSUME CheckoutIInv, TakeBalance PROVE CheckoutIInv'
<1> USE DEF CheckoutIInv
<1>1. placing # None /\ placing' = None /\ UNCHANGED <<minPay, total, waive, moves>>
  BY Zenon DEF TakeBalance
<1>2. placing \in Plans /\ order = None /\ AsQuoted(placing)
  BY <1>1, Zenon DEF CheckoutTypeOK
<1>3. balance \in 0..MaxAmount /\ MaxAmount \in Nat /\ placing.applied \in Nat
  BY <1>2, CheckoutAssumption, Zenon DEF Amounts, Plans
<1>4. CASE balance >= placing.applied
  <2>1. order' = placing /\ balance' = balance - placing.applied /\ quote' = quote
    BY <1>4, Zenon DEF TakeBalance
  <2>2. balance' \in Amounts /\ balance' \in Int
    BY <1>3, <1>4, <2>1 DEF Amounts
  <2>3. AsQuoted(order)'
    BY <1>1, <1>2, <2>1, Zenon DEF AsQuoted
  <2> QED BY <1>1, <1>2, <2>1, <2>2, <2>3, Zenon DEF CheckoutTypeOK
<1>5. CASE ~(balance >= placing.applied)
  <2>1. quote' = None /\ order' = order /\ balance' = balance
    BY <1>5, SMTT(20) DEF TakeBalance
  <2> QED BY <1>1, <1>2, <2>1, Zenon DEF CheckoutTypeOK
<1> QED BY <1>4, <1>5, Zenon

(* What others do to the balance, the price and the minimum touches no     *)
(* quote and no order.                                                     *)
LEMMA MovesKeep ==
    ASSUME CheckoutIInv,
           \/ \E n \in Amounts : MoveBalance(n) \/ Reprice(n)
           \/ \E min \in MinPayments : SetMinPayment(min)
    PROVE  CheckoutIInv'
<1> USE DEF CheckoutIInv
<1>1. /\ moves < MaxMoves /\ moves' = moves + 1 /\ UNCHANGED <<waive, quote, placing, order>>
      /\ balance' \in Amounts /\ total' \in Amounts /\ minPay' \in MinPayments
  BY Zenon DEF MoveBalance, Reprice, SetMinPayment, CheckoutTypeOK
<1>2. moves' \in 0..MaxMoves /\ balance' \in Int
  BY <1>1, CheckoutAssumption DEF CheckoutTypeOK, Amounts
<1>3. /\ (placing # None => order = None /\ AsQuoted(placing))'
      /\ (order # None => placing = None /\ AsQuoted(order))'
  BY <1>1, Zenon DEF AsQuoted
<1> QED BY <1>1, <1>2, <1>3, Zenon DEF CheckoutTypeOK

(* Every step of a checkout preserves the invariant.                       *)
LEMMA CheckoutSteps ==
    CheckoutIInv /\ [CheckoutNext]_checkoutVars => CheckoutIInv'
<1> SUFFICES ASSUME CheckoutIInv, [CheckoutNext]_checkoutVars PROVE CheckoutIInv'
  BY Zenon
<1>1. CASE UNCHANGED checkoutVars
  BY <1>1, Zenon DEF CheckoutIInv, CheckoutTypeOK, AsQuoted, checkoutVars
<1> QED BY <1>1, QuoteKeeps, PlaceOrderKeeps, TakeBalanceKeeps, MovesKeep, Zenon DEF CheckoutNext

(* The invariant gives each part of what the counter promises.             *)
LEMMA CheckoutSays ==
    CheckoutIInv => CheckoutInv
<1> SUFFICES ASSUME CheckoutIInv PROVE CheckoutInv
  BY Zenon
<1>1. total \in Nat /\ balance \in Nat /\ minPay \in Nat /\ waive \in BOOLEAN
  BY CheckoutAssumption DEF CheckoutIInv, CheckoutTypeOK, Amounts
<1>2. PlansTheClosestWay
  <2> SUFFICES ASSUME NEW requested \in Amounts,
                      NEW b, b = PlanBalance(total, balance, requested, minPay),
                      NEW ways, ways = WaysToPay(balance),
                      NEW asked, asked = {use \in ways : use <= requested}
               PROVE  /\ b.applied + b.payable = total
                      /\ b.belowMinimum <=> ways = {}
                      /\ b.applied = IF ways = {} THEN balance
                                     ELSE IF asked # {} THEN Max(asked) ELSE Min(ways)
                      /\ b.kept = IF ways = {} THEN 0
                                  ELSE Max({Min({requested, balance, total}) - b.applied, 0})
                      /\ WaiveSmallDue(b, waive).waived > 0 => ways = {}
    BY Zenon DEF PlansTheClosestWay
  <2>1. requested \in Nat
    BY CheckoutAssumption DEF Amounts
  <2>2. /\ b.applied + b.payable = total
        /\ b.belowMinimum <=> ways = {}
        /\ b.applied = IF ways = {} THEN balance
                       ELSE IF asked # {} THEN Max(asked) ELSE Min(ways)
        /\ b.kept = IF ways = {} THEN 0
                    ELSE Max({Min({requested, balance, total}) - b.applied, 0})
    BY <1>1, <2>1, PlanIsClosest, SMTT(20)
  <2>3. b \in Plans /\ b.waived = 0
    <3>1. PICK use : use = Min({requested, total, balance})
      BY Zenon
    <3>2. PlanCase(total, balance, requested, minPay, use, b)
      BY <1>1, <2>1, <3>1, PlanBalanceCases, Zenon
    <3> QED BY <3>2, Zenon DEF PlanCase
  <2>4. WaiveSmallDue(b, waive).waived > 0 => b.belowMinimum
    BY <1>1, <2>3, WaiveGives, Zenon
  <2> QED BY <2>2, <2>4, Zenon
<1>3. ChargedAsShown
  BY Zenon DEF CheckoutIInv, AsQuoted, ChargedAsShown
<1>4. NeverOverdrawn
  BY <1>1 DEF NeverOverdrawn
<1> QED BY <1>2, <1>3, <1>4, Zenon DEF CheckoutIInv, CheckoutInv

(* Quote, place, HoldForOrder: whatever the amounts and the settings are,  *)
(* PlanBalance takes the way to pay that is closest to what was asked for, *)
(* an order charges the amounts the page showed, its parts add up to the   *)
(* quoted total, and the balance is never overdrawn.                       *)
THEOREM ChargedAsQuoted ==
    CheckoutSpec => []CheckoutInv
BY CheckoutStarts, CheckoutSteps, CheckoutSays, PTL DEF CheckoutSpec
=============================================================================
