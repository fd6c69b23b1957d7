------------------------- MODULE OrderPaymentProofs -------------------------
(***************************************************************************)
(* Proofs about module OrderPayment and the two things an order takes      *)
(* something from, for any orders, users, coupons, providers, workers and  *)
(* amounts and any order of the calls.                                     *)
(*                                                                         *)
(* Promo: the coupon counters are right, and no coupon is used more often  *)
(* than its limits allow.                                                  *)
(*                                                                         *)
(* Ledger: every operator of the module takes a sound ledger to a sound    *)
(* ledger; no account of a user is overdrawn, and holds are final.         *)
(*                                                                         *)
(* Their lemmas are stated per operation, so that the proofs about the     *)
(* transactions that compose these operations can cite them.               *)
(***************************************************************************)
EXTENDS OrderPayment, FiniteSetTheorems, SequenceTheorems, TLAPS

(* Every set of redemption rows the counters talk about is finite. *)
LEMMA RowsFinite ==
  /\ \A c, st : IsFiniteSet(Rows(c, st)) /\ Cardinality(Rows(c, st)) \in Nat
  /\ \A c, u : IsFiniteSet(ActiveByUser(c, u)) /\ Cardinality(ActiveByUser(c, u)) \in Nat
<1>1. \A S \in SUBSET Orders : IsFiniteSet(S) /\ Cardinality(S) \in Nat
  BY PanelConstants, FS_Subset, FS_CardinalityType, Zenon
<1>2. \A c, st : Rows(c, st) \in SUBSET Orders
  BY Zenon DEF Rows
<1>3. \A c, u : ActiveByUser(c, u) \in SUBSET Orders
  BY Zenon DEF ActiveByUser
<1> QED BY <1>1, <1>2, <1>3, Zenon

(* One more, or one less, element of a finite set. *)
LEMMA OneMore ==
  ASSUME NEW S, NEW T, NEW x, IsFiniteSet(S), x \notin S, T = S \cup {x}
  PROVE  Cardinality(T) = Cardinality(S) + 1
BY FS_AddElement, Zenon

(* A row that leaves a set makes it smaller by one: the counter Release writes. *)
LEMMA OneLess ==
  ASSUME NEW S, NEW T, NEW x, IsFiniteSet(S), x \in S, T = S \ {x}
  PROVE  Cardinality(T) = Cardinality(S) - 1
BY FS_RemoveElement, Zenon

(* A finite set is at least as large as each of its subsets. *)
LEMMA NotMore ==
  ASSUME NEW S, NEW T, IsFiniteSet(S), T \subseteq S
  PROVE  Cardinality(T) <= Cardinality(S) /\ Cardinality(T) \in Nat
BY FS_Subset, FS_CardinalityType, Zenon

(* The empty coupon tables satisfy the invariant. *)
LEMMA PromoInitInv == PromoInit => CouponInv
<1> SUFFICES ASSUME PromoInit PROVE CouponInv
  BY Zenon
<1> USE PanelConstants, PromoConstants DEF PromoInit
<1>1. PromoTypeOK
  BY Zenon DEF PromoTypeOK, RedemptionStates
<1>2. \A c \in Coupons : Rows(c, "held") = {} /\ Rows(c, "captured") = {}
  BY Zenon DEF Rows
<1>3. \A c \in Coupons, u \in Users : ActiveByUser(c, u) = {}
  BY Zenon DEF ActiveByUser
<1>4. CountersMatchRows
  BY <1>2, FS_EmptySet, Zenon DEF CountersMatchRows
<1>5. WithinCapacity
  BY <1>2, FS_EmptySet DEF WithinCapacity
<1>6. WithinUserLimit
  BY <1>3, FS_EmptySet DEF WithinUserLimit
<1> QED BY <1>1, <1>4, <1>5, <1>6, Zenon DEF CouponInv

(* Reserve adds one held row and one to the counter, within both limits. *)
LEMMA ReserveInv ==
  ASSUME NEW o \in Orders, NEW c \in Coupons, NEW u \in Users,
         CouponInv, Reserve(o, c, u)
  PROVE  CouponInv'
<1> USE PanelConstants, PromoConstants DEF CouponInv
<1>1. PromoTypeOK'
  BY DEF PromoTypeOK, RedemptionStates, Reserve
<1>2. /\ Rows(c, "held")' = Rows(c, "held") \cup {o}
      /\ o \notin Rows(c, "held")
      /\ \A d \in Coupons \ {c} : Rows(d, "held")' = Rows(d, "held")
      /\ \A d \in Coupons : Rows(d, "captured")' = Rows(d, "captured")
  BY DEF PromoTypeOK, Reserve, Rows
<1>3. Cardinality(Rows(c, "held")') = Cardinality(Rows(c, "held")) + 1
  BY <1>2, RowsFinite, OneMore, Zenon
<1>4. CountersMatchRows'
  BY <1>2, <1>3, Zenon DEF CountersMatchRows, Reserve, PromoTypeOK
<1>5. WithinCapacity'
  <2> SUFFICES ASSUME NEW d \in Coupons, MaxRedemptions[d] # Unlimited
               PROVE Cardinality(Rows(d, "held")') + Cardinality(Rows(d, "captured")')
                        <= MaxRedemptions[d]
    BY Zenon DEF WithinCapacity
  <2>1. CASE d = c
    <3>1. redeemed[c] + reserved[c] < MaxRedemptions[c]
      BY <2>1, Zenon DEF Reserve, apply, checkBasics, HasCapacity
    <3>2. MaxRedemptions[c] \in Nat
      BY <2>1, Zenon
    <3> QED BY <1>2, <1>3, <2>1, <3>1, <3>2, RowsFinite DEF CountersMatchRows
  <2>2. CASE d # c
    BY <1>2, <2>2, Zenon DEF WithinCapacity
  <2> QED BY <2>1, <2>2, Zenon
<1>6. WithinUserLimit'
  <2>1. /\ ActiveByUser(c, u)' = ActiveByUser(c, u) \cup {o}
        /\ o \notin ActiveByUser(c, u)
        /\ \A d \in Coupons, v \in Users :
             <<d, v>> # <<c, u>> => ActiveByUser(d, v)' = ActiveByUser(d, v)
    BY DEF PromoTypeOK, Reserve, ActiveByUser
  <2>2. Cardinality(ActiveByUser(c, u)') <= MaxPerUser[c]
    <3>1. Cardinality(ActiveByUser(c, u)) < MaxPerUser[c]
      BY Zenon DEF Reserve, apply, UserBelowLimit
    <3>2. Cardinality(ActiveByUser(c, u)') = Cardinality(ActiveByUser(c, u)) + 1
      BY <2>1, RowsFinite, OneMore, Zenon
    <3> QED BY <3>1, <3>2, RowsFinite
  <2> QED BY <2>1, <2>2, Zenon DEF WithinUserLimit
<1> QED BY <1>1, <1>4, <1>5, <1>6, Zenon

(* ReserveCaptured adds one captured row and one to its counter, within   *)
(* both limits.                                                            *)
LEMMA ReserveCapturedInv ==
  ASSUME NEW o \in Orders, NEW c \in Coupons, NEW u \in Users,
         CouponInv, ReserveCaptured(o, c, u)
  PROVE  CouponInv'
<1> USE PanelConstants, PromoConstants DEF CouponInv
<1>1. PromoTypeOK'
  BY DEF PromoTypeOK, RedemptionStates, ReserveCaptured
<1>2. /\ Rows(c, "captured")' = Rows(c, "captured") \cup {o}
      /\ o \notin Rows(c, "captured")
      /\ \A d \in Coupons \ {c} : Rows(d, "captured")' = Rows(d, "captured")
      /\ \A d \in Coupons : Rows(d, "held")' = Rows(d, "held")
  BY DEF PromoTypeOK, ReserveCaptured, Rows
<1>3. Cardinality(Rows(c, "captured")') = Cardinality(Rows(c, "captured")) + 1
  BY <1>2, RowsFinite, OneMore, Zenon
<1>4. CountersMatchRows'
  BY <1>2, <1>3, Zenon DEF CountersMatchRows, ReserveCaptured, PromoTypeOK
<1>5. WithinCapacity'
  <2> SUFFICES ASSUME NEW d \in Coupons, MaxRedemptions[d] # Unlimited
               PROVE Cardinality(Rows(d, "held")') + Cardinality(Rows(d, "captured")')
                        <= MaxRedemptions[d]
    BY Zenon DEF WithinCapacity
  <2>1. CASE d = c
    <3>1. redeemed[c] + reserved[c] < MaxRedemptions[c]
      BY <2>1, Zenon DEF ReserveCaptured, apply, checkBasics, HasCapacity
    <3>2. MaxRedemptions[c] \in Nat
      BY <2>1, Zenon
    <3> QED BY <1>2, <1>3, <2>1, <3>1, <3>2, RowsFinite DEF CountersMatchRows
  <2>2. CASE d # c
    BY <1>2, <2>2, Zenon DEF WithinCapacity
  <2> QED BY <2>1, <2>2, Zenon
<1>6. WithinUserLimit'
  <2>1. /\ ActiveByUser(c, u)' = ActiveByUser(c, u) \cup {o}
        /\ o \notin ActiveByUser(c, u)
        /\ \A d \in Coupons, v \in Users :
             <<d, v>> # <<c, u>> => ActiveByUser(d, v)' = ActiveByUser(d, v)
    BY DEF PromoTypeOK, ReserveCaptured, ActiveByUser
  <2>2. Cardinality(ActiveByUser(c, u)') <= MaxPerUser[c]
    <3>1. Cardinality(ActiveByUser(c, u)) < MaxPerUser[c]
      BY Zenon DEF ReserveCaptured, apply, UserBelowLimit
    <3>2. Cardinality(ActiveByUser(c, u)') = Cardinality(ActiveByUser(c, u)) + 1
      BY <2>1, RowsFinite, OneMore, Zenon
    <3> QED BY <3>1, <3>2, RowsFinite
  <2> QED BY <2>1, <2>2, Zenon DEF WithinUserLimit
<1> QED BY <1>1, <1>4, <1>5, <1>6, Zenon

(* Capture moves one row, and one of the counter, from held to captured. *)
LEMMA CaptureInv ==
  ASSUME NEW o \in Orders, CouponInv, Capture(o)
  PROVE  CouponInv'
<1> USE PanelConstants, PromoConstants DEF CouponInv
<1>0. PICK c \in Coupons : c = redCoupon[o]
  BY Zenon DEF PromoTypeOK, Capture
<1>1. PromoTypeOK'
  BY <1>0 DEF PromoTypeOK, RedemptionStates, Capture
<1>2. /\ Rows(c, "held")' = Rows(c, "held") \ {o}
      /\ o \in Rows(c, "held")
      /\ Rows(c, "captured")' = Rows(c, "captured") \cup {o}
      /\ o \notin Rows(c, "captured")
      /\ \A d \in Coupons \ {c} : /\ Rows(d, "held")' = Rows(d, "held")
                                  /\ Rows(d, "captured")' = Rows(d, "captured")
  BY <1>0 DEF PromoTypeOK, Capture, Rows
<1>3. /\ Cardinality(Rows(c, "held")') = Cardinality(Rows(c, "held")) - 1
      /\ Cardinality(Rows(c, "captured")') = Cardinality(Rows(c, "captured")) + 1
  BY <1>2, RowsFinite, OneMore, OneLess, Zenon
<1>4. CountersMatchRows'
  BY <1>0, <1>2, <1>3 DEF CountersMatchRows, Capture, PromoTypeOK
<1>5. WithinCapacity'
  BY <1>0, <1>2, <1>3, RowsFinite DEF WithinCapacity
<1>6. \A d \in Coupons, v \in Users : ActiveByUser(d, v)' = ActiveByUser(d, v)
  BY Zenon DEF PromoTypeOK, Capture, ActiveByUser
<1>7. WithinUserLimit'
  BY <1>6, Zenon DEF WithinUserLimit
<1> QED BY <1>1, <1>4, <1>5, <1>7, Zenon

(* Release takes one held row, and one off the counter. *)
LEMMA ReleaseInv ==
  ASSUME NEW o \in Orders, CouponInv, Release(o)
  PROVE  CouponInv'
<1> USE PanelConstants, PromoConstants DEF CouponInv
<1>0. PICK c \in Coupons, u \in Users : c = redCoupon[o] /\ u = redUser[o]
  BY Zenon DEF PromoTypeOK, Release
<1>1. PromoTypeOK'
  BY <1>0 DEF PromoTypeOK, RedemptionStates, Release
<1>2. /\ Rows(c, "held")' = Rows(c, "held") \ {o}
      /\ o \in Rows(c, "held")
      /\ \A d \in Coupons \ {c} : Rows(d, "held")' = Rows(d, "held")
      /\ \A d \in Coupons : Rows(d, "captured")' = Rows(d, "captured")
  BY <1>0, Zenon DEF PromoTypeOK, Release, Rows
<1>3. Cardinality(Rows(c, "held")') = Cardinality(Rows(c, "held")) - 1
  BY <1>2, RowsFinite, OneLess, Zenon
<1>4. CountersMatchRows'
  BY <1>0, <1>2, <1>3, Zenon DEF CountersMatchRows, Release, PromoTypeOK
<1>5. WithinCapacity'
  BY <1>0, <1>2, <1>3, RowsFinite DEF WithinCapacity
<1>6. WithinUserLimit'
  <2>1. /\ ActiveByUser(c, u)' = ActiveByUser(c, u) \ {o}
        /\ \A d \in Coupons, v \in Users :
             <<d, v>> # <<c, u>> => ActiveByUser(d, v)' = ActiveByUser(d, v)
    BY <1>0, Zenon DEF PromoTypeOK, Release, ActiveByUser
  <2>2. /\ Cardinality(ActiveByUser(c, u)') <= Cardinality(ActiveByUser(c, u))
        /\ Cardinality(ActiveByUser(c, u)') \in Nat
    BY <2>1, RowsFinite, NotMore, Zenon
  <2>3. MaxPerUser[c] \in Nat
    BY Zenon
  <2>4. Cardinality(ActiveByUser(c, u)) <= MaxPerUser[c] /\ Cardinality(ActiveByUser(c, u)) \in Nat
    BY <1>0, RowsFinite, Zenon DEF WithinUserLimit
  <2>5. \A a, b, m \in Nat : a <= b /\ b <= m => a <= m
    OBVIOUS
  <2>6. Cardinality(ActiveByUser(c, u)') <= MaxPerUser[c]
    BY <2>2, <2>3, <2>4, <2>5, Zenon
  <2> QED BY <1>0, <2>1, <2>6, Zenon DEF WithinUserLimit
<1> QED BY <1>1, <1>4, <1>5, <1>6, Zenon

(* Steps that leave the rows and the counters alone keep the invariant. *)
LEMMA PromoRowsUnchangedInv ==
  ASSUME CouponInv, UNCHANGED promoRows,
         couponStatus' \in [Coupons -> {"active", "paused"}],
         windowOpen' \in [Coupons -> BOOLEAN]
  PROVE  CouponInv'
<1>1. PromoTypeOK'
  BY Zenon DEF CouponInv, PromoTypeOK, promoRows
<1>2. /\ \A c, st : Rows(c, st)' = Rows(c, st)
      /\ \A c, u : ActiveByUser(c, u)' = ActiveByUser(c, u)
  BY Zenon DEF promoRows, Rows, ActiveByUser
<1> QED BY <1>1, <1>2, Zenon DEF CouponInv, promoRows, CountersMatchRows, WithinCapacity, WithinUserLimit

(* Pausing, resuming and lapsing a coupon keep the invariant. *)
LEMMA PromoAdminInv ==
  ASSUME CouponInv, PromoAdmin
  PROVE  CouponInv'
<1>1. UNCHANGED promoRows
  BY Zenon DEF PromoAdmin, SetCouponStatus, WindowCloses
<1>2. /\ couponStatus' \in [Coupons -> {"active", "paused"}]
      /\ windowOpen' \in [Coupons -> BOOLEAN]
  BY Zenon DEF PromoAdmin, SetCouponStatus, WindowCloses, CouponInv, PromoTypeOK
<1> QED BY <1>1, <1>2, PromoRowsUnchangedInv, Zenon

(* In every reachable state of the coupon tables the counters equal the    *)
(* number of rows, and neither max_redemptions nor the limit per user is   *)
(* exceeded, whatever the interleaving of Reserve, Capture, Release and    *)
(* the administrator.                                                      *)
THEOREM PromoSafe == PromoSpec => []CouponInv
<1>1. PromoInit => CouponInv
  BY PromoInitInv, Zenon
<1>2. CouponInv /\ [PromoNext]_promoVars => CouponInv'
  <2> SUFFICES ASSUME CouponInv, [PromoNext]_promoVars PROVE CouponInv'
    BY Zenon
  <2>1. ASSUME NEW o \in Orders, NEW c \in Coupons, NEW u \in Users, Reserve(o, c, u)
        PROVE CouponInv'
    BY <2>1, ReserveInv, Zenon
  <2>1a. ASSUME NEW o \in Orders, NEW c \in Coupons, NEW u \in Users,
                ReserveCaptured(o, c, u)
         PROVE CouponInv'
    BY <2>1a, ReserveCapturedInv, Zenon
  <2>2. ASSUME NEW o \in Orders, Capture(o) PROVE CouponInv'
    BY <2>2, CaptureInv, Zenon
  <2>3. ASSUME NEW o \in Orders, Release(o) PROVE CouponInv'
    BY <2>3, ReleaseInv, Zenon
  <2>4. CASE PromoAdmin
    BY <2>4, PromoAdminInv, Zenon
  <2>5. CASE UNCHANGED promoVars
    BY <2>5, PromoRowsUnchangedInv, Zenon DEF promoVars, promoRows, CouponInv, PromoTypeOK
  <2> QED BY <2>1, <2>1a, <2>2, <2>3, <2>4, <2>5, Zenon DEF PromoNext
<1> QED BY <1>1, <1>2, PTL DEF PromoSpec
-----------------------------------------------------------------------------
(* What a sound ledger is: with the accounts of users covered, and holds    *)
(* that agree with the transactions of their orders.                       *)
History(L) ==
  \A o \in Orders :
    /\ L.hold[o] = "none" <=> <<"balance_hold", o>> \notin L.posted
    /\ L.hold[o] = "released" <=> <<"balance_release", o>> \in L.posted
    /\ L.hold[o] = "captured" => <<"order_paid", o>> \in L.posted

NonNegative(L) == \A a \in UserAccounts : L.bal[a] >= 0

Owned(L) == \A o \in Orders : L.hold[o] # "none" => L.owner[o] \in Users

Sound(L) == L \in Ledgers /\ NonNegative(L) /\ History(L) /\ Owned(L)

-----------------------------------------------------------------------------
(* The legs that the postings are made of are functions on the accounts. *)
LEMMA LegType ==
  ASSUME NEW a \in Accounts, NEW x \in Int
  PROVE  Leg(a, x) \in [Accounts -> Int]
BY DEF Leg

(* Legs that are put together (orderPaidLegs) are legs. *)
LEMMA AndType ==
  ASSUME NEW f \in [Accounts -> Int], NEW g \in [Accounts -> Int]
  PROVE  And(f, g) \in [Accounts -> Int]
BY DEF And

(* Every account that a posting names is an account. *)
LEMMA AccountTypes ==
  /\ \A u \in Users : Balance(u) \in Accounts /\ BalanceHold(u) \in Accounts
                      /\ CommissionPending(u) \in Accounts
  /\ \A p \in Providers : Cash(p) \in Accounts
  /\ Revenue \in Accounts
  /\ SurchargeFee \in Accounts
  /\ LateSuspense \in Accounts
  /\ ManualAdjust \in Accounts
BY Zenon DEF Accounts, UserAccounts, UserTypes, DebitAccounts, Balance, BalanceHold,
       CommissionPending, Cash, Revenue, SurchargeFee, LateSuspense, ManualAdjust

(* What post leaves alone, and that it keeps the types and the sign of the *)
(* user accounts.                                                          *)
LEMMA PostEffect ==
  ASSUME NEW L \in Ledgers, NEW kind \in Kinds, NEW src \in Sources,
         NEW d \in [Accounts -> Int], NEW c \in [Accounts -> Int],
         CanPost(L, kind, src, d, c)
  PROVE  /\ post(L, kind, src, d, c) \in Ledgers
         /\ NonNegative(post(L, kind, src, d, c))
         /\ post(L, kind, src, d, c).posted = L.posted \cup {<<kind, src>>}
         /\ post(L, kind, src, d, c).hold = L.hold
         /\ post(L, kind, src, d, c).amount = L.amount
         /\ post(L, kind, src, d, c).owner = L.owner
<1>1. nextBalances(L, d, c) \in [Accounts -> Int]
  BY DEF nextBalances, signedDelta, Ledgers
<1>2. L.posted \cup {<<kind, src>>} \in SUBSET (Kinds \X Sources)
  BY DEF Ledgers
<1>3. /\ post(L, kind, src, d, c).bal = nextBalances(L, d, c)
      /\ post(L, kind, src, d, c).posted = L.posted \cup {<<kind, src>>}
      /\ post(L, kind, src, d, c).hold = L.hold
      /\ post(L, kind, src, d, c).amount = L.amount
      /\ post(L, kind, src, d, c).owner = L.owner
  BY Zenon DEF post, Ledgers
<1>4. post(L, kind, src, d, c) \in Ledgers
  BY <1>1, <1>2, Zenon DEF post, Ledgers
<1>5. NonNegative(post(L, kind, src, d, c))
  BY <1>3, Zenon DEF CanPost, NonNegative
<1> QED BY <1>3, <1>4, <1>5, Zenon

(* A posting that is not about a hold keeps a ledger sound. *)
LEMMA PostSound ==
  ASSUME NEW L, Sound(L), NEW kind \in Kinds \ {"balance_hold", "balance_release"},
         NEW src \in Sources,
         NEW d \in [Accounts -> Int], NEW c \in [Accounts -> Int],
         CanPost(L, kind, src, d, c)
  PROVE  Sound(post(L, kind, src, d, c))
<1> DEFINE M == post(L, kind, src, d, c)
<1>1. /\ M \in Ledgers
      /\ NonNegative(M)
      /\ M.posted = L.posted \cup {<<kind, src>>}
      /\ M.hold = L.hold
      /\ M.owner = L.owner
  BY PostEffect DEF Sound
<1> HIDE DEF M
<1>2. History(M) /\ Owned(M)
  BY <1>1, Zenon DEF Sound, History, Owned
<1> QED BY <1>1, <1>2, Zenon DEF Sound, M

-----------------------------------------------------------------------------
(* HoldForOrder keeps a ledger sound and makes exactly one row. *)
LEMMA HoldSound ==
  ASSUME NEW L, Sound(L), NEW o \in Orders, NEW u \in Users, NEW x \in Nat,
         CanHold(L, o, u, x)
  PROVE  /\ Sound(HoldForOrder(L, o, u, x))
         /\ HoldForOrder(L, o, u, x).hold = [L.hold EXCEPT ![o] = "held"]
         /\ HoldForOrder(L, o, u, x).amount = [L.amount EXCEPT ![o] = x]
         /\ HoldForOrder(L, o, u, x).owner = [L.owner EXCEPT ![o] = u]
<1> DEFINE d == Leg(Balance(u), x)
           c == Leg(BalanceHold(u), x)
           M == post(L, "balance_hold", o, d, c)
           H == HoldForOrder(L, o, u, x)
<1>1. d \in [Accounts -> Int] /\ c \in [Accounts -> Int]
  <2>1. Balance(u) \in Accounts /\ BalanceHold(u) \in Accounts /\ x \in Int
    BY AccountTypes
  <2> QED BY <2>1, LegType, Zenon
<1>2. /\ M \in Ledgers
      /\ NonNegative(M)
      /\ M.posted = L.posted \cup {<<"balance_hold", o>>}
      /\ M.hold = L.hold
      /\ M.amount = L.amount
      /\ M.owner = L.owner
  <2>1. CanPost(L, "balance_hold", o, d, c)
    BY Zenon DEF CanHold
  <2>2. "balance_hold" \in Kinds /\ o \in Sources /\ L \in Ledgers
    BY Zenon DEF Kinds, OnePerSource, Sources, Sound
  <2> HIDE DEF d, c
  <2> QED BY <1>1, <2>1, <2>2, PostEffect
<1>3. H = [M EXCEPT !.hold[o] = "held", !.amount[o] = x, !.owner[o] = u]
  BY Zenon DEF HoldForOrder
<1> HIDE DEF M, H, d, c
<1>4. H \in Ledgers
  BY <1>2, <1>3, Zenon DEF Ledgers, HoldStates
<1>5. /\ H.bal = M.bal
      /\ H.posted = L.posted \cup {<<"balance_hold", o>>}
      /\ H.hold = [L.hold EXCEPT ![o] = "held"]
      /\ H.amount = [L.amount EXCEPT ![o] = x]
      /\ H.owner = [L.owner EXCEPT ![o] = u]
  BY <1>2, <1>3, Zenon DEF Ledgers
<1>6. NonNegative(H)
  BY <1>2, <1>5, Zenon DEF NonNegative
<1>7. History(H) /\ Owned(H)
  BY <1>5, Zenon DEF CanHold, Sound, History, Owned, Ledgers
<1> QED BY <1>4, <1>5, <1>6, <1>7, Zenon DEF Sound, H

(* ReleaseOrderHold keeps a ledger sound and touches the one row only. *)
LEMMA ReleaseSound ==
  ASSUME NEW L, Sound(L), NEW o \in Orders, CanRelease(L, o)
  PROVE  /\ Sound(ReleaseOrderHold(L, o))
         /\ ReleaseOrderHold(L, o).hold =
              IF L.hold[o] = "held" THEN [L.hold EXCEPT ![o] = "released"] ELSE L.hold
         /\ ReleaseOrderHold(L, o).amount = L.amount
         /\ ReleaseOrderHold(L, o).owner = L.owner
<1>1. CASE L.hold[o] # "held"
  BY <1>1, Zenon DEF ReleaseOrderHold
<1>2. CASE L.hold[o] = "held"
  <2> DEFINE d == ReleaseDebit(L, o)
             c == ReleaseCredit(L, o)
             M == post(L, "balance_release", o, d, c)
             H == ReleaseOrderHold(L, o)
  <2>1. d \in [Accounts -> Int] /\ c \in [Accounts -> Int]
    <3>1. L.amount[o] \in Int /\ L.owner[o] \in Users
      BY <1>2 DEF Sound, Ledgers, Owned
    <3> QED BY <3>1, LegType, AccountTypes, Zenon DEF ReleaseDebit, ReleaseCredit
  <2>2. /\ M \in Ledgers
        /\ NonNegative(M)
        /\ M.posted = L.posted \cup {<<"balance_release", o>>}
        /\ M.hold = L.hold
        /\ M.amount = L.amount
        /\ M.owner = L.owner
    <3>1. CanPost(L, "balance_release", o, d, c)
      BY <1>2, Zenon DEF CanRelease
    <3>2. "balance_release" \in Kinds /\ o \in Sources /\ L \in Ledgers
      BY Zenon DEF Kinds, OnePerSource, Sources, Sound
    <3> HIDE DEF d, c
    <3> QED BY <2>1, <3>1, <3>2, PostEffect
  <2>3. H = [M EXCEPT !.hold[o] = "released"]
    BY <1>2, Zenon DEF ReleaseOrderHold
  <2> HIDE DEF M, H, d, c
  <2>4. H \in Ledgers
    BY <2>2, <2>3, Zenon DEF Ledgers, HoldStates
  <2>5. /\ H.bal = M.bal
        /\ H.posted = L.posted \cup {<<"balance_release", o>>}
        /\ H.hold = [L.hold EXCEPT ![o] = "released"]
        /\ H.amount = L.amount
        /\ H.owner = L.owner
    BY <2>2, <2>3, Zenon DEF Ledgers
  <2>6. NonNegative(H)
    BY <2>2, <2>5, Zenon DEF NonNegative
  <2>7. History(H) /\ Owned(H)
    BY <1>2, <2>5, Zenon DEF Sound, History, Owned, Ledgers
  <2> QED BY <1>2, <2>4, <2>5, <2>6, <2>7, Zenon DEF Sound, H
<1> QED BY <1>1, <1>2, Zenon

(* PostOrderPaid keeps a ledger sound and captures at most the hold of its *)
(* order.                                                                  *)
LEMMA OrderPaidSound ==
  ASSUME NEW L, Sound(L), NEW o \in Orders, NEW u \in Users, NEW total \in Nat,
         NEW paid \in Nat, NEW x \in Nat, NEW p \in Providers,
         CanOrderPaid(L, o, u, total, paid, x, p)
  PROVE  /\ Sound(PostOrderPaid(L, o, u, total, paid, x, p))
         /\ PostOrderPaid(L, o, u, total, paid, x, p).hold =
              IF total > paid THEN [L.hold EXCEPT ![o] = "captured"] ELSE L.hold
         /\ PostOrderPaid(L, o, u, total, paid, x, p).amount = L.amount
         /\ PostOrderPaid(L, o, u, total, paid, x, p).owner = L.owner
<1>0. paid <= total
  BY Zenon DEF CanOrderPaid
<1>1. CASE total = 0
  <2>1. ~ (total > paid)
    BY <1>1
  <2> QED BY <1>1, <2>1, Zenon DEF PostOrderPaid
<1>2. CASE total # 0
  <2> DEFINE d == PaidDebit(u, total, paid, x, p)
             c == PaidCredit(total, x)
             M == post(L, "order_paid", o, d, c)
             H == PostOrderPaid(L, o, u, total, paid, x, p)
  <2>1. d \in [Accounts -> Int] /\ c \in [Accounts -> Int]
    <3>1. /\ Leg(Cash(p), paid + x) \in [Accounts -> Int]
          /\ Leg(BalanceHold(u), total - paid) \in [Accounts -> Int]
          /\ Leg(Revenue, total) \in [Accounts -> Int]
          /\ Leg(SurchargeFee, x) \in [Accounts -> Int]
      <4>1. /\ Cash(p) \in Accounts /\ BalanceHold(u) \in Accounts
            /\ Revenue \in Accounts /\ SurchargeFee \in Accounts
        BY AccountTypes, Zenon
      <4>2. paid + x \in Int /\ total - paid \in Int /\ total \in Int /\ x \in Int
        OBVIOUS
      <4> QED BY <4>1, <4>2, LegType, Zenon
    <3> QED BY <3>1, AndType, Zenon DEF PaidDebit, PaidCredit
  <2>2. /\ M \in Ledgers
        /\ NonNegative(M)
        /\ M.posted = L.posted \cup {<<"order_paid", o>>}
        /\ M.hold = L.hold
        /\ M.amount = L.amount
        /\ M.owner = L.owner
    <3>1. CanPost(L, "order_paid", o, d, c)
      BY <1>2 DEF CanOrderPaid
    <3>2. "order_paid" \in Kinds /\ o \in Sources /\ L \in Ledgers
      BY Zenon DEF Kinds, OnePerSource, Sources, Sound
    <3> HIDE DEF d, c
    <3> QED BY <2>1, <3>1, <3>2, PostEffect
  <2>3. H = [M EXCEPT !.hold[o] = IF total > paid THEN "captured" ELSE @]
    BY <1>2, Zenon DEF PostOrderPaid
  <2>3a. total > paid => L.hold[o] = "held"
    <3>1. total > paid => total - paid > 0
      OBVIOUS
    <3> QED BY <3>1, Zenon DEF CanOrderPaid, HoldFits
  <2> HIDE DEF M, H, d, c
  <2>4. H \in Ledgers
    BY <2>2, <2>3, Zenon DEF Ledgers, HoldStates
  <2>5. /\ H.bal = M.bal
        /\ H.posted = L.posted \cup {<<"order_paid", o>>}
        /\ H.hold = IF total > paid THEN [L.hold EXCEPT ![o] = "captured"] ELSE L.hold
        /\ H.amount = L.amount
        /\ H.owner = L.owner
    BY <2>2, <2>3, Zenon DEF Ledgers
  <2>6. NonNegative(H)
    BY <2>2, <2>5, Zenon DEF NonNegative
  <2>7. History(H) /\ Owned(H)
    BY <2>3a, <2>5, Zenon DEF Sound, History, Owned, Ledgers
  <2> QED BY <2>4, <2>5, <2>6, <2>7, Zenon DEF Sound, H
<1> QED BY <1>1, <1>2, Zenon

(* CaptureFromBalance is sound, being a hold and its capture. *)
LEMMA CaptureSound ==
  ASSUME NEW L, Sound(L), NEW o \in Orders, NEW u \in Users, NEW x \in Nat,
         CanCaptureFromBalance(L, o, u, x)
  PROVE  /\ Sound(CaptureFromBalance(L, o, u, x))
         /\ CaptureFromBalance(L, o, u, x).hold = [L.hold EXCEPT ![o] = "captured"]
         /\ CaptureFromBalance(L, o, u, x).amount = [L.amount EXCEPT ![o] = x]
         /\ CaptureFromBalance(L, o, u, x).owner = [L.owner EXCEPT ![o] = u]
<1> DEFINE H == HoldForOrder(L, o, u, x)
           C == PostOrderPaid(H, o, u, x, 0, 0, Offline)
<1>1. CanHold(L, o, u, x) /\ CanOrderPaid(H, o, u, x, 0, 0, Offline) /\ x > 0
  BY Zenon DEF CanCaptureFromBalance, CanHold
<1>2. /\ Sound(H)
      /\ H.hold = [L.hold EXCEPT ![o] = "held"]
      /\ H.amount = [L.amount EXCEPT ![o] = x]
      /\ H.owner = [L.owner EXCEPT ![o] = u]
  BY <1>1, HoldSound, SMTT(30)
<1> HIDE DEF H
<1>3. /\ Sound(C)
      /\ C.hold = [H.hold EXCEPT ![o] = "captured"]
      /\ C.amount = H.amount
      /\ C.owner = H.owner
  BY <1>1, <1>2, OrderPaidSound, PanelConstants, SMTT(30) DEF PanelConstants
<1>4. C.hold = [L.hold EXCEPT ![o] = "captured"]
  BY <1>2, <1>3, Zenon
<1>5. CaptureFromBalance(L, o, u, x) = C
  BY Zenon DEF CaptureFromBalance, H
<1> QED BY <1>2, <1>3, <1>4, <1>5, Zenon

(* AdjustBalance is sound and leaves the holds alone. *)
LEMMA AdjustSound ==
  ASSUME NEW L, Sound(L), NEW u \in Users, NEW x \in Int, CanAdjust(L, u, x)
  PROVE  /\ Sound(Adjusted(L, u, x))
         /\ Adjusted(L, u, x).hold = L.hold
         /\ Adjusted(L, u, x).amount = L.amount
         /\ Adjusted(L, u, x).owner = L.owner
<1> DEFINE d == AdjustDebit(u, x)
           c == AdjustCredit(u, x)
<1>1. d \in [Accounts -> Int] /\ c \in [Accounts -> Int]
  <2>1. Balance(u) \in Accounts /\ ManualAdjust \in Accounts /\ -x \in Int
    BY AccountTypes
  <2> QED BY <2>1, LegType, Zenon DEF AdjustDebit, AdjustCredit
<1>2. CanPost(L, "balance_adjusted", u, d, c)
  BY Zenon DEF CanAdjust
<1>3. /\ "balance_adjusted" \in Kinds \ {"balance_hold", "balance_release"}
      /\ u \in Sources /\ L \in Ledgers
  BY Zenon DEF Kinds, Sources, Sound
<1>4. Adjusted(L, u, x) = post(L, "balance_adjusted", u, d, c)
  BY Zenon DEF Adjusted
<1> HIDE DEF d, c
<1>5. Sound(post(L, "balance_adjusted", u, d, c))
  BY <1>1, <1>2, <1>3, PostSound, Zenon
<1> QED BY <1>1, <1>2, <1>3, <1>4, <1>5, PostEffect

(* The top-up posting is sound and leaves the holds alone. *)
LEMMA TopupSound ==
  ASSUME NEW L, Sound(L), NEW o \in Orders, NEW u \in Users, NEW x \in Nat, NEW fee \in Nat,
         NEW p \in Providers, CanTopup(L, o, u, x, fee, p)
  PROVE  /\ Sound(Topup(L, o, u, x, fee, p))
         /\ Topup(L, o, u, x, fee, p).hold = L.hold
         /\ Topup(L, o, u, x, fee, p).amount = L.amount
         /\ Topup(L, o, u, x, fee, p).owner = L.owner
<1> DEFINE d == TopupDebit(p, x, fee)
           c == TopupCredit(u, x, fee)
<1>1. d \in [Accounts -> Int] /\ c \in [Accounts -> Int]
  <2>1. /\ Balance(u) \in Accounts /\ Cash(p) \in Accounts /\ SurchargeFee \in Accounts
        /\ x \in Int /\ fee \in Int /\ x + fee \in Int
    BY AccountTypes
  <2>2. /\ Leg(Cash(p), x + fee) \in [Accounts -> Int]
        /\ Leg(Balance(u), x) \in [Accounts -> Int]
        /\ Leg(SurchargeFee, fee) \in [Accounts -> Int]
    BY <2>1, LegType, Zenon
  <2> QED BY <2>2, AndType, Zenon DEF TopupDebit, TopupCredit
<1>2. CanPost(L, "balance_topup", o, d, c)
  BY Zenon DEF CanTopup
<1>3. /\ "balance_topup" \in Kinds \ {"balance_hold", "balance_release"}
      /\ o \in Sources /\ L \in Ledgers
  BY Zenon DEF Kinds, OnePerSource, Sources, Sound
<1>4. Topup(L, o, u, x, fee, p) = post(L, "balance_topup", o, d, c)
  BY Zenon DEF Topup
<1> HIDE DEF d, c
<1>5. Sound(post(L, "balance_topup", o, d, c))
  BY <1>1, <1>2, <1>3, PostSound, Zenon
<1> QED BY <1>1, <1>2, <1>3, <1>4, <1>5, PostEffect

-----------------------------------------------------------------------------
(* The empty ledger is sound. *)
LEMMA EmptySound == Sound(EmptyLedger)
<1>1. EmptyLedger \in Ledgers
  BY DEF EmptyLedger, Ledgers, HoldStates
<1>2. NonNegative(EmptyLedger)
  BY DEF EmptyLedger, NonNegative, Accounts
<1>3. History(EmptyLedger) /\ Owned(EmptyLedger)
  BY Zenon DEF EmptyLedger, History, Owned
<1> QED BY <1>1, <1>2, <1>3, Zenon DEF Sound

(* One step of the ledger: the holds move only as their states allow. *)
HoldMoves ==
  \A o \in Orders :
    /\ ledger.hold[o] \in {"captured", "released"} => ledger'.hold[o] = ledger.hold[o]
    /\ ledger.hold[o] # "none" => /\ ledger'.amount[o] = ledger.amount[o]
                                  /\ ledger'.owner[o] = ledger.owner[o]

(* Every call of the module keeps the ledger sound and moves holds only as *)
(* their states allow.                                                     *)
LEMMA StepSound ==
  ASSUME Sound(ledger), LedgerNext
  PROVE  Sound(ledger') /\ HoldMoves
<1> USE LedgerConstants DEF LedgerConstants, Amounts
<1>0. ledger.hold \in [Orders -> HoldStates] /\ ledger.amount \in [Orders -> Nat]
      /\ ledger.owner \in [Orders -> Users \cup {NoUser}]
  BY Zenon DEF Sound, Ledgers
<1>1. ASSUME NEW o \in Orders, ReleaseHold(o)
      PROVE  Sound(ledger') /\ HoldMoves
  <2>1. /\ Sound(ledger')
        /\ ledger'.hold =
             IF ledger.hold[o] = "held" THEN [ledger.hold EXCEPT ![o] = "released"]
             ELSE ledger.hold
        /\ ledger'.amount = ledger.amount
        /\ ledger'.owner = ledger.owner
    BY <1>1, ReleaseSound, Zenon DEF ReleaseHold
  <2> QED BY <1>0, <2>1, Zenon DEF HoldMoves
<1>2. ASSUME NEW o \in Orders, NEW u \in Users, NEW x \in Amounts, PlaceHold(o, u, x)
      PROVE  Sound(ledger') /\ HoldMoves
  <2>1. /\ Sound(ledger')
        /\ ledger'.hold = [ledger.hold EXCEPT ![o] = "held"]
        /\ ledger'.amount = [ledger.amount EXCEPT ![o] = x]
        /\ ledger'.owner = [ledger.owner EXCEPT ![o] = u]
    BY <1>2, HoldSound DEF PlaceHold
  <2>2. ledger.hold[o] = "none"
    BY <1>2, Zenon DEF PlaceHold, CanHold
  <2> QED BY <1>0, <2>1, <2>2, Zenon DEF HoldMoves
<1>3. ASSUME NEW o \in Orders, NEW u \in Users, NEW x \in Amounts, PayFromBalance(o, u, x)
      PROVE  Sound(ledger') /\ HoldMoves
  <2>1. /\ Sound(ledger')
        /\ ledger'.hold = [ledger.hold EXCEPT ![o] = "captured"]
        /\ ledger'.amount = [ledger.amount EXCEPT ![o] = x]
        /\ ledger'.owner = [ledger.owner EXCEPT ![o] = u]
    BY <1>3, CaptureSound DEF PayFromBalance
  <2>2. ledger.hold[o] = "none"
    BY <1>3, Zenon DEF PayFromBalance, CanCaptureFromBalance, CanHold
  <2> QED BY <1>0, <2>1, <2>2, Zenon DEF HoldMoves
<1>4. ASSUME NEW o \in Orders, NEW u \in Users, NEW total \in Amounts,
             NEW paid \in 0..MaxAmount, NEW x \in Surcharges, NEW p \in Providers,
             SettleOrder(o, u, total, paid, x, p)
      PROVE  Sound(ledger') /\ HoldMoves
  <2>1. total \in Nat /\ paid \in Nat /\ x \in Nat
    OBVIOUS
  <2>2. CanOrderPaid(ledger, o, u, total, paid, x, p)
        /\ ledger' = PostOrderPaid(ledger, o, u, total, paid, x, p)
    BY <1>4, Zenon DEF SettleOrder
  <2>3. /\ Sound(ledger')
        /\ ledger'.hold = IF total > paid THEN [ledger.hold EXCEPT ![o] = "captured"]
                          ELSE ledger.hold
        /\ ledger'.amount = ledger.amount
        /\ ledger'.owner = ledger.owner
    BY <2>1, <2>2, OrderPaidSound
  <2>4. total > paid => ledger.hold[o] = "held"
    <3>1. total > paid => total - paid > 0
      BY <2>1
    <3> QED BY <2>2, <3>1, Zenon DEF CanOrderPaid, HoldFits
  <2> QED BY <1>0, <2>3, <2>4, Zenon DEF HoldMoves
<1>5. ASSUME NEW u \in Users, NEW x \in Int, AdjustBalance(u, x)
      PROVE  Sound(ledger') /\ HoldMoves
  <2>1. /\ Sound(ledger')
        /\ ledger'.hold = ledger.hold
        /\ ledger'.amount = ledger.amount
        /\ ledger'.owner = ledger.owner
    BY <1>5, AdjustSound, Zenon DEF AdjustBalance
  <2> QED BY <2>1, Zenon DEF HoldMoves
<1>6. ASSUME NEW o \in Orders, NEW u \in Users, NEW x \in Amounts, NEW fee \in Surcharges,
             NEW p \in Providers, TopUp(o, u, x, fee, p)
      PROVE  Sound(ledger') /\ HoldMoves
  <2>1. x \in Nat /\ fee \in Nat
    OBVIOUS
  <2>2. /\ Sound(ledger')
        /\ ledger'.hold = ledger.hold
        /\ ledger'.amount = ledger.amount
        /\ ledger'.owner = ledger.owner
    BY <1>6, <2>1, TopupSound DEF TopUp
  <2> QED BY <2>2, Zenon DEF HoldMoves
<1>7. \A x \in Amounts : x \in Int /\ -x \in Int
  OBVIOUS
<1> QED BY <1>1, <1>2, <1>3, <1>4, <1>5, <1>6, <1>7, Zenon DEF LedgerNext

(* The ledger is always sound: no user account is ever negative and the    *)
(* rows of balance_holds agree with the transactions of their orders,      *)
(* whatever the callers do.                                                *)
THEOREM LedgerSafe == LedgerSpec => []LedgerInv
<1>1. LedgerInit => Sound(ledger)
  BY EmptySound, Zenon DEF LedgerInit
<1>2. Sound(ledger) /\ [LedgerNext]_ledger => Sound(ledger)'
  BY StepSound, Zenon
<1>3. Sound(ledger) => LedgerInv
  BY Zenon DEF Sound, NonNegative, History, LedgerInv, LedgerTypeOK, UserAccountsNonNegative, HoldHistory
<1> QED BY <1>1, <1>2, <1>3, PTL DEF LedgerSpec

(* A hold that was captured or released stays so, and no hold changes its  *)
(* amount or owner.                                                        *)
THEOREM HoldsAreFinal == LedgerSpec => HoldIsFinal
<1>1. LedgerInit => Sound(ledger)
  BY EmptySound, Zenon DEF LedgerInit
<1>2. Sound(ledger) /\ [LedgerNext]_ledger => Sound(ledger)'
  BY StepSound, Zenon
<1>3. Sound(ledger) /\ [LedgerNext]_ledger =>
        [\A o \in Orders :
           /\ ledger.hold[o] \in {"captured", "released"} => ledger'.hold[o] = ledger.hold[o]
           /\ ledger.hold[o] # "none" => /\ ledger'.amount[o] = ledger.amount[o]
                                         /\ ledger'.owner[o] = ledger.owner[o]]_ledger
  BY StepSound, Zenon DEF HoldMoves
<1> QED BY <1>1, <1>2, <1>3, PTL DEF LedgerSpec, HoldIsFinal

-----------------------------------------------------------------------------
(***************************************************************************)
(* Orders and payments: types, and the steps of the coupons.               *)
(***************************************************************************)

(* What orders can be placed with. *)
LEMMA PlacementTypes ==
  ASSUME NEW d \in Placements
  PROVE  /\ d \in PlacedDrafts /\ d \in Drafts
         /\ d.user \in Users
         /\ d.coupon # NoCoupon => d.coupon \in Coupons
         /\ d.total \in Nat /\ d.applied \in Nat /\ d.refund \in Nat
BY OrderPaymentConstants, Zenon DEF OrderPaymentConstants, PlacedDrafts, Drafts

(* A payment names an order. *)
LEMMA PaymentTypes ==
  /\ \A pay \in Payments : OrderOf(pay) \in Orders /\ NumberOf(pay) \in 0..MaxIntents
  /\ \A o \in Orders, k \in 1..MaxCaptures : <<o, 0, k>> \in Payments
BY PanelConstants DEF PanelConstants, Payments, OrderOf, NumberOf

-----------------------------------------------------------------------------
(* A function on 1..n is a sequence. *)
LEMMA FunctionIsSeq ==
  ASSUME NEW S, NEW n \in Nat, NEW f \in [1..n -> S]
  PROVE  f \in Seq(S)
BY SeqDef, Zenon

(* The operations on the intents of an order keep them a sequence of       *)
(* intents.                                                                *)
LEMMA CloseIntentsType ==
  ASSUME NEW is \in Seq(Intents), NEW to \in IntentStates
  PROVE  CloseIntents(is, to) \in Seq(Intents) /\ DOMAIN CloseIntents(is, to) = DOMAIN is
<1>1. is \in [1..Len(is) -> Intents] /\ Len(is) \in Nat
  BY LenProperties, Zenon
<1>2. CloseIntents(is, to) \in [1..Len(is) -> Intents]
  BY <1>1, Zenon DEF CloseIntents, Intents
<1>3. CloseIntents(is, to) \in Seq(Intents)
  BY <1>1, <1>2, FunctionIsSeq, Zenon
<1> QED BY <1>3, Zenon DEF CloseIntents

(* Writing one intent keeps the intents well typed (FillPlaceholderIntent). *)
LEMMA SetIntentType ==
  ASSUME NEW is \in Seq(Intents), NEW n \in DOMAIN is, NEW i \in Intents
  PROVE  [is EXCEPT ![n] = i] \in Seq(Intents)
<1>1. is \in [1..Len(is) -> Intents] /\ Len(is) \in Nat
  BY LenProperties, Zenon
<1>2. [is EXCEPT ![n] = i] \in [1..Len(is) -> Intents]
  BY <1>1, Zenon
<1> QED BY <1>1, <1>2, FunctionIsSeq, Zenon

(* markIntentSucceeded keeps the intents of an order well typed. *)
LEMMA MarkIntentType ==
  ASSUME NEW o \in Orders, intents[o] \in Seq(Intents), NEW n, NEW active \in BOOLEAN
  PROVE  /\ MarkIntentSucceeded(o, n, active) \in Seq(Intents)
         /\ DOMAIN MarkIntentSucceeded(o, n, active) = DOMAIN intents[o]
<1>1. intents[o] \in [1..Len(intents[o]) -> Intents] /\ Len(intents[o]) \in Nat
  BY LenProperties, Zenon
<1>2. MarkIntentSucceeded(o, n, active) \in [1..Len(intents[o]) -> Intents]
  BY <1>1, ZenonT(30) DEF MarkIntentSucceeded, Intents, IntentStates
<1>3. MarkIntentSucceeded(o, n, active) \in Seq(Intents)
  BY <1>1, <1>2, FunctionIsSeq, Zenon
<1> QED BY <1>3, Zenon DEF MarkIntentSucceeded

-----------------------------------------------------------------------------
(* Type correctness.  The steps are grouped by the part of Next they are   *)
(* in; each leaf is one action.                                            *)
LEMMA InitTypeOK == Init => OrderPaymentTypeOK
<1> SUFFICES ASSUME Init PROVE OrderPaymentTypeOK
  BY Zenon
<1>1. \A o \in Orders : intents[o] \in Seq(Intents)
  BY EmptySeq, Zenon DEF Init
<1>2. intents \in [Orders -> Seq(Intents)]
  BY <1>1, Zenon DEF Init
<1>3. draft \in [Orders -> Drafts] /\ worker \in [Workers -> WorkerStates]
  <2>1. NoDraft \in Drafts /\ Idle \in WorkerStates
    BY Zenon DEF Drafts, WorkerStates
  <2> QED BY <2>1, Zenon DEF Init
<1>4. adjusted \in [Users -> Int]
  BY DEF Init
<1> QED BY <1>2, <1>3, <1>4, Zenon
        DEF Init, OrderPaymentTypeOK, OrderStates, HoldStates, Outcomes

(* What RecordOffline writes is of the type of its tables. *)
OfflineTyped ==
  /\ captured' \subseteq Payments
  /\ outcome' \in [Payments -> Outcomes]
  /\ events' \subseteq Payments \X (Reports \cup {"offline"})
  /\ UNCHANGED <<contextVars, caseStatus, evidence, worker, adjusted>>

(* RecordOffline books a payment of the order under its reference. *)
LEMMA OfflineTypes ==
  ASSUME OrderPaymentTypeOK, NEW o \in Orders, NEW k \in 1..MaxCaptures, OfflineRecorded(o, k)
  PROVE  OfflineTyped
<1>1. <<o, 0, k>> \in Payments
  BY PaymentTypes, Zenon
<1> DEFINE pay == <<o, 0, k>>
<1>2. /\ captured' = captured \cup {pay}
      /\ outcome' = [outcome EXCEPT ![pay] = "settled"]
      /\ events' = events \cup {<<pay, "offline">>}
      /\ UNCHANGED <<contextVars, caseStatus, evidence, worker, adjusted>>
  BY Zenon DEF OfflineRecorded
<1>3. pay \in Payments
  BY <1>1, Zenon
<1> HIDE DEF pay
<1>4. captured' \subseteq Payments
  BY <1>2, <1>3, Zenon DEF OrderPaymentTypeOK
<1>5. outcome' \in [Payments -> Outcomes]
  BY <1>2, <1>3, Zenon DEF OrderPaymentTypeOK, Outcomes
<1>6. events' \subseteq Payments \X (Reports \cup {"offline"})
  <2>1. <<pay, "offline">> \in Payments \X (Reports \cup {"offline"})
    BY <1>3
  <2>2. events \subseteq Payments \X (Reports \cup {"offline"})
    BY Zenon DEF OrderPaymentTypeOK
  <2> QED BY <1>2, <2>1, <2>2, Zenon
<1> QED BY <1>2, <1>4, <1>5, <1>6, Zenon DEF OfflineTyped

(* Placing, settling, cancelling and expiring an order keep the types. *)
LEMMA OrderTypeOK ==
  ASSUME OrderPaymentTypeOK, OrderNext
  PROVE  OrderPaymentTypeOK'
<1> PICK o \in Orders :
      \/ \E d \in Placements : Place(o, d) \/ PlaceZero(o, d)
      \/ \E d \in Placements, k \in 1..MaxCaptures : PlaceOffline(o, d, k)
      \/ \E k \in 1..MaxCaptures : MarkPaid(o, k)
      \/ Cancel(o) \/ Lapse(o) \/ expireOne(o) \/ SubscriptionChanges(o)
  BY Zenon DEF OrderNext
<1> USE DEF OrderPaymentTypeOK, OrderStates, Closed, HoldStates, Outcomes,
            orderVars, contextVars, recordVars
<1>0. /\ intents[o] \in Seq(Intents)
      /\ \A to \in {"cancelled", "expired"} :
           /\ CloseOrderIntents(o, to) \in Seq(Intents)
  BY CloseIntentsType, Zenon DEF CloseOrderIntents, IntentStates
<1>1. ASSUME NEW d \in Placements, Place(o, d) PROVE OrderPaymentTypeOK'
  BY <1>1, PlacementTypes, Zenon DEF Place
<1>2. ASSUME NEW d \in Placements, PlaceZero(o, d) PROVE OrderPaymentTypeOK'
  BY <1>2, PlacementTypes, ZenonT(30) DEF PlaceZero
<1>3. ASSUME NEW d \in Placements, NEW k \in 1..MaxCaptures, PlaceOffline(o, d, k)
      PROVE OrderPaymentTypeOK'
  <2>1. /\ orderStatus' \in [Orders -> OrderStates] /\ draft' \in [Orders -> Drafts]
        /\ resv' \in [Orders -> HoldStates]
    BY <1>3, PlacementTypes, Zenon DEF PlaceOffline
  <2>2. accrued' \subseteq Orders
    BY <1>3, Zenon DEF PlaceOffline, AccruedAfter
  <2>3. OfflineTyped /\ UNCHANGED <<lapsed, intents>>
    BY <1>3, OfflineTypes, Zenon DEF PlaceOffline
  <2> QED BY <2>1, <2>2, <2>3, Zenon DEF OfflineTyped
<1>4. ASSUME NEW k \in 1..MaxCaptures, MarkPaid(o, k) PROVE OrderPaymentTypeOK'
  <2>1. /\ orderStatus' \in [Orders -> OrderStates] /\ resv' \in [Orders -> HoldStates]
        /\ UNCHANGED <<draft, lapsed>>
    BY <1>4, Zenon DEF MarkPaid, SettleOrderWith
  <2>2. accrued' \subseteq Orders
    BY <1>4, Zenon DEF MarkPaid, SettleOrderWith, AccruedAfter
  <2>3. intents' \in [Orders -> Seq(Intents)]
    BY <1>0, <1>4, Zenon DEF MarkPaid
  <2>4. OfflineTyped
    BY <1>4, OfflineTypes, Zenon DEF MarkPaid
  <2> QED BY <2>1, <2>2, <2>3, <2>4, Zenon DEF OfflineTyped
<1>5. CASE Cancel(o)
  BY <1>0, <1>5, Zenon DEF Cancel, releaseOrder, ReleaseReservations
<1>6. CASE expireOne(o)
  BY <1>0, <1>6, Zenon DEF expireOne, releaseOrder, ReleaseReservations
<1>7. CASE Lapse(o)
  BY <1>7, Zenon DEF Lapse
<1>8. CASE SubscriptionChanges(o)
  BY <1>8, Zenon DEF SubscriptionChanges
<1> QED BY <1>1, <1>2, <1>3, <1>4, <1>5, <1>6, <1>7, <1>8, Zenon

(* BeginIntent, CompleteIntent and the answers of the channel touch the    *)
(* intents only.                                                           *)
LEMMA IntentsOnly ==
  ASSUME IntentNext
  PROVE  IntentStep
<1>1. ASSUME NEW o, NEW p, NEW x, Pay(o, p, x) PROVE IntentStep
  BY <1>1, Zenon DEF Pay, IntentStep
<1>2. ASSUME NEW o, NEW n, ChannelAnswers(o, n) PROVE IntentStep
  BY <1>2, Zenon DEF ChannelAnswers
<1>3. ASSUME NEW o, NEW n, NEW invoice, ChannelFails(o, n, invoice) PROVE IntentStep
  BY <1>3, Zenon DEF ChannelFails
<1>4. ASSUME NEW o, NEW n, Fill(o, n) PROVE IntentStep
  BY <1>4, Zenon DEF Fill
<1>5. ASSUME NEW o, NEW n, HandlerDies(o, n) \/ WindowPasses(o, n) PROVE IntentStep
  BY <1>5, Zenon DEF HandlerDies, WindowPasses
<1> QED BY <1>1, <1>2, <1>3, <1>4, <1>5, Zenon DEF IntentNext

(* BeginIntent, CompleteIntent and the answers of the channel keep the types. *)
LEMMA IntentTypeOK ==
  ASSUME OrderPaymentTypeOK, IntentNext
  PROVE  OrderPaymentTypeOK'
<1> PICK o \in Orders :
      \/ \E p \in Providers, x \in Surcharges : Pay(o, p, x)
      \/ \E n \in DOMAIN intents[o] :
           \/ ChannelAnswers(o, n)
           \/ \E invoice \in BOOLEAN : ChannelFails(o, n, invoice)
           \/ Fill(o, n) \/ HandlerDies(o, n) \/ WindowPasses(o, n)
  BY Zenon DEF IntentNext
<1>0. intents \in [Orders -> Seq(Intents)] /\ intents[o] \in Seq(Intents)
  BY Zenon DEF OrderPaymentTypeOK
<1> SUFFICES /\ intents' \in [Orders -> Seq(Intents)]
             /\ UNCHANGED <<orderVars, contextVars, captured, recordVars, accrued, adjusted>>
  BY SMTT(20) DEF OrderPaymentTypeOK, orderVars, contextVars, recordVars
<1>1. ASSUME NEW p \in Providers, NEW x \in Surcharges, Pay(o, p, x)
      PROVE  /\ intents' \in [Orders -> Seq(Intents)]
             /\ UNCHANGED <<orderVars, contextVars, captured, recordVars, accrued, adjusted>>
  <2>1. PICK i \in Intents :
          intents' = [intents EXCEPT ![o] = Append(CloseOrderIntents(o, "cancelled"), i)]
    BY <1>1, LedgerConstants, Zenon DEF Pay, Intents, IntentStates, LedgerConstants
  <2>2. CloseOrderIntents(o, "cancelled") \in Seq(Intents)
    BY <1>0, CloseIntentsType, Zenon DEF CloseOrderIntents, IntentStates
  <2>3. Append(CloseOrderIntents(o, "cancelled"), i) \in Seq(Intents)
    BY <2>2, AppendProperties, Zenon
  <2> QED BY <1>0, <1>1, <2>1, <2>3, SMTT(20) DEF Pay
<1>2. ASSUME NEW n \in DOMAIN intents[o],
             \/ ChannelAnswers(o, n)
             \/ \E invoice \in BOOLEAN : ChannelFails(o, n, invoice)
             \/ Fill(o, n) \/ HandlerDies(o, n) \/ WindowPasses(o, n)
      PROVE  /\ intents' \in [Orders -> Seq(Intents)]
             /\ UNCHANGED <<orderVars, contextVars, captured, recordVars, accrued, adjusted>>
  <2>1. intents[o][n] \in Intents
    BY <1>0, LenProperties, ElementOfSeq, Zenon
  <2>2. \E i \in Intents : SetIntent(o, n, i)
    <3> USE <2>1 DEF Intents, IntentStates
    <3>1. CASE ChannelAnswers(o, n)
      BY <3>1, Zenon DEF ChannelAnswers
    <3>2. CASE \E invoice \in BOOLEAN : ChannelFails(o, n, invoice)
      BY <3>2, Zenon DEF ChannelFails
    <3>3. CASE Fill(o, n)
      <4>1. \A r, f \in BOOLEAN :
              [intents[o][n] EXCEPT !.handler = "over", !.ref = r, !.filled = f] \in Intents
        BY Zenon
      <4>2. /\ (intents[o][n].provider \in StoresRef) \in BOOLEAN
            /\ (intents[o][n].filled \/ intents[o][n].status = "requires_action") \in BOOLEAN
        OBVIOUS
      <4>3. SetIntent(o, n,
              [intents[o][n] EXCEPT !.handler = "over",
                 !.ref = intents[o][n].provider \in StoresRef,
                 !.filled = intents[o][n].filled \/ intents[o][n].status = "requires_action"])
        BY <3>3, Zenon DEF Fill
      <4> HIDE DEF Intents
      <4> QED BY <4>1, <4>2, <4>3, Zenon
    <3>4. CASE HandlerDies(o, n)
      BY <3>4, Zenon DEF HandlerDies
    <3>5. CASE WindowPasses(o, n)
      BY <3>5, Zenon DEF WindowPasses
    <3> QED BY <1>2, <3>1, <3>2, <3>3, <3>4, <3>5, Zenon
  <2>2a. PICK i \in Intents : SetIntent(o, n, i)
    BY <2>2, Zenon
  <2>3. intents' = [intents EXCEPT ![o] = [intents[o] EXCEPT ![n] = i]]
    BY <1>0, <2>2a, Zenon DEF SetIntent
  <2>4. [intents[o] EXCEPT ![n] = i] \in Seq(Intents)
    BY <1>0, SetIntentType, Zenon
  <2>5. IntentStep
    BY IntentsOnly, Zenon
  <2> QED BY <1>0, <2>3, <2>4, <2>5, Zenon DEF IntentStep
<1> QED BY <1>1, <1>2, Zenon

(* What is known of a transaction under way. *)
LEMMA BusyTypes ==
  ASSUME OrderPaymentTypeOK, NEW w \in Workers, worker[w].pc # "idle"
  PROVE  /\ worker[w] \in [pc : {"read", "quarantine", "archived"}, pay : Payments,
                           report : Reports, seen : OrderStates, active : BOOLEAN]
         /\ worker[w].pay \in Payments
         /\ worker[w].seen \in OrderStates
         /\ OrderOf(worker[w].pay) \in Orders
         /\ Event(w) \in Payments \X (Reports \cup {"offline"})
<1>1. worker[w] \in WorkerStates /\ worker[w] # Idle
  BY DEF OrderPaymentTypeOK, Idle
<1>2. worker[w] \in [pc : {"read", "quarantine", "archived"}, pay : Payments,
                     report : Reports, seen : OrderStates, active : BOOLEAN]
  BY <1>1, Zenon DEF WorkerStates
<1> QED BY <1>2, PaymentTypes, Zenon DEF Event

(* Every step of recordPaymentTx keeps the types. *)
LEMMA RecordStepTypeOK ==
  ASSUME OrderPaymentTypeOK, NEW w \in Workers, RecordStep(w)
  PROVE  OrderPaymentTypeOK'
<1> DEFINE pay == worker[w].pay
           o == OrderOf(pay)
<1>1. worker[w].pc # "idle"
  BY Zenon DEF RecordStep, RecordKnown, RecordSettle, RecordNotPayable, RecordQuarantine,
         RecordArchived, FirstRecord
<1>2. /\ pay \in Payments /\ o \in Orders
      /\ worker[w].seen \in OrderStates
      /\ worker[w].active \in BOOLEAN
      /\ Event(w) \in Payments \X (Reports \cup {"offline"})
  BY <1>1, BusyTypes, Zenon
<1>3. /\ MarkIntentSucceeded(o, NumberOf(pay), worker[w].active) \in Seq(Intents)
      /\ IntentsPaid(o, NumberOf(pay), worker[w].active) \in Seq(Intents)
  <2>1. intents[o] \in Seq(Intents)
    BY <1>2, Zenon DEF OrderPaymentTypeOK
  <2>2. MarkIntentSucceeded(o, NumberOf(pay), worker[w].active) \in Seq(Intents)
    BY <1>2, <2>1, MarkIntentType, Zenon
  <2> QED BY <2>2, CloseIntentsType, Zenon DEF IntentsPaid, IntentStates
<1>4. Idle \in WorkerStates
  BY Zenon DEF WorkerStates
<1> HIDE DEF pay, o
<1> USE DEF OrderPaymentTypeOK, OrderStates, Closed, HoldStates, Outcomes,
            orderVars, contextVars, recordVars
<1>5. CASE RecordKnown(w)
  BY <1>2, <1>4, <1>5, SMTT(20) DEF RecordKnown, Commit
<1>6. CASE RecordSettle(w)
  BY <1>2, <1>3, <1>4, <1>6, Zenon DEF RecordSettle, SettleOrderWith, AccruedAfter, Commit, pay, o
<1>7. CASE RecordNotPayable(w)
  <2>1. PICK pc \in {"quarantine", "archived"} :
          worker' = [worker EXCEPT ![w].pc = pc, ![w].seen = orderStatus[o]]
    BY <1>7, Zenon DEF RecordNotPayable, pay, o
  <2>2. [worker[w] EXCEPT !.pc = pc, !.seen = orderStatus[o]] \in WorkerStates
    <3>1. PICK r \in [pc : {"read", "quarantine", "archived"}, pay : Payments,
                      report : Reports, seen : OrderStates, active : BOOLEAN] : r = worker[w]
      BY <1>1, BusyTypes, Zenon
    <3>2. [r EXCEPT !.pc = pc] \in [pc : {"read", "quarantine", "archived"}, pay : Payments,
                      report : Reports, seen : OrderStates, active : BOOLEAN]
      BY Zenon
    <3>3. orderStatus[o] \in OrderStates
      BY <1>2, Zenon
    <3>4. [[r EXCEPT !.pc = pc] EXCEPT !.seen = orderStatus[o]] \in WorkerStates
      BY <3>2, <3>3, Zenon DEF WorkerStates
    <3> QED BY <3>1, <3>4, Zenon
  <2>3. worker' = [worker EXCEPT ![w] = [worker[w] EXCEPT !.pc = pc, !.seen = orderStatus[o]]]
    BY <2>1, Zenon
  <2>4. worker' \in [Workers -> WorkerStates]
    BY <2>2, <2>3, Zenon
  <2> QED BY <1>7, <2>4, Zenon DEF RecordNotPayable
<1>8. CASE RecordQuarantine(w)
  BY <1>2, <1>3, <1>4, <1>8, Zenon DEF RecordQuarantine, Commit, pay, o
<1>9. CASE RecordArchived(w)
  <2>1. /\ orderStatus' \in [Orders -> OrderStates]
        /\ resv' \in [Orders -> HoldStates]
        /\ UNCHANGED <<draft, lapsed>>
        /\ intents' \in [Orders -> Seq(Intents)]
    <3>1. \/ /\ ReleaseReservations(o, "cancelled")
             /\ intents' = [intents EXCEPT ![o] = IntentsPaid(o, NumberOf(pay), worker[w].active)]
          \/ /\ intents' = [intents EXCEPT ![o] =
                              MarkIntentSucceeded(o, NumberOf(pay), worker[w].active)]
             /\ UNCHANGED orderVars
      BY <1>9, Zenon DEF RecordArchived, pay, o
    <3>2. intents' \in [Orders -> Seq(Intents)]
      BY <1>2, <1>3, <3>1, Zenon
    <3>3. CASE UNCHANGED orderVars
      BY <3>2, <3>3, SMTT(20)
    <3>4. CASE ReleaseReservations(o, "cancelled")
      BY <1>2, <3>2, <3>4, SMTT(20) DEF ReleaseReservations
    <3> QED BY <3>1, <3>3, <3>4, SMTT(20)
  <2>2. /\ outcome' \in [Payments -> Outcomes]
        /\ caseStatus' \in [Payments -> OrderStates]
        /\ UNCHANGED <<contextVars, captured, evidence, accrued, adjusted>>
    BY <1>2, <1>9, SMTT(20) DEF RecordArchived, pay, o
  <2>3. /\ events' \subseteq Payments \X (Reports \cup {"offline"})
        /\ worker' \in [Workers -> WorkerStates]
    BY <1>2, <1>4, <1>9, SMTT(20) DEF RecordArchived, Commit
  <2> QED BY <2>1, <2>2, <2>3, Zenon
<1> QED BY <1>5, <1>6, <1>7, <1>8, <1>9, SMTT(20) DEF RecordStep

(* So do its beginning, its failure, the channel and applyLateCase. *)
LEMMA RecordTypeOK ==
  ASSUME OrderPaymentTypeOK, RecordNext
  PROVE  OrderPaymentTypeOK'
<1>0. Idle \in WorkerStates
  BY Zenon DEF WorkerStates
<1>1. ASSUME NEW w \in Workers, RecordStep(w) PROVE OrderPaymentTypeOK'
  BY <1>1, RecordStepTypeOK, Zenon
<1> USE DEF OrderPaymentTypeOK, orderVars, contextVars
<1>2. ASSUME NEW w \in Workers, RecordAbort(w) PROVE OrderPaymentTypeOK'
  BY <1>0, <1>2, Zenon DEF RecordAbort
<1>3. ASSUME NEW pay \in Payments, ChannelCapture(pay) PROVE OrderPaymentTypeOK'
  BY <1>3, Zenon DEF ChannelCapture, recordVars
<1>4. ASSUME NEW pay \in Payments, ApplyLatePayment(pay) PROVE OrderPaymentTypeOK'
  BY <1>4, Zenon DEF ApplyLatePayment, Outcomes
<1>5. ASSUME NEW pay \in Payments, NEW report \in Reports, RecordRefused(pay, report)
      PROVE OrderPaymentTypeOK'
  BY <1>5, SMTT(20) DEF RecordRefused
<1>6. ASSUME NEW pay \in Payments, NEW report \in Reports, NEW w \in Workers,
             RecordBegin(w, pay, report)
      PROVE OrderPaymentTypeOK'
  <2>1. PICK active \in BOOLEAN :
          worker' = [worker EXCEPT ![w] =
            [pc |-> "read", pay |-> pay, report |-> report, seen |-> "none", active |-> active]]
    BY <1>6, Zenon DEF RecordBegin
  <2>2. [pc |-> "read", pay |-> pay, report |-> report, seen |-> "none", active |-> active]
          \in WorkerStates
    BY Zenon DEF WorkerStates, OrderStates
  <2>3. worker' \in [Workers -> WorkerStates]
    BY <2>1, <2>2, Zenon
  <2> QED BY <1>6, <2>3, SMTT(20) DEF RecordBegin
<1> QED BY <1>1, <1>2, <1>3, <1>4, <1>5, <1>6, Zenon DEF RecordNext

(* Archiving a plan, changing a coupon, adjusting a balance keep the types. *)
LEMMA PanelTypeOK ==
  ASSUME OrderPaymentTypeOK, PanelNext
  PROVE  OrderPaymentTypeOK'
<1> USE DEF OrderPaymentTypeOK, orderVars, contextVars, recordVars
<1>1. CASE ArchivePlan
  BY <1>1, Zenon DEF ArchivePlan
<1>2. CASE CouponChanges
  BY <1>2, Zenon DEF CouponChanges
<1>3. ASSUME NEW u \in Users, NEW x \in Adjustments, Adjust(u, x) PROVE OrderPaymentTypeOK'
  BY <1>3, OrderPaymentConstants DEF Adjust, OrderPaymentConstants
<1> QED BY <1>1, <1>2, <1>3, Zenon DEF PanelNext

(* A step of the system, or one that changes nothing, keeps the types. *)
LEMMA StepTypeOK == OrderPaymentTypeOK /\ [Next]_vars => OrderPaymentTypeOK'
<1> SUFFICES ASSUME OrderPaymentTypeOK, [Next]_vars PROVE OrderPaymentTypeOK'
  BY Zenon
<1>1. CASE UNCHANGED vars
  BY <1>1, Zenon DEF vars, orderVars, contextVars, recordVars, OrderPaymentTypeOK
<1> QED BY <1>1, OrderTypeOK, IntentTypeOK, RecordTypeOK, PanelTypeOK, Zenon DEF Next

(* The tables of orders and payments keep their types. *)
THEOREM OrderPaymentIsTyped == Spec => []OrderPaymentTypeOK
BY InitTypeOK, StepTypeOK, PTL DEF Spec

-----------------------------------------------------------------------------
(* OrderPayment implements Promo: whatever a transaction of the order or   *)
(* payment module does, its effect on the coupon tables is one operation   *)
(* of the promo module, or none.                                           *)
LEMMA PromoStep == OrderPaymentTypeOK /\ [Next]_vars => [PromoNext]_promoVars
<1> SUFFICES ASSUME OrderPaymentTypeOK, [Next]_vars PROVE [PromoNext]_promoVars
  BY SMTT(20)
<1>1. ASSUME NEW o \in Orders, NEW to, ReleaseReservations(o, to)
      PROVE [PromoNext]_promoVars
  BY <1>1, Zenon DEF ReleaseReservations, PromoNext
<1>2. ASSUME NEW o \in Orders, NEW p, NEW x, SettleOrderWith(o, p, x)
      PROVE [PromoNext]_promoVars
  BY <1>2, Zenon DEF SettleOrderWith, PromoNext
<1>3. CASE OrderNext
  <2>1. ASSUME NEW o \in Orders, NEW d \in Placements, Place(o, d)
        PROVE [PromoNext]_promoVars
    BY <2>1, PlacementTypes, Zenon DEF Place, PromoNext
  <2>2. ASSUME NEW o \in Orders, NEW d \in Placements, PlaceZero(o, d)
        PROVE [PromoNext]_promoVars
    BY <2>2, PlacementTypes, Zenon DEF PlaceZero, PromoNext
  <2>3. ASSUME NEW o \in Orders, NEW d, NEW k, PlaceOffline(o, d, k)
        PROVE [PromoNext]_promoVars
    BY <2>3, Zenon DEF PlaceOffline
  <2>4. ASSUME NEW o \in Orders, NEW k, MarkPaid(o, k) PROVE [PromoNext]_promoVars
    BY <1>2, <2>4, Zenon DEF MarkPaid
  <2>5. ASSUME NEW o \in Orders, Cancel(o) \/ expireOne(o) PROVE [PromoNext]_promoVars
    BY <1>1, <2>5, Zenon DEF Cancel, expireOne, releaseOrder
  <2>6. ASSUME NEW o \in Orders, Lapse(o) \/ SubscriptionChanges(o)
        PROVE [PromoNext]_promoVars
    BY <2>6, Zenon DEF Lapse, SubscriptionChanges
  <2> QED BY <1>3, <2>1, <2>2, <2>3, <2>4, <2>5, <2>6, SMTT(20) DEF OrderNext
<1>4. CASE IntentNext
  BY <1>4, IntentsOnly, Zenon DEF IntentStep
<1>5. CASE RecordNext
  <2>1. ASSUME NEW w \in Workers, RecordSettle(w) \/ RecordArchived(w)
        PROVE [PromoNext]_promoVars
    <3>1. OrderOf(worker[w].pay) \in Orders
      <4>1. worker[w].pc # "idle"
        BY <2>1, Zenon DEF RecordSettle, RecordArchived, FirstRecord
      <4> QED BY <4>1, BusyTypes, SMTT(20)
    <3> QED BY <1>1, <1>2, <2>1, <3>1, Zenon DEF RecordSettle, RecordArchived
  <2>2. ASSUME NEW w, RecordKnown(w) \/ RecordNotPayable(w) \/ RecordQuarantine(w)
                      \/ RecordAbort(w)
        PROVE [PromoNext]_promoVars
    BY <2>2, SMTT(20) DEF RecordKnown, RecordNotPayable, RecordQuarantine, RecordAbort
  <2>3. ASSUME NEW pay, NEW report, NEW w,
               ChannelCapture(pay) \/ ApplyLatePayment(pay) \/ RecordRefused(pay, report)
               \/ RecordBegin(w, pay, report)
        PROVE [PromoNext]_promoVars
    BY <2>3, Zenon DEF ChannelCapture, ApplyLatePayment, RecordRefused, RecordBegin
  <2> QED BY <1>5, <2>1, <2>2, <2>3, SMTT(20) DEF RecordNext, RecordStep
<1>6. CASE PanelNext
  BY <1>6, Zenon DEF PanelNext, ArchivePlan, CouponChanges, Adjust, PromoNext
<1>7. CASE UNCHANGED vars
  BY <1>7, Zenon DEF vars
<1> QED BY <1>3, <1>4, <1>5, <1>6, <1>7, Zenon DEF Next

(* The orders use coupons only in ways the promo module allows. *)
THEOREM OrdersUsePromo == Spec => PromoSpec
<1>1. Init => PromoInit
  BY Zenon DEF Init
<1> QED BY <1>1, PromoStep, OrderPaymentIsTyped, PTL DEF Spec, PromoSpec

(* So in the composed system, too, the coupon counters count the rows and  *)
(* no coupon is used beyond its limits.                                    *)
THEOREM CouponsStayWithinLimits == Spec => []CouponInv
BY OrdersUsePromo, PromoSafe, PTL

-----------------------------------------------------------------------------

-----------------------------------------------------------------------------
(* How the intents of an order change.  An intent keeps what it was made   *)
(* for, keeps the reference of the channel once it has one, and once it is *)
(* closed keeps its status.                                                *)
Later(i, j) ==
  /\ j.provider = i.provider /\ j.surcharge = i.surcharge
  /\ i.ref => j.ref
  /\ j.ref => i.ref \/ i.provider \in StoresRef
  /\ i.status # "requires_action" => j.status = i.status

(* is is what became of the intents of order o, none of them dropped. *)
AllLater(o, is) ==
  /\ DOMAIN intents[o] \subseteq DOMAIN is
  /\ \A n \in DOMAIN intents[o] : Later(intents[o][n], is[n])

NoneOpen(o, is) == \A n \in DOMAIN intents[o] : is[n].status # "requires_action"

(* References are stored for the channels that give one. *)
RefsStored ==
  \A o \in Orders : \A n \in DOMAIN intents[o] :
    intents[o][n].ref => intents[o][n].provider \in StoresRef

(* The intents of one order are rewritten; if the order moves, all of them *)
(* are closed.                                                             *)
Rewritten(o, is) ==
  /\ intents' = [intents EXCEPT ![o] = is]
  /\ AllLater(o, is) /\ DOMAIN is = DOMAIN intents[o]
  /\ \A q \in Orders \ {o} : orderStatus'[q] = orderStatus[q]
  /\ orderStatus'[o] = orderStatus[o] \/ NoneOpen(o, is)

(* BeginIntent: the others are closed first. *)
Begun(o, is) ==
  /\ intents' = [intents EXCEPT ![o] = is]
  /\ orderStatus[o] = "pending_payment" /\ UNCHANGED orderStatus
  /\ AllLater(o, is) /\ NoneOpen(o, is)
  /\ \E n : DOMAIN is = DOMAIN intents[o] \cup {n} /\ ~ is[n].ref

IntentsAdvance ==
  \/ UNCHANGED intents /\ \A o \in Orders : orderStatus[o] # "none" => orderStatus'[o] = orderStatus[o]
  \/ \E o \in Orders : \E is : Rewritten(o, is) \/ Begun(o, is)

(* One intent, closed or not. *)
LEMMA OneLater ==
  ASSUME NEW i \in Intents, NEW st
  PROVE  /\ Later(i, i)
         /\ i.status = "requires_action" => Later(i, [i EXCEPT !.status = st])
         /\ [i EXCEPT !.status = st].status = st
BY Zenon DEF Later, Intents

(* One intent after it was closed. *)
LEMMA ClosedLater ==
  ASSUME NEW i \in Intents, NEW st, st # "requires_action",
         NEW j, j = IF i.status = "requires_action" THEN [i EXCEPT !.status = st] ELSE i
  PROVE  Later(i, j) /\ j.status # "requires_action"
<1>1. CASE i.status = "requires_action"
  <2>1. j = [i EXCEPT !.status = st]
    BY <1>1, Zenon
  <2> QED BY <1>1, <2>1, OneLater, Zenon
<1>2. CASE i.status # "requires_action"
  BY <1>2, OneLater, Zenon
<1> QED BY <1>1, <1>2, Zenon

(* CloseOrderIntents, markIntentSucceeded and both. *)
LEMMA ListsLater ==
  ASSUME NEW o \in Orders, intents[o] \in Seq(Intents), NEW n, NEW active,
         NEW to \in {"cancelled", "expired"}
  PROVE  /\ AllLater(o, CloseOrderIntents(o, to)) /\ NoneOpen(o, CloseOrderIntents(o, to))
         /\ DOMAIN CloseOrderIntents(o, to) = DOMAIN intents[o]
         /\ AllLater(o, MarkIntentSucceeded(o, n, active))
         /\ DOMAIN MarkIntentSucceeded(o, n, active) = DOMAIN intents[o]
         /\ AllLater(o, IntentsPaid(o, n, active)) /\ NoneOpen(o, IntentsPaid(o, n, active))
         /\ DOMAIN IntentsPaid(o, n, active) = DOMAIN intents[o]
<1>1. \A m \in DOMAIN intents[o] : intents[o][m] \in Intents
  BY LenProperties, ElementOfSeq, Zenon
<1>2. ASSUME NEW m \in DOMAIN intents[o]
      PROVE  /\ Later(intents[o][m], CloseOrderIntents(o, to)[m])
             /\ CloseOrderIntents(o, to)[m].status # "requires_action"
             /\ Later(intents[o][m], MarkIntentSucceeded(o, n, active)[m])
             /\ Later(intents[o][m], IntentsPaid(o, n, active)[m])
             /\ IntentsPaid(o, n, active)[m].status # "requires_action"
  <2>1. PICK i \in Intents : i = intents[o][m]
    BY <1>1, Zenon
  <2>2. CloseOrderIntents(o, to)[m] =
          IF i.status = "requires_action" THEN [i EXCEPT !.status = to] ELSE i
    BY <2>1, Zenon DEF CloseOrderIntents, CloseIntents
  <2>3. PICK j : /\ j = MarkIntentSucceeded(o, n, active)[m]
                 /\ j = i \/ (i.status = "requires_action" /\ j = [i EXCEPT !.status = "succeeded"])
    BY <2>1, Zenon DEF MarkIntentSucceeded
  <2>4. IntentsPaid(o, n, active)[m] =
          IF j.status = "requires_action" THEN [j EXCEPT !.status = "cancelled"] ELSE j
    BY <2>3, Zenon DEF IntentsPaid, CloseIntents, MarkIntentSucceeded
  <2>5. Later(i, CloseOrderIntents(o, to)[m])
        /\ CloseOrderIntents(o, to)[m].status # "requires_action"
    <3>1. to # "requires_action"
      BY Zenon
    <3> QED BY <2>2, <3>1, ClosedLater, Zenon
  <2>6. Later(i, j)
    BY <2>3, OneLater, SMTT(20)
  <2>7. Later(i, IntentsPaid(o, n, active)[m])
        /\ IntentsPaid(o, n, active)[m].status # "requires_action"
    <3>1. CASE j = i
      <4>1. PICK st : st = "cancelled"
        BY Zenon
      <4>2. st # "requires_action"
        BY <4>1, Zenon
      <4> QED BY <2>4, <3>1, <4>1, <4>2, ClosedLater, ZenonT(30)
    <3>2. CASE i.status = "requires_action" /\ j = [i EXCEPT !.status = "succeeded"]
      <4>1. j.status = "succeeded"
        BY <3>2, OneLater, Zenon
      <4>2. IntentsPaid(o, n, active)[m] = j
        BY <2>4, <4>1, Zenon
      <4> QED BY <2>6, <4>1, <4>2, Zenon
    <3> QED BY <2>3, <3>1, <3>2, Zenon
  <2> QED BY <2>1, <2>3, <2>5, <2>6, <2>7, Zenon
<1>3. /\ DOMAIN CloseOrderIntents(o, to) = DOMAIN intents[o]
      /\ DOMAIN MarkIntentSucceeded(o, n, active) = DOMAIN intents[o]
      /\ DOMAIN IntentsPaid(o, n, active) = DOMAIN intents[o]
  BY Zenon DEF CloseOrderIntents, CloseIntents, MarkIntentSucceeded, IntentsPaid
<1> QED BY <1>2, <1>3, Zenon DEF AllLater, NoneOpen

(* CompleteIntent writes one intent, and never opens it again. *)
LEMMA CompleteLater ==
  ASSUME OrderPaymentTypeOK, RefsStored, NEW o \in Orders, NEW n \in DOMAIN intents[o],
         \/ ChannelAnswers(o, n)
         \/ \E invoice \in BOOLEAN : ChannelFails(o, n, invoice)
         \/ Fill(o, n) \/ HandlerDies(o, n) \/ WindowPasses(o, n)
  PROVE  \E is : Rewritten(o, is)
<1>1. intents \in [Orders -> Seq(Intents)] /\ intents[o] \in Seq(Intents)
  BY Zenon DEF OrderPaymentTypeOK
<1>2. \A m \in DOMAIN intents[o] : intents[o][m] \in Intents
  BY <1>1, LenProperties, ElementOfSeq, Zenon
<1>3. PICK i \in Intents : i = intents[o][n] /\ (i.ref => i.provider \in StoresRef)
  BY <1>2, Zenon DEF RefsStored
<1>4. \E j : Later(i, j) /\ SetIntent(o, n, j)
  <2>1. CASE ChannelAnswers(o, n)
    <3>1. Later(i, [i EXCEPT !.handler = "answered", !.invoice = TRUE])
      BY Zenon DEF Later, Intents
    <3> QED BY <1>3, <2>1, <3>1, Zenon DEF ChannelAnswers
  <2>2. ASSUME NEW invoice \in BOOLEAN, ChannelFails(o, n, invoice)
        PROVE  \E j : Later(i, j) /\ SetIntent(o, n, j)
    <3> DEFINE j == [i EXCEPT !.handler = "over", !.invoice = invoice,
                     !.status = IF @ = "requires_action" /\ ~ i.filled THEN "cancelled" ELSE @]
    <3>1. Later(i, j)
      BY SMTT(20) DEF Later, Intents
    <3>2. SetIntent(o, n, j)
      BY <1>3, <2>2, Zenon DEF ChannelFails
    <3> QED BY <3>1, <3>2, Zenon
  <2>3. CASE Fill(o, n)
    <3> DEFINE j == [i EXCEPT !.handler = "over", !.ref = i.provider \in StoresRef,
                     !.filled = @ \/ i.status = "requires_action"]
    <3>1. Later(i, j)
      BY <1>3, Zenon DEF Later, Intents
    <3>2. SetIntent(o, n, j)
      BY <1>3, <2>3, Zenon DEF Fill
    <3> QED BY <3>1, <3>2, Zenon
  <2>4. CASE HandlerDies(o, n)
    <3>1. Later(i, [i EXCEPT !.handler = "over"])
      BY Zenon DEF Later, Intents
    <3> QED BY <1>3, <2>4, <3>1, Zenon DEF HandlerDies
  <2>5. CASE WindowPasses(o, n)
    <3>1. Later(i, [i EXCEPT !.fresh = FALSE])
      BY Zenon DEF Later, Intents
    <3> QED BY <1>3, <2>5, <3>1, Zenon DEF WindowPasses
  <2> QED BY <2>1, <2>2, <2>3, <2>4, <2>5, Zenon
<1>5. PICK j : Later(i, j) /\ SetIntent(o, n, j)
  BY <1>4, Zenon
<1>6. PICK is : is = [intents[o] EXCEPT ![n] = j]
  BY Zenon
<1>7. intents' = [intents EXCEPT ![o] = is]
  BY <1>1, <1>5, <1>6, Zenon DEF SetIntent
<1>8. DOMAIN is = DOMAIN intents[o] /\ AllLater(o, is)
  <2>1. DOMAIN is = DOMAIN intents[o]
        /\ \A m \in DOMAIN intents[o] : is[m] = IF m = n THEN j ELSE intents[o][m]
    BY <1>1, <1>6, Zenon
  <2>2. \A m \in DOMAIN intents[o] : Later(intents[o][m], is[m])
    BY <1>2, <1>3, <1>5, <2>1, OneLater, Zenon
  <2> QED BY <2>1, <2>2, Zenon DEF AllLater
<1>9. UNCHANGED orderStatus
  BY Zenon DEF ChannelAnswers, ChannelFails, Fill, HandlerDies, WindowPasses, IntentStep, orderVars
<1> QED BY <1>7, <1>8, <1>9, Zenon DEF Rewritten

(* BeginIntent appends the only open one. *)
LEMMA PayLater ==
  ASSUME OrderPaymentTypeOK, NEW o \in Orders, NEW p, NEW x, Pay(o, p, x)
  PROVE  \E is : Begun(o, is)
<1> DEFINE i == [provider |-> p, surcharge |-> x, status |-> "requires_action", filled |-> FALSE,
                 ref |-> FALSE, fresh |-> TRUE, handler |-> "begun", invoice |-> FALSE]
           cs == CloseOrderIntents(o, "cancelled")
           is == Append(cs, i)
<1>1. intents[o] \in Seq(Intents)
  BY SMTT(20) DEF OrderPaymentTypeOK
<1>2. /\ AllLater(o, cs) /\ NoneOpen(o, cs) /\ DOMAIN cs = DOMAIN intents[o]
      /\ cs \in Seq(Intents)
  <2>1. PICK to : to = "cancelled"
    BY Zenon
  <2>2. CloseIntents(intents[o], to) \in Seq(Intents)
    BY <1>1, <2>1, CloseIntentsType, SMTT(20) DEF IntentStates
  <2>3. /\ AllLater(o, CloseOrderIntents(o, to)) /\ NoneOpen(o, CloseOrderIntents(o, to))
        /\ DOMAIN CloseOrderIntents(o, to) = DOMAIN intents[o]
    BY <1>1, <2>1, ListsLater, Zenon
  <2> QED BY <2>1, <2>2, <2>3, Zenon DEF CloseOrderIntents
<1>3. ~ i.ref
  BY Zenon
<1>4. /\ intents' = [intents EXCEPT ![o] = is]
      /\ orderStatus[o] = "pending_payment" /\ UNCHANGED orderStatus
  BY Zenon DEF Pay, orderVars
<1> HIDE DEF i, cs
<1>5. /\ DOMAIN is = DOMAIN cs \cup {Len(cs) + 1}
      /\ \A m \in DOMAIN cs : is[m] = cs[m]
      /\ is[Len(cs) + 1] = i
  BY <1>2, LenProperties, SMTT(20)
<1>6. AllLater(o, is) /\ NoneOpen(o, is)
  BY <1>2, <1>5, Zenon DEF AllLater, NoneOpen
<1> HIDE DEF is
<1> QED BY <1>2, <1>3, <1>4, <1>5, <1>6, Zenon DEF Begun

(* Every step changes the intents in these ways only. *)
LEMMA StepIntents ==
  ASSUME OrderPaymentTypeOK, RefsStored, [Next]_vars
  PROVE  IntentsAdvance
<1>0. intents \in [Orders -> Seq(Intents)] /\ orderStatus \in [Orders -> OrderStates]
  BY Zenon DEF OrderPaymentTypeOK
<1>1. CASE OrderNext
  <2> PICK o \in Orders :
        \/ \E d \in Placements : Place(o, d) \/ PlaceZero(o, d)
        \/ \E d \in Placements, k \in 1..MaxCaptures : PlaceOffline(o, d, k)
        \/ \E k \in 1..MaxCaptures : MarkPaid(o, k)
        \/ Cancel(o) \/ Lapse(o) \/ expireOne(o) \/ SubscriptionChanges(o)
    BY <1>1, Zenon DEF OrderNext
  <2>1. ASSUME NEW st, orderStatus[o] = "none", orderStatus' = [orderStatus EXCEPT ![o] = st],
               UNCHANGED intents
        PROVE  IntentsAdvance
    BY <1>0, <2>1, Zenon DEF IntentsAdvance
  <2>2. CASE \E d \in Placements : Place(o, d) \/ PlaceZero(o, d)
    BY <2>1, <2>2, Zenon DEF Place, PlaceZero, CanPlace
  <2>3. CASE \E d \in Placements, k \in 1..MaxCaptures : PlaceOffline(o, d, k)
    BY <2>1, <2>3, Zenon DEF PlaceOffline, CanPlace
  <2>4. ASSUME NEW st, NEW to \in {"cancelled", "expired"},
               orderStatus' = [orderStatus EXCEPT ![o] = st],
               intents' = [intents EXCEPT ![o] = CloseOrderIntents(o, to)]
        PROVE  IntentsAdvance
    <3>1. \A q \in Orders \ {o} : orderStatus'[q] = orderStatus[q]
      BY <1>0, <2>4, Zenon
    <3>2. Rewritten(o, CloseOrderIntents(o, to))
      BY <1>0, <2>4, <3>1, ListsLater, Zenon DEF Rewritten
    <3> QED BY <3>2, Zenon DEF IntentsAdvance
  <2>5. CASE \E k \in 1..MaxCaptures : MarkPaid(o, k)
    BY <2>4, <2>5, Zenon DEF MarkPaid, SettleOrderWith
  <2>6. CASE Cancel(o) \/ expireOne(o)
    BY <2>4, <2>6, Zenon DEF Cancel, expireOne, releaseOrder, ReleaseReservations
  <2>7. CASE Lapse(o) \/ SubscriptionChanges(o)
    BY <2>7, Zenon DEF Lapse, SubscriptionChanges, orderVars, IntentsAdvance
  <2> QED BY <2>2, <2>3, <2>5, <2>6, <2>7, Zenon
<1>2. CASE IntentNext
  BY <1>2, CompleteLater, PayLater, Zenon DEF IntentNext, IntentsAdvance
<1>3. CASE RecordNext
  <2>1. ASSUME NEW w \in Workers,
               RecordSettle(w) \/ RecordQuarantine(w) \/ RecordArchived(w)
        PROVE  IntentsAdvance
    <3>1. PICK o, n, active : o = OrderOf(worker[w].pay) /\ n = NumberOf(worker[w].pay)
                              /\ active = worker[w].active
      BY Zenon
    <3>2. worker[w].pc # "idle"
      BY <2>1, Zenon DEF RecordSettle, RecordQuarantine, RecordArchived, FirstRecord
    <3>3. o \in Orders
      BY <3>1, <3>2, BusyTypes, Zenon
    <3>4. \/ /\ \E st : orderStatus' = [orderStatus EXCEPT ![o] = st]
             /\ intents' = [intents EXCEPT ![o] = IntentsPaid(o, n, active)]
          \/ /\ UNCHANGED orderStatus
             /\ intents' = [intents EXCEPT ![o] = MarkIntentSucceeded(o, n, active)]
      BY <2>1, <3>1, Zenon DEF RecordSettle, SettleOrderWith, RecordQuarantine, RecordArchived,
                               ReleaseReservations, orderVars
    <3>5. \A q \in Orders \ {o} : orderStatus'[q] = orderStatus[q]
      BY <1>0, <3>4, Zenon
    <3>6. PICK to : to = "cancelled"
      BY Zenon
    <3>7. \/ Rewritten(o, IntentsPaid(o, n, active))
          \/ Rewritten(o, MarkIntentSucceeded(o, n, active))
      BY <1>0, <3>3, <3>4, <3>5, <3>6, ListsLater, ZenonT(60) DEF Rewritten
    <3> QED BY <3>3, <3>7, Zenon DEF IntentsAdvance
  <2>2. ASSUME NEW w, RecordKnown(w) \/ RecordNotPayable(w) \/ RecordAbort(w)
        PROVE  IntentsAdvance
    BY <2>2, Zenon DEF RecordKnown, RecordNotPayable, RecordAbort, orderVars, IntentsAdvance
  <2>3. ASSUME NEW pay, NEW report, NEW w,
               ChannelCapture(pay) \/ ApplyLatePayment(pay) \/ RecordRefused(pay, report)
               \/ RecordBegin(w, pay, report)
        PROVE  IntentsAdvance
    BY <2>3, Zenon DEF ChannelCapture, ApplyLatePayment, RecordRefused, RecordBegin, orderVars,
                       IntentsAdvance
  <2> QED BY <1>3, <2>1, <2>2, <2>3, Zenon DEF RecordNext, RecordStep
<1>4. CASE PanelNext
  BY <1>4, Zenon DEF PanelNext, ArchivePlan, CouponChanges, Adjust, orderVars, IntentsAdvance
<1>5. CASE UNCHANGED vars
  BY <1>5, Zenon DEF vars, orderVars, IntentsAdvance
<1> QED BY <1>1, <1>2, <1>3, <1>4, <1>5, Zenon DEF Next
=============================================================================
