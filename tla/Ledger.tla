------------------------------- MODULE Ledger -------------------------------
(***************************************************************************)
(* The double-entry ledger of the panel (module ledger): the cached        *)
(* balances of the accounts, which transactions exist for which source,    *)
(* and the balance holds of orders.                                        *)
(*                                                                         *)
(* One variable, ledger, holds the tables.  A posting is a pure operator   *)
(* from a ledger to a ledger, with a predicate Can... that says when the   *)
(* code does not return an error; an error rolls the whole transaction of  *)
(* the caller back.  That lets a caller make several postings in one       *)
(* transaction by composing them.  Every posting locks its accounts, so a  *)
(* transaction is one step.                                                *)
(***************************************************************************)
EXTENDS Panel, FiniteSetsExt

CONSTANTS
  MaxAmount,   \* bound: the largest amount of one posting
  MaxBalance,  \* bound: credits from outside stop at this balance
  Surcharges   \* the payment surcharges the channels ask for

ASSUME LedgerConstants ==
  /\ MaxAmount \in Nat
  /\ MaxBalance \in Nat
  /\ Surcharges \subseteq Nat

VARIABLE ledger

Amounts == 1..MaxAmount

-----------------------------------------------------------------------------
(* Accounts: a type and an owner, which is a user or a platform reference. *)
UserTypes == {"user_balance", "user_balance_hold",
              "user_commission_pending", "user_commission_available"}

UserAccounts == UserTypes \X Users

Cash(p)       == <<"channel_cash", p>>
Revenue       == <<"platform_revenue", "main">>
SurchargeFee  == <<"platform_revenue", "payment_surcharge">>
LateSuspense  == <<"late_payment_suspense", "main">>
ManualAdjust  == <<"suspense", "manual_adjust">>
Balance(u)    == <<"user_balance", u>>
BalanceHold(u) == <<"user_balance_hold", u>>
CommissionPending(u) == <<"user_commission_pending", u>>

DebitAccounts == {Cash(p) : p \in Providers} \cup {ManualAdjust}

Accounts == UserAccounts \cup DebitAccounts \cup {Revenue, SurchargeFee, LateSuspense}

UserOwned(a) == a \in UserAccounts

DebitNormal(a) == a \in DebitAccounts

OnePerSource ==
  {"balance_topup", "balance_hold", "balance_release", "order_paid",
   "late_payment_suspense", "plan_change_refund", "commission_settled",
   "commission_paid", "gift_card_balance", "commission_voided"}

Kinds == OnePerSource \cup
         {"balance_adjusted", "late_payment_applied", "commission_accrued",
          "commission_to_balance"}

(* What a transaction can be about: an order, a recorded payment, a user.  *)
Sources == Orders \cup Payments \cup Users

HoldStates == {"none", "held", "captured", "released"}

Ledgers ==
  [bal : [Accounts -> Int],               \* ledger_accounts.balance
   posted : SUBSET (Kinds \X Sources),    \* ledger_transactions (kind, source)
   hold : [Orders -> HoldStates],         \* balance_holds.status, none: no row
   amount : [Orders -> Nat],              \* balance_holds.amount
   owner : [Orders -> Users \cup {NoUser}]] \* balance_holds.user_id

EmptyLedger ==
  [bal |-> [a \in Accounts |-> 0], posted |-> {},
   hold |-> [o \in Orders |-> "none"], amount |-> [o \in Orders |-> 0],
   owner |-> [o \in Orders |-> NoUser]]

-----------------------------------------------------------------------------
(* The legs of a transaction are two functions, the debits and the credits *)
(* per account; a leg of amount 0 is a leg the code does not append.       *)
Leg(a, x) == [b \in Accounts |-> IF b = a THEN x ELSE 0]

And(f, g) == [b \in Accounts |-> f[b] + g[b]]

signedDelta(a, d, c) == IF DebitNormal(a) THEN d[a] - c[a] ELSE c[a] - d[a]

nextBalances(L, d, c) == [a \in Accounts |-> L.bal[a] + signedDelta(a, d, c)]

(* Mutant: the insufficient balance check is dropped. *)
CanPostOverdrawn(L, kind, src, d, c) ==
  kind \in OnePerSource => <<kind, src>> \notin L.posted

(* post: refuses a second transaction of a one-per-source kind and a leg   *)
(* that leaves a user account negative.  validatePosting is not a guard:   *)
(* TrialBalance shows that the callers' legs always balance.               *)
CanPost(L, kind, src, d, c) ==
  /\ kind \in OnePerSource => <<kind, src>> \notin L.posted
  /\ \A a \in UserAccounts : nextBalances(L, d, c)[a] >= 0

post(L, kind, src, d, c) ==
  [L EXCEPT !.bal = nextBalances(L, d, c), !.posted = @ \cup {<<kind, src>>}]

-----------------------------------------------------------------------------
(* HoldForOrder: x of the user's balance becomes a hold of the order. *)
CanHold(L, o, u, x) ==
  /\ x > 0
  /\ L.hold[o] = "none"
  /\ CanPost(L, "balance_hold", o, Leg(Balance(u), x), Leg(BalanceHold(u), x))

HoldForOrder(L, o, u, x) ==
  [post(L, "balance_hold", o, Leg(Balance(u), x), Leg(BalanceHold(u), x))
     EXCEPT !.hold[o] = "held", !.amount[o] = x, !.owner[o] = u]

(* ReleaseOrderHold: nothing to do without a held hold, an error if it was *)
(* captured.                                                               *)
ReleaseDebit(L, o)  == Leg(BalanceHold(L.owner[o]), L.amount[o])
ReleaseCredit(L, o) == Leg(Balance(L.owner[o]), L.amount[o])

CanRelease(L, o) ==
  /\ L.hold[o] # "captured"
  /\ L.hold[o] = "held" =>
       CanPost(L, "balance_release", o, ReleaseDebit(L, o), ReleaseCredit(L, o))

(* Mutant: the release is posted and the hold row stays held. *)
ReleaseOrderHoldRowKept(L, o) ==
  IF L.hold[o] = "held"
  THEN post(L, "balance_release", o, ReleaseDebit(L, o), ReleaseCredit(L, o))
  ELSE L

ReleaseOrderHold(L, o) ==
  IF L.hold[o] = "held"
  THEN [post(L, "balance_release", o, ReleaseDebit(L, o), ReleaseCredit(L, o))
          EXCEPT !.hold[o] = "released"]
  ELSE L

(* PostOrderPaid: the channel paid `paid` (and the surcharge x) through p, *)
(* the rest of the total comes out of the hold.  The fee of the channel is *)
(* 0 in every adapter of the repository and has no leg here.               *)
PaidDebit(u, total, paid, x, p) ==
  And(Leg(Cash(p), paid + x), Leg(BalanceHold(u), total - paid))

PaidCredit(total, x) == And(Leg(Revenue, total), Leg(SurchargeFee, x))

HoldFits(L, o, u, applied) ==
  IF applied > 0
  THEN L.hold[o] = "held" /\ L.amount[o] = applied /\ L.owner[o] = u
  ELSE L.hold[o] # "held"

CanOrderPaid(L, o, u, total, paid, x, p) ==
  /\ paid <= total
  /\ x > 0 => paid > 0
  /\ L.hold[o] # "captured"
  /\ HoldFits(L, o, u, total - paid)
  /\ total > 0 => CanPost(L, "order_paid", o,
                          PaidDebit(u, total, paid, x, p), PaidCredit(total, x))

PostOrderPaid(L, o, u, total, paid, x, p) ==
  IF total = 0
  THEN L
  ELSE [post(L, "order_paid", o, PaidDebit(u, total, paid, x, p), PaidCredit(total, x))
          EXCEPT !.hold[o] = IF total > paid THEN "captured" ELSE @]

(* CaptureFromBalance: hold and capture in one transaction. *)
CanCaptureFromBalance(L, o, u, x) ==
  /\ CanHold(L, o, u, x)
  /\ CanOrderPaid(HoldForOrder(L, o, u, x), o, u, x, 0, 0, Offline)

CaptureFromBalance(L, o, u, x) ==
  PostOrderPaid(HoldForOrder(L, o, u, x), o, u, x, 0, 0, Offline)

(* AdjustBalance: an administrator adds to or takes from a balance. *)
AdjustDebit(u, x)  == IF x > 0 THEN Leg(ManualAdjust, x) ELSE Leg(Balance(u), -x)
AdjustCredit(u, x) == IF x > 0 THEN Leg(Balance(u), x) ELSE Leg(ManualAdjust, -x)

CanAdjust(L, u, x) ==
  /\ x # 0
  /\ CanPost(L, "balance_adjusted", u, AdjustDebit(u, x), AdjustCredit(u, x))

Adjusted(L, u, x) == post(L, "balance_adjusted", u, AdjustDebit(u, x), AdjustCredit(u, x))

(* Post, for the one posting that brings money into a balance from outside *)
(* of an order hold: the top-up (postSettlement).                          *)
TopupDebit(p, x, fee) == Leg(Cash(p), x + fee)
TopupCredit(u, x, fee) == And(Leg(Balance(u), x), Leg(SurchargeFee, fee))

CanTopup(L, o, u, x, fee, p) ==
  CanPost(L, "balance_topup", o, TopupDebit(p, x, fee), TopupCredit(u, x, fee))

Topup(L, o, u, x, fee, p) ==
  post(L, "balance_topup", o, TopupDebit(p, x, fee), TopupCredit(u, x, fee))

-----------------------------------------------------------------------------
(* The ledger under any sequence of calls, by callers that keep no order:  *)
(* what the module promises by itself.                                     *)
LedgerInit == ledger = EmptyLedger

PlaceHold(o, u, x) == CanHold(ledger, o, u, x) /\ ledger' = HoldForOrder(ledger, o, u, x)

ReleaseHold(o) == CanRelease(ledger, o) /\ ledger' = ReleaseOrderHold(ledger, o)

SettleOrder(o, u, total, paid, x, p) ==
  /\ CanOrderPaid(ledger, o, u, total, paid, x, p)
  /\ ledger' = PostOrderPaid(ledger, o, u, total, paid, x, p)

PayFromBalance(o, u, x) ==
  /\ CanCaptureFromBalance(ledger, o, u, x)
  /\ ledger' = CaptureFromBalance(ledger, o, u, x)

AdjustBalance(u, x) ==
  /\ x > 0 => ledger.bal[Balance(u)] + x <= MaxBalance
  /\ CanAdjust(ledger, u, x)
  /\ ledger' = Adjusted(ledger, u, x)

TopUp(o, u, x, fee, p) ==
  /\ ledger.bal[Balance(u)] + x <= MaxBalance
  /\ CanTopup(ledger, o, u, x, fee, p)
  /\ ledger' = Topup(ledger, o, u, x, fee, p)

LedgerNext ==
  \/ \E o \in Orders : ReleaseHold(o)
  \/ \E o \in Orders, u \in Users, x \in Amounts :
        PlaceHold(o, u, x) \/ PayFromBalance(o, u, x)
  \/ \E o \in Orders, u \in Users, total \in Amounts, paid \in 0..MaxAmount,
        x \in Surcharges, p \in Providers : SettleOrder(o, u, total, paid, x, p)
  \/ \E u \in Users, x \in Amounts : AdjustBalance(u, x) \/ AdjustBalance(u, -x)
  \/ \E o \in Orders, u \in Users, x \in Amounts, fee \in Surcharges, p \in Providers :
        TopUp(o, u, x, fee, p)

LedgerSpec == LedgerInit /\ [][LedgerNext]_ledger

-----------------------------------------------------------------------------
(* Type invariant of the ledger tables. *)
LedgerTypeOK == ledger \in Ledgers

(* No user account is ever negative, whatever the callers ask for: the     *)
(* check of nextBalances and the CHECK ledger_accounts_user_nonnegative    *)
(* agree.                                                                  *)
UserAccountsNonNegative == \A a \in UserAccounts : ledger.bal[a] >= 0

(* The status of a hold says exactly which transactions of the order       *)
(* exist: a hold is captured or released at most once, never both, and     *)
(* never without the transaction that made it (checkHolds of the patrol).  *)
HoldHistory ==
  \A o \in Orders :
    LET Has(kind) == <<kind, o>> \in ledger.posted
    IN /\ ledger.hold[o] = "none" <=> ~ Has("balance_hold")
       /\ ledger.hold[o] = "released" <=> Has("balance_release")
       /\ ledger.hold[o] = "captured" => Has("order_paid")

(* Debits equal credits over the whole ledger: every posting that a caller *)
(* builds is balanced, so validatePosting never refuses one.               *)
TrialBalance ==
  MapThenSumSet(LAMBDA a : ledger.bal[a], DebitAccounts) =
  MapThenSumSet(LAMBDA a : ledger.bal[a], Accounts \ DebitAccounts)

(* CheckHolds of the integrity patrol: the hold account of a user equals   *)
(* the sum of that user's held holds.                                      *)
HoldsMatchAccount ==
  \A u \in Users :
    ledger.bal[BalanceHold(u)] =
      MapThenSumSet(LAMBDA o : ledger.amount[o],
                    {o \in Orders : ledger.hold[o] = "held" /\ ledger.owner[o] = u})

(* A captured or released hold is final, and its amount and owner never    *)
(* change.                                                                 *)
HoldIsFinal ==
  [][\A o \in Orders :
       /\ ledger.hold[o] \in {"captured", "released"} => ledger'.hold[o] = ledger.hold[o]
       /\ ledger.hold[o] # "none" => /\ ledger'.amount[o] = ledger.amount[o]
                                     /\ ledger'.owner[o] = ledger.owner[o]]_ledger

(* What Post and the operations on holds guarantee by themselves, whoever   *)
(* calls them: no overdraft, and holds that agree with their transactions.  *)
LedgerInv ==
  /\ LedgerTypeOK
  /\ UserAccountsNonNegative
  /\ HoldHistory

(* The integrity patrol (checkTrialBalance, checkHolds) finds nothing.      *)
PatrolClean == TrialBalance /\ HoldsMatchAccount
=============================================================================
