---------------------------- MODULE LockRequests ----------------------------
(***************************************************************************)
(* The locks the money transactions of the panel ask for, in which order.  *)
(*                                                                         *)
(* Every operation that moves money is one PostgreSQL transaction.  It     *)
(* takes row locks (and advisory locks) one after the other and keeps them *)
(* until it commits.  Here an operation is the sequence of the locks it    *)
(* asks for; what the rows hold is left to the other modules, what becomes *)
(* of the transactions to LockOrder.                                       *)
(*                                                                         *)
(* A posting locks its accounts with one statement, ORDER BY id.  The ids  *)
(* are uuidv7, so they follow the order in which the accounts were made:   *)
(* the constant Created.                                                   *)
(***************************************************************************)
EXTENDS Integers, Sequences, SequencesExt

CONSTANT Created   \* the ledger accounts in the order of their ids

-----------------------------------------------------------------------------
(* Lock requests. *)

Request(row, mode, how) == [row |-> row, mode |-> mode, how |-> how]
Lock(row, mode) == <<Request(row, mode, "keep")>>

\* SELECT ... SKIP LOCKED: gives up instead of waiting.
SkipLocked(row, mode) == <<Request(row, mode, "skip")>>

\* A lock taken under a savepoint that is rolled back: waited for, not kept.
Passing(row, mode) == <<Request(row, mode, "pass")>>

User(u) == <<"users", u>>
Order(o) == <<"orders", o.id>>
Intent(o) == <<"payment_intents", o.id>>
Subscription(s) == <<"subscriptions", s>>
Coupon(c) == <<"coupons", c>>
Entry(e) == <<"commission_entries", e>>
Withdrawal(w) == <<"commission_withdrawals", w>>
Card(c) == <<"gift_card_codes", c>>

\* The advisory lock commission:<user> of withdrawals and transfers.
CommissionLock(u) == <<"commission", u>>

Balance(u) == <<"user_balance", u>>
Hold(u) == <<"user_balance_hold", u>>
Pending(u) == <<"user_commission_pending", u>>
Available(u) == <<"user_commission_available", u>>
Revenue == <<"platform_revenue", "main">>
Surcharge == <<"platform_revenue", "surcharge">>
Cash(channel) == <<"channel_cash", channel>>
Suspense == <<"late_payment_suspense", "main">>
AdjustAccount == <<"suspense", "manual_adjust">>
Gifts == <<"platform_promo_expense", "gift">>

-----------------------------------------------------------------------------
(* Postings.                                                               *)

\* lockAccounts: all accounts of a posting, by ascending id.
Posting(legs) ==
    LET sorted == SelectSeq(Created, LAMBDA a : a \in ToSet(legs))
    IN  FlattenSeq([i \in 1..Len(sorted) |-> Lock(sorted[i], "update")])

\* HoldForOrder and releaseOrderHold; the hold row belongs to one order and
\* is only locked under the order's lock or in the making of the order.
HoldForOrder(u) == Posting(<<Balance(u), Hold(u)>>)
ReleaseHold(o) == IF o.held THEN Posting(<<Hold(o.user), Balance(o.user)>>) ELSE <<>>

\* Mutant: freeze first, book the revenue with a second set of locks.
CaptureInTwoSteps(u) == HoldForOrder(u) \o Posting(<<Hold(u), Revenue>>)

\* CaptureFromBalance locks the three accounts at once before it books the
\* freeze and the payment.
CaptureFromBalance(u) == Posting(<<Balance(u), Hold(u), Revenue>>)

-----------------------------------------------------------------------------
(* Orders and payments.  An order is a record [id, user, sub, coupon,      *)
(* channel, held, referrers]; sub and coupon are sequences of length 0 or  *)
(* 1, referrers the users who earn a commission, nearest first.            *)

ForEach(s, Op(_)) == FlattenSeq([i \in 1..Len(s) |-> Op(s[i])])
LockCoupon(o) == ForEach(o.coupon, LAMBDA c : Lock(Coupon(c), "no key update"))
LockSubscription(o) == ForEach(o.sub, LAMBDA s : Lock(Subscription(s), "no key update"))

\* recordPaymentTx inserts the payment before the order is locked; the
\* foreign keys of the row lock what it refers to.
InsertPayment(o) ==
    Lock(Order(o), "key share") \o Lock(User(o.user), "key share")
    \o Lock(Intent(o), "key share")

\* OnOrderPaid: one posting and one entry for every level.
Accrue(o) ==
    ForEach(o.referrers, LAMBDA r : Posting(<<Revenue, Pending(r)>>)
                                    \o Lock(User(r), "key share"))

\* SettlePayment of a plan order, then the payment's own intent.
SettlePayment(o) ==
    InsertPayment(o) \o Lock(Order(o), "no key update") \o LockSubscription(o)
    \o LockCoupon(o)
    \o Posting(<<Cash(o.channel), Revenue>> \o (IF o.held THEN <<Hold(o.user)>> ELSE <<>>))
    \o Accrue(o) \o Lock(Intent(o), "no key update")

\* SettlePayment of a top-up.
SettleTopup(o) ==
    InsertPayment(o) \o Lock(Order(o), "no key update")
    \o Posting(<<Cash(o.channel), Balance(o.user), Surcharge>>)
    \o Lock(Intent(o), "no key update")

\* A payment its order no longer takes: SettlePayment is rolled back to the
\* savepoint, the money is booked as suspense.
Quarantine(o) ==
    InsertPayment(o) \o Passing(Order(o), "no key update")
    \o Posting(<<Cash(o.channel), Suspense>>) \o Lock(Intent(o), "no key update")

\* A payment for an archived plan: CloseArchivedOrder locks the order again,
\* books suspense and balance before it releases the hold.
CloseArchivedOrder(o) ==
    InsertPayment(o) \o Lock(Order(o), "no key update") \o LockCoupon(o)
    \o Posting(<<Cash(o.channel), Suspense>>) \o Lock(Intent(o), "no key update")
    \o Posting(<<Suspense, Balance(o.user)>>) \o ReleaseHold(o)

\* ApplyLatePayment: the administrator moves suspense to the balance.
ApplyLatePayment(u) == Posting(<<Suspense, Balance(u)>>)

\* Pay: the order, then its open intent.
Pay(o) ==
    Lock(Order(o), "no key update") \o Lock(Intent(o), "no key update")
    \o Lock(User(o.user), "key share")

\* What releaseOrder locks once the order is locked.
ReleaseOrder(o) == LockCoupon(o) \o ReleaseHold(o) \o Lock(Intent(o), "no key update")

\* The user cancels (the reservation event names them) or the job expires.
Cancel(o) ==
    Lock(Order(o), "no key update") \o Lock(User(o.user), "key share") \o ReleaseOrder(o)
ExpireOne(o) == SkipLocked(Order(o), "no key update") \o ReleaseOrder(o)

\* place: the user must not be deleted, then subscription, coupon, accounts.
PlaceStart(o) ==
    Lock(User(o.user), "share") \o LockSubscription(o)
    \o ForEach(o.coupon, LAMBDA c : Lock(Coupon(c), "update"))
PlaceOrder(o) == PlaceStart(o) \o HoldForOrder(o.user)
PlaceZeroPay(o) == PlaceStart(o) \o CaptureFromBalance(o.user)

\* A plan change whose remaining value exceeds the price is refunded at once.
PlaceRefunded(o) == PlaceStart(o) \o Posting(<<Revenue, Balance(o.user)>>)

AdjustBalance(u) == Lock(User(u), "share") \o Posting(<<AdjustAccount, Balance(u)>>)

\* A general card: the balance first, then the subscription it extends.
RedeemGeneral(u, card, sub) ==
    Lock(User(u), "share") \o Lock(Card(card), "update")
    \o Posting(<<Gifts, Balance(u)>>)
    \o ForEach(sub, LAMBDA s : Lock(Subscription(s), "no key update"))

\* A plan card that changes the plan: the subscription, then the refund.
RedeemPlan(u, card, sub) ==
    Lock(User(u), "share") \o Lock(Card(card), "update")
    \o ForEach(sub, LAMBDA s : Lock(Subscription(s), "no key update"))
    \o Posting(<<Revenue, Balance(u)>>)

-----------------------------------------------------------------------------
(* Commissions and the deletion of an account.                             *)

SettleEntry(e, u) ==
    SkipLocked(Entry(e), "update") \o Posting(<<Pending(u), Available(u)>>)
VoidEntry(e, u) == Lock(Entry(e), "update") \o Posting(<<Pending(u), Revenue>>)
MarkWithdrawalPaid(w, u) ==
    Lock(Withdrawal(w), "update") \o Posting(<<Available(u), Cash("payout")>>)
RequestWithdrawal(u) == Lock(CommissionLock(u), "update") \o Lock(User(u), "key share")
TransferToBalance(u) ==
    Lock(CommissionLock(u), "update") \o Posting(<<Available(u), Balance(u)>>)
    \o Lock(User(u), "key share")
AutoTransfer(e, u) ==
    Lock(CommissionLock(u), "update") \o SkipLocked(Entry(e), "update")
    \o Posting(<<Available(u), Balance(u)>>) \o Lock(User(u), "key share")

\* CancelUserPending: all pending orders at once, then each is released.
CancelUserPending(orders) ==
    ForEach(orders, LAMBDA o : Lock(Order(o), "no key update"))
    \o ForEach(orders, ReleaseOrder)

\* VoidForDeletedUser after the advisory lock.
VoidForDeletedUser(u, withdrawals, entries) ==
    ForEach(withdrawals, LAMBDA w : Lock(Withdrawal(w), "update"))
    \o ForEach(entries, LAMBDA e : Lock(Entry(e), "update"))
    \o ForEach(entries, LAMBDA e : Posting(<<Pending(u), Revenue>>))
    \o Posting(<<Available(u), Revenue>>)

\* DeleteUser: the placeholder address changes a unique column, which makes
\* the user's row lock a full UPDATE lock at the very end.
DeleteUser(u, orders, subs, withdrawals, entries) ==
    Lock(User(u), "no key update") \o Lock(CommissionLock(u), "update")
    \o CancelUserPending(orders)
    \o ForEach(subs, LAMBDA s : Lock(Subscription(s), "no key update"))
    \o VoidForDeletedUser(u, withdrawals, entries) \o Lock(User(u), "update")

\* A callback is delivered again when its transaction failed.
Callback(locks) == [locks |-> locks, redelivered |-> TRUE]
Call(locks) == [locks |-> locks, redelivered |-> FALSE]
=============================================================================
