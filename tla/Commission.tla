------------------------------ MODULE Commission ------------------------------
(***************************************************************************)
(* The commission of one referrer: accrual with the order's settlement,    *)
(* release after the freeze, review, withdrawal, transfer to the balance,  *)
(* automatic transfer and the account's deletion                           *)
(* (internal/module/commission).                                           *)
(*                                                                         *)
(* Every operation is a database transaction at READ COMMITTED: its        *)
(* statements read what is committed when they run, its writes appear when *)
(* it commits, and the locks it takes are held until then.  A transaction  *)
(* is the record tx[w] of the worker w that runs it: its operation, the    *)
(* step it is at, what it has read, and the locks it still has to take     *)
(* before that step, in order.  The ledger accounts are locked in the      *)
(* order of their ids (the accrual creates the pending account, the        *)
(* release the available one, both long after the platform's revenue).     *)
(***************************************************************************)
EXTENDS Integers, Sequences, FiniteSets, FiniteSetsExt, SequencesExt

CONSTANTS
  Amount,       \* the commission of each order, a sequence
  MaxWithdrawals,
  Workers,
  Shifts,       \* who works on what, see shift
  Frozen,       \* commission.freeze_days is positive (it may be 0)
  None

Ops == {"accrue", "settle", "auto", "entryReview", "withdraw", "judge", "pay",
        "transfer", "delete"}

OrderIds == DOMAIN Amount

ASSUME CommissionAssumption ==
  /\ Amount \in Seq(Nat \ {0}) /\ MaxWithdrawals \in Nat /\ Frozen \in BOOLEAN
  /\ \A s \in Shifts :
       /\ s.duties \in [Workers -> SUBSET Ops] /\ s.orders \subseteq OrderIds
       /\ s.asked \subseteq Nat \ {0} /\ s.failures \in Nat
       /\ Head(s.accounts) = "revenue"
       /\ ToSet(s.accounts) = {"revenue", "pending", "available", "balance"}

VARIABLES
  entry,       \* commission_entries: the entry of each order, or None
  wd,          \* withdrawals, in the order of their ids
  transferred, \* the sum of commission_transfers
  forfeited,   \* the sum of commission_forfeitures
  book,        \* the balances of the referrer's ledger accounts
  deleted,     \* users.status is deleted
  enabled,     \* the withdrawals are switched on in the settings
  plans,       \* the values `enabled` has had: a round of releases reads it once
  tx,          \* the transaction each worker runs
  held,        \* the locks each transaction holds
  rollbacks,   \* how many have failed
  shift        \* from the beginning to the end: what each worker may run, the orders that are paid,
               \* the amounts asked for, how many transactions fail, the accounts by their ids

data == <<entry, wd, transferred, forfeited, book, deleted>>
setting == <<enabled, plans>>
vars == <<data, setting, tx, held, rollbacks>>

Duties == shift.duties

Idle == [op |-> "none", step |-> "none", on |-> 0, yes |-> FALSE, need |-> <<>>,
         sum |-> 0, list |-> {}, clear |-> {}]

EntryLock(o) == <<"entry", o>>
WdLock(i) == <<"withdrawal", i>>
UserLock == <<"commission", 0>>
RowLock == <<"user", 0>>
AcctLock(a) == <<a, 0>>

(* ledger LockAccounts: one statement, by ascending id. *)
Accounts(S) == LET order == SelectSeq(shift.accounts, LAMBDA a : a \in S)
               IN  [k \in DOMAIN order |-> AcctLock(order[k])]

-----------------------------------------------------------------------------
(* What the statements read. *)

With(status) == {o \in OrderIds : entry[o] # None /\ entry[o].status = status}
SumOf(S) == MapThenSumSet(LAMBDA o : Amount[o], S)
WdWith(S) == {i \in DOMAIN wd : wd[i].status \in S}
WdSum(S) == MapThenSumSet(LAMBDA i : wd[i].amount, WdWith(S))

Releasable(o) == o \in With("pending") /\ entry[o].due /\ ~entry[o].review
Marked(o) == entry[o] # None /\ entry[o].auto

InFlight == WdWith({"requested", "approved"})

(* EntryTotalsOf, then the other three totals: `available` subtracts them. *)
EntriesAvailable == SumOf(With("available"))
SpentWith(S) == WdSum(S) + transferred + forfeited
Spent == SpentWith({"requested", "approved", "paid"})
SpentWithout == SpentWith({"paid"})

-----------------------------------------------------------------------------
(* The life of a transaction. *)

Set(w, t) == tx' = [tx EXCEPT ![w] = t] /\ UNCHANGED rollbacks

Start(w, op, on, yes, need) ==
  /\ tx[w] = Idle /\ op \in Duties[w]
  /\ Set(w, [Idle EXCEPT !.op = op, !.step = "begin", !.on = on, !.yes = yes,
                         !.need = need])
  /\ UNCHANGED <<data, setting, held>>

(* The user row is shared by everyone but the deletion: FOR UPDATE against *)
(* the KEY SHARE of a foreign key.                                          *)
Conflicts(w, v, l) == l # RowLock \/ "delete" \in {tx[w].op, tx[v].op}

Waits(w, v) ==
  /\ v # w /\ tx[w].need # <<>>
  /\ Head(tx[w].need) \in held[v] /\ Conflicts(w, v, Head(tx[w].need))

Acquire(w) ==
  /\ tx[w].need # <<>>
  /\ ~ \E v \in Workers : Waits(w, v)
  /\ held' = [held EXCEPT ![w] = @ \cup {Head(tx[w].need)}]
  /\ Set(w, [tx[w] EXCEPT !.need = Tail(@)])
  /\ UNCHANGED <<data, setting>>

At(w, op, step) == tx[w].op = op /\ tx[w].step = step /\ tx[w].need = <<>>

(* The transaction ends: it gives back its locks. *)
End(w) == Set(w, Idle) /\ held' = [held EXCEPT ![w] = {}] /\ UNCHANGED setting

Abort(w) == End(w) /\ UNCHANGED data

(* A statement that writes nothing. *)
Continue(w, t) == Set(w, t) /\ UNCHANGED <<data, setting, held>>

Goto(w, step, need) == Continue(w, [tx[w] EXCEPT !.step = step, !.need = need])

(* A failed statement, a lost connection or a cancelled request. *)
Rollback(w) ==
  /\ tx[w] # Idle /\ rollbacks < shift.failures
  /\ rollbacks' = rollbacks + 1
  /\ tx' = [tx EXCEPT ![w] = Idle] /\ held' = [held EXCEPT ![w] = {}]
  /\ UNCHANGED <<data, setting>>

FreeLock(w, l) == \A v \in Workers \ {w} : l \notin held[v]

-----------------------------------------------------------------------------
(* Accrual: OnOrderPaid in the settlement of an order, which has already    *)
(* posted to the platform's revenue.                                        *)

StartAccrue(w) ==
  \E o \in shift.orders :
    /\ entry[o] = None
    /\ \A v \in Workers : ~(tx[v].op = "accrue" /\ tx[v].on = o)
    /\ Start(w, "accrue", o, FALSE, <<AcctLock("revenue")>>)

AccrueBegin(w) ==
  /\ At(w, "accrue", "begin")
  /\ IF deleted THEN Abort(w)
     ELSE Goto(w, "post", Accounts({"pending"}) \o <<RowLock>>)

AccruePost(w) ==
  /\ At(w, "accrue", "post")
  /\ \E review \in BOOLEAN :
       entry' = [entry EXCEPT ![tx[w].on] =
                   [status |-> "pending", review |-> review, due |-> ~Frozen,
                    auto |-> FALSE]]
  /\ book' = [book EXCEPT !.pending = @ + Amount[tx[w].on]]
  /\ End(w)
  /\ UNCHANGED <<wd, transferred, forfeited, deleted>>

(* The freeze runs out.  It lasts days and a deletion seconds: an entry     *)
(* accrued while a deletion runs does not become due before it ends.        *)
Thaw ==
  \E o \in OrderIds :
    /\ entry[o] # None /\ ~entry[o].due
    /\ \A w \in Workers : tx[w].op = "delete" => o \in tx[w].list
    /\ entry' = [entry EXCEPT ![o].due = TRUE]
    /\ UNCHANGED <<wd, transferred, forfeited, book, deleted, setting, tx, held,
                   rollbacks>>

-----------------------------------------------------------------------------
(* Release: settleOne. *)

(* LockDueEntry, SKIP LOCKED. *)
LockDueEntry(w, o) ==
  /\ Releasable(o)
  /\ FreeLock(w, EntryLock(o))

StartSettle(w, o) ==
  /\ tx[w] = Idle /\ "settle" \in Duties[w]
  /\ LockDueEntry(w, o)
  /\ \E on \in plans :
       Set(w, [Idle EXCEPT !.op = "settle", !.step = "begin", !.on = o, !.yes = ~on])
  /\ held' = [held EXCEPT ![w] = {EntryLock(o)}]
  /\ UNCHANGED <<data, setting>>

MarkEntryReview(w) ==
  /\ entry' = [entry EXCEPT ![tx[w].on].review = TRUE]
  /\ End(w)
  /\ UNCHANGED <<wd, transferred, forfeited, book, deleted>>

(* Mutant: the release does not ask whether the account is deleted. *)
SettleBeginBlind(w) ==
  At(w, "settle", "begin") /\ Goto(w, "post", Accounts({"pending", "available"}))

(* Mutant: an entry of a deleted account is left as it is. *)
SettleBeginSkips(w) ==
  /\ At(w, "settle", "begin")
  /\ IF deleted THEN Abort(w)
     ELSE Goto(w, "post", Accounts({"pending", "available"}))

SettleBegin(w) ==
  /\ At(w, "settle", "begin")
  /\ IF deleted THEN MarkEntryReview(w)
     ELSE Goto(w, "post", Accounts({"pending", "available"}))

SettlePost(w) ==
  LET a == Amount[tx[w].on] IN
  /\ At(w, "settle", "post")
  /\ IF book.pending < a THEN MarkEntryReview(w)
     ELSE /\ entry' = [entry EXCEPT ![tx[w].on].status = "available",
                                    ![tx[w].on].auto = tx[w].yes]
          /\ book' = [book EXCEPT !.pending = @ - a, !.available = @ + a]
          /\ End(w)
          /\ UNCHANGED <<wd, transferred, forfeited, deleted>>

-----------------------------------------------------------------------------
(* Automatic transfer: autoTransferOne. *)

StartAuto(w, o) ==
  /\ Marked(o)
  /\ \E on \in plans : Start(w, "auto", o, ~on, <<UserLock>>)

ClearAutoTransferDue(w) ==
  /\ entry' = [entry EXCEPT ![tx[w].on].auto = FALSE]
  /\ End(w)
  /\ UNCHANGED <<wd, forfeited, deleted>>

AutoBegin(w) ==
  /\ At(w, "auto", "begin")
  /\ IF ~entry[tx[w].on].auto \/ ~FreeLock(w, EntryLock(tx[w].on)) THEN Abort(w)
     ELSE /\ held' = [held EXCEPT ![w] = @ \cup {EntryLock(tx[w].on)}]
          /\ Set(w, [tx[w] EXCEPT !.step = IF deleted \/ ~tx[w].yes THEN "clear" ELSE "sum"])
          /\ UNCHANGED <<data, setting>>

AutoClear(w) ==
  /\ At(w, "auto", "clear")
  /\ ClearAutoTransferDue(w)
  /\ UNCHANGED <<transferred, book>>

(* min of the entry and of what is available; nothing to move: clear only. *)
AutoRest(w) ==
  LET a == Min({Amount[tx[w].on], tx[w].sum - Spent}) IN
  /\ At(w, "auto", "rest")
  /\ IF a <= 0 THEN Goto(w, "clear", <<>>)
     ELSE Continue(w, [tx[w] EXCEPT !.step = "post", !.sum = a,
                                    !.need = Accounts({"available", "balance"})])

PostTransfer(a) ==
  /\ book' = [book EXCEPT !.available = @ - a, !.balance = @ + a]
  /\ transferred' = transferred + a

AutoPost(w) ==
  /\ At(w, "auto", "post")
  /\ IF book.available < tx[w].sum THEN Abort(w)
     ELSE PostTransfer(tx[w].sum) /\ ClearAutoTransferDue(w)

(* EntryTotalsOf, for the three operations that compute what is available. *)
SumStep(w) ==
  /\ \E op \in {"auto", "withdraw", "transfer"} : At(w, op, "sum")
  /\ Continue(w, [tx[w] EXCEPT !.step = "rest", !.sum = EntriesAvailable])

-----------------------------------------------------------------------------
(* RequestWithdrawal and TransferToBalance. *)

StartWithdraw(w) ==
  \E a \in shift.asked :
    Len(wd) < MaxWithdrawals /\ Start(w, "withdraw", a, FALSE, <<UserLock>>)

WithdrawBegin(w) ==
  /\ At(w, "withdraw", "begin")
  /\ IF deleted \/ ~enabled \/ InFlight # {} THEN Abort(w) ELSE Goto(w, "sum", <<>>)

WithdrawRest(w) ==
  /\ At(w, "withdraw", "rest")
  /\ IF tx[w].on > tx[w].sum - Spent \/ Len(wd) >= MaxWithdrawals THEN Abort(w)
     ELSE /\ wd' = Append(wd, [amount |-> tx[w].on, status |-> "requested"])
          /\ End(w)
          /\ UNCHANGED <<entry, transferred, forfeited, book, deleted>>

(* Mutant: a transfer does not take the user's lock. *)
StartTransferUnlocked(w) == \E a \in shift.asked : Start(w, "transfer", a, FALSE, <<>>)

StartTransfer(w) == \E a \in shift.asked : Start(w, "transfer", a, FALSE, <<UserLock>>)

TransferBegin(w) ==
  /\ At(w, "transfer", "begin")
  /\ IF deleted THEN Abort(w) ELSE Goto(w, "sum", <<>>)

TransferRest(w) ==
  /\ At(w, "transfer", "rest")
  /\ IF tx[w].on > tx[w].sum - Spent THEN Abort(w)
     ELSE Goto(w, "post", Accounts({"available", "balance"}))

TransferPost(w) ==
  /\ At(w, "transfer", "post")
  /\ IF book.available < tx[w].on THEN Abort(w)
     ELSE PostTransfer(tx[w].on) /\ End(w) /\ UNCHANGED <<entry, wd, forfeited, deleted>>

-----------------------------------------------------------------------------
(* ReviewWithdrawal and MarkWithdrawalPaid: they lock the withdrawal's row, *)
(* never the user.                                                          *)

SetWd(w, status) == wd' = [wd EXCEPT ![tx[w].on].status = status]

StartJudge(w) ==
  \E i \in DOMAIN wd, approve \in BOOLEAN :
    /\ wd[i].status = "requested"
    /\ Start(w, "judge", i, approve, <<WdLock(i)>>)

JudgeBegin(w) ==
  /\ At(w, "judge", "begin")
  /\ IF (tx[w].yes /\ deleted) \/ wd[tx[w].on].status # "requested" THEN Abort(w)
     ELSE Goto(w, "commit", <<>>)

JudgeCommit(w) ==
  /\ At(w, "judge", "commit")
  /\ SetWd(w, IF tx[w].yes THEN "approved" ELSE "rejected")
  /\ End(w)
  /\ UNCHANGED <<entry, transferred, forfeited, book, deleted>>

StartPay(w) ==
  \E i \in DOMAIN wd :
    /\ wd[i].status = "approved"
    /\ Start(w, "pay", i, TRUE, <<WdLock(i)>>)

PayBegin(w) ==
  /\ At(w, "pay", "begin")
  /\ IF deleted \/ wd[tx[w].on].status # "approved" THEN Abort(w)
     ELSE Goto(w, "post", Accounts({"available"}))

PayPost(w) ==
  LET a == wd[tx[w].on].amount IN
  /\ At(w, "pay", "post")
  /\ IF book.available < a THEN Abort(w)     \* errPayoutUnderfunded
     ELSE /\ SetWd(w, "paid")
          /\ book' = [book EXCEPT !.available = @ - a]
          /\ End(w)
          /\ UNCHANGED <<entry, transferred, forfeited, deleted>>

-----------------------------------------------------------------------------
(* ReviewEntry: an administrator approves or voids an entry under review. *)

StartEntryReview(w) ==
  \E o \in OrderIds, approve \in BOOLEAN :
    /\ o \in With("pending") /\ entry[o].review
    /\ Start(w, "entryReview", o, approve, <<EntryLock(o)>>)

EntryReviewBegin(w) ==
  LET e == entry[tx[w].on] IN
  /\ At(w, "entryReview", "begin")
  /\ IF (tx[w].yes /\ deleted) \/ e.status # "pending" \/ ~e.review THEN Abort(w)
     ELSE Goto(w, "post", IF tx[w].yes THEN <<>> ELSE Accounts({"revenue", "pending"}))

EntryReviewPost(w) ==
  LET o == tx[w].on  a == Amount[tx[w].on] IN
  /\ At(w, "entryReview", "post")
  /\ IF ~tx[w].yes /\ book.pending < a THEN Abort(w)          \* ErrVoidUnderfunded
     ELSE /\ entry' = [entry EXCEPT ![o].review = FALSE,
                                    ![o].status = IF tx[w].yes THEN @ ELSE "voided"]
          /\ book' = [book EXCEPT !.pending = IF tx[w].yes THEN @ ELSE @ - a]
          /\ End(w)
          /\ UNCHANGED <<wd, transferred, forfeited, deleted>>

-----------------------------------------------------------------------------
(* DeleteUser, as far as the commission goes: LockForDeletion, the pending  *)
(* orders cancelled (their holds lock the balance), VoidForDeletedUser, the *)
(* user's row.  tx[w].list is first what the deletion may meet (see Thaw),  *)
(* from the step "void" on the entries it voids.                            *)

DeletionLocks == <<UserLock, AcctLock("balance")>>

StartDelete(w) ==
  /\ tx[w] = Idle /\ "delete" \in Duties[w] /\ ~deleted
  /\ \A v \in Workers : tx[v].op # "delete"          \* the user's row
  /\ Set(w, [Idle EXCEPT !.op = "delete", !.step = "begin", !.need = DeletionLocks,
                         !.list = {o \in OrderIds : entry[o] # None}])
  /\ UNCHANGED <<data, setting, held>>

Rows(S, lock(_)) ==
  LET ids == SetToSortSeq(S, <) IN [k \in DOMAIN ids |-> lock(ids[k])]

LockInFlightWithdrawals == Rows(InFlight, WdLock)

LockPendingEntriesOf == Rows(With("pending"), EntryLock)

DeleteBegin(w) ==
  At(w, "delete", "begin") /\ Goto(w, "entries", LockInFlightWithdrawals)

(* An approved withdrawal refuses the deletion, a requested one is rejected *)
(* (written at the commit); then LockPendingEntriesOf.                       *)
DeleteEntries(w) ==
  /\ At(w, "delete", "entries")
  /\ IF WdWith({"approved"}) # {} THEN Abort(w)
     ELSE Goto(w, "void", LockPendingEntriesOf)

(* The locked rows are read again; one posting each. *)
DeleteVoid(w) ==
  LET list == {o \in With("pending") : EntryLock(o) \in held[w]} IN
  /\ At(w, "delete", "void")
  /\ Continue(w, [tx[w] EXCEPT !.step = "sum", !.list = list,
                    !.need = IF list = {} THEN <<>> ELSE Accounts({"revenue", "pending"})])

(* ClearAutoTransferOf, then the first total. *)
DeleteSum(w) ==
  /\ At(w, "delete", "sum")
  /\ IF book.pending < SumOf(tx[w].list) THEN Abort(w)      \* ErrVoidUnderfunded
     ELSE Continue(w, [tx[w] EXCEPT !.step = "rest", !.sum = EntriesAvailable,
                         !.clear = {o \in With("available") : entry[o].auto}])

(* Its own rejections count: nothing is in flight any more. *)
DeleteRest(w) ==
  LET avail == Max({0, tx[w].sum - SpentWithout}) IN
  /\ At(w, "delete", "rest")
  /\ Continue(w, [tx[w] EXCEPT !.step = "post", !.sum = avail,
                    !.need = IF avail = 0 THEN <<>> ELSE Accounts({"revenue", "available"})])

DeletePost(w) ==
  /\ At(w, "delete", "post")
  /\ IF book.available < tx[w].sum THEN Abort(w)            \* errForfeitUnderfunded
     ELSE Goto(w, "commit", <<RowLock>>)                    \* AnonymizeUser

DeleteCommit(w) ==
  /\ At(w, "delete", "commit")
  /\ wd' = [i \in DOMAIN wd |-> IF i \in InFlight THEN [wd[i] EXCEPT !.status = "rejected"]
                                ELSE wd[i]]
  /\ entry' = [o \in OrderIds |->
                 IF o \in tx[w].list
                 THEN [entry[o] EXCEPT !.status = "voided", !.review = FALSE]
                 ELSE IF o \in tx[w].clear THEN [entry[o] EXCEPT !.auto = FALSE]
                 ELSE entry[o]]
  /\ book' = [book EXCEPT !.pending = @ - SumOf(tx[w].list), !.available = @ - tx[w].sum]
  /\ forfeited' = forfeited + tx[w].sum
  /\ deleted' = TRUE
  /\ End(w)
  /\ UNCHANGED transferred

-----------------------------------------------------------------------------
(* The withdrawals are switched on or off. *)
Switch ==
  /\ enabled' = ~enabled /\ plans' = plans \cup {~enabled}
  /\ UNCHANGED <<data, tx, held, rollbacks>>

Init ==
  /\ entry = [o \in OrderIds |-> None] /\ wd = <<>>
  /\ transferred = 0 /\ forfeited = 0
  /\ book = [pending |-> 0, available |-> 0, balance |-> 0]
  /\ deleted = FALSE /\ enabled \in BOOLEAN /\ plans = {enabled}
  /\ tx = [w \in Workers |-> Idle] /\ held = [w \in Workers |-> {}]
  /\ rollbacks = 0 /\ shift \in Shifts

Begins(w) ==
  \/ StartAccrue(w) \/ StartEntryReview(w) \/ StartWithdraw(w) \/ StartTransfer(w)
  \/ StartJudge(w) \/ StartPay(w) \/ StartDelete(w)
  \/ \E o \in OrderIds : StartSettle(w, o) \/ StartAuto(w, o)

Proceeds(w) ==
  \/ Acquire(w) \/ SumStep(w)
  \/ AccrueBegin(w) \/ AccruePost(w) \/ SettleBegin(w) \/ SettlePost(w)
  \/ AutoBegin(w) \/ AutoClear(w) \/ AutoRest(w) \/ AutoPost(w)
  \/ WithdrawBegin(w) \/ WithdrawRest(w)
  \/ TransferBegin(w) \/ TransferRest(w) \/ TransferPost(w)
  \/ JudgeBegin(w) \/ JudgeCommit(w) \/ PayBegin(w) \/ PayPost(w)
  \/ EntryReviewBegin(w) \/ EntryReviewPost(w)
  \/ DeleteBegin(w) \/ DeleteEntries(w) \/ DeleteVoid(w) \/ DeleteSum(w)
  \/ DeleteRest(w) \/ DeletePost(w) \/ DeleteCommit(w)

Next ==
  \/ Thaw \/ Switch
  \/ \E w \in Workers : Begins(w) \/ Proceeds(w) \/ Rollback(w)

Spec == Init /\ [][Next /\ UNCHANGED shift]_<<vars, shift>>

(* A transaction that may take a step takes it, and one that waits for a    *)
(* lock gets it (PostgreSQL queues the waiters); the hourly round comes     *)
(* back to an entry it skipped or failed on.                                *)
Fairness ==
  /\ \A w \in Workers : WF_vars(Proceeds(w)) /\ SF_vars(Acquire(w))
  /\ \A o \in OrderIds :
       /\ SF_vars(\E w \in Workers : StartSettle(w, o))
       /\ SF_vars(\E w \in Workers : StartAuto(w, o))

FairSpec == Spec /\ Fairness

-----------------------------------------------------------------------------
Statuses == {"pending", "available", "voided"}

(* The rows, the balances and the transactions keep their shapes: an        *)
(* account is never negative, at most one withdrawal is in flight, and two  *)
(* transactions never hold one lock in conflict.                            *)
TypeOK ==
  /\ entry \in [OrderIds -> {None} \cup [status : Statuses, review : BOOLEAN,
                                       due : BOOLEAN, auto : BOOLEAN]]
  /\ wd \in Seq([amount : Nat, status : {"requested", "approved", "rejected", "paid"}])
  /\ Cardinality(InFlight) <= 1
  /\ book \in [pending : Nat, available : Nat, balance : Nat]
  /\ {transferred, forfeited} \subseteq Nat /\ {deleted, enabled} \subseteq BOOLEAN
  /\ \A w \in Workers : tx[w] = Idle \/ tx[w].op \in Duties[w]
  /\ \A v, w \in Workers : v = w \/
       \A l \in held[v] \cap held[w] : ~Conflicts(v, w, l)

(* Every withdrawal in flight can be paid: the money the request found      *)
(* available is still in the account when the payout posts, whatever was    *)
(* transferred, released, voided or rejected in between without the user's  *)
(* lock (RequestWithdrawal, TransferToBalance, MarkWithdrawalPaid).         *)
PayoutsFunded == WdSum({"requested", "approved"}) <= book.available

(* The two commission accounts of the ledger say what the rows say: the     *)
(* pending account is the pending entries, the available one the released   *)
(* entries less what was paid, transferred and forfeited.                   *)
BooksMatch ==
  /\ book.pending = SumOf(With("pending"))
  /\ book.available = EntriesAvailable - SpentWithout
  /\ book.balance = transferred

(* After the deletion commits nothing is left to withdraw and nothing       *)
(* becomes so: no available commission, no withdrawal in flight             *)
(* (VoidForDeletedUser against a release, an approval, a payout, a transfer *)
(* or an accrual already running).                                          *)
DeletedOwnsNothing == deleted => book.available = 0 /\ InFlight = {}

(* No set of transactions waits for each other: the lock order documented   *)
(* on VoidForDeletedUser.                                                   *)
NoCircularWait ==
  \A S \in SUBSET Workers \ {{}} : \E w \in S : \A v \in S : ~Waits(w, v)

(* A commission whose freeze is over does not stay frozen: it is released,  *)
(* or put under review, or voided (commission:settle).                      *)
Releases == \A o \in OrderIds : Releasable(o) ~> ~Releasable(o)

(* A mark for automatic transfer does not stay: the money is moved, or the  *)
(* mark is cleared because withdrawals are back on, the money is gone or    *)
(* the account is deleted (autoTransferDue).                                *)
MarksCleared == \A o \in OrderIds : Marked(o) ~> ~Marked(o)

(* What holds between any two statements: withdrawals in flight are        *)
(* covered, the accounts say what the rows say, and nobody waits in a       *)
(* circle.                                                                  *)
CommissionInv ==
  /\ TypeOK
  /\ PayoutsFunded
  /\ BooksMatch
  /\ NoCircularWait
=============================================================================
