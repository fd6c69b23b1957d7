---------------------------- MODULE MCBackground ----------------------------
(***************************************************************************)
(* What must happen in the end, on small instances: of OrderPayment (one   *)
(* order of each way to be settled), of Commission (the hourly round       *)
(* beside a settlement, a deletion and two failing transactions) and of    *)
(* LockOrder (a channel that was added after the user's accounts were      *)
(* made, so that transactions do wait in circles).  They share nothing     *)
(* here; focus says which one moves.                                       *)
(***************************************************************************)
EXTENDS OrderPayment

CONSTANTS u1, w1, w2, None

VARIABLES focus,
          entry, wd, transferred, forfeited, book, deleted, enabled, plans, tx, held,
          rollbacks, shift,
          job, taken, state

comVars == <<entry, wd, transferred, forfeited, book, deleted, enabled, plans, tx, held, rollbacks>>
lockVars == <<job, taken, state>>

(* An order of each way to be settled: extend, reset, credit. *)
RenewalResetOrTopup ==
  {[kind |-> kind, user |-> u1, total |-> 1, applied |-> 0, refund |-> 0, coupon |-> NoCoupon] :
     kind \in {"renewal", "traffic_reset", "topup"}}

NobodyRefers == [u \in Users |-> NoUser]
OneUse == [c \in Coupons |-> 1]

ComWorkers == {1, 2, 3}
Round ==
  [duties |-> <<{"delete", "entryReview"}, {"settle", "auto"}, {"accrue", "transfer"}>>,
   orders |-> {1}, asked |-> {1}, failures |-> 2,
   accounts |-> <<"revenue", "pending", "available", "balance">>]

Com == INSTANCE Commission
       WITH Amount <- <<2>>, MaxWithdrawals <- 1, Workers <- ComWorkers, Shifts <- {Round},
            Frozen <- TRUE

ASSUME Com!CommissionAssumption

Made(id, sub, coupon) ==
  [id |-> id, user |-> "ann", sub |-> sub, coupon |-> coupon, channel |-> "epay",
   held |-> TRUE, referrers |-> <<"bob">>]

AccountsMade(u) ==
  <<<<"user_balance", u>>, <<"user_balance_hold", u>>, <<"user_commission_pending", u>>>>

NewChannel ==
  <<<<"platform_revenue", "main">>, <<"late_payment_suspense", "main">>>>
  \o AccountsMade("bob") \o AccountsMade("ann") \o <<<<"channel_cash", "epay">>>>

Req == INSTANCE LockRequests WITH Created <- NewChannel

NewChannelJobs ==
  {Req!Callback(Req!CloseArchivedOrder(Made("o1", <<>>, <<"c1">>))),
   Req!Callback(Req!SettlePayment(Made("o2", <<"s1">>, <<>>))),
   Req!Call(Req!Cancel(Made("o1", <<>>, <<"c1">>)))}

Lok == INSTANCE LockOrder WITH Workers <- {w1, w2}, Mixes <- {NewChannelJobs}

MCInit ==
  /\ focus \in {"orders", "commission", "locks"}
  /\ Init /\ Com!Init /\ Lok!Init
  /\ focus # "commission" => ~ enabled
  /\ focus # "locks" => job = [t \in {w1, w2} |-> CHOOSE j \in NewChannelJobs : TRUE]

OrdersMove == focus = "orders" /\ UNCHANGED <<focus, comVars, shift, lockVars>>
CommissionMoves == focus = "commission" /\ UNCHANGED <<focus, vars, shift, lockVars>>
LocksMove == focus = "locks" /\ UNCHANGED <<focus, vars, comVars, shift>>

MCNext ==
  \/ OrdersMove /\ Next
  \/ CommissionMoves /\ Com!Next
  \/ LocksMove /\ Lok!Next

(* The fairness of the three, each while it is the one that moves.  Since   *)
(* focus never changes, fairness of a disjunction of their actions is       *)
(* fairness of each.                                                        *)
In(A, B, C) == (OrdersMove /\ A) \/ (CommissionMoves /\ B) \/ (LocksMove /\ C)

all == <<focus, vars, comVars, shift, lockVars>>

Statement(t) == Lok!Acquire(t) \/ Lok!Skip(t) \/ Lok!Commit(t)
Known(pay) == \E w \in Workers : Handling(w, pay) /\ (RecordKnown(w) \/ RecordSettle(w))
Refuse(pay) == \E w \in Workers : Handling(w, pay) /\ RecordNotPayable(w)
Finish(pay) == \E w \in Workers : Handling(w, pay) /\ (RecordQuarantine(w) \/ RecordArchived(w))

MCFairness ==
  /\ \A o \in Orders :
       /\ WF_all(In(Lapse(o), Com!Proceeds(1), Statement(w1)))
       /\ WF_all(In(expireOne(o), Com!Proceeds(2), Statement(w2)))
  /\ \A pay \in ChannelPayments :
       /\ WF_all(In(RecordRefused(pay, "webhook"), Com!Proceeds(3), Lok!Redeliver(w1)))
       /\ SF_all(In(\E w \in Workers : RecordBegin(w, pay, "webhook"), Com!Acquire(1), FALSE))
       /\ SF_all(In(Known(pay), Com!Acquire(2), FALSE))
       /\ SF_all(In(Refuse(pay), Com!Acquire(3), FALSE))
       /\ SF_all(In(Finish(pay), \E w \in ComWorkers : Com!StartSettle(w, 1), FALSE))
  /\ SF_all(In(FALSE, \E w \in ComWorkers : Com!StartAuto(w, 1), FALSE))
  /\ WF_all(In(FALSE, FALSE, Lok!Redeliver(w2)))
  /\ WF_all(In(FALSE, FALSE, \E t \in {w1, w2} : Lok!DetectDeadlock(t)))

MCSpec == MCInit /\ [][MCNext]_<<focus, vars, comVars, shift, lockVars>> /\ MCFairness

(* The hourly round gets on: a commission whose freeze is over does not     *)
(* stay frozen (commission:settle), and a mark for automatic transfer does  *)
(* not stay (autoTransferDue).                                              *)
RoundsCatchUp == Com!Releases /\ Com!MarksCleared

(* A payment callback is booked in the end, even where transactions wait in *)
(* a circle and PostgreSQL rolls one of them back.                          *)
EveryCallbackBooked == focus = "locks" => Lok!EveryCallbackBooked
=============================================================================
