---------------------------- MODULE MCLockOrder ----------------------------
(***************************************************************************)
(* Small instances of LockOrder: two users (ann was invited by bob), two   *)
(* orders of ann, one of bob, one coupon per order, one channel.  Beside   *)
(* them two of QueryPatrol, with the times of the code in half minutes:    *)
(* all channels can be asked, or one of the two cannot.  They share        *)
(* nothing; focus says which one moves.                                    *)
(***************************************************************************)
EXTENDS LockRequests, LockOrder, TLC

CONSTANTS w1, w2, w3, c1, c2

VARIABLES focus, now, offset, order, intents, channel, ask, patrolled, calm, spent

patrolVars == <<now, offset, order, intents, channel, ask, patrolled, calm, spent>>

\* The moments at which an intent that lives for at least FirstDelay and a
\* round of the patrol is opened.
EarlyStarts == {0, 48}

Patrol == INSTANCE QueryPatrol
          WITH Channels <- {c1, c2}, NoQuery <- {}, Starts <- EarlyStarts,
               PaymentWindow <- 60, FirstDelay <- 10, MaxAttempts <- 6, LastCallLead <- 3,
               QueryMinGap <- 2, Period <- 2, MaxIntents <- 2, MaxTroubles <- 1,
               MaxHandAsks <- 0, MaxPaid <- 1, Callbacks <- TRUE

Unasked == INSTANCE QueryPatrol
           WITH Channels <- {c1, c2}, NoQuery <- {c2}, Starts <- EarlyStarts,
                PaymentWindow <- 60, FirstDelay <- 10, MaxAttempts <- 6, LastCallLead <- 3,
                QueryMinGap <- 2, Period <- 2, MaxIntents <- 2, MaxTroubles <- 0,
                MaxHandAsks <- 1, MaxPaid <- 2, Callbacks <- TRUE

ASSUME Patrol!PatrolAssumption /\ Unasked!PatrolAssumption

WorkerSymmetry == Permutations({w1, w2, w3})

Make(id, user, sub, coupon, referrers) ==
    [id |-> id, user |-> user, sub |-> sub, coupon |-> coupon, channel |-> "epay",
     held |-> TRUE, referrers |-> referrers]

AnnNew == Make("o1", "ann", <<>>, <<"c1">>, <<"bob">>)
AnnRenewal == Make("o2", "ann", <<"s1">>, <<>>, <<"bob">>)
BobNew == Make("o3", "bob", <<>>, <<"c1">>, <<>>)

UserAccounts(u) == <<Balance(u), Hold(u), Pending(u), Available(u)>>

\* The platform's accounts first, as on a site that has run for a while.
PlatformFirst ==
    <<Cash("epay"), Cash("payout"), Revenue, Surcharge, Suspense, AdjustAccount, Gifts>>
    \o UserAccounts("bob") \o UserAccounts("ann")

MoneyJobs ==
    {Callback(SettlePayment(AnnNew)), Callback(SettlePayment(AnnRenewal)),
     Callback(SettleTopup(AnnRenewal)), Callback(Quarantine(AnnNew)),
     Callback(CloseArchivedOrder(AnnNew)), Call(ApplyLatePayment("ann")),
     Call(Pay(AnnNew)), Call(Cancel(AnnNew)), Call(ExpireOne(AnnNew)),
     Call(PlaceOrder(AnnRenewal)), Call(PlaceZeroPay(AnnRenewal)),
     Call(PlaceRefunded(AnnRenewal)), Call(AdjustBalance("ann")),
     Call(RedeemGeneral("ann", "g1", <<>>)), Call(RedeemPlan("ann", "g1", <<"s1">>))}

DeleteBob == Call(DeleteUser("bob", <<BobNew>>, <<"s2">>, <<"d1">>, <<"e1">>))
DeletionJobs ==
    {DeleteBob, Callback(SettlePayment(AnnNew)), Call(Cancel(BobNew)),
     Call(Pay(BobNew)), Call(ExpireOne(BobNew)), Call(PlaceOrder(BobNew)),
     Call(PlaceZeroPay(BobNew)), Call(SettleEntry("e1", "bob")),
     Call(VoidEntry("e1", "bob")), Call(MarkWithdrawalPaid("d1", "bob")),
     Call(RequestWithdrawal("bob")), Call(TransferToBalance("bob")),
     Call(AutoTransfer("e1", "bob")), Call(ApplyLatePayment("bob"))}

MoneyOrDeletion == {MoneyJobs, DeletionJobs}

MCInit ==
    /\ Init /\ Patrol!Init
    /\ \/ focus = "locks" /\ offset = 0
       \/ focus \in {"patrol", "unasked"} /\ job = [t \in Workers |-> DeleteBob]

MCNext ==
    \/ focus = "locks" /\ Next /\ UNCHANGED <<focus, patrolVars>>
    \/ focus = "patrol" /\ Patrol!Next /\ UNCHANGED <<focus, vars>>
    \/ focus = "unasked" /\ Unasked!Next /\ UNCHANGED <<focus, vars>>

MCSpec == MCInit /\ [][MCNext]_<<focus, vars, patrolVars>>

\* An order the buyer paid in time does not lapse because callbacks were lost
\* (nextQueryAt, ReconcileDue, queryOrder), and at most one intent is open, of
\* an order that is pending.
PatrolInv ==
    /\ Patrol!TypeOK
    /\ focus = "patrol" => Patrol!PaidOrderFound
    /\ focus = "unasked" => Unasked!PaidOrderFound
=============================================================================
