---------------------------- MODULE QueryPatrol ----------------------------
(***************************************************************************)
(* The query patrol of module payment: when a channel's callback is lost,  *)
(* a worker asks the channel about the open payments of an order, backing  *)
(* off between the queries, and records what it finds paid the way a       *)
(* callback would.                                                         *)
(*                                                                         *)
(* One order and the payment intents the buyer opens for it.  Time is      *)
(* counted in Units of half a minute from the order's creation.  A round   *)
(* of the patrol takes less than a unit: its queries are steps of their    *)
(* own, between which the buyer, the channels and a query asked for by     *)
(* hand act, but the clock waits for the round to end.                     *)
(***************************************************************************)
EXTENDS Naturals, Sequences, FiniteSets

CONSTANTS
    Channels,
    NoQuery,        \* the channels that cannot be asked (ErrNotSupported)
    Starts,         \* the moments at which the buyer may open an intent
    PaymentWindow,  \* order and intents expire then (intentTTL is as long)
    FirstDelay, MaxAttempts, LastCallLead,   \* defaultPatrol
    QueryMinGap,
    Period,         \* a round of the patrol starts every Period
    MaxIntents, MaxTroubles, MaxHandAsks,    \* bounds
    MaxPaid,        \* how many of the intents get paid
    Callbacks       \* whether a callback may also arrive

\* What the code's constants and an instance's bounds satisfy.
PatrolAssumption ==
    /\ NoQuery \subseteq Channels
    /\ Starts \subseteq 0..(PaymentWindow - 1)
    /\ {PaymentWindow, FirstDelay, MaxAttempts, Period, QueryMinGap} \subseteq Nat \ {0}
    /\ LastCallLead \in Nat
    /\ Callbacks \in BOOLEAN

VARIABLES
    now,
    offset,     \* when, within a Period, the rounds start
    order,      \* orders.status: pending, paid, closed
    intents,    \* payment_intents of the order, in the order of creation
    channel,    \* [Channels -> up, down, disabled]
    ask,        \* the executions of queryOrder: the patrol's, one by hand
    patrolled,  \* the round that was due at this moment has ended
    calm,       \* no query was cut and no channel failed after LastMoment
    spent       \* troubles and queries by hand so far, against their bounds

vars == <<now, offset, order, intents, channel, ask, patrolled, calm, spent>>

Never == PaymentWindow * 100
Horizon == PaymentWindow + 1
Askers == {"patrol", "desk"}
Idle == [running |-> FALSE, intent |-> 0, ref |-> 0, answered |-> FALSE,
         failed |-> FALSE, notSupported |-> FALSE]

Open(i) == intents[i].status = "requires_action"
Paid(i) == intents[i].paid # "no"

\* What is left of the window after it holds no query that is certain to come.
LastMoment == PaymentWindow - LastCallLead - QueryMinGap

-----------------------------------------------------------------------------
Init ==
    /\ now = 0 /\ offset \in 0..(Period - 1)
    /\ order = "pending" /\ intents = <<>>
    /\ channel = [c \in Channels |-> "up"]
    /\ ask = [a \in Askers |-> Idle]
    /\ patrolled = FALSE /\ calm = TRUE
    /\ spent = [troubles |-> 0, handAsks |-> 0]

\* CloseOrderIntents: every open intent, but for one, gets a final status.
CloseIntents(list, status, except) ==
    [i \in DOMAIN list |->
        IF i # except /\ list[i].status = "requires_action"
        THEN [list[i] EXCEPT !.status = status] ELSE list[i]]

\* BeginIntent: an open intent of another channel is given up, though its
\* page at the channel can still be paid; one of the same channel is reused.
BeginIntent(c) ==
    /\ order = "pending" /\ now < PaymentWindow /\ now \in Starts
    /\ channel[c] # "disabled" /\ Len(intents) < MaxIntents
    /\ \A i \in DOMAIN intents : Open(i) => intents[i].channel # c
    /\ intents' = Append(CloseIntents(intents, "cancelled", 0),
           [channel |-> c, status |-> "requires_action", created |-> now,
            attempts |-> 0, next |-> Never, paid |-> "no", recorded |-> FALSE])
    /\ UNCHANGED <<now, offset, order, channel, ask, patrolled, calm, spent>>

\* The buyer pays on a page of the channel, whatever became of the intent.
PayAtChannel(i) ==
    /\ ~Paid(i) /\ now < PaymentWindow
    /\ Cardinality({j \in DOMAIN intents : Paid(j)}) < MaxPaid
    /\ intents' = [intents EXCEPT ![i].paid = IF now <= LastMoment THEN "in_time" ELSE "late"]
    /\ UNCHANGED <<now, offset, order, channel, ask, patrolled, calm, spent>>

\* recordPayment: a pending order is settled and its other open intents are
\* closed; money for an order that cannot take it is quarantined; money that
\* is recorded already is left alone.
RecordPayment(i) ==
    /\ intents' =
         [ (IF order = "pending" THEN CloseIntents(intents, "cancelled", i) ELSE intents)
           EXCEPT ![i].recorded = TRUE,
                  ![i].status = IF order = "pending" /\ Open(i) THEN "succeeded" ELSE @ ]
    /\ order' = IF order = "pending" THEN "paid" ELSE order

\* The callback of a payment; every one of them may be lost.
Callback(i) ==
    /\ Callbacks /\ Paid(i) /\ ~intents[i].recorded
    /\ RecordPayment(i)
    /\ UNCHANGED <<now, offset, channel, ask, patrolled, calm, spent>>

\* expireOne: the sweeper closes the order and its intents.
ExpireOrder ==
    /\ now >= PaymentWindow /\ order = "pending"
    /\ order' = "closed"
    /\ intents' = CloseIntents(intents, "expired", 0)
    /\ UNCHANGED <<now, offset, channel, ask, patrolled, calm, spent>>

-----------------------------------------------------------------------------
\* Mutant: the back-off is not brought forward to the last call.
NextQueryAtPlain(at, attempts) ==
    at + (IF FirstDelay * 2^(attempts - 1) < QueryMinGap
          THEN QueryMinGap ELSE FirstDelay * 2^(attempts - 1))

\* nextQueryAt: the delay doubles with every attempt, but the last call comes
\* before the expiry, unless it would come less than a minute from now.
NextQueryAt(at, attempts) ==
    LET delay == IF FirstDelay * 2^(attempts - 1) < QueryMinGap
                 THEN QueryMinGap ELSE FirstDelay * 2^(attempts - 1)
        lastCall == PaymentWindow - LastCallLead
    IN  IF at + delay > lastCall /\ lastCall >= at + QueryMinGap
        THEN lastCall ELSE at + delay

\* The condition of ClaimDueIntent.
Due(i) ==
    /\ Open(i)
    /\ PaymentWindow > now
    /\ channel[intents[i].channel] # "disabled"
    /\ intents[i].attempts < MaxAttempts
    /\ (IF intents[i].next = Never
        THEN intents[i].created + FirstDelay ELSE intents[i].next) <= now

RoundIsDue == now % Period = offset /\ ~patrolled

\* ReconcileDue claims the next due intent: the claim counts the attempt and
\* sets the time of the next one, before the channel is asked.
Claim(i) ==
    /\ RoundIsDue /\ ~ask["patrol"].running /\ Due(i)
    /\ intents' = [intents EXCEPT ![i].attempts = @ + 1,
                       ![i].next = NextQueryAt(now, intents[i].attempts + 1)]
    /\ ask' = [ask EXCEPT !["patrol"] =
                  [Idle EXCEPT !.running = TRUE, !.intent = i, !.ref = Len(intents)]]
    /\ UNCHANGED <<now, offset, order, channel, patrolled, calm, spent>>

\* ReconcileDue finds nothing (more) to claim.
EndRound ==
    /\ RoundIsDue /\ ~ask["patrol"].running
    /\ \A i \in DOMAIN intents : ~Due(i)
    /\ patrolled' = TRUE
    /\ UNCHANGED <<now, offset, order, intents, channel, ask, calm, spent>>

\* Query: the buyer or an administrator has the order asked about.
QueryByHand ==
    /\ ~ask["desk"].running /\ intents # <<>> /\ spent.handAsks < MaxHandAsks
    /\ ask' = [ask EXCEPT !["desk"] =
                  [Idle EXCEPT !.running = TRUE, !.ref = Len(intents)]]
    /\ spent' = [spent EXCEPT !.handAsks = @ + 1]
    /\ UNCHANGED <<now, offset, order, intents, channel, patrolled, calm>>

\* StopIntentQueries
StopIntentQueries(i) ==
    intents' = [intents EXCEPT ![i].attempts = IF @ < MaxAttempts THEN MaxAttempts ELSE @]

\* queryRef, for the next of the order's payments, the newest first: one that
\* is paid is recorded and ends the query; after any other answer, and after
\* an error, the next one is asked about.
QueryRef(a) ==
    LET i == ask[a].ref
        c == intents[i].channel
        ns == c \in NoQuery /\ channel[c] # "disabled"
        fails == channel[c] # "up" \/ ns
    IN
    /\ ask[a].running /\ i > 0
    /\ IF ~fails /\ Paid(i)
       THEN RecordPayment(i) /\ ask' = [ask EXCEPT ![a] = Idle]
       ELSE /\ ask' = [ask EXCEPT ![a].ref = i - 1,
                          ![a].answered = @ \/ ~fails,
                          ![a].failed = @ \/ fails,
                          ![a].notSupported = @ \/ ns]
            /\ UNCHANGED <<intents, order>>
    /\ UNCHANGED <<now, offset, channel, patrolled, calm, spent>>

\* queryOrder ends without a paid answer.  When no channel answered and one of
\* them cannot be asked at all, the patrol gives the intent up.
EndQuery(a) ==
    /\ ask[a].running /\ ask[a].ref = 0
    /\ IF a = "patrol" /\ ~ask[a].answered /\ ask[a].notSupported
       THEN StopIntentQueries(ask[a].intent)
       ELSE UNCHANGED intents
    /\ ask' = [ask EXCEPT ![a] = Idle]
    /\ UNCHANGED <<now, offset, order, channel, patrolled, calm, spent>>

-----------------------------------------------------------------------------
\* A channel stops answering, or an administrator disables it, ...
ChannelFails(c, status) ==
    /\ spent.troubles < MaxTroubles /\ channel[c] = "up"
    /\ channel' = [channel EXCEPT ![c] = status]
    /\ spent' = [spent EXCEPT !.troubles = @ + 1]
    /\ UNCHANGED <<now, offset, order, intents, ask, patrolled, calm>>

\* ... and comes back.
ChannelReturns(c) ==
    /\ channel[c] # "up"
    /\ channel' = [channel EXCEPT ![c] = "up"]
    /\ calm' = (calm /\ now <= LastMoment)
    /\ UNCHANGED <<now, offset, order, intents, ask, patrolled, spent>>

\* The worker dies, or the time of the round is up, between a claim and the
\* answers: the attempt is spent.
Cut ==
    /\ spent.troubles < MaxTroubles /\ ask["patrol"].running
    /\ ask' = [ask EXCEPT !["patrol"] = Idle]
    /\ calm' = (calm /\ now <= LastMoment)
    /\ spent' = [spent EXCEPT !.troubles = @ + 1]
    /\ UNCHANGED <<now, offset, order, intents, channel, patrolled>>

\* The clock moves on when the round that is due has ended.
Tick ==
    /\ now < Horizon /\ ~RoundIsDue
    /\ now' = now + 1
    /\ patrolled' = FALSE
    /\ UNCHANGED <<offset, order, intents, channel, ask, calm, spent>>

Ended == now = Horizon /\ UNCHANGED vars

Next ==
    \/ \E c \in Channels : BeginIntent(c)
    \/ \E i \in DOMAIN intents : PayAtChannel(i) \/ Callback(i) \/ Claim(i)
    \/ ExpireOrder \/ EndRound \/ QueryByHand
    \/ \E a \in Askers : QueryRef(a) \/ EndQuery(a)
    \/ \E c \in Channels, status \in {"down", "disabled"} : ChannelFails(c, status)
    \/ \E c \in Channels : ChannelReturns(c)
    \/ Cut \/ Tick \/ Ended

Spec == Init /\ [][Next]_vars

-----------------------------------------------------------------------------
\* Type invariant, with two facts of module payment's states: an order has at
\* most one open intent, and only while it is pending (uq of payment_intents).
TypeOK ==
    /\ now \in 0..Horizon /\ offset \in 0..(Period - 1)
    /\ order \in {"pending", "paid", "closed"}
    /\ \A i \in DOMAIN intents :
         /\ intents[i].status \in {"requires_action", "succeeded", "cancelled", "expired"}
         /\ intents[i].attempts \in 0..MaxAttempts
         /\ intents[i].recorded => Paid(i)
    /\ patrolled \in BOOLEAN /\ calm \in BOOLEAN
    /\ channel \in [Channels -> {"up", "down", "disabled"}]
    /\ \A i, j \in DOMAIN intents : Open(i) /\ Open(j) => i = j
    /\ \A i \in DOMAIN intents : Open(i) => order = "pending"

Calm == calm /\ \A c \in Channels : channel[c] = "up"

PaidInTime(i) == intents[i].paid = "in_time" /\ intents[i].channel \notin NoQuery

\* An order the buyer paid in time does not lapse because callbacks were lost:
\* when its window closes it is paid, whichever of its payment pages was used,
\* and although channels failed or the worker died in between, as long as they
\* were back for the last call (nextQueryAt, ReconcileDue, queryOrder).
PaidOrderFound ==
    now > PaymentWindow /\ Calm /\ (\E i \in DOMAIN intents : PaidInTime(i))
        => order = "paid"

\* Every payment made in time is in the books when the window closes, the
\* second payment of an order that was paid twice included (queryOrder).
EveryPaymentFound ==
    now > PaymentWindow /\ Calm
        => \A i \in DOMAIN intents : PaidInTime(i) => intents[i].recorded
=============================================================================
