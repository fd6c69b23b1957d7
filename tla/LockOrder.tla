----------------------------- MODULE LockOrder -----------------------------
(***************************************************************************)
(* Transactions that wait for each other's locks.  A transaction is the    *)
(* sequence of the locks it asks for (LockRequests); it waits while        *)
(* another one holds a lock in a conflicting mode.  PostgreSQL rolls back  *)
(* one transaction of a circle of waiting ones (error 40P01); a payment    *)
(* callback is then delivered again by the channel, other operations       *)
(* report the error to their caller.                                       *)
(***************************************************************************)
EXTENDS Integers, Sequences, FiniteSets

CONSTANTS
    Workers,   \* the transactions that run beside each other
    Mixes      \* the sets of operations they may run: records [locks, redelivered]

VARIABLES
    job,       \* what each worker runs
    taken,     \* how many locks of its job a worker has asked for and got
    state      \* "running", "committed", "skipped", "failed", "undelivered"

vars == <<job, taken, state>>

-----------------------------------------------------------------------------
(* The modes are PostgreSQL's four row lock strengths. *)

Modes == <<"key share", "share", "no key update", "update">>
Strength(mode) == CHOOSE i \in 1..4 : Modes[i] = mode

\* Which strengths exclude each other: KEY SHARE only UPDATE, SHARE both
\* update modes, and the update modes each other.
Conflicts(m, n) == Strength(m) + Strength(n) > 4

-----------------------------------------------------------------------------
(* The transactions.                                                       *)

HasNext(t) == state[t] = "running" /\ taken[t] < Len(job[t].locks)
NextLock(t) == job[t].locks[taken[t] + 1]

Held(t) ==
    {job[t].locks[i] : i \in {j \in 1..taken[t] : job[t].locks[j].how # "pass"}}

Blocks(h, t) ==
    /\ h # t
    /\ \E l \in Held(h) : l.row = NextLock(t).row /\ Conflicts(l.mode, NextLock(t).mode)
Blockers(t) == {h \in Workers : state[h] = "running" /\ Blocks(h, t)}

\* t waits; a SKIP LOCKED request never does.
Waiting == {t \in Workers : HasNext(t) /\ NextLock(t).how # "skip" /\ Blockers(t) # {}}

\* The transactions of some circle: each waits for another one of the set.
Circle(C) == C # {} /\ C \subseteq Waiting /\ \A t \in C : Blockers(t) \cap C # {}

Init ==
    /\ \E mix \in Mixes : job \in [Workers -> mix]
    /\ taken = [t \in Workers |-> 0]
    /\ state = [t \in Workers |-> "running"]

\* The next lock is free, or held by this transaction or in a mode that fits.
Acquire(t) ==
    /\ HasNext(t)
    /\ Blockers(t) = {}
    /\ taken' = [taken EXCEPT ![t] = @ + 1]
    /\ UNCHANGED <<job, state>>

\* SKIP LOCKED found the row locked: the operation ends with nothing done.
Skip(t) ==
    /\ HasNext(t)
    /\ NextLock(t).how = "skip"
    /\ Blockers(t) # {}
    /\ state' = [state EXCEPT ![t] = "skipped"]
    /\ UNCHANGED <<job, taken>>

Commit(t) ==
    /\ state[t] = "running"
    /\ taken[t] = Len(job[t].locks)
    /\ state' = [state EXCEPT ![t] = "committed"]
    /\ UNCHANGED <<job, taken>>

\* Mutant: a callback that failed is not delivered again.
DetectDeadlockForGood(t) ==
    /\ \E C \in SUBSET Workers : t \in C /\ Circle(C)
    /\ state' = [state EXCEPT ![t] = "failed"]
    /\ UNCHANGED <<job, taken>>

\* PostgreSQL finds a circle and rolls back a transaction of it.
DetectDeadlock(t) ==
    /\ \E C \in SUBSET Workers : t \in C /\ Circle(C)
    /\ state' = [state EXCEPT ![t] = IF job[t].redelivered THEN "undelivered" ELSE "failed"]
    /\ UNCHANGED <<job, taken>>

\* The channel repeats a callback that was not answered.  It does so after
\* seconds at the earliest, when the transactions that ran have ended.
Redeliver(t) ==
    /\ state[t] = "undelivered"
    /\ \A h \in Workers : state[h] # "running"
    /\ state' = [state EXCEPT ![t] = "running"]
    /\ taken' = [taken EXCEPT ![t] = 0]
    /\ UNCHANGED job

Ended == \A t \in Workers : state[t] \notin {"running", "undelivered"}

Next ==
    \/ \E t \in Workers :
          Acquire(t) \/ Skip(t) \/ Commit(t) \/ DetectDeadlock(t) \/ Redeliver(t)
    \/ Ended /\ UNCHANGED vars

Spec == Init /\ [][Next]_vars

\* A transaction that can go on does, PostgreSQL looks for circles, and the
\* channel repeats what was not answered.
FairSpec ==
    /\ Spec
    /\ \A t \in Workers : WF_vars(Acquire(t) \/ Skip(t) \/ Commit(t)) /\ WF_vars(Redeliver(t))
    /\ WF_vars(\E t \in Workers : DetectDeadlock(t))

-----------------------------------------------------------------------------
(* Properties.                                                             *)

\* No two running transactions hold conflicting locks on one row: what every
\* read-then-write in the money code relies on.
TypeOK ==
    /\ \A t \in Workers : taken[t] \in 0..Len(job[t].locks)
    /\ \A t \in Workers : state[t] \in {"running", "committed", "skipped", "failed", "undelivered"}
    /\ \A t, h \in Workers : \A k \in Held(t), l \in Held(h) :
          (t # h /\ state[t] = "running" /\ state[h] = "running" /\ k.row = l.row)
             => ~Conflicts(k.mode, l.mode)

\* The operations never wait for each other in a circle, so none of them is
\* rolled back by PostgreSQL: the lock order the comments of order, payment,
\* commission and identity describe.
NeverWaitInACircle == \A C \in SUBSET Workers : ~Circle(C)

\* A payment callback is booked in the end, even where the lock order does
\* allow a circle (a channel newer than the user's accounts).
EveryCallbackBooked ==
    \A t \in Workers : job[t].redelivered ~> (state[t] = "committed")

\* What holds at every lock request: no two holders conflict, and nobody waits
\* in a circle.
LockInv == TypeOK /\ NeverWaitInACircle
=============================================================================
