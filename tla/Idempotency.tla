---------------------------- MODULE Idempotency ----------------------------
(***************************************************************************)
(* One Idempotency-Key of one actor and scope: requests claim it, execute, *)
(* and complete or release the claim.  A bound route completes the claim   *)
(* in its business transaction; any other route leaves that to the         *)
(* middleware, after its own transaction has committed.                    *)
(***************************************************************************)
EXTENDS Faults, Integers

CONSTANTS
    Requests,   \* the requests with the key
    Hashes,     \* fingerprints of what they ask for
    MaxRows     \* bound: rows inserted for the key

ASSUME RowsAreCounted == MaxRows \in Nat

VARIABLES
    row,        \* the row of idempotency_keys, or None
    rows,       \* rows inserted so far; the last one's id
    req,        \* the requests
    effects,    \* history: executions that took effect, each with the row it held
    route       \* "bound" or "free", from the beginning to the end

keyVars == <<row, rows, req, effects, faults>>

\* Whether the route completes the claim in its transaction.
Bound == route = "bound"

NewRequest == [pc |-> "new", hash |-> None, id |-> 0, gen |-> 0, completed |-> FALSE,
            status |-> None, answer |-> None]

Answered(e, answer) == req' = [req EXCEPT ![e].pc = "done", ![e].answer = answer]

\* newClaim: the request goes on with the claim, unless the answer of the commit is lost.
Claimed(e, r) ==
    \/ /\ req' = [req EXCEPT ![e].pc = "run", ![e].id = r.id, ![e].gen = r.gen]
       /\ UNCHANGED faults
    \/ Fault /\ Answered(e, "error")

\* A request of the client.
Start(e, h) ==
    /\ req[e].pc = "new"
    /\ req' = [req EXCEPT ![e].pc = "insert", ![e].hash = h]
    /\ UNCHANGED <<row, rows, effects, faults>>

\* The id of a new row.
NextId == rows + 1

\* Claim: the key is new.
ClaimInsert(e) ==
    /\ req[e].pc = "insert" /\ row = None /\ rows < MaxRows
    /\ row' = [id |-> NextId, hash |-> req[e].hash, status |-> "in_flight", gen |-> 1,
               replayable |-> FALSE, response |-> None]
    /\ rows' = rows + 1
    /\ Claimed(e, row')
    /\ UNCHANGED effects

\* Claim: the key is there.
ClaimConflict(e) ==
    /\ req[e].pc = "insert" /\ row # None
    /\ req' = [req EXCEPT ![e].pc = "lock"]
    /\ UNCHANGED <<row, rows, effects, faults>>

\* Mutant: a claim in flight is taken over, as if its lease showed that it has stopped.
TakeoverLease(e) ==
    /\ row.status \in {"failed", "in_flight"}
    /\ row' = [row EXCEPT !.status = "in_flight", !.gen = @ + 1]
    /\ Claimed(e, row')

\* Takeover of a released claim.
Takeover(e) ==
    /\ row.status = "failed"
    /\ row' = [row EXCEPT !.status = "in_flight", !.gen = @ + 1]
    /\ Claimed(e, row')

SameRequest(e) == row.hash = req[e].hash

\* Claim of a key that was there, under the lock of its row.
ClaimLock(e) ==
    /\ req[e].pc = "lock"
    /\ \/ /\ row = None
          /\ Answered(e, "error") /\ UNCHANGED <<row, faults>>
       \/ /\ row # None
          /\ ~SameRequest(e)
          /\ Answered(e, "reuse") /\ UNCHANGED <<row, faults>>
       \/ /\ row # None
          /\ SameRequest(e)
          /\ \/ /\ row.status = "in_flight" \/ (row.status = "succeeded" /\ ~row.replayable)
                /\ Answered(e, "busy") /\ UNCHANGED <<row, faults>>
             \/ /\ row.status = "succeeded" /\ row.replayable
                /\ Answered(e, row.response) /\ UNCHANGED <<row, faults>>
             \/ Takeover(e)
    /\ UNCHANGED <<rows, effects>>

-----------------------------------------------------------------------------
\* Mutant: the claim is known by its id alone.
HoldsById(e) == row # None /\ row.id = req[e].id

\* Finish: the condition of its UPDATE.
HoldsClaim(e) ==
    /\ row # None /\ row.id = req[e].id /\ row.gen = req[e].gen
    /\ row.status = "in_flight"

Completed(e, replayable) ==
    [row EXCEPT !.status = "succeeded", !.replayable = replayable, !.response = e]

Effect(e) == effects' = effects \cup {[by |-> e, id |-> req[e].id]}

Executed(e, status, completed) ==
    req' = [req EXCEPT ![e].pc = "finish", ![e].status = status, ![e].completed = completed]

\* The handler of a bound route: what it does and the completion are one transaction.  Its
\* commit can take effect and be reported as an error, and the handler can fail after it.
ExecuteBound(e) ==
    /\ Bound /\ req[e].pc = "run"
    /\ \/ /\ Executed(e, "error", FALSE)
          /\ UNCHANGED <<row, effects, faults>>
       \/ /\ HoldsClaim(e)
          /\ \E replayable \in BOOLEAN : row' = Completed(e, replayable)
          /\ Effect(e)
          /\ \/ Executed(e, "ok", TRUE) /\ UNCHANGED faults
             \/ Fault /\ \E completed \in BOOLEAN : Executed(e, "error", completed)
    /\ UNCHANGED rows

\* The handler of another route.
ExecuteFree(e) ==
    /\ ~Bound /\ req[e].pc = "run"
    /\ \/ /\ Executed(e, "error", FALSE)
          /\ UNCHANGED <<effects, faults>>
       \/ /\ Effect(e)
          /\ \/ Executed(e, "ok", FALSE) /\ UNCHANGED faults
             \/ Fault /\ Executed(e, "error", FALSE)
    /\ UNCHANGED <<row, rows>>

\* The middleware's finish and its release after a panic; an error of theirs is only logged.
MiddlewareFinish(e) ==
    /\ req[e].pc = "finish"
    /\ Answered(e, req[e].status)
    /\ \/ /\ req[e].completed \/ ~HoldsClaim(e)
          /\ UNCHANGED <<row, faults>>
       \/ /\ ~req[e].completed /\ HoldsClaim(e)
          /\ \/ /\ req[e].status = "ok"
                /\ \E replayable \in BOOLEAN : row' = Completed(e, replayable)
             \/ /\ req[e].status = "error"
                /\ row' = [row EXCEPT !.status = "failed", !.replayable = FALSE, !.response = None]
          /\ UNCHANGED faults
       \/ ~req[e].completed /\ Fault /\ UNCHANGED row
    /\ UNCHANGED <<rows, effects>>

\* The process dies with the request.
Crash(e) ==
    /\ req[e].pc \notin {"new", "done"}
    /\ Fault
    /\ req' = [req EXCEPT ![e].pc = "done"]
    /\ UNCHANGED <<row, rows, effects>>

\* Mutant: claims in flight are kept.
PurgeFinished ==
    /\ row # None /\ row.status # "in_flight" /\ row' = None
    /\ UNCHANGED <<rows, req, effects, faults>>

\* Purge: the row has reached its age.
Purge ==
    /\ row # None /\ row' = None
    /\ UNCHANGED <<rows, req, effects, faults>>

-----------------------------------------------------------------------------
KeyInit ==
    /\ row = None /\ rows = 0
    /\ req = [e \in Requests |-> NewRequest]
    /\ effects = {} /\ faults = 0
    /\ route \in {"bound", "free"}

Handle(e) ==
    \/ ClaimInsert(e) \/ ClaimConflict(e) \/ ClaimLock(e)
    \/ ExecuteBound(e) \/ ExecuteFree(e) \/ MiddlewareFinish(e)

KeyNext ==
    \/ \E e \in Requests : Handle(e) \/ Crash(e) \/ \E h \in Hashes : Start(e, h)
    \/ Purge

KeySpec == KeyInit /\ [][KeyNext /\ UNCHANGED route]_<<keyVars, route>>

\* Handlers go on, and the retention job runs every day.
KeyFairSpec == KeySpec /\ WF_keyVars(Purge) /\ \A e \in Requests : WF_keyVars(Handle(e))

-----------------------------------------------------------------------------
Rows ==
    [id : 1..MaxRows, hash : Hashes, status : {"in_flight", "succeeded", "failed"}, gen : Nat,
     replayable : BOOLEAN, response : Requests \cup {None}]

ASSUME NoneIsNothing ==
    /\ None \notin Rows /\ None \notin {"ok", "error"}
    /\ Requests \cap {None, "ok", "error", "busy", "reuse"} = {}

\* Type invariant: the row of the key is the newest one, and claims are claims of rows that
\* were inserted (Claim).
KeyTypeOK ==
    /\ row \in Rows \cup {None} /\ rows \in 0..MaxRows
    /\ row # None => row.id = rows
    /\ DOMAIN req = Requests
    /\ \A e \in Requests : req[e].id \in 0..rows /\ req[e].gen \in Nat
    /\ effects \subseteq [by : Requests, id : 1..MaxRows]
    /\ faults \in 0..MaxFaults /\ route \in {"bound", "free"}

\* A bound route takes effect at most once for a row of its key, whatever is retried, lost,
\* crashed or purged in between (Claim, finish and the business transactions that complete it).
AtMostOnce ==
    Bound => \A x, y \in effects : x.id = y.id => x.by = y.by

\* What is replayed is the response of a request that asked for the same and took effect (Claim,
\* Complete).
ReplayIsTheEffect ==
    \A e, x \in Requests :
        req[e].answer = x => req[x].hash = req[e].hash /\ \E f \in effects : f.by = x

\* On any route: once a client has been told of success, no other request takes effect under the
\* same row (Claim: in flight or succeeded is never executed again).
SuccessIsFinal ==
    [][\A f \in effects' \ effects : \A e \in Requests :
          req[e].status = "ok" => req[e].id # f.id]_keyVars

\* A key is never blocked for good: a claim whose owner died goes with the row (Purge).
KeyFreed ==
    (row # None /\ row.status = "in_flight") ~> (row = None \/ row.status # "in_flight")

\* What holds of a key in every state: one effect on a bound route, and replays of that effect.
IdempotencyInv ==
    /\ KeyTypeOK
    /\ AtMostOnce
    /\ ReplayIsTheEffect
=============================================================================
