--------------------------- MODULE RecoveryProofs ---------------------------
(***************************************************************************)
(* Proofs about what survives a lost answer or a restart: the idempotency  *)
(* keys of the portal, and the upgrade of an agent.                        *)
(***************************************************************************)
EXTENDS Idempotency, Upgrade, TLAPS

-----------------------------------------------------------------------------
(***************************************************************************)
(* What an Idempotency-Key promises, for any number of requests, rows and  *)
(* faults.                                                                 *)
(*                                                                         *)
(* A claim is known by the id of its row and its generation.  Generation   *)
(* by generation a row has one owner at most; whoever still executes, or   *)
(* has succeeded, owns the newest generation of a row that was not         *)
(* released, so nobody can take the row over.  Purging a row forgets it    *)
(* but not the ids: a row that is inserted later has a new one.            *)
(***************************************************************************)

ClaimSteps == {"new", "insert", "lock", "run", "finish", "done"}

Answers == Requests \cup {None, "ok", "error", "busy", "reuse"}

\* The fields the proofs read.
Fields ==
    [pc : ClaimSteps, hash : Hashes \cup {None}, id : Nat, gen : Nat, completed : BOOLEAN,
     status : {None, "ok", "error"}, answer : Answers]

KeyTypes ==
    /\ req \in [Requests -> Fields]
    /\ row \in Rows \cup {None} /\ rows \in Nat
    /\ row # None => row.id = rows
    /\ \A e \in Requests : req[e].id <= rows

\* Before it has a claim a request has no id and no result, while it runs it has no result.
Early ==
    \A e \in Requests :
        /\ req[e].pc \in {"new", "insert", "lock"} => req[e].id = 0
        /\ req[e].pc \in {"new", "insert", "lock", "run"} => req[e].status = None
        /\ req[e].pc = "run" => req[e].id # 0
        /\ req[e].status = "ok" => req[e].id # 0
        /\ req[e].pc # "new" => req[e].hash \in Hashes

\* A generation of a row has one owner.
OneOwner ==
    \A e, g \in Requests :
        req[e].id = req[g].id /\ req[e].gen = req[g].gen /\ req[e].id # 0 => e = g

\* Whoever runs or has succeeded owns the newest generation, and the row is not released.
Newest ==
    row # None => \A e \in Requests :
        req[e].id = row.id =>
            /\ req[e].gen <= row.gen
            /\ req[e].pc = "run" \/ req[e].status = "ok"
                  => req[e].gen = row.gen /\ row.status # "failed"

\* Under one row only one request runs, and none when a request has succeeded.
Exclusive ==
    \A e, g \in Requests :
        e # g /\ req[g].pc = "run" /\ (req[e].pc = "run" \/ req[e].status = "ok")
            => req[e].id # req[g].id

KeyIInv == KeyTypes /\ Early /\ OneOwner /\ Newest /\ Exclusive

-----------------------------------------------------------------------------
(* A request that takes no new claim and does not start to run, and whose  *)
(* success comes from running, keeps the claims as they are, whether it    *)
(* leaves the row alone, completes it, or releases it without a success.   *)
LEMMA StepOfOne ==
    ASSUME KeyIInv, NEW e \in Requests, NEW r \in Fields,
           req' = [req EXCEPT ![e] = r], UNCHANGED rows,
           r.id = req[e].id, r.gen = req[e].gen, r.hash \in Hashes,
           r.pc = "run" => req[e].pc = "run",
           r.pc \in {"new", "insert", "lock"} => req[e].pc \in {"new", "insert", "lock"},
           r.pc \in {"new", "insert", "lock", "run"} => r.status = None,
           r.status = "ok" => req[e].pc = "run" \/ req[e].status = "ok",
           \/ row' = row
           \/ /\ row # None /\ row' \in Rows /\ row'.id = row.id /\ row'.gen = row.gen
              /\ row'.status = "failed"
                   => /\ req[e].id = row.id /\ req[e].gen = row.gen
                      /\ r.pc # "run" /\ r.status # "ok"
    PROVE  KeyIInv'
<1>1. req'[e] = r /\ \A g \in Requests : g # e => req'[g] = req[g]
  BY Zenon DEF KeyIInv, KeyTypes
<1>2. KeyTypes'
  <2>1. req' \in [Requests -> Fields] /\ \A g \in Requests : req'[g].id <= rows
    BY <1>1, Zenon DEF KeyIInv, KeyTypes
  <2>2. row' \in Rows \cup {None} /\ (row' # None => row'.id = rows)
    BY Zenon DEF KeyIInv, KeyTypes
  <2> QED BY <2>1, <2>2, Zenon DEF KeyIInv, KeyTypes
<1>3. Early'
  BY <1>1, NoneIsNothing DEF KeyIInv, Early
<1>4. OneOwner'
  BY <1>1 DEF KeyIInv, OneOwner
<1>5. Newest'
  <2>1. CASE row' = row
    BY <1>1, <2>1 DEF KeyIInv, Newest
  <2>2. CASE row' # row
    <3>1. row # None /\ row'.id = row.id /\ row'.gen = row.gen
      BY <2>2, Zenon
    <3>2. CASE row'.status # "failed"
      BY <1>1, <3>1, <3>2 DEF KeyIInv, Newest
    <3>3. CASE row'.status = "failed"
      <4>1. /\ req[e].id = row.id /\ req[e].gen = row.gen
            /\ r.pc # "run" /\ r.status # "ok" /\ row.id # 0
        BY <2>2, <3>3 DEF KeyIInv, KeyTypes, Rows
      <4>2. \A g \in Requests : g # e /\ req[g].id = row.id
                 => req[g].pc # "run" /\ req[g].status # "ok"
        BY <3>1, <4>1, Zenon DEF KeyIInv, Newest, OneOwner
      <4> QED BY <1>1, <3>1, <4>1, <4>2, Zenon DEF KeyIInv, Newest
    <3> QED BY <3>2, <3>3, Zenon
  <2> QED BY <2>1, <2>2, Zenon
<1>6. Exclusive'
  BY <1>1, <1>3, NoneIsNothing DEF KeyIInv, Exclusive, Early
<1> QED BY <1>2, <1>3, <1>4, <1>5, <1>6, Zenon DEF KeyIInv

(* A request takes the newest generation of a row nobody runs under.       *)
LEMMA NewClaim ==
    ASSUME KeyIInv, NEW e \in Requests, req[e].pc \in {"insert", "lock"}, NEW r \in Fields,
           req' = [req EXCEPT ![e] = r], rows' \in Nat, rows <= rows', row' \in Rows,
           row'.id = rows', row'.status = "in_flight",
           \/ rows' > rows
           \/ row # None /\ rows' = rows /\ row.status = "failed" /\ row'.gen = row.gen + 1,
           r.status = None, r.hash \in Hashes,
           \/ r.pc = "run" /\ r.id = row'.id /\ r.gen = row'.gen
           \/ r.pc = "done" /\ r.id = 0
    PROVE  KeyIInv'
<1>1. req'[e] = r /\ \A g \in Requests : g # e => req'[g] = req[g]
  BY Zenon DEF KeyIInv, KeyTypes
<1>2. /\ rows \in Nat /\ row'.id \in Nat \ {0} /\ row'.gen \in Nat
      /\ \A g \in Requests : req[g].id \in Nat /\ req[g].gen \in Nat /\ req[g].id <= rows
  BY DEF KeyIInv, KeyTypes, Fields, Rows
<1>3. \A g \in Requests : req[g].id = row'.id
         => req[g].gen < row'.gen /\ req[g].pc # "run" /\ req[g].status # "ok"
  <2>1. CASE rows' > rows
    BY <1>2, <2>1
  <2>2. CASE row # None /\ rows' = rows /\ row.status = "failed" /\ row'.gen = row.gen + 1
    <3>1. row.id = row'.id /\ row.gen \in Nat
      BY <2>2, Zenon DEF KeyIInv, KeyTypes, Rows
    <3>2. \A g \in Requests : req[g].id = row.id
             => req[g].gen <= row.gen /\ req[g].pc # "run" /\ req[g].status # "ok"
      BY <2>2, Zenon DEF KeyIInv, Newest
    <3> QED BY <1>2, <2>2, <3>1, <3>2
  <2> QED BY <2>1, <2>2, Zenon
<1>4. KeyTypes'
  <2>1. req' \in [Requests -> Fields] /\ \A g \in Requests : req'[g].id <= rows'
    BY <1>1, <1>2 DEF KeyIInv, KeyTypes
  <2> QED BY <2>1, Zenon DEF KeyTypes
<1>5. Early'
  BY <1>1, <1>2, NoneIsNothing DEF KeyIInv, Early
<1>6. OneOwner'
  BY <1>1, <1>2, <1>3 DEF KeyIInv, OneOwner
<1>7. Newest'
  BY <1>1, <1>2, <1>3 DEF Newest
<1>8. Exclusive'
  BY <1>1, <1>2, <1>3, NoneIsNothing DEF KeyIInv, Exclusive, Early
<1> QED BY <1>4, <1>5, <1>6, <1>7, <1>8, Zenon DEF KeyIInv

-----------------------------------------------------------------------------
(* The steps of a request.                                                 *)

(* A request is answered.                                                  *)
LEMMA AnsweredKeeps ==
    ASSUME KeyIInv, NEW e \in Requests, UNCHANGED <<row, rows>>,
           NEW a \in Answers, Answered(e, a),
           req[e].pc # "new"
    PROVE  KeyIInv'
<1> DEFINE r == [req[e] EXCEPT !.pc = "done", !.answer = a]
<1>1. r \in Fields
  BY ZenonT(30) DEF KeyIInv, KeyTypes, Fields, ClaimSteps, Answers
<1>2. r.id = req[e].id /\ r.gen = req[e].gen /\ r.pc = "done" /\ r.status = req[e].status
      /\ r.hash \in Hashes
  BY Zenon DEF KeyIInv, KeyTypes, Fields, Early
<1>3. req' = [req EXCEPT ![e] = r]
  BY Zenon DEF Answered, KeyIInv, KeyTypes, Fields
<1> HIDE DEF r
<1> QED BY <1>1, <1>2, <1>3, StepOfOne, Zenon

(* newClaim, with the answer of its commit lost or not.                    *)
LEMMA ClaimedKeeps ==
    ASSUME KeyIInv, NEW e \in Requests, req[e].pc \in {"insert", "lock"},
           rows' \in Nat, rows <= rows', row' \in Rows,
           row'.id = rows', row'.status = "in_flight",
           \/ rows' > rows
           \/ row # None /\ rows' = rows /\ row.status = "failed" /\ row'.gen = row.gen + 1,
           Claimed(e, row')
    PROVE  KeyIInv'
<1>1. req[e] \in Fields /\ req[e].status = None /\ req[e].id = 0 /\ req[e].hash \in Hashes
  BY Zenon DEF KeyIInv, KeyTypes, Early
<1>2. CASE req' = [req EXCEPT ![e].pc = "run", ![e].id = row'.id, ![e].gen = row'.gen]
  <2> DEFINE r == [req[e] EXCEPT !.pc = "run", !.id = row'.id, !.gen = row'.gen]
  <2>1. r \in Fields /\ r.pc = "run" /\ r.id = row'.id /\ r.gen = row'.gen
        /\ r.status = None /\ r.hash \in Hashes
    BY <1>1, Zenon DEF Fields, ClaimSteps, Rows
  <2>2. req' = [req EXCEPT ![e] = r]
    BY <1>2, Zenon DEF KeyIInv, KeyTypes, Fields
  <2> HIDE DEF r
  <2> QED BY <2>1, <2>2, NewClaim, Zenon
<1>3. CASE Answered(e, "error")
  <2> DEFINE r == [req[e] EXCEPT !.pc = "done", !.answer = "error"]
  <2>1. r \in Fields /\ r.pc = "done" /\ r.id = 0 /\ r.status = None /\ r.hash \in Hashes
    BY <1>1, Zenon DEF Fields, ClaimSteps, Answers
  <2>2. req' = [req EXCEPT ![e] = r]
    BY <1>3, Zenon DEF Answered, KeyIInv, KeyTypes, Fields
  <2> HIDE DEF r
  <2> QED BY <2>1, <2>2, NewClaim, Zenon
<1> QED BY <1>2, <1>3, Zenon DEF Claimed

(* The client sends a request.                                             *)
LEMMA StartKeeps ==
    ASSUME KeyIInv, NEW e \in Requests, NEW h \in Hashes, Start(e, h)
    PROVE  KeyIInv'
<1> DEFINE r == [req[e] EXCEPT !.pc = "insert", !.hash = h]
<1>1. r \in Fields
  BY Zenon DEF KeyIInv, KeyTypes, Fields, ClaimSteps, Answers
<1>2. /\ r.id = req[e].id /\ r.gen = req[e].gen /\ r.pc = "insert" /\ r.hash \in Hashes
      /\ req[e].pc = "new" /\ r.status = req[e].status /\ r.status = None
  BY Zenon DEF KeyIInv, KeyTypes, Fields, Start, Early
<1>3. req' = [req EXCEPT ![e] = r] /\ UNCHANGED <<row, rows>>
  BY Zenon DEF Start, KeyIInv, KeyTypes, Fields
<1> HIDE DEF r
<1> QED BY <1>1, <1>2, <1>3, NoneIsNothing, StepOfOne, Zenon

(* Claim of a new key: the row has a new id.                               *)
LEMMA ClaimInsertKeeps ==
    ASSUME KeyIInv, NEW e \in Requests, MaxRows \in Nat, ClaimInsert(e)
    PROVE  KeyIInv'
<1>1. rows \in Nat /\ rows' = rows + 1 /\ rows < MaxRows /\ NextId = rows + 1
  BY Zenon DEF KeyIInv, KeyTypes, ClaimInsert, NextId
<1>2. req[e].hash \in Hashes
  BY Zenon DEF ClaimInsert, KeyIInv, Early
<1>3. row' \in Rows /\ row'.id = rows' /\ row'.status = "in_flight"
  BY <1>1, <1>2 DEF ClaimInsert, Rows
<1>4. Claimed(e, row') /\ req[e].pc = "insert"
  BY Zenon DEF ClaimInsert
<1> QED BY <1>1, <1>3, <1>4, ClaimedKeeps

(* Claim of a key that is there: an answer, or the claim of a row that its *)
(* owner released.                                                         *)
LEMMA ClaimLockKeeps ==
    ASSUME KeyIInv, NEW e \in Requests, ClaimLock(e)
    PROVE  KeyIInv'
<1>1. req[e].pc = "lock" /\ rows' = rows
  BY Zenon DEF ClaimLock
<1>2. CASE UNCHANGED row /\ \E a \in {"error", "reuse", "busy"} : Answered(e, a)
  BY <1>1, <1>2, AnsweredKeeps, Zenon DEF Answers
<1>3. CASE row # None /\ UNCHANGED row /\ Answered(e, row.response)
  <2>1. row.response \in Answers
    BY <1>3, Zenon DEF KeyIInv, KeyTypes, Rows, Answers
  <2> QED BY <1>1, <1>3, <2>1, AnsweredKeeps, Zenon
<1>4. CASE row # None /\ Takeover(e)
  <2>1. row \in Rows /\ row.id = rows /\ rows \in Nat
    BY <1>4, Zenon DEF KeyIInv, KeyTypes
  <2>2. row.status = "failed" /\ Claimed(e, row')
    BY <1>4, Zenon DEF Takeover
  <2>3. row' = [row EXCEPT !.status = "in_flight", !.gen = row.gen + 1]
    BY <1>4, Zenon DEF Takeover
  <2>4. PICK n \in Nat : n = row.gen + 1
    BY <2>1 DEF Rows
  <2>5. row' = [row EXCEPT !.status = "in_flight", !.gen = n]
    BY <2>3, <2>4, Zenon
  <2>6. row' \in Rows /\ row'.id = row.id /\ row'.status = "in_flight" /\ row'.gen = n
    BY <2>1, <2>5, Zenon DEF Rows
  <2>7. /\ row' \in Rows /\ row'.id = rows' /\ row'.status = "in_flight"
        /\ row'.gen = row.gen + 1
    BY <1>1, <2>1, <2>4, <2>6, Zenon
  <2>8. rows <= rows' /\ rows' \in Nat
    BY <1>1, <2>1
  <2> QED BY <1>1, <1>4, <2>7, <2>8, <2>2, ClaimedKeeps, Zenon
<1> QED BY <1>2, <1>3, <1>4, Zenon DEF ClaimLock

(* A handler that ran: it had no result before.                            *)
LEMMA ExecutedKeeps ==
    ASSUME KeyIInv, NEW e \in Requests, req[e].pc = "run", UNCHANGED rows,
           NEW status \in {"ok", "error"}, NEW completed \in BOOLEAN,
           Executed(e, status, completed),
           \/ row' = row
           \/ row # None /\ row' \in Rows /\ row'.id = row.id /\ row'.gen = row.gen
              /\ row'.status = "succeeded"
    PROVE  KeyIInv'
<1> DEFINE r == [req[e] EXCEPT !.pc = "finish", !.status = status, !.completed = completed]
<1>1. r \in Fields
  BY ZenonT(30) DEF KeyIInv, KeyTypes, Fields, ClaimSteps, Answers
<1>2. r.id = req[e].id /\ r.gen = req[e].gen /\ r.pc = "finish" /\ r.hash \in Hashes
  BY DEF KeyIInv, KeyTypes, Fields, Early
<1>3. req' = [req EXCEPT ![e] = r]
  BY Zenon DEF Executed, KeyIInv, KeyTypes, Fields
<1> HIDE DEF r
<1> QED BY <1>1, <1>2, <1>3, StepOfOne, Zenon

(* The handler of a bound route.                                           *)
LEMMA ExecuteBoundKeeps ==
    ASSUME KeyIInv, NEW e \in Requests, ExecuteBound(e)
    PROVE  KeyIInv'
<1>1. req[e].pc = "run" /\ rows' = rows
  BY Zenon DEF ExecuteBound
<1>2. PICK status \in {"ok", "error"}, completed \in BOOLEAN : Executed(e, status, completed)
  BY Zenon DEF ExecuteBound
<1>3. CASE row' = row
  BY <1>1, <1>2, <1>3, ExecutedKeeps, Zenon
<1>4. CASE row' # row
  <2>1. PICK replayable \in BOOLEAN : row' = Completed(e, replayable) /\ HoldsClaim(e)
    BY <1>4, Zenon DEF ExecuteBound
  <2>2. row # None /\ row \in Rows
    BY <2>1, Zenon DEF HoldsClaim, KeyIInv, KeyTypes
  <2>3. row' \in Rows /\ row'.id = row.id /\ row'.gen = row.gen /\ row'.status = "succeeded"
    BY <2>1, <2>2, Zenon DEF Completed, Rows
  <2> QED BY <1>1, <1>2, <2>2, <2>3, ExecutedKeeps, Zenon
<1> QED BY <1>3, <1>4, Zenon

(* The handler of another route.                                           *)
LEMMA ExecuteFreeKeeps ==
    ASSUME KeyIInv, NEW e \in Requests, ExecuteFree(e)
    PROVE  KeyIInv'
<1>1. req[e].pc = "run" /\ rows' = rows /\ row' = row
  BY Zenon DEF ExecuteFree
<1>2. PICK status \in {"ok", "error"}, completed \in BOOLEAN : Executed(e, status, completed)
  BY Zenon DEF ExecuteFree
<1> QED BY <1>1, <1>2, ExecutedKeeps, Zenon

(* The middleware releases a claim only when its own request failed.       *)
LEMMA MiddlewareFinishKeeps ==
    ASSUME KeyIInv, NEW e \in Requests, MiddlewareFinish(e)
    PROVE  KeyIInv'
<1> DEFINE r == [req[e] EXCEPT !.pc = "done", !.answer = req[e].status]
<1>1. r \in Fields
  BY ZenonT(30) DEF KeyIInv, KeyTypes, Fields, ClaimSteps, Answers
<1>2. /\ r.id = req[e].id /\ r.gen = req[e].gen /\ r.pc = "done" /\ r.hash \in Hashes
      /\ r.status = req[e].status /\ rows' = rows
  BY Zenon DEF MiddlewareFinish, KeyIInv, KeyTypes, Fields, Early
<1>3. req' = [req EXCEPT ![e] = r]
  BY Zenon DEF MiddlewareFinish, Answered, KeyIInv, KeyTypes, Fields
<1>4. CASE row' = row
  <2> HIDE DEF r
  <2> QED BY <1>1, <1>2, <1>3, <1>4, StepOfOne, Zenon
<1>5. CASE row' # row
  <2>1. /\ HoldsClaim(e)
        /\ \/ \E replayable \in BOOLEAN : row' = Completed(e, replayable)
           \/ /\ req[e].status = "error"
              /\ row' = [row EXCEPT !.status = "failed", !.replayable = FALSE, !.response = None]
    BY <1>5, Zenon DEF MiddlewareFinish
  <2>2. row # None /\ row \in Rows /\ req[e].id = row.id /\ req[e].gen = row.gen
    BY <2>1, Zenon DEF HoldsClaim, KeyIInv, KeyTypes
  <2>3. /\ row' \in Rows /\ row'.id = row.id /\ row'.gen = row.gen
        /\ row'.status = "failed" => req[e].status = "error"
    BY <2>1, <2>2, Zenon DEF Completed, Rows
  <2> HIDE DEF r
  <2> QED BY <1>1, <1>2, <1>3, <2>2, <2>3, StepOfOne, Zenon
<1> QED BY <1>4, <1>5, Zenon

(* The process dies with the request.                                      *)
LEMMA CrashKeeps ==
    ASSUME KeyIInv, NEW e \in Requests, Crash(e)
    PROVE  KeyIInv'
<1> DEFINE r == [req[e] EXCEPT !.pc = "done"]
<1>1. r \in Fields
  BY Zenon DEF KeyIInv, KeyTypes, Fields, ClaimSteps, Answers
<1>2. /\ r.id = req[e].id /\ r.gen = req[e].gen /\ r.pc = "done" /\ r.hash \in Hashes
      /\ r.status = req[e].status /\ UNCHANGED <<row, rows>>
  BY Zenon DEF Crash, KeyIInv, KeyTypes, Fields, Early
<1>3. req' = [req EXCEPT ![e] = r]
  BY Zenon DEF Crash, KeyIInv, KeyTypes, Fields
<1> HIDE DEF r
<1> QED BY <1>1, <1>2, <1>3, StepOfOne, Zenon

(* The key was there when the request tried to insert it.                  *)
LEMMA ClaimConflictKeeps ==
    ASSUME KeyIInv, NEW e \in Requests, ClaimConflict(e)
    PROVE  KeyIInv'
<1> DEFINE r == [req[e] EXCEPT !.pc = "lock"]
<1>1. r \in Fields
  BY Zenon DEF KeyIInv, KeyTypes, Fields, ClaimSteps, Answers
<1>2. /\ r.id = req[e].id /\ r.gen = req[e].gen /\ r.pc = "lock" /\ r.hash \in Hashes
      /\ req[e].pc = "insert" /\ r.status = None /\ UNCHANGED <<row, rows>>
  BY Zenon DEF ClaimConflict, KeyIInv, KeyTypes, Fields, Early
<1>3. req' = [req EXCEPT ![e] = r]
  BY Zenon DEF ClaimConflict, KeyIInv, KeyTypes, Fields
<1> HIDE DEF r
<1> QED BY <1>1, <1>2, <1>3, NoneIsNothing, StepOfOne, Zenon

(* The retention job forgets the row; claims of it stay claims of its id.  *)
LEMMA PurgeKeeps ==
    ASSUME KeyIInv, Purge
    PROVE  KeyIInv'
<1>1. row' = None /\ UNCHANGED <<rows, req>>
  BY Zenon DEF Purge
<1>2. KeyTypes'
  BY <1>1, Zenon DEF KeyIInv, KeyTypes
<1>3. Early' /\ OneOwner' /\ Newest' /\ Exclusive'
  BY <1>1, Zenon DEF KeyIInv, Early, OneOwner, Newest, Exclusive
<1> QED BY <1>2, <1>3, Zenon DEF KeyIInv

-----------------------------------------------------------------------------
(* The inductive invariant.                                                *)

(* No request has come yet.                                                *)
LEMMA InitKeeps == KeyInit => KeyIInv
<1> SUFFICES ASSUME KeyInit PROVE KeyIInv
  BY Zenon
<1>1. NewRequest \in Fields /\ NewRequest.id = 0 /\ NewRequest.pc = "new" /\ NewRequest.status = None
  BY Zenon DEF NewRequest, Fields, ClaimSteps, Answers
<1>2. req \in [Requests -> Fields] /\ \A e \in Requests : req[e] = NewRequest
  BY <1>1, Zenon DEF KeyInit
<1>3. KeyTypes
  BY <1>1, <1>2 DEF KeyInit, KeyTypes
<1>4. Early /\ OneOwner /\ Newest /\ Exclusive
  BY <1>1, <1>2, NoneIsNothing, Zenon DEF KeyInit, Early, OneOwner, Newest, Exclusive
<1> QED BY <1>3, <1>4, Zenon DEF KeyIInv

(* Every step keeps it.                                                    *)
LEMMA NextKeeps == MaxRows \in Nat /\ KeyIInv /\ [KeyNext]_keyVars => KeyIInv'
<1> SUFFICES ASSUME MaxRows \in Nat, KeyIInv, [KeyNext]_keyVars PROVE KeyIInv'
  BY Zenon
<1>1. CASE UNCHANGED keyVars
  BY <1>1, Zenon DEF keyVars, KeyIInv, KeyTypes, Early, OneOwner, Newest, Exclusive
<1>2. ASSUME NEW e \in Requests, Handle(e) PROVE KeyIInv'
  BY <1>2, ClaimInsertKeeps, ClaimConflictKeeps, ClaimLockKeeps, ExecuteBoundKeeps,
     ExecuteFreeKeeps, MiddlewareFinishKeeps, Zenon DEF Handle
<1>3. ASSUME NEW e \in Requests, Crash(e) PROVE KeyIInv'
  BY <1>3, CrashKeeps, Zenon
<1>4. ASSUME NEW e \in Requests, NEW h \in Hashes, Start(e, h) PROVE KeyIInv'
  BY <1>4, StartKeeps, Zenon
<1>5. CASE Purge
  BY <1>5, PurgeKeeps, Zenon
<1> QED BY <1>1, <1>2, <1>3, <1>4, <1>5, Zenon DEF KeyNext

(* Claim, Complete, Release and Purge keep one owner for a generation, and *)
(* the newest one for whoever runs or has succeeded.                       *)
THEOREM ClaimsAreExclusive == KeySpec => []KeyIInv
<1>1. MaxRows \in Nat
  BY RowsAreCounted, FaultsAreCounted, Zenon
<1>2. KeyIInv /\ [KeyNext /\ UNCHANGED route]_<<keyVars, route>> => KeyIInv'
  BY <1>1, NextKeeps, Zenon
<1> QED BY InitKeeps, <1>2, PTL DEF KeySpec

-----------------------------------------------------------------------------
(* On every route, once a client has been told of success no other request *)
(* takes effect under the same row.                                        *)
THEOREM SuccessStaysFinal == KeySpec => SuccessIsFinal
<1> DEFINE Step == \A f \in effects' \ effects : \A e \in Requests :
                      req[e].status = "ok" => req[e].id # f.id
<1>1. KeyIInv /\ [KeyNext /\ UNCHANGED route]_<<keyVars, route>> => [Step]_keyVars
  <2> SUFFICES ASSUME KeyIInv, KeyNext, NEW f \in effects' \ effects, NEW e \in Requests,
                      req[e].status = "ok"
               PROVE  req[e].id # f.id
    BY Zenon
  <2>1. PICK x \in Requests : ExecuteBound(x) \/ ExecuteFree(x)
    BY Zenon DEF KeyNext, Handle, ClaimInsert, ClaimConflict, ClaimLock, MiddlewareFinish, Crash, Start,
           Purge
  <2>2. req[x].pc = "run" /\ f = [by |-> x, id |-> req[x].id]
    BY <2>1, Zenon DEF ExecuteBound, ExecuteFree, Effect
  <2>3. x # e
    BY <2>2, NoneIsNothing, Zenon DEF KeyIInv, Early
  <2> QED BY <2>2, <2>3, Zenon DEF KeyIInv, Exclusive
<1>2. KeySpec => [][Step]_keyVars
  BY <1>1, ClaimsAreExclusive, PTL DEF KeySpec
<1> QED BY <1>2, Zenon DEF SuccessIsFinal

-----------------------------------------------------------------------------
(* Bound routes.                                                           *)

\* A row under which a bound route took effect has succeeded, until it is purged.
Decided ==
    /\ effects \subseteq [by : Requests, id : Nat]
    /\ Bound => \A f \in effects :
          /\ f.id <= rows
          /\ row # None /\ row.id = f.id => row.status = "succeeded"

(* A step without an effect leaves succeeded rows alone: only a row in     *)
(* flight is completed or released, only a released one is taken over, and *)
(* a new row has a new id.                                                 *)
LEMMA NoEffect ==
    ASSUME KeyIInv, Decided, AtMostOnce, Bound, effects' = effects, rows' \in Nat, rows <= rows',
           \/ row' = None
           \/ row' # None /\ row'.id > rows
           \/ row' = row
           \/ row # None /\ row'.id = row.id /\ row.status # "succeeded"
    PROVE  Decided' /\ AtMostOnce'
<1>1. AtMostOnce'
  BY Zenon DEF AtMostOnce
<1>2. Decided'
  <2> SUFFICES ASSUME NEW f \in effects
               PROVE  /\ f.id <= rows'
                      /\ row' # None /\ row'.id = f.id => row'.status = "succeeded"
    BY Zenon DEF Decided
  <2>1. f.id \in Nat /\ f.id <= rows /\ rows \in Nat
    BY Zenon DEF Decided, KeyIInv, KeyTypes
  <2>2. row # None /\ row.id = f.id => row.status = "succeeded"
    BY Zenon DEF Decided
  <2>3. f.id <= rows'
    BY <2>1
  <2>4. ASSUME row' # None, row'.id = f.id PROVE row'.status = "succeeded"
    BY <2>1, <2>2, <2>4
  <2> QED BY <2>3, <2>4, Zenon
<1> QED BY <1>1, <1>2, Zenon

(* A bound route takes effect under a row in flight, and completes it in   *)
(* the same transaction.                                                   *)
LEMMA EffectKeeps ==
    ASSUME KeyIInv, Decided, AtMostOnce, NEW e \in Requests, Bound, ExecuteBound(e)
    PROVE  Decided' /\ AtMostOnce'
<1>1. rows' = rows /\ rows \in Nat /\ req[e].id \in Nat
  BY Zenon DEF ExecuteBound, KeyIInv, KeyTypes, Fields
<1>2. CASE effects' = effects /\ row' = row
  BY <1>1, <1>2, NoEffect
<1>3. CASE /\ HoldsClaim(e) /\ Effect(e)
           /\ \E replayable \in BOOLEAN : row' = Completed(e, replayable)
  <2>1. /\ row # None /\ row \in Rows /\ row.id = req[e].id /\ row.id = rows
        /\ row.status = "in_flight"
    BY <1>3, Zenon DEF HoldsClaim, KeyIInv, KeyTypes
  <2>2. row'.id = row.id /\ row'.status = "succeeded"
    BY <1>3, <2>1, Zenon DEF Completed, Rows
  <2>3. \A f \in effects : f.id # row.id /\ f.id <= rows
    BY <2>1, Zenon DEF Decided
  <2>4. effects' = effects \cup {[by |-> e, id |-> row.id]}
    BY <1>3, <2>1, Zenon DEF Effect
  <2>5. effects' \subseteq [by : Requests, id : Nat]
    BY <1>1, <2>1, <2>4 DEF Decided
  <2>6. \A f \in effects' : f.id <= rows' /\ (row' # None /\ row'.id = f.id => row'.status = "succeeded")
    BY <1>1, <2>1, <2>2, <2>3, <2>4
  <2>7. AtMostOnce'
    BY <2>3, <2>4 DEF AtMostOnce
  <2> QED BY <2>5, <2>6, <2>7, Zenon DEF Decided
<1> QED BY <1>2, <1>3, Zenon DEF ExecuteBound

(* Every step of a bound route.                                            *)
LEMMA BoundNextKeeps ==
    ASSUME KeyIInv, Decided, AtMostOnce, Bound, [KeyNext]_keyVars
    PROVE  Decided' /\ AtMostOnce'
<1>1. rows \in Nat /\ (row # None => row.id = rows /\ row \in Rows)
  BY Zenon DEF KeyIInv, KeyTypes
<1>2. CASE UNCHANGED keyVars
  BY <1>1, <1>2, NoEffect DEF keyVars
<1>3. ASSUME NEW e \in Requests, ClaimInsert(e) PROVE Decided' /\ AtMostOnce'
  <2>1. row'.id = rows + 1 /\ rows' = rows + 1 /\ effects' = effects
    BY <1>3, Zenon DEF ClaimInsert, NextId
  <2>2. rows' \in Nat /\ rows <= rows' /\ row'.id > rows
    BY <1>1, <2>1
  <2>3. CASE row' = None
    BY <2>1, <2>2, <2>3, NoEffect, Zenon
  <2>4. CASE row' # None
    BY <2>1, <2>2, <2>4, NoEffect, Zenon
  <2> QED BY <2>3, <2>4, Zenon
<1>4. ASSUME NEW e \in Requests, ClaimLock(e) PROVE Decided' /\ AtMostOnce'
  <2>1. rows' = rows /\ effects' = effects
    BY <1>4, Zenon DEF ClaimLock
  <2>2. row' = row \/ (row # None /\ row'.id = row.id /\ row.status # "succeeded")
    BY <1>1, <1>4, Zenon DEF ClaimLock, Takeover, Rows
  <2> QED BY <1>1, <2>1, <2>2, NoEffect
<1>5. ASSUME NEW e \in Requests, MiddlewareFinish(e) PROVE Decided' /\ AtMostOnce'
  <2>1. rows' = rows /\ effects' = effects
    BY <1>5, Zenon DEF MiddlewareFinish
  <2>2. row' = row \/ (row # None /\ row'.id = row.id /\ row.status # "succeeded")
    BY <1>1, <1>5, Zenon DEF MiddlewareFinish, HoldsClaim, Completed, Rows
  <2> QED BY <1>1, <2>1, <2>2, NoEffect
<1>6. ASSUME NEW e \in Requests, ExecuteBound(e) PROVE Decided' /\ AtMostOnce'
  BY <1>6, EffectKeeps, Zenon
<1>7. ASSUME NEW e \in Requests, ExecuteFree(e) PROVE Decided' /\ AtMostOnce'
  BY <1>7, Zenon DEF ExecuteFree
<1>8. ASSUME NEW e \in Requests, ClaimConflict(e) \/ Crash(e) \/ \E h \in Hashes : Start(e, h)
      PROVE  Decided' /\ AtMostOnce'
  BY <1>1, <1>8, NoEffect DEF ClaimConflict, Crash, Start
<1>9. ASSUME Purge PROVE Decided' /\ AtMostOnce'
  BY <1>1, <1>9, NoEffect DEF Purge
<1> QED BY <1>2, <1>3, <1>4, <1>5, <1>6, <1>7, <1>8, <1>9, Zenon DEF KeyNext, Handle

(* What takes effect under a claim is recorded with the request and the    *)
(* row of the claim, on every route.                                       *)
LEMMA EffectsAreTyped ==
    ASSUME KeyIInv, effects \subseteq [by : Requests, id : Nat], [KeyNext]_keyVars
    PROVE  effects' \subseteq [by : Requests, id : Nat]
<1>1. CASE effects' = effects
  BY <1>1, Zenon
<1>2. ASSUME NEW e \in Requests, Effect(e) PROVE effects' \subseteq [by : Requests, id : Nat]
  <2>1. req[e].id \in Nat
    BY Zenon DEF KeyIInv, KeyTypes, Fields
  <2> QED BY <1>2, <2>1 DEF Effect
<1>3. effects' = effects \/ \E e \in Requests : Effect(e)
  BY Zenon DEF KeyNext, Handle, ClaimInsert, ClaimConflict, ClaimLock, ExecuteBound, ExecuteFree,
     MiddlewareFinish, Crash, Start, Purge, keyVars
<1> QED BY <1>1, <1>2, <1>3, Zenon

(* A bound route takes effect at most once for a row of its key, whatever  *)
(* is retried, lost, crashed or purged in between (Claim and the business  *)
(* transactions that complete it).                                         *)
THEOREM AtMostOnceHolds == KeySpec => []AtMostOnce
<1> DEFINE Step == KeyNext /\ UNCHANGED route
<1>1. KeyInit => Decided /\ AtMostOnce
  BY Zenon DEF KeyInit, Decided, AtMostOnce
<1>2. ASSUME KeyIInv, Decided, AtMostOnce, [Step]_<<keyVars, route>>
      PROVE  (Decided /\ AtMostOnce)'
  <2>1. [KeyNext]_keyVars /\ route' = route
    BY <1>2, Zenon
  <2>2. CASE Bound
    BY <1>2, <2>1, <2>2, BoundNextKeeps, Zenon
  <2>3. CASE ~Bound
    <3>1. ~Bound'
      BY <2>1, <2>3, Zenon DEF Bound
    <3>2. AtMostOnce'
      BY <3>1, Zenon DEF AtMostOnce
    <3>3. effects' \subseteq [by : Requests, id : Nat]
      BY <1>2, <2>1, EffectsAreTyped, Zenon DEF Decided
    <3> QED BY <3>1, <3>2, <3>3, Zenon DEF Decided
  <2> QED BY <2>2, <2>3, Zenon
<1> QED BY <1>1, <1>2, ClaimsAreExclusive, PTL DEF KeySpec

-----------------------------------------------------------------------------
(* Replays.                                                                *)

Done(x) == \E f \in effects : f.by = x

\* Who took effect has been sent, who succeeded took effect, who goes on has no answer yet.
Acted ==
    \A x \in Requests :
        /\ Done(x) => req[x].pc # "new"
        /\ req[x].status = "ok" => Done(x)
        /\ req[x].pc # "done" => req[x].answer = None

\* All claims of a row ask for what the row was inserted for, and so does the request whose
\* response it holds.
OneHash ==
    row # None =>
        /\ \A x \in Requests : req[x].id = row.id => req[x].hash = row.hash
        /\ \A x \in Requests : row.response = x => Done(x) /\ req[x].hash = row.hash

Bounded ==
    /\ rows <= MaxRows /\ faults \in 0..MaxFaults /\ route \in {"bound", "free"}
    /\ effects \subseteq [by : Requests, id : 1..MaxRows]

Replayed == Bounded /\ Acted /\ OneHash /\ ReplayIsTheEffect

(* A step of a request: it takes effect only while it runs, succeeds only  *)
(* with an effect, and is answered with a stored response only when it     *)
(* asked for the same.  It leaves the row, completes or releases it,       *)
(* claims it, or inserts a new one.                                        *)
LEMMA RequestReplays ==
    ASSUME KeyIInv, Replayed, NEW e \in Requests, NEW r \in Fields,
           req' = [req EXCEPT ![e] = r], r.pc # "new",
           req[e].pc # "new" => r.hash = req[e].hash,
           effects' = effects \/ (Effect(e) /\ req[e].pc = "run"),
           r.status = "ok" => Done(e)',
           r.pc # "done" => r.answer = None,
           \/ r.answer \notin Requests
           \/ r.answer = req[e].answer /\ req[e].pc # "new"
           \/ row # None /\ r.answer = row.response /\ r.hash = row.hash,
           \/ UNCHANGED row /\ r.id = req[e].id
           \/ /\ row # None /\ row' # None /\ row'.id = row.id /\ row'.hash = row.hash
              /\ r.id = req[e].id \/ r.hash = row.hash
              /\ \/ row'.response \in {row.response, None}
                 \/ row'.response = e /\ req[e].id = row.id /\ req[e].pc # "new" /\ Done(e)'
           \/ /\ row' # None /\ row'.id > rows /\ row'.hash = r.hash /\ row'.response = None
    PROVE  Acted' /\ OneHash' /\ ReplayIsTheEffect'
<1>1. req'[e] = r /\ \A g \in Requests : g # e => req'[g] = req[g]
  BY Zenon DEF KeyIInv, KeyTypes
<1>2. \A x \in Requests : Done(x) => Done(x)' /\ req'[x].hash = req[x].hash /\ req'[x].pc # "new"
  <2>1. effects \subseteq effects'
    BY Zenon DEF Effect
  <2> QED BY <1>1, <2>1, Zenon DEF Done, Replayed, Acted
<1>3. \A x \in Requests : Done(x)' => Done(x) \/ x = e
  <2>1. effects' \subseteq effects \cup {[by |-> e, id |-> req[e].id]}
    BY Zenon DEF Effect
  <2> QED BY <2>1 DEF Done
<1>4. Acted'
  BY <1>1, <1>2, <1>3, Zenon DEF Replayed, Acted
<1>5. ReplayIsTheEffect'
  <2> SUFFICES ASSUME NEW g \in Requests, NEW x \in Requests, req'[g].answer = x
               PROVE  req'[x].hash = req'[g].hash /\ Done(x)'
    BY Zenon DEF ReplayIsTheEffect, Done
  <2>1. \A y, z \in Requests : req[y].answer = z => req[z].hash = req[y].hash /\ Done(z)
    BY Zenon DEF Replayed, ReplayIsTheEffect, Done
  <2>2. \A y \in Requests : row # None /\ row.response = y => Done(y) /\ req[y].hash = row.hash
    BY Zenon DEF Replayed, OneHash
  <2>3. CASE g # e
    BY <1>1, <1>2, <2>1, <2>3
  <2>4. CASE g = e
    BY <1>1, <1>2, <2>1, <2>2, <2>4
  <2> QED BY <2>3, <2>4, Zenon
<1>6. OneHash'
  <2> SUFFICES ASSUME row' # None
               PROVE  /\ \A x \in Requests : req'[x].id = row'.id => req'[x].hash = row'.hash
                      /\ \A x \in Requests : row'.response = x => Done(x)' /\ req'[x].hash = row'.hash
    BY Zenon DEF OneHash
  <2>1. \A x \in Requests : req[x].id \in Nat /\ req[x].id <= rows /\ (req[x].pc = "new" => req[x].id = 0)
    BY Zenon DEF KeyIInv, KeyTypes, Fields, Early
  <2>2. row # None => row.id = rows /\ rows # 0 /\ rows \in Nat
    BY DEF KeyIInv, KeyTypes, Rows
  <2>3. row # None =>
          /\ \A x \in Requests : req[x].id = row.id => req[x].hash = row.hash
          /\ \A x \in Requests : row.response = x => Done(x) /\ req[x].hash = row.hash
    BY Zenon DEF Replayed, OneHash
  <2>4. CASE UNCHANGED row /\ r.id = req[e].id
    BY <1>1, <1>2, <2>1, <2>2, <2>3, <2>4, SMTT(20)
  <2>5. CASE /\ row # None /\ row'.id = row.id /\ row'.hash = row.hash
             /\ r.id = req[e].id \/ r.hash = row.hash
             /\ \/ row'.response \in {row.response, None}
                \/ row'.response = e /\ req[e].id = row.id /\ req[e].pc # "new" /\ Done(e)'
    BY <1>1, <1>2, <2>1, <2>2, <2>3, <2>5, NoneIsNothing, SMTT(20)
  <2>6. CASE row'.id > rows /\ row'.hash = r.hash /\ row'.response = None
    <3>1. rows \in Nat
      BY SMTT(20) DEF KeyIInv, KeyTypes
    <3> QED BY <1>1, <2>1, <2>6, <3>1, NoneIsNothing
  <2> QED BY <2>4, <2>5, <2>6, Zenon
<1> QED BY <1>4, <1>5, <1>6, Zenon

(* The records of requests that are answered or get a claim.               *)
LEMMA FieldsChange ==
    ASSUME NEW f \in Fields
    PROVE  /\ \A a \in Answers :
                /\ [f EXCEPT !.pc = "done", !.answer = a] \in Fields
                /\ [f EXCEPT !.pc = "done", !.answer = a].answer = a
           /\ \A i, n \in Nat : [f EXCEPT !.pc = "run", !.id = i, !.gen = n] \in Fields
<1>1. ASSUME NEW a \in Answers
      PROVE  /\ [f EXCEPT !.pc = "done", !.answer = a] \in Fields
             /\ [f EXCEPT !.pc = "done", !.answer = a].answer = a
  BY Zenon DEF Fields, ClaimSteps
<1>2. ASSUME NEW i \in Nat, NEW n \in Nat
      PROVE  [f EXCEPT !.pc = "run", !.id = i, !.gen = n] \in Fields
  BY Zenon DEF Fields, ClaimSteps
<1> QED BY <1>1, <1>2, Zenon

(* Who takes effect is done.                                               *)
LEMMA EffectIsDone ==
    ASSUME NEW e \in Requests, Effect(e)
    PROVE  Done(e)'
<1>1. [by |-> e, id |-> req[e].id] \in effects'
  BY Zenon DEF Effect
<1>2. \E f \in effects' : f.by = e
  BY <1>1, Zenon
<1> QED BY <1>2, Zenon DEF Done

(* A request is answered, and may complete, release or insert the row.     *)
LEMMA AnsweredReplays ==
    ASSUME KeyIInv, Replayed, NEW e \in Requests, req[e].pc # "new", effects' = effects,
           NEW a \in Answers, Answered(e, a),
           a \notin Requests \/ (row # None /\ a = row.response /\ req[e].hash = row.hash),
           \/ row' = row
           \/ /\ row # None /\ row' # None /\ row'.id = row.id /\ row'.hash = row.hash
              /\ \/ row'.response \in {row.response, None}
                 \/ row'.response = e /\ req[e].id = row.id /\ Done(e)
           \/ row' # None /\ row'.id > rows /\ row'.hash = req[e].hash /\ row'.response = None
    PROVE  Acted' /\ OneHash' /\ ReplayIsTheEffect'
<1> DEFINE r == [req[e] EXCEPT !.pc = "done", !.answer = a]
<1>1. r \in Fields
  <2>1. req[e] \in Fields
    BY Zenon DEF KeyIInv, KeyTypes
  <2> QED BY <2>1, FieldsChange, Zenon
<1>2. r.id = req[e].id /\ r.pc = "done" /\ r.status = req[e].status
      /\ r.hash = req[e].hash /\ r.answer = a
  BY Zenon DEF KeyIInv, KeyTypes, Fields
<1>3. req' = [req EXCEPT ![e] = r]
  BY Zenon DEF Answered, KeyIInv, KeyTypes, Fields
<1>4. Done(e)' <=> Done(e)
  BY Zenon DEF Done
<1>5. r.status = "ok" => Done(e)'
  BY <1>2, <1>4, Zenon DEF Replayed, Acted
<1> HIDE DEF r
<1> QED BY <1>1, <1>2, <1>3, <1>4, <1>5, RequestReplays, Zenon

(* A claim is a claim of a row with the fingerprint of the request.        *)
LEMMA ClaimedReplays ==
    ASSUME KeyIInv, Replayed, NEW e \in Requests, req[e].pc \in {"insert", "lock"},
           effects' = effects, row' \in Rows, row'.hash = req[e].hash, Claimed(e, row'),
           \/ /\ row # None /\ row'.id = row.id /\ row'.hash = row.hash
              /\ row'.response = row.response
           \/ row'.id > rows /\ row'.response = None
    PROVE  Acted' /\ OneHash' /\ ReplayIsTheEffect'
<1>1. /\ req[e] \in Fields /\ req[e].status = None /\ req[e].answer = None
      /\ req[e].pc # "new" /\ row' # None
  BY NoneIsNothing, Zenon DEF KeyIInv, KeyTypes, Early, Replayed, Acted
<1>2. CASE req' = [req EXCEPT ![e].pc = "run", ![e].id = row'.id, ![e].gen = row'.gen]
  <2> DEFINE r == [req[e] EXCEPT !.pc = "run", !.id = row'.id, !.gen = row'.gen]
  <2>1. r \in Fields
    <3>1. row'.id \in Nat /\ row'.gen \in Nat
      BY DEF Rows
    <3> QED BY <1>1, <3>1, FieldsChange, Zenon
  <2>2. /\ r.pc = "run" /\ r.status = None /\ r.hash = req[e].hash /\ r.answer = None
    BY <1>1, Zenon DEF Fields
  <2>3. req' = [req EXCEPT ![e] = r]
    BY <1>2, Zenon DEF KeyIInv, KeyTypes, Fields
  <2>4. None # "ok" /\ None \notin Requests
    BY NoneIsNothing, Zenon
  <2> HIDE DEF r
  <2> QED BY <1>1, <2>1, <2>2, <2>3, <2>4, RequestReplays, Zenon
<1>3. CASE Answered(e, "error")
  <2>1. "error" \notin Requests /\ "error" \in Answers
    BY NoneIsNothing, Zenon DEF Answers
  <2> QED BY <1>1, <1>3, <2>1, AnsweredReplays, Zenon
<1> QED BY <1>2, <1>3, Zenon DEF Claimed

(* Claim of a new key.                                                     *)
LEMMA ClaimInsertReplays ==
    ASSUME KeyIInv, Replayed, NEW e \in Requests, ClaimInsert(e)
    PROVE  Acted' /\ OneHash' /\ ReplayIsTheEffect'
<1>1. rows \in Nat /\ rows < MaxRows /\ MaxRows \in Nat /\ req[e].hash \in Hashes
  BY RowsAreCounted, FaultsAreCounted, Zenon DEF KeyIInv, KeyTypes, ClaimInsert, Early
<1>2. row' \in Rows /\ row'.id > rows /\ row'.response = None /\ row'.hash = req[e].hash
  BY <1>1 DEF ClaimInsert, Rows, NextId
<1>3. Claimed(e, row') /\ req[e].pc = "insert" /\ effects' = effects
  BY Zenon DEF ClaimInsert
<1> QED BY <1>2, <1>3, ClaimedReplays, Zenon

(* Claim of a key that is there: the row is claimed, and its response      *)
(* replayed, only for what the row was inserted for.                       *)
LEMMA ClaimLockReplays ==
    ASSUME KeyIInv, Replayed, NEW e \in Requests, ClaimLock(e)
    PROVE  Acted' /\ OneHash' /\ ReplayIsTheEffect'
<1>1. req[e].pc = "lock" /\ effects' = effects
  BY Zenon DEF ClaimLock
<1>2. CASE UNCHANGED row /\ \E a \in {"error", "reuse", "busy"} : Answered(e, a)
  <2>1. PICK a \in {"error", "reuse", "busy"} : Answered(e, a)
    BY <1>2, Zenon
  <2>2. a \in Answers /\ a \notin Requests /\ req[e].pc # "new"
    BY <1>1, NoneIsNothing, Zenon DEF Answers
  <2> QED BY <1>1, <1>2, <2>1, <2>2, AnsweredReplays, Zenon
<1>3. CASE row # None /\ UNCHANGED row /\ SameRequest(e) /\ Answered(e, row.response)
  <2>1. row.response \in Answers
    BY <1>3, Zenon DEF KeyIInv, KeyTypes, Rows, Answers
  <2> QED BY <1>1, <1>3, <2>1, AnsweredReplays, Zenon DEF SameRequest
<1>4. CASE row # None /\ SameRequest(e) /\ Takeover(e)
  <2>1. row \in Rows /\ row.gen + 1 \in Nat
    BY <1>4 DEF KeyIInv, KeyTypes, Rows
  <2>2. row' = [row EXCEPT !.status = "in_flight", !.gen = row.gen + 1] /\ Claimed(e, row')
    BY <1>4, Zenon DEF Takeover
  <2>3. /\ row' \in Rows /\ row'.id = row.id /\ row'.hash = row.hash
        /\ row'.response = row.response
    BY <2>1, <2>2, Zenon DEF Rows
  <2> QED BY <1>1, <1>4, <2>2, <2>3, ClaimedReplays, Zenon DEF SameRequest
<1> QED BY <1>2, <1>3, <1>4, Zenon DEF ClaimLock

(* A handler that ran: it succeeds only with an effect, and completes the  *)
(* row of its own claim.                                                   *)
LEMMA ExecuteReplays ==
    ASSUME KeyIInv, Replayed, NEW e \in Requests, ExecuteBound(e) \/ ExecuteFree(e)
    PROVE  Acted' /\ OneHash' /\ ReplayIsTheEffect'
<1>1. req[e].pc = "run" /\ req[e] \in Fields /\ req[e].answer = None
  BY Zenon DEF ExecuteBound, ExecuteFree, KeyIInv, KeyTypes, Replayed, Acted
<1>2. Effect(e) => Done(e)'
  BY EffectIsDone, Zenon
<1>3. PICK status \in {"ok", "error"}, completed \in BOOLEAN :
         /\ Executed(e, status, completed)
         /\ effects' = effects \/ Effect(e)
         /\ status = "ok" => Effect(e)
         /\ \/ row' = row
            \/ HoldsClaim(e) /\ Effect(e) /\ \E replayable \in BOOLEAN : row' = Completed(e, replayable)
  BY Zenon DEF ExecuteBound, ExecuteFree
<1> DEFINE r == [req[e] EXCEPT !.pc = "finish", !.status = status, !.completed = completed]
<1>4. r \in Fields
  BY <1>1, Zenon DEF Fields, ClaimSteps
<1>5. /\ r.id = req[e].id /\ r.pc = "finish" /\ r.hash = req[e].hash /\ r.status = status
      /\ r.answer = None
  BY <1>1, Zenon DEF Fields
<1>6. req' = [req EXCEPT ![e] = r]
  BY <1>3, Zenon DEF Executed, KeyIInv, KeyTypes, Fields
<1>7. None \notin Requests
  BY NoneIsNothing, Zenon
<1> HIDE DEF r
<1>8. CASE row' = row
  BY <1>1, <1>2, <1>3, <1>4, <1>5, <1>6, <1>7, <1>8, RequestReplays, Zenon
<1>9. CASE row' # row
  <2>1. row # None /\ row \in Rows /\ req[e].id = row.id
    BY <1>3, <1>9, Zenon DEF HoldsClaim, KeyIInv, KeyTypes
  <2>2. row' \in Rows /\ row'.id = row.id /\ row'.hash = row.hash /\ row'.response = e
    BY <1>3, <1>9, <2>1, Zenon DEF Completed, Rows
  <2>3. row' # None
    BY <2>2, NoneIsNothing, Zenon
  <2> QED BY <1>1, <1>2, <1>3, <1>4, <1>5, <1>6, <1>7, <1>9, <2>1, <2>2, <2>3, RequestReplays, Zenon
<1> QED BY <1>8, <1>9, Zenon

(* The middleware stores the response of its own request, under its own    *)
(* claim.                                                                  *)
LEMMA MiddlewareFinishReplays ==
    ASSUME KeyIInv, Replayed, NEW e \in Requests, MiddlewareFinish(e)
    PROVE  Acted' /\ OneHash' /\ ReplayIsTheEffect'
<1>1. /\ req[e].pc # "new" /\ effects' = effects /\ Answered(e, req[e].status)
      /\ req[e].status \in {None, "ok", "error"}
  BY Zenon DEF MiddlewareFinish, KeyIInv, KeyTypes, Fields
<1>2. req[e].status \notin Requests /\ req[e].status \in Answers
  BY <1>1, NoneIsNothing, Zenon DEF Answers
<1>3. CASE row' = row
  BY <1>1, <1>2, <1>3, AnsweredReplays, Zenon
<1>4. CASE row' # row
  <2>1. /\ HoldsClaim(e)
        /\ \/ /\ req[e].status = "ok"
              /\ \E replayable \in BOOLEAN : row' = Completed(e, replayable)
           \/ row' = [row EXCEPT !.status = "failed", !.replayable = FALSE, !.response = None]
    BY <1>4, Zenon DEF MiddlewareFinish
  <2>2. row # None /\ row \in Rows /\ req[e].id = row.id
    BY <2>1, Zenon DEF HoldsClaim, KeyIInv, KeyTypes
  <2>3. req[e].status = "ok" => Done(e)
    BY Zenon DEF Replayed, Acted
  <2>4. /\ row' \in Rows /\ row'.id = row.id /\ row'.hash = row.hash
        /\ row'.response = None \/ (row'.response = e /\ Done(e))
    <3>1. CASE req[e].status = "ok" /\ \E replayable \in BOOLEAN : row' = Completed(e, replayable)
      BY <2>2, <2>3, <3>1, Zenon DEF Completed, Rows
    <3>2. CASE row' = [row EXCEPT !.status = "failed", !.replayable = FALSE, !.response = None]
      BY <2>2, <3>2, Zenon DEF Rows
    <3> QED BY <2>1, <3>1, <3>2, Zenon
  <2>5. row' # None
    BY <2>4, NoneIsNothing, Zenon
  <2> QED BY <1>1, <1>2, <2>2, <2>4, <2>5, AnsweredReplays, Zenon
<1> QED BY <1>3, <1>4, Zenon

(* Sending a request, meeting the key, and dying with it.                  *)
LEMMA OtherReplays ==
    ASSUME KeyIInv, Replayed, NEW e \in Requests,
           ClaimConflict(e) \/ Crash(e) \/ \E h \in Hashes : Start(e, h)
    PROVE  Acted' /\ OneHash' /\ ReplayIsTheEffect'
<1>1. UNCHANGED <<row, effects>> /\ req[e] \in Fields
  BY Zenon DEF ClaimConflict, Crash, Start, KeyIInv, KeyTypes
<1>2. /\ req[e].status = "ok" => Done(e)'
      /\ req[e].pc # "done" => req[e].answer = None
  BY <1>1, Zenon DEF Replayed, Acted, Done
<1>3. ASSUME NEW pc \in {"lock", "done"}, req' = [req EXCEPT ![e].pc = pc],
             req[e].pc \notin {"new", "done"}
      PROVE  Acted' /\ OneHash' /\ ReplayIsTheEffect'
  <2> DEFINE r == [req[e] EXCEPT !.pc = pc]
  <2>1. r \in Fields
    BY <1>1, Zenon DEF Fields, ClaimSteps
  <2>2. /\ r.pc = pc /\ r.id = req[e].id /\ r.hash = req[e].hash /\ r.status = req[e].status
        /\ r.answer = req[e].answer
    BY <1>1, Zenon DEF Fields
  <2>3. req' = [req EXCEPT ![e] = r]
    BY <1>3, Zenon DEF KeyIInv, KeyTypes, Fields
  <2>4. r.pc # "new" /\ req[e].pc # "new" /\ req[e].pc # "done"
    BY <1>3, <2>2, Zenon
  <2> HIDE DEF r
  <2> QED BY <1>1, <1>2, <2>1, <2>2, <2>3, <2>4, RequestReplays, Zenon
<1>4. ASSUME NEW h \in Hashes, Start(e, h)
      PROVE  Acted' /\ OneHash' /\ ReplayIsTheEffect'
  <2> DEFINE r == [req[e] EXCEPT !.pc = "insert", !.hash = h]
  <2>1. r \in Fields
    BY <1>1, Zenon DEF Fields, ClaimSteps
  <2>2. /\ r.pc = "insert" /\ r.id = req[e].id /\ r.status = req[e].status
        /\ r.answer = req[e].answer
    BY <1>1, Zenon DEF Fields
  <2>3. req' = [req EXCEPT ![e] = r] /\ req[e].pc = "new"
    BY <1>4, Zenon DEF Start, KeyIInv, KeyTypes, Fields
  <2>4. None \notin Requests
    BY NoneIsNothing, Zenon
  <2> HIDE DEF r
  <2> QED BY <1>1, <1>2, <2>1, <2>2, <2>3, <2>4, RequestReplays, Zenon
<1> QED BY <1>3, <1>4, Zenon DEF ClaimConflict, Crash

(* Ids, effects and faults stay within what was inserted and counted.      *)
LEMMA BoundsKeep ==
    ASSUME KeyIInv, Bounded, [KeyNext]_keyVars, route' = route
    PROVE  Bounded'
<1>1. rows \in Nat /\ MaxRows \in Nat /\ MaxFaults \in Nat
  BY RowsAreCounted, FaultsAreCounted, Zenon DEF KeyIInv, KeyTypes
<1>2. rows' = rows \/ (rows < MaxRows /\ rows' = rows + 1)
  BY Zenon DEF KeyNext, Handle, ClaimInsert, ClaimConflict, ClaimLock, ExecuteBound, ExecuteFree,
     MiddlewareFinish, Crash, Start, Purge, keyVars
<1>3. faults' = faults \/ (faults < MaxFaults /\ faults' = faults + 1)
  BY Zenon DEF KeyNext, Handle, ClaimInsert, ClaimConflict, ClaimLock, ExecuteBound, ExecuteFree,
     MiddlewareFinish, Crash, Start, Purge, keyVars, Claimed, Takeover, Fault
<1>4. effects' = effects \/ \E e \in Requests : Effect(e) /\ req[e].pc = "run"
  BY Zenon DEF KeyNext, Handle, ClaimInsert, ClaimConflict, ClaimLock, ExecuteBound, ExecuteFree,
     MiddlewareFinish, Crash, Start, Purge, keyVars
<1>5. \A e \in Requests : req[e].pc = "run" => req[e].id \in 1..MaxRows
  BY <1>1 DEF KeyIInv, KeyTypes, Fields, Early, Bounded
<1>6. effects' \subseteq [by : Requests, id : 1..MaxRows]
  BY <1>4, <1>5 DEF Effect, Bounded
<1> QED BY <1>1, <1>2, <1>3, <1>6 DEF Bounded

(* Every step keeps what replays rest on.                                  *)
LEMMA NextReplays ==
    ASSUME KeyIInv, Replayed, [KeyNext]_keyVars, route' = route
    PROVE  Replayed'
<1>1. Bounded'
  BY BoundsKeep, Zenon DEF Replayed
<1>2. ASSUME UNCHANGED <<req, effects>>, row' = row \/ row' = None
      PROVE  Acted' /\ OneHash' /\ ReplayIsTheEffect'
  BY <1>2, Zenon DEF Replayed, Acted, OneHash, ReplayIsTheEffect, Done
<1>3. Acted' /\ OneHash' /\ ReplayIsTheEffect'
  BY <1>2, ClaimInsertReplays, ClaimLockReplays, ExecuteReplays, MiddlewareFinishReplays,
     OtherReplays, Zenon DEF KeyNext, Handle, Purge, keyVars
<1> QED BY <1>1, <1>3, Zenon DEF Replayed

(* What holds of a key in every state, for any number of requests, rows    *)
(* and faults: one effect for a row on a bound route (Claim, finish), and  *)
(* only the response of an effect of the same request is replayed.         *)
THEOREM KeysAreSafe == KeySpec => []IdempotencyInv
<1>1. KeyInit => Replayed
  <2> SUFFICES ASSUME KeyInit PROVE Replayed
    BY Zenon
  <2>1. \A e \in Requests : req[e] = NewRequest
    BY Zenon DEF KeyInit
  <2>2. NewRequest.pc = "new" /\ NewRequest.status = None /\ NewRequest.answer = None
    BY Zenon DEF NewRequest
  <2>3. Bounded
    BY RowsAreCounted, FaultsAreCounted DEF KeyInit, Bounded
  <2>4. Acted /\ OneHash
    BY <2>1, <2>2, NoneIsNothing, Zenon DEF KeyInit, Acted, OneHash, Done
  <2>5. ReplayIsTheEffect
    BY <2>1, <2>2, NoneIsNothing, Zenon DEF ReplayIsTheEffect
  <2> QED BY <2>3, <2>4, <2>5, Zenon DEF Replayed
<1>2. KeyIInv /\ Replayed /\ [KeyNext /\ UNCHANGED route]_<<keyVars, route>> => Replayed'
  BY NextReplays, Zenon
<1>3. KeyIInv /\ Replayed /\ AtMostOnce => IdempotencyInv
  <2> SUFFICES ASSUME KeyIInv, Replayed PROVE KeyTypeOK
    BY Zenon DEF Replayed, IdempotencyInv
  <2>1. rows \in 0..MaxRows /\ \A e \in Requests : req[e].id \in 0..rows /\ req[e].gen \in Nat
    BY RowsAreCounted, FaultsAreCounted DEF KeyIInv, KeyTypes, Fields, Replayed, Bounded
  <2> QED BY <2>1, Zenon DEF KeyIInv, KeyTypes, Replayed, Bounded, KeyTypeOK
<1> QED BY <1>1, <1>2, <1>3, ClaimsAreExclusive, AtMostOnceHolds, PTL DEF KeySpec

-----------------------------------------------------------------------------
(***************************************************************************)
(* The way back from an upgrade, for any versions and jobs and wherever    *)
(* the helper or the machine stops.                                        *)
(*                                                                         *)
(* RollbackPossible alone is not inductive: it says nothing of the helper  *)
(* that is about to install, to give up or to remove its record.  WayBack  *)
(* adds what the helper knows at each of its steps: until it has saved the *)
(* record the installed binary is a settled one, from then on .prev is     *)
(* what the record names, and the record goes only after the installed     *)
(* binary is settled.                                                      *)
(***************************************************************************)

Files == Versions \cup {None}
JobIds == Nat \cup {None}
Commands == [job : Nat, version : Versions]
Jobs == [target : Versions, status : Statuses]
Stagings == [pc : {"none", "check", "download", "manifest", "request"}, job : JobIds, version : Files]

\* The steps of the helper: until the record is saved, while it stands for a job under way, while
\* the new binary is installed and not confirmed, and when a settled one is installed.
Before == {"copy", "unstage", "unrequest", "backup", "record"}
Working == {"rename", "installed", "mark", "unhealthy", "restart", "wait", "rollback", "restore", "again"}
Confirming == {"installed", "mark", "unhealthy", "restart", "wait"}
Leaving == {"rename", "again", "finish", "unmark", "forget", "done"}
Steps == {"idle"} \cup Before \cup Working \cup Leaving

Helpers ==
    [pc : Steps, job : JobIds, next : Files, manifest : Files, prev : Files,
     stage : {"none", "installing", "installed", "rolling_back"}, resumed : BOOLEAN,
     outcome : Reports \cup {None}, restart : BOOLEAN]

\* What the helper needs to know for its record at each step.
HelperKnows ==
    /\ helper \in Helpers
    /\ helper.pc \in {"backup", "record"} => helper.next \in Versions
    /\ helper.pc = "record" => helper.prev \in Versions /\ helper.stage = "installing"
    /\ helper.pc \in Working => helper.next \in Versions /\ helper.prev \in Versions
    /\ helper.pc \in Confirming => helper.stage = "installed"
    /\ helper.pc \in {"rollback", "restore", "again"} => helper.stage = "rolling_back" /\ helper.outcome # None

RecordTyped ==
    /\ record \in WorkRecords \cup {None}
    /\ record # None /\ record.stage = "rolling_back" => record.outcome # None

\* What the helper works on.
DiskTypes ==
    /\ bin \in Versions /\ prev \in Files
    /\ RecordTyped /\ HelperKnows
    /\ trusted \subseteq Versions /\ abandoned \subseteq Versions

\* What the agent stages.
StagingTypes ==
    /\ next \in Files /\ manifest \in Files /\ request \in JobIds
    /\ stage \in Stagings

\* What the panel gets to know.
PanelTypes ==
    /\ running \in Versions /\ seen \in Versions
    /\ result \in Reports \cup {None} /\ hello \in Reports \cup {None} /\ pending \in Reports \cup {None}
    /\ down \in Seq(Commands) /\ up \in Seq(Reports)
    /\ jobs \in Seq(Jobs)

Bounds == faults \in 0..MaxFaults /\ climate \in Climates

UpgradeTypes == DiskTypes /\ StagingTypes /\ PanelTypes /\ Bounds

Accounted == trusted \cup abandoned

\* What the helper knows of the installed binary at each step.
WayBack ==
    /\ record = None => bin \in Accounted
    /\ record # None => prev = record.prev /\ prev \in Accounted
    /\ helper.pc \in Before => record = None
    /\ helper.pc = "record" => helper.prev = bin /\ prev = bin
    /\ helper.pc \in Working => record # None /\ helper.prev = prev
    /\ helper.pc \in Leaving => bin \in Accounted
    /\ helper.pc \in Confirming => bin = helper.next

-----------------------------------------------------------------------------
(* The record the helper saves from "record" on is a record.               *)
LEMMA RecordIsTyped ==
    ASSUME HelperKnows, helper.pc = "record" \/ helper.pc \in Confirming \/ helper.pc = "rollback"
    PROVE  /\ Record(helper) \in WorkRecords /\ Record(helper) # None
           /\ Record(helper).stage = "rolling_back" => Record(helper).outcome # None
           /\ Record(helper).prev = helper.prev
BY NothingIsNone DEF HelperKnows, Helpers, Confirming, Working, WorkRecords, Record, JobIds, Files

(* finish, with or without an outcome.                                     *)
LEMMA FinishingStep ==
    ASSUME NEW h \in Helpers, NEW o \in Reports \cup {None}
    PROVE  /\ Finishing(h, o) \in Helpers /\ Finishing(h, o).pc = "finish"
           /\ Finishing(h, o).outcome = o /\ Finishing(h, o).next = h.next
BY Zenon DEF Finishing, Helpers, Steps, Leaving

(* A helper that fails has an outcome to write.                            *)
LEMMA FailingStep ==
    ASSUME NEW h \in Helpers
    PROVE  Failing(h) \in Helpers /\ Failing(h).pc = "finish" /\ Failing(h).outcome # None
<1>1. Outcome(h.job, "failed") \in Reports
  BY Zenon DEF Outcome, Reports, Helpers, JobIds
<1> QED BY <1>1, FinishingStep, NothingIsNone, Zenon DEF Failing

(* A helper that rolls back has an outcome to save, and goes on with what  *)
(* it knew.                                                                *)
LEMMA RollingBackStep ==
    ASSUME NEW h \in Helpers, NEW phase \in {"staged", "failed", "rolled_back"}, NEW restart \in BOOLEAN
    PROVE  /\ RollingBack(h, phase, restart) \in Helpers
           /\ RollingBack(h, phase, restart).pc = "rollback"
           /\ RollingBack(h, phase, restart).stage = "rolling_back"
           /\ RollingBack(h, phase, restart).outcome # None
           /\ RollingBack(h, phase, restart).next = h.next
           /\ RollingBack(h, phase, restart).prev = h.prev
<1>1. Outcome(h.job, phase) \in Reports
  BY Zenon DEF Outcome, Reports, Helpers, JobIds
<1>2. Outcome(h.job, phase) # None
  BY <1>1, NothingIsNone, Zenon
<1> QED BY <1>1, <1>2, Zenon DEF RollingBack, Helpers, Steps, Working

(* The helper moved on to a step.                                          *)
LEMMA AtStep ==
    ASSUME NEW h \in Helpers, NEW s \in Steps
    PROVE  /\ At(h, s) \in Helpers /\ At(h, s).pc = s /\ At(h, s).next = h.next /\ At(h, s).prev = h.prev
           /\ At(h, s).stage = h.stage /\ At(h, s).outcome = h.outcome
BY Zenon DEF At, Helpers

(* An idle helper claims nothing.                                          *)
LEMMA IdleKnowsNothing == Idle \in Helpers /\ Idle.pc = "idle"
BY Zenon DEF Idle, Helpers, Steps, JobIds, Files

-----------------------------------------------------------------------------
(* A step that leaves the files of root and the helper alone.              *)
LEMMA DiskAlone ==
    ASSUME DiskTypes, WayBack, UNCHANGED <<bin, prev, record, helper, trusted, abandoned>>
    PROVE  DiskTypes' /\ WayBack'
BY Zenon DEF DiskTypes, RecordTyped, HelperKnows, WayBack, Accounted

(* HelperStart: what the record says and what is installed decide.         *)
LEMMA StartKeepsWay ==
    ASSUME DiskTypes, WayBack, HelperStart
    PROVE  DiskTypes' /\ WayBack'
<1> USE DEF Before, Working, Confirming, Leaving
<1>1. UNCHANGED <<bin, prev, record, abandoned>> /\ trusted' = trusted \cup Confirmed(helper')
  BY Zenon DEF HelperStart
<1>2. CASE record = None
  <2>1. helper' = At(Idle, "copy")
    BY <1>2, Zenon DEF HelperStart
  <2>2. helper' \in Helpers /\ helper'.pc = "copy"
    BY <2>1, AtStep, IdleKnowsNothing, Zenon DEF Steps
  <2>3. trusted' = trusted
    BY <1>1, <2>2, Zenon DEF Confirmed
  <2>4. HelperKnows'
    BY <2>2, Zenon DEF HelperKnows
  <2> QED BY <1>1, <1>2, <2>2, <2>3, <2>4, Zenon DEF DiskTypes, RecordTyped, WayBack, Accounted
<1>3. CASE record # None
  <2> DEFINE h == Loaded(record)
  <2>1. record \in WorkRecords /\ prev = record.prev /\ prev \in Accounted
    BY <1>3, Zenon DEF DiskTypes, RecordTyped, WayBack
  <2>2. /\ h \in Helpers /\ h.next = record.target /\ h.prev = record.prev /\ h.stage = record.stage
        /\ h.outcome = record.outcome /\ h.pc = "idle" /\ h.job = record.job
    BY <2>1, Zenon DEF Loaded, Idle, Helpers, WorkRecords, Steps, Files, JobIds
  <2>3. h.next \in Versions /\ h.prev \in Versions /\ h.prev = prev
        /\ h.stage \in {"installing", "installed", "rolling_back"}
    BY <2>1, <2>2, Zenon DEF WorkRecords
  <2>4. \/ h.stage = "installing" /\ helper' = ResumeInstalling(h)
        \/ h.stage = "installed" /\ helper' = ResumeInstalled(h)
        \/ h.stage = "rolling_back" /\ helper' = RollingBack(h, h.outcome.phase, TRUE)
    BY <1>3, <2>3, Zenon DEF HelperStart
  <2> HIDE DEF h
  \* Where the helper goes on.
  <2>5. /\ helper' \in Helpers
        /\ \/ /\ helper'.pc = "installed" /\ helper'.stage = "installed" /\ bin = helper'.next
              /\ helper'.next = h.next /\ helper'.prev = h.prev
           \/ helper'.pc = "finish" /\ bin = h.prev /\ helper'.outcome # None
           \/ helper'.pc = "finish" /\ bin = helper'.next /\ helper'.outcome = None
           \/ /\ helper'.pc = "rollback" /\ helper'.stage = "rolling_back" /\ helper'.outcome # None
              /\ helper'.next = h.next /\ helper'.prev = h.prev
    <3>1. CASE h.stage = "installing" /\ helper' = ResumeInstalling(h)
      <4>1. CASE bin = h.next
        <5>1. helper' = [h EXCEPT !.pc = "installed", !.stage = "installed", !.restart = TRUE]
          BY <3>1, <4>1, Zenon DEF ResumeInstalling
        <5> QED BY <2>2, <4>1, <5>1, Zenon DEF Helpers, Steps
      <4>2. CASE bin # h.next /\ bin = h.prev
        <5>1. helper' = Failing(h)
          BY <3>1, <4>2, Zenon DEF ResumeInstalling
        <5> QED BY <2>2, <4>2, <5>1, FailingStep, Zenon
      <4>3. CASE bin # h.next /\ bin # h.prev
        <5>1. helper' = RollingBack(h, "failed", TRUE)
          BY <3>1, <4>3, Zenon DEF ResumeInstalling
        <5> QED BY <2>2, <4>3, <5>1, RollingBackStep, Zenon
      <4> QED BY <4>1, <4>2, <4>3, Zenon
    <3>2. CASE h.stage = "installed" /\ helper' = ResumeInstalled(h)
      <4>1. CASE bin # h.next
        <5>1. helper' = RollingBack(h, "failed", TRUE)
          BY <3>2, <4>1, Zenon DEF ResumeInstalled
        <5> QED BY <2>2, <5>1, RollingBackStep, Zenon
      <4>2. CASE bin = h.next /\ h.resumed /\ HealthyOK(h)
        <5>1. helper' = Finishing(h, None)
          BY <3>2, <4>2, Zenon DEF ResumeInstalled
        <5>2. /\ Finishing(h, None) \in Helpers /\ Finishing(h, None).pc = "finish"
              /\ Finishing(h, None).outcome = None /\ Finishing(h, None).next = h.next
          BY <2>2, FinishingStep, Zenon
        <5> QED BY <4>2, <5>1, <5>2, Zenon
      <4>3. CASE bin = h.next /\ h.resumed /\ ~HealthyOK(h)
        <5>1. helper' = RollingBack(h, "rolled_back", TRUE)
          BY <3>2, <4>3, Zenon DEF ResumeInstalled
        <5> QED BY <2>2, <5>1, RollingBackStep, Zenon
      <4>4. CASE bin = h.next /\ ~h.resumed
        <5>1. helper' = [h EXCEPT !.pc = "installed", !.resumed = TRUE, !.restart = TRUE]
          BY <3>2, <4>4, Zenon DEF ResumeInstalled
        <5> QED BY <2>2, <3>2, <4>4, <5>1, Zenon DEF Helpers, Steps
      <4> QED BY <4>1, <4>2, <4>3, <4>4, Zenon
    <3>3. CASE h.stage = "rolling_back" /\ helper' = RollingBack(h, h.outcome.phase, TRUE)
      <4>1. h.outcome \in Reports
        BY <1>3, <2>1, <2>2, <3>3, Zenon DEF DiskTypes, RecordTyped, WorkRecords
      <4>2. h.outcome.phase \in {"staged", "failed", "rolled_back"}
        BY <4>1, Zenon DEF Reports
      <4> QED BY <2>2, <3>3, <4>2, RollingBackStep, Zenon
    <3> QED BY <2>4, <3>1, <3>2, <3>3, Zenon
  <2>6. HelperKnows'
    BY <2>3, <2>5, Zenon DEF HelperKnows
  <2>7. trusted' \subseteq Versions
    BY <1>1, <2>5, Zenon DEF Confirmed, DiskTypes
  <2>8. helper'.pc = "finish" => bin \in trusted' \cup abandoned
    BY <1>1, <2>1, <2>3, <2>5, Zenon DEF Confirmed, Accounted
  <2>9. WayBack'
    BY <1>1, <1>3, <2>1, <2>3, <2>5, <2>8, Zenon DEF WayBack, Accounted
  <2> QED BY <1>1, <2>6, <2>7, <2>9, Zenon DEF DiskTypes, RecordTyped
<1> QED BY <1>2, <1>3, Zenon

(* take: nothing of root's files is touched yet.                           *)
LEMMA TakeKeepsWay ==
    ASSUME DiskTypes, StagingTypes, WayBack, TakeCopy \/ TakeUnstage \/ TakeRequest
    PROVE  DiskTypes' /\ WayBack'
<1> USE DEF Before, Working, Confirming, Leaving
<1>1. UNCHANGED <<bin, prev, record, trusted, abandoned>> /\ record = None /\ bin \in Accounted
  BY Zenon DEF TakeCopy, TakeUnstage, TakeRequest, WayBack
<1>2. helper \in Helpers
  BY Zenon DEF DiskTypes, HelperKnows
<1>3. /\ helper' \in Helpers
      /\ \/ helper'.pc \in {"unstage", "unrequest", "idle", "finish"}
         \/ helper'.pc = "backup" /\ helper'.next \in Versions
  <2>1. CASE TakeCopy
    <3>1. PICK job \in JobIds, version \in Files :
            helper' = [helper EXCEPT !.pc = "unstage", !.job = job, !.next = version, !.manifest = manifest]
      BY <2>1, Zenon DEF TakeCopy, StagingTypes, JobIds, Files
    <3> QED BY <1>2, <3>1, Zenon DEF StagingTypes, Helpers, Steps
  <2>2. CASE TakeUnstage
    BY <1>2, <2>2, AtStep, Zenon DEF TakeUnstage, Steps
  <2>3. CASE TakeRequest
    <3>1. \/ helper' = Idle
          \/ helper.next # None /\ helper' = At(helper, "backup")
          \/ helper' = Failing(helper)
      BY <2>3, Zenon DEF TakeRequest
    <3>2. /\ "backup" \in Steps
          /\ helper.next # None => helper.next \in Versions
      BY <1>2, Zenon DEF Steps, Helpers, Files
    <3> QED BY <1>2, <3>1, <3>2, AtStep, IdleKnowsNothing, FailingStep
  <2> QED BY <2>1, <2>2, <2>3, Zenon
<1>4. HelperKnows'
  BY <1>3, Zenon DEF HelperKnows
<1> QED BY <1>1, <1>3, <1>4, Zenon DEF DiskTypes, RecordTyped, WayBack, Accounted

(* install: the backup and the record before the new binary takes the      *)
(* name.  A rename that reports an error has not taken effect.             *)
LEMMA InstallKeepsWay ==
    ASSUME ~FsyncFails, DiskTypes, WayBack,
           InstallBackup \/ InstallRecord \/ InstallRename \/ SaveInstalled
    PROVE  DiskTypes' /\ WayBack'
<1> USE DEF Before, Working, Confirming, Leaving
<1>1. UNCHANGED <<trusted, abandoned>> /\ bin \in Versions /\ prev \in Files
  BY Zenon DEF DiskTypes, InstallBackup, InstallRecord, InstallRename, SaveInstalled
<1>2. HelperKnows /\ helper \in Helpers
  BY Zenon DEF DiskTypes, HelperKnows
<1>3. Failing(helper) \in Helpers /\ Failing(helper).pc = "finish"
  BY <1>2, FailingStep, Zenon
<1>4. CASE InstallBackup
  <2>1. UNCHANGED <<bin, record>> /\ record = None /\ bin \in Accounted /\ helper.next \in Versions
    BY <1>2, <1>4, Zenon DEF InstallBackup, WayBack, HelperKnows
  <2>2. prev' \in Files
    BY <1>1, <1>4, Zenon DEF InstallBackup, Files
  <2>3. CASE prev' = bin /\ helper' = [helper EXCEPT !.pc = "record", !.prev = bin, !.stage = "installing"]
    <3>1. /\ helper' \in Helpers /\ helper'.pc = "record" /\ helper'.prev = bin
          /\ helper'.stage = "installing" /\ helper'.next = helper.next
      BY <1>1, <1>2, <2>3, Zenon DEF Helpers, Steps, Files
    <3> QED BY <1>1, <2>1, <2>2, <2>3, <3>1, Zenon DEF DiskTypes, RecordTyped, HelperKnows, WayBack, Accounted
  <2>4. CASE helper' = Failing(helper)
    BY <1>1, <1>3, <2>1, <2>2, <2>4, Zenon DEF DiskTypes, RecordTyped, HelperKnows, WayBack, Accounted
  <2> QED BY <1>4, <2>3, <2>4, Zenon DEF InstallBackup
<1>5. CASE InstallRecord
  <2>1. UNCHANGED <<bin, prev>> /\ record = None /\ bin \in Accounted /\ helper.prev = bin /\ prev = bin
    BY <1>5, Zenon DEF InstallRecord, WayBack
  <2>2. helper.pc = "record" /\ helper.next \in Versions /\ helper.prev \in Versions
    BY <1>2, <1>5, Zenon DEF InstallRecord, HelperKnows
  <2>3. CASE record' = Record(helper) /\ helper' = At(helper, "rename")
    <3>1. /\ record' \in WorkRecords /\ record' # None /\ record'.prev = helper.prev
          /\ record'.stage = "rolling_back" => record'.outcome # None
      BY <1>2, <2>2, <2>3, RecordIsTyped, Zenon
    <3>2. helper' \in Helpers /\ helper'.pc = "rename" /\ helper'.next = helper.next /\ helper'.prev = helper.prev
      BY <1>2, <2>3, AtStep, Zenon DEF Steps
    <3>3. HelperKnows' /\ RecordTyped'
      BY <2>2, <3>1, <3>2, Zenon DEF HelperKnows, RecordTyped
    <3> QED BY <1>1, <2>1, <2>2, <3>1, <3>2, <3>3, Zenon DEF DiskTypes, WayBack, Accounted
  <2>4. CASE helper' = Failing(helper) /\ UNCHANGED record
    BY <1>1, <1>3, <2>1, <2>4, Zenon DEF DiskTypes, RecordTyped, HelperKnows, WayBack, Accounted
  <2> QED BY <1>5, <2>3, <2>4, Zenon DEF InstallRecord
<1>6. CASE InstallRename
  <2>1. UNCHANGED <<prev, record>> /\ record # None /\ bin \in Accounted /\ helper.prev = prev
    BY <1>6, Zenon DEF InstallRename, WayBack
  <2>2. helper.next \in Versions /\ helper.prev \in Versions
    BY <1>2, <1>6, Zenon DEF InstallRename, HelperKnows
  <2>3. CASE bin' = helper.next
              /\ helper' = [helper EXCEPT !.pc = "installed", !.stage = "installed", !.restart = FALSE]
    <3>1. /\ helper' \in Helpers /\ helper'.pc = "installed" /\ helper'.stage = "installed"
          /\ helper'.next = helper.next /\ helper'.prev = helper.prev
      BY <1>2, <2>3, Zenon DEF Helpers, Steps
    <3>2. HelperKnows'
      BY <2>2, <3>1, Zenon DEF HelperKnows
    <3> QED BY <1>1, <2>1, <2>2, <2>3, <3>1, <3>2, Zenon DEF DiskTypes, RecordTyped, WayBack, Accounted
  <2>4. CASE bin' = bin /\ helper' = Failing(helper)
    BY <1>1, <1>3, <2>1, <2>4, Zenon DEF DiskTypes, RecordTyped, HelperKnows, WayBack, Accounted
  <2> QED BY <1>6, <2>3, <2>4, Zenon DEF InstallRename
<1>7. CASE SaveInstalled
  <2>1. UNCHANGED <<bin, prev>> /\ helper.pc = "installed" /\ helper' = At(helper, "mark")
    BY <1>7, Zenon DEF SaveInstalled
  <2>2. /\ helper' \in Helpers /\ helper'.pc = "mark" /\ helper'.next = helper.next /\ helper'.prev = helper.prev
        /\ helper'.stage = helper.stage
    BY <1>2, <2>1, AtStep, Zenon DEF Steps
  <2>3. HelperKnows'
    BY <1>2, <2>1, <2>2, Zenon DEF HelperKnows
  <2>4. /\ record' # None /\ record'.prev = prev
        /\ RecordTyped'
    <3>1. CASE UNCHANGED record
      BY <2>1, <3>1, Zenon DEF WayBack, DiskTypes, RecordTyped
    <3>2. CASE record' = Record(helper)
      BY <1>2, <2>1, <3>2, RecordIsTyped, Zenon DEF WayBack, RecordTyped
    <3> QED BY <1>7, <3>1, <3>2, Zenon DEF SaveInstalled
  <2> QED BY <1>1, <2>1, <2>2, <2>3, <2>4, Zenon DEF DiskTypes, WayBack, Accounted
<1> QED BY <1>4, <1>5, <1>6, <1>7, Zenon

(* confirm: the new binary stays installed until the helper knows whether  *)
(* it reached the panel.                                                   *)
LEMMA ConfirmKeepsWay ==
    ASSUME DiskTypes, WayBack,
           ConfirmMark \/ ConfirmUnhealthy \/ ConfirmRestart \/ ConfirmWait
    PROVE  DiskTypes' /\ WayBack'
<1> USE DEF Before, Working, Confirming, Leaving
<1>1. /\ UNCHANGED <<bin, prev, record, abandoned>>
      /\ helper.pc \in {"mark", "unhealthy", "restart", "wait"}
  BY Zenon DEF ConfirmMark, ConfirmUnhealthy, ConfirmRestart, ConfirmWait
<1>2. /\ helper \in Helpers /\ helper.next \in Versions /\ helper.prev \in Versions
      /\ helper.stage = "installed"
  BY <1>1, Zenon DEF DiskTypes, HelperKnows
<1>3. /\ record # None /\ prev = record.prev /\ prev \in Accounted
      /\ helper.prev = prev /\ bin = helper.next
  BY <1>1, Zenon DEF WayBack
<1>4. /\ helper' \in Helpers
      /\ \/ /\ helper'.pc \in {"unhealthy", "restart", "wait"} /\ helper'.stage = "installed"
            /\ helper'.next = helper.next /\ helper'.prev = helper.prev
         \/ /\ helper'.pc = "rollback" /\ helper'.stage = "rolling_back" /\ helper'.outcome # None
            /\ helper'.next = helper.next /\ helper'.prev = helper.prev
         \/ helper'.pc = "finish" /\ helper'.outcome = None /\ helper'.next = helper.next
  <2>1. \/ \E s \in {"unhealthy", "restart", "wait"} : helper' = At(helper, s)
        \/ \E phase \in {"failed", "rolled_back"}, restart \in BOOLEAN : helper' = RollingBack(helper, phase, restart)
        \/ helper' = Finishing(helper, None)
    BY <1>2, Zenon DEF ConfirmMark, ConfirmUnhealthy, ConfirmRestart, ConfirmWait, Helpers
  <2>2. CASE \E s \in {"unhealthy", "restart", "wait"} : helper' = At(helper, s)
    BY <1>2, <2>2, AtStep DEF Steps
  <2>3. CASE \E phase \in {"failed", "rolled_back"}, restart \in BOOLEAN : helper' = RollingBack(helper, phase, restart)
    BY <1>2, <2>3, RollingBackStep
  <2>4. CASE helper' = Finishing(helper, None)
    BY <1>2, <2>4, FinishingStep, Zenon
  <2> QED BY <2>1, <2>2, <2>3, <2>4, Zenon
<1>5. trusted' = trusted \/ trusted' = trusted \cup Confirmed(helper')
  BY Zenon DEF ConfirmMark, ConfirmUnhealthy, ConfirmRestart, ConfirmWait
<1>6. /\ trusted \subseteq trusted' /\ trusted' \subseteq Versions
      /\ helper'.pc = "finish" => bin \in trusted'
  <2>1. helper'.pc = "finish" => trusted' = trusted \cup Confirmed(helper')
    <3>1. ConfirmWait => trusted' = trusted \cup Confirmed(helper')
      BY Zenon DEF ConfirmWait
    <3>2. ~ConfirmWait => helper'.pc # "finish"
      <4>1. ~ConfirmWait => \/ \E s \in {"unhealthy", "restart", "wait"} : helper' = At(helper, s)
                            \/ \E restart \in BOOLEAN : helper' = RollingBack(helper, "failed", restart)
        BY <1>2, Zenon DEF ConfirmMark, ConfirmUnhealthy, ConfirmRestart, Helpers
      <4> QED BY <1>2, <4>1, AtStep, RollingBackStep, SMTT(30) DEF Steps
    <3> QED BY <3>1, <3>2, Zenon
  <2>2. Confirmed(helper') \subseteq Versions
    BY <1>2, <1>4, Zenon DEF Confirmed
  <2>3. helper'.pc = "finish" => bin \in Confirmed(helper')
    BY <1>3, <1>4, Zenon DEF Confirmed
  <2> QED BY <1>5, <2>1, <2>2, <2>3, Zenon DEF DiskTypes
<1>7. HelperKnows'
  BY <1>2, <1>4, Zenon DEF HelperKnows
<1> QED BY <1>1, <1>2, <1>3, <1>4, <1>6, <1>7, Zenon DEF DiskTypes, RecordTyped, WayBack, Accounted

(* rollbackWith: .prev is what the record names, so it is put back, or the *)
(* failure is on the books.                                                *)
LEMMA RollbackKeepsWay ==
    ASSUME DiskTypes, WayBack, RollbackSave \/ RollbackRestore \/ RollbackRestart
    PROVE  DiskTypes' /\ WayBack'
<1> USE DEF Before, Working, Confirming, Leaving
<1>1. UNCHANGED <<prev, trusted>> /\ helper.pc \in {"rollback", "restore", "again"}
  BY Zenon DEF RollbackSave, RollbackRestore, RollbackRestart
<1>2. /\ HelperKnows /\ helper \in Helpers /\ helper.next \in Versions /\ helper.prev \in Versions
      /\ helper.stage = "rolling_back" /\ helper.outcome # None
  BY <1>1, Zenon DEF DiskTypes, HelperKnows
<1>3. record # None /\ prev = record.prev /\ prev \in Accounted /\ helper.prev = prev
  BY <1>1, Zenon DEF WayBack
<1>4. Failing(helper) \in Helpers /\ Failing(helper).pc = "finish"
  BY <1>2, FailingStep, Zenon
<1>5. Finishing(helper, helper.outcome) \in Helpers /\ Finishing(helper, helper.outcome).pc = "finish"
  <2>1. helper.outcome \in Reports \cup {None}
    BY <1>2, Zenon DEF Helpers
  <2> QED BY <1>2, <2>1, FinishingStep, Zenon
<1>6. \A s \in {"restore", "again"} :
        /\ At(helper, s) \in Helpers /\ At(helper, s).pc = s /\ At(helper, s).next = helper.next
        /\ At(helper, s).prev = helper.prev /\ At(helper, s).stage = helper.stage
        /\ At(helper, s).outcome = helper.outcome
  BY <1>2, AtStep, Zenon DEF Steps
<1>7. CASE RollbackSave
  <2>1. UNCHANGED <<bin, abandoned>> /\ helper.pc = "rollback" /\ helper' = At(helper, "restore")
    BY <1>7, Zenon DEF RollbackSave
  <2>2. HelperKnows'
    BY <1>2, <1>6, <2>1, Zenon DEF HelperKnows
  <2>3. record' # None /\ record'.prev = prev /\ RecordTyped'
    <3>1. CASE UNCHANGED record
      BY <1>3, <3>1, Zenon DEF DiskTypes, RecordTyped
    <3>2. CASE record' = Record(helper)
      BY <1>2, <1>3, <2>1, <3>2, RecordIsTyped, Zenon DEF RecordTyped
    <3> QED BY <1>7, <3>1, <3>2, Zenon DEF RollbackSave
  <2> QED BY <1>1, <1>3, <1>6, <2>1, <2>2, <2>3, Zenon DEF DiskTypes, WayBack, Accounted
<1>8. CASE RollbackRestore
  <2>1. UNCHANGED record
    BY <1>8, Zenon DEF RollbackRestore
  <2>2. CASE /\ bin' = helper.prev /\ UNCHANGED abandoned
             /\ helper' = At(helper, "again") \/ helper' = Finishing(helper, helper.outcome)
    <3>1. HelperKnows'
      BY <1>2, <1>5, <1>6, <2>2, Zenon DEF HelperKnows
    <3>2. bin' \in Accounted
      BY <1>3, <2>2, Zenon
    <3> QED BY <1>1, <1>2, <1>3, <1>5, <1>6, <2>1, <2>2, <3>1, <3>2, Zenon DEF DiskTypes, RecordTyped, WayBack, Accounted
  <2>3. CASE helper' = Failing(helper) /\ abandoned' = abandoned \cup {bin} /\ UNCHANGED bin
    BY <1>1, <1>3, <1>4, <2>1, <2>3, Zenon DEF DiskTypes, RecordTyped, HelperKnows, WayBack, Accounted
  <2> QED BY <1>8, <2>2, <2>3, Zenon DEF RollbackRestore
<1>9. CASE RollbackRestart
  <2>1. UNCHANGED <<bin, record, abandoned>> /\ bin \in Accounted
    BY <1>9, Zenon DEF RollbackRestart, WayBack
  <2>2. helper' \in Helpers /\ helper'.pc = "finish"
    BY <1>4, <1>5, <1>9, Zenon DEF RollbackRestart
  <2> QED BY <1>1, <1>3, <2>1, <2>2, Zenon DEF DiskTypes, RecordTyped, HelperKnows, WayBack, Accounted
<1> QED BY <1>7, <1>8, <1>9, Zenon

(* finish: the record goes last, and by then the installed binary is       *)
(* settled.                                                                *)
LEMMA FinishKeepsWay ==
    ASSUME DiskTypes, WayBack, HelperFinish
    PROVE  DiskTypes' /\ WayBack'
<1> USE DEF Before, Working, Confirming, Leaving
<1>1. /\ UNCHANGED <<bin, prev, trusted, abandoned>>
      /\ helper.pc \in {"finish", "unmark", "forget", "done"}
      /\ \/ \E s \in {"unmark", "forget", "done"} : helper' = At(helper, s) /\ UNCHANGED record
         \/ helper' = Idle /\ record' = None
  BY Zenon DEF HelperFinish, Finish
<1>2. helper \in Helpers /\ bin \in Accounted
  BY <1>1, Zenon DEF DiskTypes, HelperKnows, WayBack
<1>3. /\ helper' \in Helpers
      /\ \/ helper'.pc \in {"unmark", "forget", "done"} /\ UNCHANGED record
         \/ helper'.pc = "idle" /\ record' = None
  BY <1>1, <1>2, AtStep, IdleKnowsNothing DEF Steps
<1> QED BY <1>1, <1>2, <1>3, Zenon DEF DiskTypes, RecordTyped, HelperKnows, WayBack, Accounted

(* Killed or rebooted at any step: what is on disk is enough.              *)
LEMMA StoppedKeepsWay ==
    ASSUME DiskTypes, WayBack, Kill \/ Reboot
    PROVE  DiskTypes' /\ WayBack'
<1>1. UNCHANGED <<bin, prev, record, trusted, abandoned>> /\ helper' \in Helpers /\ helper'.pc = "idle"
  BY IdleKnowsNothing, Zenon DEF Kill, Reboot
<1> QED
  BY <1>1, Zenon DEF DiskTypes, RecordTyped, HelperKnows, WayBack, Accounted, Before, Working, Confirming, Leaving

-----------------------------------------------------------------------------
(* A function on the positions of a sequence is one.                       *)
LEMMA JobsAsFunction ==
    ASSUME NEW js
    PROVE  js \in Seq(Jobs) <=> \E n \in Nat : js \in [1..n -> Jobs]
<1>1. ASSUME js \in Seq(Jobs) PROVE \E n \in Nat : js \in [1..n -> Jobs]
  BY <1>1
<1>2. ASSUME NEW n \in Nat, js \in [1..n -> Jobs] PROVE js \in Seq(Jobs)
  BY <1>2
<1> QED BY <1>1, <1>2, Zenon

(* RecordUpgradeReport and succeedUpgradeBySHA only change statuses.       *)
LEMMA JobsStayJobs ==
    ASSUME NEW js \in Seq(Jobs), NEW r \in Reports \cup {None}, NEW v
    PROVE  RecordUpgradeReport(js, r) \in Seq(Jobs) /\ SucceedUpgradeBySHA(js, v) \in Seq(Jobs)
<1>1. PICK n \in Nat : js \in [1..n -> Jobs]
  BY JobsAsFunction, Zenon
<1>2. RecordUpgradeReport(js, r) \in [1..n -> Jobs]
  <2>1. CASE r = None
    BY <1>1, <2>1, Zenon DEF RecordUpgradeReport
  <2>2. CASE r # None /\ r.phase = "staged"
    <3>1. RecordUpgradeReport(js, r) = [js EXCEPT ![r.job].status = IF @ = "sent" THEN "staged" ELSE @]
      BY <2>2, Zenon DEF RecordUpgradeReport
    <3> QED BY <1>1, <3>1, ZenonT(60) DEF Jobs, Statuses
  <2>3. CASE r # None /\ r.phase # "staged"
    <3>1. RecordUpgradeReport(js, r) =
            [js EXCEPT ![r.job].status =
                IF @ \in {"sent", "staged", "succeeded", "timed_out"} THEN r.phase ELSE @]
      BY <2>3, Zenon DEF RecordUpgradeReport
    <3>2. r.phase \in Statuses
      BY <2>3, Zenon DEF Reports, Statuses
    <3> QED BY <1>1, <3>1, <3>2, ZenonT(60) DEF Jobs
  <2> QED BY <2>1, <2>2, <2>3, Zenon
<1>3. SucceedUpgradeBySHA(js, v) \in [1..n -> Jobs]
  BY <1>1, Zenon DEF SucceedUpgradeBySHA, Jobs, Statuses
<1> QED BY <1>2, <1>3, JobsAsFunction, Zenon

(* One more element of its kind.                                           *)
LEMMA OneMore ==
    ASSUME NEW S, NEW s \in Seq(S), NEW e \in S
    PROVE  Append(s, e) \in Seq(S) /\ <<e>> \in Seq(S)
OBVIOUS

(* A report goes out, or waits for the stream.                             *)
LEMMA ReportIsSent ==
    ASSUME PanelTypes, NEW r \in Reports, SendUpgradeReport(r)
    PROVE  up' \in Seq(Reports) /\ pending' \in Reports \cup {None}
<1>1. up \in Seq(Reports)
  BY Zenon DEF PanelTypes
<1>2. Append(up, r) \in Seq(Reports)
  BY <1>1, OneMore, Zenon
<1> QED BY <1>1, <1>2, Zenon DEF SendUpgradeReport

(* A main process that starts has nothing staged and no stream.            *)
LEMMA RestartedTypes ==
    ASSUME PanelTypes, StagingTypes, bin' \in Versions, Restarted,
           UNCHANGED <<next, manifest, request, result, jobs, seen>>
    PROVE  PanelTypes' /\ StagingTypes'
BY DEF PanelTypes, StagingTypes, Restarted, Disconnected, NoStage, Stagings, JobIds, Files

(* The agent and the panel.                                                *)
LEMMA MessagesAreTyped ==
    ASSUME DiskTypes, PanelTypes, StagingTypes,
           \/ \E v \in Versions : RequestUpgrade(v)
           \/ Panel \/ Hello \/ Agent \/ CrashLoop \/ Break
    PROVE  PanelTypes' /\ StagingTypes'
<1>1. CASE \E v \in Versions : RequestUpgrade(v)
  <2>1. PICK v \in Versions : RequestUpgrade(v)
    BY <1>1, Zenon
  <2>2. UNCHANGED <<fileVars, running, stream, hello, up, agentVars, seen>>
    BY <2>1, Zenon DEF RequestUpgrade
  <2>3. down' \in Seq(Commands)
    <3>1. [job |-> Len(jobs) + 1, version |-> v] \in Commands
      BY DEF Commands, PanelTypes
    <3>2. <<[job |-> Len(jobs) + 1, version |-> v]>> \in Seq(Commands)
      BY <3>1, OneMore, Zenon DEF PanelTypes
    <3> QED BY <2>1, <3>2, Zenon DEF RequestUpgrade, PanelTypes
  <2>4. jobs' \in Seq(Jobs)
    <3>1. \A st \in {"sent", "failed"} : [target |-> v, status |-> st] \in Jobs
      BY Zenon DEF Jobs, Statuses
    <3>2. jobs \in Seq(Jobs)
      BY Zenon DEF PanelTypes
    <3>3. \A st \in {"sent", "failed"} : Append(jobs, [target |-> v, status |-> st]) \in Seq(Jobs)
      BY <3>1, <3>2, OneMore, Zenon
    <3> QED BY <2>1, <3>3, Zenon DEF RequestUpgrade
  <2> QED BY <2>2, <2>3, <2>4, Zenon DEF PanelTypes, StagingTypes, fileVars, agentVars
<1>2. CASE HandleUpgradeReport
  <2>1. UNCHANGED <<fileVars, running, hello, down, agentVars, seen>>
    BY <1>2, Zenon DEF HandleUpgradeReport
  <2>2. up' \in Seq(Reports) /\ Head(up) \in Reports
    BY <1>2 DEF HandleUpgradeReport, PanelTypes
  <2>3. jobs' \in Seq(Jobs)
    BY <1>2, <2>2, JobsStayJobs, Zenon DEF HandleUpgradeReport, PanelTypes
  <2> QED BY <2>1, <2>2, <2>3, Zenon DEF PanelTypes, StagingTypes, fileVars, agentVars
<1>3. CASE WatchUpgrades
  <2>1. UNCHANGED <<fileVars, running, linkVars, agentVars, seen>>
    BY <1>3, Zenon DEF WatchUpgrades
  <2>2. PICK n \in Nat : jobs \in [1..n -> Jobs]
    BY JobsAsFunction, Zenon DEF PanelTypes
  <2>3. jobs' \in [1..n -> Jobs]
    BY <1>3, <2>2, Zenon DEF WatchUpgrades, Jobs, Statuses
  <2>4. jobs' \in Seq(Jobs)
    BY <2>3, JobsAsFunction, Zenon
  <2> QED BY <2>1, <2>4, Zenon DEF PanelTypes, StagingTypes, fileVars, agentVars, linkVars
<1>4. CASE Hello
  <2>1. UNCHANGED <<fileVars, running, down, up, agentVars>> /\ hello' = result /\ seen' = running
    BY <1>4, Zenon DEF Hello
  <2>2. jobs' \in Seq(Jobs)
    <3>1. RecordUpgradeReport(jobs, result) \in Seq(Jobs)
      BY JobsStayJobs, Zenon DEF PanelTypes
    <3>2. jobs' = SucceedUpgradeBySHA(RecordUpgradeReport(jobs, result), running)
      BY <1>4, Zenon DEF Hello
    <3> QED BY <3>1, <3>2, JobsStayJobs, Zenon DEF PanelTypes
  <2> QED BY <2>1, <2>2, Zenon DEF PanelTypes, StagingTypes, fileVars, agentVars
<1>5. CASE OnWelcomeUpgrade
  <2>1. UNCHANGED <<next, manifest, request, running, hello, down, stage, panelVars>> /\ pending' = None
    BY <1>5, Zenon DEF OnWelcomeUpgrade
  <2>2. result' \in Reports \cup {None} /\ up' \in Seq(Reports)
    BY <1>5 DEF OnWelcomeUpgrade, PanelTypes
  <2> QED BY <2>1, <2>2, Zenon DEF PanelTypes, StagingTypes, panelVars
<1>6. CASE OnUpgrade
  <2>1. UNCHANGED <<fileVars, running, hello, panelVars>> /\ down # <<>> /\ down' = Tail(down)
    BY <1>6, Zenon DEF OnUpgrade
  <2>2. Head(down) \in Commands /\ down' \in Seq(Commands)
    BY <2>1 DEF PanelTypes
  <2>3. CASE stage # NoStage
    <3>1. Outcome(Head(down).job, "failed") \in Reports
      BY <2>2, Zenon DEF Outcome, Reports, Commands
    <3>2. UNCHANGED stage /\ up' \in Seq(Reports) /\ pending' \in Reports \cup {None}
      BY <1>6, <2>3, <3>1, ReportIsSent, Zenon DEF OnUpgrade
    <3> QED BY <2>1, <2>2, <3>2, Zenon DEF PanelTypes, StagingTypes, fileVars, panelVars
  <2>4. CASE stage = NoStage
    <3>1. UNCHANGED <<up, pending>>
          /\ stage' = [pc |-> "check", job |-> Head(down).job, version |-> Head(down).version]
      BY <1>6, <2>4, Zenon DEF OnUpgrade
    <3>2. stage' \in Stagings
      BY <2>2, <3>1, Zenon DEF Stagings, Commands, JobIds, Files
    <3> QED BY <2>1, <2>2, <3>1, <3>2, Zenon DEF PanelTypes, StagingTypes, fileVars, panelVars
  <2> QED BY <2>3, <2>4, Zenon
<1>7. CASE StageCheck \/ StageNext \/ StageManifest \/ StageRequest
  <2>1. UNCHANGED <<result, running, hello, down, panelVars>>
    BY <1>7, Zenon DEF StageCheck, StageNext, StageManifest, StageRequest
  <2>2. \A phase \in {"staged", "failed"} : Outcome(stage.job, phase) \in Reports
    BY Zenon DEF Outcome, Reports, StagingTypes, Stagings, JobIds
  <2>3. ASSUME NEW phase \in {"staged", "failed"}, Staged(phase)
        PROVE  up' \in Seq(Reports) /\ pending' \in Reports \cup {None} /\ stage' \in Stagings
    BY <2>2, <2>3, ReportIsSent, Zenon DEF Staged, NoStage, Stagings, JobIds, Files
  <2>4. ASSUME NEW pc \in {"download", "manifest", "request"}, stage' = [stage EXCEPT !.pc = pc],
               UNCHANGED <<up, pending>>
        PROVE  up' \in Seq(Reports) /\ pending' \in Reports \cup {None} /\ stage' \in Stagings
    BY <2>4, Zenon DEF StagingTypes, PanelTypes, Stagings
  <2>5. /\ up' \in Seq(Reports) /\ pending' \in Reports \cup {None} /\ stage' \in Stagings
        /\ next' \in Files /\ manifest' \in Files /\ request' \in JobIds
    <3>1. stage.version \in Files /\ stage.job \in JobIds
      BY Zenon DEF StagingTypes, Stagings
    <3>2. next' \in Files /\ manifest' \in Files /\ request' \in JobIds
      BY <1>7, <3>1, Zenon DEF StageCheck, StageNext, StageManifest, StageRequest, StageFails, StagingTypes, Files
    <3>3. \/ \E phase \in {"staged", "failed"} : Staged(phase)
          \/ \E pc \in {"download", "manifest", "request"} :
                stage' = [stage EXCEPT !.pc = pc] /\ UNCHANGED <<up, pending>>
      BY <1>7, Zenon DEF StageCheck, StageNext, StageManifest, StageRequest, StageFails
    <3> QED BY <2>3, <2>4, <3>2, <3>3, Zenon
  <2> QED BY <2>1, <2>5, Zenon DEF PanelTypes, StagingTypes, panelVars
<1>8. CASE UpgradeHousekeeping
  <2>1. UNCHANGED <<next, manifest, request, running, hello, down, stage, panelVars>>
        /\ pending' = None /\ result' = None
    BY <1>8, Zenon DEF UpgradeHousekeeping
  <2>2. up' \in Seq(Reports)
    BY <1>8 DEF UpgradeHousekeeping, PanelTypes
  <2> QED BY <2>1, <2>2, Zenon DEF PanelTypes, StagingTypes, panelVars
<1>9. CASE CrashLoop
  BY <1>9, Zenon DEF CrashLoop, upgradeVars, fileVars, linkVars, agentVars, panelVars, PanelTypes, StagingTypes
<1>10. CASE Break
  BY <1>10 DEF Break, Disconnected, fileVars, agentVars, panelVars, PanelTypes, StagingTypes
<1> QED BY <1>1, <1>2, <1>3, <1>4, <1>5, <1>6, <1>7, <1>8, <1>9, <1>10, Zenon DEF Panel, Agent

(* The helper and the machine, as far as agent and panel see them.         *)
LEMMA RootKeepsMessages ==
    ASSUME DiskTypes, DiskTypes', PanelTypes, StagingTypes, Helper \/ Kill \/ Reboot
    PROVE  PanelTypes' /\ StagingTypes'
<1>1. CASE \/ HelperStart \/ TakeCopy \/ InstallBackup \/ InstallRecord \/ InstallRename \/ SaveInstalled
           \/ ConfirmWait \/ RollbackSave \/ RollbackRestore \/ Kill
  <2>1. UNCHANGED <<fileVars, running, linkVars, agentVars, panelVars>>
    BY <1>1, Zenon DEF HelperStart, TakeCopy, InstallBackup, InstallRecord, InstallRename, SaveInstalled,
                ConfirmWait, RollbackSave, RollbackRestore, Kill
  <2> QED BY <2>1, Zenon DEF fileVars, linkVars, agentVars, panelVars, PanelTypes, StagingTypes
<1>2. CASE TakeUnstage \/ TakeRequest \/ ConfirmMark \/ ConfirmUnhealthy
  <2>1. UNCHANGED <<result, running, linkVars, agentVars, panelVars>>
    BY <1>2, Zenon DEF TakeUnstage, TakeRequest, ConfirmMark, ConfirmUnhealthy
  <2>2. next' \in Files /\ manifest' \in Files /\ request' \in JobIds
    BY <1>2, Zenon DEF TakeUnstage, TakeRequest, ConfirmMark, ConfirmUnhealthy, StagingTypes, Files, JobIds
  <2> QED BY <2>1, <2>2, Zenon DEF linkVars, agentVars, panelVars, PanelTypes, StagingTypes
<1>3. CASE ConfirmRestart \/ RollbackRestart \/ Reboot
  <2>1. UNCHANGED <<fileVars, panelVars>>
    BY <1>3, Zenon DEF ConfirmRestart, RollbackRestart, Reboot
  <2>2. Restarted \/ UNCHANGED <<running, linkVars, agentVars>>
    BY <1>3, Zenon DEF ConfirmRestart, RollbackRestart, Reboot
  <2>3. CASE Restarted
    BY <2>1, <2>3, RestartedTypes, Zenon DEF DiskTypes, fileVars, panelVars
  <2>4. CASE UNCHANGED <<running, linkVars, agentVars>>
    BY <2>1, <2>4, Zenon DEF fileVars, linkVars, agentVars, panelVars, PanelTypes, StagingTypes
  <2> QED BY <2>2, <2>3, <2>4, Zenon
<1>4. CASE HelperFinish
  <2>1. UNCHANGED <<next, manifest, request, running, linkVars, agentVars, panelVars>>
    BY <1>4, Zenon DEF HelperFinish
  <2>2. result' \in Reports \cup {None}
    BY <1>4, Zenon DEF HelperFinish, Finish, PanelTypes, DiskTypes, HelperKnows, Helpers
  <2> QED BY <2>1, <2>2, Zenon DEF linkVars, agentVars, panelVars, PanelTypes, StagingTypes
<1> QED BY <1>1, <1>2, <1>3, <1>4, Zenon DEF Helper

(* Every fault is counted.                                                 *)
LEMMA FaultsAreBounded ==
    ASSUME Bounds, UpgradeNext, UNCHANGED climate
    PROVE  Bounds'
<1>1. UNCHANGED faults \/ Fault
  <2>1. CASE (\E v \in Versions : RequestUpgrade(v)) \/ Panel \/ Hello \/ CrashLoop \/ Break \/ Kill \/ Reboot
    BY <2>1, Zenon DEF Panel, RequestUpgrade, HandleUpgradeReport, WatchUpgrades, Hello, CrashLoop, upgradeVars, Break, Kill, Reboot
  <2>2. CASE Agent
    BY <2>2, Zenon DEF Agent, OnWelcomeUpgrade, OnUpgrade, StageCheck, StageNext, StageManifest, StageRequest, StageFails,
                UpgradeHousekeeping
  <2>3. CASE HelperStart \/ TakeCopy \/ TakeUnstage \/ TakeRequest \/ InstallBackup \/ InstallRecord
             \/ InstallRename \/ SaveInstalled
    BY <2>3, Zenon DEF HelperStart, TakeCopy, TakeUnstage, TakeRequest, InstallBackup, InstallRecord, InstallRename, SaveInstalled
  <2>4. CASE ConfirmMark \/ ConfirmUnhealthy \/ ConfirmRestart \/ ConfirmWait
             \/ RollbackSave \/ RollbackRestore \/ RollbackRestart \/ HelperFinish
    BY <2>4, Zenon DEF ConfirmMark, ConfirmUnhealthy, ConfirmRestart, ConfirmWait, RollbackSave, RollbackRestore,
                RollbackRestart, HelperFinish, Finish
  <2> QED BY <2>1, <2>2, <2>3, <2>4, Zenon DEF UpgradeNext, Helper
<1> QED BY <1>1, FaultsAreCounted DEF Bounds, Fault

(* Every step keeps the way back and the types.                            *)
LEMMA StepKeepsWayBack ==
    ASSUME ~FsyncFails, UpgradeTypes, WayBack, UpgradeNext, UNCHANGED climate
    PROVE  UpgradeTypes' /\ WayBack'
<1>1. DiskTypes' /\ WayBack'
  <2>1. CASE (\E v \in Versions : RequestUpgrade(v)) \/ Panel \/ Hello \/ CrashLoop \/ Break
    <3>1. UNCHANGED <<bin, prev, record, helper, trusted, abandoned>>
      BY <2>1, Zenon DEF RequestUpgrade, Panel, HandleUpgradeReport, WatchUpgrades, Hello, CrashLoop, Break, upgradeVars
    <3> QED BY <3>1, DiskAlone, Zenon DEF UpgradeTypes
  <2>2. CASE Agent
    <3>1. UNCHANGED <<bin, prev, record, helper, trusted, abandoned>>
      BY <2>2, Zenon DEF Agent, OnWelcomeUpgrade, OnUpgrade, StageCheck, StageNext, StageManifest, StageRequest,
                  UpgradeHousekeeping
    <3> QED BY <3>1, DiskAlone, Zenon DEF UpgradeTypes
  <2>3. CASE Helper \/ Kill \/ Reboot
    BY <2>3, StartKeepsWay, TakeKeepsWay, InstallKeepsWay, ConfirmKeepsWay, RollbackKeepsWay, FinishKeepsWay,
       StoppedKeepsWay, Zenon DEF UpgradeTypes, Helper
  <2> QED BY <2>1, <2>2, <2>3, Zenon DEF UpgradeNext
<1>2. PanelTypes' /\ StagingTypes'
  BY <1>1, MessagesAreTyped, RootKeepsMessages, Zenon DEF UpgradeTypes, UpgradeNext
<1>3. Bounds'
  BY FaultsAreBounded, Zenon DEF UpgradeTypes
<1> QED BY <1>1, <1>2, <1>3, Zenon DEF UpgradeTypes

(* The way back is never lost: as long as a rename that reports an error   *)
(* has not taken effect, the installed binary has been confirmed or there  *)
(* is a record that names a confirmed .prev, wherever the helper, the      *)
(* agent or the machine stops, for any versions, jobs and number of faults *)
(* (helper.go).                                                            *)
THEOREM WayBackIsKept ==
    ASSUME ~FsyncFails
    PROVE  UpgradeSpec => []UpgradeInv
<1>1. UpgradeInit => UpgradeTypes /\ WayBack
  <2> SUFFICES ASSUME UpgradeInit PROVE UpgradeTypes /\ WayBack
    BY Zenon
  <2>1. DiskTypes
    BY VersionsAreSerials, IdleKnowsNothing, Zenon
    DEF UpgradeInit, DiskTypes, RecordTyped, HelperKnows, Files, Before, Working, Confirming
  <2>2. StagingTypes
    BY Zenon DEF UpgradeInit, StagingTypes, NoStage, Stagings, Files, JobIds
  <2>3. PanelTypes
    BY VersionsAreSerials DEF UpgradeInit, PanelTypes
  <2>4. Bounds
    BY NothingIsNone, FaultsAreCounted DEF UpgradeInit, Bounds
  <2>5. WayBack
    BY IdleKnowsNothing, Zenon DEF UpgradeInit, WayBack, Accounted, Before, Working, Confirming, Leaving
  <2> QED BY <2>1, <2>2, <2>3, <2>4, <2>5, Zenon DEF UpgradeTypes
<1>2. UpgradeTypes /\ WayBack /\ [UpgradeNext /\ UNCHANGED climate]_<<upgradeVars, climate>> => (UpgradeTypes /\ WayBack)'
  <2> SUFFICES ASSUME UpgradeTypes, WayBack, [UpgradeNext /\ UNCHANGED climate]_<<upgradeVars, climate>>
               PROVE  UpgradeTypes' /\ WayBack'
    BY Zenon
  <2>1. CASE UpgradeNext /\ UNCHANGED climate
    BY <2>1, StepKeepsWayBack, Zenon
  <2>2. CASE UNCHANGED <<upgradeVars, climate>>
    <3>1. UNCHANGED <<bin, prev, record, helper, trusted, abandoned>>
      BY <2>2, Zenon DEF upgradeVars
    <3>2. StagingTypes' /\ PanelTypes' /\ Bounds'
      BY <2>2, Zenon DEF UpgradeTypes, StagingTypes, PanelTypes, Bounds, upgradeVars, fileVars, linkVars, agentVars, panelVars
    <3> QED BY <3>1, <3>2, DiskAlone, Zenon DEF UpgradeTypes
  <2> QED BY <2>1, <2>2, Zenon
<1>3. UpgradeTypes /\ WayBack => UpgradeInv
  <2> SUFFICES ASSUME UpgradeTypes, WayBack PROVE UpgradeInv
    BY Zenon
  <2>1. \A j \in DOMAIN jobs : jobs[j].target \in Versions /\ jobs[j].status \in Statuses
    <3>1. PICK n \in Nat : jobs \in [1..n -> Jobs]
      BY JobsAsFunction, Zenon DEF UpgradeTypes, PanelTypes
    <3> QED BY <3>1, Zenon DEF Jobs
  <2>2. /\ record # None => record.stage \in {"installing", "installed", "rolling_back"}
        /\ record # None /\ record.stage = "rolling_back" => record.outcome # None
    BY Zenon DEF UpgradeTypes, DiskTypes, RecordTyped, WorkRecords
  <2>3. {prev, next, manifest} \subseteq Versions \cup {None}
    BY Zenon DEF UpgradeTypes, DiskTypes, StagingTypes, Files
  <2>4. UpgradeTypeOK
    <3>1. {bin, running, seen} \subseteq Versions /\ trusted \cup abandoned \subseteq Versions
      BY Zenon DEF UpgradeTypes, DiskTypes, PanelTypes
    <3>2. faults \in 0..MaxFaults /\ climate \in Climates
      BY Zenon DEF UpgradeTypes, Bounds
    <3> QED BY <2>1, <2>2, <2>3, <3>1, <3>2, Zenon DEF UpgradeTypeOK
  <2>5. RollbackPossible
    BY Zenon DEF RollbackPossible, WayBack, Accounted
  <2> QED BY <2>4, <2>5, Zenon DEF UpgradeInv
<1> QED BY <1>1, <1>2, <1>3, PTL DEF UpgradeSpec
=============================================================================
