----------------------------- MODULE RosterReads -----------------------------
(***************************************************************************)
(* How the panel notices that rosters changed and gets the latest one to   *)
(* every session, with reads that overlap.                                 *)
(*                                                                         *)
(* A committed change advances an epoch in Redis and publishes a           *)
(* notification; a poller compares epochs in case the notification is      *)
(* lost.  Either marks the rosters dirty, and the round loop reads them    *)
(* for all sessions online.  A new stream waits for a batched read of its  *)
(* own.  Every read takes a number first, and a session drops results      *)
(* whose number is not larger than the last one it took.                   *)
(*                                                                         *)
(* The database is the count of committed changes, and a roster is the     *)
(* count it was read at.  What a session does with it is RosterSync.       *)
(***************************************************************************)
EXTENDS Integers, FiniteSets

CONSTANTS
    Servers,
    BumpFails,  \* whether advancing the epoch can fail while reading it works
    MaxReadChanges, \* bound: changes committed
    MaxReadFaults   \* bound: lost notifications, failed reads and broken streams together

ASSUME ReadBounds == MaxReadChanges \in Nat /\ MaxReadFaults \in Nat

VARIABLES
    committed,    \* changes committed
    bumps,    \* changes whose epoch advance has not run yet
    epoch,    \* node:users_epoch
    poll,     \* the poller: last epoch read, and whether that read worked
    marked,    \* Sessions.dirtyUsers
    seq,      \* Sessions.seq
    round,    \* the round at work
    batch,    \* the align batch at work
    online,  \* per server: state, what it waits for, and the last result it took
    readFaults

readVars == <<committed, bumps, epoch, poll, marked, seq, round, batch, online, readFaults>>

ReadFault == readFaults < MaxReadFaults /\ readFaults' = readFaults + 1

\* A read: for whom, its number, the changes committed when it took the number, and its result.
NoRead == [ids |-> {}, seq |-> 0, floor |-> 0, result |-> -1]

\* m.seq.Add(1), ahead of the read.
Number(ids) == [ids |-> ids, seq |-> seq + 1, floor |-> committed, result |-> -1]
Numbered(r) == r.ids # {} /\ r.result = -1
Complete(r) == r.result >= 0

NotOnline == [state |-> "none", since |-> 0, seq |-> 0, floor |-> 0, latest |-> -1]
Online == {s \in Servers : online[s].state # "none"}
Queued == {s \in Servers : online[s].state = "queued"}

Larger(a, b) == IF a >= b THEN a ELSE b

\* Mutant: the result that comes in last wins.
ApplyRostersLast(s, r) ==
    [s EXCEPT !.seq = r.seq, !.latest = r.result, !.floor = Larger(@, r.floor)]

\* applyRosters
ApplyRosters(s, r) ==
    IF r.seq <= s.seq
    THEN s
    ELSE [s EXCEPT !.seq = r.seq, !.latest = r.result, !.floor = Larger(@, r.floor)]

-----------------------------------------------------------------------------
Commit ==
    /\ committed < MaxReadChanges
    /\ committed' = committed + 1 /\ bumps' = bumps + 1
    /\ UNCHANGED <<epoch, poll, marked, seq, round, batch, online, readFaults>>

\* bump, after the commit: INCR and PUBLISH; markByPayload hears of it, or not.
Bump(heard) ==
    /\ bumps > 0 /\ bumps' = bumps - 1
    /\ epoch' = epoch + 1
    /\ IF heard THEN marked' = TRUE /\ UNCHANGED readFaults ELSE ReadFault /\ UNCHANGED marked
    /\ UNCHANGED <<committed, poll, seq, round, batch, online>>

\* bump when Redis refuses it: logged and forgotten.
BumpRefused ==
    /\ BumpFails /\ ReadFault
    /\ bumps > 0 /\ bumps' = bumps - 1
    /\ UNCHANGED <<committed, epoch, poll, marked, seq, round, batch, online>>

\* Mutant: the first read after a gap only remembers the epoch.
PollTrusts ==
    /\ marked' = (marked \/ (poll.known /\ epoch # poll.last))
    /\ poll' = [last |-> epoch, known |-> TRUE]
    /\ UNCHANGED <<committed, bumps, epoch, seq, round, batch, online, readFaults>>

\* poll
Poll ==
    /\ marked' = (marked \/ ~poll.known \/ epoch # poll.last)
    /\ poll' = [last |-> epoch, known |-> TRUE]
    /\ UNCHANGED <<committed, bumps, epoch, seq, round, batch, online, readFaults>>

\* poll when the epochs cannot be read: everything is compared, at most once per FullResync.
PollFails ==
    /\ ReadFault
    /\ marked' \in {marked, TRUE}
    /\ poll' = [poll EXCEPT !.known = FALSE]
    /\ UNCHANGED <<committed, bumps, epoch, seq, round, batch, online>>

\* rounds and round: take the mark, list the sessions online, take a number.
RoundStart ==
    /\ marked /\ round = NoRead
    /\ marked' = FALSE
    /\ IF Online = {} THEN UNCHANGED <<seq, round>> ELSE seq' = seq + 1 /\ round' = Number(Online)
    /\ UNCHANGED <<committed, bumps, epoch, poll, batch, online, readFaults>>

RoundRead ==
    /\ Numbered(round)
    /\ round' = [round EXCEPT !.result = committed]
    /\ UNCHANGED <<committed, bumps, epoch, poll, marked, seq, batch, online, readFaults>>

RoundFails ==
    /\ Numbered(round) /\ ReadFault
    /\ round' = NoRead /\ marked' = TRUE
    /\ UNCHANGED <<committed, bumps, epoch, poll, seq, batch, online>>

\* The result goes to whatever session each server has by now.
RoundApply ==
    /\ Complete(round)
    /\ online' = [s \in Servers |->
                     IF s \in round.ids \cap Online THEN ApplyRosters(online[s], round) ELSE online[s]]
    /\ round' = NoRead
    /\ UNCHANGED <<committed, bumps, epoch, poll, marked, seq, batch, readFaults>>

-----------------------------------------------------------------------------
\* OpenVerified registers the session, replacing an earlier one, and queues for a batch.
OpenSession(s) ==
    /\ online[s].state = "none"
    /\ online' = [online EXCEPT ![s] = [NotOnline EXCEPT !.state = "queued", !.since = committed]]
    /\ UNCHANGED <<committed, bumps, epoch, poll, marked, seq, round, batch, readFaults>>

\* alignLoop takes all requests queued by now; alignBatch takes its number.
BatchStart ==
    /\ batch = NoRead /\ Queued # {}
    /\ seq' = seq + 1 /\ batch' = Number(Queued)
    /\ online' = [s \in Servers |->
                     IF s \in Queued THEN [online[s] EXCEPT !.state = "batched"] ELSE online[s]]
    /\ UNCHANGED <<committed, bumps, epoch, poll, marked, round, readFaults>>

BatchRead ==
    /\ Numbered(batch)
    /\ batch' = [batch EXCEPT !.result = committed]
    /\ UNCHANGED <<committed, bumps, epoch, poll, marked, seq, round, online, readFaults>>

\* The batch fails or takes longer than AlignTimeout: its streams are closed.
BatchFails ==
    /\ Numbered(batch) /\ ReadFault
    /\ batch' = NoRead
    /\ online' = [s \in Servers |-> IF online[s].state = "batched" THEN NotOnline ELSE online[s]]
    /\ UNCHANGED <<committed, bumps, epoch, poll, marked, seq, round>>

\* Who gets the batch's result: the requests it was taken for that are still waiting.
Delivered == {s \in batch.ids : online[s].state = "batched"}

\* The result is delivered; OpenVerified offers it to the session and returns.
BatchDone ==
    /\ Complete(batch)
    /\ online' = [s \in Servers |->
                     IF s \in Delivered
                     THEN [ApplyRosters(online[s], batch) EXCEPT !.state = "open"]
                     ELSE online[s]]
    /\ batch' = NoRead
    /\ UNCHANGED <<committed, bumps, epoch, poll, marked, seq, round, readFaults>>

\* The stream ends, in whatever state.
Close(s) ==
    /\ online[s].state # "none" /\ ReadFault
    /\ online' = [online EXCEPT ![s] = NotOnline]
    /\ UNCHANGED <<committed, bumps, epoch, poll, marked, seq, round, batch>>

-----------------------------------------------------------------------------
ReadsInit ==
    /\ committed = 0 /\ bumps = 0 /\ epoch = 0 /\ marked = FALSE /\ seq = 0
    /\ poll = [last |-> 0, known |-> FALSE]
    /\ round = NoRead /\ batch = NoRead
    /\ online = [s \in Servers |-> NotOnline] /\ readFaults = 0

Round == RoundStart \/ RoundRead \/ RoundApply
Batch == BatchStart \/ BatchRead \/ BatchDone

ReadsNext ==
    \/ Commit \/ BumpRefused \/ Poll \/ PollFails
    \/ \E heard \in BOOLEAN : Bump(heard)
    \/ Round \/ RoundFails \/ Batch \/ BatchFails
    \/ \E s \in Servers : OpenSession(s) \/ Close(s)

ReadsSpec == ReadsInit /\ [][ReadsNext]_readVars

\* After-commit hooks, the poll ticker, the round loop and the align loop run; nodes reconnect.
ReadsFairness ==
    /\ WF_readVars(Bump(TRUE)) /\ WF_readVars(Poll) /\ WF_readVars(Round) /\ WF_readVars(Batch)
    /\ \A s \in Servers : WF_readVars(OpenSession(s))

ReadsFairSpec == ReadsSpec /\ ReadsFairness

-----------------------------------------------------------------------------
\* The type invariant: no read, session or epoch is ahead of the changes that were committed.
ReadsTypeOK ==
    /\ committed \in 0..MaxReadChanges /\ bumps \in 0..committed /\ epoch \in 0..committed
    /\ marked \in BOOLEAN /\ seq \in Nat /\ readFaults \in 0..MaxReadFaults
    /\ \A s \in Servers : /\ online[s].state \in {"none", "queued", "batched", "open"}
                          /\ online[s].seq \in 0..seq /\ online[s].latest \in -1..committed
    /\ {round.seq, batch.seq} \subseteq 0..seq

\* A stream opens with a roster that has every change committed before the stream was registered:
\* requests queue first and the batch takes its number after (session_align.go).
OpensUpToDate ==
    \A s \in Servers : online[s].state = "open" => online[s].latest >= online[s].since

\* Overlapping reads never take a session back: its roster has every change committed before the
\* newest number it accepted was taken, in whatever order results came in (session.go).
NeverBehindItsNumber ==
    \A s \in Servers : online[s].latest # -1 => online[s].latest >= online[s].floor

\* Every change reaches every session: through lost notifications, unreadable epochs, failed reads
\* and reconnects, in the end each session is open with the last roster.
SessionsCatchUp ==
    <>[](\A s \in Servers : online[s].state = "open" /\ online[s].latest = committed)

\* What holds of overlapping reads: a stream opens with every change committed before it was
\* registered, and no session goes back behind the newest number it accepted (session_align.go,
\* session.go).
ReadsInv ==
    /\ ReadsTypeOK
    /\ OpensUpToDate
    /\ NeverBehindItsNumber
=============================================================================
