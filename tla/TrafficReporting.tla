-------------------------- MODULE TrafficReporting --------------------------
(***************************************************************************)
(* Traffic accounting from a node agent's kernel to the panel's books.     *)
(*                                                                         *)
(* The agent (pdnd) counts bytes per (node, uid) in its proxy kernel,      *)
(* collects them on a tick into an in-memory buffer, seals at most one     *)
(* report at a time and resends it verbatim until the panel acknowledges   *)
(* it.  The panel archives each (server, report id) once and, in the same  *)
(* transaction, charges the users and adds up the node's hour.  Streams    *)
(* break at any point, acknowledgements get lost, a superseded stream may  *)
(* still be worked off by the panel, and either process may die.           *)
(*                                                                         *)
(* One server is modelled.  Upload and download are one amount: nothing in *)
(* the code tells them apart except the two columns they are stored in.    *)
(***************************************************************************)
EXTENDS Integers, Sequences, FiniteSets, FiniteSetsExt, SequencesExt

CONSTANTS
    KeyOrder,       \* the (node, uid) pairs of this server, in the order reports sort them
    Rates,          \* <<num, den>>: the traffic rates a node can have when a report arrives
    MaxBuffered,    \* maxBufferedTrafficUsers
    MaxEntries,     \* maxTrafficEntriesPerReport
    MaxEntryBytes,  \* maxTrafficEntryBytes, above which the panel refuses an entry
    Owned,          \* the node sets the server can have when a report arrives
    Rosters,        \* the key sets that can be on the roster when a report arrives
    QueueSize,      \* messages a stream holds per direction; a send of the agent that finds it full cancels the stream
    EventBuffer,    \* capacity of the channel from the session to the main loop
    MaxBytes,       \* bound: bytes used in a behaviour, over all keys
    MaxBreaks,      \* bound: streams broken by the network
    MaxRestarts,    \* bound: agent processes that end, by crash or orderly
    Reconfigured,   \* whether nodes leave and join the server's configuration
    Revocable       \* whether the server's identity is revoked

Keys == Range(KeyOrder)
Nodes == {k[1] : k \in Keys}
Uids == {k[2] : k \in Keys}

Nothing == [k \in Keys |-> 0]
NoReport == [id |-> 0, entries |-> Nothing]

\* The keys that have an entry; the code never keeps an entry of zero bytes.
Listed(entries) == {k \in Keys : entries[k] > 0}

VARIABLES
    kernel,    \* bytes the proxy kernel counted and nobody has collected yet
    started,   \* nodes with a running inbound
    buffer,    \* trafficBuffer: pending, inflight, dropped (bytes by key)
    connected, \* Server.connected, what the main loop believes
    mode,      \* "running" or "stopping": Run, or Shutdown after it
    session,   \* Session: "idle", "live", "cancelled" (send queue was full) or "over"
    events,    \* Session.events, read by the main loop
    up,        \* reports in the current stream, agent to panel
    down,      \* report ids acknowledged in the current stream, panel to agent
    late,      \* reports of broken streams the panel may still be working off
    revoked,   \* the panel revoked this server's identity
    archive,   \* node_traffic_reports: entries by report id
    nodeHourly,\* node_traffic_hourly, bytes by node
    charged,   \* bytes charged to each uid's subscription
    refused,   \* bytes of archived entries that did not count, by key
    used,      \* history: bytes the kernel ever counted, by key
    lost,      \* history: bytes that went down with an agent process, by key
    nextId,    \* history: report ids drawn (uuid.NewString never repeats)
    breaks, restarts

agentVars == <<kernel, started, buffer, connected, mode>>
linkVars == <<session, events, up, down, late>>
panelVars == <<revoked, archive, nodeHourly, charged, refused>>
countVars == <<used, lost, nextId, breaks, restarts>>
vars == <<agentVars, linkVars, panelVars, countVars>>

Plus(f, g) == [k \in Keys |-> f[k] + g[k]]

\* node_traffic_reports rows are pruned by age; the model keeps every row, see Retention in the README.
Archived(id) == id \in DOMAIN archive

-----------------------------------------------------------------------------
\* The agent's buffer.

BufferSize(b) == Cardinality(Listed(b.pending)) + Cardinality(Listed(b.inflight.entries))

\* Mutant of DropInflight: the dropped bytes are not counted.
DropInflightUncounted(b) == [b EXCEPT !.inflight = NoReport]

DropInflight(b) ==
    [b EXCEPT !.dropped = Plus(@, b.inflight.entries), !.inflight = NoReport]

\* A new key finds the buffer full: the oldest sealed report goes, or else the new key's bytes.
AddKey(b, k, bytes) ==
    LET full == b.pending[k] = 0 /\ BufferSize(b) >= MaxBuffered
        room == IF full THEN DropInflight(b) ELSE b
    IN  CASE bytes = 0 -> b
          [] bytes > 0 /\ full /\ b.inflight = NoReport -> [b EXCEPT !.dropped[k] = @ + bytes]
          [] OTHER -> [room EXCEPT !.pending[k] = @ + bytes]

\* Add what the kernel handed out, in the order it listed the keys.
Add(b, traffic, order) ==
    FoldLeft(LAMBDA acc, k : AddKey(acc, k, traffic[k]), b, order)

\* Seal the first MaxEntries keys of what is pending, unless a report is under way.
Seal(b, id) ==
    LET sorted == SelectSeq(KeyOrder, LAMBDA k : b.pending[k] > 0)
        out == Range(SubSeq(sorted, 1, Min({Len(sorted), MaxEntries})))
    IN  IF b.inflight # NoReport \/ sorted = <<>> THEN b
        ELSE [b EXCEPT !.pending = [k \in Keys |-> IF k \in out THEN 0 ELSE @[k]],
                       !.inflight = [id |-> id,
                                     entries |-> [k \in Keys |-> IF k \in out THEN b.pending[k] ELSE 0]]]

HasStream == session \in {"live", "cancelled"}

\* Session.send: no stream, nothing sent; a full queue cancels the stream.
Send(report) ==
    /\ up' = IF HasStream /\ Len(up) < QueueSize THEN Append(up, report) ELSE up
    /\ session' = IF HasStream /\ Len(up) >= QueueSize THEN "cancelled" ELSE session

\* Mutant of FlushTraffic: a report under way is not sent again.
FlushTrafficOnce(b, isConnected) ==
    LET s == IF isConnected THEN Seal(b, nextId + 1) ELSE b
    IN  /\ buffer' = s
        /\ nextId' = IF s.inflight.id > nextId THEN s.inflight.id ELSE nextId
        /\ IF s.inflight # b.inflight THEN Send(s.inflight) ELSE UNCHANGED <<up, session>>

\* flushTraffic, from buffer b with the connection as the main loop sees it.
FlushTraffic(b, isConnected) ==
    LET s == IF isConnected THEN Seal(b, nextId + 1) ELSE b
    IN  /\ buffer' = s
        /\ nextId' = IF s.inflight.id > nextId THEN s.inflight.id ELSE nextId
        /\ IF isConnected /\ s.inflight # NoReport THEN Send(s.inflight)
           ELSE UNCHANGED <<up, session>>

\* The kernel hands out and zeroes the counters of the nodes in ns (GetTraffic, Drain).
Collected(ns) == [k \in Keys |-> IF k[1] \in ns THEN kernel[k] ELSE 0]

KernelAfter(ns) == [k \in Keys |-> IF k[1] \in ns THEN 0 ELSE kernel[k]]

-----------------------------------------------------------------------------
\* The agent's main loop.

\* A connection moves a byte (the kernel runs beside the main loop).
Use(k) ==
    /\ mode = "running"
    /\ k[1] \in started
    /\ MapThenSumSet(LAMBDA j : used[j], Keys) < MaxBytes
    /\ kernel' = [kernel EXCEPT ![k] = @ + 1]
    /\ used' = [used EXCEPT ![k] = @ + 1]
    /\ UNCHANGED <<started, buffer, connected, mode, linkVars, panelVars, lost, nextId, breaks, restarts>>

\* report(): collect every running inbound, then flush.  GetTraffic may fail for some.
Report(ok) ==
    /\ mode = "running"
    /\ kernel' = KernelAfter(ok)
    /\ \E order \in SetToSeqs(Listed(Collected(ok))) :
          FlushTraffic(Add(buffer, Collected(ok), order), connected)
    /\ UNCHANGED <<started, connected, mode, events, down, late, panelVars, used, lost, breaks, restarts>>

\* removeNode: the panel's configuration no longer has node n.
RemoveNode(n) ==
    /\ Reconfigured
    /\ mode = "running"
    /\ connected
    /\ n \in started
    /\ kernel' = KernelAfter({n})
    /\ started' = started \ {n}
    /\ \E order \in SetToSeqs(Listed(Collected({n}))) :
          buffer' = Add(buffer, Collected({n}), order)
    /\ UNCHANGED <<connected, mode, linkVars, panelVars, countVars>>

\* installNodeConfig for a node that is not running.
InstallNode(n) ==
    /\ mode = "running"
    /\ connected
    /\ n \notin started
    /\ started' = started \cup {n}
    /\ UNCHANGED <<kernel, buffer, connected, mode, linkVars, panelVars, countVars>>

\* Mutant of OnTrafficAck: any acknowledgement clears the report under way.
OnTrafficAckAnyId(id) ==
    LET cleared == [buffer EXCEPT !.inflight = NoReport]
    IN  IF Listed(cleared.pending) # {} THEN FlushTraffic(cleared, connected)
        ELSE buffer' = cleared /\ UNCHANGED <<up, session, nextId>>

\* onTrafficAck: the panel has booked the report under way; seal and send the next.
OnTrafficAck(id) ==
    LET cleared == [buffer EXCEPT !.inflight = NoReport]
    IN  IF buffer.inflight = NoReport \/ buffer.inflight.id # id
        THEN UNCHANGED <<buffer, up, session, nextId>>
        ELSE IF Listed(cleared.pending) # {} THEN FlushTraffic(cleared, connected)
        ELSE buffer' = cleared /\ UNCHANGED <<up, session, nextId>>

\* handleEvent in Run, and the event switch in Shutdown, which takes no node down.
HandleEvent ==
    /\ events # <<>>
    /\ mode = "stopping" => buffer.pending # Nothing \/ buffer.inflight # NoReport
    /\ events' = Tail(events)
    /\ LET ev == Head(events) IN
       \/ /\ ev.kind = "welcome"
          /\ connected' = TRUE
          /\ FlushTraffic(buffer, TRUE)
          /\ UNCHANGED <<kernel, started>>
       \/ /\ ev.kind = "ack"
          /\ OnTrafficAck(ev.id)
          /\ UNCHANGED <<kernel, started, connected>>
       \/ /\ ev.kind = "disconnected"
          /\ connected' = FALSE
          /\ UNCHANGED <<kernel, started, buffer, up, session, nextId>>
       \/ /\ ev.kind = "tombstone"
          /\ connected' = FALSE
          /\ LET ns == IF mode = "running" THEN started ELSE {} IN
             /\ kernel' = KernelAfter(ns)
             /\ started' = started \ ns
             /\ \E order \in SetToSeqs(Listed(Collected(ns))) :
                   buffer' = Add(buffer, Collected(ns), order)
          /\ UNCHANGED <<up, session, nextId>>
    /\ UNCHANGED <<mode, down, late, panelVars, used, lost, breaks, restarts>>

\* The process is told to stop: the kernel closes and hands out its last counters, Shutdown flushes them.
BeginShutdown ==
    /\ mode = "running"
    /\ restarts < MaxRestarts
    /\ mode' = "stopping"
    /\ kernel' = Nothing
    /\ \E order \in SetToSeqs(Listed(kernel)) : FlushTraffic(Add(buffer, kernel, order), connected)
    /\ UNCHANGED <<started, connected, events, down, late, panelVars, used, lost, breaks, restarts>>

\* What an agent process holds in memory goes with it; the next one starts from its cached nodes.
ProcessEnds ==
    /\ lost' = Plus(lost, Plus(kernel, Plus(buffer.pending,
                 IF Archived(buffer.inflight.id) THEN Nothing ELSE buffer.inflight.entries)))
    /\ kernel' = Nothing
    /\ buffer' = [pending |-> Nothing, inflight |-> NoReport, dropped |-> buffer.dropped]
    /\ connected' = FALSE
    /\ mode' = "running"
    /\ session' = "idle"
    /\ events' = <<>>
    /\ late' = late \cup Range(up)
    /\ up' = <<>>
    /\ down' = <<>>
    /\ restarts' = restarts + 1
    /\ UNCHANGED <<started, panelVars, used, nextId, breaks>>

\* Shutdown returns: the buffer is empty, or its ten seconds are over.
Exit == mode = "stopping" /\ ProcessEnds

\* The process dies.
Crash == mode = "running" /\ restarts < MaxRestarts /\ ProcessEnds

-----------------------------------------------------------------------------
\* The session goroutine: one stream after the other.

Emit(ev) ==
    /\ Len(events) < EventBuffer
    /\ events' = Append(events, ev)

\* runStream up to the Welcome: every stream starts empty.
Connect ==
    /\ session = "idle"
    /\ ~revoked
    /\ Emit([kind |-> "welcome", id |-> 0])
    /\ session' = "live"
    /\ UNCHANGED <<agentVars, up, down, late, panelVars, countVars>>

\* The stream ends (network, panel restart, full queue): unread acknowledgements are gone,
\* reports already with the panel may still be processed.
EndStream ==
    /\ HasStream
    /\ session = "live" => breaks < MaxBreaks
    /\ breaks' = IF session = "live" THEN breaks + 1 ELSE breaks
    /\ Emit([kind |-> "disconnected", id |-> 0])
    /\ session' = "idle"
    /\ late' = late \cup Range(up)
    /\ up' = <<>>
    /\ down' = <<>>
    /\ UNCHANGED <<agentVars, panelVars, used, lost, nextId, restarts>>

\* A TrafficAck arrives and is passed to the main loop.
ReceiveAck ==
    /\ HasStream
    /\ down # <<>>
    /\ Emit([kind |-> "ack", id |-> Head(down)])
    /\ down' = Tail(down)
    /\ UNCHANGED <<agentVars, session, up, late, panelVars, countVars>>

\* A Tombstone arrives on the stream, or the next stream is refused: the session never reconnects.
Tombstone ==
    /\ revoked
    /\ session # "over"
    /\ Emit([kind |-> "tombstone", id |-> 0])
    /\ session' = "over"
    /\ late' = late \cup Range(up)
    /\ up' = <<>>
    /\ down' = <<>>
    /\ UNCHANGED <<agentVars, panelVars, countVars>>

-----------------------------------------------------------------------------
\* The panel.

\* billedBytes: bytes times the node's rate, cut off towards zero.
BilledBytes(bytes, rate) == (bytes * rate[1]) \div rate[2]

\* tallyTraffic: the entries that count, given the nodes of this server.
Valid(entries, own) == {k \in Listed(entries) : k[1] \in own /\ entries[k] <= MaxEntryBytes}

\* IngestTraffic's transaction commits.  The roster decides who is charged and the node table which
\* entries count; both, and the rate of the hour, are read when the report arrives.
IngestTraffic(r) ==
    IF Archived(r.id)
    THEN UNCHANGED <<archive, nodeHourly, charged, refused>>  \* a replay, or ErrTrafficReportConflict
    ELSE \E own \in Owned, roster \in Rosters, rate \in [Nodes -> Rates] :
        LET valid == Valid(r.entries, own)
            billable(u) == {k \in valid \cap roster : k[2] = u}
        IN  /\ archive' = [id \in DOMAIN archive \cup {r.id} |->
                                IF id = r.id THEN r.entries ELSE archive[id]]
            /\ nodeHourly' = [n \in Nodes |-> nodeHourly[n] +
                                MapThenSumSet(LAMBDA k : r.entries[k], {k \in valid : k[1] = n})]
            /\ charged' = [u \in Uids |-> charged[u] +
                                MapThenSumSet(LAMBDA k : BilledBytes(r.entries[k], rate[k[1]]), billable(u))]
            /\ refused' = [k \in Keys |-> IF k \in valid THEN refused[k] ELSE refused[k] + r.entries[k]]

\* HandleTraffic on the current stream: booked and acknowledged.
HandleTraffic ==
    /\ HasStream
    /\ up # <<>>
    /\ Len(down) < QueueSize
    /\ up' = Tail(up)
    /\ IngestTraffic(Head(up))
    /\ down' = Append(down, Head(up).id)
    /\ UNCHANGED <<agentVars, session, events, late, revoked, countVars>>

\* HandleTraffic fails (the transaction rolled back three times): no acknowledgement.
HandleTrafficFails ==
    /\ HasStream
    /\ up # <<>>
    /\ up' = Tail(up)
    /\ UNCHANGED <<agentVars, session, events, down, late, panelVars, countVars>>

\* HandleTraffic on a stream the agent has given up: its acknowledgement goes nowhere.
HandleLateTraffic(r) ==
    /\ IngestTraffic(r)
    /\ UNCHANGED <<agentVars, linkVars, revoked, countVars>>

\* A report of a broken stream never reaches the panel.
LoseLate(r) ==
    /\ late' = late \ {r}
    /\ UNCHANGED <<agentVars, session, events, up, down, panelVars, countVars>>

\* The server is retired, deleted, or its identity revoked.
Revoke ==
    /\ Revocable
    /\ ~revoked
    /\ revoked' = TRUE
    /\ UNCHANGED <<agentVars, linkVars, archive, nodeHourly, charged, refused, countVars>>

-----------------------------------------------------------------------------
Init ==
    /\ kernel = Nothing
    /\ started = Nodes
    /\ buffer = [pending |-> Nothing, inflight |-> NoReport, dropped |-> Nothing]
    /\ connected = FALSE
    /\ mode = "running"
    /\ session = "idle"
    /\ events = <<>> /\ up = <<>> /\ down = <<>> /\ late = {}
    /\ revoked = FALSE
    /\ archive = <<>>
    /\ nodeHourly = [n \in Nodes |-> 0]
    /\ charged = [u \in Uids |-> 0]
    /\ refused = Nothing
    /\ used = Nothing /\ lost = Nothing
    /\ nextId = 0 /\ breaks = 0 /\ restarts = 0

Next ==
    \/ \E k \in Keys : Use(k)
    \/ \E ok \in SUBSET started : Report(ok)
    \/ \E n \in Nodes : RemoveNode(n) \/ InstallNode(n)
    \/ HandleEvent
    \/ BeginShutdown
    \/ Exit
    \/ Crash
    \/ Connect
    \/ EndStream
    \/ ReceiveAck
    \/ Tombstone
    \/ HandleTraffic
    \/ HandleTrafficFails
    \/ \E r \in late : HandleLateTraffic(r) \/ LoseLate(r)
    \/ Revoke

Spec == Init /\ [][Next]_vars

\* The push timer and the main loop always come round; the session reconnects until it is told not
\* to; Shutdown ends by its time limit.  A stream that keeps coming up delivers sooner or later in
\* both directions, and the panel's transaction does not fail for ever: the push interval is a
\* minute, a report takes milliseconds.
Fairness ==
    /\ WF_vars(Report(started))
    /\ WF_vars(HandleEvent)
    /\ WF_vars(Connect)
    /\ WF_vars(Tombstone)
    /\ WF_vars(session = "cancelled" /\ EndStream)
    /\ WF_vars(Exit)
    /\ SF_vars(HandleTraffic)
    /\ SF_vars(ReceiveAck)

FairSpec == Spec /\ Fairness

-----------------------------------------------------------------------------
Entries == [Keys -> 0 .. MaxBytes]
Reports == [id : 0 .. nextId, entries : Entries]

\* Type invariant; the buffer never holds more entries than its limit.
TypeOK ==
    /\ kernel \in Entries /\ used \in Entries /\ lost \in Entries /\ refused \in Entries
    /\ started \subseteq Nodes
    /\ buffer \in [pending : Entries, inflight : Reports, dropped : Entries]
    /\ connected \in BOOLEAN /\ revoked \in BOOLEAN
    /\ mode \in {"running", "stopping"}
    /\ session \in {"idle", "live", "cancelled", "over"}
    /\ up \in Seq(Reports) /\ late \subseteq Reports
    /\ DOMAIN archive \subseteq 1 .. nextId
    /\ \A id \in DOMAIN archive : archive[id] \in Entries

\* The bytes of node n in a function from keys.
OfNode(f, n) == MapThenSumSet(LAMBDA k : f[k], {k \in Keys : k[1] = n})

\* Bytes in the agent's hands that the panel has not booked.
Unbooked ==
    Plus(kernel, Plus(buffer.pending,
         IF Archived(buffer.inflight.id) THEN Nothing ELSE buffer.inflight.entries))

\* Bytes a late report can still bring to the books although the agent dropped or lost it.
StillUnderWay(n) ==
    LET rs == {r \in late \cup Range(up) : ~Archived(r.id) /\ r # buffer.inflight}
    IN  MapThenSumSet(LAMBDA r : OfNode(r.entries, n), rs)

\* No byte is booked twice: what a node's hours and the refusals add up to, with what the agent
\* still holds or a broken stream still carries, is never more than the kernel counted, whatever
\* is resent, superseded, restarted or dropped (resend under one report id, archived once).
AtMostOnce ==
    \A n \in Nodes :
        nodeHourly[n] + OfNode(refused, n) + OfNode(Unbooked, n) + StillUnderWay(n) <= OfNode(used, n)

\* Every byte is accounted for: what is neither booked, refused nor held was dropped by the full
\* buffer, which counts it, or went down with a process.
LossAccountedFor ==
    \A n \in Nodes :
        OfNode(used, n) <= nodeHourly[n] + OfNode(refused, n) + OfNode(Unbooked, n)
                                + OfNode(buffer.dropped, n) + OfNode(lost, n)

\* A report id stands for one content: what is under way under an archived id is what was archived,
\* so the panel's ErrTrafficReportConflict ("only a defect of the node agent") does not arise.
ResentVerbatim ==
    \A r \in late \cup Range(up) \cup {buffer.inflight} :
        Archived(r.id) => archive[r.id] = r.entries

\* inflight plus pending stay within maxBufferedTrafficUsers, whatever the outage.
BufferBounded == BufferSize(buffer) <= MaxBuffered

\* The agent lets go of a report only when the panel has it, unless the buffer overflows or the
\* process ends (onTrafficAck compares the id before it clears inflight).
ReleasedOnlyWhenBooked ==
    [][buffer.inflight # NoReport /\ buffer'.inflight # buffer.inflight
         => \/ Archived(buffer.inflight.id)
            \/ buffer'.dropped # buffer.dropped
            \/ restarts' # restarts]_vars

\* Nobody is charged more than the bytes of all their nodes at the dearest rate: truncation per
\* (node, uid) only ever rounds in the user's favour (billedBytes), and no report counts twice.
ChargedWithinUse ==
    \A u \in Uids : \E rate \in Rates :
        charged[u] * rate[2] <= rate[1] * MapThenSumSet(LAMBDA k : used[k], {k \in Keys : k[2] = u})

\* A user is charged only by the step that archives a new report, which is never undone.
ChargedWithArchive ==
    [][/\ (charged' # charged \/ nodeHourly' # nodeHourly) => DOMAIN archive' # DOMAIN archive
       /\ \A id \in DOMAIN archive : id \in DOMAIN archive' /\ archive'[id] = archive[id]]_vars

\* Every byte counted leaves the agent in the end, by an acknowledged report unless the identity
\* was revoked: nothing sits in the buffer for ever behind a lost acknowledgement.
EventuallyReported == <>[](revoked \/ (buffer.inflight = NoReport /\ buffer.pending = Nothing /\ kernel = Nothing))

\* What holds of a report on its way: every byte is booked at most once and none goes missing
\* unaccounted (report.go, traffic_ingest.go), a report id keeps its content, the buffer keeps its
\* bound and nobody is charged more than they used.
TrafficInv ==
    /\ TypeOK
    /\ AtMostOnce
    /\ LossAccountedFor
    /\ ResentVerbatim
    /\ BufferBounded
    /\ ChargedWithinUse

\* What no step may do: let go of a report the panel does not have, or charge without archiving.
TrafficSteps == ReleasedOnlyWhenBooked /\ ChargedWithArchive
=============================================================================
