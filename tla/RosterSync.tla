----------------------------- MODULE RosterSync -----------------------------
(***************************************************************************)
(* How a node's user roster travels from the panel's database to the proxy *)
(* kernel of one node, and stays the same in both.                         *)
(*                                                                         *)
(* The panel gives each stream a session that sends a full roster or a     *)
(* delta against what the node confirmed.  The agent mirrors its kernel's  *)
(* user table (known, userVersion), refuses deltas against another         *)
(* version, and reports its version in the Hello of the next stream.       *)
(* Streams break, kernel calls fail, inbounds get rebuilt and rolled back, *)
(* and both processes restart.  How the panel notices that a roster        *)
(* changed and numbers its reads is RosterReads; here a change is offered  *)
(* to the session in one later step.                                       *)
(*                                                                         *)
(* One server with one node that stays in service.  A roster's version is  *)
(* a digest of its content, so a roster is its own version.                *)
(***************************************************************************)
EXTENDS NodeLink, Integers, Sequences, FiniteSets

CONSTANTS
    Rosters,        \* the rosters the database can hold: sets of [uid, uuid, limit]
    UsersDeltaMax,  \* most changes a delta carries
    Midway,         \* whether a kernel call can fail after an earlier call of the same roster went through
    BadConfig,      \* whether a configuration after the first one can never be installed
    MaxChanges,     \* bound: roster changes committed
    QueueSize,      \* bound: messages a stream holds per direction
    EventBuffer     \* capacity of the channel from the session to the main loop

ASSUME RostersNameEachUidOnce ==
    /\ None \notin Rosters
    /\ \A r \in Rosters : \A u, v \in r : u.uid = v.uid => u = v

\* A credential is drawn for one subscription and never given to another.
ASSUME CredentialsAreOfOneUid ==
    \A r, s \in Rosters : \A u \in r, v \in s : u.uuid = v.uuid => u.uid = v.uid

ASSUME RosterBounds == MaxChanges \in Nat

RosterVersions == Rosters \cup {None}

VARIABLES
    truth,     \* the roster the database holds
    dirty,     \* a change the session has not been offered yet
    session,   \* the panel's Session with the node's rosterState
    events,    \* Session.events, read by the main loop
    connected, \* Server.connected
    node,      \* the agent's Node
    kernel,    \* users the node's inbound admits
    applied,   \* the roster version the next Hello reports (publishApplied)
    cache,     \* users.json: version and users, or None
    inherited, \* history: uids the agent served, had staged, cached or queued when the current stream began
    changes

databaseVars == <<truth, dirty>>
streamVars == <<stream, down, up, events>>
nodeVars == <<connected, node, kernel, applied, cache>>
rosterVars == <<databaseVars, session, streamVars, nodeVars, inherited, changes, faults>>

\* In the rough climate the main loop works on while the Hello of the next stream is under way, and a
\* lost inbound can come back with the previous configuration.

UidsOf(r) == {u.uid : u \in r}
UuidsOf(r) == {u.uuid : u \in r}

-----------------------------------------------------------------------------
\* The panel's rosterState, as functions from session to session.

NewSession(version) ==
    [state |-> "align", latestVersion |-> version, latest |-> None, sent |-> None,
     prevSent |-> None, removed |-> {}, confirmed |-> version, forceWanted |-> FALSE,
     forcePending |-> FALSE, forceGap |-> FALSE, item |-> None]

NoSession == [NewSession(None) EXCEPT !.state = "none"]

Upserted(from, to) == to \ from
RemovedUids(from, to) == UidsOf(from) \ UidsOf(to)

Full(r) == [kind |-> "full", to |-> r]
Delta(from, to) ==
    [kind |-> "delta", from |-> from, to |-> to,
     upserted |-> Upserted(from, to), removed |-> RemovedUids(from, to)]

\* rosterMessageLocked: a delta only from the roster the node confirmed and was last sent.
RosterMessage(s, r) ==
    LET size == Cardinality(Upserted(s.sent, r)) + Cardinality(RemovedUids(s.sent, r)) IN
    IF /\ s.sent # None
       /\ s.confirmed = s.sent
       /\ s.sent # r
       /\ size <= UsersDeltaMax
       /\ size < Cardinality(r)
    THEN Delta(s.sent, r)
    ELSE Full(r)

\* offerRosterLocked
OfferRoster(s, r) ==
    LET newer == [s EXCEPT !.latestVersion = r, !.latest = r]
        msg == RosterMessage(s, r)
    IN  CASE s.latestVersion = r /\ s.latest # None -> s
          [] s.latestVersion = r /\ s.latest = None ->
                [s EXCEPT !.latest = r, !.sent = IF @ = None /\ s.confirmed = r THEN r ELSE @]
          [] s.latestVersion # r /\ s.sent = r /\ s.confirmed = r -> [newer EXCEPT !.item = None]
          [] OTHER -> [newer EXCEPT !.item = msg, !.forceWanted = @ /\ msg.kind # "full"]

\* sendForcedFullLocked
SendForcedFull(s) ==
    [s EXCEPT !.forceWanted = FALSE, !.forceGap = TRUE, !.item = Full(s.latest)]

\* forceFullLocked: at once, or when the back-off since the last forced roster has run out.
ForceFull(s) ==
    CASE ~s.forceWanted \/ s.latest = None \/ s.forcePending -> {s}
      [] s.forceWanted /\ s.latest # None /\ ~s.forcePending ->
            {SendForcedFull(s)} \cup (IF s.forceGap THEN {[s EXCEPT !.forcePending = TRUE]} ELSE {})

\* Mutant: a failed acknowledgement only takes the confirmation back.
UsersAckedNoResend(s, ack) ==
    {[s EXCEPT !.confirmed = IF ack.ok THEN ack.version ELSE None]}

\* HandleUsersAck
UsersAcked(s, ack) ==
    IF ack.ok
    THEN {[s EXCEPT !.confirmed = ack.version, !.forceGap = FALSE, !.forceWanted = FALSE]}
    ELSE ForceFull([s EXCEPT !.confirmed = None, !.forceWanted = TRUE])

\* shiftSent and noteRemoved
ShiftSent(s, r) ==
    IF s.sent # None /\ s.sent # r
    THEN [s EXCEPT !.sent = r, !.prevSent = s.sent,
                   !.removed = (@ \cup UidsOf(s.sent)) \ UidsOf(r)]
    ELSE [s EXCEPT !.sent = r]

RosterHas(r, uid) == r # None /\ uid \in UidsOf(r)

\* Has: whether traffic of uid counts.
Has(uid) ==
    IF session.sent = None
    THEN RosterHas(session.latest, uid)
    ELSE RosterHas(session.sent, uid) \/ RosterHas(session.prevSent, uid) \/ uid \in session.removed

-----------------------------------------------------------------------------
\* The agent's node.

NewNode ==
    [known |-> {}, userVersion |-> None, staged |-> None, usersDirty |-> FALSE,
     pendingUsersAck |-> None, started |-> FALSE, activeConfig |-> FALSE, wanted |-> TRUE,
     offline |-> FALSE]

UsersAck(version, ok) == [version |-> version, ok |-> ok]

\* What the kernel's user table can be, and whether all calls went through, after DelUsers,
\* AddUsers and UpsertUsers.  Without Midway a failing batch fails before anything changed.
ApplyKernelUsers(removed, added, updated) ==
    LET deleted == {u \in kernel : u.uuid \notin removed}
        with(table, batch) == {u \in table : u.uuid \notin UuidsOf(batch)} \cup batch
        all == with(with(deleted, added), updated)
        midway == {deleted, with(deleted, added)}
    IN  {[ok |-> TRUE, table |-> all], [ok |-> FALSE, table |-> kernel]}
        \cup (IF Midway THEN {[ok |-> FALSE, table |-> t] : t \in midway} ELSE {})

\* Whether a table has u's uid with u's credential.
Holds(table, u) == \E v \in table : v.uid = u.uid /\ v.uuid = u.uuid

\* applyUsers compares by uid: another uuid is delete and add, another limit an update in place.
ApplyUsers(n, want) ==
    LET removed == {v \in n.known : ~Holds(want, v)}
        added == {u \in want : ~Holds(n.known, u)}
    IN  ApplyKernelUsers(UuidsOf(removed), added, want \ (added \cup n.known))

\* deltaTargets: the uids a delta is about; the ones it carries no record for lose their credential.
DeltaTargets(d) == UidsOf(d.upserted) \cup d.removed

\* Mutant: a new credential is added beside the old one.
ApplyUserDeltaKeepsOld(n, d) ==
    LET dropped == {v \in n.known : v.uid \in d.removed}
        added == {u \in d.upserted : ~Holds(n.known, u)}
    IN  ApplyKernelUsers(UuidsOf(dropped), added, d.upserted \ (added \cup n.known))

\* applyUserDelta
ApplyUserDelta(n, d) ==
    LET dropped == {v \in n.known : v.uid \in DeltaTargets(d) /\ ~Holds(d.upserted, v)}
        added == {u \in d.upserted : ~Holds(n.known, u)}
    IN  ApplyKernelUsers(UuidsOf(dropped), added, d.upserted \ (added \cup n.known))

DeltaResult(n, d) == {v \in n.known : v.uid \notin DeltaTargets(d)} \cup d.upserted

\* resetUserMirror
ResetUserMirror(n) ==
    [n EXCEPT !.known = {}, !.userVersion = None,
              !.pendingUsersAck = IF n.userVersion # None THEN UsersAck(n.userVersion, FALSE) ELSE @]

\* markInboundLost
MarkInboundLost(n) == [ResetUserMirror(n) EXCEPT !.started = FALSE]

\* prepareInstallUsers: what the kernel has, else what was staged, else (cold start) the cache.
PrepareInstallUsers(n, offline) ==
    CASE n.known # {} -> [users |-> n.known, version |-> n.userVersion, source |-> "known"]
      [] n.known = {} /\ n.staged # None -> [users |-> n.staged, version |-> n.staged, source |-> "staged"]
      [] n.known = {} /\ n.staged = None /\ offline /\ cache # None ->
            [users |-> cache.users, version |-> cache.version, source |-> "cache"]
      [] OTHER -> [users |-> {}, version |-> None, source |-> "none"]

\* adoptInstalledUsers: the inbound is up, with or without the roster it was given.
AdoptInstalledUsers(n, p, preloaded) ==
    LET reset == ResetUserMirror(n) IN
    IF preloaded
    THEN [n EXCEPT !.known = p.users, !.userVersion = p.version,
                   !.staged = IF p.source = "staged" THEN None ELSE @,
                   !.usersDirty = CASE p.source = "staged" -> TRUE [] p.source = "cache" -> FALSE [] OTHER -> @,
                   !.pendingUsersAck = IF p.source = "staged" THEN UsersAck(p.version, TRUE) ELSE @]
    ELSE [reset EXCEPT !.staged = None,
                       !.pendingUsersAck = IF @ = None /\ p.version # None THEN UsersAck(p.version, FALSE) ELSE @]

\* sendUsersAck and flushUsersAck: acknowledgements of a turn go out while connected, else they are dropped.
HasStream == stream = "live"
Sent(acks) == IF connected /\ HasStream THEN up \o acks ELSE up
Pending(n) == IF n.pendingUsersAck = None THEN <<>> ELSE <<n.pendingUsersAck>>
Flushed(n) == [n EXCEPT !.pendingUsersAck = None]

\* publishApplied
Applied(n) == IF n.started THEN n.userVersion ELSE None

\* A turn of the main loop that ends with flushUsersAck and publishApplied.
EndTurn(n, acks) ==
    /\ up' = Sent(acks \o Pending(n))
    /\ node' = Flushed(n)
    /\ applied' = Applied(n)

-----------------------------------------------------------------------------
\* The panel's side of the roster.

\* A transaction that changes the roster commits.
Change(r) ==
    /\ changes < MaxChanges /\ r # truth
    /\ truth' = r /\ dirty' = TRUE /\ changes' = changes + 1
    /\ UNCHANGED <<session, streamVars, nodeVars, inherited, faults>>

\* A round hands the roster to the session of the server, if there is one.
Recompute ==
    /\ dirty /\ dirty' = FALSE
    /\ session' = IF session.state = "none" THEN session ELSE OfferRoster(session, truth)
    /\ UNCHANGED <<truth, streamVars, nodeVars, inherited, changes, faults>>

-----------------------------------------------------------------------------
\* Streams.

\* The uids the agent can serve without hearing from the panel.
StagedUids == IF node.staged = None THEN {} ELSE UidsOf(node.staged)
HeldUids ==
    UidsOf(kernel) \cup StagedUids
                   \cup (IF cache = None THEN {} ELSE UidsOf(cache.users))
                   \cup UNION {UidsOf(events[i].to) : i \in {j \in DOMAIN events : events[j].kind \in {"full", "delta"}}}

\* runStream sends Hello with the published version; OpenVerified registers the session.
Connect ==
    /\ stream = "down" /\ (Rough \/ events = <<>>)
    /\ stream' = "hello"
    /\ inherited' = HeldUids
    /\ session' = NewSession(applied)
    /\ UNCHANGED <<databaseVars, down, up, events, nodeVars, changes, faults>>

\* OpenVerified: the aligning read is offered, and Welcome goes out ahead of the roster.
OpenVerified ==
    /\ session.state = "align"
    /\ session' = [OfferRoster(session, truth) EXCEPT !.state = "open"]
    /\ down' = Append(down, [kind |-> "welcome"])
    /\ UNCHANGED <<databaseVars, stream, up, events, nodeVars, inherited, changes, faults>>

\* The stream ends for both sides; Session.Run reports it if the stream had been welcomed.
EndStream ==
    /\ stream' = "down" /\ down' = <<>> /\ up' = <<>>
    /\ session' = NoSession
    /\ inherited' = {}

\* The network breaks the stream, the align read fails or takes too long, or a send queue overflows, or
\* the panel restarts.
BreakStream ==
    /\ stream # "down" /\ Fault
    /\ EndStream
    /\ events' = IF HasStream THEN Append(events, [kind |-> "disconnected"]) ELSE events
    /\ UNCHANGED <<databaseVars, nodeVars, changes>>

\* Next: the queued roster leaves; from here on it counts as sent.
SendNext ==
    /\ session.state = "open" /\ session.item # None /\ Len(down) < QueueSize
    /\ down' = Append(down, session.item)
    /\ session' = [ShiftSent(session, session.item.to) EXCEPT !.item = None]
    /\ UNCHANGED <<databaseVars, stream, up, events, nodeVars, inherited, changes, faults>>

\* The agent's session hands what it receives to the main loop.
Receive ==
    /\ stream # "down" /\ down # <<>> /\ Len(events) < EventBuffer
    /\ down' = Tail(down) /\ events' = Append(events, Head(down))
    /\ stream' = "live"
    /\ UNCHANGED <<databaseVars, session, up, nodeVars, inherited, changes, faults>>

HandleUsersAck ==
    /\ session.state = "open" /\ up # <<>>
    /\ up' = Tail(up)
    /\ session' \in UsersAcked(session, Head(up))
    /\ UNCHANGED <<databaseVars, stream, down, events, nodeVars, inherited, changes, faults>>

\* The back-off of forceFullLocked runs out.
ForceTimer ==
    /\ session.forcePending
    /\ session' = LET s == [session EXCEPT !.forcePending = FALSE] IN
                  IF s.forceWanted /\ s.latest # None THEN SendForcedFull(s) ELSE s
    /\ UNCHANGED <<databaseVars, streamVars, nodeVars, inherited, changes, faults>>

\* Removed uids age out of removedGrace; assumed longer than a roster takes to arrive, be applied where the
\* agent had staged it, and be reported on.
GraceRunsOut ==
    /\ session.removed # {}
    /\ \A i \in DOMAIN down : down[i].kind = "welcome"
    /\ \A i \in DOMAIN events : events[i].kind \in {"welcome", "disconnected"}
    /\ session.removed \cap (UidsOf(kernel) \cup StagedUids) = {}
    /\ session' = [session EXCEPT !.removed = {}]
    /\ UNCHANGED <<databaseVars, streamVars, nodeVars, inherited, changes, faults>>

-----------------------------------------------------------------------------
\* Turns of the agent's main loop.

\* In the calm climate nothing but the Welcome is worked on between the Hello of a stream and the
\* turn that handles its Welcome.
LoopRuns == Len(up) < QueueSize
Settled == LoopRuns /\ (Rough \/ stream = "down" \/ (stream = "live" /\ connected))

Event(kind) == LoopRuns /\ events # <<>> /\ Head(events).kind = kind /\ events' = Tail(events)

\* onWelcome
OnWelcome ==
    /\ Event("welcome")
    /\ connected' = TRUE
    /\ node' = [node EXCEPT !.offline = FALSE]
    /\ UNCHANGED <<databaseVars, session, stream, down, up, kernel, applied, cache, inherited, changes, faults>>

OnDisconnected ==
    /\ Event("disconnected")
    /\ connected' = FALSE
    /\ UNCHANGED <<databaseVars, session, stream, down, up, node, kernel, applied, cache, inherited, changes, faults>>

\* A failed kernel call counts as a fault.
Took(outcome) == IF outcome.ok THEN UNCHANGED faults ELSE Fault

\* onUsersFull
OnUsersFull ==
    /\ Event("full")
    /\ LET r == Head(events).to IN
       IF ~node.started
       THEN /\ node' = [node EXCEPT !.staged = r]
            /\ UNCHANGED <<up, kernel, applied, faults>>
       ELSE \E outcome \in ApplyUsers(node, r) :
            /\ Took(outcome)
            /\ kernel' = outcome.table
            /\ EndTurn(IF outcome.ok
                       THEN [node EXCEPT !.known = r, !.usersDirty = TRUE, !.userVersion = r, !.staged = None]
                       ELSE [node EXCEPT !.userVersion = None],
                       <<UsersAck(r, outcome.ok)>>)
    /\ UNCHANGED <<databaseVars, session, stream, down, connected, cache, inherited, changes>>

\* The guard of onUsersDelta.
AcceptsDelta(n, d) == n.started /\ n.userVersion # None /\ d.from = n.userVersion

\* onUsersDelta
OnUsersDelta ==
    /\ Event("delta")
    /\ LET d == Head(events) IN
       IF ~AcceptsDelta(node, d)
       THEN /\ up' = Sent(<<UsersAck(d.to, FALSE)>>)
            /\ UNCHANGED <<node, kernel, applied, faults>>
       ELSE \E outcome \in ApplyUserDelta(node, d) :
            /\ Took(outcome)
            /\ kernel' = outcome.table
            /\ EndTurn(IF outcome.ok
                       THEN [node EXCEPT !.known = DeltaResult(node, d), !.usersDirty = TRUE, !.userVersion = d.to]
                       ELSE [node EXCEPT !.userVersion = None],
                       <<UsersAck(d.to, outcome.ok)>>)
    /\ UNCHANGED <<databaseVars, session, stream, down, connected, cache, inherited, changes>>

\* A configuration arrives that is not the one in service.  A missing certificate, a digest that
\* does not match or unreadable routing leave it at that until a retry.
NewConfig ==
    /\ Settled /\ connected /\ Fault
    /\ ~node.wanted
    /\ node' = [node EXCEPT !.wanted = TRUE]
    /\ UNCHANGED <<databaseVars, session, streamVars, connected, kernel, applied, cache, inherited, changes>>

\* applyConfigOnce: the inbound comes up, with its roster loaded before it accepts.
Installed(n, preloaded) ==
    [AdoptInstalledUsers(n, PrepareInstallUsers(n, n.offline), preloaded)
        EXCEPT !.started = TRUE, !.activeConfig = TRUE, !.wanted = FALSE, !.offline = FALSE]

\* A first configuration comes from the panel or from disk.
Installable(n) ==
    /\ n.wanted /\ ~(BadConfig /\ n.activeConfig)
    /\ n.activeConfig \/ n.offline \/ connected

InstallConfig ==
    /\ Settled /\ Installable(node)
    /\ kernel' = PrepareInstallUsers(node, node.offline).users
    /\ EndTurn(Installed(node, TRUE), <<>>)
    /\ UNCHANGED <<databaseVars, session, stream, down, events, connected, cache, inherited, changes, faults>>

\* The same when the kernel takes the inbound and refuses its roster (UsersPreloadError).
InstallWithoutUsers ==
    /\ Settled /\ Installable(node) /\ Fault
    /\ PrepareInstallUsers(node, node.offline).users # {}
    /\ kernel' = {}
    /\ EndTurn(Installed(node, FALSE), <<>>)
    /\ UNCHANGED <<databaseVars, session, stream, down, events, connected, cache, inherited, changes>>

\* applyConfigOnce fails and the old inbound is in service again: never touched, brought back by
\* the kernel (PreviousPreserved), or installed anew; its users are added again.
InstallRolledBack ==
    /\ Settled /\ node.wanted /\ node.activeConfig /\ Fault
    /\ node.started \/ Rough
    /\ kernel' \in IF node.started THEN {kernel \cup node.known, node.known} ELSE {node.known}
    /\ EndTurn([node EXCEPT !.started = TRUE], <<>>)
    /\ UNCHANGED <<databaseVars, session, stream, down, events, connected, cache, inherited, changes>>

\* applyConfigOnce fails and so does going back.
InstallLost ==
    /\ Settled /\ node.wanted /\ node.started /\ Fault
    /\ kernel' = {}
    /\ EndTurn(MarkInboundLost(node), <<>>)
    /\ UNCHANGED <<databaseVars, session, stream, down, events, connected, cache, inherited, changes>>

\* flushUsersCache, on the report tick and on orderly exit.
FlushUsersCache ==
    /\ LoopRuns
    /\ IF node.usersDirty /\ node.started
       THEN /\ cache' = [version |-> node.userVersion, users |-> node.known]
            /\ node' = [node EXCEPT !.usersDirty = FALSE]
       ELSE UNCHANGED <<cache, node>>
    /\ UNCHANGED <<databaseVars, session, streamVars, connected, kernel, applied, inherited, changes, faults>>

\* The agent process ends and starts again: Start installs the cached configuration and roster
\* before the first stream, or leaves them to a retry.
AgentRestart ==
    LET fresh == [NewNode EXCEPT !.offline = TRUE]
        p == PrepareInstallUsers(fresh, TRUE)
    IN
    /\ Fault
    /\ EndStream
    /\ events' = <<>> /\ connected' = FALSE
    /\ \/ /\ node.activeConfig
          /\ node' = Installed(fresh, TRUE) /\ kernel' = p.users
       \/ /\ node.activeConfig /\ p.users # {}
          /\ node' = Installed(fresh, FALSE) /\ kernel' = {}
       \/ /\ node' = IF node.activeConfig THEN fresh ELSE NewNode
          /\ kernel' = {}
    /\ applied' = Applied(node')
    /\ UNCHANGED <<databaseVars, cache, changes>>

-----------------------------------------------------------------------------
RosterInit ==
    /\ truth \in Rosters /\ dirty = FALSE /\ session = NoSession
    /\ stream = "down" /\ down = <<>> /\ up = <<>> /\ events = <<>>
    /\ connected = FALSE /\ node = NewNode /\ kernel = {} /\ applied = None /\ cache = None
    /\ inherited = {} /\ changes = 0 /\ faults = 0 /\ climate \in Climates

HandleEvent == OnWelcome \/ OnDisconnected \/ OnUsersFull \/ OnUsersDelta

RosterNext ==
    \/ \E r \in Rosters : Change(r)
    \/ Recompute \/ Connect \/ OpenVerified \/ BreakStream
    \/ SendNext \/ Receive \/ HandleUsersAck \/ ForceTimer \/ GraceRunsOut
    \/ HandleEvent
    \/ NewConfig \/ InstallConfig \/ InstallWithoutUsers \/ InstallRolledBack \/ InstallLost
    \/ FlushUsersCache \/ AgentRestart

RosterSpec == RosterInit /\ [][RosterNext /\ UNCHANGED climate]_<<rosterVars, climate>>

\* Goroutines and timers of both processes get their turn, a stream that is down is dialled
\* again, and the housekeeping tick retries a configuration that would not install.
RosterFairness ==
    /\ WF_rosterVars(Recompute) /\ WF_rosterVars(Connect) /\ WF_rosterVars(OpenVerified)
    /\ WF_rosterVars(SendNext) /\ WF_rosterVars(Receive) /\ WF_rosterVars(HandleUsersAck) /\ WF_rosterVars(ForceTimer)
    /\ WF_rosterVars(HandleEvent) /\ WF_rosterVars(InstallConfig)

RosterFairSpec == RosterSpec /\ RosterFairness

-----------------------------------------------------------------------------
Message ==
    [kind : {"welcome", "disconnected"}] \cup [kind : {"full"}, to : Rosters]
        \cup {Delta(a, b) : a, b \in Rosters}

\* The type invariant: whatever is in a queue, confirmed or applied is a roster the panel built,
\* and the session keeps the latest roster or nothing (types of session, down, events and node).
RosterTypeOK ==
    /\ truth \in Rosters /\ dirty \in BOOLEAN /\ connected \in BOOLEAN
    /\ session.latest \in {None, session.latestVersion}
    /\ {session.latestVersion, session.sent, session.prevSent, session.confirmed} \subseteq RosterVersions
    /\ stream \in {"down", "hello", "live"}
    /\ \A i \in DOMAIN down : down[i] \in Message
    /\ \A i \in DOMAIN events : events[i] \in Message
    /\ {node.userVersion, node.staged, applied} \subseteq RosterVersions
    /\ faults \in 0..MaxFaults /\ changes \in 0..MaxChanges /\ climate \in Climates

\* The mirror tells the truth: whenever the agent says its kernel is at a version, the user table
\* is that roster to the credential, through deltas, failed calls, rebuilds, rollbacks and cold
\* starts.  Deltas and Hello both rest on it (users.go).
MirrorMatchesKernel ==
    node.started /\ node.userVersion # None => kernel = node.userVersion /\ node.known = kernel

\* Nobody drops out of billing while served: a user the kernel admits counts by Has, however fast
\* the rosters of this stream followed each other, unless the agent came to the stream with that
\* user (session_roster.go keeps sent, prevSent and removed for this).
BilledOrInherited ==
    session.state = "open" /\ node.started =>
        \A u \in kernel : Has(u.uid) \/ u.uid \in inherited

\* The same without the exception: whoever is served is billed.
BilledWhileServed ==
    session.state = "open" /\ node.started => \A u \in kernel : Has(u.uid)

\* In the calm climate, once changes and faults are over, the node serves the roster the database holds, whatever got
\* lost, failed, was rebuilt or restarted on the way.
Converges == climate = "calm" => <>[](node.started /\ kernel = truth)

\* What is left of it when a configuration can never be installed: in the end the node is stopped
\* or serves the roster the database holds.
ServesCurrentOrStopped == <>[](node.started => kernel = truth)

\* What holds of the two ends of a stream: the version the agent reports is what its kernel has,
\* and whoever is served is billed or came with the agent.
RosterInv ==
    /\ RosterTypeOK
    /\ MirrorMatchesKernel
    /\ BilledOrInherited
=============================================================================
