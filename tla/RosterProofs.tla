---------------------------- MODULE RosterProofs ----------------------------
(***************************************************************************)
(* Proofs about the rosters on their way to a node: the agent's mirror of  *)
(* its kernel's user table, and the reads the panel's sessions start from. *)
(***************************************************************************)
EXTENDS RosterSync, RosterReads, TLAPS

-----------------------------------------------------------------------------
(***************************************************************************)
(* The agent's mirror of its kernel's user table, for any rosters and any  *)
(* number of changes, faults, rebuilds and restarts.                       *)
(*                                                                         *)
(* MirrorMatchesKernel is not inductive.  The next full roster is applied  *)
(* as the difference to `known`, so `known` has to be what the kernel has  *)
(* also while the version is unknown, after a failed call; and a rebuilt   *)
(* inbound is loaded from `known`, from a staged roster or from the cache, *)
(* so each of them has to be the roster its version names.                 *)
(***************************************************************************)

Tables == Rosters \cup {{}}
Uids == UNION {UidsOf(r) : r \in Rosters}
Acks == [version : RosterVersions, ok : BOOLEAN]

Offers == {m \in Message : m.kind \in {"full", "delta"}}

Sessions ==
    [state : {"none", "align", "open"}, latestVersion : RosterVersions, latest : RosterVersions, sent : RosterVersions,
     prevSent : RosterVersions, removed : SUBSET Uids, confirmed : RosterVersions,
     forceWanted : BOOLEAN, forcePending : BOOLEAN, forceGap : BOOLEAN, item : Offers \cup {None}]

Nodes ==
    [known : Tables, userVersion : RosterVersions, staged : RosterVersions, usersDirty : BOOLEAN,
     pendingUsersAck : Acks \cup {None}, started : BOOLEAN, activeConfig : BOOLEAN, wanted : BOOLEAN,
     offline : BOOLEAN]

Caches == [version : RosterVersions, users : Tables]

\* The session keeps the latest roster or nothing, and forgets nobody before it has sent something.
WellFormed(s) ==
    /\ s \in Sessions /\ s.latest \in {None, s.latestVersion}
    /\ s.sent = None => s.removed = {}

RosterTypes ==
    /\ truth \in Rosters /\ dirty \in BOOLEAN /\ connected \in BOOLEAN
    /\ WellFormed(session)
    /\ stream \in {"down", "hello", "live"}
    /\ down \in Seq(Message) /\ events \in Seq(Message) /\ up \in Seq(Acks)
    /\ node \in Nodes /\ applied \in RosterVersions /\ cache \in Caches \cup {None}
    /\ faults \in 0..MaxFaults /\ changes \in 0..MaxChanges /\ climate \in Climates

\* A version is the roster it names.
Named(users, version) == version # None => users = version

Mirror ==
    /\ kernel = node.known /\ Named(node.known, node.userVersion)
    /\ ~node.started => node.known = {} /\ node.userVersion = None
    /\ cache # None => Named(cache.users, cache.version)

\* There is a session while there is a stream, and what is in the stream goes with it.
Paired ==
    /\ session.state = "none" <=> stream = "down"
    /\ stream = "down" => down = <<>>
    /\ node.offline => ~node.started /\ ~node.activeConfig

\* Whom Has counts for what was sent in this stream, and whom the agent came with.
SentTo(s) == s.removed \cup (IF s.sent = None THEN {} ELSE UidsOf(s.sent))
Counted == inherited \cup SentTo(session)

Carries(m) == IF m.kind \in {"full", "delta"} THEN UidsOf(m.to) ELSE {}

\* Whatever the agent can come to serve in this stream counts.
Covered ==
    session.state # "none" =>
        /\ \A i \in DOMAIN down : Carries(down[i]) \subseteq Counted
        /\ \A i \in DOMAIN events : Carries(events[i]) \subseteq Counted
        /\ UidsOf(kernel) \cup StagedUids \subseteq Counted
        /\ node.offline /\ cache # None => UidsOf(cache.users) \subseteq inherited

RosterIInv == RosterTypes /\ Mirror /\ Paired /\ Covered

-----------------------------------------------------------------------------
(* The kernel's table.                                                     *)

(* Rosters, and the empty table, name a uid and a credential once.         *)
LEMMA TablesNameOnce ==
    ASSUME NEW K \in Tables, NEW R \in Tables
    PROVE  /\ \A u, v \in K : u.uid = v.uid => u = v
           /\ \A u \in K, v \in R : u.uuid = v.uuid => u.uid = v.uid
BY RostersNameEachUidOnce, CredentialsAreOfOneUid DEF Tables

(* What the kernel has after DelUsers, AddUsers and UpsertUsers when all   *)
(* went through, and that it has what it had when one did not.             *)
LEMMA KernelOutcome ==
    ASSUME ~Midway, NEW removed, NEW added, NEW updated,
           NEW outcome \in ApplyKernelUsers(removed, added, updated)
    PROVE  /\ outcome.ok \in BOOLEAN
           /\ ~outcome.ok => outcome.table = kernel
           /\ outcome.ok => outcome.table =
                 {u \in {v \in {w \in kernel : w.uuid \notin removed} : v.uuid \notin UuidsOf(added)} \cup added :
                     u.uuid \notin UuidsOf(updated)} \cup updated
<1> DEFINE deleted == {w \in kernel : w.uuid \notin removed}
           second == {v \in deleted : v.uuid \notin UuidsOf(added)} \cup added
           all == {u \in second : u.uuid \notin UuidsOf(updated)} \cup updated
<1>1. ApplyKernelUsers(removed, added, updated) = {[ok |-> TRUE, table |-> all], [ok |-> FALSE, table |-> kernel]}
  BY Zenon DEF ApplyKernelUsers
<1> HIDE DEF all
<1>2. outcome = [ok |-> TRUE, table |-> all] \/ outcome = [ok |-> FALSE, table |-> kernel]
  BY <1>1, Zenon
<1>3. CASE outcome = [ok |-> TRUE, table |-> all]
  <2>1. outcome.ok = TRUE /\ outcome.table = all
    BY <1>3, Zenon
  <2> QED BY <2>1, Zenon DEF all
<1>4. CASE outcome = [ok |-> FALSE, table |-> kernel]
  <2>1. outcome.ok = FALSE /\ outcome.table = kernel
    BY <1>4, Zenon
  <2> QED BY <2>1, Zenon
<1> QED BY <1>2, <1>3, <1>4, Zenon

(* applyUsers: the table becomes the roster, to the credential and the     *)
(* limit.                                                                  *)
LEMMA FullApplied ==
    ASSUME ~Midway, NEW n, n.known \in Tables, kernel = n.known, NEW want \in Rosters,
           NEW outcome \in ApplyUsers(n, want)
    PROVE  /\ outcome.ok \in BOOLEAN
           /\ outcome.table = IF outcome.ok THEN want ELSE kernel
<1> DEFINE K == n.known
           removed == {v \in K : ~Holds(want, v)}
           added == {u \in want : ~Holds(K, u)}
           updated == want \ (added \cup K)
           deleted == {w \in K : w.uuid \notin UuidsOf(removed)}
           second == {v \in deleted : v.uuid \notin UuidsOf(added)} \cup added
           all == {u \in second : u.uuid \notin UuidsOf(updated)} \cup updated
<1>0. want \in Tables
  BY Zenon DEF Tables
<1>1. outcome \in ApplyKernelUsers(UuidsOf(removed), added, updated)
  BY Zenon DEF ApplyUsers
<1>2. /\ outcome.ok \in BOOLEAN
      /\ ~outcome.ok => outcome.table = kernel
      /\ outcome.ok => outcome.table = all
  <2> HIDE DEF removed, added, updated
  <2> QED BY <1>1, KernelOutcome
<1>3. deleted = {w \in K : Holds(want, w)}
  BY <1>0, TablesNameOnce DEF Holds, UuidsOf
<1>4. second = deleted \cup added
  BY <1>0, <1>3, TablesNameOnce DEF Holds, UuidsOf
<1>5. ASSUME NEW u \in want PROVE u \in all
  <2>1. CASE u \in updated
    BY <2>1, Zenon
  <2>2. CASE u \notin updated
    <3>1. u \in second
      BY <2>2, <1>3, <1>4, Zenon DEF Holds
    <3>2. \A w \in updated : w.uuid # u.uuid
      BY <2>2, <1>0, TablesNameOnce
    <3> QED BY <3>1, <3>2, Zenon DEF UuidsOf
  <2> QED BY <2>1, <2>2, Zenon
<1>6. ASSUME NEW u \in all PROVE u \in want
  <2>1. CASE u \in updated
    BY <2>1, Zenon
  <2>2. CASE u \notin updated
    <3>1. u \in deleted \/ u \in added
      BY <2>2, <1>4, Zenon
    <3>2. CASE u \in deleted /\ u \notin want
      <4>1. PICK w \in want : w.uid = u.uid /\ w.uuid = u.uuid
        BY <3>2, <1>3, Zenon DEF Holds
      <4>2. u \in K /\ w \notin K
        BY <3>2, <4>1, <1>0, TablesNameOnce
      <4>3. w \in updated
        BY <4>1, <4>2, Zenon DEF Holds
      <4> QED BY <2>2, <4>1, <4>3, Zenon DEF UuidsOf
    <3> QED BY <3>1, <3>2, Zenon
  <2> QED BY <2>1, <2>2, Zenon
<1>7. all = want
  <2> HIDE DEF all
  <2> QED BY <1>5, <1>6, Zenon
<1> QED BY <1>2, <1>7, Zenon

(* What a delta says, between two rosters.                                 *)
LEMMA DeltaSays ==
    ASSUME NEW from \in Rosters, NEW to \in Rosters, NEW d, d = Delta(from, to)
    PROVE  /\ d.upserted = to \ from /\ d.removed = UidsOf(from) \ UidsOf(to) /\ d.to = to /\ d.from = from
           /\ \A v \in from : v.uid \notin DeltaTargets(d) <=> v \in to
BY RostersNameEachUidOnce DEF Delta, Upserted, RemovedUids, DeltaTargets, UidsOf

(* applyUserDelta, on the roster the delta starts from: the table, and the *)
(* mirror, become the roster the delta leads to.                           *)
LEMMA DeltaApplied ==
    ASSUME ~Midway, NEW n, NEW from \in Rosters, NEW to \in Rosters, NEW d, d = Delta(from, to),
           n.known = from, kernel = from,
           NEW outcome \in ApplyUserDelta(n, d)
    PROVE  /\ outcome.ok \in BOOLEAN
           /\ outcome.table = IF outcome.ok THEN to ELSE kernel
           /\ DeltaResult(n, d) = to
<1> DEFINE new == to \ from
           dropped == {v \in from : v.uid \in DeltaTargets(d) /\ ~Holds(new, v)}
           added == {u \in new : ~Holds(from, u)}
           updated == new \ (added \cup from)
           deleted == {w \in from : w.uuid \notin UuidsOf(dropped)}
           second == {v \in deleted : v.uuid \notin UuidsOf(added)} \cup added
           all == {u \in second : u.uuid \notin UuidsOf(updated)} \cup updated
<1>0. /\ from \in Tables /\ to \in Tables /\ d.upserted = new
      /\ \A v \in from : v.uid \notin DeltaTargets(d) <=> v \in to
  BY DeltaSays DEF Tables
<1>1. outcome \in ApplyKernelUsers(UuidsOf(dropped), added, updated)
  BY <1>0, Zenon DEF ApplyUserDelta
<1>2. /\ outcome.ok \in BOOLEAN
      /\ ~outcome.ok => outcome.table = kernel
      /\ outcome.ok => outcome.table = all
  <2> HIDE DEF dropped, added, updated
  <2> QED BY <1>1, KernelOutcome
<1>3. deleted = {w \in from : w \in to \/ Holds(new, w)}
  BY <1>0, TablesNameOnce DEF Holds, UuidsOf
<1>4. second = deleted \cup added
  <2>1. \A v \in deleted, a \in added : v.uuid # a.uuid
    BY <1>0, TablesNameOnce DEF Holds
  <2> QED BY <2>1, Zenon DEF UuidsOf
<1>5. ASSUME NEW u \in to PROVE u \in all
  <2>1. CASE u \in updated
    BY <2>1, Zenon
  <2>2. CASE u \notin updated
    <3>1. u \in second
      BY <2>2, <1>3, <1>4, Zenon
    <3>2. \A w \in updated : w.uuid # u.uuid
      BY <2>2, <1>0, TablesNameOnce
    <3> QED BY <3>1, <3>2, Zenon DEF UuidsOf
  <2> QED BY <2>1, <2>2, Zenon
<1>6. ASSUME NEW u \in all PROVE u \in to
  <2>1. CASE u \in updated
    BY <2>1, Zenon
  <2>2. CASE u \notin updated /\ u \notin to
    <3>1. u \in from /\ Holds(new, u)
      BY <2>2, <1>3, <1>4, Zenon
    <3>2. PICK w \in new : w.uid = u.uid /\ w.uuid = u.uuid
      BY <3>1, Zenon DEF Holds
    <3>3. w \in updated
      BY <3>1, <3>2, Zenon DEF Holds
    <3> QED BY <2>2, <3>2, <3>3, Zenon DEF UuidsOf
  <2> QED BY <2>1, <2>2, Zenon
<1>7. all = to
  <2> HIDE DEF all
  <2> QED BY <1>5, <1>6, Zenon
<1>8. DeltaResult(n, d) = to
  BY <1>0, Zenon DEF DeltaResult
<1> QED BY <1>2, <1>7, <1>8, Zenon

-----------------------------------------------------------------------------
(* Messages and queues.                                                    *)

(* The messages of a stream: a full roster and a delta lead to a roster.   *)
LEMMA MessagesSay ==
    /\ \A m \in Message : m.kind = "full" => m.to \in Rosters
    /\ \A m \in Message : m.kind = "delta" => \E a, b \in Rosters : m = Delta(a, b)
    /\ \A m \in Message : m.kind \in {"full", "delta"} => m.to \in Rosters
    /\ \A r \in Rosters : Full(r) \in Message /\ Full(r).to = r /\ Full(r).kind = "full"
    /\ \A a, b \in Rosters : Delta(a, b) \in Message /\ Delta(a, b).to = b /\ Delta(a, b).kind = "delta"
    /\ [kind |-> "welcome"] \in Message /\ [kind |-> "disconnected"] \in Message
BY DEF Message, Full, Delta

(* A queue gets one more message, or gives its first one.                  *)
LEMMA QueueGrows ==
    ASSUME NEW T, NEW s \in Seq(T), NEW m \in T
    PROVE  /\ Append(s, m) \in Seq(T)
           /\ \A i \in DOMAIN Append(s, m) :
                 \/ i \in DOMAIN s /\ Append(s, m)[i] = s[i]
                 \/ Append(s, m)[i] = m
OBVIOUS

(* What leaves a queue was at its head.                                    *)
LEMMA QueueGives ==
    ASSUME NEW T, NEW s \in Seq(T), s # <<>>
    PROVE  /\ Tail(s) \in Seq(T) /\ Head(s) \in T /\ 1 \in DOMAIN s /\ Head(s) = s[1]
           /\ \A i \in DOMAIN Tail(s) : i + 1 \in DOMAIN s /\ Tail(s)[i] = s[i + 1]
OBVIOUS

(* Two answers go out together.                                            *)
LEMMA QueuesJoin ==
    ASSUME NEW T, NEW s \in Seq(T), NEW t \in Seq(T)
    PROVE  s \o t \in Seq(T)
OBVIOUS

-----------------------------------------------------------------------------
(* The panel's session.                                                    *)

(* What a step of the session keeps: its form and its state, and everyone  *)
(* it counts.                                                              *)
Onward(s, t) == WellFormed(t) /\ t.state = s.state /\ SentTo(s) \subseteq SentTo(t)

(* A roster that is offered is queued, as a full roster or as a delta from *)
(* the roster last sent.                                                   *)
LEMMA OfferKeeps ==
    ASSUME NEW s, WellFormed(s), NEW r \in Rosters
    PROVE  Onward(s, OfferRoster(s, r))
<1>1. RosterMessage(s, r) \in Offers
  <2>1. s.sent \in Rosters \/ s.sent = None
    BY Zenon DEF WellFormed, Sessions, RosterVersions
  <2>2. Full(r) \in Offers /\ (s.sent # None => Delta(s.sent, r) \in Offers)
    BY <2>1, MessagesSay, Zenon DEF Offers
  <2>3. RosterMessage(s, r) = Full(r) \/ (s.sent # None /\ RosterMessage(s, r) = Delta(s.sent, r))
    BY Zenon DEF RosterMessage
  <2> QED BY <2>2, <2>3, Zenon
<1> DEFINE msg == RosterMessage(s, r)
           newer == [s EXCEPT !.latestVersion = r, !.latest = r]
<1> HIDE DEF msg
<1>2. r # None /\ r \in RosterVersions
  BY RostersNameEachUidOnce, Zenon DEF RosterVersions
<1>3. CASE s.latestVersion = r /\ s.latest # None
  <2>1. OfferRoster(s, r) = s
    BY <1>3, Zenon DEF OfferRoster
  <2> QED BY <2>1, Zenon DEF Onward
<1>4. CASE s.latestVersion = r /\ s.latest = None
  <2>1. OfferRoster(s, r) = [s EXCEPT !.latest = r, !.sent = IF @ = None /\ s.confirmed = r THEN r ELSE @]
    BY <1>4, Zenon DEF OfferRoster
  <2>2. s \in Sessions /\ (s.sent = None => s.removed = {})
    BY Zenon DEF WellFormed
  <2>3. CASE s.sent = None /\ s.confirmed = r
    <3>1. OfferRoster(s, r) = [s EXCEPT !.latest = r, !.sent = r]
      BY <2>1, <2>2, <2>3, Zenon DEF Sessions
    <3> QED BY <3>1, <2>2, <2>3, <1>2, <1>4, Zenon DEF Onward, WellFormed, Sessions, SentTo
  <2>4. CASE ~(s.sent = None /\ s.confirmed = r)
    <3>1. OfferRoster(s, r) = [s EXCEPT !.latest = r]
      BY <2>1, <2>2, <2>4, Zenon DEF Sessions
    <3> QED BY <3>1, <2>2, <1>2, <1>4 DEF Onward, WellFormed, Sessions, SentTo
  <2> QED BY <2>3, <2>4, Zenon
<1>5. CASE s.latestVersion # r /\ s.sent = r /\ s.confirmed = r
  <2>1. OfferRoster(s, r) = [newer EXCEPT !.item = None]
    BY <1>5, Zenon DEF OfferRoster
  <2> QED BY <2>1, <1>2, <1>5, Zenon DEF Onward, WellFormed, Sessions, SentTo
<1>6. CASE s.latestVersion # r /\ ~(s.sent = r /\ s.confirmed = r)
  <2>1. OfferRoster(s, r) = [newer EXCEPT !.item = msg, !.forceWanted = @ /\ msg.kind # "full"]
    BY <1>6, Zenon DEF OfferRoster, msg
  <2>2. PICK m \in Offers : m = msg
    BY <1>1, Zenon DEF msg
  <2>3. CASE m.kind = "full"
    <3>1. OfferRoster(s, r) = [s EXCEPT !.latestVersion = r, !.latest = r, !.item = m, !.forceWanted = FALSE]
      BY <2>1, <2>2, <2>3, Zenon DEF WellFormed, Sessions
    <3>2. OfferRoster(s, r) \in Sessions
      BY <3>1, <1>2, Zenon DEF WellFormed, Sessions
    <3>3. /\ OfferRoster(s, r).latest = r /\ OfferRoster(s, r).latestVersion = r
          /\ OfferRoster(s, r).sent = s.sent /\ OfferRoster(s, r).removed = s.removed
          /\ OfferRoster(s, r).state = s.state
      BY <3>1, Zenon DEF WellFormed, Sessions
    <3> QED BY <3>2, <3>3, Zenon DEF Onward, WellFormed, SentTo
  <2>4. CASE m.kind # "full"
    <3>1. OfferRoster(s, r) = [s EXCEPT !.latestVersion = r, !.latest = r, !.item = m]
      BY <2>1, <2>2, <2>4, Zenon DEF WellFormed, Sessions
    <3>2. OfferRoster(s, r) \in Sessions
      BY <3>1, <1>2, Zenon DEF WellFormed, Sessions
    <3>3. /\ OfferRoster(s, r).latest = r /\ OfferRoster(s, r).latestVersion = r
          /\ OfferRoster(s, r).sent = s.sent /\ OfferRoster(s, r).removed = s.removed
          /\ OfferRoster(s, r).state = s.state
      BY <3>1, Zenon DEF WellFormed, Sessions
    <3> QED BY <3>2, <3>3, Zenon DEF Onward, WellFormed, SentTo
  <2> QED BY <2>3, <2>4, Zenon
<1> QED BY <1>3, <1>4, <1>5, <1>6, Zenon

(* A forced roster is the latest one.                                      *)
LEMMA ForcedKeeps ==
    ASSUME NEW s, WellFormed(s), s.latest # None
    PROVE  Onward(s, SendForcedFull(s))
<1>1. Full(s.latest) \in Offers
  BY MessagesSay, Zenon DEF Offers, WellFormed, Sessions, RosterVersions
<1> QED BY <1>1, Zenon DEF Onward, SendForcedFull, WellFormed, Sessions, SentTo

(* An answer of the node is heard.                                         *)
LEMMA AckedKeeps ==
    ASSUME NEW s, WellFormed(s), NEW ack \in Acks, NEW t \in UsersAcked(s, ack)
    PROVE  Onward(s, t)
<1> DEFINE good == [s EXCEPT !.confirmed = ack.version, !.forceGap = FALSE, !.forceWanted = FALSE]
           bad == [s EXCEPT !.confirmed = None, !.forceWanted = TRUE]
           later == [bad EXCEPT !.forcePending = TRUE]
<1>1. Onward(s, good) /\ Onward(s, bad) /\ Onward(s, later)
  <2>1. Onward(s, good)
    BY ZenonT(30) DEF Onward, WellFormed, Sessions, SentTo, Acks, RosterVersions
  <2>2. Onward(s, bad)
    BY ZenonT(30) DEF Onward, WellFormed, Sessions, SentTo, RosterVersions
  <2>3. Onward(s, later)
    BY ZenonT(30) DEF Onward, WellFormed, Sessions, SentTo, RosterVersions
  <2> QED BY <2>1, <2>2, <2>3, Zenon
<1>2. bad.latest # None => Onward(s, SendForcedFull(bad))
  <2> HIDE DEF bad
  <2> QED BY <1>1, ForcedKeeps, Zenon DEF Onward
<1>3. t \in {good, bad, later} \/ (bad.latest # None /\ t = SendForcedFull(bad))
  <2> HIDE DEF good, bad, later
  <2>1. CASE ack.ok
    BY <2>1, Zenon DEF UsersAcked, good
  <2>2. CASE ~ack.ok
    <3>1. t \in ForceFull(bad)
      BY <2>2, Zenon DEF UsersAcked, bad
    <3> QED BY <3>1, Zenon DEF ForceFull, later
  <2> QED BY <2>1, <2>2, Zenon
<1> QED BY <1>1, <1>2, <1>3, Zenon

(* The back-off has run out.                                               *)
LEMMA TimerKeeps ==
    ASSUME NEW s, WellFormed(s)
    PROVE  LET t == [s EXCEPT !.forcePending = FALSE] IN
           Onward(s, t) /\ (t.latest # None => Onward(s, SendForcedFull(t)))
<1> DEFINE t == [s EXCEPT !.forcePending = FALSE]
<1>1. Onward(s, t)
  BY Zenon DEF Onward, WellFormed, Sessions, SentTo
<1> HIDE DEF t
<1>2. t.latest # None => Onward(s, SendForcedFull(t))
  BY <1>1, ForcedKeeps, Zenon DEF Onward
<1> QED BY <1>1, <1>2, Zenon DEF t

(* A roster leaves: it is the one last sent, and whoever is not on it any  *)
(* more is remembered.                                                     *)
LEMMA SentKeeps ==
    ASSUME NEW s, WellFormed(s), s.item # None
    PROVE  LET t == [ShiftSent(s, s.item.to) EXCEPT !.item = None] IN
           Onward(s, t) /\ Carries(s.item) \subseteq SentTo(t)
<1>1. PICK r \in Rosters : r = s.item.to
  BY MessagesSay, Zenon DEF WellFormed, Sessions, Offers
<1>2. Carries(s.item) = UidsOf(r) /\ UidsOf(r) \subseteq Uids
  BY <1>1, Zenon DEF Carries, WellFormed, Sessions, Offers, Uids
<1>3. s.sent # None => UidsOf(s.sent) \subseteq Uids
  BY Zenon DEF WellFormed, Sessions, RosterVersions, Uids
<1>4. r \in RosterVersions /\ r # None
  BY RostersNameEachUidOnce, Zenon DEF RosterVersions
<1>5. CASE s.sent # None /\ s.sent # r
  <2>1. ShiftSent(s, r) = [s EXCEPT !.sent = r, !.prevSent = s.sent,
                                    !.removed = (@ \cup UidsOf(s.sent)) \ UidsOf(r)]
    BY <1>5, Zenon DEF ShiftSent
  <2>2. PICK gone \in SUBSET Uids : gone = (s.removed \cup UidsOf(s.sent)) \ UidsOf(r)
    BY <1>3, <1>5, Zenon DEF WellFormed, Sessions
  <2>3. [ShiftSent(s, r) EXCEPT !.item = None] =
          [s EXCEPT !.sent = r, !.prevSent = s.sent, !.removed = gone, !.item = None]
    BY <2>1, <2>2, Zenon DEF WellFormed, Sessions
  <2>4. SentTo([ShiftSent(s, r) EXCEPT !.item = None]) = gone \cup UidsOf(r)
    BY <2>3, <1>4, Zenon DEF SentTo, WellFormed, Sessions
  <2>5. SentTo(s) = s.removed \cup UidsOf(s.sent)
    BY <1>5, Zenon DEF SentTo
  <2>6. [s EXCEPT !.sent = r, !.prevSent = s.sent, !.removed = gone, !.item = None] \in Sessions
    BY <1>4, <2>2, ZenonT(30) DEF WellFormed, Sessions
  <2>7. WellFormed([ShiftSent(s, r) EXCEPT !.item = None]) /\ [ShiftSent(s, r) EXCEPT !.item = None].state = s.state
    BY <1>4, <2>3, <2>6, Zenon DEF WellFormed, Sessions
  <2>8. /\ SentTo(s) \subseteq SentTo([ShiftSent(s, r) EXCEPT !.item = None])
        /\ Carries(s.item) \subseteq SentTo([ShiftSent(s, r) EXCEPT !.item = None])
    BY <1>2, <2>2, <2>4, <2>5, Zenon
  <2> QED BY <1>1, <2>7, <2>8, Zenon DEF Onward
<1>6. CASE ~(s.sent # None /\ s.sent # r)
  <2>1. ShiftSent(s, r) = [s EXCEPT !.sent = r]
    BY <1>6, Zenon DEF ShiftSent
  <2> QED BY <2>1, <1>1, <1>2, <1>4, <1>6 DEF Onward, WellFormed, Sessions, SentTo
<1> QED BY <1>5, <1>6, Zenon

-----------------------------------------------------------------------------
(* The panel's steps.                                                      *)

(* A step of the session alone keeps the invariant: whom it counted it     *)
(* counts, and nothing moves in the stream or at the agent.                *)
LEMMA SessionStep ==
    ASSUME RosterIInv, UNCHANGED <<stream, down, events, nodeVars, inherited, climate, faults>>,
           Onward(session, session'), up' \in Seq(Acks), truth' \in Rosters, dirty' \in BOOLEAN,
           changes' \in 0..MaxChanges
    PROVE  RosterIInv'
<1>1. RosterTypes'
  BY Zenon DEF RosterIInv, RosterTypes, Onward, nodeVars
<1>2. Mirror' /\ Paired'
  BY Zenon DEF RosterIInv, Mirror, Paired, Onward, nodeVars, Named
<1>3. Counted \subseteq Counted'
  BY Zenon DEF Counted, Onward, SentTo
<1>4. StagedUids' = StagedUids
  BY Zenon DEF StagedUids, nodeVars
<1>5. Covered'
  BY <1>3, <1>4, Zenon DEF RosterIInv, Covered, Onward, nodeVars, Carries
<1> QED BY <1>1, <1>2, <1>5, Zenon DEF RosterIInv

(* Rosters change in the database, and a round offers the new one.         *)
LEMMA ChangeKeeps ==
    ASSUME RosterIInv, NEW r \in Rosters, Change(r), UNCHANGED climate
    PROVE  RosterIInv'
<1>1. WellFormed(session) /\ changes \in 0..MaxChanges /\ up \in Seq(Acks)
  BY Zenon DEF RosterIInv, RosterTypes
<1>2. Onward(session, session')
  BY <1>1, Zenon DEF Change, Onward
<1>3. changes' \in 0..MaxChanges
  BY <1>1, RosterBounds DEF Change
<1> QED BY <1>1, <1>2, <1>3, SessionStep, Zenon DEF Change, streamVars

(* Recompute: a session is told the roster that is current.                *)
LEMMA RecomputeKeeps ==
    ASSUME RosterIInv, Recompute, UNCHANGED climate
    PROVE  RosterIInv'
<1>1. WellFormed(session) /\ truth \in Rosters /\ up \in Seq(Acks) /\ changes \in 0..MaxChanges
  BY Zenon DEF RosterIInv, RosterTypes
<1>2. Onward(session, session')
  BY <1>1, OfferKeeps, Zenon DEF Recompute, Onward
<1> QED BY <1>1, <1>2, SessionStep, Zenon DEF Recompute, streamVars

(* handleUsersAck: an ack confirms a version or calls for a full roster.   *)
LEMMA HandleUsersAckKeeps ==
    ASSUME RosterIInv, HandleUsersAck, UNCHANGED climate
    PROVE  RosterIInv'
<1>1. WellFormed(session) /\ truth \in Rosters /\ dirty \in BOOLEAN /\ up \in Seq(Acks) /\ changes \in 0..MaxChanges
  BY Zenon DEF RosterIInv, RosterTypes
<1>2. up' \in Seq(Acks) /\ Head(up) \in Acks
  BY <1>1, QueueGives, Zenon DEF HandleUsersAck
<1>3. Onward(session, session')
  BY <1>1, <1>2, AckedKeeps, Zenon DEF HandleUsersAck
<1> QED BY <1>1, <1>2, <1>3, SessionStep, Zenon DEF HandleUsersAck, databaseVars

(* The timer that spaces out full rosters lets the next one go.            *)
LEMMA ForceTimerKeeps ==
    ASSUME RosterIInv, ForceTimer, UNCHANGED climate
    PROVE  RosterIInv'
<1>1. WellFormed(session) /\ truth \in Rosters /\ dirty \in BOOLEAN /\ up \in Seq(Acks) /\ changes \in 0..MaxChanges
  BY Zenon DEF RosterIInv, RosterTypes
<1>2. Onward(session, session')
  BY <1>1, TimerKeeps, Zenon DEF ForceTimer
<1> QED BY <1>1, <1>2, SessionStep, Zenon DEF ForceTimer, databaseVars, streamVars

(* Removed uids are forgotten once nothing of them is left at the node.    *)
LEMMA GraceRunsOutKeeps ==
    ASSUME RosterIInv, GraceRunsOut, UNCHANGED climate
    PROVE  RosterIInv'
<1>1. session \in Sessions
  BY Zenon DEF RosterIInv, RosterTypes, WellFormed
<1>2. session' \in Sessions /\ session'.removed = {} /\ session'.sent = session.sent /\ session'.state = session.state
      /\ session'.latest = session.latest /\ session'.latestVersion = session.latestVersion
  BY <1>1, Zenon DEF GraceRunsOut, Sessions
<1>3. RosterTypes'
  BY <1>2, Zenon DEF RosterIInv, RosterTypes, WellFormed, GraceRunsOut, databaseVars, streamVars, nodeVars
<1>4. Mirror' /\ Paired'
  BY <1>2, Zenon DEF RosterIInv, Mirror, Paired, Named, GraceRunsOut, streamVars, nodeVars
<1>5. Counted \subseteq Counted' \cup session.removed
  BY <1>2, Zenon DEF Counted, SentTo, GraceRunsOut
<1>6. StagedUids' = StagedUids
  BY Zenon DEF StagedUids, GraceRunsOut, nodeVars
<1>7. /\ \A i \in DOMAIN down : Carries(down[i]) = {}
      /\ \A i \in DOMAIN events : Carries(events[i]) = {}
  BY Zenon DEF GraceRunsOut, Carries
<1>8. Covered'
  BY <1>2, <1>5, <1>6, <1>7, Zenon DEF RosterIInv, Covered, GraceRunsOut, streamVars, nodeVars, Carries
<1> QED BY <1>3, <1>4, <1>8, Zenon DEF RosterIInv

-----------------------------------------------------------------------------
(* The stream's steps.                                                     *)

(* The Hello of a new stream: whatever the agent can serve without hearing *)
(* from the panel is what it came with.                                    *)
LEMMA ConnectKeeps ==
    ASSUME RosterIInv, Connect, UNCHANGED climate
    PROVE  RosterIInv'
<1>1. applied \in RosterVersions /\ down = <<>> /\ events \in Seq(Message)
  BY Zenon DEF RosterIInv, RosterTypes, Paired, Connect
<1>2. WellFormed(NewSession(applied)) /\ NewSession(applied).state = "align"
  BY <1>1, Zenon DEF WellFormed, NewSession, Sessions, RosterVersions
<1>3. RosterTypes'
  BY <1>2, Zenon DEF RosterIInv, RosterTypes, Connect, databaseVars, nodeVars
<1>4. Mirror' /\ Paired'
  BY <1>1, <1>2, Zenon DEF RosterIInv, Mirror, Paired, Named, Connect, nodeVars
<1>5. inherited' = HeldUids /\ HeldUids \subseteq Counted'
  BY Zenon DEF Connect, Counted
<1>6. StagedUids' = StagedUids
  BY Zenon DEF StagedUids, Connect, nodeVars
<1>7. ASSUME NEW i \in DOMAIN events PROVE Carries(events[i]) \subseteq HeldUids
  BY <1>7, Zenon DEF Carries, HeldUids
<1>8. UidsOf(kernel) \cup StagedUids \subseteq HeldUids /\ (cache # None => UidsOf(cache.users) \subseteq HeldUids)
  BY Zenon DEF HeldUids
<1>9. Covered'
  BY <1>1, <1>5, <1>6, <1>7, <1>8 DEF Covered, Connect, nodeVars, Carries
<1> QED BY <1>3, <1>4, <1>9, Zenon DEF RosterIInv

(* OpenVerified: the Welcome goes out, and carries nobody.                 *)
LEMMA OpenVerifiedKeeps ==
    ASSUME RosterIInv, OpenVerified, UNCHANGED climate
    PROVE  RosterIInv'
<1>1. WellFormed(session) /\ truth \in Rosters /\ down \in Seq(Message)
  BY Zenon DEF RosterIInv, RosterTypes
<1>2. PICK s : s = OfferRoster(session, truth)
  BY Zenon
<1>3. WellFormed(s) /\ SentTo(session) \subseteq SentTo(s)
  BY <1>1, <1>2, OfferKeeps, Zenon DEF Onward
<1>4. session' = [s EXCEPT !.state = "open"]
  BY <1>2, Zenon DEF OpenVerified
<1>5. WellFormed(session') /\ session'.state = "open" /\ SentTo(session') = SentTo(s)
  BY <1>3, <1>4, Zenon DEF WellFormed, Sessions, SentTo
<1>6. /\ down' \in Seq(Message)
      /\ \A i \in DOMAIN down' :
            \/ i \in DOMAIN down /\ down'[i] = down[i]
            \/ down'[i] = [kind |-> "welcome"]
  <2>1. PICK m \in Message : m = [kind |-> "welcome"]
    BY MessagesSay, Zenon
  <2>2. down' = Append(down, m)
    BY <2>1, Zenon DEF OpenVerified
  <2> QED BY <1>1, <2>1, <2>2, QueueGrows
<1>7. RosterTypes'
  BY <1>5, <1>6, Zenon DEF RosterIInv, RosterTypes, OpenVerified, databaseVars, nodeVars
<1>8. Mirror' /\ Paired'
  BY <1>5, Zenon DEF RosterIInv, Mirror, Paired, Named, OpenVerified, nodeVars
<1>9. Counted \subseteq Counted' /\ StagedUids' = StagedUids
  <2>1. Counted \subseteq Counted'
    BY <1>3, <1>5, Zenon DEF Counted, SentTo, OpenVerified
  <2> QED BY <2>1, Zenon DEF StagedUids, OpenVerified, nodeVars
<1>10. session.state # "none" /\ Covered
  BY Zenon DEF RosterIInv, OpenVerified
<1>11. ASSUME NEW i \in DOMAIN down' PROVE Carries(down'[i]) \subseteq Counted'
  <2>1. Carries([kind |-> "welcome"]) = {}
    BY Zenon DEF Carries
  <2> QED BY <1>6, <1>9, <1>10, <2>1, Zenon DEF Covered
<1>12. Covered'
  BY <1>9, <1>10, <1>11, Zenon DEF Covered, OpenVerified, nodeVars, Carries
<1> QED BY <1>7, <1>8, <1>12, Zenon DEF RosterIInv

(* The stream ends: no session, and nobody to count.                       *)
LEMMA EndStreamKeeps ==
    ASSUME EndStream
    PROVE  /\ WellFormed(session') /\ session'.state = "none" /\ Covered'
           /\ stream' = "down" /\ down' = <<>> /\ up' = <<>>
BY Zenon DEF EndStream, NoSession, NewSession, WellFormed, Sessions, RosterVersions, Covered

(* The stream breaks, and what is under way on it is lost.                 *)
LEMMA BreakKeeps ==
    ASSUME RosterIInv, BreakStream, UNCHANGED climate
    PROVE  RosterIInv'
<1>1. /\ WellFormed(session') /\ session'.state = "none" /\ Covered'
      /\ stream' = "down" /\ down' = <<>> /\ up' = <<>>
  BY EndStreamKeeps, Zenon DEF BreakStream
<1>2. events' \in Seq(Message)
  <2>1. events \in Seq(Message)
    BY Zenon DEF RosterIInv, RosterTypes
  <2> QED BY <2>1, MessagesSay, QueueGrows, Zenon DEF BreakStream
<1>3. faults' \in 0..MaxFaults
  BY FaultsAreCounted DEF RosterIInv, RosterTypes, BreakStream, Fault
<1>4. RosterTypes'
  BY <1>1, <1>2, <1>3 DEF RosterIInv, RosterTypes, BreakStream, databaseVars, nodeVars
<1>5. Mirror' /\ Paired'
  BY <1>1, Zenon DEF RosterIInv, Mirror, Paired, Named, BreakStream, nodeVars
<1> QED BY <1>1, <1>4, <1>5, Zenon DEF RosterIInv

(* The queued roster leaves, and from here on its users count.             *)
LEMMA SendNextKeeps ==
    ASSUME RosterIInv, SendNext, UNCHANGED climate
    PROVE  RosterIInv'
<1>1. WellFormed(session) /\ session.item # None /\ session.item \in Message /\ down \in Seq(Message)
  BY Zenon DEF RosterIInv, RosterTypes, SendNext, WellFormed, Sessions, Offers
<1>2. Onward(session, session') /\ Carries(session.item) \subseteq SentTo(session')
  BY <1>1, SentKeeps, Zenon DEF SendNext
<1>3. /\ down' \in Seq(Message)
      /\ \A i \in DOMAIN down' :
            \/ i \in DOMAIN down /\ down'[i] = down[i]
            \/ down'[i] = session.item
  BY <1>1, QueueGrows DEF SendNext
<1>4. RosterTypes'
  BY <1>2, <1>3, Zenon DEF RosterIInv, RosterTypes, SendNext, databaseVars, nodeVars, Onward
<1>5. Mirror' /\ Paired'
  BY <1>2, Zenon DEF RosterIInv, Mirror, Paired, Named, SendNext, nodeVars, Onward
<1>6. Counted \subseteq Counted' /\ Carries(session.item) \subseteq Counted' /\ StagedUids' = StagedUids
  <2>1. Counted' = inherited \cup SentTo(session')
    BY Zenon DEF Counted, SentTo, SendNext
  <2> QED BY <2>1, <1>2, Zenon DEF Counted, Onward, StagedUids, SendNext, nodeVars
<1>7. session.state # "none" /\ Covered
  BY Zenon DEF RosterIInv, SendNext
<1>8. ASSUME NEW i \in DOMAIN down' PROVE Carries(down'[i]) \subseteq Counted'
  BY <1>3, <1>6, <1>7, Zenon DEF Covered
<1>9. Covered'
  BY <1>6, <1>7, <1>8, Zenon DEF Covered, SendNext, nodeVars, Carries
<1> QED BY <1>4, <1>5, <1>9, Zenon DEF RosterIInv

(* The agent's session hands a message on.                                 *)
LEMMA ReceiveKeeps ==
    ASSUME RosterIInv, Receive, UNCHANGED climate
    PROVE  RosterIInv'
<1>1. down \in Seq(Message) /\ events \in Seq(Message) /\ down # <<>> /\ session.state # "none" /\ Covered
  BY Zenon DEF RosterIInv, RosterTypes, Paired, Receive
<1>2. /\ down' \in Seq(Message) /\ Head(down) \in Message /\ 1 \in DOMAIN down /\ Head(down) = down[1]
      /\ \A i \in DOMAIN down' : i + 1 \in DOMAIN down /\ down'[i] = down[i + 1]
  BY <1>1, QueueGives, Zenon DEF Receive
<1>3. /\ events' \in Seq(Message)
      /\ \A i \in DOMAIN events' :
            \/ i \in DOMAIN events /\ events'[i] = events[i]
            \/ events'[i] = Head(down)
  BY <1>1, <1>2, QueueGrows DEF Receive
<1>4. RosterTypes'
  BY <1>2, <1>3, Zenon DEF RosterIInv, RosterTypes, Receive, databaseVars, nodeVars
<1>5. Mirror' /\ Paired'
  BY <1>1, Zenon DEF RosterIInv, Mirror, Paired, Named, Receive, nodeVars
<1>6. Counted' = Counted /\ StagedUids' = StagedUids
  BY Zenon DEF Counted, SentTo, StagedUids, Receive, nodeVars
<1>7. ASSUME NEW i \in DOMAIN down' PROVE Carries(down'[i]) \subseteq Counted'
  BY <1>1, <1>2, <1>6, Zenon DEF Covered
<1>8. ASSUME NEW i \in DOMAIN events' PROVE Carries(events'[i]) \subseteq Counted'
  BY <1>1, <1>2, <1>3, <1>6, Zenon DEF Covered
<1>9. Covered'
  BY <1>1, <1>6, <1>7, <1>8, Zenon DEF Covered, Receive, nodeVars, Carries
<1> QED BY <1>4, <1>5, <1>9, Zenon DEF RosterIInv

-----------------------------------------------------------------------------
(* Turns of the agent's main loop.                                         *)

(* Whom a node's staged roster names.                                      *)
StagedAt(n) == IF n.staged = None THEN {} ELSE UidsOf(n.staged)

(* A node as it may be at the end of a turn: it says what its table is, it *)
(* is offline only where it was and has never been up, and it serves or    *)
(* has staged only users that count.                                       *)
Sound(n) ==
    /\ n \in Nodes /\ Named(n.known, n.userVersion)
    /\ ~n.started => n.known = {} /\ n.userVersion = None
    /\ n.offline => node.offline /\ ~n.started /\ ~n.activeConfig
    /\ session.state # "none" => UidsOf(n.known) \cup StagedAt(n) \subseteq Counted

(* A turn that leaves such a node, with the kernel at what it mirrors,     *)
(* keeps the invariant.                                                    *)
LEMMA TurnKeeps ==
    ASSUME RosterIInv, UNCHANGED <<truth, dirty, session, stream, down, cache, inherited, changes, climate>>,
           events' = events \/ (events # <<>> /\ events' = Tail(events)),
           connected' \in BOOLEAN, up' \in Seq(Acks), faults' \in 0..MaxFaults, applied' \in RosterVersions,
           Sound(node'), kernel' = node'.known
    PROVE  RosterIInv'
<1>1. /\ events' \in Seq(Message)
      /\ \A i \in DOMAIN events' : \E j \in DOMAIN events : events'[i] = events[j]
  <2>1. events \in Seq(Message)
    BY Zenon DEF RosterIInv, RosterTypes
  <2> QED BY <2>1, QueueGives, SMTT(20)
<1>2. RosterTypes'
  BY <1>1, Zenon DEF RosterIInv, RosterTypes, Sound
<1>3. Mirror' /\ Paired'
  BY Zenon DEF RosterIInv, Mirror, Paired, Sound, Named
<1>4. Counted' = Counted /\ StagedUids' = StagedAt(node')
  BY Zenon DEF Counted, SentTo, StagedUids, StagedAt
<1>5. CASE session.state # "none"
  <2>1. Covered
    BY Zenon DEF RosterIInv
  <2>2. ASSUME NEW i \in DOMAIN events' PROVE Carries(events'[i]) \subseteq Counted'
    BY <1>1, <1>4, <1>5, <2>1, Zenon DEF Covered
  <2>3. Covered'
    BY <1>4, <1>5, <2>1, <2>2, SMTT(20) DEF Covered, Sound, Carries
  <2> QED BY <1>2, <1>3, <2>3, Zenon DEF RosterIInv
<1>6. CASE session.state = "none"
  BY <1>2, <1>3, <1>6, Zenon DEF RosterIInv, Covered
<1> QED BY <1>5, <1>6, Zenon

(* flushUsersAck and publishApplied at the end of a turn.                  *)
LEMMA EndTurnKeeps ==
    ASSUME RosterIInv, NEW n, Sound(n), NEW acks \in Seq(Acks), EndTurn(n, acks)
    PROVE  /\ up' \in Seq(Acks) /\ applied' \in RosterVersions
           /\ Sound(node') /\ node'.known = n.known
<1>1. n \in Nodes /\ up \in Seq(Acks)
  BY Zenon DEF Sound, RosterIInv, RosterTypes
<1>2. Pending(n) \in Seq(Acks)
  BY <1>1 DEF Pending, Nodes
<1>3. acks \o Pending(n) \in Seq(Acks)
  BY <1>2, QueuesJoin, Zenon
<1>4. up' \in Seq(Acks)
  BY <1>1, <1>3, QueuesJoin, Zenon DEF EndTurn, Sent
<1>5. applied' \in RosterVersions
  BY <1>1, Zenon DEF EndTurn, Applied, Nodes, RosterVersions
<1>6. node' \in Nodes /\ node'.known = n.known /\ node'.userVersion = n.userVersion /\ node'.started = n.started
      /\ node'.offline = n.offline /\ node'.activeConfig = n.activeConfig /\ node'.staged = n.staged
  BY <1>1, Zenon DEF EndTurn, Flushed, Nodes
<1>7. Sound(node')
  BY <1>6, Zenon DEF Sound, StagedAt
<1> QED BY <1>4, <1>5, <1>6, <1>7, Zenon

(* The node as it is between turns.                                        *)
LEMMA NodeIsSound ==
    ASSUME RosterIInv
    PROVE  Sound(node) /\ kernel = node.known
<1>1. session.state # "none" => UidsOf(node.known) \cup StagedAt(node) \subseteq Counted
  BY Zenon DEF RosterIInv, Mirror, Covered, StagedAt, StagedUids
<1> QED BY <1>1, Zenon DEF RosterIInv, RosterTypes, Mirror, Paired, Sound

(* What is first in the channel of events, and that its users count.       *)
LEMMA EventGives ==
    ASSUME RosterIInv, NEW kind, Event(kind)
    PROVE  /\ events # <<>> /\ events' = Tail(events) /\ Head(events) \in Message /\ Head(events).kind = kind
           /\ session.state # "none" => Carries(Head(events)) \subseteq Counted
<1>1. events \in Seq(Message) /\ events # <<>>
  BY Zenon DEF RosterIInv, RosterTypes, Event
<1>2. Head(events) \in Message /\ 1 \in DOMAIN events /\ Head(events) = events[1]
  BY <1>1, QueueGives, Zenon
<1>3. session.state # "none" => Carries(Head(events)) \subseteq Counted
  BY <1>2, Zenon DEF RosterIInv, Covered
<1> QED BY <1>1, <1>2, <1>3, Zenon DEF Event

(* A fault, or a kernel call that may be one, stays within the bound.      *)
LEMMA FaultsBounded ==
    ASSUME RosterIInv, Fault \/ UNCHANGED faults
    PROVE  faults' \in 0..MaxFaults
BY FaultsAreCounted DEF RosterIInv, RosterTypes, Fault

(* onWelcome and onDisconnected.                                           *)
LEMMA OnWelcomeKeeps ==
    ASSUME RosterIInv, OnWelcome, UNCHANGED climate
    PROVE  RosterIInv'
<1>1. events # <<>> /\ events' = Tail(events)
  BY EventGives, Zenon DEF OnWelcome
<1>2. Sound(node) /\ kernel = node.known
  BY NodeIsSound, Zenon
<1>3. up \in Seq(Acks) /\ faults \in 0..MaxFaults /\ applied \in RosterVersions
  BY Zenon DEF RosterIInv, RosterTypes
<1>4. node' \in Nodes /\ node'.known = node.known /\ node'.userVersion = node.userVersion
      /\ node'.started = node.started /\ node'.offline = FALSE /\ node'.staged = node.staged
  BY <1>2, Zenon DEF OnWelcome, Sound, Nodes
<1>5. Sound(node')
  BY <1>2, <1>4, Zenon DEF Sound, StagedAt
<1> QED BY <1>1, <1>2, <1>3, <1>4, <1>5, TurnKeeps, Zenon DEF OnWelcome, databaseVars

(* onDisconnected.                                                         *)
LEMMA OnDisconnectedKeeps ==
    ASSUME RosterIInv, OnDisconnected, UNCHANGED climate
    PROVE  RosterIInv'
<1>1. events # <<>> /\ events' = Tail(events)
  BY EventGives, Zenon DEF OnDisconnected
<1>2. Sound(node) /\ kernel = node.known
  BY NodeIsSound, Zenon
<1>3. up \in Seq(Acks) /\ faults \in 0..MaxFaults /\ applied \in RosterVersions
  BY Zenon DEF RosterIInv, RosterTypes
<1> QED BY <1>1, <1>2, <1>3, TurnKeeps, Zenon DEF OnDisconnected, databaseVars

(* onUsersFull: the roster is staged while the inbound is down, else       *)
(* applied; when the kernel refuses it the table is what it was, and the   *)
(* version is not known any more.                                          *)
LEMMA OnUsersFullKeeps ==
    ASSUME ~Midway, RosterIInv, OnUsersFull, UNCHANGED climate
    PROVE  RosterIInv'
<1>1. /\ events # <<>> /\ events' = Tail(events) /\ Head(events) \in Message /\ Head(events).kind = "full"
      /\ session.state # "none" => Carries(Head(events)) \subseteq Counted
  BY EventGives, Zenon DEF OnUsersFull
<1>2. PICK r \in Rosters : r = Head(events).to
  BY <1>1, MessagesSay, Zenon
<1>3. session.state # "none" => UidsOf(r) \subseteq Counted
  BY <1>1, <1>2, Zenon DEF Carries
<1>4. r \in RosterVersions /\ r # None /\ r \in Tables /\ None \in RosterVersions
  BY RostersNameEachUidOnce, Zenon DEF RosterVersions, Tables
<1>5. Sound(node) /\ kernel = node.known /\ node \in Nodes
  BY NodeIsSound, Zenon DEF Sound
<1>6. connected \in BOOLEAN /\ up \in Seq(Acks) /\ applied \in RosterVersions /\ faults \in 0..MaxFaults
  BY Zenon DEF RosterIInv, RosterTypes
<1>7. CASE ~node.started
  <2>1. /\ node' = [node EXCEPT !.staged = r]
        /\ UNCHANGED <<up, kernel, applied, faults>>
    BY <1>2, <1>7, Zenon DEF OnUsersFull
  <2>2. node' \in Nodes /\ node'.known = node.known /\ node'.userVersion = node.userVersion
        /\ node'.started = node.started /\ node'.offline = node.offline /\ node'.activeConfig = node.activeConfig
        /\ node'.staged = r
    BY <2>1, <1>4, <1>5, Zenon DEF Nodes
  <2>3. Sound(node')
    BY <2>2, <1>3, <1>4, <1>5, Zenon DEF Sound, StagedAt
  <2> QED BY <2>1, <2>2, <2>3, <1>1, <1>5, <1>6, TurnKeeps, Zenon DEF OnUsersFull, databaseVars
<1>8. CASE node.started
  <2> DEFINE taken == [node EXCEPT !.known = r, !.usersDirty = TRUE, !.userVersion = r, !.staged = None]
             refused == [node EXCEPT !.userVersion = None]
  <2>1. PICK outcome \in ApplyUsers(node, r) :
            /\ Took(outcome)
            /\ kernel' = outcome.table
            /\ EndTurn(IF outcome.ok THEN taken ELSE refused, <<UsersAck(r, outcome.ok)>>)
    BY <1>2, <1>8, Zenon DEF OnUsersFull
  <2>2. outcome.ok \in BOOLEAN /\ outcome.table = IF outcome.ok THEN r ELSE kernel
    <3>1. node.known \in Tables
      BY <1>5, Zenon DEF Nodes
    <3> QED BY <3>1, <1>5, FullApplied, Zenon
  <2>3. PICK n : n = IF outcome.ok THEN taken ELSE refused
    BY Zenon
  <2>4. Sound(n) /\ n.known = outcome.table
    <3>1. CASE outcome.ok
      <4>1. taken \in Nodes /\ taken.known = r /\ taken.userVersion = r /\ taken.started = node.started
            /\ taken.offline = node.offline /\ taken.activeConfig = node.activeConfig /\ taken.staged = None
        BY <1>4, <1>5, Zenon DEF Nodes
      <4>2. n = taken /\ outcome.table = r
        BY <3>1, <2>2, <2>3, Zenon
      <4> HIDE DEF taken
      <4> QED BY <4>1, <4>2, <1>3, <1>5, <1>8, Zenon DEF Sound, StagedAt, Named
    <3>2. CASE ~outcome.ok
      <4>1. refused \in Nodes /\ refused.known = node.known /\ refused.userVersion = None
            /\ refused.started = node.started /\ refused.offline = node.offline
            /\ refused.activeConfig = node.activeConfig /\ refused.staged = node.staged
        BY <1>4, <1>5, Zenon DEF Nodes
      <4>2. n = refused /\ outcome.table = kernel
        BY <3>2, <2>2, <2>3, Zenon
      <4> HIDE DEF refused
      <4> QED BY <4>1, <4>2, <1>5, <1>8, Zenon DEF Sound, StagedAt, Named
    <3> QED BY <3>1, <3>2, Zenon
  <2>5. <<UsersAck(r, outcome.ok)>> \in Seq(Acks)
    BY <1>4, <2>2 DEF UsersAck, Acks
  <2>6. EndTurn(n, <<UsersAck(r, outcome.ok)>>)
    BY <2>1, <2>3, Zenon
  <2>7. up' \in Seq(Acks) /\ applied' \in RosterVersions /\ Sound(node') /\ node'.known = n.known
    BY <2>4, <2>5, <2>6, EndTurnKeeps, Zenon
  <2>8. faults' \in 0..MaxFaults
    BY <2>1, FaultsBounded, Zenon DEF Took
  <2> QED BY <2>1, <2>4, <2>7, <2>8, <1>1, <1>6, TurnKeeps, Zenon DEF OnUsersFull, databaseVars
<1> QED BY <1>5, <1>7, <1>8, Zenon DEF Nodes

(* onUsersDelta: refused against another version, else applied to the      *)
(* roster it starts from.                                                  *)
LEMMA OnUsersDeltaKeeps ==
    ASSUME ~Midway, RosterIInv, OnUsersDelta, UNCHANGED climate
    PROVE  RosterIInv'
<1>1. /\ events # <<>> /\ events' = Tail(events) /\ Head(events) \in Message /\ Head(events).kind = "delta"
      /\ session.state # "none" => Carries(Head(events)) \subseteq Counted
  BY EventGives, Zenon DEF OnUsersDelta
<1>2. PICK d : d = Head(events)
  BY Zenon
<1>3. PICK from \in Rosters, to \in Rosters : d = Delta(from, to)
  BY <1>1, <1>2, MessagesSay
<1>4. d.from = from /\ d.to = to
  BY <1>3, DeltaSays
<1>5. session.state # "none" => UidsOf(to) \subseteq Counted
  BY <1>1, <1>2, <1>4, Zenon DEF Carries
<1>6. to \in RosterVersions /\ to # None /\ to \in Tables /\ None \in RosterVersions
  BY RostersNameEachUidOnce, Zenon DEF RosterVersions, Tables
<1>7. Sound(node) /\ kernel = node.known /\ node \in Nodes
  BY NodeIsSound, Zenon DEF Sound
<1>8. connected \in BOOLEAN /\ up \in Seq(Acks) /\ applied \in RosterVersions /\ faults \in 0..MaxFaults
  BY Zenon DEF RosterIInv, RosterTypes
<1>9. CASE ~AcceptsDelta(node, d)
  <2>1. /\ up' = Sent(<<UsersAck(d.to, FALSE)>>)
        /\ UNCHANGED <<node, kernel, applied, faults>>
    BY <1>2, <1>9, Zenon DEF OnUsersDelta
  <2>2. <<UsersAck(d.to, FALSE)>> \in Seq(Acks)
    BY <1>4, <1>6 DEF UsersAck, Acks
  <2>3. up' \in Seq(Acks)
    BY <2>1, <2>2, <1>8, QueuesJoin, Zenon DEF Sent
  <2> QED BY <2>1, <2>3, <1>1, <1>7, <1>8, TurnKeeps, Zenon DEF OnUsersDelta, databaseVars
<1>10. CASE AcceptsDelta(node, d)
  <2> DEFINE taken == [node EXCEPT !.known = DeltaResult(node, d), !.usersDirty = TRUE, !.userVersion = d.to]
             refused == [node EXCEPT !.userVersion = None]
  <2>1. PICK outcome \in ApplyUserDelta(node, d) :
            /\ Took(outcome)
            /\ kernel' = outcome.table
            /\ EndTurn(IF outcome.ok THEN taken ELSE refused, <<UsersAck(d.to, outcome.ok)>>)
    BY <1>2, <1>10, Zenon DEF OnUsersDelta
  <2>2. node.started /\ node.known = from /\ kernel = from
    BY <1>4, <1>7, <1>10, Zenon DEF AcceptsDelta, Sound, Named
  <2>3. outcome.ok \in BOOLEAN /\ outcome.table = (IF outcome.ok THEN to ELSE kernel) /\ DeltaResult(node, d) = to
    BY <2>1, <2>2, <1>3, DeltaApplied
  <2>4. PICK n : n = IF outcome.ok THEN taken ELSE refused
    BY Zenon
  <2>5. Sound(n) /\ n.known = outcome.table
    <3>1. CASE outcome.ok
      <4>1. taken \in Nodes /\ taken.known = to /\ taken.userVersion = to /\ taken.started = node.started
            /\ taken.offline = node.offline /\ taken.activeConfig = node.activeConfig /\ taken.staged = node.staged
        BY <2>3, <1>4, <1>6, <1>7, Zenon DEF Nodes
      <4>2. n = taken /\ outcome.table = to
        BY <3>1, <2>3, <2>4, Zenon
      <4> HIDE DEF taken
      <4> QED BY <4>1, <4>2, <2>2, <1>5, <1>7, Zenon DEF Sound, StagedAt, Named
    <3>2. CASE ~outcome.ok
      <4>1. refused \in Nodes /\ refused.known = node.known /\ refused.userVersion = None
            /\ refused.started = node.started /\ refused.offline = node.offline
            /\ refused.activeConfig = node.activeConfig /\ refused.staged = node.staged
        BY <1>6, <1>7, Zenon DEF Nodes
      <4>2. n = refused /\ outcome.table = kernel
        BY <3>2, <2>3, <2>4, Zenon
      <4> HIDE DEF refused
      <4> QED BY <4>1, <4>2, <2>2, <1>7, Zenon DEF Sound, StagedAt, Named
    <3> QED BY <3>1, <3>2, Zenon
  <2>6. <<UsersAck(d.to, outcome.ok)>> \in Seq(Acks)
    BY <1>4, <1>6, <2>3 DEF UsersAck, Acks
  <2>7. EndTurn(n, <<UsersAck(d.to, outcome.ok)>>)
    BY <2>1, <2>4, Zenon
  <2>8. up' \in Seq(Acks) /\ applied' \in RosterVersions /\ Sound(node') /\ node'.known = n.known
    BY <2>5, <2>6, <2>7, EndTurnKeeps, Zenon
  <2>9. faults' \in 0..MaxFaults
    BY <2>1, FaultsBounded, Zenon DEF Took
  <2> QED BY <2>1, <2>5, <2>8, <2>9, <1>1, <1>8, TurnKeeps, Zenon DEF OnUsersDelta, databaseVars
<1> QED BY <1>9, <1>10, Zenon

-----------------------------------------------------------------------------
(* Installing a configuration.                                             *)

(* prepareInstallUsers: the roster an inbound is loaded with is the one    *)
(* its version names, and comes from the mirror, from what was staged or   *)
(* from the cache.                                                         *)
LEMMA PreparedSays ==
    ASSUME NEW n \in Nodes, NEW offline, Named(n.known, n.userVersion),
           cache \in Caches \cup {None}, cache # None => Named(cache.users, cache.version),
           NEW p, p = PrepareInstallUsers(n, offline)
    PROVE  /\ p.users \in Tables /\ p.version \in RosterVersions /\ Named(p.users, p.version)
           /\ \/ p.users = n.known
              \/ n.staged # None /\ p.users = n.staged
              \/ offline /\ cache # None /\ p.users = cache.users
              \/ p.users = {}
<1>1. n.known \in Tables /\ n.userVersion \in RosterVersions /\ n.staged \in RosterVersions
  BY Zenon DEF Nodes
<1>2. CASE n.known # {}
  <2>1. p = [users |-> n.known, version |-> n.userVersion, source |-> "known"]
    BY <1>2, Zenon DEF PrepareInstallUsers
  <2> QED BY <2>1, <1>1
<1>3. CASE n.known = {} /\ n.staged # None
  <2>1. p = [users |-> n.staged, version |-> n.staged, source |-> "staged"]
    BY <1>3, Zenon DEF PrepareInstallUsers
  <2> QED BY <2>1, <1>1, <1>3 DEF Named, RosterVersions, Tables
<1>4. CASE n.known = {} /\ n.staged = None /\ offline /\ cache # None
  <2>1. p = [users |-> cache.users, version |-> cache.version, source |-> "cache"]
    BY <1>4, Zenon DEF PrepareInstallUsers
  <2>2. cache.users \in Tables /\ cache.version \in RosterVersions
    BY <1>4, Zenon DEF Caches
  <2> QED BY <2>1, <2>2, <1>4
<1>5. CASE n.known = {} /\ ~(n.staged # None) /\ ~(n.staged = None /\ offline /\ cache # None)
  <2>1. p = [users |-> {}, version |-> None, source |-> "none"]
    BY <1>5, Zenon DEF PrepareInstallUsers
  <2> QED BY <2>1 DEF Named, RosterVersions, Tables
<1> QED BY <1>2, <1>3, <1>4, <1>5, Zenon

(* resetUserMirror: nothing is known, and what was is reported as lost.    *)
LEMMA ResetSays ==
    ASSUME NEW n \in Nodes
    PROVE  \E a \in Acks \cup {None} :
              ResetUserMirror(n) = [n EXCEPT !.known = {}, !.userVersion = None, !.pendingUsersAck = a]
<1>1. CASE n.userVersion # None
  <2>1. ResetUserMirror(n) = [n EXCEPT !.known = {}, !.userVersion = None,
                                       !.pendingUsersAck = UsersAck(n.userVersion, FALSE)]
    BY <1>1, Zenon DEF ResetUserMirror
  <2>2. UsersAck(n.userVersion, FALSE) \in Acks
    BY Zenon DEF UsersAck, Acks, Nodes
  <2> QED BY <2>1, <2>2, Zenon
<1>2. CASE n.userVersion = None
  <2>1. ResetUserMirror(n) = [n EXCEPT !.known = {}, !.userVersion = None, !.pendingUsersAck = n.pendingUsersAck]
    BY <1>2, Zenon DEF ResetUserMirror, Nodes
  <2>2. n.pendingUsersAck \in Acks \cup {None}
    BY Zenon DEF Nodes
  <2> QED BY <2>1, <2>2, Zenon
<1> QED BY <1>1, <1>2, Zenon

(* applyConfigOnce: the mirror is the roster the inbound was loaded with,  *)
(* or empty when the kernel refused it.                                    *)
LEMMA InstalledSays ==
    ASSUME NEW n \in Nodes, NEW preloaded \in BOOLEAN, NEW p, p = PrepareInstallUsers(n, n.offline),
           p.users \in Tables, p.version \in RosterVersions,
           NEW t, t = Installed(n, preloaded)
    PROVE  /\ t \in Nodes /\ t.started /\ ~t.offline
           /\ t.known = (IF preloaded THEN p.users ELSE {})
           /\ t.userVersion = (IF preloaded THEN p.version ELSE None)
           /\ t.staged = None \/ t.staged = n.staged
<1> DEFINE adopted == AdoptInstalledUsers(n, p, preloaded)
<1>1. t = [adopted EXCEPT !.started = TRUE, !.activeConfig = TRUE, !.wanted = FALSE, !.offline = FALSE]
  BY Zenon DEF Installed
<1>2. CASE preloaded
  <2>1. PICK st : st = IF p.source = "staged" THEN None ELSE n.staged
    BY Zenon
  <2>2. PICK di : di = CASE p.source = "staged" -> TRUE [] p.source = "cache" -> FALSE [] OTHER -> n.usersDirty
    BY Zenon
  <2>3. PICK a : a = IF p.source = "staged" THEN UsersAck(p.version, TRUE) ELSE n.pendingUsersAck
    BY Zenon
  <2>4. adopted = [n EXCEPT !.known = p.users, !.userVersion = p.version, !.staged = st, !.usersDirty = di,
                            !.pendingUsersAck = a]
    BY <1>2, <2>1, <2>2, <2>3, Zenon DEF AdoptInstalledUsers, Nodes
  <2>5. st \in RosterVersions /\ (st = None \/ st = n.staged)
    BY <2>1, Zenon DEF Nodes, RosterVersions
  <2>6. di \in BOOLEAN
    BY <2>2, Zenon DEF Nodes
  <2>7. a \in Acks \cup {None}
    BY <2>3, Zenon DEF UsersAck, Acks, Nodes
  <2> HIDE DEF adopted
  <2>8. adopted \in Nodes /\ adopted.known = p.users /\ adopted.userVersion = p.version /\ adopted.staged = st
    BY <2>4, <2>5, <2>6, <2>7, Zenon DEF Nodes
  <2> QED BY <1>1, <1>2, <2>5, <2>8, Zenon DEF Nodes
<1>3. CASE ~preloaded
  <2>1. PICK b \in Acks \cup {None} :
            ResetUserMirror(n) = [n EXCEPT !.known = {}, !.userVersion = None, !.pendingUsersAck = b]
    BY ResetSays, Zenon
  <2>2. PICK reset : reset = ResetUserMirror(n)
    BY Zenon
  <2>3. reset \in Nodes /\ reset.known = {} /\ reset.userVersion = None
    BY <2>1, <2>2, Zenon DEF Nodes, Tables, RosterVersions
  <2>4. PICK a : a = IF reset.pendingUsersAck = None /\ p.version # None
                     THEN UsersAck(p.version, FALSE) ELSE reset.pendingUsersAck
    BY Zenon
  <2>5. a \in Acks \cup {None}
    BY <2>3, <2>4, Zenon DEF UsersAck, Acks, Nodes
  <2>6. adopted = [reset EXCEPT !.staged = None, !.pendingUsersAck = a]
    BY <1>3, <2>2, <2>4, Zenon DEF AdoptInstalledUsers, Nodes
  <2> HIDE DEF adopted
  <2>7. adopted \in Nodes /\ adopted.known = {} /\ adopted.userVersion = None /\ adopted.staged = None
    BY <2>3, <2>5, <2>6, Zenon DEF Nodes, RosterVersions
  <2> QED BY <1>1, <1>3, <2>7, Zenon DEF Nodes
<1> QED BY <1>2, <1>3, Zenon

(* A configuration is installed, with its roster or without it: whoever is *)
(* loaded was served, staged or cached when the stream began, and counts.  *)
LEMMA InstalledIsSound ==
    ASSUME RosterIInv, NEW preloaded \in BOOLEAN, NEW p, p = PrepareInstallUsers(node, node.offline),
           NEW t, t = Installed(node, preloaded)
    PROVE  Sound(t) /\ t.known = (IF preloaded THEN p.users ELSE {})
<1>1. Sound(node) /\ node \in Nodes /\ Named(node.known, node.userVersion)
  BY NodeIsSound, Zenon DEF Sound
<1>2. cache \in Caches \cup {None} /\ (cache # None => Named(cache.users, cache.version))
  BY SMTT(20) DEF RosterIInv, RosterTypes, Mirror
<1>3. /\ p.users \in Tables /\ p.version \in RosterVersions /\ Named(p.users, p.version)
      /\ \/ p.users = node.known
         \/ node.staged # None /\ p.users = node.staged
         \/ node.offline /\ cache # None /\ p.users = cache.users
         \/ p.users = {}
  BY <1>1, <1>2, PreparedSays, SMTT(20)
<1>4. /\ t \in Nodes /\ t.started /\ ~t.offline
      /\ t.known = (IF preloaded THEN p.users ELSE {})
      /\ t.userVersion = (IF preloaded THEN p.version ELSE None)
      /\ t.staged = None \/ t.staged = node.staged
  BY <1>1, <1>3, InstalledSays
<1>5. Named(t.known, t.userVersion)
  BY <1>3, <1>4, Zenon DEF Named
<1>6. UidsOf({}) = {}
  BY SMTT(20) DEF UidsOf
<1>7. session.state # "none" => UidsOf(p.users) \subseteq Counted /\ StagedAt(t) \subseteq Counted
  BY <1>1, <1>3, <1>4, <1>6, SMTT(20) DEF Sound, StagedAt, RosterIInv, Covered, Counted
<1> QED BY <1>4, <1>5, <1>6, <1>7, Zenon DEF Sound

(* An inbound is installed, with the users of the cache or the staged      *)
(* roster or without any.                                                  *)
LEMMA InstallKeeps ==
    ASSUME RosterIInv, InstallConfig \/ InstallWithoutUsers, UNCHANGED climate
    PROVE  RosterIInv'
<1>1. PICK p : p = PrepareInstallUsers(node, node.offline)
  BY SMTT(20)
<1>2. PICK preloaded \in BOOLEAN :
          /\ kernel' = (IF preloaded THEN p.users ELSE {})
          /\ EndTurn(Installed(node, preloaded), <<>>)
  BY <1>1, Zenon DEF InstallConfig, InstallWithoutUsers
<1>3. PICK t : t = Installed(node, preloaded)
  BY Zenon
<1>4. Sound(t) /\ t.known = (IF preloaded THEN p.users ELSE {})
  BY <1>1, <1>3, InstalledIsSound, Zenon
<1>5. <<>> \in Seq(Acks)
  OBVIOUS
<1>6. up' \in Seq(Acks) /\ applied' \in RosterVersions /\ Sound(node') /\ node'.known = t.known
  BY <1>2, <1>3, <1>4, <1>5, EndTurnKeeps, Zenon
<1>7. faults' \in 0..MaxFaults
  BY FaultsBounded, Zenon DEF InstallConfig, InstallWithoutUsers
<1>8. connected \in BOOLEAN
  BY Zenon DEF RosterIInv, RosterTypes
<1> QED BY <1>2, <1>4, <1>6, <1>7, <1>8, TurnKeeps, Zenon DEF InstallConfig, InstallWithoutUsers, databaseVars

(* A configuration arrives.                                                *)
LEMMA NewConfigKeeps ==
    ASSUME RosterIInv, NewConfig, UNCHANGED climate
    PROVE  RosterIInv'
<1>1. Sound(node) /\ kernel = node.known /\ node \in Nodes
  BY NodeIsSound, Zenon DEF Sound
<1>2. connected \in BOOLEAN /\ up \in Seq(Acks) /\ applied \in RosterVersions
  BY Zenon DEF RosterIInv, RosterTypes
<1>3. node' \in Nodes /\ node'.known = node.known /\ node'.userVersion = node.userVersion
      /\ node'.started = node.started /\ node'.offline = node.offline /\ node'.activeConfig = node.activeConfig
      /\ node'.staged = node.staged
  BY <1>1, Zenon DEF NewConfig, Nodes
<1>4. Sound(node')
  BY <1>1, <1>3, Zenon DEF Sound, StagedAt
<1>5. faults' \in 0..MaxFaults
  BY FaultsBounded, Zenon DEF NewConfig
<1> QED BY <1>1, <1>2, <1>3, <1>4, <1>5, TurnKeeps, Zenon DEF NewConfig, databaseVars, streamVars

(* The old inbound is in service again, with the users it had.             *)
LEMMA InstallRolledBackKeeps ==
    ASSUME RosterIInv, InstallRolledBack, UNCHANGED climate
    PROVE  RosterIInv'
<1>1. Sound(node) /\ kernel = node.known /\ node \in Nodes
  BY NodeIsSound, Zenon DEF Sound
<1>2. PICK t : t = [node EXCEPT !.started = TRUE]
  BY Zenon
<1>3. t \in Nodes /\ t.known = node.known /\ t.userVersion = node.userVersion /\ t.started
      /\ t.offline = node.offline /\ t.staged = node.staged
  BY <1>1, <1>2, Zenon DEF Nodes
<1>4. ~node.offline
  BY <1>1, Zenon DEF Sound, InstallRolledBack
<1>5. Sound(t)
  BY <1>1, <1>3, <1>4, Zenon DEF Sound, StagedAt
<1>6. <<>> \in Seq(Acks) /\ EndTurn(t, <<>>)
  BY <1>2 DEF InstallRolledBack
<1>7. up' \in Seq(Acks) /\ applied' \in RosterVersions /\ Sound(node') /\ node'.known = t.known
  BY <1>5, <1>6, EndTurnKeeps, Zenon
<1>8. kernel' = node.known
  <2>1. kernel \cup node.known = node.known
    BY <1>1, Zenon
  <2> QED BY <2>1, Zenon DEF InstallRolledBack
<1>9. faults' \in 0..MaxFaults /\ connected \in BOOLEAN
  BY FaultsBounded, Zenon DEF InstallRolledBack, RosterIInv, RosterTypes
<1> QED BY <1>3, <1>7, <1>8, <1>9, TurnKeeps, Zenon DEF InstallRolledBack, databaseVars

(* The inbound is gone, and so is what it admitted.                        *)
LEMMA InstallLostKeeps ==
    ASSUME RosterIInv, InstallLost, UNCHANGED climate
    PROVE  RosterIInv'
<1>1. Sound(node) /\ node \in Nodes
  BY NodeIsSound, SMTT(20) DEF Sound
<1>2. PICK a \in Acks \cup {None} :
          ResetUserMirror(node) = [node EXCEPT !.known = {}, !.userVersion = None, !.pendingUsersAck = a]
  BY <1>1, ResetSays, Zenon
<1>3. PICK t : t = MarkInboundLost(node)
  BY Zenon
<1>4. t \in Nodes /\ t.known = {} /\ t.userVersion = None /\ ~t.started
      /\ t.offline = node.offline /\ t.activeConfig = node.activeConfig /\ t.staged = node.staged
  BY <1>1, <1>2, <1>3, Zenon DEF MarkInboundLost, Nodes, Tables, RosterVersions
<1>5. Sound(t)
  BY <1>1, <1>4, Zenon DEF Sound, StagedAt, UidsOf, Named
<1>6. <<>> \in Seq(Acks) /\ EndTurn(t, <<>>)
  BY <1>3 DEF InstallLost
<1>7. up' \in Seq(Acks) /\ applied' \in RosterVersions /\ Sound(node') /\ node'.known = t.known
  BY <1>5, <1>6, EndTurnKeeps, Zenon
<1>8. faults' \in 0..MaxFaults /\ connected \in BOOLEAN
  BY FaultsBounded, Zenon DEF InstallLost, RosterIInv, RosterTypes
<1> QED BY <1>4, <1>7, <1>8, TurnKeeps, SMTT(20) DEF InstallLost, databaseVars

-----------------------------------------------------------------------------
(* The cache, and restarts.                                                *)

(* flushUsersCache writes the roster that the version names.               *)
LEMMA FlushUsersCacheKeeps ==
    ASSUME RosterIInv, FlushUsersCache, UNCHANGED climate
    PROVE  RosterIInv'
<1>1. Sound(node) /\ kernel = node.known /\ node \in Nodes
  BY NodeIsSound, Zenon DEF Sound
<1>2. CASE node.usersDirty /\ node.started
  <2>1. cache' = [version |-> node.userVersion, users |-> node.known] /\ node' = [node EXCEPT !.usersDirty = FALSE]
    BY <1>2, Zenon DEF FlushUsersCache
  <2>2. cache' \in Caches /\ Named(cache'.users, cache'.version)
    BY <2>1, <1>1, Zenon DEF Caches, Nodes, Sound, Named
  <2>3. node' \in Nodes /\ node'.known = node.known /\ node'.userVersion = node.userVersion
        /\ node'.started = node.started /\ node'.offline = node.offline /\ node'.activeConfig = node.activeConfig
        /\ node'.staged = node.staged
    BY <2>1, <1>1, Zenon DEF Nodes
  <2>4. ~node'.offline
    BY <2>3, <1>1, <1>2, Zenon DEF Sound
  <2>5. RosterTypes'
    BY <2>2, <2>3, Zenon DEF RosterIInv, RosterTypes, FlushUsersCache, databaseVars, streamVars
  <2>6. Mirror' /\ Paired'
    BY <2>2, <2>3, Zenon DEF RosterIInv, Mirror, Paired, Named, FlushUsersCache, streamVars
  <2>7. Counted' = Counted /\ StagedUids' = StagedUids
    BY <2>3, Zenon DEF Counted, SentTo, StagedUids, FlushUsersCache
  <2>8. Covered'
    BY <2>4, <2>7, Zenon DEF RosterIInv, Covered, FlushUsersCache, streamVars, Carries
  <2> QED BY <2>5, <2>6, <2>8, Zenon DEF RosterIInv
<1>3. CASE ~(node.usersDirty /\ node.started)
  <2>1. UNCHANGED <<cache, node>>
    BY <1>3, Zenon DEF FlushUsersCache
  <2>2. connected \in BOOLEAN /\ up \in Seq(Acks) /\ applied \in RosterVersions /\ faults \in 0..MaxFaults
    BY Zenon DEF RosterIInv, RosterTypes
  <2> QED BY <2>1, <2>2, <1>1, TurnKeeps, Zenon DEF FlushUsersCache, databaseVars, streamVars
<1> QED BY <1>2, <1>3, Zenon

(* The agent starts again: what it loads from the cache is the roster that *)
(* the cached version names.                                               *)
LEMMA AgentRestartKeeps ==
    ASSUME RosterIInv, AgentRestart, UNCHANGED climate
    PROVE  RosterIInv'
<1> DEFINE fresh == [NewNode EXCEPT !.offline = TRUE]
<1>1. fresh \in Nodes /\ fresh.known = {} /\ fresh.userVersion = None /\ ~fresh.started /\ fresh.offline = TRUE
      /\ ~fresh.activeConfig
  BY Zenon DEF NewNode, Nodes, Tables, RosterVersions
<1>2. NewNode \in Nodes /\ NewNode.known = {} /\ NewNode.userVersion = None /\ ~NewNode.started /\ ~NewNode.offline
  BY Zenon DEF NewNode, Nodes, Tables, RosterVersions
<1>3. PICK p : p = PrepareInstallUsers(fresh, TRUE)
  BY Zenon
<1>4. cache \in Caches \cup {None} /\ (cache # None => Named(cache.users, cache.version))
  BY Zenon DEF RosterIInv, RosterTypes, Mirror
<1> HIDE DEF fresh
<1>5. p.users \in Tables /\ p.version \in RosterVersions /\ Named(p.users, p.version)
  BY <1>1, <1>3, <1>4, PreparedSays, Zenon DEF Named
<1>6. ASSUME NEW preloaded \in BOOLEAN, NEW t, t = Installed(fresh, preloaded)
      PROVE  /\ t \in Nodes /\ t.started /\ ~t.offline
             /\ t.known = (IF preloaded THEN p.users ELSE {})
             /\ t.userVersion = (IF preloaded THEN p.version ELSE None)
  <2>1. p = PrepareInstallUsers(fresh, fresh.offline)
    BY <1>1, <1>3, Zenon
  <2> QED BY <1>1, <1>5, <1>6, <2>1, InstalledSays
<1>7. \/ node' = Installed(fresh, TRUE) /\ kernel' = p.users
      \/ node' = Installed(fresh, FALSE) /\ kernel' = {}
      \/ node' \in {fresh, NewNode} /\ kernel' = {}
  BY <1>3, Zenon DEF AgentRestart, fresh
<1>8. /\ node' \in Nodes /\ kernel' = node'.known /\ Named(node'.known, node'.userVersion)
      /\ ~node'.started => node'.known = {} /\ node'.userVersion = None
      /\ node'.offline => ~node'.started /\ ~node'.activeConfig
  <2>1. CASE node' = Installed(fresh, TRUE) /\ kernel' = p.users
    BY <2>1, <1>5, <1>6, Zenon
  <2>2. CASE node' = Installed(fresh, FALSE) /\ kernel' = {}
    BY <2>2, <1>6, Zenon DEF Named
  <2>3. CASE node' \in {fresh, NewNode} /\ kernel' = {}
    BY <2>3, <1>1, <1>2, Zenon DEF Named
  <2> QED BY <1>7, <2>1, <2>2, <2>3, Zenon
<1>9. /\ WellFormed(session') /\ session'.state = "none" /\ Covered'
      /\ stream' = "down" /\ down' = <<>> /\ up' = <<>>
  BY EndStreamKeeps, Zenon DEF AgentRestart
<1>10. events' = <<>> /\ connected' = FALSE /\ applied' = Applied(node') /\ UNCHANGED <<databaseVars, cache, changes>> /\ Fault
  BY Zenon DEF AgentRestart
<1>11. applied' \in RosterVersions
  BY <1>8, <1>10, Zenon DEF Applied, Nodes, RosterVersions
<1>12. faults' \in 0..MaxFaults
  BY <1>10, FaultsBounded, Zenon
<1>13. RosterTypes'
  <2>1. down' \in Seq(Message) /\ events' \in Seq(Message) /\ up' \in Seq(Acks)
    BY <1>9, <1>10
  <2>2. truth' \in Rosters /\ dirty' \in BOOLEAN /\ cache' \in Caches \cup {None} /\ changes' \in 0..MaxChanges
        /\ climate' \in Climates
    BY <1>10, Zenon DEF RosterIInv, RosterTypes, databaseVars
  <2>3. connected' \in BOOLEAN /\ stream' \in {"down", "hello", "live"}
    BY <1>9, <1>10, Zenon
  <2> QED BY <1>8, <1>9, <1>11, <1>12, <2>1, <2>2, <2>3, Zenon DEF RosterTypes
<1>14. Mirror' /\ Paired'
  BY <1>4, <1>8, <1>9, <1>10, Zenon DEF Mirror, Paired, Named
<1> QED BY <1>9, <1>13, <1>14, Zenon DEF RosterIInv

-----------------------------------------------------------------------------
(* The theorem.                                                            *)

(* The invariant holds at the beginning.                                   *)
LEMMA RosterStarts ==
    ASSUME RosterInit
    PROVE  RosterIInv
<1>1. WellFormed(NoSession) /\ NoSession.state = "none"
  BY Zenon DEF WellFormed, NoSession, NewSession, Sessions, RosterVersions
<1>2. NewNode \in Nodes /\ NewNode.known = {} /\ NewNode.userVersion = None /\ ~NewNode.started /\ ~NewNode.offline
  BY Zenon DEF NewNode, Nodes, Tables, RosterVersions
<1>3. RosterTypes
  <2>1. <<>> \in Seq(Message) /\ <<>> \in Seq(Acks)
    OBVIOUS
  <2>2. 0 \in 0..MaxFaults /\ 0 \in 0..MaxChanges /\ None \in RosterVersions
    BY RosterBounds, FaultsAreCounted DEF RosterVersions
  <2> QED BY <1>1, <1>2, <2>1, <2>2, Zenon DEF RosterInit, RosterTypes
<1> QED BY <1>1, <1>2, <1>3, Zenon DEF RosterInit, RosterIInv, Mirror, Paired, Covered, Named

(* Every step keeps it.                                                    *)
LEMMA RosterSteps ==
    ASSUME ~Midway, RosterIInv, [RosterNext /\ UNCHANGED climate]_<<rosterVars, climate>>
    PROVE  RosterIInv'
<1>1. CASE UNCHANGED <<rosterVars, climate>>
  BY <1>1, Zenon DEF rosterVars, databaseVars, streamVars, nodeVars, RosterIInv, RosterTypes, Mirror, Paired, Covered, Named, Counted, SentTo,
              StagedUids, Carries
<1>2. CASE RosterNext /\ UNCHANGED climate
  <2>1. CASE \E r \in Rosters : Change(r)
    BY <1>2, <2>1, ChangeKeeps, Zenon
  <2>2. CASE Recompute \/ HandleUsersAck \/ ForceTimer \/ GraceRunsOut
    BY <1>2, <2>2, RecomputeKeeps, HandleUsersAckKeeps, ForceTimerKeeps, GraceRunsOutKeeps, Zenon
  <2>3. CASE Connect \/ OpenVerified \/ BreakStream \/ SendNext \/ Receive
    BY <1>2, <2>3, ConnectKeeps, OpenVerifiedKeeps, BreakKeeps, SendNextKeeps, ReceiveKeeps, Zenon
  <2>4. CASE HandleEvent
    BY <1>2, <2>4, OnWelcomeKeeps, OnDisconnectedKeeps, OnUsersFullKeeps, OnUsersDeltaKeeps, Zenon DEF HandleEvent
  <2>5. CASE NewConfig \/ InstallConfig \/ InstallWithoutUsers \/ InstallRolledBack \/ InstallLost
    BY <1>2, <2>5, NewConfigKeeps, InstallKeeps, InstallRolledBackKeeps, InstallLostKeeps, Zenon
  <2>6. CASE FlushUsersCache \/ AgentRestart
    BY <1>2, <2>6, FlushUsersCacheKeeps, AgentRestartKeeps, Zenon
  <2> QED BY <1>2, <2>1, <2>2, <2>3, <2>4, <2>5, <2>6, Zenon DEF RosterNext
<1> QED BY <1>1, <1>2, Zenon

(* What the invariant says of the two ends of the stream.                  *)
LEMMA RosterSays ==
    ASSUME RosterIInv
    PROVE  RosterInv
<1>1. RosterTypeOK
  BY DEF RosterIInv, RosterTypes, WellFormed, Sessions, Nodes, RosterTypeOK
<1>2. MirrorMatchesKernel
  BY Zenon DEF RosterIInv, Mirror, Named, MirrorMatchesKernel
<1>3. BilledOrInherited
  <2> SUFFICES ASSUME session.state = "open", NEW u \in kernel
               PROVE  Has(u.uid) \/ u.uid \in inherited
    BY Zenon DEF BilledOrInherited
  <2>1. u.uid \in Counted
    BY Zenon DEF RosterIInv, Covered, UidsOf
  <2>2. session.sent = None => session.removed = {}
    BY Zenon DEF RosterIInv, RosterTypes, WellFormed
  <2> QED BY <2>1, <2>2, Zenon DEF Counted, SentTo, Has, RosterHas
<1> QED BY <1>1, <1>2, <1>3, SMTT(20) DEF RosterInv

(* For any rosters, and any number of changes, lost streams, refused       *)
(* kernel calls, rebuilt inbounds and restarts: what the agent says its    *)
(* kernel is at is what the kernel has, and whoever the kernel admits is   *)
(* counted by the panel's Has or came with the agent into the stream.  A   *)
(* kernel call is taken to fail before it changed anything.                *)
THEOREM MirrorTellsTheTruth ==
    ASSUME ~Midway
    PROVE  RosterSpec => []RosterInv
<1>1. RosterInit => RosterIInv
  BY RosterStarts, Zenon
<1>2. RosterIInv /\ [RosterNext /\ UNCHANGED climate]_<<rosterVars, climate>> => RosterIInv'
  BY RosterSteps, Zenon
<1>3. RosterIInv => RosterInv
  BY RosterSays, Zenon
<1> QED BY <1>1, <1>2, <1>3, PTL DEF RosterSpec

-----------------------------------------------------------------------------
(***************************************************************************)
(* Overlapping reads of the rosters, for any number of servers, changes    *)
(* and faults.                                                             *)
(*                                                                         *)
(* A number says how fresh a result is at least: whoever took the larger   *)
(* number saw every change the other one had to see.  That is what lets a  *)
(* session drop the result of its own align batch when a round with a      *)
(* larger number came in first, and open all the same.                     *)
(***************************************************************************)

ReadRecords == [ids : SUBSET Servers, seq : Nat, floor : Nat, result : Int]
Entries ==
    [state : {"none", "queued", "batched", "open"}, since : Nat, seq : Nat, floor : Nat, latest : Int]

\* x and y have a number and the changes committed when it was taken.
Ordered(x, y) == x.seq <= y.seq => x.floor <= y.floor

\* What holds of a read at work, with n the last number and c the changes committed.
ReadSound(r, n, c) ==
    /\ r \in ReadRecords /\ r.seq <= n /\ r.floor <= c /\ r.result <= c /\ r.result >= -1
    /\ r.result # -1 => r.floor <= r.result
    /\ r.seq = 0 => r.ids = {} /\ r.floor = 0 /\ r.result = -1

\* What holds of a session.
EntrySound(e, n, c) ==
    /\ e \in Entries /\ e.seq <= n /\ e.floor <= c /\ e.since <= c /\ e.latest <= c /\ e.latest >= -1
    /\ e.latest # -1 => e.floor <= e.latest
    /\ e.seq > 0 => e.latest # -1
    /\ e.seq = 0 => e.floor = 0
    /\ e.state = "open" => e.seq > 0 /\ e.since <= e.floor

ReadNumbers ==
    /\ committed \in Nat /\ committed <= MaxReadChanges
    /\ bumps \in Nat /\ epoch \in Nat /\ epoch + bumps <= committed
    /\ seq \in Nat /\ readFaults \in Nat /\ readFaults <= MaxReadFaults

ReadCounts == ReadNumbers /\ marked \in BOOLEAN

\* The session of a server fits the two reads at work.
Fits(e, r, b) == Ordered(e, r) /\ Ordered(r, e) /\ Ordered(e, b) /\ Ordered(b, e)

ReadsIInv ==
    /\ ReadCounts
    /\ ReadSound(round, seq, committed) /\ ReadSound(batch, seq, committed)
    /\ Ordered(round, batch) /\ Ordered(batch, round)
    /\ DOMAIN online = Servers
    /\ \A s \in Servers :
          /\ EntrySound(online[s], seq, committed) /\ Fits(online[s], round, batch)
          /\ online[s].state = "batched" => s \in batch.ids /\ online[s].since <= batch.floor

(* A read that has taken its number is newer than all that was.            *)
LEMMA NumberIsNewest ==
    ASSUME ReadsIInv, NEW ids \in SUBSET Servers
    PROVE  /\ ReadSound(Number(ids), seq + 1, committed) /\ Number(ids).floor = committed /\ Number(ids).ids = ids
           /\ \A x : x.seq \in Nat /\ x.floor \in Nat /\ x.seq <= seq /\ x.floor <= committed =>
                 Ordered(x, Number(ids)) /\ Ordered(Number(ids), x)
<1>1. seq \in Nat /\ committed \in Nat
  BY Zenon DEF ReadsIInv, ReadCounts, ReadNumbers
<1>2. Number(ids) \in ReadRecords /\ Number(ids).seq = seq + 1 /\ Number(ids).floor = committed
      /\ Number(ids).result = -1 /\ Number(ids).ids = ids
  BY <1>1 DEF Number, ReadRecords
<1> HIDE DEF Number
<1>3. ReadSound(Number(ids), seq + 1, committed)
  BY <1>1, <1>2 DEF ReadSound
<1> QED BY <1>1, <1>2, <1>3 DEF Ordered

(* Before and after there is a read.                                       *)
LEMMA NoReadSays ==
    ASSUME ReadsIInv
    PROVE  /\ ReadSound(NoRead, seq, committed) /\ NoRead.ids = {}
           /\ \A x : x.seq \in Nat /\ x.floor \in Nat /\ (x.seq = 0 => x.floor = 0) =>
                 Ordered(x, NoRead) /\ Ordered(NoRead, x)
<1>1. seq \in Nat /\ committed \in Nat
  BY Zenon DEF ReadsIInv, ReadCounts, ReadNumbers
<1>2. NoRead \in ReadRecords /\ NoRead.seq = 0 /\ NoRead.floor = 0 /\ NoRead.result = -1 /\ NoRead.ids = {}
  BY DEF NoRead, ReadRecords
<1>3. ReadSound(NoRead, seq, committed)
  BY <1>1, <1>2 DEF ReadSound
<1> QED BY <1>2, <1>3 DEF Ordered

(* No session.                                                             *)
LEMMA NotOnlineSays ==
    ASSUME NEW n \in Nat, NEW c \in Nat
    PROVE  /\ EntrySound(NotOnline, n, c) /\ NotOnline.state = "none" /\ NotOnline.seq = 0 /\ NotOnline.floor = 0
           /\ EntrySound([NotOnline EXCEPT !.state = "queued", !.since = c], n, c)
<1>1. NotOnline \in Entries /\ NotOnline.state = "none" /\ NotOnline.seq = 0 /\ NotOnline.floor = 0
      /\ NotOnline.since = 0 /\ NotOnline.latest = -1
  BY DEF NotOnline, Entries
<1>2. PICK q : q = [NotOnline EXCEPT !.state = "queued", !.since = c]
  BY Zenon
<1>3. q \in Entries /\ q.state = "queued" /\ q.seq = 0 /\ q.floor = 0 /\ q.since = c /\ q.latest = -1
  BY <1>1, <1>2, Zenon DEF Entries
<1>4. EntrySound(NotOnline, n, c)
  BY <1>1 DEF EntrySound
<1>5. EntrySound(q, n, c)
  BY <1>3 DEF EntrySound
<1> QED BY <1>1, <1>2, <1>4, <1>5, Zenon

(* applyRosters: a result is taken when its number is larger than the last *)
(* one the session took, and takes the session no changes back.            *)
LEMMA AppliedKeeps ==
    ASSUME NEW n \in Nat, NEW c \in Nat, NEW e, NEW r, NEW o, EntrySound(e, n, c), ReadSound(r, n, c), r.result # -1,
           ReadSound(o, n, c), Fits(e, r, o), Ordered(r, o), Ordered(o, r),
           NEW t, t = ApplyRosters(e, r)
    PROVE  /\ EntrySound(t, n, c) /\ Fits(t, r, o) /\ t.state = e.state /\ t.since = e.since
           /\ r.floor <= t.floor /\ t.seq > 0
<1>1. r.seq \in Nat /\ r.floor \in Nat /\ r.result \in Int /\ r.seq > 0
  BY DEF ReadSound, ReadRecords
<1>2. e \in Entries /\ e.seq \in Nat /\ e.floor \in Nat
  BY Zenon DEF EntrySound, Entries
<1>3. CASE r.seq <= e.seq
  <2>1. t = e
    BY <1>3, Zenon DEF ApplyRosters
  <2> QED BY <2>1, <1>1, <1>2, <1>3 DEF Fits, Ordered
<1>4. CASE ~(r.seq <= e.seq)
  <2>1. e.floor <= r.floor
    BY <1>1, <1>2, <1>4 DEF Fits, Ordered
  <2>2. Larger(e.floor, r.floor) = r.floor
    BY <2>1, <1>1, <1>2 DEF Larger
  <2>3. t = [e EXCEPT !.seq = r.seq, !.latest = r.result, !.floor = r.floor]
    BY <1>2, <1>4, <2>2, Zenon DEF ApplyRosters, Entries
  <2>4. t \in Entries /\ t.seq = r.seq /\ t.latest = r.result /\ t.floor = r.floor /\ t.state = e.state
        /\ t.since = e.since
    BY <2>3, <1>1, <1>2, Zenon DEF Entries
  <2>5. e.since \in Nat
    BY <1>2, Zenon DEF Entries
  <2>6. EntrySound(t, n, c)
    BY <2>1, <2>4, <2>5, <1>1, <1>2 DEF EntrySound, ReadSound
  <2>7. Fits(t, r, o)
    BY <2>4, <1>1 DEF Fits, Ordered
  <2> QED BY <2>4, <2>6, <2>7, <1>1
<1> QED BY <1>3, <1>4, Zenon

-----------------------------------------------------------------------------
(* Commits, notifications and the poller: a change more makes no read and  *)
(* no session worse than its number says.                                  *)
LEMMA CountsKeep ==
    ASSUME ReadsIInv, ReadCounts', UNCHANGED <<seq, round, batch, online>>, committed <= committed'
    PROVE  ReadsIInv'
<1>1. seq \in Nat /\ committed \in Nat /\ committed' \in Nat
  BY Zenon DEF ReadsIInv, ReadCounts, ReadNumbers
<1>2. ReadSound(round, seq, committed') /\ ReadSound(batch, seq, committed')
  BY <1>1 DEF ReadsIInv, ReadSound, ReadRecords
<1>3. \A s \in Servers : EntrySound(online[s], seq, committed')
  BY <1>1 DEF ReadsIInv, EntrySound, Entries
<1> QED BY <1>2, <1>3, Zenon DEF ReadsIInv

(* A change of the rosters commits: nothing that was read gets fresher by  *)
(* it.                                                                     *)
LEMMA CommitKeeps ==
    ASSUME ReadsIInv, Commit
    PROVE  ReadsIInv'
<1>1. ReadCounts' /\ committed <= committed'
  BY ReadBounds DEF ReadsIInv, ReadCounts, ReadNumbers, Commit
<1> QED BY <1>1, CountsKeep, Zenon DEF Commit

(* The notice of a change is sent, lost or refused, or made up for by a    *)
(* poll.                                                                   *)
LEMMA NotificationsKeep ==
    ASSUME ReadsIInv, BumpRefused \/ Poll \/ PollFails \/ \E heard \in BOOLEAN : Bump(heard)
    PROVE  ReadsIInv'
<1>1. ReadCounts
  BY Zenon DEF ReadsIInv
<1>2. /\ UNCHANGED <<committed, seq, round, batch, online>>
      /\ ReadFault \/ UNCHANGED readFaults
      /\ marked' \in BOOLEAN
  BY <1>1, Zenon DEF ReadCounts, ReadNumbers, BumpRefused, Poll, PollFails, Bump
<1>3. readFaults' \in Nat /\ readFaults' <= MaxReadFaults
  BY <1>1, <1>2, ReadBounds DEF ReadCounts, ReadNumbers, ReadFault
<1>4. \/ UNCHANGED <<bumps, epoch>>
      \/ bumps > 0 /\ bumps' = bumps - 1 /\ (epoch' = epoch \/ epoch' = epoch + 1)
  BY Zenon DEF BumpRefused, Poll, PollFails, Bump
<1>5. bumps' \in Nat /\ epoch' \in Nat /\ epoch' + bumps' <= committed
  BY <1>1, <1>4 DEF ReadCounts, ReadNumbers
<1>6. ReadNumbers' /\ committed <= committed'
  <2>1. ReadNumbers /\ UNCHANGED <<committed, seq>>
    BY <1>1, <1>2, Zenon DEF ReadCounts
  <2>2. committed' \in Nat /\ committed' <= MaxReadChanges /\ seq' \in Nat /\ committed <= committed'
    BY <2>1 DEF ReadNumbers
  <2>3. epoch' + bumps' <= committed'
    BY <1>5, <2>1, Zenon
  <2> QED BY <1>3, <1>5, <2>2, <2>3, Zenon DEF ReadNumbers
<1> QED BY <1>2, <1>6, CountsKeep, Zenon DEF ReadCounts

-----------------------------------------------------------------------------
(* Rounds: a number is taken, the rosters are read, and the result is      *)
(* handed to whatever session each server has by then.                     *)
LEMMA RoundStartKeeps ==
    ASSUME ReadsIInv, RoundStart
    PROVE  ReadsIInv'
<1>1. seq \in Nat /\ committed \in Nat /\ ReadSound(batch, seq, committed)
  BY Zenon DEF ReadsIInv, ReadCounts, ReadNumbers
<1>2. CASE Online = {}
  BY <1>1, <1>2, CountsKeep, Zenon DEF ReadsIInv, ReadCounts, ReadNumbers, RoundStart
<1>3. CASE Online # {}
  <2>1. seq' = seq + 1 /\ round' = Number(Online) /\ UNCHANGED <<committed, bumps, epoch, batch, online, readFaults>>
        /\ marked' = FALSE
    BY <1>3, Zenon DEF RoundStart
  <2>2. Online \in SUBSET Servers
    BY Zenon DEF Online
  <2>3. /\ ReadSound(Number(Online), seq + 1, committed)
        /\ \A x : x.seq \in Nat /\ x.floor \in Nat /\ x.seq <= seq /\ x.floor <= committed =>
              Ordered(x, Number(Online)) /\ Ordered(Number(Online), x)
    BY <2>2, NumberIsNewest, Zenon
  <2>4. ReadCounts'
    <3>1. ReadNumbers'
      BY <2>1 DEF ReadsIInv, ReadCounts, ReadNumbers
    <3> QED BY <2>1, <3>1, Zenon DEF ReadCounts
  <2>5. ReadSound(round, seq, committed)' /\ ReadSound(batch, seq, committed)'
    BY <1>1, <2>1, <2>3 DEF ReadSound, ReadRecords
  <2>6. Ordered(round, batch)' /\ Ordered(batch, round)'
    BY <1>1, <2>1, <2>3, Zenon DEF ReadSound, ReadRecords
  <2>7. ASSUME NEW s \in Servers PROVE EntrySound(online[s], seq, committed)' /\ Fits(online[s], round, batch)'
    <3>1. EntrySound(online[s], seq, committed) /\ Fits(online[s], round, batch)
      BY Zenon DEF ReadsIInv
    <3>2. EntrySound(online[s], seq + 1, committed)
      BY <1>1, <3>1 DEF EntrySound, Entries
    <3>3. Ordered(online[s], Number(Online)) /\ Ordered(Number(Online), online[s])
      BY <2>3, <3>1, Zenon DEF EntrySound, Entries
    <3> QED BY <2>1, <3>1, <3>2, <3>3, Zenon DEF Fits
  <2> QED BY <2>1, <2>4, <2>5, <2>6, <2>7, Zenon DEF ReadsIInv
<1> QED BY <1>2, <1>3, Zenon

(* A round reads the rosters, all changes committed before it took its     *)
(* number included.                                                        *)
LEMMA RoundReadKeeps ==
    ASSUME ReadsIInv, RoundRead
    PROVE  ReadsIInv'
<1>1. seq \in Nat /\ committed \in Nat /\ ReadSound(round, seq, committed) /\ round.ids # {}
  BY Zenon DEF ReadsIInv, ReadCounts, ReadNumbers, RoundRead, Numbered
<1>2. round' = [round EXCEPT !.result = committed] /\ UNCHANGED <<committed, bumps, epoch, marked, seq, batch, online, readFaults>>
  BY Zenon DEF RoundRead
<1>3. round' \in ReadRecords /\ round'.seq = round.seq /\ round'.floor = round.floor /\ round'.result = committed
  BY <1>1, <1>2 DEF ReadSound, ReadRecords
<1>4. ReadSound(round', seq, committed)
  BY <1>1, <1>3 DEF ReadSound
<1>5. ReadCounts'
  BY <1>2, Zenon DEF ReadsIInv, ReadCounts, ReadNumbers
<1> QED BY <1>2, <1>3, <1>4, <1>5, Zenon DEF ReadsIInv, Ordered, Fits

(* A read is given up, or its result has been handed out.                  *)
LEMMA RoundFailsKeeps ==
    ASSUME ReadsIInv, RoundFails
    PROVE  ReadsIInv'
<1>1. seq \in Nat /\ committed \in Nat /\ ReadSound(batch, seq, committed)
  BY Zenon DEF ReadsIInv, ReadCounts, ReadNumbers
<1>2. round' = NoRead /\ UNCHANGED <<committed, bumps, epoch, seq, batch, online>> /\ marked' = TRUE /\ ReadFault
  BY Zenon DEF RoundFails
<1>3. /\ ReadSound(NoRead, seq, committed)
      /\ \A x : x.seq \in Nat /\ x.floor \in Nat /\ (x.seq = 0 => x.floor = 0) =>
            Ordered(x, NoRead) /\ Ordered(NoRead, x)
  BY NoReadSays, Zenon
<1>4. ReadCounts'
  BY <1>2, ReadBounds DEF ReadsIInv, ReadCounts, ReadNumbers, ReadFault
<1>5. Ordered(NoRead, batch) /\ Ordered(batch, NoRead)
  BY <1>1, <1>3, Zenon DEF ReadSound, ReadRecords
<1>6. ASSUME NEW s \in Servers PROVE Fits(online[s], NoRead, batch)
  <2>1. EntrySound(online[s], seq, committed) /\ Fits(online[s], round, batch)
    BY Zenon DEF ReadsIInv
  <2>2. Ordered(online[s], NoRead) /\ Ordered(NoRead, online[s])
    BY <1>3, <2>1, Zenon DEF EntrySound, Entries
  <2> QED BY <2>1, <2>2, Zenon DEF Fits
<1> QED BY <1>2, <1>3, <1>4, <1>5, <1>6, Zenon DEF ReadsIInv

(* A round hands its result to the sessions that have nothing newer.       *)
LEMMA RoundApplyKeeps ==
    ASSUME ReadsIInv, RoundApply
    PROVE  ReadsIInv'
<1>1. seq \in Nat /\ committed \in Nat /\ ReadSound(round, seq, committed) /\ ReadSound(batch, seq, committed)
      /\ Ordered(round, batch) /\ Ordered(batch, round) /\ DOMAIN online = Servers
  BY Zenon DEF ReadsIInv, ReadCounts, ReadNumbers
<1>2. round' = NoRead /\ UNCHANGED <<committed, bumps, epoch, marked, seq, batch, readFaults>>
  BY Zenon DEF RoundApply
<1>3. /\ ReadSound(NoRead, seq, committed)
      /\ \A x : x.seq \in Nat /\ x.floor \in Nat /\ (x.seq = 0 => x.floor = 0) =>
            Ordered(x, NoRead) /\ Ordered(NoRead, x)
  BY NoReadSays, Zenon
<1>4. ReadCounts'
  BY <1>2, Zenon DEF ReadsIInv, ReadCounts, ReadNumbers
<1>5. Ordered(NoRead, batch) /\ Ordered(batch, NoRead)
  BY <1>1, <1>3, Zenon DEF ReadSound, ReadRecords
<1>6. round.result # -1
  BY <1>1 DEF RoundApply, Complete, ReadSound, ReadRecords
<1>7. ASSUME NEW s \in Servers
      PROVE  /\ EntrySound(online'[s], seq, committed) /\ Fits(online'[s], NoRead, batch)
             /\ online'[s].state = online[s].state /\ online'[s].since = online[s].since
  <2>1. EntrySound(online[s], seq, committed) /\ Fits(online[s], round, batch)
    BY Zenon DEF ReadsIInv
  <2>2. PICK t : t = ApplyRosters(online[s], round)
    BY Zenon
  <2>3. EntrySound(t, seq, committed) /\ Fits(t, round, batch) /\ t.state = online[s].state
        /\ t.since = online[s].since
    BY <1>1, <1>6, <2>1, <2>2, AppliedKeeps
  <2>4. online'[s] = t \/ online'[s] = online[s]
    BY <2>2, Zenon DEF RoundApply
  <2>5. EntrySound(online'[s], seq, committed) /\ Fits(online'[s], round, batch)
    BY <2>1, <2>3, <2>4, Zenon
  <2>6. Ordered(online'[s], NoRead) /\ Ordered(NoRead, online'[s])
    BY <1>3, <2>5, Zenon DEF EntrySound, Entries
  <2> QED BY <2>3, <2>4, <2>5, <2>6, Zenon DEF Fits
<1>8. DOMAIN online' = Servers
  BY Zenon DEF RoundApply
<1> QED BY <1>1, <1>2, <1>3, <1>4, <1>5, <1>7, <1>8, Zenon DEF ReadsIInv

-----------------------------------------------------------------------------
(* Streams and their align batches.                                        *)

(* A session is replaced by one that has taken no result yet.              *)
LEMMA EmptyFits ==
    ASSUME ReadsIInv, NEW e, e.seq = 0, e.floor = 0
    PROVE  Fits(e, round, batch)
<1>1. /\ round.seq \in Nat /\ round.floor \in Nat /\ (round.seq = 0 => round.floor = 0)
      /\ batch.seq \in Nat /\ batch.floor \in Nat /\ (batch.seq = 0 => batch.floor = 0)
  BY Zenon DEF ReadsIInv, ReadSound, ReadRecords
<1> QED BY <1>1 DEF Fits, Ordered

(* A session opens or closes, with nothing applied to it yet.              *)
LEMMA OpenOrCloseKeeps ==
    ASSUME ReadsIInv, NEW s \in Servers, OpenSession(s) \/ Close(s)
    PROVE  ReadsIInv'
<1>1. seq \in Nat /\ committed \in Nat /\ DOMAIN online = Servers /\ ReadNumbers
  BY Zenon DEF ReadsIInv, ReadCounts, ReadNumbers
<1>2. UNCHANGED <<committed, bumps, epoch, marked, seq, round, batch>> /\ (ReadFault \/ UNCHANGED readFaults)
  BY Zenon DEF OpenSession, Close
<1>3. PICK e : /\ e = NotOnline \/ e = [NotOnline EXCEPT !.state = "queued", !.since = committed]
               /\ online' = [online EXCEPT ![s] = e]
  BY Zenon DEF OpenSession, Close
<1>4. EntrySound(e, seq, committed) /\ e.seq = 0 /\ e.floor = 0 /\ e.state # "batched"
  <2>1. EntrySound(NotOnline, seq, committed) /\ NotOnline.state = "none" /\ NotOnline.seq = 0 /\ NotOnline.floor = 0
        /\ EntrySound([NotOnline EXCEPT !.state = "queued", !.since = committed], seq, committed)
    BY <1>1, NotOnlineSays, Zenon
  <2> QED BY <1>3, <2>1, Zenon DEF NotOnline
<1>5. Fits(e, round, batch)
  BY <1>4, EmptyFits, Zenon
<1>6. ReadCounts'
  <2>1. ReadNumbers'
    BY <1>1, <1>2, ReadBounds DEF ReadNumbers, ReadFault
  <2> QED BY <1>2, <2>1, Zenon DEF ReadsIInv, ReadCounts
<1> QED BY <1>1, <1>2, <1>3, <1>4, <1>5, <1>6, Zenon DEF ReadsIInv

(* alignBatch takes its number after the requests it is for were queued.   *)
LEMMA BatchStartKeeps ==
    ASSUME ReadsIInv, BatchStart
    PROVE  ReadsIInv'
<1>1. seq \in Nat /\ committed \in Nat /\ ReadSound(round, seq, committed) /\ DOMAIN online = Servers
  BY Zenon DEF ReadsIInv, ReadCounts, ReadNumbers
<1>2. seq' = seq + 1 /\ batch' = Number(Queued) /\ UNCHANGED <<committed, bumps, epoch, marked, round, readFaults>>
  BY Zenon DEF BatchStart
<1>3. Queued \in SUBSET Servers
  BY Zenon DEF Queued
<1>4. /\ ReadSound(Number(Queued), seq + 1, committed) /\ Number(Queued).floor = committed /\ Number(Queued).ids = Queued
      /\ \A x : x.seq \in Nat /\ x.floor \in Nat /\ x.seq <= seq /\ x.floor <= committed =>
            Ordered(x, Number(Queued)) /\ Ordered(Number(Queued), x)
  BY <1>3, NumberIsNewest, Zenon
<1>5. ReadCounts'
  <2>1. ReadNumbers'
    BY <1>2 DEF ReadsIInv, ReadCounts, ReadNumbers
  <2> QED BY <1>2, <2>1, Zenon DEF ReadsIInv, ReadCounts
<1>6. ReadSound(round, seq, committed)' /\ ReadSound(batch, seq, committed)'
  BY <1>1, <1>2, <1>4 DEF ReadSound, ReadRecords
<1>7. Ordered(round, batch)' /\ Ordered(batch, round)'
  BY <1>1, <1>2, <1>4, Zenon DEF ReadSound, ReadRecords
<1>8. ASSUME NEW s \in Servers
      PROVE  /\ EntrySound(online'[s], seq + 1, committed) /\ Fits(online'[s], round, Number(Queued))
             /\ online'[s].state = "batched" => s \in Queued /\ online'[s].since <= committed
  <2>1. EntrySound(online[s], seq, committed) /\ Fits(online[s], round, batch)
        /\ (online[s].state = "batched" => s \in batch.ids)
    BY Zenon DEF ReadsIInv
  <2>2. batch.ids = {}
    BY Zenon DEF BatchStart, NoRead
  <2>3. CASE s \in Queued
    <3>1. online'[s] = [online[s] EXCEPT !.state = "batched"]
      BY <2>3, Zenon DEF BatchStart
    <3>2. online[s].state = "queued"
      BY <2>3, Zenon DEF Queued
    <3>3. PICK e : e = online'[s]
      BY Zenon
    <3>4. e \in Entries /\ e.state = "batched" /\ e.since = online[s].since /\ e.seq = online[s].seq
          /\ e.floor = online[s].floor /\ e.latest = online[s].latest
      BY <2>1, <3>1, <3>3, Zenon DEF EntrySound, Entries
    <3>5. EntrySound(e, seq + 1, committed)
      BY <1>1, <2>1, <3>4 DEF EntrySound, Entries
    <3>6. Ordered(e, Number(Queued)) /\ Ordered(Number(Queued), e)
      BY <1>4, <2>1, <3>4, Zenon DEF EntrySound, Entries
    <3>7. Fits(e, round, Number(Queued))
      BY <2>1, <3>4, <3>6, Zenon DEF Fits, Ordered
    <3> QED BY <2>3, <3>3, <3>5, <3>7, Zenon DEF EntrySound
  <2>4. CASE s \notin Queued
    <3>1. online'[s] = online[s]
      BY <2>4, Zenon DEF BatchStart
    <3>2. EntrySound(online[s], seq + 1, committed)
      BY <1>1, <2>1 DEF EntrySound, Entries
    <3>3. Ordered(online[s], Number(Queued)) /\ Ordered(Number(Queued), online[s])
      BY <1>4, <2>1, Zenon DEF EntrySound, Entries
    <3> QED BY <2>1, <2>2, <3>1, <3>2, <3>3, Zenon DEF Fits
  <2> QED BY <2>3, <2>4, Zenon
<1>9. DOMAIN online' = Servers
  BY Zenon DEF BatchStart
<1> QED BY <1>2, <1>4, <1>5, <1>6, <1>7, <1>8, <1>9, Zenon DEF ReadsIInv

(* A batch reads the rosters, no older than its sessions have to see.      *)
LEMMA BatchReadKeeps ==
    ASSUME ReadsIInv, BatchRead
    PROVE  ReadsIInv'
<1>1. seq \in Nat /\ committed \in Nat /\ ReadSound(batch, seq, committed) /\ batch.ids # {}
  BY Zenon DEF ReadsIInv, ReadCounts, ReadNumbers, BatchRead, Numbered
<1>2. batch' = [batch EXCEPT !.result = committed] /\ UNCHANGED <<committed, bumps, epoch, marked, seq, round, online, readFaults>>
  BY Zenon DEF BatchRead
<1>3. batch' \in ReadRecords /\ batch'.seq = batch.seq /\ batch'.floor = batch.floor /\ batch'.result = committed
      /\ batch'.ids = batch.ids
  BY <1>1, <1>2 DEF ReadSound, ReadRecords
<1>4. ReadSound(batch', seq, committed)
  BY <1>1, <1>3 DEF ReadSound
<1>5. ReadCounts'
  BY <1>2, Zenon DEF ReadsIInv, ReadCounts, ReadNumbers
<1> QED BY <1>2, <1>3, <1>4, <1>5, Zenon DEF ReadsIInv, Ordered, Fits

(* A batch fails and its sessions end.                                     *)
LEMMA BatchFailsKeeps ==
    ASSUME ReadsIInv, BatchFails
    PROVE  ReadsIInv'
<1>1. seq \in Nat /\ committed \in Nat /\ ReadSound(round, seq, committed) /\ ReadNumbers /\ DOMAIN online = Servers
  BY Zenon DEF ReadsIInv, ReadCounts, ReadNumbers
<1>2. batch' = NoRead /\ UNCHANGED <<committed, bumps, epoch, marked, seq, round>> /\ ReadFault
  BY Zenon DEF BatchFails
<1>3. /\ ReadSound(NoRead, seq, committed)
      /\ \A x : x.seq \in Nat /\ x.floor \in Nat /\ (x.seq = 0 => x.floor = 0) =>
            Ordered(x, NoRead) /\ Ordered(NoRead, x)
  BY NoReadSays, Zenon
<1>4. ReadCounts'
  <2>1. ReadNumbers'
    BY <1>1, <1>2, ReadBounds DEF ReadNumbers, ReadFault
  <2> QED BY <1>2, <2>1, Zenon DEF ReadsIInv, ReadCounts
<1>5. Ordered(NoRead, round) /\ Ordered(round, NoRead)
  BY <1>1, <1>3, Zenon DEF ReadSound, ReadRecords
<1>6. ASSUME NEW s \in Servers
      PROVE  /\ EntrySound(online'[s], seq, committed) /\ Fits(online'[s], round, NoRead)
             /\ online'[s].state # "batched"
  <2>1. EntrySound(online[s], seq, committed) /\ Fits(online[s], round, batch)
    BY Zenon DEF ReadsIInv
  <2>2. EntrySound(NotOnline, seq, committed) /\ NotOnline.state = "none" /\ NotOnline.seq = 0 /\ NotOnline.floor = 0
    BY <1>1, NotOnlineSays, Zenon
  <2>3. Fits(NotOnline, round, batch)
    BY <2>2, EmptyFits, Zenon
  <2>4. \/ online'[s] = NotOnline
        \/ online'[s] = online[s] /\ online[s].state # "batched"
    BY Zenon DEF BatchFails
  <2>5. EntrySound(online'[s], seq, committed) /\ Fits(online'[s], round, batch) /\ online'[s].state # "batched"
    BY <2>1, <2>2, <2>3, <2>4, Zenon
  <2>6. Ordered(online'[s], NoRead) /\ Ordered(NoRead, online'[s])
    BY <1>3, <2>5, Zenon DEF EntrySound, Entries
  <2> QED BY <2>5, <2>6, SMTT(20) DEF Fits
<1>7. DOMAIN online' = Servers
  BY Zenon DEF BatchFails
<1> QED BY <1>2, <1>3, <1>4, <1>5, <1>6, <1>7, Zenon DEF ReadsIInv

(* The result reaches who still waits; a session that took a larger number *)
(* meanwhile has what the batch had to have.                               *)
LEMMA BatchDoneKeeps ==
    ASSUME ReadsIInv, BatchDone
    PROVE  ReadsIInv'
<1>1. seq \in Nat /\ committed \in Nat /\ ReadSound(round, seq, committed) /\ ReadSound(batch, seq, committed)
      /\ Ordered(round, batch) /\ Ordered(batch, round) /\ DOMAIN online = Servers
  BY Zenon DEF ReadsIInv, ReadCounts, ReadNumbers
<1>2. batch' = NoRead /\ UNCHANGED <<committed, bumps, epoch, marked, seq, round, readFaults>>
  BY Zenon DEF BatchDone
<1>3. /\ ReadSound(NoRead, seq, committed)
      /\ \A x : x.seq \in Nat /\ x.floor \in Nat /\ (x.seq = 0 => x.floor = 0) =>
            Ordered(x, NoRead) /\ Ordered(NoRead, x)
  BY NoReadSays, Zenon
<1>4. ReadCounts'
  BY <1>2, Zenon DEF ReadsIInv, ReadCounts, ReadNumbers
<1>5. Ordered(NoRead, round) /\ Ordered(round, NoRead)
  BY <1>1, <1>3, Zenon DEF ReadSound, ReadRecords
<1>6. batch.result # -1
  BY <1>1 DEF BatchDone, Complete, ReadSound, ReadRecords
<1>7. ASSUME NEW s \in Servers
      PROVE  /\ EntrySound(online'[s], seq, committed) /\ Fits(online'[s], round, NoRead)
             /\ online'[s].state # "batched"
  <2>1. EntrySound(online[s], seq, committed) /\ Fits(online[s], round, batch)
        /\ (online[s].state = "batched" => s \in batch.ids /\ online[s].since <= batch.floor)
    BY Zenon DEF ReadsIInv
  <2>2. CASE s \in Delivered
    <3>1. online[s].state = "batched"
      BY <2>2, Zenon DEF Delivered
    <3>2. PICK t : t = ApplyRosters(online[s], batch)
      BY Zenon
    <3>3. Fits(online[s], batch, round)
      BY <2>1, Zenon DEF Fits
    <3>4. EntrySound(t, seq, committed) /\ Fits(t, batch, round) /\ t.since = online[s].since
          /\ batch.floor <= t.floor /\ t.seq > 0
      BY <1>1, <1>6, <2>1, <3>2, <3>3, AppliedKeeps
    <3>5. PICK e : e = online'[s]
      BY Zenon
    <3>6. e = [t EXCEPT !.state = "open"]
      BY <2>2, <3>2, <3>5, Zenon DEF BatchDone
    <3>7. e \in Entries /\ e.state = "open" /\ e.since = t.since /\ e.seq = t.seq /\ e.floor = t.floor
          /\ e.latest = t.latest
      BY <3>4, <3>6, Zenon DEF EntrySound, Entries
    <3>8. t.since <= t.floor
      <4>1. t.since \in Nat /\ t.floor \in Nat /\ batch.floor \in Nat
        BY <1>1, <3>4, Zenon DEF EntrySound, Entries, ReadSound, ReadRecords
      <4> QED BY <2>1, <3>1, <3>4, <4>1
    <3>9. EntrySound(e, seq, committed)
      BY <3>4, <3>7, <3>8, Zenon DEF EntrySound
    <3>10. Ordered(e, round) /\ Ordered(round, e)
      BY <3>4, <3>7, Zenon DEF Fits, Ordered
    <3>11. Ordered(e, NoRead) /\ Ordered(NoRead, e)
      BY <1>3, <3>9, Zenon DEF EntrySound, Entries
    <3> QED BY <3>5, <3>7, <3>9, <3>10, <3>11, Zenon DEF Fits
  <2>3. CASE s \notin Delivered
    <3>1. online'[s] = online[s] /\ online[s].state # "batched"
      BY <2>1, <2>3, Zenon DEF BatchDone, Delivered
    <3>2. Ordered(online[s], NoRead) /\ Ordered(NoRead, online[s])
      BY <1>3, <2>1, Zenon DEF EntrySound, Entries
    <3> QED BY <2>1, <3>1, <3>2, Zenon DEF Fits
  <2> QED BY <2>2, <2>3, Zenon
<1>8. DOMAIN online' = Servers
  BY Zenon DEF BatchDone
<1> QED BY <1>1, <1>2, <1>3, <1>4, <1>5, <1>7, <1>8, Zenon DEF ReadsIInv

-----------------------------------------------------------------------------
(* At first nothing is read and nobody is online.                          *)
LEMMA ReadsStart ==
    ASSUME ReadsInit
    PROVE  ReadsIInv
<1>1. NoRead \in ReadRecords /\ NoRead.seq = 0 /\ NoRead.floor = 0 /\ NoRead.result = -1 /\ NoRead.ids = {}
  BY SMTT(20) DEF NoRead, ReadRecords
<1>2. EntrySound(NotOnline, 0, 0) /\ NotOnline.state = "none" /\ NotOnline.seq = 0 /\ NotOnline.floor = 0
  BY NotOnlineSays, Zenon
<1>3. ReadCounts
  <2>1. ReadNumbers
    BY ReadBounds DEF ReadsInit, ReadNumbers
  <2> QED BY <2>1, Zenon DEF ReadsInit, ReadCounts
<1>4. ReadSound(NoRead, 0, 0) /\ Ordered(NoRead, NoRead) /\ Fits(NotOnline, NoRead, NoRead)
  BY <1>1, <1>2 DEF ReadSound, Ordered, Fits
<1>5. round = NoRead /\ batch = NoRead /\ seq = 0 /\ committed = 0 /\ online = [s \in Servers |-> NotOnline]
  BY Zenon DEF ReadsInit
<1> QED BY <1>2, <1>3, <1>4, <1>5, Zenon DEF ReadsIInv

(* Every step of the reads preserves the invariant.                        *)
LEMMA ReadsSteps ==
    ASSUME ReadsIInv, [ReadsNext]_readVars
    PROVE  ReadsIInv'
<1>1. CASE UNCHANGED readVars
  BY <1>1, Zenon DEF readVars, ReadsIInv, ReadCounts, ReadNumbers
<1>2. CASE ReadsNext
  BY <1>2, CommitKeeps, NotificationsKeep, RoundStartKeeps, RoundReadKeeps, RoundApplyKeeps, RoundFailsKeeps,
     BatchStartKeeps, BatchReadKeeps, BatchDoneKeeps, BatchFailsKeeps, OpenOrCloseKeeps, Zenon DEF ReadsNext, Round, Batch
<1> QED BY <1>1, <1>2, Zenon

(* The invariant gives what the sessions are promised.                     *)
LEMMA ReadsSay ==
    ASSUME ReadsIInv
    PROVE  ReadsInv
<1>1. ReadNumbers /\ marked \in BOOLEAN
  BY Zenon DEF ReadsIInv, ReadCounts
<1>2. committed \in 0..MaxReadChanges /\ bumps \in 0..committed /\ epoch \in 0..committed /\ seq \in Nat
      /\ readFaults \in 0..MaxReadFaults
  BY <1>1, ReadBounds DEF ReadNumbers
<1>3. ASSUME NEW s \in Servers
      PROVE  /\ online[s].state \in {"none", "queued", "batched", "open"}
             /\ online[s].seq \in 0..seq /\ online[s].latest \in -1..committed
             /\ online[s].state = "open" => online[s].latest >= online[s].since
             /\ online[s].latest # -1 => online[s].latest >= online[s].floor
  <2>1. EntrySound(online[s], seq, committed)
    BY Zenon DEF ReadsIInv
  <2> QED BY <1>2, <2>1 DEF EntrySound, Entries
<1>4. {round.seq, batch.seq} \subseteq 0..seq
  BY <1>2 DEF ReadsIInv, ReadSound, ReadRecords
<1>5. ReadsTypeOK
  BY <1>1, <1>2, <1>3, <1>4, Zenon DEF ReadsTypeOK
<1> QED BY <1>3, <1>5, Zenon DEF ReadsInv, OpensUpToDate, NeverBehindItsNumber

(* For any servers, changes, lost notifications, failed reads and broken   *)
(* streams: a stream opens with every change committed before it was       *)
(* registered, and no session goes back behind the newest number it took,  *)
(* in whatever order the results come in.                                  *)
THEOREM ReadsNeverGoBack == ReadsSpec => []ReadsInv
<1>1. ReadsInit => ReadsIInv
  BY ReadsStart, Zenon
<1>2. ReadsIInv /\ [ReadsNext]_readVars => ReadsIInv'
  BY ReadsSteps, Zenon
<1>3. ReadsIInv => ReadsInv
  BY ReadsSay, Zenon
<1> QED BY <1>1, <1>2, <1>3, PTL DEF ReadsSpec
=============================================================================
