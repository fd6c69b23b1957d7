---------------------------- MODULE MCRosterSync ----------------------------
(***************************************************************************)
(* Small instances of RosterSync and, beside it, of RosterReads.  The two  *)
(* share nothing here; focus says which of them moves.                     *)
(***************************************************************************)
EXTENDS RosterSync, RosterReads

VARIABLE focus

U(uid, uuid, limit) == [uid |-> uid, uuid |-> uuid, limit |-> limit]

Basic   == {U(1, "a", 0), U(2, "b", 0)}
Rotated == {U(1, "c", 0), U(2, "b", 0)}             \* uid 1 got another credential
Grown   == {U(1, "a", 0), U(2, "b", 1), U(3, "d", 0)} \* uid 3 joined, uid 2 got another limit

ThreeRosters == {Basic, Rotated, Grown}

\* All that RosterSync alone moves.
syncVars == <<rosterVars, climate>>

MCInit ==
    /\ RosterInit /\ ReadsInit
    /\ \/ focus = "sync"
       \/ focus = "reads" /\ truth = Basic /\ climate = "calm"

MCNext ==
    \/ focus = "sync" /\ RosterNext /\ UNCHANGED <<climate, focus, readVars>>
    \/ focus = "reads" /\ ReadsNext /\ UNCHANGED <<syncVars, focus>>

\* The fairness of the two, each while it is the one that moves.
InSync(A) == focus = "sync" /\ A
InReads(A) == focus = "reads" /\ A

MCFairness ==
    /\ WF_rosterVars(InSync(Recompute)) /\ WF_rosterVars(InSync(Connect)) /\ WF_rosterVars(InSync(OpenVerified))
    /\ WF_rosterVars(InSync(SendNext)) /\ WF_rosterVars(InSync(Receive)) /\ WF_rosterVars(InSync(HandleUsersAck))
    /\ WF_rosterVars(InSync(ForceTimer)) /\ WF_rosterVars(InSync(HandleEvent)) /\ WF_rosterVars(InSync(InstallConfig))
    /\ WF_readVars(InReads(Bump(TRUE))) /\ WF_readVars(InReads(Poll))
    /\ WF_readVars(InReads(Round)) /\ WF_readVars(InReads(Batch))
    /\ \A s \in Servers : WF_readVars(InReads(OpenSession(s)))

MCSpec == MCInit /\ [][MCNext]_<<syncVars, focus, readVars>> /\ MCFairness

\* Every change reaches every session in the end (rounds, poll and align batches).
EveryChangeArrives == focus = "reads" => SessionsCatchUp

\* The node ends up serving the roster the database holds.
NodeConverges == focus = "sync" => Converges
=============================================================================
