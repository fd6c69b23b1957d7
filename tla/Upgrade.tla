------------------------------ MODULE Upgrade ------------------------------
(***************************************************************************)
(* Online upgrade of a node: the panel's job, the agent that stages the    *)
(* new binary, and the root helper that installs it, waits until the new   *)
(* process has reached the panel, and otherwise puts the old one back.     *)
(*                                                                         *)
(* The helper is a sequence of file operations and can be killed between   *)
(* any two of them; what it left in its work directory (record) decides    *)
(* what the next run does.  A version stands for a binary, its digest and  *)
(* its serial.  Signatures are taken as verified: a staged manifest is of  *)
(* a published version.                                                    *)
(***************************************************************************)
EXTENDS NodeLink, Integers, Sequences

CONSTANTS
    Versions,    \* the published versions, a set of positive numbers
    FirstVersion,\* the installed one
    Bad,         \* versions that crash when started
    FsyncFails,  \* whether a rename can take effect and report an error
    MaxJobs      \* bound: jobs the panel creates

ASSUME VersionsAreSerials == Versions \subseteq Nat \ {0} /\ FirstVersion \in Versions /\ FirstVersion \notin Bad

\* What the panel is told of a job, and the record of the work directory while a job is applied.
Reports == [job : Nat \cup {None}, phase : {"staged", "failed", "rolled_back"}]
WorkRecords ==
    [job : Nat \cup {None}, target : Versions, prev : Versions, stage : {"installing", "installed", "rolling_back"},
     resumed : BOOLEAN, outcome : Reports \cup {None}]

\* A file that is not there is not one with contents.
ASSUME NothingIsNone == None \notin Reports /\ None \notin WorkRecords

VARIABLES
    bin, prev,              \* /usr/local/bin/pandora-native and its .prev
    next, manifest, request,\* staging directory: binary, manifest, and the job to apply
    marker, healthy, result,\* staging directory: applying, healthy, result
    record,                 \* work directory: applying
    helper,                 \* the helper process: where it is and what it knows
    running,                \* version of the running main process
    hello,                  \* the result the Hello of this stream carried
    stage, pending,         \* the agent's staging goroutine, and its unsent report
    jobs, seen,             \* server_upgrades; the version of the last Hello
    trusted,                \* history: versions that were confirmed, and the first
    abandoned               \* history: versions that a failed rollback left installed

fileVars == <<next, manifest, request, marker, healthy, result>>
linkVars == <<stream, hello, down, up>>
agentVars == <<stage, pending>>
panelVars == <<jobs, seen>>
upgradeVars == <<bin, prev, fileVars, record, helper, running, linkVars, agentVars, panelVars, trusted, abandoned, faults>>

\* In the rough climate systemctl restart, putting .prev back and writing the outcome can fail, a
\* report of a live session can get lost, and the panel's deadline may pass during an upgrade.

Outcome(job, phase) == [job |-> job, phase |-> phase]
Marker(job, version) == [job |-> job, version |-> version]

Idle == [pc |-> "idle", job |-> 0, next |-> None, manifest |-> None, prev |-> None,
         stage |-> "none", resumed |-> FALSE, outcome |-> None, restart |-> TRUE]

NoStage == [pc |-> "none", job |-> 0, version |-> None]

-----------------------------------------------------------------------------
\* The panel.

Open(status) == status \in {"sent", "staged"}

\* RecordUpgradeReport: the node has the last word, even on a job held for done or given up.
RecordUpgradeReport(js, r) ==
    CASE r = None -> js
      [] r # None /\ r.phase = "staged" ->
            [js EXCEPT ![r.job].status = IF @ = "sent" THEN "staged" ELSE @]
      [] OTHER ->
            [js EXCEPT ![r.job].status =
                IF @ \in {"sent", "staged", "succeeded", "timed_out"} THEN r.phase ELSE @]

\* succeedUpgradeBySHA: a Hello of the target ends the open job, or the last one if it timed out.
SucceedUpgradeBySHA(js, version) ==
    [j \in DOMAIN js |->
        IF /\ js[j].target = version
           /\ Open(js[j].status) \/ (js[j].status = "timed_out" /\ j = Len(js))
        THEN [js[j] EXCEPT !.status = "succeeded"]
        ELSE js[j]]

\* RequestUpgrades for a server with a session; the command is queued after the commit, or the
\* session is gone by then, or the panel dies in between.
RequestUpgrade(v) ==
    /\ Len(jobs) < MaxJobs
    /\ stream # "down" /\ v > seen
    /\ \A j \in DOMAIN jobs : ~Open(jobs[j].status)
    /\ \/ /\ down = <<>>
          /\ down' = <<[job |-> Len(jobs) + 1, version |-> v]>>
          /\ jobs' = Append(jobs, [target |-> v, status |-> "sent"])
          /\ UNCHANGED faults
       \/ /\ Fault
          /\ \E status \in {"sent", "failed"} : jobs' = Append(jobs, [target |-> v, status |-> status])
          /\ UNCHANGED down
    /\ UNCHANGED <<bin, prev, fileVars, record, helper, running, stream, hello, up, agentVars, seen, trusted, abandoned>>

\* HandleUpgradeReport
HandleUpgradeReport ==
    /\ stream # "down" /\ up # <<>>
    /\ up' = Tail(up)
    /\ \/ jobs' = RecordUpgradeReport(jobs, Head(up)) /\ UNCHANGED faults
       \/ Rough /\ Fault /\ UNCHANGED jobs
    /\ UNCHANGED <<bin, prev, fileVars, record, helper, running, stream, hello, down, agentVars, seen, trusted, abandoned>>

\* Nothing of an upgrade is under way at the node.
AtRest ==
    /\ helper.pc = "idle" /\ record = None /\ request = None /\ result = None
    /\ stage = NoStage /\ pending = None /\ down = <<>> /\ up = <<>>

\* WatchUpgrades: the deadline of an open job has passed.
WatchUpgrades ==
    /\ Rough \/ AtRest
    /\ \E j \in DOMAIN jobs :
          Open(jobs[j].status) /\ jobs' = [jobs EXCEPT ![j].status = "timed_out"]
    /\ UNCHANGED <<bin, prev, fileVars, record, helper, running, linkVars, agentVars, seen, trusted, abandoned, faults>>

-----------------------------------------------------------------------------
\* The agent.

\* The stream is gone, and the commands and reports in it.
Disconnected == stream' = "down" /\ hello' = None /\ down' = <<>> /\ up' = <<>>

\* A new main process: memory and stream of the old one are gone.
Restarted ==
    /\ up = <<>> \/ Rough
    /\ running' = bin'
    /\ stage' = NoStage /\ pending' = None
    /\ Disconnected

\* RecordHello: the outcome in the Hello is recorded before the Welcome goes out.
Hello ==
    /\ stream = "down" /\ running \notin Bad
    /\ stream' = "hello" /\ hello' = result
    /\ seen' = running
    /\ jobs' = SucceedUpgradeBySHA(RecordUpgradeReport(jobs, result), running)
    /\ UNCHANGED <<bin, prev, fileVars, record, helper, running, down, up, agentVars, trusted, abandoned, faults>>

\* onWelcomeUpgrade: tell the helper, forget the outcome the panel now has, send what was pending.
OnWelcomeUpgrade ==
    /\ stream = "hello" /\ stream' = "live"
    /\ \/ healthy' = (IF marker # None /\ marker.version = running THEN marker ELSE healthy) /\ UNCHANGED faults
       \/ Fault /\ UNCHANGED healthy
    /\ result' = IF hello # None /\ result = hello THEN None ELSE result
    /\ up' = IF pending = None THEN up ELSE Append(up, pending)
    /\ pending' = None
    /\ UNCHANGED <<bin, prev, next, manifest, request, marker, record, helper, running, hello, down,
                   stage, panelVars, trusted, abandoned>>

\* sendUpgradeReport
SendUpgradeReport(r) ==
    IF stream = "live" THEN up' = Append(up, r) /\ pending' = None
    ELSE pending' = r /\ UNCHANGED up

\* onUpgrade
OnUpgrade ==
    /\ stream = "live" /\ down # <<>>
    /\ down' = Tail(down)
    /\ IF stage # NoStage
       THEN SendUpgradeReport(Outcome(Head(down).job, "failed")) /\ UNCHANGED stage
       ELSE /\ stage' = [pc |-> "check", job |-> Head(down).job, version |-> Head(down).version]
            /\ UNCHANGED <<up, pending>>
    /\ UNCHANGED <<bin, prev, fileVars, record, helper, running, stream, hello, panelVars, trusted, abandoned, faults>>

\* onUpgradeDone
Staged(phase) ==
    /\ stage' = NoStage
    /\ SendUpgradeReport(Outcome(stage.job, phase))

\* Stage: busy while a request or a marker is there; only ever upwards.
StageCheck ==
    /\ stage.pc = "check"
    /\ IF request # None \/ marker # None \/ stage.version <= running
       THEN Staged("failed") /\ UNCHANGED <<next, manifest>>
       ELSE /\ stage' = [stage EXCEPT !.pc = "download"]
            /\ next' = None /\ manifest' = None
            /\ UNCHANGED <<up, pending>>
    /\ UNCHANGED <<bin, prev, request, marker, healthy, result, record, helper, running, stream, hello, down,
                   panelVars, trusted, abandoned, faults>>

\* Stage: an error leaves nothing staged.
StageFails ==
    /\ Fault
    /\ next' = None /\ manifest' = None
    /\ Staged("failed")
    /\ UNCHANGED request

\* Stage: download and rename.
StageNext ==
    /\ stage.pc = "download"
    /\ \/ /\ next' = stage.version
          /\ stage' = [stage EXCEPT !.pc = "manifest"]
          /\ UNCHANGED <<up, pending, manifest, request, faults>>
       \/ StageFails
    /\ UNCHANGED <<bin, prev, marker, healthy, result, record, helper, running, stream, hello, down,
                   panelVars, trusted, abandoned>>

StageManifest ==
    /\ stage.pc = "manifest"
    /\ \/ /\ manifest' = stage.version
          /\ stage' = [stage EXCEPT !.pc = "request"]
          /\ UNCHANGED <<up, pending, next, request, faults>>
       \/ StageFails
    /\ UNCHANGED <<bin, prev, marker, healthy, result, record, helper, running, stream, hello, down,
                   panelVars, trusted, abandoned>>

\* Stage: the request comes last.
StageRequest ==
    /\ stage.pc = "request"
    /\ \/ /\ request' = stage.job
          /\ Staged("staged")
          /\ UNCHANGED <<next, manifest, faults>>
       \/ StageFails
    /\ UNCHANGED <<bin, prev, marker, healthy, result, record, helper, running, stream, hello, down,
                   panelVars, trusted, abandoned>>

\* upgradeHousekeeping: an outcome that turned up during the session is sent and deleted.
UpgradeHousekeeping ==
    /\ stream = "live"
    /\ up' = up \o (IF pending = None THEN <<>> ELSE <<pending>>)
                \o (IF result = None THEN <<>> ELSE <<result>>)
    /\ pending' = None /\ result' = None
    /\ UNCHANGED <<bin, prev, next, manifest, request, marker, healthy, record, helper, running, stream, hello, down,
                   stage, panelVars, trusted, abandoned, faults>>

\* The main process crashes at the start, and systemd starts it again (Restart=on-failure).
CrashLoop == running \in Bad /\ UNCHANGED upgradeVars

\* The stream breaks.
Break ==
    /\ stream # "down" /\ Fault
    /\ up = <<>> \/ Rough
    /\ Disconnected
    /\ UNCHANGED <<bin, prev, fileVars, record, helper, running, agentVars, panelVars, trusted, abandoned>>

-----------------------------------------------------------------------------
\* The helper.  helper.next is the target from Backup on; what it knows of the job is its work record.

\* The work record as the helper would save it.
Record(h) ==
    [job |-> h.job, target |-> h.next, prev |-> h.prev, stage |-> h.stage, resumed |-> h.resumed, outcome |-> h.outcome]

\* The helper with what a record says.
Loaded(r) ==
    [Idle EXCEPT !.job = r.job, !.next = r.target, !.prev = r.prev, !.stage = r.stage,
                 !.resumed = r.resumed, !.outcome = r.outcome]

At(h, pc) == [h EXCEPT !.pc = pc]

\* finish, with the outcome to write or None.
Finishing(h, outcome) == [h EXCEPT !.pc = "finish", !.outcome = outcome]
Failing(h) == Finishing(h, Outcome(h.job, "failed"))

\* success: the version is confirmed.
Confirmed(h) == IF h.pc = "finish" /\ h.outcome = None THEN {h.next} ELSE {}

\* rollbackWith
RollingBack(h, phase, restart) ==
    [h EXCEPT !.pc = "rollback", !.stage = "rolling_back", !.outcome = Outcome(h.job, phase), !.restart = restart]

\* Mutant: the unit always starts the installed binary.
RunByInstalled == bin

\* Which binary the unit starts as the helper.
RunBy == IF record # None /\ prev # None THEN prev ELSE bin

\* Mutant: a record of an interrupted installation is taken for an installation that did nothing.
ResumeInstallingFails(h) == Failing(h)

\* resume at stage installing: what is installed tells how far it came.
ResumeInstalling(h) ==
    CASE bin = h.next -> [h EXCEPT !.pc = "installed", !.stage = "installed", !.restart = TRUE]
      [] bin # h.next /\ bin = h.prev -> Failing(h)
      [] OTHER -> RollingBack(h, "failed", TRUE)

HealthyOK(h) == healthy = Marker(h.job, h.next)

\* resume at stage installed: one more confirmation window, and no third.
ResumeInstalled(h) ==
    CASE bin # h.next -> RollingBack(h, "failed", TRUE)
      [] bin = h.next /\ h.resumed /\ HealthyOK(h) -> Finishing(h, None)
      [] bin = h.next /\ h.resumed /\ ~HealthyOK(h) -> RollingBack(h, "rolled_back", TRUE)
      [] OTHER -> [h EXCEPT !.pc = "installed", !.resumed = TRUE, !.restart = TRUE]

\* The path unit starts the helper, which goes on with a record or takes a request.
HelperStart ==
    /\ helper.pc = "idle" /\ (record # None \/ request # None)
    /\ RunBy \notin Bad
    /\ helper' = IF record = None THEN At(Idle, "copy")
                 ELSE LET h == Loaded(record) IN
                      CASE h.stage = "installing" -> ResumeInstalling(h)
                        [] h.stage = "installed" -> ResumeInstalled(h)
                        [] h.stage = "rolling_back" -> RollingBack(h, h.outcome.phase, TRUE)
    /\ trusted' = trusted \cup Confirmed(helper')
    /\ UNCHANGED <<abandoned, bin, prev, fileVars, record, running, linkVars, agentVars, panelVars, faults>>

\* take: copy everything to the work directory; what cannot be copied is missing there.
TakeCopy ==
    /\ helper.pc = "copy"
    /\ \E job \in {request, None}, version \in {next, None} :
          /\ helper' = [helper EXCEPT !.pc = "unstage", !.job = job, !.next = version, !.manifest = manifest]
          /\ IF job = request /\ version = next THEN UNCHANGED faults ELSE Fault
    /\ UNCHANGED <<bin, prev, fileVars, record, running, linkVars, agentVars, panelVars, trusted, abandoned>>

\* take: remove the staged files, the request after the others.
TakeUnstage ==
    /\ helper.pc = "unstage"
    /\ next' = None /\ manifest' = None
    /\ helper' = At(helper, "unrequest")
    /\ UNCHANGED <<bin, prev, request, marker, healthy, result, record, running, linkVars, agentVars, panelVars, trusted, abandoned, faults>>

\* take: remove the request, give up without one, then check files, manifest against the serial of the helper's own binary, and digest.
TakeRequest ==
    /\ helper.pc = "unrequest"
    /\ request' = None
    /\ helper' = IF helper.job = None THEN Idle
                 ELSE IF /\ helper.next # None /\ helper.manifest # None
                         /\ helper.manifest > bin
                         /\ helper.next = helper.manifest
                      THEN At(helper, "backup") ELSE Failing(helper)
    /\ UNCHANGED <<bin, prev, next, manifest, marker, healthy, result, record, running, linkVars, agentVars, panelVars, trusted, abandoned, faults>>

\* install: copy the installed binary to .prev, the new one beside it.
InstallBackup ==
    /\ helper.pc = "backup"
    /\ \/ /\ prev' = bin
          /\ helper' = [helper EXCEPT !.pc = "record", !.prev = bin, !.stage = "installing"]
          /\ UNCHANGED faults
       \/ /\ Fault
          /\ prev' \in {prev, bin}
          /\ helper' = Failing(helper)
    /\ UNCHANGED <<bin, fileVars, record, running, linkVars, agentVars, panelVars, trusted, abandoned>>

\* install: save the record.
InstallRecord ==
    /\ helper.pc = "record"
    /\ \/ /\ record' = Record(helper)
          /\ helper' = At(helper, "rename")
          /\ UNCHANGED faults
       \/ /\ Fault
          /\ helper' = Failing(helper)
          /\ UNCHANGED record
    /\ UNCHANGED <<bin, prev, fileVars, running, linkVars, agentVars, panelVars, trusted, abandoned>>

\* install: the new binary takes the name.
InstallRename ==
    /\ helper.pc = "rename"
    /\ \/ /\ bin' = helper.next
          /\ helper' = [helper EXCEPT !.pc = "installed", !.stage = "installed", !.restart = FALSE]
          /\ UNCHANGED faults
       \/ /\ Fault
          /\ bin' = bin \/ (FsyncFails /\ bin' = helper.next)
          /\ helper' = Failing(helper)
    /\ UNCHANGED <<prev, fileVars, record, running, linkVars, agentVars, panelVars, trusted, abandoned>>

\* install and resume: save the stage; a failure is only logged.
SaveInstalled ==
    /\ helper.pc = "installed"
    /\ \/ record' = Record(helper) /\ UNCHANGED faults
       \/ Fault /\ UNCHANGED record
    /\ helper' = At(helper, "mark")
    /\ UNCHANGED <<bin, prev, fileVars, running, linkVars, agentVars, panelVars, trusted, abandoned>>

\* confirm: the marker the new process will look for.
ConfirmMark ==
    /\ helper.pc = "mark"
    /\ \/ /\ marker' = Marker(helper.job, helper.next)
          /\ helper' = At(helper, "unhealthy")
          /\ UNCHANGED faults
       \/ /\ Fault
          /\ helper' = RollingBack(helper, "failed", helper.restart)
          /\ UNCHANGED marker
    /\ UNCHANGED <<bin, prev, next, manifest, request, healthy, result, record, running, linkVars, agentVars, panelVars, trusted, abandoned>>

\* confirm: an older healthy does not count.
ConfirmUnhealthy ==
    /\ helper.pc = "unhealthy"
    /\ \/ /\ healthy' = None
          /\ helper' = At(helper, "restart")
          /\ UNCHANGED faults
       \/ /\ Fault
          /\ helper' = RollingBack(helper, "failed", helper.restart)
          /\ UNCHANGED healthy
    /\ UNCHANGED <<bin, prev, next, manifest, request, marker, result, record, running, linkVars, agentVars, panelVars, trusted, abandoned>>

ConfirmRestart ==
    /\ helper.pc = "restart"
    /\ \/ /\ UNCHANGED <<bin, faults>>
          /\ Restarted
          /\ helper' = At(helper, "wait")
       \/ /\ Rough /\ Fault
          /\ helper' = RollingBack(helper, "failed", TRUE)
          /\ UNCHANGED <<bin, running, linkVars, agentVars>>
    /\ UNCHANGED <<prev, fileVars, record, panelVars, trusted, abandoned>>

\* confirm: healthy turns up, or the window ends.
ConfirmWait ==
    /\ helper.pc = "wait"
    /\ \/ HealthyOK(helper) /\ helper' = Finishing(helper, None)
       \/ helper' = RollingBack(helper, "rolled_back", TRUE)
    /\ trusted' = trusted \cup Confirmed(helper')
    /\ UNCHANGED <<abandoned, bin, prev, fileVars, record, running, linkVars, agentVars, panelVars, faults>>

\* rollbackWith: save the stage and the outcome; a failure is only logged.
RollbackSave ==
    /\ helper.pc = "rollback"
    /\ \/ record' = Record(helper) /\ UNCHANGED faults
       \/ Fault /\ UNCHANGED record
    /\ helper' = At(helper, "restore")
    /\ UNCHANGED <<bin, prev, fileVars, running, linkVars, agentVars, panelVars, trusted, abandoned>>

\* rollbackWith: put .prev back, unless it is installed or is not what the record says.
RollbackRestore ==
    /\ helper.pc = "restore"
    /\ \/ /\ bin = helper.prev \/ prev = helper.prev
          /\ bin' = helper.prev
          /\ helper' = IF helper.restart THEN At(helper, "again") ELSE Finishing(helper, helper.outcome)
          /\ UNCHANGED <<abandoned, faults>>
       \/ /\ bin # helper.prev
          /\ IF prev = helper.prev THEN Rough /\ Fault ELSE UNCHANGED faults
          /\ helper' = Failing(helper)
          /\ abandoned' = abandoned \cup {bin}
          /\ UNCHANGED bin
    /\ UNCHANGED <<prev, fileVars, record, running, linkVars, agentVars, panelVars, trusted>>

RollbackRestart ==
    /\ helper.pc = "again"
    /\ \/ /\ UNCHANGED <<bin, faults>>
          /\ Restarted
          /\ helper' = Finishing(helper, helper.outcome)
       \/ /\ Rough /\ Fault
          /\ helper' = Failing(helper)
          /\ UNCHANGED <<bin, running, linkVars, agentVars>>
    /\ UNCHANGED <<prev, fileVars, record, panelVars, trusted, abandoned>>

\* Mutant: the record goes before the outcome is written.
FinishRecordFirst ==
    \/ /\ helper.pc = "finish"
       /\ record' = None
       /\ helper' = At(helper, "unmark")
       /\ UNCHANGED <<marker, healthy, result, faults>>
    \/ /\ helper.pc = "unmark"
       /\ marker' = None /\ helper' = At(helper, "forget")
       /\ UNCHANGED <<healthy, result, record, faults>>
    \/ /\ helper.pc = "forget"
       /\ healthy' = None /\ helper' = At(helper, "done")
       /\ UNCHANGED <<marker, result, record, faults>>
    \/ /\ helper.pc = "done"
       /\ result' = IF helper.outcome = None THEN result ELSE helper.outcome
       /\ helper' = Idle
       /\ UNCHANGED <<marker, healthy, record, faults>>

\* finish: outcome, marker, healthy and at last the record.
Finish ==
    \/ /\ helper.pc = "finish"
       /\ \/ result' = (IF helper.outcome = None THEN result ELSE helper.outcome) /\ UNCHANGED faults
          \/ Rough /\ Fault /\ UNCHANGED result
       /\ helper' = At(helper, "unmark")
       /\ UNCHANGED <<marker, healthy, record>>
    \/ /\ helper.pc = "unmark"
       /\ marker' = None /\ helper' = At(helper, "forget")
       /\ UNCHANGED <<healthy, result, record, faults>>
    \/ /\ helper.pc = "forget"
       /\ healthy' = None /\ helper' = At(helper, "done")
       /\ UNCHANGED <<marker, result, record, faults>>
    \/ /\ helper.pc = "done"
       /\ record' = None /\ helper' = Idle
       /\ UNCHANGED <<marker, healthy, result, faults>>

HelperFinish ==
    /\ Finish
    /\ UNCHANGED <<bin, prev, next, manifest, request, running, linkVars, agentVars, panelVars, trusted, abandoned>>

\* The helper is killed, by a crash or by TimeoutStartSec.
Kill ==
    /\ helper.pc # "idle" /\ Fault
    /\ helper' = Idle
    /\ UNCHANGED <<bin, prev, fileVars, record, running, linkVars, agentVars, panelVars, trusted, abandoned>>

\* The machine goes down and comes up: the main unit starts what is installed.
Reboot ==
    /\ Fault
    /\ helper' = Idle
    /\ UNCHANGED bin /\ Restarted
    /\ UNCHANGED <<prev, fileVars, record, panelVars, trusted, abandoned>>

-----------------------------------------------------------------------------
UpgradeInit ==
    /\ bin = FirstVersion /\ prev = None
    /\ next = None /\ manifest = None /\ request = None
    /\ marker = None /\ healthy = None /\ result = None
    /\ record = None /\ helper = Idle
    /\ running = FirstVersion /\ stream = "down" /\ hello = None /\ down = <<>> /\ up = <<>>
    /\ stage = NoStage /\ pending = None
    /\ jobs = <<>> /\ seen = FirstVersion
    /\ trusted = {FirstVersion} /\ abandoned = {} /\ faults = 0
    /\ climate \in Climates

Panel == HandleUpgradeReport \/ WatchUpgrades
Agent == OnWelcomeUpgrade \/ OnUpgrade \/ StageCheck \/ StageNext \/ StageManifest \/ StageRequest \/ UpgradeHousekeeping
Helper ==
    \/ HelperStart \/ TakeCopy \/ TakeUnstage \/ TakeRequest
    \/ InstallBackup \/ InstallRecord \/ InstallRename \/ SaveInstalled
    \/ ConfirmMark \/ ConfirmUnhealthy \/ ConfirmRestart \/ ConfirmWait
    \/ RollbackSave \/ RollbackRestore \/ RollbackRestart \/ HelperFinish

UpgradeNext ==
    \/ \E v \in Versions : RequestUpgrade(v)
    \/ Panel \/ Hello \/ Agent \/ CrashLoop \/ Break
    \/ Helper \/ Kill \/ Reboot

UpgradeSpec == UpgradeInit /\ [][UpgradeNext /\ UNCHANGED climate]_<<upgradeVars, climate>>

\* The panel's handlers and its watch job run, the agent dials and its loop turns, systemd starts
\* the helper and the helper goes on.
UpgradeFairness ==
    /\ WF_upgradeVars(HandleUpgradeReport) /\ WF_upgradeVars(WatchUpgrades)
    /\ WF_upgradeVars(Hello) /\ WF_upgradeVars(Agent)
    /\ WF_upgradeVars(Helper)

UpgradeFairSpec == UpgradeSpec /\ UpgradeFairness

-----------------------------------------------------------------------------
Statuses == {"sent", "staged", "succeeded", "failed", "rolled_back", "timed_out"}

\* The type invariant: files hold known versions, and a record that is rolling back has an outcome.
UpgradeTypeOK ==
    /\ {bin, running, seen} \subseteq Versions
    /\ {prev, next, manifest} \subseteq Versions \cup {None}
    /\ \A j \in DOMAIN jobs : jobs[j].target \in Versions /\ jobs[j].status \in Statuses
    /\ record # None => record.stage \in {"installing", "installed", "rolling_back"}
    /\ record # None /\ record.stage = "rolling_back" => record.outcome # None
    /\ trusted \cup abandoned \subseteq Versions /\ faults \in 0..MaxFaults
    /\ climate \in Climates

\* The way back is never lost: while the installed binary has not been confirmed by reaching the
\* panel, the helper's record is on disk and .prev is the confirmed binary it names, wherever the
\* helper or the machine stops and whichever of its calls fails (helper.go).  Only a restore that
\* itself failed, which is reported as rollback_failed, leaves another binary behind.
RollbackPossible ==
    LET settled == trusted \cup abandoned
    IN  bin \notin settled => record # None /\ prev = record.prev /\ prev \in settled

\* An upgrade that is over left a confirmed binary: what the runbook says of apply_failed.
OverMeansConfirmed ==
    helper.pc = "idle" /\ record = None => bin \in trusted \cup abandoned

\* The helper gets to an end: unless a call of the rough climate failed for good, after the last
\* interruption the record is gone and the running process is the installed binary, a confirmed one.
Settles ==
    climate = "calm" =>
        <>[](helper.pc = "idle" /\ record = None /\ running = bin /\ bin \in trusted)

\* The panel does not go on showing a success the node took back: when no report is lost, in the
\* end a job that succeeded last has its target running.
PanelLearns ==
    climate = "calm" =>
        <>[](jobs # <<>> /\ jobs[Len(jobs)].status = "succeeded" => running = jobs[Len(jobs)].target)

\* What holds wherever the helper stops: there is a way back to a confirmed binary.
UpgradeInv == UpgradeTypeOK /\ RollbackPossible
=============================================================================
