------------------------------ MODULE Automation ------------------------------
(***************************************************************************)
(* Unattended runs: the cron scheduler (scheduler.go), the webhook entry   *)
(* (api/webhook.go), the recovery of interrupted runs after a restart      *)
(* (api/recovery.go) and the user's editing of automations                 *)
(* (api/automation.go), over the tables automations and automation_runs.   *)
(*                                                                         *)
(* A job is one goroutine of Scheduler.runAutomation or                    *)
(* WebhookHandler.runLoop; it has one run record and one session key, both *)
(* named by the job.  Every actor works on a copy of the automation it has *)
(* read, and repo.UpdateAutomation writes the whole copy back (gorm Save). *)
(* next_run is "none", in the "future" or "due".  Cron expressions are     *)
(* valid, and what a run does inside Gateway.Run is module SessionGateway. *)
(***************************************************************************)
EXTENDS Naturals, FiniteSets

CONSTANTS
  Autos,         \* automation ids; ids grow in the order of creation
  Jobs,          \* goroutines, each started at most once
  Scans,         \* goroutines of Scheduler.Tick that may overlap
  NoAuto, NoJob,
  MaxRetries,    \* Scheduler.MaxRetries
  RecoveryMax,   \* RECOVERY_MAX_ATTEMPTS
  MaxFaults, MaxEdits, MaxCrashes,  \* bounds on the environment, of each kind
  MaxTroubles                       \* and of all kinds together

ASSUME IdsAssumption == Autos \subseteq Nat /\ NoAuto \notin Autos /\ NoJob \notin Jobs
ASSUME BoundsAssumption ==
  {MaxRetries, MaxFaults, MaxEdits, MaxCrashes, MaxTroubles} \subseteq Nat /\ RecoveryMax \in Nat \ {0}

VARIABLES
  rows,      \* the automations table
  records,   \* the automation_runs table; the record of job j is records[j]
  list,      \* what a scan has listed and not yet looked at
  edit,      \* the row an UpdateAutomationHandler has read, changed and not yet saved
  pc,        \* where a job is
  auto,      \* the automation of a job
  copy,      \* the job's copy of the row
  channel,   \* what started the job
  tries,     \* failed calls of Runner.Run
  outcome,   \* runErr
  running,   \* Scheduler.running and WebhookHandler.running
  recovery,  \* where RecoverUnfinishedRuns is
  listed,    \* the records recovery has listed and not yet dealt with
  current,   \* the record recovery is resuming
  resumed,   \* how often recovery has started to resume a record,
  spoiled,   \* and how often of these the end of it was not recorded
  missed,    \* the records this recovery could not deal with
  spent      \* what the environment has used of its bounds

jobVars == <<pc, auto, copy, channel, tries, outcome>>
recoveryVars == <<recovery, listed, current, resumed, spoiled, missed>>
vars == <<rows, records, list, edit, jobVars, running, recoveryVars, spent>>

Channels == {"cron", "webhook"}

Row == [status  : {"absent", "enabled", "disabled", "deleted"},
        trigger : Channels,
        token   : {"none", "given"},
        next    : {"none", "future", "due"}]

NoRow == [status |-> "absent", trigger |-> "cron", token |-> "none", next |-> "none"]

Record == [status : {"absent", "running", "done", "failed"}, attempts : 0 .. RecoveryMax]

(* A job is in the running map of its channel in these places.             *)
Live == {"opening", "executing", "marking", "saving", "leaving"}

NotListed == RecoveryMax + 1
NoEdit == [auto |-> NoAuto, row |-> NoRow]

TypeOK ==
  /\ rows \in [Autos -> Row]
  /\ records \in [Jobs -> Record]
  /\ list \in [Scans -> [Autos -> Row]]
  /\ edit \in [auto : Autos \cup {NoAuto}, row : Row]
  /\ pc \in [Jobs -> {"new", "admitting", "refused", "done", "lost"} \cup Live]
  /\ auto \in [Jobs -> Autos \cup {NoAuto}]
  /\ copy \in [Jobs -> Row]
  /\ channel \in [Jobs -> Channels]
  /\ tries \in [Jobs -> 0 .. MaxRetries]
  /\ outcome \in [Jobs -> {"none", "ok", "failed"}]
  /\ running \in [Channels -> SUBSET Autos]
  /\ recovery \in {"starting", "scanning", "resuming", "idle"}
  /\ listed \in [Jobs -> 0 .. NotListed]
  /\ current \in Jobs \cup {NoJob}
  /\ resumed \in [Jobs -> Nat] /\ spoiled \in [Jobs -> Nat] /\ missed \subseteq Jobs
  /\ spent \in [fault : 0 .. MaxFaults, edit : 0 .. MaxEdits, crash : 0 .. MaxCrashes]

NothingListed == [s \in Scans |-> [a \in Autos |-> NoRow]]
NoneInterrupted == [j \in Jobs |-> NotListed]
NoneRunning == [c \in Channels |-> {}]

Init ==
  /\ rows = [a \in Autos |-> NoRow]
  /\ records = [j \in Jobs |-> [status |-> "absent", attempts |-> 0]]
  /\ list = NothingListed
  /\ edit = NoEdit
  /\ pc = [j \in Jobs |-> "new"]
  /\ auto = [j \in Jobs |-> NoAuto]
  /\ copy = [j \in Jobs |-> NoRow]
  /\ channel = [j \in Jobs |-> "cron"]
  /\ tries = [j \in Jobs |-> 0]
  /\ outcome = [j \in Jobs |-> "none"]
  /\ running = NoneRunning
  /\ recovery = "starting"
  /\ listed = NoneInterrupted
  /\ current = NoJob
  /\ resumed = [j \in Jobs |-> 0] /\ spoiled = [j \in Jobs |-> 0] /\ missed = {}
  /\ spent = [fault |-> 0, edit |-> 0, crash |-> 0]

-----------------------------------------------------------------------------
(* Helpers *)

Calm == spent.fault + spent.edit + spent.crash < MaxTroubles

Fault == /\ spent.fault < MaxFaults /\ Calm
         /\ spent' = [spent EXCEPT !.fault = @ + 1]

Edit == /\ spent.edit < MaxEdits /\ Calm
        /\ spent' = [spent EXCEPT !.edit = @ + 1]

Goto(j, p) == pc' = [pc EXCEPT ![j] = p]

(* Save updates the row by its primary key among the rows not deleted.  If *)
(* there is none it inserts, overwriting the deleted row: deleted_at goes  *)
(* back to NULL, and a false enabled is replaced by the column's default.  *)
Saved(a, row) ==
  [rows EXCEPT ![a] = IF @.status = "deleted" THEN [row EXCEPT !.status = "enabled"] ELSE row]

IsCron(row) == row.status = "enabled" /\ row.trigger = "cron"

-----------------------------------------------------------------------------
(* The user *)

(* CreateAutomationHandler: enabled = false is stored as the column's      *)
(* default, true, and only a webhook automation is given a token.          *)
Create(a) ==
  /\ rows[a].status = "absent"
  /\ \A b \in Autos : b < a => rows[b].status # "absent"
  /\ \E trigger \in Channels :
       rows' = [rows EXCEPT ![a] =
                 [status |-> "enabled", trigger |-> trigger, next |-> "none",
                  token |-> IF trigger = "webhook" THEN "given" ELSE "none"]]
  /\ UNCHANGED <<records, list, edit, jobVars, running, recoveryVars, spent>>

(* UpdateAutomationHandler reads the row and changes what was asked for: *)
(* enabled or the trigger.                                               *)
ReadForEdit(a) ==
  /\ edit = NoEdit
  /\ rows[a].status \in {"enabled", "disabled"}
  /\ Edit
  /\ \E row \in {[rows[a] EXCEPT !.status = s] : s \in {"enabled", "disabled"}}
               \cup {[rows[a] EXCEPT !.trigger = t] : t \in Channels} :
       edit' = [auto |-> a, row |-> row]
  /\ UNCHANGED <<rows, records, list, jobVars, running, recoveryVars>>

SaveEdit(a) ==
  /\ edit.auto = a
  /\ rows' = Saved(a, edit.row)
  /\ edit' = NoEdit
  /\ UNCHANGED <<records, list, jobVars, running, recoveryVars, spent>>

(* DeleteAutomationHandler: a soft delete. *)
Delete(a) ==
  /\ rows[a].status \in {"enabled", "disabled"}
  /\ Edit
  /\ rows' = [rows EXCEPT ![a].status = "deleted"]
  /\ UNCHANGED <<records, list, edit, jobVars, running, recoveryVars>>

-----------------------------------------------------------------------------
(* Scheduler.scan.  Tick starts a goroutine for each tick, whether or not  *)
(* the one before has ended.                                               *)

Scanning(s) == \E a \in Autos : list[s][a] # NoRow

(* The head of the list: rows come in the order of creation. *)
Heads(s, a) == /\ list[s][a] # NoRow
               /\ \A b \in Autos : b < a => list[s][b] = NoRow

Looked(s, a) == list' = [list EXCEPT ![s] = [@ EXCEPT ![a] = NoRow]]

AllStarted == \A j \in Jobs : pc[j] # "new"

(* The goroutine that is started next.  One is as good as another, so the  *)
(* choice among those not started is left to CHOOSE.                       *)
Fresh(j) == pc[j] = "new" /\ j = CHOOSE k \in Jobs : pc[k] = "new"

ListCron(s) ==
  /\ ~Scanning(s)
  /\ list' = [list EXCEPT ![s] = [a \in Autos |-> IF IsCron(rows[a]) THEN rows[a] ELSE NoRow]]
  /\ UNCHANGED <<rows, records, edit, jobVars, running, recoveryVars, spent>>

(* next_run is NULL: compute it and save the copy. *)
Arm(s, a) ==
  /\ Heads(s, a)
  /\ list[s][a].next = "none"
  /\ \/ rows' = Saved(a, [list[s][a] EXCEPT !.next = "future"]) /\ UNCHANGED spent
     \/ Fault /\ UNCHANGED rows
  /\ Looked(s, a)
  /\ UNCHANGED <<records, edit, jobVars, running, recoveryVars>>

(* Not yet due, or LoadOrStore finds the automation running.  (The last    *)
(* disjunct bounds the model: it has no goroutine left.)                   *)
Skip(s, a) ==
  /\ Heads(s, a)
  /\ \/ list[s][a].next = "future"
     \/ list[s][a].next = "due" /\ a \in running["cron"]
     \/ list[s][a].next = "due" /\ AllStarted
  /\ Looked(s, a)
  /\ UNCHANGED <<rows, records, edit, jobVars, running, recoveryVars, spent>>

(* Fault variant: the check and the store of running are not one step, and *)
(* the check is the one made when the list was read.                       *)
FireUnguarded(s, a, j) ==
  /\ Heads(s, a)
  /\ list[s][a].next = "due"
  /\ Fresh(j)
  /\ running' = [running EXCEPT !["cron"] = @ \cup {a}]
  /\ auto' = [auto EXCEPT ![j] = a]
  /\ copy' = [copy EXCEPT ![j] = list[s][a]]
  /\ channel' = [channel EXCEPT ![j] = "cron"]
  /\ Goto(j, "opening")
  /\ Looked(s, a)
  /\ UNCHANGED <<rows, records, edit, tries, outcome, recoveryVars, spent>>

(* LoadOrStore puts the automation into running; a goroutine with a copy   *)
(* of the listed row is started.                                           *)
Fire(s, a, j) ==
  /\ Heads(s, a)
  /\ list[s][a].next = "due"
  /\ a \notin running["cron"]
  /\ Fresh(j)
  /\ running' = [running EXCEPT !["cron"] = @ \cup {a}]
  /\ auto' = [auto EXCEPT ![j] = a]
  /\ copy' = [copy EXCEPT ![j] = list[s][a]]
  /\ channel' = [channel EXCEPT ![j] = "cron"]
  /\ Goto(j, "opening")
  /\ Looked(s, a)
  /\ UNCHANGED <<rows, records, edit, tries, outcome, recoveryVars, spent>>

-----------------------------------------------------------------------------
(* WebhookHandler.Handle *)

(* GetAutomationByWebhookToken finds an enabled row with the token, for a  *)
(* call that the limit of its token and the signature let through.         *)
Call(j, a) ==
  /\ Fresh(j)
  /\ rows[a].status = "enabled" /\ rows[a].token = "given" /\ rows[a].trigger = "webhook"
  /\ auto' = [auto EXCEPT ![j] = a]
  /\ copy' = [copy EXCEPT ![j] = rows[a]]
  /\ channel' = [channel EXCEPT ![j] = "webhook"]
  /\ Goto(j, "admitting")
  /\ UNCHANGED <<rows, records, list, edit, tries, outcome, running, recoveryVars, spent>>

(* 409: the automation is running. *)
Refuse(j) ==
  /\ pc[j] = "admitting"
  /\ auto[j] \in running["webhook"]
  /\ Goto(j, "refused")
  /\ copy' = [copy EXCEPT ![j] = NoRow]
  /\ channel' = [channel EXCEPT ![j] = "cron"]
  /\ UNCHANGED <<rows, records, list, edit, auto, tries, outcome, running, recoveryVars, spent>>

Admit(j) ==
  /\ pc[j] = "admitting"
  /\ auto[j] \notin running["webhook"]
  /\ running' = [running EXCEPT !["webhook"] = @ \cup {auto[j]}]
  /\ Goto(j, "opening")
  /\ UNCHANGED <<rows, records, list, edit, auto, copy, channel, tries, outcome,
                 recoveryVars, spent>>

-----------------------------------------------------------------------------
(* A job: runAutomation and runLoop *)

(* The session is created under a new key, then the run record.  Without a *)
(* session the scheduler has the automation retried soon, and the webhook  *)
(* answers 500; without a record the run goes on untracked.  Nobody else   *)
(* works on this session or record yet, so this is one step.               *)
Open(j) ==
  /\ pc[j] = "opening"
  /\ \/ /\ records' = [records EXCEPT ![j] = [status |-> "running", attempts |-> 0]]
        /\ Goto(j, "executing")
        /\ UNCHANGED <<outcome, spent>>
     \/ /\ Fault
        /\ Goto(j, "executing")
        /\ UNCHANGED <<records, outcome>>
     \/ /\ Fault
        /\ outcome' = [outcome EXCEPT ![j] = "failed"]
        /\ Goto(j, IF channel[j] = "cron" THEN "saving" ELSE "leaving")
        /\ UNCHANGED records
  /\ UNCHANGED <<rows, list, edit, auto, copy, channel, tries, running, recoveryVars>>

(* What follows the last call of Runner.Run: the webhook saves the row     *)
(* first and marks the record then, the scheduler the other way round.     *)
AfterRun(j) == IF channel[j] = "cron" THEN "marking" ELSE "saving"
AfterSave(j) == IF channel[j] = "cron" THEN "leaving" ELSE "marking"
AfterMark(j) == IF channel[j] = "cron" THEN "saving" ELSE "leaving"

RunSucceeds(j) ==
  /\ pc[j] = "executing"
  /\ outcome' = [outcome EXCEPT ![j] = "ok"]
  /\ tries' = [tries EXCEPT ![j] = 0]
  /\ Goto(j, AfterRun(j))
  /\ UNCHANGED <<rows, records, list, edit, auto, copy, channel, running,
                 recoveryVars, spent>>

(* The scheduler calls Run again, MaxRetries times; the webhook does not. *)
RunFails(j) ==
  /\ pc[j] = "executing"
  /\ IF channel[j] = "cron" /\ tries[j] < MaxRetries
       THEN /\ tries' = [tries EXCEPT ![j] = @ + 1]
            /\ UNCHANGED <<pc, outcome>>
       ELSE /\ outcome' = [outcome EXCEPT ![j] = "failed"]
            /\ Goto(j, AfterRun(j))
            /\ tries' = [tries EXCEPT ![j] = 0]
  /\ UNCHANGED <<rows, records, list, edit, auto, copy, channel, running, recoveryVars, spent>>

(* MarkAutomationRunStatus, done or failed; run.Attempts is still 0. *)
Finished(j) == [status |-> IF outcome[j] = "ok" THEN "done" ELSE "failed", attempts |-> 0]

MarkRecord(j) ==
  /\ pc[j] = "marking"
  /\ \/ /\ records' = IF records[j].status = "absent" THEN records
                      ELSE [records EXCEPT ![j] = Finished(j)]
        /\ UNCHANGED spent
     \/ Fault /\ UNCHANGED records
  /\ Goto(j, AfterMark(j))
  /\ UNCHANGED <<rows, list, edit, auto, copy, channel, tries, outcome, running, recoveryVars>>

(* advanceNext sets next_run to the next time, or to one minute from now   *)
(* after a failure; runLoop sets only last_run.  Nobody uses the copy, or  *)
(* the count of tries, after its last use, and the model clears it there.  *)
Advanced(j) == IF channel[j] = "cron" THEN [copy[j] EXCEPT !.next = "future"] ELSE copy[j]

SaveRow(j) ==
  /\ pc[j] = "saving"
  /\ \/ rows' = Saved(auto[j], Advanced(j)) /\ UNCHANGED spent
     \/ Fault /\ UNCHANGED rows
  /\ copy' = [copy EXCEPT ![j] = NoRow]
  /\ Goto(j, AfterSave(j))
  /\ UNCHANGED <<records, list, edit, auto, channel, tries, outcome, running, recoveryVars>>

(* Fault variant: the automation stays in running after a failure. *)
LeaveAfterSuccess(j) ==
  /\ pc[j] = "leaving"
  /\ running' = IF outcome[j] = "failed" THEN running
                ELSE [running EXCEPT ![channel[j]] = @ \ {auto[j]}]
  /\ Goto(j, "done")
  /\ UNCHANGED <<rows, records, list, edit, auto, copy, channel, tries, outcome,
                 recoveryVars, spent>>

(* The deferred running.Delete; the goroutine's variables are gone. *)
Leave(j) ==
  /\ pc[j] = "leaving"
  /\ running' = [running EXCEPT ![channel[j]] = @ \ {auto[j]}]
  /\ Goto(j, "done")
  /\ copy' = [copy EXCEPT ![j] = NoRow]
  /\ channel' = [channel EXCEPT ![j] = "cron"]
  /\ outcome' = [outcome EXCEPT ![j] = "none"]
  /\ UNCHANGED <<rows, records, list, edit, auto, tries, recoveryVars, spent>>

-----------------------------------------------------------------------------
(* RecoverUnfinishedRuns, once after each start of the process and at the  *)
(* same time as the first scan.                                            *)

(* Fault variant: every record is listed. *)
ListAnyRecord ==
  [j \in Jobs |-> IF records[j].status # "absent" THEN records[j].attempts ELSE NotListed]

Unfinished ==
  [j \in Jobs |-> IF records[j].status = "running" THEN records[j].attempts ELSE NotListed]

ListUnfinished ==
  /\ recovery = "starting"
  /\ \/ listed' = Unfinished /\ recovery' = "scanning" /\ UNCHANGED <<missed, spent>>
     \/ Fault /\ recovery' = "idle" /\ missed' = Jobs /\ UNCHANGED listed
  /\ UNCHANGED <<rows, records, list, edit, jobVars, running, current, resumed, spoiled>>

(* Fault variant: the first record dealt with ends the recovery. *)
DealtWithAll(j) == listed' = NoneInterrupted

DealtWith(j) == listed' = [listed EXCEPT ![j] = NotListed]

(* GetAutomationByID does not find the automation, or fails for any other  *)
(* reason: the run is given up either way.                                 *)
GiveUp(j) == records' = [records EXCEPT ![j] = [status |-> "failed", attempts |-> listed[j]]]

Abandon(j) ==
  /\ recovery = "scanning"
  /\ listed[j] # NotListed
  /\ \/ /\ rows[auto[j]].status = "deleted"
        /\ GiveUp(j)
        /\ UNCHANGED <<missed, spent>>
     \/ /\ Fault
        /\ GiveUp(j) \/ UNCHANGED records
        /\ missed' = missed \cup {j}
  /\ DealtWith(j)
  /\ UNCHANGED <<rows, list, edit, jobVars, running, recovery, current, resumed, spoiled>>

(* Gateway.Run is called with the session key of the record. *)
Resume(j) ==
  /\ recovery = "scanning"
  /\ listed[j] # NotListed
  /\ rows[auto[j]].status # "deleted"
  /\ recovery' = "resuming"
  /\ current' = j
  /\ resumed' = [resumed EXCEPT ![j] = @ + 1]
  /\ UNCHANGED <<rows, records, list, edit, jobVars, running, listed, spoiled, missed, spent>>

(* Fault variant: one resume more than allowed. *)
RetriedOnceMore(n) ==
  [status |-> IF n + 1 > RecoveryMax THEN "failed" ELSE "running", attempts |-> n + 1]

(* The record after a resume that failed, by the attempts listed. *)
Retried(n) ==
  [status |-> IF n + 1 >= RecoveryMax THEN "failed" ELSE "running", attempts |-> n + 1]

ResumeEnds(j) ==
  /\ recovery = "resuming" /\ current = j
  /\ \E record \in {[status |-> "done", attempts |-> listed[j]], Retried(listed[j])} :
       \/ records' = [records EXCEPT ![j] = record] /\ UNCHANGED <<spoiled, missed, spent>>
       \/ /\ Fault
          /\ spoiled' = [spoiled EXCEPT ![j] = @ + 1] /\ missed' = missed \cup {j}
          /\ UNCHANGED records
  /\ recovery' = "scanning"
  /\ current' = NoJob
  /\ DealtWith(j)
  /\ UNCHANGED <<rows, list, edit, jobVars, running, resumed>>

EndRecovery ==
  /\ recovery = "scanning"
  /\ listed = NoneInterrupted
  /\ recovery' = "idle"
  /\ UNCHANGED <<rows, records, list, edit, jobVars, running, listed, current, resumed, spoiled, missed, spent>>

-----------------------------------------------------------------------------
(* The environment *)

(* Time passes the next_run of a row. *)
Clock(a) ==
  /\ rows[a].next = "future"
  /\ rows' = [rows EXCEPT ![a].next = "due"]
  /\ UNCHANGED <<records, list, edit, jobVars, running, recoveryVars, spent>>

(* The process dies, and a new one starts. *)
Crash ==
  /\ spent.crash < MaxCrashes /\ Calm
  /\ spent' = [spent EXCEPT !.crash = @ + 1]
  /\ pc' = [j \in Jobs |-> IF pc[j] \in Live \cup {"admitting"} THEN "lost" ELSE pc[j]]
  /\ copy' = [j \in Jobs |-> NoRow]
  /\ channel' = [j \in Jobs |-> "cron"]
  /\ tries' = [j \in Jobs |-> 0]
  /\ outcome' = [j \in Jobs |-> "none"]
  /\ list' = NothingListed
  /\ edit' = NoEdit
  /\ running' = NoneRunning
  /\ recovery' = "starting"
  /\ listed' = NoneInterrupted
  /\ current' = NoJob
  /\ spoiled' = [j \in Jobs |-> IF j = current THEN spoiled[j] + 1 ELSE spoiled[j]]
  /\ missed' = {}
  /\ UNCHANGED <<rows, records, auto, resumed>>

ScanStep(s) ==
  \/ ListCron(s)
  \/ \E a \in Autos : Arm(s, a) \/ Skip(s, a) \/ \E j \in Jobs : Fire(s, a, j)

JobStep(j) ==
  \/ Refuse(j) \/ Admit(j)
  \/ Open(j) \/ RunSucceeds(j) \/ RunFails(j)
  \/ MarkRecord(j) \/ SaveRow(j) \/ Leave(j)

RecoveryStep ==
  \/ ListUnfinished \/ EndRecovery
  \/ \E j \in Jobs : Abandon(j) \/ Resume(j) \/ ResumeEnds(j)

UserStep ==
  \E a \in Autos : Create(a) \/ ReadForEdit(a) \/ SaveEdit(a) \/ Delete(a)

Next ==
  \/ UserStep
  \/ \E s \in Scans : ScanStep(s)
  \/ \E j \in Jobs, a \in Autos : Call(j, a)
  \/ \E j \in Jobs : JobStep(j)
  \/ RecoveryStep
  \/ \E a \in Autos : Clock(a)
  \/ Crash

Spec == Init /\ [][Next]_vars

(* The ticker fires for ever, goroutines are scheduled, and Gateway.Run    *)
(* returns because the engine limits it (ENGINE_TIMEOUT, 90 s).            *)
FairSpec ==
  /\ Spec
  /\ \A s \in Scans : WF_vars(ScanStep(s))
  /\ \A j \in Jobs : WF_vars(JobStep(j))

-----------------------------------------------------------------------------
(* Properties *)

(* The running maps of scheduler.go:55 and webhook.go:84 hold exactly the  *)
(* automations with a job under way, and each of them has one such job: no *)
(* tick and no webhook call enters an automation twice, whatever stale     *)
(* list it works from, and no failure leaves an automation locked.         *)
LockExact ==
  \A c \in Channels :
    /\ running[c] = {auto[j] : j \in {k \in Jobs : pc[k] \in Live /\ channel[k] = c}}
    /\ \A j, k \in Jobs :
         /\ {pc[j], pc[k]} \subseteq Live
         /\ channel[j] = c /\ channel[k] = c
         /\ auto[j] = auto[k]
         => j = k

(* What recovery does with a run that a crash has cut off is final: once   *)
(* its record is done or failed, no later start of the process writes it   *)
(* or takes it up again (recovery.go:54, automationrun.go:12-13).          *)
RecordFinal ==
  [][\A j \in Jobs :
       /\ pc[j] = "lost"
       /\ records[j].status \in {"done", "failed"}
       => records'[j] = records[j]]_vars

(* Over all restarts, recovery starts a run at most RecoveryMax times      *)
(* again, plus once for every resume of it that the process did not        *)
(* survive, or whose end it could not store (recovery.go:18-20: such a     *)
(* resume leaves the attempts counter where it was).                       *)
ResumeBudget == \A j \in Jobs : resumed[j] <= RecoveryMax + spoiled[j]

(* When a recovery is over, no run that a crash cut off is left untried:   *)
(* each is done, failed, or counted as a failed attempt, also if a run     *)
(* before it in the list failed again (recovery.go:64-95), a statement     *)
(* about another run failed, or the process died in the middle of an       *)
(* earlier recovery.  Only a run about which a statement of this recovery  *)
(* failed, be it the listing, may be left behind.                          *)
InterruptedRunIsTried ==
  recovery = "idle" =>
    \A j \in Jobs \ missed :
      pc[j] = "lost" /\ records[j].status = "running" => records[j].attempts > 0

(* A due automation is run: its next_run does not stay in the past, except *)
(* when it is disabled, deleted or changed to a webhook, or when the model *)
(* has no goroutine left (scheduler.go:115-154, 288-301).                  *)
DueIsRun ==
  \A a \in Autos :
    (IsCron(rows[a]) /\ rows[a].next = "due")
    ~> (~IsCron(rows[a]) \/ rows[a].next # "due" \/ AllStarted)

(* An automation that is paused stays so until the user enables it         *)
(* (examples/automations/24h-self-improve.md:42-45).                       *)
PauseSticks ==
  [][\A a \in Autos :
       /\ rows[a].status = "disabled"
       /\ rows'[a].status = "enabled"
       => edit.auto = a /\ edit.row.status = "enabled"]_vars
==============================================================================
