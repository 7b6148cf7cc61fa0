# A verification project for goMultiAgentV2

goMultiAgentV2 is a multi-agent CodeAgent platform: a Go server (`server/`) that runs
coding agents for users, plans and tracks their work, runs background tasks on several
nodes and reacts to schedules, webhooks and chat messages; a Vue front end (`web/`); a
command line client (`tool/cli`) and an LLM proxy (`tool/workbuddyLLMAPI`).  This
directory models the parts of the server whose correctness depends on the order in which
things happen, checks the models with TLC and proves their most important properties
with TLAPS.  Paths below are relative to `server/internal/` unless they start with `docs/`,
`examples/` or `cmd/`.

Contents: [inventory](#inventory), [modules](#modules-and-the-code-they-model),
[runs](#runs), [fairness](#fairness), [proofs](#proofs),
[what is abstracted](#what-is-abstracted), [findings](#findings),
[divergences not shown by a run](#divergences-not-shown-by-a-run),
[not modelled](#not-modelled), [plan](#plan).

## Inventory

### How the parts interact

```
 web / SSE ─┐                                   ┌─ engine ── agent framework ── LLM
 cron ──────┤                                   │    ├─ GoalEnforcer / PlanEnforcer / StateEnforcer
 webhook ───┼─> api.Gateway (one turn per ──────┤    ├─ tools: codeact, files, git -> executor policy
 recovery ──┤   session) ─ budget ─ history     │    └─ spawn of background runs
 IM ────────┤                                   │              │
 A2A ───────┘                                   │              v
                                                │   taskrun.QueueService (every node)
                        checkpoint <────────────┘      │ lease, poll, cancel   │ Observer
                        approval by a person           v                       v
                                              task_run_queue (shared table)  worktree merge
```

Everything that starts an agent for a conversation goes through `Gateway.Run` or
`Gateway.Stream`.  An agent may spawn background runs, which any node of the deployment
takes from the shared queue table.  The components share the relational database; the
locks (session locks, the `running` maps, the cancel registry) are in the memory of one
process and are gone after a crash.

### Components

| component | state | operations | what is hard | what makes it correct |
|---|---|---|---|---|
| task-run queue (`taskrun/queue`) | one row per run: status, worker, lease, attempts, created_at | Enqueue, ClaimNext, UpdateStatusIf, RequeueExpired, Get | statements of several nodes interleave; a sweep is three statements, each of which may fail | one executor, bounded retries, final terminal statuses, no lost run |
| QueueService (`taskrun/queue_service.go`) | cancel funcs by run, goroutines with two helpers each | Spawn, Cancel, poll loop, executeLeased, leaseKeepAlive, cancelWatcher, Close | reads before writes, leases that run out, crashes, a cancel on another node | as above, and: a cancel takes effect, the registry holds live executions only |
| session gateway (`api/gateway.go`) | table of reference-counted locks, sessions, messages, usage | Run, Stream, lockSession, unlockSession, DeleteSession | lookup by key on both sides of a long call; a check long before the charge; deletion without the lock | turns exclude each other, no entry leaks, dialogue stays paired, budgets are kept |
| cron scheduler (`scheduler`) | `running`, the automations table | Tick, scan, runAutomation, advanceNext | overlapping scans work from lists; whole rows are written back | one run per automation at a time, due ones run, edits survive |
| webhook entry (`api/webhook.go`) | `running`, rate limiter | Handle, runLoop | the guard must be released on every path | one run per automation at a time |
| recovery (`api/recovery.go`) | automation_runs | RecoverUnfinishedRuns | runs beside the first scans of a new process; may itself be interrupted | each interrupted run is tried, a bounded number of times, and its end is final |
| goal and plan contracts (`goal`, `plan`, `agent/goal.go`, `agent/plan.go`) | goals and plans by scope, nudges | create, patch and extend; the enforcers' hooks around a model call | many turns of the model between two decisions; streaming is decided before the answer is known | the run ends, and shows no part of an answer that was held back |
| artifact store, StateEnforcer (`artifact`, `agent/state.go`) | state files of a session | Write, Append, the hook of the first call | a crash or a failure in the middle of a write | progress reported as written reaches the next run |
| engine, guard rails (`engine`, `agent/guard.go`) | calls and iterations used, the text so far | Chat, Stream, the budgets | events, timeouts, many ways to end | every run ends; the caller learns how |
| command policy, checkpoint approval (`executor`, `tool/codeact.go`, `tool/git.go`, `api/checkpoint.go`) | rules; checkpoints: pending, approved, rejected; audit rows | a call of a tool; approve (and execute), reject | read-check-act on one row by two persons; a command whose answer is lost | a denied command never runs, a held one only for those who approved it |
| worktree Manager, in-process runs (`worktree`, `taskrun/taskrun.go`) | entries in memory, branches, checkouts, the user's repository | Create, Finalize by a hook, commits of the agent's tools | merges of several runs, a conflict, branches the agent made itself | no committed work is lost |
| evaluation (`eval`, `api/eval.go`) | datasets, cases, runs, results | CRUD, a run in the background | edits and deletions beside a run; a deletion of several statements | a run that says done is complete, its counts are its results' |
| instructions and their optimisation (`promptiter`, `repo/instruction.go`) | the instruction of each user, iterations | edit, optimise, roll back | two iterations, and people, on one row | what is refused is undone |
| knowledge bases (`knowledge`, `api/knowledge.go`) | bases with counts, chunks in SQLite or pgvector | create, update, delete, index, remove | counts are read and then written; several stores and statements | the counts are the store's |
| evolution, skills, regression (`evolution`, `skillrepo`, `regression`, `api/skill_candidate.go`) | candidates, the shared library, evaluation sets of skills | scan, approve with publication and check, reject | a check of what is published already; one library for all users | what is in the library passed its check |
| users, tenants, sign-in (`api/auth.go`, `api/admin.go`, `api/tenant.go`, `api/apikey.go`) | users, tenants, tokens, keys | register, sign in, the administrators' handlers | rows are read, checked and written whole; tokens outlive the role they carry | an administrator remains; nobody is in a deleted tenant |
| providers and models (`api/provider.go`, `api/model.go`, `provider/discover.go`) | a provider, the cached list, the rows of its models | sync, enable, choose a default, change, delete | a list fetched from outside, choices beside a sync | choices survive a sync; one default |
| migrations (`repo/migrate.go`, `repo/db.go`) | versions applied, indexes, columns, secrets | `NewDB` at each start | no transaction around a migration and its record; several nodes start at once | no secret is lost; a recorded version is done |
| IM webhook (`api/im.go`) | `running` by sender | Handle | the guard is by sender, the session by chat | one reply per message |
| rate limiters (`middleware/ratelimit.go`), cron expressions (`cron`), tool search | – | pure functions of a clock or a text | edges | the limit; the next matching minute |
| session store (`sessionstore`) | event log of the framework | append, read, trim | called by the external framework | order |
| marketplace, MCP servers, notification, A2A, metrics, configuration | rows, files | handlers | I/O | – |
| front end, CLI, LLM proxy, deployment | – | clients of the HTTP interface | – | – |

`PROJECT.json` lists every component with its status, and every hazard at its line.

## Modules and the code they model

| module | models | extends / instantiates |
|---|---|---|
| `QueueStore` | what one statement of `taskrun/queue/sqlite.go` does to a row | |
| `TaskQueue` | `taskrun/queue_service.go`: nodes, executions, helpers, Cancel, Close, crashes | extends `QueueStore`; `Dispatch == INSTANCE RunDispatch` |
| `RunDispatch` | abstract: the status diagram and promise of `taskrun/queue/queue.go`, each step of which `taskrun/queue/memory.go` does under one mutex | |
| `SessionGateway` | `api/gateway.go` with `repo/session.go`, `api/history.go`, `api/usage.go`, `repo/budget.go` | `Turns == INSTANCE SessionTurns` |
| `SessionTurns` | abstract: requests of a session take turns and all get theirs | |
| `Automation` | `scheduler/scheduler.go`, `api/webhook.go`, `api/recovery.go`, `api/automation.go` over `repo/automation*.go` | |
| `Contracts` | values of goals and plans, and what the operations of `goal/goal.go` and `plan/plan.go` make of them | |
| `AgentRun` | `engine`, `agent/team.go`, the enforcers, the guard rails, state files | extends `Contracts` |
| `Approvals` | `executor/policy.go`, `executor/blacklist.go`, `tool/codeact.go`, `api/checkpoint.go` | |
| `Worktrees` | `worktree/worktree.go`, `taskrun/taskrun.go`, `tool/git.go` | |
| `Evaluation` | `eval/service.go`, `repo/eval.go`, `api/eval.go` | |
| `PromptIter` | `promptiter/optimizer.go`, `repo/instruction.go`, `api/promptiter.go` | |
| `Knowledge` | `knowledge/manager.go`, `knowledge/store`, `repo/knowledge.go` | |
| `Skills` | `evolution`, `regression`, `skillrepo`, `api/skill_candidate.go` | |
| `Access` | `api/auth.go`, `api/admin.go`, `api/tenant.go`, `middleware/auth.go` | |
| `Migrations` | `repo/migrate.go`, `repo/db.go` | |
| `Models` | `api/model.go`, `provider/discover.go`, `repo/model.go` | |
| `MCTaskQueue`, `MCSessionGateway` | symmetry sets for TLC | extend the above |
| `MCProgress` | `AgentRun` beside an instance of `SessionGateway` | extends the one, instantiates the other |
| `MCComponents` | instances of the nine modules from `Approvals` to `Models` | instantiates them |
| `TaskQueueProofs`, `SessionGatewayProofs`, `AutomationProofs`, `AgentRunProofs` | theorems about the module of that name | extend it and `TLAPS` |
| `ExecutionProofs` | theorems about `Approvals` and `Worktrees` | extends `MCComponents` and `TLAPS` |
| `LearningProofs` | theorems about `PromptIter` and `Skills` | extends `ExecutionProofs` |
| `CorpusProofs` | theorems about `Knowledge` and `Evaluation`; lemmas on counting and on functions along a count | extends `LearningProofs` |
| `AdministrationProofs` | theorems about `Models`, `Migrations` and `Access`, and the types of all nine | extends `CorpusProofs` |

`MCProgress` and `MCComponents` put components that share no state into one run: the
initial state picks one of them (`part`), which then takes its own steps; the variables of
the others are `Off` or stay as they are.  A behaviour of the run is a behaviour of one
component, and each property speaks of its own.  The constants of the instances are those
of `MCComponents` itself, with values in `Components.cfg` only, so that what is proved of
`MCComponents!Spec` is proved of each component for every value of its constants.

Definitions marked "Fault variant" are not part of any next-state relation: each is a
definition as a plausible mistake would have left it, kept to see that a property
notices it (`PROJECT.json`, "mutants").

### TaskQueue

`row` is the shared table; `exec[e]` is one goroutine of `executeLeased` with its two
helpers; `running[n]` is the map of cancel funcs of node n; `request[c]` is one call of
`Cancel`.  `pc` of an execution names the status it is about to write.

| code | actions |
|---|---|
| Spawn | `Spawn` |
| pollLoop, pollOnce, RequeueExpired, ClaimNext | `RequeueExpired`, `RequeueFails`, `ClaimNext`, `StopClaiming` |
| executeLeased | `StartExecution`, `RunReturns`, `WriteTerminal`, `TerminalRefused`, `WriteCanceled`, `GiveUp`, with `EndExec` for its deferred calls |
| leaseKeepAlive | `KeepAliveRead`, `KeepAliveReadFails`, `KeepAliveWrite`, `KeepAliveRefused`, `KeepAliveWriteFails` |
| cancelWatcher | `WatchCancel`, `WatchFails` |
| Cancel | `CallCancel`, `CancelRead`, `CancelQueued`, `CancelRunning`, `CancelLostRace`, `CancelFails`, `CancelSignal` |
| Close, process life cycle, clock | `Close`, `Closed`, `Crash`, `Restart`, `LeaseExpires`, `LeaseMissed` |

Every read of the row is a step of its own whenever the code writes later on the
strength of it.  `LeaseExpires` is the clock on a row nobody works on; `LeaseMissed` is an
execution that stalls past its lease, bounded by `MaxStalls`.

### SessionGateway

A request goes through `new → waiting → opening → asking → checking → loading → calling →
charging → answering → leaving → unlocking → done`.  A lock entry is named by the request
that made it, so that two entries of one session in the course of time are told apart.
`LockEntry`/`LockMutex` are the two halves of `lockSession` (under `Gateway.mu`, then on
`sl.mu`), `UnlockEntry`/`UnlockMutex` those of `unlockSession`.  `OpenSession`, `Ask`,
`CheckBudget`, `LoadHistory`, `PrepareFails` are `prepareRun` (`PrepareFails` stands for
every error return in it); `ModelReturns`, `StreamBreaks` are the two ways a stream of
events ends; `Charge`, `Answer` are `finalize`.  `ClearMessages`, `DropRow` are the two
statements of `DeleteSession`; `Crash` is the process.

### Automation

A job is one goroutine of `runAutomation` or `runLoop`, from `new` through `opening →
executing → marking → saving → leaving` (the webhook saves before it marks) to `done`.
`list[s]` is what a scan has read, `copy[j]` the row a job works on, `edit` the row a user's
update has read: three copies of a row that `Saved`, which is `repo.UpdateAutomation`,
writes back whole.

| code | actions |
|---|---|
| CreateAutomationHandler, UpdateAutomationHandler, DeleteAutomationHandler | `Create`; `ReadForEdit`, `SaveEdit`; `Delete` |
| Scheduler.scan | `ListCron`, `Arm`, `Skip`, `Fire` |
| WebhookHandler.Handle | `Call`, `Refuse`, `Admit` |
| runAutomation, runLoop, advanceNext | `Open`, `RunSucceeds`, `RunFails`, `MarkRecord`, `SaveRow`, `Leave` |
| RecoverUnfinishedRuns | `ListUnfinished`, `Abandon`, `Resume`, `ResumeEnds`, `EndRecovery` |
| clock, process | `Clock`, `Crash` |

`resumed` counts the resumes that were started, `spoiled` those of them that a crash cut
off or whose end could not be stored; `missed` holds the runs about which a statement of the
recovery under way failed.  `Abandon` is any answer of `GetAutomationByID` but a row: a
deleted automation or a failing statement (`GiveUp`).

### AgentRun and Contracts

`pc` is where the run of the orchestrator is: about to call the model, waiting for its
answer, executing a tool, deciding what to make of an answer, or at one of its ends.
Before each call the hooks of `StateEnforcer`, `GoalEnforcer` and `PlanEnforcer` decide on
streaming and reminders; after it they may hold the answer back, up to `MaxGoalNudges` and
`MaxPlanNudges` times.  Tools patch the goal and the plan, with every refusal of the two
stores, and write state files; a crash or an error of the disk can tear the file being
written (`Write` truncates before it writes; `CutOff` leaves any first part of the
content), and the run goes on after an error.  `lost` notes the entries that were reported
as written and left out by a torn write.  The first call of a run is given the files
(`ReadState`); when they cannot be read it goes on without them, and so does the run,
because the hook has noted before that it ran (`unread`).  The framework's loop and the
model are external: the model may answer anything.

| code | actions |
|---|---|
| `Engine.Chat`, `BuildTeam` | `BeginRun`, `StreamDelta`, `Cut`, `ModelFails` |
| hooks before a call, guard rails | `BeforeModel`, `CircuitBreak`, `CircuitBreakTools` |
| hooks after a call | `AnswerHeld`, `AnswerReleased`, `CallsTool` |
| tools of the contracts | `CreateGoal`, `UpdateGoal`, `CreatePlan`, `AddSteps`, `UpdateStep`, `OtherTool` |
| state files, process | `ReadState`, `WriteState`, `FinishWrite`, `WriteFails`, `Crash` |

### Approvals

A command matches a set of rules; the worst decides.  `Allowed`, `Denied` and `Held` are
the three ways of a call through `shell_exec` or a git tool, `Returns` its end.  `Open` is
what both handlers do first, read the row and check it; `Reject` and `RunApproved`, `NotRun`,
`Approve` are what follows, in statements that may fail.  `consent[c]` is history: who was
let through.

### Worktrees

`holds[b]` is the set of commits on branch b.  `Create` and `FallBack` are the two starts of
a run, `Edit`, `GitCommit`, `GitBranch` what an agent does with the git tools in its
directory, `Finalize`, `LockMerge`, `Merged`, `NotMerged`, `Cleanup` the hook at its end,
under `mergeMu`.  `wd[r]` is the directory a run works in, its own checkout or, after a
fall-back, the repository's, and `head[d]` the branch a directory is on: a run that fell
back and makes a branch moves the directory the others are merged into.  `Finalize` does
nothing when it cannot make an executor.

### Evaluation

`StartRun`, `Attempt`, `ResultNotStored`, `Finish` are the background goroutine, whose two
nested loops are `work[e].at`, the place in the list of cases, and `work[e].attempt`;
`CasesNow` is that list, the live cases in the order of their ids;
`CreateDataset`, `DeleteDataset` (four statements), `CreateCase`, `DeleteCase` the handlers;
`UpdateDataset` and `UpdateCase` read a row that `SaveDataset` and `SaveCase` write back whole,
which puts a row deleted meanwhile back; `Crash` leaves rows `running`, as the code does.
`deleted` is history.

### PromptIter

An iteration goes through `StartOptimize`, `Baseline`, `ReadCurrent`, `Reflect`, `Apply`,
`Accept` or `Reject`, `SaveVerdict`; `Rollback` is the handler, `UpdateInstruction` a person.
`sure` holds the iterations nobody has interfered with, which is what `RefusedIsUndone` is
about.

### Knowledge

`IndexDocument` cuts a text as `chunkText` does, into rows that a request stores from the
least index on (`todo`, `First`); `UpsertRow` (pgvector) or `DeleteOldRow` and
`InsertRow` (SQLite) store a chunk; `CountDocuments`, `CountChunks` and `WriteCounts` are
`refreshCounts`;
`OpenForDelete`, `DeleteVectors`, `DeleteKnowledgeBase` take a base away.  `alone` and `exact`
tell the requests that had the base for themselves.

### Skills

`ProcessSession`, `Extract`, `LookForDuplicate`, `CreateCandidate` are a scan; `Load`,
`Register`, `PublishShared`, `Check`, `CheckPasses` or `CheckFails`, `RemoveShared`, `Approve`,
`Reject` the handlers.  The library is by name and everyone's; candidates are by user.  A
publication may fail and leave a part of the file.  The server always has a checker
(`cmd/server/main.go:792-793`); the branch without one is taken in tests only and left out.

### Access

Every handler of an administrator is a read (`CreateUser`, `UpdateUser`, `DisableUser`, ...,
with the checks on what was read), `CountAdmins` where the code counts, and a write
(`Insert`, `Save`, `SaveTenant`, `Delete`, `MoveUserToTenant`).  Tokens carry the role of the time of
signing in; keys go by the role of now.  `excuse` notes that another request has written
in between, that the caller is no active administrator any more, or that counting failed.

### Migrations

`boot[n]` is where process n is in `NewDB`: reading the versions, one migration after
another, each a step or several, `Record`, then `seedRoles` and serving.

### Models

One provider: `SyncProviderModels` and `FetchModels` (through the cache), `UpsertModel`,
`CreateModel`, `SaveModel` for every model of the list; `UpdateModel` and `PatchModel` are
the choices; `CreateProvider`, `UpdateProvider`, `SaveProvider`, `DeleteProvider`,
`DropProvider` the provider itself.  `late` notes that a row was written since it was read.

## Runs

| run | question | bounds, and why they are enough |
|---|---|---|
| `taskqueue_timely` | without stalls: one executor, bounded retries, clean cancels, and every step one that `RunDispatch` allows | one run, two nodes, two goroutines, two cancels, three crashes, two retries: both goroutines can be at the run, every retry can be used up, and two cancels race each other and the sweep |
| `taskqueue_settles` | does every run end, though nodes crash | two runs, so that `ClaimNext` chooses and ending one execution may harm the other; two crashes exhaust the one retry |
| `taskqueue_hostile` | what holds when an execution stalls and a statement fails | one stall, one failing statement, one cancel, two nodes: the stalled owner meets the new one |
| `taskqueue_converges` | does an accepted cancel end as canceled | a failing statement and a closing node; `RunFunc` may never return |
| `taskqueue_cancel_lost` (violation) | does a cancel reach the execution | one run, one cancel, nothing fails |
| `sessiongateway_turns` | mutual exclusion, the lock table, budgets, the dialogue | three requests over two sessions, in every assignment: a session with one in, one waiting and one that comes later and makes a new entry, or two sessions that pass the guard together; one failing statement, one deletion, one crash |
| `automation_unattended` | locks, due runs, recovery | one automation, two jobs (so that one is interrupted and one is fresh, or two fight for the lock), one retry, one recovery attempt, any two of a fault, an edit and a crash (or two crashes) |
| `automation_paused` (violation) | does a pause stick | one edit |
| `progress` | is every request served, does every run of an agent end, with nothing shown early and no progress lost | gateway: three requests of one session, the most contention; agent: two runs, one nudge each, four calls, two iterations of tools, a plan that grows by one step, two entries in each log, one crash and one failing read or write: every budget and every nudge can be used up, an entry can be lost with the next one safe, and the second run can find a torn file |
| `components` | what nine components promise, each under its faults | two of whatever competes: calls and persons, runs, cases and repeats, iterations and users, requests on one base, requests on two candidates for one name, handlers of administrators (three in all), starting nodes, requests on two models of two addresses (four in all); one failing statement and one crash where the code handles them |
| `approvals_rejected` (violation) | does a rejected command stay unexecuted | one call, two persons |
| `migrations_index` (violation) | does a migration that is run again do its work | one node, one crash |

Symmetry is used for goroutines, nodes, clients, requests and sessions, which are compared
for equality only, and only in runs without liveness properties; `Automation` starts its
jobs in the order `CHOOSE` picks them (`Fresh`), and needs none.  Every counter that
could grow without end is bounded by a constant (`MaxCrashes`, `MaxCloses`, `MaxStalls`,
`MaxFaults`, `MaxDeletes`, `MaxEdits`, `MaxTroubles`, `MaxRequests`, ...), and jobs, requests and goroutines
are finite sets used up by the model; the properties never speak of the bound, except
`DueIsRun`, which excuses a tick that finds no goroutine left, and the budgets that excuse
one deviation per failed statement.  `RefusedIsUndone`, `CountsRight`,
`LibraryChecked`, `AccountsSound` and `ChoicesKept` leave out, by a history variable, exactly
the interference under which the code does not keep its promise, and so do
`ProgressSurvives` (`lost`, `unread`) and `InterruptedRunIsTried` (`missed`); what the code does
then is under [divergences](#divergences-not-shown-by-a-run).  Those properties therefore do
not show that the interference is harmless: they show that nothing else breaks the
promise.  In the same way `SingleExecution`, `OwnerExecutes` and `RetryBudget` are checked without
stalls and `CanceledWasAsked` without failing statements.  `PROJECT.json` says at each hazard
what of it is covered and what is only described.

## Fairness

* `TaskQueue!FairSpec`: goroutines of a live process are scheduled, tickers tick, a database
  statement returns or fails, a closed process ends, a stopped one is restarted by its
  supervisor (`k8s/`), time passes.  A `RunFunc` whose context is canceled returns.
  `BusySpec` adds that every `RunFunc` returns by itself, which a run with a timeout or a
  finite task does; only `EveryRunSettles` needs it.
* `SessionGateway!FairSpec`: a call of the model ends at `ENGINE_TIMEOUT_SECONDS` (90) at
  the latest and the code after it runs: weak fairness.  `LockMutex` is strongly fair
  because a Go mutex in starvation mode is handed to the waiter at its front.
* `AgentRun!FairSpec`: the loop of the framework goes on and the model answers each of its
  requests, weakly fair; nothing is assumed of what it answers, of cuts or of crashes.
* `MCProgress!BothSpec` is the fairness of the gateway and of the agent, each while its
  part runs.
* `Automation!FairSpec`: the ticker of `Scheduler.Start` goes on, goroutines are scheduled,
  and `Gateway.Run` returns.  Nothing is assumed of users, calls, crashes or recovery.

## Proofs

TLAPS checks the following for every value of the constants that satisfies the
assumptions of the modules: ids are distinct from the `No...` values, bounds are naturals,
`RecoveryMax` and `MaxAttempts` are not zero, the requests of the gateway are finite in
number, automations are numbered, the switches of `AgentRun` are Booleans, an evaluation
makes at least one attempt at a case (`eval/service.go:70` raises what is less to 1), and
a chunk has room for a rune (`chunkTarget` is 800, `knowledge/manager.go:34`).  TLC
evaluates the assumptions on the instances of the runs.  What a theorem assumes beyond
them is in its first words below.

Queue, gateway, automations and runs of the agent

| theorem | says | argument |
|---|---|---|
| `TypeCorrect`, `RegistryCorrect` | types; the cancel registry holds live executions of the right run and node | inductive together: `EndExec` drops a registration by run id, and only `RegistryLive` tells that it is its own or nobody's |
| `RowsConsistent` | a row is running iff it has a worker and a lease; a run exists iff it was enqueued | each statement keeps it row by row (`OneRow`, `SweptRow`) |
| `TerminalFinal` | no step changes a terminal row | from `RowsConsistent` and the conditions of the writes |
| `ReportsSettled` | a run reported to the observers has a terminal row | a report follows an accepted terminal write (`Told`), and the row stays as it is by `TerminalFinal` |
| `ExecutedOnce`, `BudgetKept`, `QueuedCancelClean` | with `MaxStalls = 0`: one executor, at most `MaxAttempts + 1` claims, no executor of a run canceled while queued | inductive `TimelyInv`: a run someone holds is running with a live lease of that node, or settled (`HeldInv`); two holders are one (`UniqueInv`); a renewal in flight has read the attempts that are still there (`SnapInv`); claims are attempts, plus one while running (`ClaimsInv`).  `SingleExecution` alone is not inductive: a lease that could expire under its owner, or an old renewal that could bring an old counter back, would break it in the next step |
| `StallsCounted` | with finitely many goroutines, whatever the environment does: a run is executed by at most one goroutine more than there were stalls | `StalledInv`: of the goroutines and helpers that act for a run there are at most one more than stalls, and no more than stalls while the run waits to be claimed or its lease has run out.  A claim adds one and ends the waiting; a lease somebody acts under runs out only by a stall.  `ExecutedOnce` is the case of no stalls, for executions |
| `RetriesCounted` | whatever the environment does: a run is claimed at most `MaxAttempts + 1` times, plus once per stall | `RetryInv`: the claims of a run are the attempts of its row, plus one while running, plus the stalls; and the same of the attempts that a renewal under way has read and will write back, which may be those of before a requeue.  That the bound takes the renewal into account is what makes it inductive |
| `OwnerFound` | with `MaxStalls = 0`: the row names the node that executes, and its registry reaches the execution | from `TimelyInv` with `Registered` (who works is registered under its run) and `OwnerNamed`: no row is taken from under its execution, so no other registration overwrites its own |
| `CanceledAsked` | with `MaxStalls`, `MaxCloses` and `MaxFaults` zero: only a run somebody asked to cancel ends as canceled | `AskedInv`: a row on its way to canceled was asked for, a canceled context too, a signal still to be sent too, whoever works has a live node, and the row of a run that is worked on is not settled.  Each of the three bounds stands for a thing that cancels a context by design, and the hypothesis says they do not happen |
| `DispatchImplemented` | with `MaxStalls = 0`: every step is one of `RunDispatch` or none for it | what each action does to a row is one of a few changes (`RowStep`); `TimelyInv` says that nobody works on a run that is handed out, so that handing out, taking back and settling map to the abstract steps |
| `GatewayTyped`, `TurnsExclusive`, `LockTableCorrect` | types; one request per session; the table counts its users | inductive `LockInv`: users of a session share one entry, the entry counts them, no two sessions name the same entry, whoever is inside holds the mutex of its entry, and a request not yet begun names no entry.  The lookup by key in `unlockSession` is right only because the count keeps the entry in the table |
| `SessionBudgetKept` | a session oversteps its policy by less than one call | `BudgetInv`: whoever has passed the guard and not yet charged found the usage below the limit, and it is still, because it is alone |
| `UserBudgetKept` | with finitely many sessions: a user oversteps the policy by less than one call for each session | `UserInv` counts the sessions in which a call may still be charged (`Spenders`) as spent; a session enters that set only past the guard, and once, because of the lock |
| `AnswersFollow`, `HistoryKnown` | an answer is stored right after its question; the model is given what was said before it | `DialogInv`: from its question on to its answer, the question of whoever is inside is the last message of its session, and a session without a row has none |
| `TurnsImplemented` | every step is one of `SessionTurns` or none for it | one lemma for each action; `LockMutex` begins a turn because the mutex was free, so nobody was inside (`InsideHolds`) |
| `AutomationTyped` | types; attempts never pass `RecoveryMax` | `AttemptsLeft`: a listed record has an attempt left |
| `LocksExact` | the `running` maps hold exactly the automations with a job under way, one each | inductive: `JobKnown` (a started job has an automation, an admitted one came by webhook), `HeldWhileLive` (in the map iff a live job has it), `OneHolder`; the entry test of `Fire` and `Admit` uses the first direction, `Leave` the last conjunct |
| `ResumesBounded`, `InterruptedTried` | a resume of a run is started `RecoveryMax` times at most, plus once for each that a crash cut off or whose end was not stored; a recovery that is over has tried every interrupted run but those about which one of its statements failed | `RecoveryInv`: resumes of a record show in its attempts, in the attempt it was listed with, or in `spoiled`; what is listed and lost is still running; what was never tried is on the list of the recovery under way or to come, or missed |
| `RecordsFinal` | the record of a run that a crash cut off is not written again once it has ended | an action property from `RecoveryInv`: recovery writes only what it has listed, and the job is lost |
| `RunTyped` | types of a run of the agent: no budget and no number of reminders is passed | with `WritingKnown` (a file is under way exactly while it is written) inductive; `GoalTyped`, `PlanTyped` are the lemmas about `Contracts` |
| `HeldUnseen` | no part of an answer that is held back is shown | `StreamedFree`: a request to the model is streamed only while neither contract is open, no tool runs before its answer, and only of a streamed one is a part passed on.  The property alone says nothing of the text on its way |
| `WrittenSurvives` | progress reported as written reaches the first request of the next run, but for entries a torn write left out and a run that could not read the files | inductive with `RunTyped`: an entry that was reported and not lost is in the file or in the write under way, a write that is cut off loses what it did not write again, and one that ends makes no entry unsafe; `unread` tells the run that was given nothing |

The nine components

| theorem | says | argument |
|---|---|---|
| `RunsApproved` | a command runs only when nothing denies it and, if held, somebody who may has approved | `StoredIsAsked` (a checkpoint is of a held command that nothing denies), `ApproverMay` (who is past the check of `ResolveCheckpoint` has consented and may) |
| `CommitsKept` | every commit is on a branch that exists | `HeadsAreThere` (who works commits on a branch there is, and on one of its own or on main), `MergedIsOnMain` (a branch about to be cleaned up has nothing main has not), and that branches of runs differ |
| `DoneStaysComplete` | a run that says done is complete and counts its results | `EvalInv`, for each run: cases are listed once, results are of attempts made, and while no error occurred the result of every attempt made is there, of the text of then, unless its case or its dataset was deleted.  That the next attempt was not made is what keeps the count of passes equal to their number |
| `ChunksShort` | no chunk is twice as long as the target | one step of the fold keeps what is being put together below that (`CutShort`), and pieces of a line that is too long are no longer than the target; `TextCut` has the fold as a function of the number of lines |
| `TextKept` | every rune of a text is in a chunk, but for the beginning of a line longer than `ChunkOverlap` and no longer than `ChunkTarget` | a rune that is in a chunk, or in what is being put together, stays (`CutKeeps`); trimming takes line feeds only (`TrimmedKeeps`); the pieces of a line cover it (`SplitKeeps`).  The exception is real: see the divergences of knowledge bases |
| `TypesHold` | the types of all nine components | the invariants of the other theorems have most of them; `EvalBounded` adds that an evaluation has no more runs, cases and results than its bounds, `KnowledgeTypes` takes the length of a chunk from `ChunksShort` |
| `RefusalUndoes` | a refused iteration nobody interfered with leaves what it found | `PromptInv`: what such an iteration remembers is what was in force when it began, it is in force again before it says so, and the row says running as long as there is a goroutine |
| `CountsStayRight` | a base whose last change was alone and did not fail counts its store | `KnowledgeInv`: rows belong to the base of the request that stores them, a request that is alone has read the true counts once it has counted, an unopened base is empty |
| `LibraryStaysChecked` | what is in the library under an unspoiled name passed its check or is being approved | `SkillInv`: the library's entry of a name has a candidate with that very skill and a warrant, which is a passed check or a request between publishing and its verdict |
| `AdminsKept` | no step takes the last administrator or leaves somebody in a deleted tenant, but for the excuses | an action property from `AccountInv`: what a request has checked of users and tenants still holds unless it was overtaken (`TenantChecked`), and one that has counted leaves another administrator (`AdminLeft`) |
| `SecretsSurvive` | no secret is lost, what is recorded is done, who serves has the schema | `SchemaInv`: `DataKept` on the tables (no plaintext is left once its column is gone or its sealing recorded), `StartSound` for each process: what it has not to do any more is recorded, and where it is in a migration tells what that has done |
| `ChoicesSurvive` | with finitely many models: only a request that writes a row written since undoes a choice or makes a second default | an action property from `ModelInv`: a request that is not late has the row as it is |

Those about states and steps are stated of `MCComponents!Spec`; `PartStays` and a lemma such
as `ApprovalSteps` take it to the steps of its component. Those about the operators that cut
a text hold of every text of the constant `Texts`, a set of sequences of line lengths. The
properties by themselves are not inductive; what makes them so is named in the last column.
Finiteness is a hypothesis where a cardinality is compared, because it is defined for finite
sets only; sessions and models are rows of a table.

Induction along a count, which the operator `ChunkText` needs, is not taken from the
library, whose rules have an operator as a parameter.  `Reached` proves it of sets: if 0 is in a
set, and with each number before n the next, and m were not, then the successor function
would map the numbers of the set up to m one to one into those without 0, a smaller finite
set.  `Recursion` and `Extremes` (definition by recursion; least and greatest elements) follow
from it.  `ChunkText` is a recursive function for that reason, not a fold of the library.

The temporal conclusions combine invariance and step by PTL.

Model-checked only:

* the liveness properties `EveryRunSettles`, `CancelConverges`, `DueIsRun`, `EveryRunEnds`,
  and the half of `ImplementsTurns` that is fairness (its steps are `TurnsImplemented`): liveness
  under fairness is outside what the prover handles;
* the four properties of the runs that end in a violation.

## What is abstracted

* Time.  A lease is none, live or expired; `next_run` is none, future or due.  Back-off and
  poll intervals only say when a step happens, and every order is allowed.
* A failing statement has no effect.  A statement that is applied and whose answer is lost
  is not modelled.
* Payloads.  Messages are a role and the request they belong to; an answer that was cut
  off looks like a whole one; costs are small numbers; cron expressions are valid.
* `TaskQueue`: the backend is SQLite; the in-memory one does each step of `RunDispatch` at
  once and has no module of its own.
* `SessionGateway`: one user; notifications, metrics and audit rows are out.  The stream
  case of an error event records neither usage nor answer, as in the code.
* `Automation`: `last_run`, names and prompts are out; a job's session and record are named
  by the job, and creating both is one step since nobody else knows them yet; the rate
  limiter and the signature reject calls before anything happens; the context of
  recovery and of jobs is never canceled (`context.Background`); what a run does is
  `SessionGateway`.
* `AgentRun`: the team's orchestrator only; hooks run in the order state, goal, plan; a cut
  of the stream happens between two steps; one scope, so the stores never evict.  A text
  is what it is a part of.  A tool that cannot read the file it is to extend changes
  nothing and is `OtherTool`.  A blank text of a patch is trimmed and so clears what is
  there (`TextAfter`).
* `Approvals`: rules are severities; the process of a command is started or not, and ends in
  any way.  Rows of other tables are out.
* `Worktrees`: git is external; a commit is a value, a merge ends cleanly, in a conflict or
  refused.
* `Evaluation`, `PromptIter`, `Skills`: what the model answers, scores and judgements are left
  to chance; rows are one user's where the code filters by user.
* `Knowledge`: vectors and search are out; a text is the lengths of its lines.
* `Access`: roles other than the administrator's are one; names, passwords and
  descriptions are out.  Storing a row whose old `Role` is preloaded may write the old or the
  new role id, and the model allows both.
* `Migrations`: those that only add tables and columns are one step; two columns of secrets
  are one; dropping a column leaves the indexes alone; requests served by one node while
  another still migrates are out.
* `Models`: one provider; whether a connection works is out.

## Findings

Four runs end in a violation, each of one property that the code's own words state:

* `taskqueue_cancel_lost` / `CancelReachesExecution`: `Cancel` clears the lease, so any node's
  next sweep settles the row as canceled, and `cancelWatcher`, which acts on `canceling`
  only, then stops watching.  The execution on the other node goes on to its end.
* `automation_paused` / `PauseSticks`: a scan or a job saves the row it read before the user
  paused the automation.
* `approvals_rejected` / `RejectedNeverRuns`: an approval and a rejection both read a pending
  checkpoint; the command runs, and its row says rejected.
* `migrations_index` / `NamesUnique`: a crash between dropping `idx_user_mcp` and creating it
  anew leaves a table without the index, which the rerun takes for done.

## Divergences not shown by a run

Noticed while translating; the models do what the code does.  They are kept here for
whoever changes this code.

Task queue

* A stalled execution can be joined by a second executor, where the comment says "exactly
  one node" (`taskrun/queue_service.go:572`), and `leaseKeepAlive` then writes back the
  whole row it read earlier, conditional on the status only, so that the old attempts
  counter is restored (`:507` against `:52`): with `MaxStalls > 0` neither `SingleExecution` nor
  `RetryBudget` holds.  What does is proved: each stall costs at most one execution beside
  the first (`StallsCounted`) and one claim beyond the budget (`RetriesCounted`).
* `Close` says that leases are left to expire (`queue_service.go:170-171`), but the
  canceled executions write `canceled` (`:461`).
* A single failed read in `leaseKeepAlive` cancels the run (`:499`).
* Runs settled by the sweep are never reported to the Observer (`queue/sqlite.go:227`
  against `taskrun/taskrun.go:60-61`), so their worktrees stay.

Gateway, engine, agent

* A soft-deleted session is not found, yet its key is still taken under the unique index:
  it cannot be opened again (`repo/session.go:19`, `:14`).
* Deleting a session does not take its lock: a request under way stores messages after it,
  and they belong to no session (`repo/session.go:115-119`).
* A call cut by the timeout stores the text so far as the answer (`api/gateway.go:474`,
  `engine/engine.go:330-418`).
* `LastUsage` is commented as accumulated and is overwritten by each model call
  (`engine/engine.go:154-157`, `:348`, `:370`).
* `Engine.Chat` skips error events, so the scheduler's retries never follow a failure of
  the model (`model/automationrun.go:38`).
* An answer that is let through once the reminders are spent (`agent/goal.go:321`) has its
  whole message dropped when a part of any text was streamed before (`delta.go`).
* The quota of commands is checked and then written (`tool/codeact.go:100-152`).
* `FileStore.Write` is `os.WriteFile` (`artifact/store.go:170`): an error of the disk after it
  has truncated the file loses entries reported as written earlier, by this run or others,
  without a crash; the tool reports the error of its own entry only
  (`agent/state.go:285`, `:321`).
* The hook that gives a run the state files sets its flag before it reads them and goes on
  when the reading fails (`agent/state.go:138-145`): that run is never told of the progress
  before it.

Automations

* Recovery is said to touch only old, interrupted sessions (`cmd/server/main.go:832-834`),
  but lists every running record, those of the new process included; its late write can
  also set a finished record back to running.
* A crash during recovery is not counted as an attempt (`api/recovery.go:18-21`).
* Any error of `GetAutomationByID` counts as a deleted automation: an interrupted run is
  given up for good, untried, when that one statement fails (`api/recovery.go:57-63`).
* `UpdateAutomation` is an upsert: a copy saved after the deletion brings the automation
  back, enabled (`repo/automation.go:76`).
* An automation created with `enabled: false` is stored enabled, by the column default
  (`model/automation.go`).
* The name of an automation is unique over all users and over deleted rows, where the
  comment says unique per user (`model/automation.go`); so are those of evaluation sets and
  instructions.
* A scan that works from an old list fires an automation again after its run has ended
  (`scheduler/scheduler.go:137-141`).
* `cron_expr` is not validated when stored, and an invalid one fires at every tick.

Commands and worktrees

* A command that times out in a container is killed with an `ExitError`, which is not taken
  for a timeout: the result has exit code -1 and no error, and the container is not
  cleaned up; nor is it when the request is canceled (`executor/docker.go`).
* An approved command runs on the host whatever the backend of the server is
  (`api/checkpoint.go`).
* A held command may run twice: two approvals both find the row pending, or the process
  dies after the command and before the row is resolved (`api/checkpoint.go:116`, `:139-173`).
* The comment on conflicts says the checkout is kept for a person, and `git worktree remove
  --force` takes it; "never writes the main branch" does not hold of a run that fell back;
  a conflicting merge is never aborted, so later ones are refused (`worktree/worktree.go`).

Evaluation and instructions

* A run deleted while it is executed is inserted again by its last `Save`, and its results
  have no dataset (`repo/eval.go`, whose comment promises no orphans).
* The limit of 30 minutes on a run makes no attempt fail, because `Engine.Chat` reports no
  error of the stream.
* An edit of a case or a dataset stores the row it read: it undoes an edit made meanwhile
  and puts a deleted row back (`repo/eval.go:109`).
* An iteration that is rolled back writes what it found over an edit made meanwhile, or
  over what a second iteration has put in force, and does not look whether the write
  succeeded (`promptiter/optimizer.go:169`, `:253`).
* The baseline of an optimisation is the built-in instruction, not the user's
  (`promptiter/optimizer.go`).

Knowledge bases

* `UpdateKnowledgeBase` saves the row it read and so brings a deleted base back.
* Two requests on one base count and then write: the counts of the earlier may be written
  last, and a deletion ignores that they could not be written; they stay wrong until the
  next change (`knowledge/manager.go:261`, `:280-301`).
* In SQLite a chunk is deleted and then inserted, and a failure between loses it;
  indexing a document again leaves the chunks its old text had beyond those of the new.
* `chunkText` writes what it is putting together once more before each line that still fits,
  and so makes chunks longer than `chunkTarget` (`knowledge/manager.go:326`, `:378`); they stay
  below twice the target (`ChunksShort`).
* `chunkText` loses text.  The comment says that the end of the previous segment is kept at
  the beginning of the new chunk (`:369`), but what is kept is the end of the line itself: a
  line of more than 120 and at most 800 runes that does not fit any more begins the next
  chunk with its last 120 runes, and its beginning is in no chunk.  `TextKept` says that
  nothing else is lost.

Skills

* "Approved only if published" (`api/skill_candidate.go`) can fail: an approval does not
  look at the status, a second candidate of the same name replaces the published one, the
  rollback of the second removes the file of the first, a rejection leaves the file of an
  approval before it, and a crash leaves one between publishing and checking.
* The skill a check puts in front of the model is one variable for all checks
  (`regression/regression.go:162`); scans that overlap store a candidate twice.

Users, providers, migrations

* "At least one active administrator" (`api/admin.go`) is counted and then written: two
  handlers can each take one of the last two; a failed count lets the update pass.  A user
  can likewise be moved into a tenant that is being deleted.
* A provider may get two default models: `Upsert` and `PatchModel` save rows read earlier
  (`repo/model.go:78-96` against `model/model.go:11`), and a sync can lose a choice made
  while it runs.
* A deleted provider leaves its models and its cached list; a new address goes on with the
  old list until it expires (`provider/discover.go:66`).
* A plain secret that cannot be parsed is cleared, where the log says it is skipped
  (`repo/migrate.go`).

## Not modelled

* The IM webhook, rate limiters, cron expressions and the session store are on the plan
  below.
* Tool search ranks words; MCP servers have handlers of one statement each; notifications,
  metrics and logs decide nothing; the agent-to-agent protocol and the client programs
  only call what is modelled; the marketplace packs files; the configuration is read
  once; the LLM proxy is a program of its own.
* Of components that are partly modelled: eviction of goals and plans, artifacts without
  a reader, the matching of policy rules, retrieval, roles and their permissions, tests of
  connections.  `PROJECT.json` says so at each.

## Plan

The order follows the importance of the behaviour; what is done is marked.

1. **done** `QueueStore`, `TaskQueue`, `RunDispatch`, with their theorems.
2. **done** `SessionGateway`, `SessionTurns`, with their theorems.
3. **done** `Automation`, with its theorems.
4. **done** `Contracts`, `AgentRun`, with their theorems.
5. **done** `Approvals`, `Worktrees`, `Evaluation`, `PromptIter`, `Knowledge`, `Skills`, `Access`,
   `Migrations`, `Models`, each with the theorem of its safety property.
6. **done** Theorems: every safety invariant, action property and refinement step the runs
   check is proved, and beyond them what holds of the queue when executions do stall, and
   what is in the chunks of a text.  Liveness stays with TLC.
7. `IMEntry` (`api/im.go`), composed with `SessionTurns` for the session.
8. A module of pure algorithms compared with reference definitions: rate limiters,
   `cron.Next`, the matching of policy rules.
9. The session store, eviction of goals and plans.

Runs are few and distinct: a component that shares no state with another joins
`components`, one whose promise needs fairness joins `progress`.
