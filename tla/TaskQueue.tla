------------------------------ MODULE TaskQueue ------------------------------
(***************************************************************************)
(* QueueService (taskrun/queue_service.go): several server nodes take task *)
(* runs from one shared table, execute them under a lease they renew, and  *)
(* converge on a terminal status.  A claimed run is executed by a          *)
(* goroutine (executeLeased) with two helpers, leaseKeepAlive and          *)
(* cancelWatcher; a client of any node may spawn and cancel runs.          *)
(*                                                                         *)
(* The environment may crash a node, close it, stall its goroutines past   *)
(* their lease, and fail a statement of the database.  Each is bounded by  *)
(* a constant; MaxStalls = 0 is the timing assumption under which the      *)
(* queue is designed: an execution renews, or winds down, within a lease.  *)
(***************************************************************************)
EXTENDS QueueStore, FiniteSets

CONSTANTS
  Execs,       \* goroutines that may exist at once
  Clients,     \* concurrent callers of Cancel
  NoRun, NoExec,
  MaxCrashes, MaxCloses, MaxStalls, MaxFaults   \* bounds on the environment

ASSUME NoRunAssumption == NoRun \notin Runs
ASSUME NoExecAssumption == NoExec \notin Execs
ASSUME BoundsAssumption == {MaxCrashes, MaxCloses, MaxStalls, MaxFaults} \subseteq Nat

VARIABLES
  row,       \* the shared table
  arrivals,  \* run ids in created_at order
  node,      \* per node: the poll loop, or why it does not run
  exec,      \* executeLeased goroutines with their helpers
  running,   \* QueueService.running: node -> run -> whose cancel func
  request,   \* calls of Cancel in progress
  claims,    \* history: how often a run was claimed
  asked,     \* history: runs whose cancellation was accepted
  notified,  \* history: runs whose terminal status reached an Observer
  used       \* what the environment has spent of its bounds

vars == <<row, arrivals, node, exec, running, request, claims, asked, notified, used>>

NodeState == {"waiting", "claiming", "closing", "down"}

(* An execution is claimed, then running; pc then names the status it is   *)
(* about to write, or says that this write was refused; a helper may drain *)
(* after it.                                                               *)
IdleExec == [pc |-> "idle", run |-> NoRun, node |-> NoNode, ctx |-> "live",
             keeper |-> "off", snap |-> 0, watcher |-> "off"]

ClaimedExec(n, r) ==
  [pc |-> "claimed", run |-> r, node |-> n, ctx |-> "live",
   keeper |-> "off", snap |-> 0, watcher |-> "off"]

BusyExec == [pc      : {"claimed", "running", "refused", "draining"} \cup Terminal,
             run     : Runs,
             node    : Nodes,
             ctx     : {"live", "canceled"},           \* runCtx
             keeper  : {"off", "waiting", "renewing"}, \* leaseKeepAlive
             snap    : 0 .. MaxAttempts,               \* attempts it has read
             watcher : {"on", "off"}]                  \* cancelWatcher

IdleRequest == [pc |-> "idle", run |-> NoRun, node |-> NoNode, seen |-> "none"]

OpenRequest == [pc   : {"read", "write", "signal"},
                run  : Runs,
                node : Nodes,
                seen : {"none", "queued", "running"}]

Budget == [crash : 0 .. MaxCrashes, close : 0 .. MaxCloses,
           stall : 0 .. MaxStalls, fault : 0 .. MaxFaults]

TypeOK ==
  /\ row \in [Runs -> Row]
  /\ arrivals \in Seq(Runs)
  /\ node \in [Nodes -> NodeState]
  /\ exec \in [Execs -> BusyExec \cup {IdleExec}]
  /\ running \in [Nodes -> [Runs -> Execs \cup {NoExec}]]
  /\ request \in [Clients -> OpenRequest \cup {IdleRequest}]
  /\ claims \in [Runs -> Nat]
  /\ asked \subseteq Runs
  /\ notified \subseteq Runs
  /\ used \in Budget

Init ==
  /\ row = [r \in Runs |-> Released("absent", 0)]
  /\ arrivals = << >>
  /\ node = [n \in Nodes |-> "waiting"]
  /\ exec = [e \in Execs |-> IdleExec]
  /\ running = [n \in Nodes |-> [r \in Runs |-> NoExec]]
  /\ request = [c \in Clients |-> IdleRequest]
  /\ claims = [r \in Runs |-> 0]
  /\ asked = {}
  /\ notified = {}
  /\ used = [crash |-> 0, close |-> 0, stall |-> 0, fault |-> 0]

-----------------------------------------------------------------------------
(* Helpers *)

Up(n) == node[n] \in {"waiting", "claiming"}

(* Execution e, or a helper it has left behind, still acts for run r. *)
Holds(e, r) == exec[e].run = r

Fail == /\ used.fault < MaxFaults
        /\ used' = [used EXCEPT !.fault = @ + 1]

SetRow(r, w) == row' = [row EXCEPT ![r] = w]

(* Fault variants: no cancel func is dropped, or every one of the node. *)
EndExecForgetsNone(e) ==
  /\ exec' = [exec EXCEPT ![e] =
                IF @.keeper = "renewing"
                  THEN [@ EXCEPT !.pc = "draining", !.watcher = "off"]
                  ELSE IdleExec]
  /\ running' = running

EndExecForgetsNode(e) ==
  /\ exec' = [exec EXCEPT ![e] =
                IF @.keeper = "renewing"
                  THEN [@ EXCEPT !.pc = "draining", !.watcher = "off"]
                  ELSE IdleExec]
  /\ running' = [running EXCEPT ![exec[e].node] = [r \in Runs |-> NoExec]]

(* The deferred calls of executeLeased: stop is closed, which ends a       *)
(* helper unless it is between its read and its write, and the run is      *)
(* taken from running by its id, whoever registered it.                    *)
EndExec(e) ==
  /\ exec' = [exec EXCEPT ![e] =
                IF @.keeper = "renewing"
                  THEN [@ EXCEPT !.pc = "draining", !.watcher = "off"]
                  ELSE IdleExec]
  /\ running' = [running EXCEPT ![exec[e].node][exec[e].run] = NoExec]

-----------------------------------------------------------------------------
(* Spawn: Enqueue a run; the observer ignores its queued status and the    *)
(* wake-up only makes the next poll come sooner.                           *)
Spawn(n, r) ==
  /\ node[n] # "down"
  /\ row[r].status = "absent"
  /\ SetRow(r, Released("queued", 0))
  /\ arrivals' = Append(arrivals, r)
  /\ UNCHANGED <<node, exec, running, request, claims, asked, notified, used>>

-----------------------------------------------------------------------------
(* pollOnce: RequeueExpired, then ClaimNext until nothing is queued.       *)

RequeueExpired(n) ==
  /\ node[n] = "waiting"
  /\ row' = [r \in Runs |-> Swept(row[r], 3)]
  /\ node' = [node EXCEPT ![n] = "claiming"]
  /\ UNCHANGED <<arrivals, exec, running, request, claims, asked, notified, used>>

(* One of its statements fails; the loop goes on to claim. *)
RequeueFails(n) ==
  /\ node[n] = "waiting"
  /\ \E k \in 0 .. 2 : row' = [r \in Runs |-> Swept(row[r], k)]
  /\ node' = [node EXCEPT ![n] = "claiming"]
  /\ Fail
  /\ UNCHANGED <<arrivals, exec, running, request, claims, asked, notified>>

ClaimNext(n, e, r) ==
  /\ node[n] = "claiming"
  /\ exec[e].pc = "idle"
  /\ IsNextQueued(row, arrivals, r)
  /\ SetRow(r, Leased(n, row[r].attempts))
  /\ exec' = [exec EXCEPT ![e] = ClaimedExec(n, r)]
  /\ claims' = [claims EXCEPT ![r] = @ + 1]
  /\ UNCHANGED <<arrivals, node, running, request, asked, notified, used>>

(* ClaimNext returns no row, or an error. *)
StopClaiming(n) ==
  /\ node[n] = "claiming"
  /\ \/ (\A r \in Runs : row[r].status # "queued") /\ UNCHANGED used
     \/ Fail
  /\ node' = [node EXCEPT ![n] = "waiting"]
  /\ UNCHANGED <<row, arrivals, exec, running, request, claims, asked, notified>>

-----------------------------------------------------------------------------
(* executeLeased *)

(* Fault variant: the cancel func is not registered. *)
StartUnregistered(e) ==
  LET x == exec[e] IN
  /\ x.pc = "claimed"
  /\ exec' = [exec EXCEPT ![e] =
       [x EXCEPT !.pc = "running",
                 !.ctx = IF Up(x.node) THEN "live" ELSE "canceled",
                 !.keeper = IF Up(x.node) THEN "waiting" ELSE "off",
                 !.watcher = IF Up(x.node) THEN "on" ELSE "off"]]
  /\ UNCHANGED <<row, arrivals, node, running, request, claims, asked, notified, used>>

(* The goroutine starts: its cancel func replaces any other registered for *)
(* the run.  runCtx derives from baseCtx, so it is born canceled on a node *)
(* that is closing, and the helpers return at once there.                  *)
StartExecution(e) ==
  LET x == exec[e] IN
  /\ x.pc = "claimed"
  /\ exec' = [exec EXCEPT ![e] =
       [x EXCEPT !.pc = "running",
                 !.ctx = IF Up(x.node) THEN "live" ELSE "canceled",
                 !.keeper = IF Up(x.node) THEN "waiting" ELSE "off",
                 !.watcher = IF Up(x.node) THEN "on" ELSE "off"]]
  /\ running' = [running EXCEPT ![x.node][x.run] = e]
  /\ UNCHANGED <<row, arrivals, node, request, claims, asked, notified, used>>

(* RunFunc returns: ctx.Err() decides between canceled and completed, and  *)
(* an error of the run itself, or its timeout, gives failed either way.    *)
RunReturns(e) ==
  /\ exec[e].pc = "running"
  /\ \E o \in {"failed", IF exec[e].ctx = "live" THEN "completed" ELSE "canceled"} :
       exec' = [exec EXCEPT ![e].pc = o]
  /\ UNCHANGED <<row, arrivals, node, running, request, claims, asked, notified, used>>

(* running -> terminal, written with context.Background(). *)
WriteTerminal(e) ==
  LET r == exec[e].run IN
  /\ exec[e].pc \in Terminal
  /\ row[r].status = "running"
  /\ SetRow(r, Overwritten(exec[e].pc))
  /\ notified' = notified \cup {r}
  /\ EndExec(e)
  /\ UNCHANGED <<arrivals, node, request, claims, asked, used>>

(* The write matched no row, or failed. *)
TerminalRefused(e) ==
  /\ exec[e].pc \in Terminal
  /\ \/ row[exec[e].run].status # "running" /\ UNCHANGED used
     \/ Fail
  /\ exec' = [exec EXCEPT ![e].pc = "refused"]
  /\ UNCHANGED <<row, arrivals, node, running, request, claims, asked, notified>>

(* canceling -> canceled. *)
WriteCanceled(e) ==
  LET r == exec[e].run IN
  /\ exec[e].pc = "refused"
  /\ row[r].status = "canceling"
  /\ SetRow(r, Overwritten("canceled"))
  /\ notified' = notified \cup {r}
  /\ EndExec(e)
  /\ UNCHANGED <<arrivals, node, request, claims, asked, used>>

(* Fault variant: the execution reports its outcome all the same. *)
GiveUpReporting(e) ==
  /\ exec[e].pc = "refused"
  /\ \/ row[exec[e].run].status # "canceling" /\ UNCHANGED used
     \/ Fail
  /\ notified' = notified \cup {exec[e].run}
  /\ EndExec(e)
  /\ UNCHANGED <<row, arrivals, node, request, claims, asked>>

(* Neither write applied: the execution ends and tells nobody. *)
GiveUp(e) ==
  /\ exec[e].pc = "refused"
  /\ \/ row[exec[e].run].status # "canceling" /\ UNCHANGED used
     \/ Fail
  /\ EndExec(e)
  /\ UNCHANGED <<row, arrivals, node, request, claims, asked, notified>>

-----------------------------------------------------------------------------
(* leaseKeepAlive: Get, then a conditional write of the row it has read.   *)

KeepAliveRead(e) ==
  LET x == exec[e] IN
  /\ x.keeper = "waiting"
  /\ exec' = [exec EXCEPT ![e] =
       IF row[x.run].status = "running"
         THEN [x EXCEPT !.keeper = "renewing", !.snap = row[x.run].attempts]
         ELSE [x EXCEPT !.keeper = "off"]]
  /\ UNCHANGED <<row, arrivals, node, running, request, claims, asked, notified, used>>

(* Get fails: the execution is canceled and its lease no longer renewed. *)
KeepAliveReadFails(e) ==
  /\ exec[e].keeper = "waiting"
  /\ exec' = [exec EXCEPT ![e] = [@ EXCEPT !.keeper = "off", !.ctx = "canceled"]]
  /\ Fail
  /\ UNCHANGED <<row, arrivals, node, running, request, claims, asked, notified>>

(* What the helper is after a write: back in its loop, unless the          *)
(* execution has ended or baseCtx is done.                                 *)
AfterRenewal(x) ==
  IF x.pc = "draining"
    THEN IdleExec
    ELSE [x EXCEPT !.keeper = IF Up(x.node) THEN "waiting" ELSE "off", !.snap = 0]

(* Fault variants: the write renews the columns of a row of any status, or *)
(* makes any row running.                                                  *)
RenewAnyLease(e) ==
  LET x == exec[e] IN
  /\ x.keeper = "renewing"
  /\ SetRow(x.run, [row[x.run] EXCEPT !.worker = x.node, !.lease = "live"])
  /\ exec' = [exec EXCEPT ![e] = AfterRenewal(x)]
  /\ UNCHANGED <<arrivals, node, running, request, claims, asked, notified, used>>

RenewBlindly(e) ==
  LET x == exec[e] IN
  /\ x.keeper = "renewing"
  /\ SetRow(x.run, Leased(x.node, x.snap))
  /\ exec' = [exec EXCEPT ![e] = AfterRenewal(x)]
  /\ UNCHANGED <<arrivals, node, running, request, claims, asked, notified, used>>

(* The write does not test worker_id: any running row is taken over. *)
KeepAliveWrite(e) ==
  LET x == exec[e] IN
  /\ x.keeper = "renewing"
  /\ row[x.run].status = "running"
  /\ SetRow(x.run, Leased(x.node, x.snap))
  /\ exec' = [exec EXCEPT ![e] = AfterRenewal(x)]
  /\ UNCHANGED <<arrivals, node, running, request, claims, asked, notified, used>>

(* No running row: the lease is lost, so the execution is canceled. *)
KeepAliveRefused(e) ==
  LET x == exec[e] IN
  /\ x.keeper = "renewing"
  /\ row[x.run].status # "running"
  /\ exec' = [exec EXCEPT ![e] =
       IF x.pc = "draining" THEN IdleExec
       ELSE [x EXCEPT !.keeper = "off", !.snap = 0, !.ctx = "canceled"]]
  /\ UNCHANGED <<row, arrivals, node, running, request, claims, asked, notified, used>>

(* The write fails (baseCtx canceled counts as such): tried again later. *)
KeepAliveWriteFails(e) ==
  LET x == exec[e] IN
  /\ x.keeper = "renewing"
  /\ \/ node[x.node] = "closing" /\ UNCHANGED used
     \/ Fail
  /\ exec' = [exec EXCEPT ![e] = AfterRenewal(x)]
  /\ UNCHANGED <<row, arrivals, node, running, request, claims, asked, notified>>

-----------------------------------------------------------------------------
(* cancelWatcher: canceling cancels the execution; a terminal status ends  *)
(* the watch without canceling anything.                                   *)

WatchCancel(e) ==
  LET x == exec[e] IN
  /\ x.watcher = "on"
  /\ \/ /\ row[x.run].status = "canceling"
        /\ exec' = [exec EXCEPT ![e] = [@ EXCEPT !.watcher = "off", !.ctx = "canceled"]]
     \/ /\ row[x.run].status \in Terminal
        /\ exec' = [exec EXCEPT ![e].watcher = "off"]
  /\ UNCHANGED <<row, arrivals, node, running, request, claims, asked, notified, used>>

WatchFails(e) ==
  /\ exec[e].watcher = "on"
  /\ exec' = [exec EXCEPT ![e].watcher = "off"]
  /\ Fail
  /\ UNCHANGED <<row, arrivals, node, running, request, claims, asked, notified>>

-----------------------------------------------------------------------------
(* Cancel: Get, a conditional write that depends on what was read, and for *)
(* a running run the cancel func registered on this node.  A write that    *)
(* matches no row starts over.                                             *)

CallCancel(c, n, r) ==
  /\ request[c].pc = "idle"
  /\ node[n] # "down"
  /\ row[r].status # "absent"
  /\ request' = [request EXCEPT ![c] = [pc |-> "read", run |-> r, node |-> n, seen |-> "none"]]
  /\ UNCHANGED <<row, arrivals, node, exec, running, claims, asked, notified, used>>

CancelRead(c) ==
  LET q == request[c] IN
  /\ q.pc = "read"
  /\ request' = [request EXCEPT ![c] =
       IF row[q.run].status \in {"queued", "running"}
         THEN [q EXCEPT !.pc = "write", !.seen = row[q.run].status]
         ELSE IdleRequest]
  /\ UNCHANGED <<row, arrivals, node, exec, running, claims, asked, notified, used>>

CancelQueued(c) ==
  LET q == request[c] IN
  /\ q.pc = "write" /\ q.seen = "queued"
  /\ row[q.run].status = "queued"
  /\ SetRow(q.run, Overwritten("canceled"))
  /\ asked' = asked \cup {q.run}
  /\ notified' = notified \cup {q.run}
  /\ request' = [request EXCEPT ![c] = IdleRequest]
  /\ UNCHANGED <<arrivals, node, exec, running, claims, used>>

(* The lease and the attempts of the running row are wiped as well. *)
CancelRunning(c) ==
  LET q == request[c] IN
  /\ q.pc = "write" /\ q.seen = "running"
  /\ row[q.run].status = "running"
  /\ SetRow(q.run, Overwritten("canceling"))
  /\ asked' = asked \cup {q.run}
  /\ request' = [request EXCEPT ![c].pc = "signal"]
  /\ UNCHANGED <<arrivals, node, exec, running, claims, notified, used>>

CancelLostRace(c) ==
  LET q == request[c] IN
  /\ q.pc = "write"
  /\ row[q.run].status # q.seen
  /\ request' = [request EXCEPT ![c].pc = "read", ![c].seen = "none"]
  /\ UNCHANGED <<row, arrivals, node, exec, running, claims, asked, notified, used>>

(* Get or the write fails: the caller gets the error. *)
CancelFails(c) ==
  /\ request[c].pc \in {"read", "write"}
  /\ request' = [request EXCEPT ![c] = IdleRequest]
  /\ Fail
  /\ UNCHANGED <<row, arrivals, node, exec, running, claims, asked, notified>>

CancelSignal(c) ==
  LET q == request[c]
      e == running[q.node][q.run] IN
  /\ q.pc = "signal"
  /\ exec' = IF e = NoExec THEN exec ELSE [exec EXCEPT ![e].ctx = "canceled"]
  /\ request' = [request EXCEPT ![c] = IdleRequest]
  /\ UNCHANGED <<row, arrivals, node, running, claims, asked, notified, used>>

-----------------------------------------------------------------------------
(* Close, and what the environment does. *)

(* Close cancels baseCtx: every runCtx of the node is canceled, the poll   *)
(* loop and the helpers return.                                            *)
Close(n) ==
  /\ Up(n)
  /\ used.close < MaxCloses
  /\ used' = [used EXCEPT !.close = @ + 1]
  /\ node' = [node EXCEPT ![n] = "closing"]
  /\ exec' = [e \in Execs |->
       IF exec[e].node # n \/ exec[e].pc \in {"idle", "claimed", "draining"} THEN exec[e]
       ELSE [exec[e] EXCEPT !.ctx = "canceled", !.watcher = "off",
                            !.keeper = IF @ = "waiting" THEN "off" ELSE @]]
  /\ UNCHANGED <<row, arrivals, running, request, claims, asked, notified>>

(* Nothing of the process survives. *)
Stop(n) ==
  /\ node' = [node EXCEPT ![n] = "down"]
  /\ exec' = [e \in Execs |-> IF exec[e].node = n THEN IdleExec ELSE exec[e]]
  /\ running' = [running EXCEPT ![n] = [r \in Runs |-> NoExec]]
  /\ request' = [c \in Clients |-> IF request[c].node = n THEN IdleRequest ELSE request[c]]
  /\ UNCHANGED <<row, arrivals, claims, asked, notified>>

(* Close returns once the WaitGroup is empty, and the process exits. *)
Closed(n) ==
  /\ node[n] = "closing"
  /\ \A e \in Execs : exec[e].node = n => exec[e].pc = "draining"
  /\ Stop(n)
  /\ UNCHANGED used

Crash(n) ==
  /\ node[n] # "down"
  /\ used.crash < MaxCrashes
  /\ used' = [used EXCEPT !.crash = @ + 1]
  /\ Stop(n)

Restart(n) ==
  /\ node[n] = "down"
  /\ node' = [node EXCEPT ![n] = "waiting"]
  /\ UNCHANGED <<row, arrivals, exec, running, request, claims, asked, notified, used>>

(* The lease of a run nobody works on runs out. *)
LeaseExpires(r) ==
  /\ row[r].lease = "live"
  /\ \A e \in Execs : ~Holds(e, r)
  /\ SetRow(r, [row[r] EXCEPT !.lease = "expired"])
  /\ UNCHANGED <<arrivals, node, exec, running, request, claims, asked, notified, used>>

(* A stalled execution does not renew in time. *)
LeaseMissed(r) ==
  /\ row[r].lease = "live"
  /\ \E e \in Execs : Holds(e, r)
  /\ used.stall < MaxStalls
  /\ used' = [used EXCEPT !.stall = @ + 1]
  /\ SetRow(r, [row[r] EXCEPT !.lease = "expired"])
  /\ UNCHANGED <<arrivals, node, exec, running, request, claims, asked, notified>>

-----------------------------------------------------------------------------
PollStep(n) ==
  \/ RequeueExpired(n)
  \/ RequeueFails(n)
  \/ \E e \in Execs, r \in Runs : ClaimNext(n, e, r)
  \/ StopClaiming(n)

(* What executeLeased does around RunFunc. *)
LeaseStep(e) ==
  \/ StartExecution(e)
  \/ WriteTerminal(e)
  \/ TerminalRefused(e)
  \/ WriteCanceled(e)
  \/ GiveUp(e)

ExecStep(e) == LeaseStep(e) \/ RunReturns(e)

KeeperStep(e) ==
  \/ KeepAliveRead(e)
  \/ KeepAliveReadFails(e)
  \/ KeepAliveWrite(e)
  \/ KeepAliveRefused(e)
  \/ KeepAliveWriteFails(e)

WatcherStep(e) == WatchCancel(e) \/ WatchFails(e)

(* What a call of Cancel in progress does next. *)
PendingCancel(c) ==
  \/ CancelRead(c)
  \/ CancelQueued(c)
  \/ CancelRunning(c)
  \/ CancelLostRace(c)
  \/ CancelFails(c)
  \/ CancelSignal(c)

ClientStep(c) ==
  \/ \E n \in Nodes, r \in Runs : CallCancel(c, n, r)
  \/ PendingCancel(c)

NodeStep(n) ==
  \/ Close(n)
  \/ Closed(n)
  \/ Crash(n)
  \/ Restart(n)

Next ==
  \/ \E n \in Nodes, r \in Runs : Spawn(n, r)
  \/ \E n \in Nodes : PollStep(n) \/ NodeStep(n)
  \/ \E e \in Execs : ExecStep(e) \/ KeeperStep(e) \/ WatcherStep(e)
  \/ \E c \in Clients : ClientStep(c)
  \/ \E r \in Runs : LeaseExpires(r) \/ LeaseMissed(r)

Spec == Init /\ [][Next]_vars

(* The goroutines of a live process are scheduled: the poll loop and the   *)
(* helpers tick, a statement completes or fails, a canceled RunFunc        *)
(* returns.  A stopped process is restarted by its supervisor, and time    *)
(* passes.                                                                 *)
Fairness ==
  /\ \A n \in Nodes : WF_vars(PollStep(n)) /\ WF_vars(Closed(n)) /\ WF_vars(Restart(n))
  /\ \A e \in Execs :
       /\ WF_vars(LeaseStep(e))
       /\ WF_vars(exec[e].ctx = "canceled" /\ RunReturns(e))
       /\ WF_vars(KeeperStep(e))
       /\ WF_vars(WatchCancel(e))
  /\ \A c \in Clients : WF_vars(PendingCancel(c))
  /\ \A r \in Runs : WF_vars(LeaseExpires(r))

FairSpec == Spec /\ Fairness

(* In addition every RunFunc returns by itself, as one with a timeout or a *)
(* finite task does. *)
BusySpec == FairSpec /\ \A e \in Execs : WF_vars(RunReturns(e))
-----------------------------------------------------------------------------
(* Properties *)

Executing(e, r) == Holds(e, r) /\ exec[e].pc # "draining"

(* Columns and status agree: in particular every running row has a lease,  *)
(* without which RequeueExpired would never recover it, and a row that is  *)
(* not running has none left to expire.                                    *)
RowConsistent ==
  \A r \in Runs :
    LET w == row[r] IN
    /\ w.status = "running" <=> w.lease # "none"
    /\ w.status = "running" <=> w.worker # NoNode
    /\ w.status = "absent" <=> r \notin {arrivals[i] : i \in DOMAIN arrivals}

(* The map running holds the cancel func of an execution under way on that *)
(* node and of that run, never of one that is over.                        *)
RegistryLive ==
  \A n \in Nodes, r \in Runs :
    LET e == running[n][r] IN
    e # NoExec =>
      /\ exec[e].run = r /\ exec[e].node = n
      /\ exec[e].pc \in {"running", "refused"} \cup Terminal

(* A run is executed by at most one goroutine of one node at a time        *)
(* (queue.go: every task is executed by exactly one node).                 *)
SingleExecution ==
  \A r \in Runs : \A e, f \in Execs :
    Executing(e, r) /\ Executing(f, r) => e = f

(* While a run is running, worker_id names the node that executes it and   *)
(* that node's Cancel finds the cancel func of the execution.              *)
OwnerExecutes ==
  \A r \in Runs : \A e \in Execs :
    Executing(e, r) =>
      /\ row[r].status = "running" => row[r].worker = exec[e].node
      /\ exec[e].pc # "claimed" => running[exec[e].node][r] = e

(* An Observer, which merges and removes the worktree of the run, is told  *)
(* of a run only when its row is settled: an execution that lost its run   *)
(* to another node reports nothing.                                        *)
ReportedIsSettled == \A r \in notified : row[r].status \in Terminal

(* A run is executed at most once and then once per allowed requeue.       *)
RetryBudget == \A r \in Runs : claims[r] <= MaxAttempts + 1

(* A run ends as canceled only if a Cancel of it was accepted.             *)
CanceledWasAsked == \A r \in Runs : row[r].status = "canceled" => r \in asked

(* A terminal status is final: no late write, renewal or requeue of any    *)
(* node changes the row again.                                             *)
TerminalIsFinal ==
  [][\A r \in Runs : row[r].status \in Terminal => row'[r] = row[r]]_vars

(* A run canceled while queued is not being executed by anybody (Cancel:   *)
(* "guaranteed not to be executed").                                       *)
QueuedCancelIsClean ==
  [][\A r \in Runs :
       row[r].status = "queued" /\ row'[r].status = "canceled"
         => \A e \in Execs : ~Executing(e, r)]_vars

(* No run is lost: whatever crashes, closes, stalls and faults happen, a   *)
(* spawned run reaches a terminal status.                                  *)
EveryRunSettles ==
  \A r \in Runs : row[r].status # "absent" ~> row[r].status \in Terminal

(* An accepted cancellation becomes canceled and never anything else, even *)
(* if the execution does not end by itself.                                *)
CancelConverges ==
  \A r \in Runs : row[r].status = "canceling" ~> row[r].status = "canceled"

(* Cancel: "the other nodes detect it by the polling of cancelWatcher and  *)
(* cancel": the execution of a run being canceled ends.                    *)
CancelReachesExecution ==
  \A r \in Runs : \A e \in Execs :
    row[r].status = "canceling" /\ Executing(e, r) ~> ~Executing(e, r)

-----------------------------------------------------------------------------
(* The queue implements the promise RunDispatch makes of each run.         *)
Dispatch == INSTANCE RunDispatch WITH
  phase <- [r \in Runs |-> row[r].status],
  busy  <- [r \in Runs |-> \E e \in Execs : Holds(e, r)]

ImplementsDispatch == Dispatch!DispatchSpec
=============================================================================
