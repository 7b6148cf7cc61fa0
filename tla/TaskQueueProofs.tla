--------------------------- MODULE TaskQueueProofs ---------------------------
(***************************************************************************)
(* Theorems about TaskQueue, for every set of runs, nodes, goroutines and  *)
(* clients, and every bound on what the environment does.                  *)
(***************************************************************************)
EXTENDS TaskQueue, TLAPS, FiniteSetTheorems

USE MaxAttemptsAssumption, NoNodeAssumption, NoRunAssumption, NoExecAssumption,
    BoundsAssumption

-----------------------------------------------------------------------------
(* Types *)

(* What the statements make of a row is a row. *)
LEMMA RowTypes ==
  /\ \A s \in Status, a \in 0 .. MaxAttempts : Released(s, a) \in Row
  /\ \A s \in Status : Overwritten(s) \in Row
  /\ \A n \in Nodes, a \in 0 .. MaxAttempts : Leased(n, a) \in Row
  /\ \A w \in Row, k \in 0 .. 3 : Swept(w, k) \in Row
<1>1. \A s \in Status, a \in 0 .. MaxAttempts : Released(s, a) \in Row
  BY DEF Released, Row
<1>2. \A s \in Status : Overwritten(s) \in Row
  BY <1>1 DEF Overwritten
<1>3. \A n \in Nodes, a \in 0 .. MaxAttempts : Leased(n, a) \in Row
  BY DEF Leased, Row, Status
<1>4. ASSUME NEW w \in Row
      PROVE  /\ SettleCanceling(w) \in Row
             /\ Retry(w) \in Row
             /\ Exhaust(w) \in Row
  <2>1. /\ w.attempts \in 0 .. MaxAttempts
        /\ w.attempts < MaxAttempts => w.attempts + 1 \in 0 .. MaxAttempts
    BY DEF Row
  <2>2. {"canceled", "queued", "failed"} \subseteq Status
    BY DEF Status, Terminal
  <2> QED
    BY <1>1, <2>1, <2>2 DEF SettleCanceling, Retry, Exhaust
<1>5. ASSUME NEW w \in Row, NEW k \in 0 .. 3
      PROVE  Swept(w, k) \in Row
  <2>1. SettleCanceling(w) \in Row
    BY <1>4
  <2>2. Retry(SettleCanceling(w)) \in Row
    BY <2>1, <1>4
  <2>3. Exhaust(Retry(SettleCanceling(w))) \in Row
    BY <2>2, <1>4
  <2>4. k = 0 \/ k = 1 \/ k = 2 \/ k = 3
    OBVIOUS
  <2> QED
    BY <2>1, <2>2, <2>3, <2>4 DEF Swept
<1> QED
  BY <1>1, <1>2, <1>3, <1>5

(* Replacing a busy goroutine's fields by values of their types. *)
LEMMA BusyExecAccess ==
  ASSUME NEW x \in BusyExec
  PROVE  /\ x.pc \in {"claimed", "running", "refused", "draining"} \cup Terminal
         /\ x.run \in Runs /\ x.node \in Nodes
         /\ x.run # NoRun /\ x.node # NoNode
         /\ x.snap \in 0 .. MaxAttempts
         /\ x # IdleExec
BY DEF BusyExec, IdleExec

LEMMA IdleExecAccess ==
  /\ IdleExec.pc = "idle" /\ IdleExec.run = NoRun /\ IdleExec.node = NoNode
  /\ IdleExec.keeper = "off" /\ IdleExec.watcher = "off"
BY DEF IdleExec

(* A goroutine that is not idle is busy. *)
LEMMA ExecCases ==
  ASSUME TypeOK, NEW e \in Execs
  PROVE  /\ exec[e] \in BusyExec \/ exec[e] = IdleExec
         /\ exec[e].pc # "idle" => exec[e] \in BusyExec
         /\ exec[e].run # NoRun => exec[e] \in BusyExec
         /\ exec[e].keeper # "off" => exec[e] \in BusyExec
         /\ exec[e].watcher = "on" => exec[e] \in BusyExec
BY IdleExecAccess DEF TypeOK

LEMMA InitTypeOK == Init => TypeOK
<1> SUFFICES ASSUME Init PROVE TypeOK
  OBVIOUS
<1>1. row \in [Runs -> Row]
  BY RowTypes DEF Init, Status
<1>2. used \in Budget
  BY DEF Init, Budget
<1> QED
  BY <1>1, <1>2 DEF Init, TypeOK, NodeState

(* A fault spends one unit of its bound, if one is left. *)
LEMMA FailType ==
  ASSUME TypeOK, Fail
  PROVE  used' \in Budget
<1>1. used \in Budget /\ used.fault \in 0 .. MaxFaults
  BY DEF TypeOK, Budget
<1>2. used.fault + 1 \in 0 .. MaxFaults
  BY <1>1 DEF Fail
<1> QED
  BY <1>1, <1>2 DEF Fail, Budget

(* Replacing one row keeps the type of the table. *)
LEMMA SetRowType ==
  ASSUME TypeOK, NEW r \in Runs, NEW w \in Row, SetRow(r, w)
  PROVE  row' \in [Runs -> Row]
BY DEF TypeOK, SetRow

LEMMA EndExecType ==
  ASSUME TypeOK, NEW e \in Execs, exec[e] \in BusyExec, EndExec(e)
  PROVE  /\ exec' \in [Execs -> BusyExec \cup {IdleExec}]
         /\ running' \in [Nodes -> [Runs -> Execs \cup {NoExec}]]
<1>1. [exec[e] EXCEPT !.pc = "draining", !.watcher = "off"] \in BusyExec
  BY DEF BusyExec
<1> QED
  BY <1>1, BusyExecAccess DEF TypeOK, EndExec

LEMMA PollTypes ==
  ASSUME TypeOK, NEW n \in Nodes, PollStep(n)
  PROVE  TypeOK'
<1>1. CASE RequeueExpired(n)
  BY <1>1, RowTypes DEF RequeueExpired, TypeOK, NodeState
<1>2. CASE RequeueFails(n)
  <2>1. row' \in [Runs -> Row]
    BY <1>2, RowTypes DEF RequeueFails, TypeOK
  <2> QED
    BY <1>2, <2>1, FailType DEF RequeueFails, TypeOK, NodeState
<1>3. ASSUME NEW e \in Execs, NEW r \in Runs, ClaimNext(n, e, r)
      PROVE  TypeOK'
  <2>1. row[r].attempts \in 0 .. MaxAttempts
    BY DEF TypeOK, Row
  <2>2. row' \in [Runs -> Row]
    BY <1>3, <2>1, RowTypes, SetRowType DEF ClaimNext
  <2>3. ClaimedExec(n, r) \in BusyExec
    BY DEF BusyExec, ClaimedExec
  <2>4. exec' \in [Execs -> BusyExec \cup {IdleExec}]
    BY <1>3, <2>3 DEF ClaimNext, TypeOK
  <2>5. claims' \in [Runs -> Nat]
    BY <1>3 DEF ClaimNext, TypeOK
  <2> QED
    BY <1>3, <2>2, <2>4, <2>5 DEF ClaimNext, TypeOK
<1>4. CASE StopClaiming(n)
  BY <1>4, FailType DEF StopClaiming, TypeOK, NodeState
<1> QED
  BY <1>1, <1>2, <1>3, <1>4 DEF PollStep

(* Only a busy goroutine takes a step of its own. *)
LEMMA ActsBusy ==
  ASSUME TypeOK, NEW e \in Execs,
         ExecStep(e) \/ KeeperStep(e) \/ WatcherStep(e)
  PROVE  exec[e] \in BusyExec
<1>1. ExecStep(e) => exec[e].pc # "idle"
  BY DEF ExecStep, LeaseStep, StartExecution, RunReturns, WriteTerminal,
         TerminalRefused, WriteCanceled, GiveUp, Terminal
<1>2. KeeperStep(e) => exec[e].keeper # "off"
  BY DEF KeeperStep, KeepAliveRead, KeepAliveReadFails, KeepAliveWrite,
         KeepAliveRefused, KeepAliveWriteFails
<1>3. WatcherStep(e) => exec[e].watcher = "on"
  BY DEF WatcherStep, WatchCancel, WatchFails
<1> QED
  BY <1>1, <1>2, <1>3, ExecCases

(* A step that changes one goroutine, and nothing else but the budget. *)
LEMMA OneExecType ==
  ASSUME TypeOK, NEW e \in Execs, NEW y \in BusyExec \cup {IdleExec},
         exec' = [exec EXCEPT ![e] = y],
         UNCHANGED used \/ Fail,
         UNCHANGED <<row, arrivals, node, running, request, claims, asked, notified>>
  PROVE  TypeOK'
<1>1. used' \in Budget
  BY FailType DEF TypeOK
<1> QED
  BY <1>1 DEF TypeOK

LEMMA ExecStepTypes ==
  ASSUME TypeOK, NEW e \in Execs, ExecStep(e)
  PROVE  TypeOK'
<1>1. exec[e] \in BusyExec
  BY ActsBusy
<1>2. exec[e].run \in Runs /\ exec[e].node \in Nodes
  BY <1>1, BusyExecAccess
<1>3. CASE StartExecution(e)
  <2>1. exec'[e] \in BusyExec
    BY <1>1, <1>3 DEF StartExecution, BusyExec, TypeOK
  <2> QED
    BY <1>2, <1>3, <2>1 DEF StartExecution, TypeOK
<1>4. CASE RunReturns(e)
  <2>1. PICK o \in Terminal : exec' = [exec EXCEPT ![e].pc = o]
    BY <1>4 DEF RunReturns, Terminal
  <2>2. [exec[e] EXCEPT !.pc = o] \in BusyExec
    BY <1>1 DEF BusyExec
  <2> QED
    BY <1>4, <2>1, <2>2, OneExecType DEF RunReturns
<1>5. CASE WriteTerminal(e)
  <2>1. exec[e].pc \in Status
    BY <1>5 DEF WriteTerminal, Status
  <2>2. row' \in [Runs -> Row]
    BY <1>2, <1>5, <2>1, RowTypes, SetRowType DEF WriteTerminal
  <2>3. EndExec(e)
    BY <1>5 DEF WriteTerminal
  <2> QED
    BY <1>1, <1>2, <1>5, <2>2, <2>3, EndExecType DEF WriteTerminal, TypeOK
<1>6. CASE TerminalRefused(e)
  <2>1. [exec[e] EXCEPT !.pc = "refused"] \in BusyExec
    BY <1>1 DEF BusyExec
  <2> QED
    BY <1>6, <2>1, OneExecType DEF TerminalRefused
<1>7. CASE WriteCanceled(e)
  <2>1. row' \in [Runs -> Row]
    BY <1>2, <1>7, RowTypes, SetRowType DEF WriteCanceled, Status, Terminal
  <2>2. EndExec(e)
    BY <1>7 DEF WriteCanceled
  <2> QED
    BY <1>1, <1>2, <1>7, <2>1, <2>2, EndExecType DEF WriteCanceled, TypeOK
<1>8. CASE GiveUp(e)
  <2>1. EndExec(e) /\ used' \in Budget
    BY <1>8, FailType DEF GiveUp, TypeOK
  <2> QED
    BY <1>1, <1>8, <2>1, EndExecType DEF GiveUp, TypeOK
<1> QED
  BY <1>3, <1>4, <1>5, <1>6, <1>7, <1>8 DEF ExecStep, LeaseStep

LEMMA HelperTypes ==
  ASSUME TypeOK, NEW e \in Execs, KeeperStep(e) \/ WatcherStep(e)
  PROVE  TypeOK'
<1>1. exec[e] \in BusyExec
  BY ActsBusy
<1>2. /\ exec[e].run \in Runs /\ exec[e].node \in Nodes
      /\ exec[e].snap \in 0 .. MaxAttempts
      /\ row[exec[e].run].attempts \in 0 .. MaxAttempts
  BY <1>1, BusyExecAccess DEF TypeOK, Row
<1>3. CASE KeepAliveRead(e)
  <2>1. /\ [exec[e] EXCEPT !.keeper = "renewing", !.snap = row[exec[e].run].attempts]
             \in BusyExec
        /\ [exec[e] EXCEPT !.keeper = "off"] \in BusyExec
    BY <1>1, <1>2 DEF BusyExec
  <2> QED
    BY <1>3, <2>1, OneExecType DEF KeepAliveRead
<1>4. CASE KeepAliveReadFails(e)
  <2>1. exec' = [exec EXCEPT ![e] = [exec[e] EXCEPT !.keeper = "off", !.ctx = "canceled"]]
    BY <1>4 DEF KeepAliveReadFails, TypeOK
  <2>2. [exec[e] EXCEPT !.keeper = "off", !.ctx = "canceled"] \in BusyExec
    BY <1>1 DEF BusyExec
  <2> QED
    BY <1>4, <2>1, <2>2, OneExecType DEF KeepAliveReadFails
<1>5. AfterRenewal(exec[e]) \in BusyExec \cup {IdleExec}
  <2>1. 0 \in 0 .. MaxAttempts
    OBVIOUS
  <2>2. /\ [exec[e] EXCEPT !.keeper = "waiting", !.snap = 0] \in BusyExec
        /\ [exec[e] EXCEPT !.keeper = "off", !.snap = 0] \in BusyExec
    BY <1>1, <2>1 DEF BusyExec
  <2> QED
    BY <2>2 DEF AfterRenewal
<1>6. CASE KeepAliveWrite(e)
  <2>1. row' \in [Runs -> Row]
    BY <1>2, <1>6, RowTypes, SetRowType DEF KeepAliveWrite
  <2> QED
    BY <1>5, <1>6, <2>1 DEF KeepAliveWrite, TypeOK
<1>7. CASE KeepAliveRefused(e)
  <2>0. 0 \in 0 .. MaxAttempts
    OBVIOUS
  <2>1. [exec[e] EXCEPT !.keeper = "off", !.snap = 0, !.ctx = "canceled"] \in BusyExec
    BY <1>1, <2>0 DEF BusyExec
  <2>2. PICK y \in BusyExec \cup {IdleExec} : exec' = [exec EXCEPT ![e] = y]
    BY <1>7, <2>1 DEF KeepAliveRefused
  <2> QED
    BY <1>7, <2>2, OneExecType DEF KeepAliveRefused
<1>8. CASE KeepAliveWriteFails(e)
  BY <1>5, <1>8, OneExecType DEF KeepAliveWriteFails
<1>9. CASE WatcherStep(e)
  <2>1. /\ [exec[e] EXCEPT !.watcher = "off"] \in BusyExec
        /\ [exec[e] EXCEPT !.watcher = "off", !.ctx = "canceled"] \in BusyExec
    BY <1>1 DEF BusyExec
  <2>2. \/ exec' = [exec EXCEPT ![e] = [exec[e] EXCEPT !.watcher = "off"]]
        \/ exec' = [exec EXCEPT ![e] = [exec[e] EXCEPT !.watcher = "off", !.ctx = "canceled"]]
    BY <1>9 DEF WatcherStep, WatchCancel, WatchFails, TypeOK
  <2> QED
    BY <1>9, <2>1, <2>2, OneExecType DEF WatcherStep, WatchCancel, WatchFails
<1> QED
  BY <1>3, <1>4, <1>6, <1>7, <1>8, <1>9 DEF KeeperStep

(* A call in progress has a run and a node. *)
LEMMA RequestCases ==
  ASSUME TypeOK, NEW c \in Clients, request[c].pc # "idle"
  PROVE  /\ request[c] \in OpenRequest
         /\ request[c].run \in Runs /\ request[c].node \in Nodes
BY DEF TypeOK, OpenRequest, IdleRequest

LEMMA ClientTypes ==
  ASSUME TypeOK, RegistryLive, NEW c \in Clients, ClientStep(c)
  PROVE  TypeOK'
<1>1. ASSUME NEW n \in Nodes, NEW r \in Runs, CallCancel(c, n, r)
      PROVE  TypeOK'
  BY <1>1 DEF CallCancel, TypeOK, OpenRequest
<1>2. CASE PendingCancel(c)
  <2>1. request[c].pc # "idle"
    BY <1>2 DEF PendingCancel, CancelRead, CancelQueued, CancelRunning,
                CancelLostRace, CancelFails, CancelSignal
  <2>2. request[c] \in OpenRequest
    BY <2>1, RequestCases
  <2>3. request[c].run \in Runs /\ request[c].node \in Nodes
    BY <2>1, RequestCases
  <2>4. CASE CancelRead(c)
    <3>1. request'[c] \in OpenRequest \cup {IdleRequest}
      BY <2>2, <2>4 DEF CancelRead, OpenRequest, TypeOK
    <3> QED
      BY <2>4, <3>1 DEF CancelRead, TypeOK
  <2>5. CASE CancelQueued(c)
    <3>1. row' \in [Runs -> Row]
      BY <2>3, <2>5, RowTypes, SetRowType DEF CancelQueued, Status, Terminal
    <3> QED
      BY <2>3, <2>5, <3>1 DEF CancelQueued, TypeOK
  <2>6. CASE CancelRunning(c)
    <3>1. row' \in [Runs -> Row]
      BY <2>3, <2>6, RowTypes, SetRowType DEF CancelRunning, Status
    <3>2. [request[c] EXCEPT !.pc = "signal"] \in OpenRequest
      BY <2>2 DEF OpenRequest
    <3> QED
      BY <2>3, <2>6, <3>1, <3>2 DEF CancelRunning, TypeOK
  <2>7. CASE CancelLostRace(c)
    <3>1. [request[c] EXCEPT !.pc = "read", !.seen = "none"] \in OpenRequest
      BY <2>2 DEF OpenRequest
    <3>2. request' = [request EXCEPT ![c] = [request[c] EXCEPT !.pc = "read", !.seen = "none"]]
      BY <2>7 DEF CancelLostRace, TypeOK
    <3> QED
      BY <2>7, <3>1, <3>2 DEF CancelLostRace, TypeOK
  <2>8. CASE CancelFails(c)
    BY <2>8, FailType DEF CancelFails, TypeOK
  <2>9. CASE CancelSignal(c)
    <3> DEFINE e == running[request[c].node][request[c].run]
    <3>1. e \in Execs \cup {NoExec}
      BY <2>3 DEF TypeOK
    <3>2. ASSUME e # NoExec
          PROVE  [exec[e] EXCEPT !.ctx = "canceled"] \in BusyExec
      <4>1. exec[e].run # NoRun
        BY <2>3, <3>2 DEF RegistryLive
      <4>2. exec[e] \in BusyExec
        BY <3>1, <3>2, <4>1, ExecCases
      <4> QED
        BY <4>2 DEF BusyExec
    <3>3. exec' \in [Execs -> BusyExec \cup {IdleExec}]
      BY <2>9, <3>1, <3>2 DEF CancelSignal, TypeOK
    <3> QED
      BY <2>9, <3>3 DEF CancelSignal, TypeOK
  <2> QED
    BY <1>2, <2>4, <2>5, <2>6, <2>7, <2>8, <2>9 DEF PendingCancel
<1> QED
  BY <1>1, <1>2 DEF ClientStep

LEMMA NodeTypes ==
  ASSUME TypeOK, NEW n \in Nodes, NodeStep(n)
  PROVE  TypeOK'
<1>1. CASE Close(n)
  <2>1. used' \in Budget
    <3>0. used.close \in 0 .. MaxCloses /\ used.close < MaxCloses
      BY <1>1 DEF Close, TypeOK, Budget
    <3>1. used.close + 1 \in 0 .. MaxCloses
      BY <3>0
    <3> QED
      BY <1>1, <3>1 DEF Close, TypeOK, Budget
  <2>2. ASSUME NEW e \in Execs PROVE exec'[e] \in BusyExec \cup {IdleExec}
    <3>1. CASE exec[e] = IdleExec
      BY <1>1, <3>1, IdleExecAccess DEF Close
    <3>2. CASE exec[e] \in BusyExec
      <4>1. \A k \in {"off", "waiting", "renewing"} :
              [exec[e] EXCEPT !.ctx = "canceled", !.watcher = "off", !.keeper = k]
                \in BusyExec
        BY <3>2 DEF BusyExec
      <4>2. exec[e].keeper \in {"off", "waiting", "renewing"}
        BY <3>2 DEF BusyExec
      <4> QED
        BY <1>1, <3>2, <4>1, <4>2 DEF Close
    <3> QED
      BY <3>1, <3>2 DEF TypeOK
  <2>3. exec' \in [Execs -> BusyExec \cup {IdleExec}]
    BY <1>1, <2>2 DEF Close
  <2> QED
    BY <1>1, <2>1, <2>3 DEF Close, TypeOK, NodeState
<1>2. ASSUME Stop(n), used' \in Budget
      PROVE  TypeOK'
  BY <1>2 DEF Stop, TypeOK, NodeState
<1>3. CASE Closed(n)
  BY <1>2, <1>3 DEF Closed, TypeOK
<1>4. CASE Crash(n)
  <2>1. used' \in Budget
    <3>1. used.crash + 1 \in 0 .. MaxCrashes
      BY <1>4 DEF Crash, TypeOK, Budget
    <3> QED
      BY <1>4, <3>1 DEF Crash, TypeOK, Budget
  <2> QED
    BY <1>2, <1>4, <2>1 DEF Crash
<1>5. CASE Restart(n)
  BY <1>5 DEF Restart, TypeOK, NodeState
<1> QED
  BY <1>1, <1>3, <1>4, <1>5 DEF NodeStep

LEMMA LeaseTypes ==
  ASSUME TypeOK, NEW r \in Runs, LeaseExpires(r) \/ LeaseMissed(r)
  PROVE  TypeOK'
<1>1. [row[r] EXCEPT !.lease = "expired"] \in Row
  <2>1. row[r] \in Row
    BY DEF TypeOK
  <2> QED
    BY <2>1 DEF Row
<1>2. row' \in [Runs -> Row]
  BY <1>1, SetRowType DEF LeaseExpires, LeaseMissed
<1>3. used' \in Budget
  <2>1. CASE LeaseExpires(r)
    BY <2>1 DEF LeaseExpires, TypeOK
  <2>2. CASE LeaseMissed(r)
    <3>1. used.stall + 1 \in 0 .. MaxStalls
      BY <2>2 DEF LeaseMissed, TypeOK, Budget
    <3> QED
      BY <2>2, <3>1 DEF LeaseMissed, TypeOK, Budget
  <2> QED
    BY <2>1, <2>2
<1> QED
  BY <1>2, <1>3 DEF LeaseExpires, LeaseMissed, TypeOK

LEMMA StepTypes == TypeOK /\ RegistryLive /\ [Next]_vars => TypeOK'
<1> SUFFICES ASSUME TypeOK, RegistryLive, [Next]_vars PROVE TypeOK'
  OBVIOUS
<1>1. ASSUME NEW n \in Nodes, NEW r \in Runs, Spawn(n, r)
      PROVE  TypeOK'
  <2>1. row' \in [Runs -> Row]
    BY <1>1, RowTypes, SetRowType DEF Spawn, Status
  <2> QED
    BY <1>1, <2>1 DEF Spawn, TypeOK
<1>2. CASE UNCHANGED vars
  BY <1>2 DEF vars, TypeOK
<1> QED
  BY <1>1, <1>2, PollTypes, NodeTypes, ExecStepTypes, HelperTypes, ClientTypes,
     LeaseTypes
     DEF Next

-----------------------------------------------------------------------------
(* The registry of cancel funcs *)

(* A step that leaves the registry alone and takes no registered execution *)
(* out of its work keeps RegistryLive. *)
LEMMA RegistryFrame ==
  ASSUME TypeOK, RegistryLive, UNCHANGED running,
         \A e \in Execs :
           exec[e].pc \in {"running", "refused"} \cup Terminal =>
             /\ exec'[e].run = exec[e].run /\ exec'[e].node = exec[e].node
             /\ exec'[e].pc \in {"running", "refused"} \cup Terminal
  PROVE  RegistryLive'
<1> SUFFICES ASSUME NEW n \in Nodes, NEW r \in Runs, running[n][r] # NoExec
             PROVE  LET e == running[n][r] IN
                    /\ exec'[e].run = r /\ exec'[e].node = n
                    /\ exec'[e].pc \in {"running", "refused"} \cup Terminal
  BY DEF RegistryLive
<1>1. running[n][r] \in Execs
  BY DEF TypeOK
<1> QED
  BY <1>1 DEF RegistryLive

LEMMA RegistryEnd ==
  ASSUME TypeOK, RegistryLive, NEW e \in Execs, exec[e] \in BusyExec, EndExec(e)
  PROVE  RegistryLive'
<1> SUFFICES ASSUME NEW n \in Nodes, NEW r \in Runs, running'[n][r] # NoExec
             PROVE  LET f == running'[n][r] IN
                    /\ exec'[f].run = r /\ exec'[f].node = n
                    /\ exec'[f].pc \in {"running", "refused"} \cup Terminal
  BY DEF RegistryLive
<1>1. ~(n = exec[e].node /\ r = exec[e].run) /\ running'[n][r] = running[n][r]
  BY BusyExecAccess DEF EndExec, TypeOK
<1>2. running[n][r] \in Execs /\ running[n][r] # e
  BY <1>1 DEF TypeOK, RegistryLive
<1>3. exec'[running[n][r]] = exec[running[n][r]]
  BY <1>2 DEF EndExec, TypeOK
<1> QED
  BY <1>1, <1>2, <1>3 DEF RegistryLive

LEMMA StepRegistry == TypeOK /\ RegistryLive /\ [Next]_vars => RegistryLive'
<1> SUFFICES ASSUME TypeOK, RegistryLive, [Next]_vars PROVE RegistryLive'
  OBVIOUS
<1> DEFINE Working(p) == p \in {"running", "refused"} \cup Terminal
<1>1. ASSUME UNCHANGED <<exec, running>>
      PROVE  RegistryLive'
  BY <1>1 DEF RegistryLive
<1>2. ASSUME NEW n \in Nodes, PollStep(n)
      PROVE  RegistryLive'
  <2>1. ASSUME NEW e \in Execs, NEW r \in Runs, ClaimNext(n, e, r)
        PROVE  RegistryLive'
    BY <2>1, RegistryFrame DEF ClaimNext, TypeOK, Terminal
  <2> QED
    BY <1>1, <1>2, <2>1 DEF PollStep, RequeueExpired, RequeueFails, StopClaiming
<1>3. ASSUME NEW e \in Execs, ExecStep(e)
      PROVE  RegistryLive'
  <2>1. exec[e] \in BusyExec /\ exec[e].run \in Runs /\ exec[e].node \in Nodes
    BY <1>3, ActsBusy, BusyExecAccess
  <2>2. CASE StartExecution(e)
    <3> SUFFICES ASSUME NEW n \in Nodes, NEW r \in Runs, running'[n][r] # NoExec
                 PROVE  LET f == running'[n][r] IN
                        /\ exec'[f].run = r /\ exec'[f].node = n
                        /\ Working(exec'[f].pc)
      BY DEF RegistryLive
    <3>1. exec'[e].run = exec[e].run /\ exec'[e].node = exec[e].node /\ exec'[e].pc = "running"
      BY <2>1, <2>2 DEF StartExecution, TypeOK, BusyExec
    <3>2. CASE n = exec[e].node /\ r = exec[e].run
      BY <2>1, <2>2, <3>1, <3>2 DEF StartExecution, TypeOK
    <3>3. CASE ~(n = exec[e].node /\ r = exec[e].run)
      <4>1. running'[n][r] = running[n][r] /\ running[n][r] \in Execs
        BY <2>1, <2>2, <3>3 DEF StartExecution, TypeOK
      <4>2. running[n][r] # e
        BY <3>3, <4>1 DEF RegistryLive
      <4>3. exec'[running[n][r]] = exec[running[n][r]]
        BY <2>2, <4>1, <4>2 DEF StartExecution, TypeOK
      <4> QED
        BY <4>1, <4>3 DEF RegistryLive
    <3> QED
      BY <3>2, <3>3
  <2>3. CASE RunReturns(e)
    BY <2>1, <2>3, RegistryFrame DEF RunReturns, TypeOK, BusyExec, Terminal
  <2>4. CASE TerminalRefused(e)
    BY <2>1, <2>4, RegistryFrame DEF TerminalRefused, TypeOK, BusyExec
  <2>5. EndExec(e) => RegistryLive'
    BY <2>1, RegistryEnd
  <2> QED
    BY <1>3, <2>2, <2>3, <2>4, <2>5
       DEF ExecStep, LeaseStep, WriteTerminal, WriteCanceled, GiveUp
<1>4. ASSUME NEW e \in Execs, KeeperStep(e) \/ WatcherStep(e)
      PROVE  RegistryLive'
  <2>1. exec[e] \in BusyExec
    BY <1>4, ActsBusy
  <2>2. UNCHANGED running
    BY <1>4 DEF KeeperStep, WatcherStep, KeepAliveRead, KeepAliveReadFails,
           KeepAliveWrite, KeepAliveRefused, KeepAliveWriteFails, WatchCancel, WatchFails
  <2>3. \A f \in Execs \ {e} : exec'[f] = exec[f]
    BY <1>4 DEF KeeperStep, WatcherStep, KeepAliveRead, KeepAliveReadFails,
           KeepAliveWrite, KeepAliveRefused, KeepAliveWriteFails, WatchCancel, WatchFails,
           TypeOK
  <2>4. exec[e].pc # "draining" =>
          /\ exec'[e].run = exec[e].run /\ exec'[e].node = exec[e].node
          /\ exec'[e].pc = exec[e].pc
    <3>1. CASE KeepAliveRead(e)
      BY <2>1, <3>1 DEF KeepAliveRead, TypeOK, BusyExec
    <3>2. CASE KeepAliveReadFails(e)
      <4>1. exec'[e] = [exec[e] EXCEPT !.keeper = "off", !.ctx = "canceled"]
        BY <3>2 DEF KeepAliveReadFails, TypeOK
      <4> QED
        BY <2>1, <4>1 DEF BusyExec
    <3>3. CASE KeepAliveWrite(e) \/ KeepAliveWriteFails(e)
      <4>1. \/ \E k \in {"waiting", "off"} :
                 exec'[e] = [exec[e] EXCEPT !.keeper = k, !.snap = 0]
            \/ exec[e].pc = "draining"
        BY <3>3 DEF KeepAliveWrite, KeepAliveWriteFails, AfterRenewal, TypeOK
      <4> QED
        BY <2>1, <4>1 DEF BusyExec
    <3>4. CASE KeepAliveRefused(e)
      <4>1. \/ exec'[e] = [exec[e] EXCEPT !.keeper = "off", !.snap = 0, !.ctx = "canceled"]
            \/ exec[e].pc = "draining"
        BY <3>4 DEF KeepAliveRefused, TypeOK
      <4> QED
        BY <2>1, <4>1 DEF BusyExec
    <3>5. CASE WatcherStep(e)
      <4>1. \/ exec'[e] = [exec[e] EXCEPT !.watcher = "off", !.ctx = "canceled"]
            \/ exec'[e] = [exec[e] EXCEPT !.watcher = "off"]
        BY <3>5 DEF WatcherStep, WatchCancel, WatchFails, TypeOK
      <4> QED
        BY <2>1, <4>1 DEF BusyExec
    <3> QED
      BY <1>4, <3>1, <3>2, <3>3, <3>4, <3>5 DEF KeeperStep
  <2> QED
    BY <2>2, <2>3, <2>4, RegistryFrame DEF Terminal
<1>5. ASSUME NEW c \in Clients, ClientStep(c)
      PROVE  RegistryLive'
  <2>1. CASE CancelSignal(c)
    <3>1. \A e \in Execs : /\ exec'[e].run = exec[e].run /\ exec'[e].node = exec[e].node
                           /\ exec'[e].pc = exec[e].pc
      BY <2>1 DEF CancelSignal, TypeOK, BusyExec, IdleExec
    <3> QED
      BY <2>1, <3>1, RegistryFrame DEF CancelSignal
  <2> QED
    BY <1>1, <1>5, <2>1 DEF ClientStep, CallCancel, PendingCancel, CancelRead,
       CancelQueued, CancelRunning, CancelLostRace, CancelFails
<1>6. ASSUME NEW n \in Nodes, NodeStep(n)
      PROVE  RegistryLive'
  <2>1. CASE Close(n)
    <3>1. ASSUME NEW e \in Execs
          PROVE  /\ exec'[e].run = exec[e].run /\ exec'[e].node = exec[e].node
                 /\ exec'[e].pc = exec[e].pc
      <4>1. CASE exec[e] = IdleExec
        BY <2>1, <4>1, IdleExecAccess DEF Close
      <4>2. CASE exec[e] \in BusyExec
        BY <2>1, <4>2 DEF Close, BusyExec
      <4> QED
        BY <4>1, <4>2 DEF TypeOK
    <3> QED
      BY <2>1, <3>1, RegistryFrame DEF Close
  <2>2. ASSUME Stop(n)
        PROVE  RegistryLive'
    <3> SUFFICES ASSUME NEW m \in Nodes, NEW r \in Runs, running'[m][r] # NoExec
                 PROVE  LET f == running'[m][r] IN
                        /\ exec'[f].run = r /\ exec'[f].node = m
                        /\ Working(exec'[f].pc)
      BY DEF RegistryLive
    <3>1. m # n /\ running'[m][r] = running[m][r]
      BY <2>2 DEF Stop, TypeOK
    <3>2. running[m][r] \in Execs
      BY <3>1 DEF TypeOK
    <3>3. exec'[running[m][r]] = exec[running[m][r]]
      BY <2>2, <3>1, <3>2 DEF Stop, RegistryLive
    <3> QED
      BY <3>1, <3>2, <3>3 DEF RegistryLive
  <2> QED
    BY <1>1, <1>6, <2>1, <2>2 DEF NodeStep, Closed, Crash, Restart
<1> QED
  BY <1>1, <1>2, <1>3, <1>4, <1>5, <1>6
     DEF Next, Spawn, LeaseExpires, LeaseMissed, vars

LEMMA InitRegistry == Init => RegistryLive
  BY DEF Init, RegistryLive

(* Every variable keeps its type, whatever the environment does.           *)
THEOREM TypeCorrect == Spec => []TypeOK
<1>1. Init => TypeOK /\ RegistryLive
  BY InitTypeOK, InitRegistry
<1>2. (TypeOK /\ RegistryLive) /\ [Next]_vars => (TypeOK /\ RegistryLive)'
  BY StepTypes, StepRegistry
<1> QED
  BY <1>1, <1>2, PTL DEF Spec

(* No cancel func outlives its execution, whatever the environment does:   *)
(* a Cancel on a node never reaches an execution of another run.           *)
THEOREM RegistryCorrect == Spec => []RegistryLive
<1>1. Init => TypeOK /\ RegistryLive
  BY InitTypeOK, InitRegistry
<1>2. (TypeOK /\ RegistryLive) /\ [Next]_vars => (TypeOK /\ RegistryLive)'
  BY StepTypes, StepRegistry
<1> QED
  BY <1>1, <1>2, PTL DEF Spec

-----------------------------------------------------------------------------
(* What a step does to one row, and to its count of claims *)

Kept(r) == row'[r] = row[r] /\ claims'[r] = claims[r]

Became(r, w) == row'[r] = w /\ claims'[r] = claims[r]

(* Execution e writes its outcome and ends; a renewal may outlive it. *)
Concludes(e) == exec[e].pc \in Terminal /\ exec'[e].pc \in {"idle", "draining"}

RowStep(r) ==
  \/ Kept(r)
  \/ \E k \in 0 .. 3 : Became(r, Swept(row[r], k))
  \/ /\ row[r].status = "queued"
     /\ \E n \in Nodes : row'[r] = Leased(n, row[r].attempts)
     /\ claims'[r] = claims[r] + 1
  \/ /\ row[r].status = "running"
     /\ \E e \in Execs : Holds(e, r) /\ Concludes(e) /\ Became(r, Overwritten(exec[e].pc))
  \/ /\ row[r].status = "running"
     /\ Became(r, Overwritten("canceling")) /\ r \in asked' /\ exec' = exec
  \/ /\ \/ row[r].status = "canceling"
        \/ row[r].status = "queued" /\ r \in asked'
     /\ Became(r, Overwritten("canceled"))
  \/ /\ row[r].status = "running"
     /\ \E e \in Execs : /\ Holds(e, r) /\ exec[e].keeper = "renewing"
                         /\ Became(r, Leased(exec[e].node, exec[e].snap))
  \/ /\ row[r].lease = "live"
     /\ \/ \A e \in Execs : ~Holds(e, r)
        \/ MaxStalls # 0 /\ used'.stall = used.stall + 1
     /\ Became(r, [row[r] EXCEPT !.lease = "expired"])

(* A step that writes one row with w leaves the others alone. *)
LEMMA OneRow ==
  ASSUME TypeOK, NEW q \in Runs, NEW w, SetRow(q, w), UNCHANGED claims
  PROVE  \A r \in Runs : Kept(r) \/ (r = q /\ Became(r, w))
BY DEF TypeOK, SetRow, Kept, Became

(* Spawn apart, no step appends to arrivals and every row takes a RowStep. *)
LEMMA RowSteps ==
  ASSUME TypeOK, [Next]_vars, \A n \in Nodes, q \in Runs : ~Spawn(n, q)
  PROVE  arrivals' = arrivals /\ \A r \in Runs : RowStep(r)
<1>1. ASSUME UNCHANGED <<row, claims>>
      PROVE  \A r \in Runs : RowStep(r)
  BY <1>1 DEF RowStep, Kept
<1>3. ASSUME NEW n \in Nodes, PollStep(n)
      PROVE  \A r \in Runs : RowStep(r)
  <2>1. CASE RequeueExpired(n) \/ RequeueFails(n)
    <3>1. PICK k \in 0 .. 3 : row' = [r \in Runs |-> Swept(row[r], k)] /\ UNCHANGED claims
      BY <2>1 DEF RequeueExpired, RequeueFails
    <3> QED
      BY <3>1 DEF RowStep, Became
  <2>2. ASSUME NEW e \in Execs, NEW q \in Runs, ClaimNext(n, e, q)
        PROVE  \A r \in Runs : RowStep(r)
    <3>1. row[q].status = "queued"
      BY <2>2 DEF ClaimNext, IsNextQueued
    <3>2. /\ row'[q] = Leased(n, row[q].attempts)
          /\ claims'[q] = claims[q] + 1
          /\ \A r \in Runs \ {q} : Kept(r)
      BY <2>2 DEF ClaimNext, SetRow, Kept, TypeOK
    <3> QED
      BY <3>1, <3>2 DEF RowStep
  <2> QED
    BY <1>1, <1>3, <2>1, <2>2 DEF PollStep, StopClaiming
<1>4. ASSUME NEW e \in Execs, ExecStep(e)
      PROVE  \A r \in Runs : RowStep(r)
  <2>1. exec[e].run \in Runs
    BY <1>4, ActsBusy, BusyExecAccess
  <2>2. CASE WriteTerminal(e)
    <3>1. Concludes(e)
      BY <2>2, IdleExecAccess DEF WriteTerminal, EndExec, Concludes, TypeOK, BusyExec
    <3> QED
      BY <2>1, <2>2, <3>1, OneRow DEF WriteTerminal, RowStep, Holds
  <2>3. CASE WriteCanceled(e)
    BY <2>1, <2>3, OneRow DEF WriteCanceled, RowStep
  <2> QED
    BY <1>1, <1>4, <2>2, <2>3
       DEF ExecStep, LeaseStep, StartExecution, RunReturns, TerminalRefused, GiveUp
<1>5. ASSUME NEW e \in Execs, KeeperStep(e) \/ WatcherStep(e)
      PROVE  \A r \in Runs : RowStep(r)
  <2>1. CASE KeepAliveWrite(e)
    <3>1. exec[e].run \in Runs
      BY <1>5, ActsBusy, BusyExecAccess
    <3>2. /\ SetRow(exec[e].run, Leased(exec[e].node, exec[e].snap))
          /\ row[exec[e].run].status = "running" /\ exec[e].keeper = "renewing"
          /\ UNCHANGED claims
      BY <2>1 DEF KeepAliveWrite
    <3> QED
      BY <3>1, <3>2, OneRow DEF RowStep, Holds
  <2> QED
    BY <1>1, <1>5, <2>1
       DEF KeeperStep, WatcherStep, KeepAliveRead, KeepAliveReadFails,
           KeepAliveRefused, KeepAliveWriteFails, WatchCancel, WatchFails
<1>6. ASSUME NEW c \in Clients, ClientStep(c)
      PROVE  \A r \in Runs : RowStep(r)
  <2>1. CASE CancelQueued(c) \/ CancelRunning(c)
    <3>1. request[c].run \in Runs
      BY <2>1, RequestCases DEF CancelQueued, CancelRunning
    <3> QED
      BY <2>1, <3>1, OneRow DEF CancelQueued, CancelRunning, RowStep
  <2> QED
    BY <1>1, <1>6, <2>1 DEF ClientStep, CallCancel, PendingCancel, CancelRead,
       CancelLostRace, CancelFails, CancelSignal
<1>7. ASSUME NEW q \in Runs, LeaseExpires(q) \/ LeaseMissed(q)
      PROVE  \A r \in Runs : RowStep(r)
  <2>1. /\ SetRow(q, [row[q] EXCEPT !.lease = "expired"])
        /\ UNCHANGED claims /\ row[q].lease = "live"
    BY <1>7 DEF LeaseExpires, LeaseMissed
  <2>2. (\A e \in Execs : ~Holds(e, q)) \/ (MaxStalls # 0 /\ used'.stall = used.stall + 1)
    BY <1>7 DEF LeaseExpires, LeaseMissed, TypeOK, Budget
  <2> QED
    BY <2>1, <2>2, OneRow DEF RowStep
<1>8. arrivals' = arrivals
  BY DEF Next, vars, PollStep, RequeueExpired, RequeueFails, ClaimNext, StopClaiming,
     ExecStep, LeaseStep, StartExecution, RunReturns, WriteTerminal, TerminalRefused,
     WriteCanceled, GiveUp, KeeperStep, KeepAliveRead, KeepAliveReadFails, KeepAliveWrite,
     KeepAliveRefused, KeepAliveWriteFails, WatcherStep, WatchCancel, WatchFails,
     ClientStep, CallCancel, PendingCancel, CancelRead, CancelQueued, CancelRunning,
     CancelLostRace, CancelFails, CancelSignal, NodeStep, Close, Closed, Crash, Restart,
     Stop, LeaseExpires, LeaseMissed
<1> QED
  BY <1>1, <1>3, <1>4, <1>5, <1>6, <1>7, <1>8
     DEF Next, vars, NodeStep, Close, Closed, Crash, Restart, Stop

(* The rows RowStep speaks of, in plain terms. *)
LEMMA SweptRow ==
  ASSUME NEW w \in Row, NEW k \in 0 .. 3
  PROVE  \/ Swept(w, k) = w
         \/ w.status = "canceling" /\ w.lease # "live" /\ Swept(w, k) = Released("canceled", w.attempts)
         \/ /\ w.status = "running" /\ w.lease = "expired"
            /\ \/ w.attempts < MaxAttempts /\ Swept(w, k) = Released("queued", w.attempts + 1)
               \/ Swept(w, k) = Released("failed", w.attempts)
<1>1. \/ SettleCanceling(w) = w
      \/ /\ w.status = "canceling" /\ w.lease # "live"
         /\ SettleCanceling(w) = Released("canceled", w.attempts)
  BY DEF SettleCanceling
<1>2. /\ w.status # "running" => Retry(w) = w /\ Exhaust(w) = w
      /\ \A a \in 0 .. MaxAttempts, s \in {"canceled", "queued"} :
           /\ Retry(Released("canceled", a)) = Released("canceled", a)
           /\ Exhaust(Released(s, a)) = Released(s, a)
  BY DEF Retry, Exhaust, Released
<1>3. w.attempts \in 0 .. MaxAttempts
  BY DEF Row
<1>4. CASE w.status = "canceling"
  BY <1>1, <1>2, <1>3, <1>4 DEF Swept
<1>5. CASE w.status = "running"
  <2>1. SettleCanceling(w) = w
    BY <1>5 DEF SettleCanceling
  <2>2. \/ Retry(w) = w
        \/ /\ w.lease = "expired" /\ w.attempts < MaxAttempts
           /\ Retry(w) = Released("queued", w.attempts + 1)
    BY <1>5 DEF Retry
  <2>3. \/ Exhaust(w) = w
        \/ w.lease = "expired" /\ Exhaust(w) = Released("failed", w.attempts)
    BY <1>5 DEF Exhaust
  <2>4. Exhaust(Released("queued", w.attempts + 1)) = Released("queued", w.attempts + 1)
    BY DEF Exhaust, Released
  <2> QED
    BY <1>5, <2>1, <2>2, <2>3, <2>4 DEF Swept
<1>6. CASE w.status \notin {"canceling", "running"}
  BY <1>1, <1>2, <1>6 DEF Swept
<1> QED
  BY <1>4, <1>5, <1>6


-----------------------------------------------------------------------------
(* Rows *)

Shape(w) ==
  /\ w.status = "running" <=> w.lease # "none"
  /\ w.status = "running" <=> w.worker # NoNode

Arrived == {arrivals[i] : i \in DOMAIN arrivals}

LEMMA SpawnRows ==
  ASSUME TypeOK, NEW n \in Nodes, NEW q \in Runs, Spawn(n, q)
  PROVE  /\ row[q].status = "absent" /\ row'[q] = Released("queued", 0)
         /\ \A r \in Runs \ {q} : row'[r] = row[r]
         /\ Arrived' = Arrived \cup {q}
         /\ exec' = exec /\ claims' = claims
<1>1. arrivals' = Append(arrivals, q) /\ arrivals \in Seq(Runs)
  BY DEF Spawn, TypeOK
<1>2. Arrived' = Arrived \cup {q}
  BY <1>1 DEF Arrived
<1> QED
  BY <1>2 DEF Spawn, SetRow, TypeOK

(* A row keeps its shape, and comes into being only by Spawn. *)
LEMMA RowStepShape ==
  ASSUME TypeOK, NEW r \in Runs, RowStep(r), Shape(row[r])
  PROVE  Shape(row'[r]) /\ (row'[r].status = "absent" <=> row[r].status = "absent")
<1>0. row[r] \in Row
  BY DEF TypeOK
<1>1. ASSUME NEW k \in 0 .. 3, Became(r, Swept(row[r], k))
      PROVE  Shape(row'[r]) /\ (row'[r].status = "absent" <=> row[r].status = "absent")
  BY <1>0, <1>1, SweptRow DEF Became, Shape, Released
<1>2. ASSUME NEW e \in Execs, Holds(e, r), exec[e].keeper = "renewing",
             row[r].status = "running", Became(r, Leased(exec[e].node, exec[e].snap))
      PROVE  Shape(row'[r]) /\ (row'[r].status = "absent" <=> row[r].status = "absent")
  <2>1. exec[e].node \in Nodes
    BY <1>2, ExecCases, BusyExecAccess
  <2> QED
    BY <1>2, <2>1 DEF Became, Shape, Leased
<1>3. CASE Kept(r)
  BY <1>3 DEF Kept
<1>4. CASE row[r].status = "queued" /\ \E n \in Nodes : row'[r] = Leased(n, row[r].attempts)
  BY <1>4 DEF Shape, Leased
<1>5. ASSUME NEW s \in Terminal \cup {"canceling"}, Became(r, Overwritten(s)),
             row[r].status \in {"running", "queued", "canceling"}
      PROVE  Shape(row'[r]) /\ (row'[r].status = "absent" <=> row[r].status = "absent")
  BY <1>5 DEF Became, Shape, Overwritten, Released, Terminal
<1>6. CASE row[r].lease = "live" /\ Became(r, [row[r] EXCEPT !.lease = "expired"])
  BY <1>0, <1>6 DEF Became, Shape, Row
<1> QED
  BY <1>1, <1>2, <1>3, <1>4, <1>5, <1>6 DEF RowStep, Concludes, Terminal

LEMMA StepRows == TypeOK /\ RowConsistent /\ [Next]_vars => RowConsistent'
<1> SUFFICES ASSUME TypeOK, RowConsistent, [Next]_vars
             PROVE  RowConsistent'
  OBVIOUS
<1>1. \A r \in Runs : Shape(row[r]) /\ (row[r].status = "absent" <=> r \notin Arrived)
  BY DEF RowConsistent, Shape, Arrived
<1>2. ASSUME NEW n \in Nodes, NEW q \in Runs, Spawn(n, q), NEW r \in Runs
      PROVE  Shape(row'[r]) /\ (row'[r].status = "absent" <=> r \notin Arrived')
  BY <1>1, <1>2, SpawnRows DEF Released, Shape
<1>3. ASSUME \A n \in Nodes, q \in Runs : ~Spawn(n, q), NEW r \in Runs
      PROVE  Shape(row'[r]) /\ (row'[r].status = "absent" <=> r \notin Arrived')
  BY <1>1, <1>3, RowSteps, RowStepShape DEF Arrived
<1>4. \A r \in Runs : Shape(row'[r]) /\ (row'[r].status = "absent" <=> r \notin Arrived')
  BY <1>2, <1>3
<1> QED
  BY <1>4 DEF RowConsistent, Shape, Arrived

LEMMA InitRows == Init => RowConsistent
<1> SUFFICES ASSUME Init PROVE RowConsistent
  OBVIOUS
<1>1. \A r \in Runs : /\ row[r].status = "absent"
                       /\ row[r].lease = "none" /\ row[r].worker = NoNode
  BY DEF Init, Released
<1>2. Arrived = {}
  BY DEF Init, Arrived
<1>3. \A r \in Runs : Shape(row[r]) /\ (row[r].status = "absent" <=> r \notin Arrived)
  BY <1>1, <1>2 DEF Shape
<1> QED
  BY <1>3 DEF RowConsistent, Shape, Arrived

(* Whatever the environment does, a running row and no other has a lease   *)
(* and an owner: no crash or fault leaves a run that RequeueExpired cannot *)
(* find, and every run ever spawned has a row.                             *)
THEOREM RowsConsistent == Spec => []RowConsistent
<1> QED
  BY InitRows, StepRows, TypeCorrect, PTL DEF Spec

(* No statement changes a terminal row. *)
LEMMA RowFinal ==
  ASSUME TypeOK, RowConsistent, [Next]_vars,
         NEW r \in Runs, row[r].status \in Terminal
  PROVE  row'[r] = row[r]
<1>1. row[r] \in Row
  BY DEF TypeOK
<1>2. /\ row[r].status \notin {"absent", "queued", "running", "canceling"}
      /\ row[r].lease = "none"
  BY DEF Terminal, RowConsistent
<1>3. CASE \E n \in Nodes, q \in Runs : Spawn(n, q)
  BY <1>2, <1>3, SpawnRows
<1>4. CASE \A n \in Nodes, q \in Runs : ~Spawn(n, q)
  <2>1. RowStep(r)
    BY <1>4, RowSteps
  <2>2. \A k \in 0 .. 3 : Swept(row[r], k) = row[r]
    BY <1>1, <1>2, SweptRow
  <2> QED
    BY <1>2, <2>1, <2>2 DEF RowStep, Kept, Became
<1> QED
  BY <1>3, <1>4

(* A terminal status is final, whatever the environment does.              *)
THEOREM TerminalFinal == Spec => TerminalIsFinal
<1>1. TypeOK /\ RowConsistent /\ [Next]_vars
        => [\A r \in Runs : row[r].status \in Terminal => row'[r] = row[r]]_vars
  BY RowFinal
<1> QED
  BY <1>1, TypeCorrect, RowsConsistent, PTL DEF TerminalIsFinal, Spec

(* An Observer is told of a run in the step that settles it. *)
LEMMA Told ==
  ASSUME TypeOK, [Next]_vars, NEW r \in notified', r \notin notified
  PROVE  row'[r].status \in Terminal
<1>1. \/ \E e \in Execs : WriteTerminal(e) \/ WriteCanceled(e)
      \/ \E c \in Clients : CancelQueued(c)
  BY DEF Next, vars, Spawn, PollStep, RequeueExpired, RequeueFails, ClaimNext,
     StopClaiming, ExecStep, LeaseStep, StartExecution, RunReturns, TerminalRefused,
     GiveUp, KeeperStep, KeepAliveRead, KeepAliveReadFails, KeepAliveWrite,
     KeepAliveRefused, KeepAliveWriteFails, WatcherStep, WatchCancel, WatchFails,
     ClientStep, CallCancel, PendingCancel, CancelRead, CancelRunning,
     CancelLostRace, CancelFails, CancelSignal, NodeStep, Close, Closed, Crash, Restart,
     Stop, LeaseExpires, LeaseMissed
<1>2. ASSUME NEW e \in Execs, WriteTerminal(e)
      PROVE  row'[r].status \in Terminal
  <2>1. exec[e].run \in Runs
    BY <1>2, ActsBusy, BusyExecAccess DEF ExecStep, LeaseStep
  <2> QED
    BY <1>2, <2>1 DEF WriteTerminal, SetRow, Overwritten, Released, TypeOK
<1>3. ASSUME NEW e \in Execs, WriteCanceled(e)
      PROVE  row'[r].status \in Terminal
  <2>1. exec[e].run \in Runs
    BY <1>3, ActsBusy, BusyExecAccess DEF ExecStep, LeaseStep
  <2> QED
    BY <1>3, <2>1 DEF WriteCanceled, SetRow, Overwritten, Released, TypeOK, Terminal
<1>4. ASSUME NEW c \in Clients, CancelQueued(c)
      PROVE  row'[r].status \in Terminal
  <2>1. request[c].run \in Runs
    BY <1>4, RequestCases DEF CancelQueued
  <2> QED
    BY <1>4, <2>1 DEF CancelQueued, SetRow, Overwritten, Released, TypeOK, Terminal
<1> QED
  BY <1>1, <1>2, <1>3, <1>4

(* An Observer is told only of settled runs, whatever the environment      *)
(* does: an execution that lost its run to another node reports nothing,   *)
(* and what was reported is never taken back.                              *)
THEOREM ReportsSettled == Spec => []ReportedIsSettled
<1>1. Init => ReportedIsSettled
  BY DEF Init, ReportedIsSettled
<1>2. TypeOK /\ RowConsistent /\ TypeOK' /\ ReportedIsSettled /\ [Next]_vars
        => ReportedIsSettled'
  <2> SUFFICES ASSUME TypeOK, RowConsistent, TypeOK', ReportedIsSettled, [Next]_vars,
                      NEW r \in notified'
               PROVE  row'[r].status \in Terminal
    BY DEF ReportedIsSettled
  <2>1. r \in Runs
    BY DEF TypeOK
  <2> QED
    BY <2>1, Told, RowFinal DEF ReportedIsSettled
<1> QED
  BY <1>1, <1>2, TypeCorrect, RowsConsistent, PTL DEF Spec

-----------------------------------------------------------------------------
(* What a step does to one goroutine *)

(* The helper renews what it read before, or has read the row just now. *)
Renewing(e) ==
  exec'[e].keeper = "renewing" =>
    \/ exec[e].keeper = "renewing" /\ exec'[e].snap = exec[e].snap
    \/ /\ exec'[e].snap = row[exec[e].run].attempts
       /\ UNCHANGED row

Stepped(e) ==
  \/ exec'[e] = IdleExec
  \/ exec'[e].run = exec[e].run /\ Renewing(e)

LEMMA SameExec ==
  ASSUME NEW e \in Execs, exec'[e] = exec[e]
  PROVE  Stepped(e)
BY DEF Stepped, Renewing

LEMMA EndExecSteps ==
  ASSUME TypeOK, NEW e \in Execs, exec[e] \in BusyExec, EndExec(e)
  PROVE  \A f \in Execs : Stepped(f)
<1>1. \/ exec'[e] = IdleExec
      \/ exec'[e] = [exec[e] EXCEPT !.pc = "draining", !.watcher = "off"]
  BY DEF EndExec, TypeOK
<1>2. Stepped(e)
  BY <1>1 DEF Stepped, Renewing, BusyExec
<1>3. \A f \in Execs \ {e} : exec'[f] = exec[f]
  BY DEF EndExec, TypeOK
<1> QED
  BY <1>2, <1>3, SameExec

(* The steps of a goroutine and its helpers. *)
LEMMA OwnSteps ==
  ASSUME TypeOK, NEW e \in Execs, ExecStep(e) \/ KeeperStep(e) \/ WatcherStep(e)
  PROVE  \A f \in Execs : Stepped(f)
<1>1. exec[e] \in BusyExec
  BY ActsBusy
<1>2. EndExec(e) => \A f \in Execs : Stepped(f)
  BY <1>1, EndExecSteps
<1>3. CASE StartExecution(e)
  <2>1. /\ exec'[e].run = exec[e].run /\ exec'[e].keeper # "renewing"
        /\ \A f \in Execs \ {e} : exec'[f] = exec[f]
    BY <1>1, <1>3 DEF StartExecution, TypeOK, BusyExec
  <2> QED
    BY <2>1, SameExec DEF Stepped, Renewing
<1>4. CASE RunReturns(e)
  <2>1. /\ exec'[e].run = exec[e].run /\ exec'[e].keeper = exec[e].keeper
        /\ exec'[e].snap = exec[e].snap
        /\ \A f \in Execs \ {e} : exec'[f] = exec[f]
    BY <1>1, <1>4 DEF RunReturns, TypeOK, BusyExec
  <2> QED
    BY <2>1, SameExec DEF Stepped, Renewing
<1>5. CASE TerminalRefused(e)
  <2>1. /\ exec'[e].run = exec[e].run /\ exec'[e].keeper = exec[e].keeper
        /\ exec'[e].snap = exec[e].snap
        /\ \A f \in Execs \ {e} : exec'[f] = exec[f]
    BY <1>1, <1>5 DEF TerminalRefused, TypeOK, BusyExec
  <2> QED
    BY <2>1, SameExec DEF Stepped, Renewing
<1>6. CASE KeepAliveRead(e)
  <2>1. \/ /\ exec'[e] = [exec[e] EXCEPT !.keeper = "renewing",
                                        !.snap = row[exec[e].run].attempts]
           /\ UNCHANGED row
        \/ exec'[e] = [exec[e] EXCEPT !.keeper = "off"]
    BY <1>6 DEF KeepAliveRead, TypeOK
  <2>2. \A f \in Execs \ {e} : exec'[f] = exec[f]
    BY <1>6 DEF KeepAliveRead, TypeOK
  <2> QED
    BY <1>1, <2>1, <2>2, SameExec DEF Stepped, Renewing, BusyExec
<1>7. CASE \/ KeepAliveReadFails(e) \/ KeepAliveWrite(e)
           \/ KeepAliveRefused(e) \/ KeepAliveWriteFails(e)
  <2>1. \/ exec'[e] = IdleExec
        \/ exec'[e] = [exec[e] EXCEPT !.keeper = "off", !.ctx = "canceled"]
        \/ exec'[e] = [exec[e] EXCEPT !.keeper = "off", !.snap = 0, !.ctx = "canceled"]
        \/ \E k \in {"waiting", "off"} :
             exec'[e] = [exec[e] EXCEPT !.keeper = k, !.snap = 0]
    BY <1>7 DEF KeepAliveReadFails, KeepAliveWrite, KeepAliveRefused,
                KeepAliveWriteFails, AfterRenewal, TypeOK
  <2>2. \A f \in Execs \ {e} : exec'[f] = exec[f]
    BY <1>7 DEF KeepAliveReadFails, KeepAliveWrite, KeepAliveRefused,
                KeepAliveWriteFails, TypeOK
  <2>3. \/ exec'[e] = IdleExec
        \/ exec'[e].run = exec[e].run /\ exec'[e].keeper # "renewing"
    BY <1>1, <2>1 DEF BusyExec
  <2> QED
    BY <2>2, <2>3, SameExec DEF Stepped, Renewing
<1>8. CASE WatcherStep(e)
  <2>1. \/ exec'[e] = [exec[e] EXCEPT !.watcher = "off", !.ctx = "canceled"]
        \/ exec'[e] = [exec[e] EXCEPT !.watcher = "off"]
    BY <1>8 DEF WatcherStep, WatchCancel, WatchFails, TypeOK
  <2>2. \A f \in Execs \ {e} : exec'[f] = exec[f]
    BY <1>8 DEF WatcherStep, WatchCancel, WatchFails, TypeOK
  <2>3. /\ exec'[e].run = exec[e].run /\ exec'[e].keeper = exec[e].keeper
        /\ exec'[e].snap = exec[e].snap
    BY <1>1, <2>1 DEF BusyExec
  <2> QED
    BY <2>2, <2>3, SameExec DEF Stepped, Renewing
<1> QED
  BY <1>2, <1>3, <1>4, <1>5, <1>6, <1>7, <1>8
     DEF ExecStep, LeaseStep, WriteTerminal, WriteCanceled, GiveUp, KeeperStep

(* Only ClaimNext gives a goroutine a run. *)
LEMMA ExecSteps ==
  ASSUME TypeOK, [Next]_vars,
         \A n \in Nodes, e \in Execs, r \in Runs : ~ClaimNext(n, e, r)
  PROVE  \A e \in Execs : Stepped(e)
<1>1. ASSUME UNCHANGED exec
      PROVE  \A e \in Execs : Stepped(e)
  BY <1>1, SameExec
<1>2. ASSUME NEW c \in Clients, CancelSignal(c), NEW e \in Execs
      PROVE  Stepped(e)
  <2>1. exec[e] \in BusyExec \cup {IdleExec}
    BY DEF TypeOK
  <2>2. exec'[e] = exec[e] \/ exec'[e] = [exec[e] EXCEPT !.ctx = "canceled"]
    BY <1>2 DEF CancelSignal, TypeOK
  <2> QED
    BY <2>1, <2>2, SameExec DEF Stepped, Renewing, BusyExec, IdleExec
<1>3. ASSUME NEW n \in Nodes, Close(n), NEW e \in Execs
      PROVE  Stepped(e)
  <2>1. exec[e] = IdleExec \/ exec[e] \in BusyExec
    BY DEF TypeOK
  <2>2. \/ exec'[e] = exec[e]
        \/ \E k \in {"off", exec[e].keeper} :
             /\ exec[e].pc # "idle"
             /\ exec'[e] = [exec[e] EXCEPT !.ctx = "canceled", !.watcher = "off", !.keeper = k]
    BY <1>3 DEF Close
  <2> QED
    BY <2>1, <2>2, SameExec, IdleExecAccess DEF Stepped, Renewing, BusyExec
<1>4. ASSUME NEW n \in Nodes, Stop(n), NEW e \in Execs
      PROVE  Stepped(e)
  BY <1>4, SameExec DEF Stop, Stepped
<1>5. CASE \E e \in Execs : ExecStep(e) \/ KeeperStep(e) \/ WatcherStep(e)
  BY <1>5, OwnSteps
<1> QED
  BY <1>1, <1>2, <1>3, <1>4, <1>5
     DEF Next, vars, Spawn, PollStep, RequeueExpired, RequeueFails, StopClaiming,
         ClientStep, CallCancel, PendingCancel, CancelRead, CancelQueued,
         CancelRunning, CancelLostRace, CancelFails, NodeStep, Closed, Crash,
         Restart, LeaseExpires, LeaseMissed

-----------------------------------------------------------------------------
(* The timing assumption: no execution is stalled past its lease *)

(* A run with a goroutine is neither waiting nor up for a requeue. *)
HeldInv ==
  \A e \in Execs : exec[e].run # NoRun =>
    /\ row[exec[e].run].status \in {"running", "canceling"} \cup Terminal
    /\ row[exec[e].run].lease # "expired"

UniqueInv ==
  \A e, f \in Execs : exec[e].run = exec[f].run /\ exec[e].run # NoRun => e = f

(* What leaseKeepAlive is about to write back is not stale. *)
SnapInv ==
  \A e \in Execs :
    exec[e].keeper = "renewing" /\ row[exec[e].run].status = "running"
      => exec[e].snap = row[exec[e].run].attempts

(* The attempts of a row count the claims that were lost. *)
Counted(w, n) ==
  /\ w.status = "absent" => n = 0
  /\ w.status = "queued" => n = w.attempts
  /\ w.status = "running" => n = w.attempts + 1
  /\ n <= MaxAttempts + 1

ClaimsInv == \A r \in Runs : Counted(row[r], claims[r])

TimelyInv == TypeOK /\ RowConsistent /\ HeldInv /\ UniqueInv /\ SnapInv /\ ClaimsInv

(* The row of a run that a goroutine holds. *)
LEMMA HeldRow ==
  ASSUME MaxStalls = 0, TimelyInv, [Next]_vars,
         NEW e \in Execs, NEW r \in Runs, exec[e].run = r
  PROVE  /\ row'[r].status \in {"running", "canceling"} \cup Terminal
         /\ row'[r].lease # "expired"
         /\ row'[r].status = "running" =>
              row[r].status = "running" /\ row'[r].attempts = row[r].attempts
<1>1. /\ row[r] \in Row
      /\ row[r].status \in {"running", "canceling"} \cup Terminal
      /\ row[r].lease # "expired"
  BY NoRunAssumption DEF TimelyInv, TypeOK, HeldInv
<1>2. row[r].status # "running" => row[r].lease = "none"
  BY DEF TimelyInv, RowConsistent
<1>3. CASE \E n \in Nodes, q \in Runs : Spawn(n, q)
  <2>1. row'[r] = row[r]
    BY <1>1, <1>3, SpawnRows DEF TimelyInv, Terminal
  <2> QED
    BY <1>1, <2>1
<1>4. CASE \A n \in Nodes, q \in Runs : ~Spawn(n, q)
  <2>1. RowStep(r)
    BY <1>4, RowSteps DEF TimelyInv
  <2>2. ASSUME NEW k \in 0 .. 3, row'[r] = Swept(row[r], k)
        PROVE  \/ row'[r] = row[r]
               \/ row'[r].status = "canceled" /\ row'[r].lease = "none"
    BY <1>1, <2>2, SweptRow DEF Released
  <2>3. ASSUME NEW f \in Execs, Holds(f, r), exec[f].keeper = "renewing",
               row[r].status = "running", row'[r] = Leased(exec[f].node, exec[f].snap)
        PROVE  row'[r].attempts = row[r].attempts /\ row'[r].lease = "live"
    <3>1. exec[f].snap = row[r].attempts
      BY <2>3 DEF TimelyInv, SnapInv, Holds
    <3> QED
      BY <2>3, <3>1 DEF Leased
  <2>4. ASSUME NEW s \in Terminal \cup {"canceling"}, row'[r] = Overwritten(s)
        PROVE  row'[r].status = s /\ row'[r].lease = "none"
    BY <2>4 DEF Overwritten, Released
  <2>5. row[r].status \notin {"absent", "queued"}
    BY <1>1 DEF Terminal
  <2>6. CASE \E f \in Execs : /\ Holds(f, r) /\ exec[f].keeper = "renewing"
                              /\ row[r].status = "running"
                              /\ Became(r, Leased(exec[f].node, exec[f].snap))
    <3>1. row'[r].attempts = row[r].attempts /\ row'[r].lease = "live"
          /\ row[r].status = "running" /\ row'[r].status = "running"
      BY <2>3, <2>6 DEF Became, Leased
    <3> QED
      BY <3>1
  <2>7. CASE \E s \in Terminal \cup {"canceling"} : Became(r, Overwritten(s))
    BY <2>4, <2>7 DEF Became, Terminal
  <2>8. CASE Kept(r) \/ \E k \in 0 .. 3 : Became(r, Swept(row[r], k))
    BY <1>1, <2>2, <2>8 DEF Kept, Became, Terminal
  <2>9. ~ \A f \in Execs : ~Holds(f, r)
    BY DEF Holds
  <2> QED
    BY <2>1, <2>5, <2>6, <2>7, <2>8, <2>9 DEF RowStep, Concludes, Terminal
<1> QED
  BY <1>3, <1>4

LEMMA StepClaims ==
  ASSUME MaxStalls = 0, TimelyInv, [Next]_vars
  PROVE  ClaimsInv'
<1> SUFFICES ASSUME NEW r \in Runs PROVE Counted(row'[r], claims'[r])
  BY DEF ClaimsInv
<1>1. /\ row[r] \in Row /\ row[r].attempts \in 0 .. MaxAttempts
      /\ claims[r] \in Nat
      /\ Counted(row[r], claims[r])
  BY DEF TimelyInv, TypeOK, ClaimsInv, Row
<1>2. CASE \E n \in Nodes, q \in Runs : Spawn(n, q)
  BY <1>1, <1>2, SpawnRows DEF TimelyInv, Counted, Released
<1>3. CASE \A n \in Nodes, q \in Runs : ~Spawn(n, q)
  <2>1. RowStep(r)
    BY <1>3, RowSteps DEF TimelyInv
  <2>2. ASSUME NEW k \in 0 .. 3, Became(r, Swept(row[r], k))
        PROVE  Counted(row'[r], claims'[r])
    BY <1>1, <2>2, SweptRow DEF Became, Counted, Released
  <2>3. ASSUME NEW f \in Execs, Holds(f, r), exec[f].keeper = "renewing",
               row[r].status = "running", Became(r, Leased(exec[f].node, exec[f].snap))
        PROVE  Counted(row'[r], claims'[r])
    <3>1. exec[f].snap = row[r].attempts
      BY <2>3 DEF TimelyInv, SnapInv, Holds
    <3> QED
      BY <1>1, <2>3, <3>1 DEF Became, Leased, Counted
  <2>4. ASSUME NEW s \in Terminal \cup {"canceling"}, Became(r, Overwritten(s))
        PROVE  Counted(row'[r], claims'[r])
    BY <1>1, <2>4 DEF Became, Overwritten, Released, Counted, Terminal
  <2>5. ASSUME NEW n \in Nodes, row[r].status = "queued",
               row'[r] = Leased(n, row[r].attempts), claims'[r] = claims[r] + 1
        PROVE  Counted(row'[r], claims'[r])
    BY <1>1, <2>5 DEF Leased, Counted
  <2>6. CASE Kept(r)
    BY <1>1, <2>6 DEF Kept
  <2>7. CASE Became(r, [row[r] EXCEPT !.lease = "expired"])
    BY <1>1, <2>7 DEF Became, Counted, Row
  <2> QED
    BY <2>1, <2>2, <2>3, <2>4, <2>5, <2>6, <2>7 DEF RowStep, Concludes, Terminal
<1> QED
  BY <1>2, <1>3

LEMMA StepTimely == MaxStalls = 0 /\ TimelyInv /\ [Next]_vars /\ TypeOK' => TimelyInv'
<1> SUFFICES ASSUME MaxStalls = 0, TimelyInv, [Next]_vars, TypeOK' PROVE TimelyInv'
  OBVIOUS
<1>1. ClaimsInv' /\ RowConsistent'
  BY StepClaims, StepRows DEF TimelyInv
<1>2. ASSUME NEW n \in Nodes, NEW e \in Execs, NEW r \in Runs, ClaimNext(n, e, r)
      PROVE  HeldInv' /\ UniqueInv' /\ SnapInv'
  <2>1. row[r].status = "queued" /\ row'[r] = Leased(n, row[r].attempts)
    BY <1>2 DEF ClaimNext, IsNextQueued, SetRow, TimelyInv, TypeOK
  <2>2. \A q \in Runs \ {r} : row'[q] = row[q]
    BY <1>2 DEF ClaimNext, SetRow, TimelyInv, TypeOK
  <2>3. /\ exec'[e] = ClaimedExec(n, r)
        /\ \A f \in Execs \ {e} : exec'[f] = exec[f]
    BY <1>2 DEF ClaimNext, TimelyInv, TypeOK
  <2>4. \A f \in Execs : exec[f].run # r
    BY <2>1, NoRunAssumption DEF TimelyInv, HeldInv, Terminal
  <2>5. \A f \in Execs : exec[f].run # NoRun => exec[f].run \in Runs
    BY ExecCases, BusyExecAccess DEF TimelyInv
  <2>6. \A f \in Execs \ {e} : exec[f].run # NoRun => row'[exec[f].run] = row[exec[f].run]
    BY <2>2, <2>4, <2>5
  <2>7. exec'[e].run = r /\ exec'[e].keeper = "off"
    BY <2>3 DEF ClaimedExec
  <2>8. \A f \in Execs : exec[f].keeper = "renewing" => exec[f].run # NoRun
    BY ExecCases, BusyExecAccess DEF TimelyInv
  <2>9. HeldInv'
    BY <2>1, <2>3, <2>6, <2>7 DEF HeldInv, TimelyInv, Leased
  <2>10. UniqueInv'
    BY <2>3, <2>4, <2>7 DEF UniqueInv, TimelyInv
  <2>11. SnapInv'
    BY <2>3, <2>6, <2>7, <2>8 DEF SnapInv, TimelyInv
  <2> QED
    BY <2>9, <2>10, <2>11
<1>3. CASE \A n \in Nodes, e \in Execs, r \in Runs : ~ClaimNext(n, e, r)
  <2>1. \A e \in Execs : Stepped(e)
    BY <1>3, ExecSteps DEF TimelyInv
  <2>2. \A e \in Execs : /\ exec'[e].run # NoRun => exec'[e].run = exec[e].run
                         /\ exec'[e].run # NoRun => exec'[e].run \in Runs
                         /\ exec'[e].run = NoRun => exec'[e].keeper = "off"
    <3>1. \A e \in Execs : exec'[e] \in BusyExec \cup {IdleExec}
      BY DEF TypeOK
    <3> QED
      BY <2>1, <3>1, IdleExecAccess, BusyExecAccess DEF Stepped
  <2>3. HeldInv'
    BY <2>2, HeldRow DEF HeldInv
  <2>4. UniqueInv'
    BY <2>2 DEF UniqueInv, TimelyInv
  <2>5. SnapInv'
    <3> SUFFICES ASSUME NEW e \in Execs, exec'[e].keeper = "renewing",
                        row'[exec'[e].run].status = "running"
                 PROVE  exec'[e].snap = row'[exec'[e].run].attempts
      BY DEF SnapInv
    <3>1. exec'[e].run = exec[e].run /\ exec[e].run \in Runs /\ Renewing(e)
      BY <2>1, <2>2, IdleExecAccess DEF Stepped
    <3>2. /\ row[exec[e].run].status = "running"
          /\ row'[exec[e].run].attempts = row[exec[e].run].attempts
      BY <3>1, HeldRow
    <3> QED
      BY <3>1, <3>2 DEF Renewing, TimelyInv, SnapInv
  <2> QED
    BY <1>1, <2>3, <2>4, <2>5 DEF TimelyInv
<1> QED
  BY <1>1, <1>2, <1>3 DEF TimelyInv

LEMMA InitTimely == Init => TimelyInv
<1> SUFFICES ASSUME Init PROVE TimelyInv
  OBVIOUS
<1>1. \A e \in Execs : exec[e].run = NoRun /\ exec[e].keeper = "off"
  BY DEF Init, IdleExec
<1>2. \A r \in Runs : row[r].status = "absent" /\ claims[r] = 0
  BY DEF Init, Released
<1>3. 0 <= MaxAttempts + 1
  OBVIOUS
<1>4. ClaimsInv
  BY <1>2, <1>3 DEF ClaimsInv, Counted
<1> QED
  BY <1>1, <1>4, InitTypeOK, InitRows DEF TimelyInv, HeldInv, UniqueInv, SnapInv

LEMMA AlwaysTimely == ASSUME MaxStalls = 0 PROVE Spec => []TimelyInv
<1>1. TimelyInv /\ [Next]_vars /\ TypeOK' => TimelyInv'
  BY StepTimely
<1> QED
  BY <1>1, InitTimely, TypeCorrect, PTL DEF Spec

(* If executions renew or wind down within a lease, no two goroutines of   *)
(* any nodes execute the same run, whatever crashes, closes and failing    *)
(* statements happen.                                                      *)
THEOREM ExecutedOnce == ASSUME MaxStalls = 0 PROVE Spec => []SingleExecution
<1>1. TimelyInv => SingleExecution
  BY NoRunAssumption DEF TimelyInv, UniqueInv, SingleExecution, Executing, Holds
<1> QED
  BY <1>1, AlwaysTimely, PTL

(* Under the same assumption, a run is executed at most MaxAttempts + 1    *)
(* times.                                                                  *)
THEOREM BudgetKept == ASSUME MaxStalls = 0 PROVE Spec => []RetryBudget
<1>1. TimelyInv => RetryBudget
  BY DEF TimelyInv, ClaimsInv, Counted, RetryBudget
<1> QED
  BY <1>1, AlwaysTimely, PTL

(* Under the same assumption, a Cancel that finds the run queued cancels a *)
(* run that nobody is executing, not even what a lost attempt has left.    *)
THEOREM QueuedCancelClean == ASSUME MaxStalls = 0 PROVE Spec => QueuedCancelIsClean
<1>1. TimelyInv => \A r \in Runs : row[r].status = "queued"
                     => \A e \in Execs : ~Executing(e, r)
  BY NoRunAssumption DEF TimelyInv, HeldInv, Executing, Holds, Terminal
<1>2. TimelyInv =>
        [\A r \in Runs :
           row[r].status = "queued" /\ row'[r].status = "canceled"
             => \A e \in Execs : ~Executing(e, r)]_vars
  BY <1>1
<1> QED
  BY <1>2, AlwaysTimely, PTL DEF QueuedCancelIsClean

-----------------------------------------------------------------------------
(* Who executes *)

Working(p) == p \in {"running", "refused"} \cup Terminal

(* A goroutine keeps its run and its node while it works, and is registered *)
(* before it does.                                                          *)
Placed(e) ==
  \/ exec'[e] = IdleExec
  \/ /\ exec'[e].run = exec[e].run /\ exec'[e].node = exec[e].node
     /\ \/ exec'[e].pc \in {exec[e].pc, "draining"}
        \/ Working(exec[e].pc) /\ Working(exec'[e].pc)
        \/ exec[e].pc = "claimed" /\ StartExecution(e)

LEMMA EndExecPlaces ==
  ASSUME TypeOK, NEW e \in Execs, exec[e] \in BusyExec, EndExec(e)
  PROVE  \A f \in Execs : Placed(f)
<1>1. \/ exec'[e] = IdleExec
      \/ exec'[e] = [exec[e] EXCEPT !.pc = "draining", !.watcher = "off"]
  BY DEF EndExec, TypeOK
<1>2. Placed(e)
  BY <1>1 DEF Placed, BusyExec
<1>3. \A f \in Execs \ {e} : Placed(f)
  BY DEF EndExec, TypeOK, Placed
<1> QED
  BY <1>2, <1>3

LEMMA OwnPlaces ==
  ASSUME TypeOK, NEW e \in Execs, ExecStep(e) \/ KeeperStep(e) \/ WatcherStep(e)
  PROVE  \A f \in Execs : Placed(f)
<1>1. exec[e] \in BusyExec
  BY ActsBusy
<1>2. EndExec(e) => \A f \in Execs : Placed(f)
  BY <1>1, EndExecPlaces
<1>3. CASE \/ StartExecution(e) \/ RunReturns(e) \/ TerminalRefused(e)
           \/ KeeperStep(e) \/ WatcherStep(e)
  <2>1. \A f \in Execs \ {e} : exec'[f] = exec[f]
    BY <1>3 DEF StartExecution, RunReturns, TerminalRefused, KeeperStep, KeepAliveRead,
       KeepAliveReadFails, KeepAliveWrite, KeepAliveRefused, KeepAliveWriteFails,
       WatcherStep, WatchCancel, WatchFails, TypeOK
  <2>2. CASE StartExecution(e)
    BY <1>1, <2>2 DEF StartExecution, Placed, TypeOK, BusyExec
  <2>3. CASE RunReturns(e) \/ TerminalRefused(e)
    BY <1>1, <2>3 DEF RunReturns, TerminalRefused, Placed, Working, Terminal, TypeOK, BusyExec
  <2>4. CASE KeeperStep(e) \/ WatcherStep(e)
    <3>1. \/ exec'[e] = IdleExec
          \/ /\ exec'[e].run = exec[e].run /\ exec'[e].node = exec[e].node
             /\ exec'[e].pc = exec[e].pc
      <4>1. CASE KeepAliveRead(e)
        BY <1>1, <4>1 DEF KeepAliveRead, TypeOK, BusyExec
      <4>2. CASE \/ KeepAliveReadFails(e) \/ KeepAliveWrite(e)
                 \/ KeepAliveRefused(e) \/ KeepAliveWriteFails(e)
        <5>1. \/ exec'[e] = IdleExec
              \/ exec'[e] = [exec[e] EXCEPT !.keeper = "off", !.ctx = "canceled"]
              \/ exec'[e] = [exec[e] EXCEPT !.keeper = "off", !.snap = 0, !.ctx = "canceled"]
              \/ \E k \in {"waiting", "off"} :
                   exec'[e] = [exec[e] EXCEPT !.keeper = k, !.snap = 0]
          BY <4>2 DEF KeepAliveReadFails, KeepAliveWrite, KeepAliveRefused,
                      KeepAliveWriteFails, AfterRenewal, TypeOK
        <5> QED
          BY <1>1, <5>1 DEF BusyExec
      <4>3. CASE WatcherStep(e)
        <5>1. \/ exec'[e] = [exec[e] EXCEPT !.watcher = "off", !.ctx = "canceled"]
              \/ exec'[e] = [exec[e] EXCEPT !.watcher = "off"]
          BY <4>3 DEF WatcherStep, WatchCancel, WatchFails, TypeOK
        <5> QED
          BY <1>1, <5>1 DEF BusyExec
      <4> QED
        BY <2>4, <4>1, <4>2, <4>3 DEF KeeperStep
    <3> QED
      BY <2>1, <3>1 DEF Placed
  <2> QED
    BY <1>3, <2>1, <2>2, <2>3, <2>4 DEF Placed
<1> QED
  BY <1>2, <1>3 DEF ExecStep, LeaseStep, WriteTerminal, WriteCanceled, GiveUp

(* Apart from ClaimNext, which fills an idle goroutine. *)
LEMMA Places ==
  ASSUME TypeOK, [Next]_vars,
         \A n \in Nodes, e \in Execs, r \in Runs : ~ClaimNext(n, e, r)
  PROVE  \A e \in Execs : Placed(e)
<1>1. UNCHANGED exec => \A e \in Execs : Placed(e)
  BY DEF Placed
<1>2. ASSUME NEW c \in Clients, CancelSignal(c), NEW e \in Execs
      PROVE  Placed(e)
  <2>1. exec[e] \in BusyExec \cup {IdleExec}
    BY DEF TypeOK
  <2>2. exec'[e] = exec[e] \/ exec'[e] = [exec[e] EXCEPT !.ctx = "canceled"]
    BY <1>2 DEF CancelSignal, TypeOK
  <2> QED
    BY <2>1, <2>2 DEF Placed, BusyExec, IdleExec
<1>3. ASSUME NEW n \in Nodes, Close(n), NEW e \in Execs
      PROVE  Placed(e)
  <2>1. exec[e] = IdleExec \/ exec[e] \in BusyExec
    BY DEF TypeOK
  <2>2. \/ exec'[e] = exec[e]
        \/ \E k \in {"off", exec[e].keeper} :
             /\ exec[e].pc # "idle"
             /\ exec'[e] = [exec[e] EXCEPT !.ctx = "canceled", !.watcher = "off", !.keeper = k]
    BY <1>3 DEF Close
  <2> QED
    BY <2>1, <2>2, IdleExecAccess DEF Placed, BusyExec
<1>4. ASSUME NEW n \in Nodes, Stop(n), NEW e \in Execs
      PROVE  Placed(e)
  BY <1>4 DEF Stop, Placed
<1>5. CASE \E e \in Execs : ExecStep(e) \/ KeeperStep(e) \/ WatcherStep(e)
  BY <1>5, OwnPlaces
<1> QED
  BY <1>1, <1>2, <1>3, <1>4, <1>5
     DEF Next, vars, Spawn, PollStep, RequeueExpired, RequeueFails, StopClaiming,
         ClientStep, CallCancel, PendingCancel, CancelRead, CancelQueued,
         CancelRunning, CancelLostRace, CancelFails, NodeStep, Closed, Crash,
         Restart, LeaseExpires, LeaseMissed

(* What the registry loses or replaces. *)
LEMMA RegistryMoves ==
  ASSUME TypeOK, [Next]_vars
  PROVE  \/ UNCHANGED running
         \/ \E e \in Execs : StartExecution(e)
         \/ \E e \in Execs : exec[e] \in BusyExec /\ EndExec(e)
         \/ \E n \in Nodes : Stop(n)
<1>1. ASSUME NEW e \in Execs, WriteTerminal(e) \/ WriteCanceled(e) \/ GiveUp(e)
      PROVE  exec[e] \in BusyExec /\ EndExec(e)
  BY <1>1, ActsBusy DEF ExecStep, LeaseStep, WriteTerminal, WriteCanceled, GiveUp
<1> QED
  BY <1>1
     DEF Next, vars, Spawn, PollStep, RequeueExpired, RequeueFails, ClaimNext, StopClaiming,
     ExecStep, LeaseStep, RunReturns, TerminalRefused,
     KeeperStep, KeepAliveRead, KeepAliveReadFails, KeepAliveWrite,
     KeepAliveRefused, KeepAliveWriteFails, WatcherStep, WatchCancel, WatchFails,
     ClientStep, CallCancel, PendingCancel, CancelRead, CancelQueued, CancelRunning,
     CancelLostRace, CancelFails, CancelSignal, NodeStep, Close, Closed, Crash, Restart,
     LeaseExpires, LeaseMissed

(* A working goroutine is registered under its node and run, and the row,  *)
(* while running, names that node.                                         *)
Registered ==
  \A e \in Execs :
    Working(exec[e].pc) => running[exec[e].node][exec[e].run] = e

OwnerNamed ==
  \A e \in Execs :
    exec[e].pc \notin {"idle", "draining"} /\ row[exec[e].run].status = "running"
      => row[exec[e].run].worker = exec[e].node

LEMMA StepRegistered ==
  ASSUME MaxStalls = 0, TimelyInv, Registered, [Next]_vars
  PROVE  Registered'
<1> SUFFICES ASSUME NEW e \in Execs, Working(exec'[e].pc)
             PROVE  running'[exec'[e].node][exec'[e].run] = e
  BY DEF Registered
<1>1. TypeOK /\ UniqueInv
  BY DEF TimelyInv
<1>2. CASE \E n \in Nodes, f \in Execs, r \in Runs : ClaimNext(n, f, r)
  <2>1. PICK n \in Nodes, f \in Execs, r \in Runs : ClaimNext(n, f, r)
    BY <1>2
  <2>2. exec' = [exec EXCEPT ![f] = ClaimedExec(n, r)] /\ running' = running
    BY <2>1 DEF ClaimNext
  <2>3. e # f
    BY <1>1, <2>2 DEF ClaimedExec, Working, Terminal, TypeOK
  <2>4. exec'[e] = exec[e]
    BY <1>1, <2>2, <2>3 DEF TypeOK
  <2> QED
    BY <2>2, <2>4 DEF Registered
<1>3. CASE \A n \in Nodes, f \in Execs, r \in Runs : ~ClaimNext(n, f, r)
  <2>1. Placed(e) /\ exec'[e] # IdleExec
    BY <1>1, <1>3, Places, IdleExecAccess DEF Working, Terminal
  <2>2. CASE StartExecution(e)
    <3>1. exec[e] \in BusyExec
      BY <1>1, <2>2, ActsBusy DEF ExecStep, LeaseStep
    <3>2. exec'[e].run = exec[e].run /\ exec'[e].node = exec[e].node
      BY <1>1, <2>2, <3>1 DEF StartExecution, TypeOK, BusyExec
    <3> QED
      BY <1>1, <2>2, <3>1, <3>2, BusyExecAccess DEF StartExecution, TypeOK
  <2>3. CASE ~StartExecution(e)
    <3>1. /\ Working(exec[e].pc)
          /\ exec'[e].run = exec[e].run /\ exec'[e].node = exec[e].node
      BY <2>1, <2>3 DEF Placed, Working, Terminal
    <3>2. exec[e] \in BusyExec /\ running[exec[e].node][exec[e].run] = e
      BY <1>1, <3>1, ExecCases DEF Registered, Working, Terminal
    <3>3. exec[e].run \in Runs /\ exec[e].node \in Nodes /\ exec[e].run # NoRun
      BY <3>2, BusyExecAccess
    <3>4. ASSUME NEW f \in Execs, exec[f] \in BusyExec, f # e
          PROVE  exec[f].run # exec[e].run
      BY <1>1, <3>3, <3>4 DEF UniqueInv
    <3>5. ASSUME NEW f \in Execs, StartExecution(f)
          PROVE  running'[exec[e].node][exec[e].run] = e
      <4>1. exec[f] \in BusyExec /\ f # e
        BY <1>1, <2>3, <3>5, ActsBusy DEF ExecStep, LeaseStep
      <4> QED
        BY <1>1, <3>2, <3>3, <3>4, <3>5, <4>1 DEF StartExecution, TypeOK
    <3>6. ASSUME NEW f \in Execs, exec[f] \in BusyExec, EndExec(f)
          PROVE  running'[exec[e].node][exec[e].run] = e
      <4>1. f # e
        BY <1>1, <3>6, IdleExecAccess DEF EndExec, TypeOK, BusyExec, Working, Terminal
      <4> QED
        BY <1>1, <3>2, <3>3, <3>4, <3>6, <4>1 DEF EndExec, TypeOK
    <3>7. ASSUME NEW n \in Nodes, Stop(n)
          PROVE  running'[exec[e].node][exec[e].run] = e
      <4>1. exec[e].node # n
        BY <2>1, <3>7 DEF Stop
      <4> QED
        BY <1>1, <3>2, <3>3, <3>7, <4>1 DEF Stop, TypeOK
    <3> QED
      BY <1>1, <3>1, <3>2, <3>5, <3>6, <3>7, RegistryMoves
  <2> QED
    BY <2>2, <2>3
<1> QED
  BY <1>2, <1>3

LEMMA StepOwner ==
  ASSUME MaxStalls = 0, TimelyInv, OwnerNamed, [Next]_vars
  PROVE  OwnerNamed'
<1> SUFFICES ASSUME NEW e \in Execs, exec'[e].pc \notin {"idle", "draining"},
                    row'[exec'[e].run].status = "running"
             PROVE  row'[exec'[e].run].worker = exec'[e].node
  BY DEF OwnerNamed
<1>1. TypeOK /\ UniqueInv /\ HeldInv /\ RowConsistent
  BY DEF TimelyInv
<1>2. CASE \E n \in Nodes, f \in Execs, r \in Runs : ClaimNext(n, f, r)
  <2>1. PICK n \in Nodes, f \in Execs, r \in Runs : ClaimNext(n, f, r)
    BY <1>2
  <2>2. /\ exec' = [exec EXCEPT ![f] = ClaimedExec(n, r)]
        /\ row' = [row EXCEPT ![r] = Leased(n, row[r].attempts)]
        /\ row[r].status = "queued"
    BY <2>1 DEF ClaimNext, SetRow, IsNextQueued
  <2>3. CASE e = f
    BY <1>1, <2>2, <2>3 DEF ClaimedExec, Leased, TypeOK
  <2>4. CASE e # f
    <3>1. exec'[e] = exec[e] /\ exec[e] \in BusyExec
      BY <1>1, <2>2, <2>4, IdleExecAccess DEF TypeOK
    <3>2. exec[e].run # r /\ exec[e].run \in Runs
      BY <1>1, <2>2, <3>1, BusyExecAccess DEF HeldInv, Terminal
    <3>3. row'[exec[e].run] = row[exec[e].run]
      BY <1>1, <2>2, <3>2 DEF TypeOK
    <3> QED
      BY <3>1, <3>3 DEF OwnerNamed
  <2> QED
    BY <2>3, <2>4
<1>3. CASE \A n \in Nodes, f \in Execs, r \in Runs : ~ClaimNext(n, f, r)
  <2>1. Placed(e) /\ exec'[e] # IdleExec
    BY <1>1, <1>3, Places, IdleExecAccess
  <2>2. /\ exec[e].pc \notin {"idle", "draining"}
        /\ exec'[e].run = exec[e].run /\ exec'[e].node = exec[e].node
    BY <2>1 DEF Placed, Working, Terminal
  <2>3. exec[e].run \in Runs /\ exec[e].run # NoRun
    BY <1>1, <2>2, ExecCases, BusyExecAccess
  <2> DEFINE r == exec[e].run
  <2>4. row[r].status = "running" /\ row[r].lease # "expired" /\ row[r] \in Row
    BY <1>1, <2>2, <2>3, HeldRow DEF HeldInv, TypeOK
  <2>5. row[r].worker = exec[e].node
    BY <2>2, <2>4 DEF OwnerNamed
  <2>6. ~ \E n \in Nodes, q \in Runs : Spawn(n, q) /\ q = r
    BY <2>4 DEF Spawn
  <2>7. CASE \E n \in Nodes, q \in Runs : Spawn(n, q)
    BY <1>1, <2>2, <2>3, <2>5, <2>6, <2>7, SpawnRows
  <2>8. CASE \A n \in Nodes, q \in Runs : ~Spawn(n, q)
    <3>1. RowStep(r)
      BY <1>1, <2>3, <2>8, RowSteps
    <3>2. \A k \in 0 .. 3 : Swept(row[r], k) = row[r]
      BY <2>4, SweptRow
    <3>3. ASSUME NEW f \in Execs, Holds(f, r), Became(r, Leased(exec[f].node, exec[f].snap))
          PROVE  row'[r].worker = exec[e].node
      <4>1. f = e
        BY <1>1, <2>3, <3>3 DEF UniqueInv, Holds
      <4> QED
        BY <3>3, <4>1 DEF Became, Leased
    <3>4. ASSUME NEW s \in Terminal \cup {"canceling"}, Became(r, Overwritten(s))
          PROVE  FALSE
      BY <2>2, <3>4 DEF Became, Overwritten, Released, Terminal
    <3>5. CASE Became(r, [row[r] EXCEPT !.lease = "expired"])
      BY <2>2, <2>4, <2>5, <3>5 DEF Became, Row
    <3> QED
      BY <2>2, <2>4, <2>5, <3>1, <3>2, <3>3, <3>4, <3>5
         DEF RowStep, Kept, Became, Concludes, Terminal
  <2> QED
    BY <2>7, <2>8
<1> QED
  BY <1>2, <1>3

(* While a run is running, worker_id names the node that executes it, and  *)
(* a Cancel there reaches the execution, whatever crashes, closes and      *)
(* failing statements happen: under the timing assumption no row is taken  *)
(* from under its execution and no registration is overwritten.            *)
THEOREM OwnerFound == ASSUME MaxStalls = 0 PROVE Spec => []OwnerExecutes
<1>1. Init => Registered /\ OwnerNamed
  BY DEF Init, IdleExec, Registered, OwnerNamed, Working, Terminal
<1>2. TimelyInv /\ (Registered /\ OwnerNamed) /\ [Next]_vars => (Registered /\ OwnerNamed)'
  BY StepRegistered, StepOwner
<1>3. TimelyInv /\ Registered /\ OwnerNamed => OwnerExecutes
  <2> SUFFICES ASSUME TimelyInv, Registered, OwnerNamed,
                      NEW r \in Runs, NEW e \in Execs, Executing(e, r)
               PROVE  /\ row[r].status = "running" => row[r].worker = exec[e].node
                      /\ exec[e].pc # "claimed" => running[exec[e].node][r] = e
    BY DEF OwnerExecutes
  <2>1. exec[e].run = r /\ exec[e].run # NoRun /\ exec[e].pc # "draining"
    BY DEF Executing, Holds
  <2>2. exec[e].pc \in {"claimed", "running", "refused"} \cup Terminal
    BY <2>1, ExecCases, BusyExecAccess DEF TimelyInv
  <2> QED
    BY <2>1, <2>2 DEF Registered, OwnerNamed, Working, Terminal
<1> QED
  BY <1>1, <1>2, <1>3, AlwaysTimely, PTL DEF Spec

-----------------------------------------------------------------------------
(* Who asked for a cancellation *)

(* Nothing but a Cancel cancels a runCtx, writes canceled or settles a run *)
(* as such, where no node closes, stalls or fails a statement.             *)
RowsAsked ==
  \A r \in Runs : row[r].status \in {"canceling", "canceled"} => r \in asked

ExecsAsked ==
  \A e \in Execs :
    exec[e].ctx = "canceled" \/ exec[e].pc = "canceled" => exec[e].run \in asked

SignalsAsked ==
  \A c \in Clients : request[c].pc = "signal" => request[c].run \in asked

NodesUp ==
  /\ \A n \in Nodes : node[n] # "closing"
  /\ \A e \in Execs : exec[e].run # NoRun => Up(exec[e].node)

(* Only its own execution completes a run or lets it fail. *)
Unsettled ==
  \A e \in Execs :
    exec[e].pc \notin {"idle", "draining"} =>
      row[exec[e].run].status \in {"running", "canceling", "canceled"}

AskedInv == RowsAsked /\ ExecsAsked /\ SignalsAsked /\ NodesUp /\ Unsettled

LEMMA NoFaults ==
  ASSUME MaxCloses = 0, MaxFaults = 0, TypeOK
  PROVE  ~Fail /\ \A n \in Nodes : ~Close(n)
<1>1. used.fault \in 0 .. MaxFaults /\ used.close \in 0 .. MaxCloses
  BY DEF TypeOK, Budget
<1>2. ~(used.fault < MaxFaults) /\ ~(used.close < MaxCloses)
  BY <1>1
<1> QED
  BY <1>2 DEF Fail, Close

LEMMA AskedGrows == [Next]_vars => asked \subseteq asked'
BY DEF Next, vars, Spawn, PollStep, RequeueExpired, RequeueFails, ClaimNext, StopClaiming,
   ExecStep, LeaseStep, StartExecution, RunReturns, WriteTerminal, TerminalRefused,
   WriteCanceled, GiveUp, KeeperStep, KeepAliveRead, KeepAliveReadFails, KeepAliveWrite,
   KeepAliveRefused, KeepAliveWriteFails, WatcherStep, WatchCancel, WatchFails,
   ClientStep, CallCancel, PendingCancel, CancelRead, CancelQueued, CancelRunning,
   CancelLostRace, CancelFails, CancelSignal, NodeStep, Close, Closed, Crash, Restart,
   Stop, LeaseExpires, LeaseMissed

LEMMA StepRowsAsked ==
  ASSUME TypeOK, RowsAsked, ExecsAsked, [Next]_vars
  PROVE  RowsAsked'
<1> SUFFICES ASSUME NEW r \in Runs, row'[r].status \in {"canceling", "canceled"}
             PROVE  r \in asked'
  BY DEF RowsAsked
<1>1. row[r] \in Row /\ (row[r].status \in {"canceling", "canceled"} => r \in asked')
  BY AskedGrows DEF RowsAsked, TypeOK
<1>2. CASE \E n \in Nodes, q \in Runs : Spawn(n, q)
  BY <1>1, <1>2, SpawnRows DEF Released
<1>3. CASE \A n \in Nodes, q \in Runs : ~Spawn(n, q)
  <2>1. RowStep(r)
    BY <1>3, RowSteps
  <2>2. ASSUME NEW e \in Execs, Holds(e, r), Became(r, Overwritten(exec[e].pc))
        PROVE  exec[e].pc \in {"canceling", "canceled"}
    BY <2>2 DEF Became, Overwritten, Released
  <2>3. ASSUME NEW e \in Execs, Holds(e, r), exec[e].pc \in Terminal,
               Became(r, Overwritten(exec[e].pc))
        PROVE  r \in asked'
    BY <2>2, <2>3, AskedGrows DEF ExecsAsked, Holds, Terminal
  <2>4. ASSUME NEW k \in 0 .. 3, Became(r, Swept(row[r], k))
        PROVE  r \in asked'
    BY <1>1, <2>4, SweptRow DEF Became, Released
  <2>5. CASE \E n \in Nodes, a \in 0 .. MaxAttempts : row'[r] = Leased(n, a)
    BY <2>5 DEF Leased
  <2>6. row[r].attempts \in 0 .. MaxAttempts
        /\ \A e \in Execs : exec[e].keeper = "renewing" =>
             exec[e].node \in Nodes /\ exec[e].snap \in 0 .. MaxAttempts
    BY <1>1, ExecCases, BusyExecAccess DEF Row
  <2>7. CASE Became(r, [row[r] EXCEPT !.lease = "expired"])
    BY <1>1, <2>7 DEF Became, Row
  <2> QED
    BY <1>1, <2>1, <2>3, <2>4, <2>5, <2>6, <2>7 DEF RowStep, Concludes, Kept, Became
<1> QED
  BY <1>2, <1>3

LEMMA StepExecsAsked ==
  ASSUME MaxCloses = 0, MaxFaults = 0, TypeOK, RegistryLive, AskedInv, [Next]_vars
  PROVE  ExecsAsked'
<1> SUFFICES ASSUME NEW f \in Execs, exec'[f].ctx = "canceled" \/ exec'[f].pc = "canceled"
             PROVE  exec'[f].run \in asked
  BY AskedGrows DEF ExecsAsked
<1>1. exec[f] \in BusyExec \cup {IdleExec}
  BY DEF TypeOK
<1>2. exec[f].ctx = "canceled" \/ exec[f].pc = "canceled" => exec[f].run \in asked
  BY DEF AskedInv, ExecsAsked
<1>3. ~Fail /\ \A n \in Nodes : ~Close(n)
  BY NoFaults
<1>4. exec'[f] = exec[f] => exec'[f].run \in asked
  BY <1>2
<1>5. exec'[f] # IdleExec
  BY DEF IdleExec
<1>6. ASSUME NEW n \in Nodes, NEW e \in Execs, NEW r \in Runs, ClaimNext(n, e, r)
      PROVE  exec'[f].run \in asked
  <2>1. f # e
    BY <1>6 DEF ClaimNext, ClaimedExec, TypeOK
  <2> QED
    BY <1>4, <1>6, <2>1 DEF ClaimNext, TypeOK
<1>7. ASSUME NEW e \in Execs, ExecStep(e) \/ KeeperStep(e) \/ WatcherStep(e), e # f
      PROVE  exec'[f].run \in asked
  <2>1. exec'[f] = exec[f]
    BY <1>7 DEF ExecStep, LeaseStep, StartExecution, RunReturns, WriteTerminal, TerminalRefused,
       WriteCanceled, GiveUp, EndExec, KeeperStep, KeepAliveRead, KeepAliveReadFails,
       KeepAliveWrite, KeepAliveRefused, KeepAliveWriteFails, WatcherStep, WatchCancel,
       WatchFails, TypeOK
  <2> QED
    BY <1>4, <2>1
<1>8. ASSUME ExecStep(f) \/ KeeperStep(f) \/ WatcherStep(f)
      PROVE  exec'[f].run \in asked
  <2>1. exec[f] \in BusyExec /\ exec[f].run # NoRun
    BY <1>8, ActsBusy, BusyExecAccess
  <2>2. CASE StartExecution(f)
    BY <2>1, <2>2 DEF StartExecution, TypeOK, BusyExec, AskedInv, NodesUp
  <2>3. CASE RunReturns(f)
    BY <1>2, <2>1, <2>3 DEF RunReturns, TypeOK, BusyExec
  <2>4. CASE TerminalRefused(f)
    BY <1>2, <2>1, <2>4 DEF TerminalRefused, TypeOK, BusyExec
  <2>5. CASE EndExec(f)
    BY <1>2, <1>5, <2>1, <2>5 DEF EndExec, TypeOK, BusyExec
  <2>6. CASE KeepAliveRead(f)
    BY <1>2, <2>1, <2>6 DEF KeepAliveRead, TypeOK, BusyExec
  <2>7. CASE KeepAliveWrite(f) \/ KeepAliveWriteFails(f)
    <3>1. \E k \in {"waiting", "off"} : exec'[f] = [exec[f] EXCEPT !.keeper = k, !.snap = 0]
      BY <1>5, <2>7 DEF KeepAliveWrite, KeepAliveWriteFails, AfterRenewal, TypeOK
    <3> QED
      BY <1>2, <2>1, <3>1 DEF BusyExec
  <2>8. CASE KeepAliveRefused(f)
    <3>1. exec[f].pc # "draining" /\ exec[f].pc # "idle"
      BY <1>5, <2>1, <2>8 DEF KeepAliveRefused, TypeOK, BusyExec, Terminal
    <3>2. row[exec[f].run].status \in {"canceling", "canceled"}
      BY <2>8, <3>1 DEF KeepAliveRefused, AskedInv, Unsettled
    <3>3. exec[f].run \in asked
      BY <2>1, <3>2, BusyExecAccess DEF AskedInv, RowsAsked
    <3>4. exec'[f].run = exec[f].run
      BY <2>1, <2>8, <3>1 DEF KeepAliveRefused, TypeOK, BusyExec
    <3> QED
      BY <3>3, <3>4
  <2>9. CASE WatchCancel(f)
    <3>1. \/ /\ row[exec[f].run].status = "canceling"
             /\ exec'[f] = [exec[f] EXCEPT !.watcher = "off", !.ctx = "canceled"]
          \/ exec'[f] = [exec[f] EXCEPT !.watcher = "off"]
      BY <2>9 DEF WatchCancel, TypeOK
    <3> QED
      BY <1>2, <2>1, <3>1, BusyExecAccess DEF BusyExec, AskedInv, RowsAsked
  <2> QED
    BY <1>3, <1>8, <2>2, <2>3, <2>4, <2>5, <2>6, <2>7, <2>8, <2>9
       DEF ExecStep, LeaseStep, WriteTerminal, WriteCanceled, GiveUp, KeeperStep,
           KeepAliveReadFails, WatcherStep, WatchFails
<1>9. ASSUME NEW c \in Clients, CancelSignal(c)
      PROVE  exec'[f].run \in asked
  <2> DEFINE q == request[c]
             e == running[q.node][q.run]
  <2>1. q.run \in Runs /\ q.node \in Nodes /\ q.run \in asked
    BY <1>9, RequestCases DEF CancelSignal, AskedInv, SignalsAsked
  <2>2. CASE e = f /\ e # NoExec
    <3>1. exec[f].run = q.run
      BY <2>1, <2>2 DEF RegistryLive
    <3>2. exec[f] \in BusyExec /\ exec'[f] = [exec[f] EXCEPT !.ctx = "canceled"]
      BY <1>9, <2>1, <2>2, <3>1, ExecCases, NoRunAssumption DEF CancelSignal, TypeOK
    <3> QED
      BY <2>1, <3>1, <3>2 DEF BusyExec
  <2>3. CASE ~(e = f /\ e # NoExec)
    BY <1>4, <1>9, <2>3 DEF CancelSignal, TypeOK
  <2> QED
    BY <2>2, <2>3
<1>10. ASSUME NEW n \in Nodes, Stop(n)
       PROVE  exec'[f].run \in asked
  BY <1>4, <1>5, <1>10 DEF Stop
<1> QED
  BY <1>3, <1>4, <1>6, <1>7, <1>8, <1>9, <1>10
     DEF Next, vars, Spawn, PollStep, RequeueExpired, RequeueFails, StopClaiming,
         ClientStep, CallCancel, PendingCancel, CancelRead, CancelQueued,
         CancelRunning, CancelLostRace, CancelFails, NodeStep, Closed, Crash,
         Restart, LeaseExpires, LeaseMissed

LEMMA StepSignalsAsked ==
  ASSUME TypeOK, SignalsAsked, [Next]_vars
  PROVE  SignalsAsked'
<1> SUFFICES ASSUME NEW c \in Clients, request'[c].pc = "signal"
             PROVE  request'[c].run \in asked'
  BY DEF SignalsAsked
<1>1. CASE request'[c] = request[c]
  BY <1>1, AskedGrows DEF SignalsAsked
<1>2. IdleRequest.pc # "signal"
  BY DEF IdleRequest
<1>3. ASSUME NEW d \in Clients, ClientStep(d)
      PROVE  request'[c].run \in asked'
  <2>1. \A x \in Clients \ {d} : request'[x] = request[x]
    BY <1>3 DEF ClientStep, CallCancel, PendingCancel, CancelRead, CancelQueued,
       CancelRunning, CancelLostRace, CancelFails, CancelSignal, TypeOK
  <2>2. CASE CancelRunning(d) /\ c = d
    <3>1. request[d] \in OpenRequest
      BY <2>2, RequestCases DEF CancelRunning
    <3> QED
      BY <2>2, <3>1 DEF CancelRunning, TypeOK, OpenRequest
  <2>3. CASE ~CancelRunning(d) /\ c = d
    <3>1. \/ \E n \in Nodes, r \in Runs : CallCancel(d, n, r)
          \/ CancelRead(d) \/ CancelLostRace(d) \/ request'[d] = IdleRequest
      BY <1>3, <2>3 DEF ClientStep, PendingCancel, CancelQueued, CancelFails, CancelSignal, TypeOK
    <3>2. request'[d].pc # "signal"
      <4>1. CASE \E n \in Nodes, r \in Runs : CallCancel(d, n, r)
        BY <4>1 DEF CallCancel, TypeOK
      <4>2. CASE CancelRead(d)
        <5>1. request[d] \in OpenRequest
          BY <4>2, RequestCases DEF CancelRead
        <5> QED
          BY <1>2, <4>2, <5>1 DEF CancelRead, TypeOK, OpenRequest
      <4>3. CASE CancelLostRace(d)
        <5>1. request[d] \in OpenRequest
          BY <4>3, RequestCases DEF CancelLostRace
        <5>2. request'[d] = [request[d] EXCEPT !.pc = "read", !.seen = "none"]
          BY <4>3 DEF CancelLostRace, TypeOK
        <5> QED
          BY <5>1, <5>2 DEF OpenRequest
      <4> QED
        BY <1>2, <3>1, <4>1, <4>2, <4>3
    <3> QED
      BY <2>3, <3>2
  <2> QED
    BY <1>1, <2>1, <2>2, <2>3
<1>4. ASSUME NEW n \in Nodes, Stop(n)
      PROVE  request'[c].run \in asked'
  BY <1>1, <1>2, <1>4 DEF Stop
<1>5. CASE UNCHANGED request
  BY <1>1, <1>5
<1> QED
  BY <1>3, <1>4, <1>5
     DEF Next, vars, Spawn, PollStep, RequeueExpired, RequeueFails, ClaimNext, StopClaiming,
   ExecStep, LeaseStep, StartExecution, RunReturns, WriteTerminal, TerminalRefused,
   WriteCanceled, GiveUp, KeeperStep, KeepAliveRead, KeepAliveReadFails, KeepAliveWrite,
   KeepAliveRefused, KeepAliveWriteFails, WatcherStep, WatchCancel, WatchFails,
   NodeStep, Close, Closed, Crash, Restart, LeaseExpires, LeaseMissed

LEMMA StepNodesUp ==
  ASSUME MaxCloses = 0, MaxFaults = 0, TypeOK, NodesUp, [Next]_vars
  PROVE  NodesUp'
<1>1. \A n \in Nodes : ~Close(n)
  BY NoFaults
<1>2. \/ UNCHANGED node
      \/ \E n \in Nodes : Stop(n)
      \/ \E n \in Nodes : \E s \in {"waiting", "claiming"} : node' = [node EXCEPT ![n] = s]
  BY <1>1 DEF Next, vars, Spawn, PollStep, RequeueExpired, RequeueFails, ClaimNext, StopClaiming,
   ExecStep, LeaseStep, StartExecution, RunReturns, WriteTerminal, TerminalRefused,
   WriteCanceled, GiveUp, KeeperStep, KeepAliveRead, KeepAliveReadFails, KeepAliveWrite,
   KeepAliveRefused, KeepAliveWriteFails, WatcherStep, WatchCancel, WatchFails,
   ClientStep, CallCancel, PendingCancel, CancelRead, CancelQueued, CancelRunning,
   CancelLostRace, CancelFails, CancelSignal, NodeStep, Closed, Crash, Restart,
   LeaseExpires, LeaseMissed
<1>3. \A n \in Nodes : node'[n] # "closing"
  BY <1>2 DEF NodesUp, Stop, TypeOK
<1>4. ASSUME NEW e \in Execs, exec'[e].run # NoRun
      PROVE  Up(exec[e].node)'
  <2>1. exec'[e] # IdleExec
    BY <1>4 DEF IdleExec
  <2>2. ASSUME exec'[e].run = exec[e].run, exec'[e].node = exec[e].node
        PROVE  Up(exec[e].node)'
    <3>1. exec[e].node \in Nodes /\ Up(exec[e].node)
      BY <1>4, <2>2, ExecCases, BusyExecAccess DEF NodesUp
    <3>2. ASSUME NEW n \in Nodes, Stop(n)
          PROVE  exec[e].node # n
      BY <2>1, <3>2 DEF Stop
    <3>3. node'[exec[e].node] \in {node[exec[e].node], "waiting", "claiming"}
      <4>1. CASE UNCHANGED node
        BY <4>1
      <4>2. CASE \E n \in Nodes : Stop(n)
        <5>1. PICK n \in Nodes : Stop(n)
          BY <4>2
        <5>2. node' = [node EXCEPT ![n] = "down"] /\ exec[e].node # n
          BY <3>2, <5>1 DEF Stop
        <5> QED
          BY <3>1, <5>2 DEF TypeOK
      <4>3. CASE \E n \in Nodes : \E s \in {"waiting", "claiming"} :
                   node' = [node EXCEPT ![n] = s]
        BY <3>1, <4>3 DEF TypeOK
      <4> QED
        BY <1>2, <4>1, <4>2, <4>3
    <3> QED
      BY <2>2, <3>1, <3>3 DEF Up
  <2>3. CASE \E n \in Nodes, f \in Execs, r \in Runs : ClaimNext(n, f, r)
    <3>1. PICK n \in Nodes, f \in Execs, r \in Runs : ClaimNext(n, f, r)
      BY <2>3
    <3>2. CASE e = f
      BY <3>1, <3>2 DEF ClaimNext, ClaimedExec, Up, TypeOK
    <3>3. CASE e # f
      BY <2>2, <3>1, <3>3 DEF ClaimNext, TypeOK
    <3> QED
      BY <3>2, <3>3
  <2>4. CASE \A n \in Nodes, f \in Execs, r \in Runs : ~ClaimNext(n, f, r)
    BY <2>1, <2>2, <2>4, Places DEF Placed
  <2> QED
    BY <2>3, <2>4
<1> QED
  BY <1>3, <1>4 DEF NodesUp

LEMMA StepUnsettled ==
  ASSUME MaxStalls = 0, TimelyInv, Unsettled, [Next]_vars
  PROVE  Unsettled'
<1> SUFFICES ASSUME NEW e \in Execs, exec'[e].pc \notin {"idle", "draining"}
             PROVE  row'[exec'[e].run].status \in {"running", "canceling", "canceled"}
  BY DEF Unsettled
<1>1. TypeOK /\ UniqueInv /\ HeldInv
  BY DEF TimelyInv
<1>2. CASE \E n \in Nodes, f \in Execs, r \in Runs : ClaimNext(n, f, r)
  <2>1. PICK n \in Nodes, f \in Execs, r \in Runs : ClaimNext(n, f, r)
    BY <1>2
  <2>2. /\ exec' = [exec EXCEPT ![f] = ClaimedExec(n, r)]
        /\ row' = [row EXCEPT ![r] = Leased(n, row[r].attempts)]
    BY <2>1 DEF ClaimNext, SetRow
  <2>3. row'[r].status = "running"
    BY <1>1, <2>2 DEF Leased, TypeOK
  <2>4. CASE e = f
    BY <1>1, <2>2, <2>3, <2>4 DEF ClaimedExec, TypeOK
  <2>5. CASE e # f
    BY <1>1, <2>2, <2>3, <2>5 DEF Unsettled, TypeOK
  <2> QED
    BY <2>4, <2>5
<1>3. CASE \A n \in Nodes, f \in Execs, r \in Runs : ~ClaimNext(n, f, r)
  <2> DEFINE r == exec[e].run
  <2>1. exec'[e].run = r /\ exec[e].pc \notin {"idle", "draining"}
    BY <1>1, <1>3, Places, IdleExecAccess DEF Placed, Working, Terminal
  <2>2. r \in Runs /\ r # NoRun
    BY <1>1, <2>1, ExecCases, BusyExecAccess
  <2>3. row[r].status \in {"running", "canceling", "canceled"}
        /\ row[r].lease # "expired" /\ row[r] \in Row
    BY <1>1, <2>1, <2>2 DEF Unsettled, HeldInv, TypeOK
  <2>4. CASE \E n \in Nodes, q \in Runs : Spawn(n, q)
    BY <1>1, <2>1, <2>2, <2>3, <2>4, SpawnRows
  <2>5. CASE \A n \in Nodes, q \in Runs : ~Spawn(n, q)
    <3>1. RowStep(r)
      BY <1>1, <2>2, <2>5, RowSteps
    <3>2. ASSUME NEW k \in 0 .. 3
          PROVE  Swept(row[r], k).status \in {"running", "canceling", "canceled"}
      BY <2>3, SweptRow DEF Released
    <3>3. ASSUME NEW f \in Execs, Holds(f, r), Concludes(f)
          PROVE  FALSE
      BY <1>1, <2>2, <3>3 DEF UniqueInv, Holds, Concludes
    <3>4. ASSUME NEW s \in {"canceling", "canceled"}, Became(r, Overwritten(s))
          PROVE  row'[r].status \in {"running", "canceling", "canceled"}
      BY <3>4 DEF Became, Overwritten, Released
    <3>5. ASSUME NEW n \in Nodes \cup {NoNode}, NEW a, row'[r] = Leased(n, a)
          PROVE  row'[r].status \in {"running", "canceling", "canceled"}
      BY <3>5 DEF Leased
    <3>6. CASE Became(r, [row[r] EXCEPT !.lease = "expired"])
      BY <2>1, <2>3, <3>6 DEF Became, Row
    <3>7. CASE Kept(r) \/ \E k \in 0 .. 3 : Became(r, Swept(row[r], k))
      BY <2>1, <2>3, <3>2, <3>7 DEF Kept, Became
    <3>8. \A f \in Execs : exec[f].keeper = "renewing" => exec[f].node \in Nodes
      BY <1>1, ExecCases, BusyExecAccess
    <3> QED
      BY <2>1, <2>3, <3>1, <3>3, <3>4, <3>5, <3>6, <3>7, <3>8 DEF RowStep, Became
  <2> QED
    BY <2>4, <2>5
<1> QED
  BY <1>2, <1>3

(* A run ends as canceled only if a Cancel of it was accepted, where no    *)
(* node closes, no statement fails and no execution stalls: then neither a *)
(* lost lease nor a crash is recorded as the user's wish.  Each of the     *)
(* three does cancel a runCtx by itself, by design.                        *)
THEOREM CanceledAsked ==
  ASSUME MaxStalls = 0, MaxCloses = 0, MaxFaults = 0
  PROVE  Spec => []CanceledWasAsked
<1>1. Init => AskedInv
  BY DEF Init, AskedInv, RowsAsked, ExecsAsked, SignalsAsked, NodesUp, Unsettled,
         IdleExec, IdleRequest, Released
<1>2. TimelyInv /\ RegistryLive /\ AskedInv /\ [Next]_vars => AskedInv'
  BY StepRowsAsked, StepExecsAsked, StepSignalsAsked, StepNodesUp, StepUnsettled
     DEF AskedInv, TimelyInv
<1>3. AskedInv => CanceledWasAsked
  BY DEF AskedInv, RowsAsked, CanceledWasAsked
<1> QED
  BY <1>1, <1>2, <1>3, AlwaysTimely, RegistryCorrect, PTL DEF Spec

-----------------------------------------------------------------------------
(* The refinement: each step is a step of RunDispatch for every run *)

Busy(r) == \E e \in Execs : Holds(e, r)

(* RunDispatch in the terms of the queue. *)
LEMMA Mapped ==
  ASSUME NEW r \in Runs
  PROVE  /\ \A p, q : row[r].status = p /\ row'[r].status = q => Dispatch!Goes(r, p, q)
         /\ \A x, y \in BOOLEAN : (Busy(r) <=> x) /\ (Busy(r)' <=> y) => Dispatch!Works(r, x, y)
<1>1. ASSUME NEW p, NEW q, row[r].status = p, row'[r].status = q
      PROVE  Dispatch!Goes(r, p, q)
  BY <1>1 DEF Dispatch!Goes
<1>2. ASSUME NEW x \in BOOLEAN, NEW y \in BOOLEAN, Busy(r) <=> x, Busy(r)' <=> y
      PROVE  Dispatch!Works(r, x, y)
  BY <1>2 DEF Dispatch!Works, Busy
<1> QED
  BY <1>1, <1>2

(* Nothing happens to the row: its goroutine stays, or is gone. *)
LEMMA SamePhase ==
  ASSUME NEW r \in Runs, row'[r].status = row[r].status, Busy(r)' => Busy(r)
  PROVE  Dispatch!RunStep(r)
<1>1. CASE Busy(r) /\ ~Busy(r)'
  <2>1. Dispatch!Works(r, TRUE, FALSE)
    BY <1>1, Mapped
  <2> QED
    BY <2>1 DEF Dispatch!RunStep, Dispatch!Abandon
<1>2. CASE Busy(r) <=> Busy(r)'
  BY <1>2 DEF Dispatch!RunStep, Busy
<1> QED
  BY <1>1, <1>2

LEMMA ClaimsOnlyByClaimNext ==
  ASSUME [Next]_vars, \A n \in Nodes, e \in Execs, r \in Runs : ~ClaimNext(n, e, r)
  PROVE  claims' = claims
BY DEF Next, vars, Spawn, PollStep, RequeueExpired, RequeueFails, StopClaiming,
   ExecStep, LeaseStep, StartExecution, RunReturns, WriteTerminal, TerminalRefused,
   WriteCanceled, GiveUp, KeeperStep, KeepAliveRead, KeepAliveReadFails, KeepAliveWrite,
   KeepAliveRefused, KeepAliveWriteFails, WatcherStep, WatchCancel, WatchFails,
   ClientStep, CallCancel, PendingCancel, CancelRead, CancelQueued, CancelRunning,
   CancelLostRace, CancelFails, CancelSignal, NodeStep, Close, Closed, Crash, Restart,
   Stop, LeaseExpires, LeaseMissed

(* A run with a goroutine has been handed out, and is not to be taken back. *)
LEMMA BusyRow ==
  ASSUME TimelyInv, NEW r \in Runs, Busy(r)
  PROVE  row[r].status \notin {"absent", "queued"} /\ row[r].lease # "expired"
BY NoRunAssumption DEF TimelyInv, HeldInv, Busy, Holds, Terminal

LEMMA SpawnMaps ==
  ASSUME TimelyInv, NEW n \in Nodes, NEW q \in Runs, Spawn(n, q), NEW r \in Runs
  PROVE  Dispatch!RunStep(r)
<1>1. TypeOK
  BY DEF TimelyInv
<1>2. exec' = exec
  BY DEF Spawn
<1>3. Busy(r)' <=> Busy(r)
  BY <1>2 DEF Busy, Holds
<1>4. CASE r = q
  <2>1. Dispatch!Goes(r, "absent", "queued")
    BY <1>1, <1>4, SpawnRows, Mapped DEF Released
  <2>2. ~Busy(r)
    BY <1>1, <1>4, SpawnRows, BusyRow
  <2>3. Dispatch!Works(r, FALSE, FALSE)
    BY <1>3, <2>2, Mapped
  <2> QED
    BY <2>1, <2>3 DEF Dispatch!RunStep, Dispatch!Submit
<1>5. CASE r # q
  <2>1. row'[r] = row[r]
    BY <1>1, <1>5, SpawnRows
  <2> QED
    BY <1>3, <2>1, SamePhase
<1> QED
  BY <1>4, <1>5

LEMMA ClaimMaps ==
  ASSUME TimelyInv, NEW n \in Nodes, NEW e \in Execs, NEW q \in Runs, ClaimNext(n, e, q),
         NEW r \in Runs
  PROVE  Dispatch!RunStep(r)
<1>1. /\ row[q].status = "queued"
      /\ row' = [row EXCEPT ![q] = Leased(n, row[q].attempts)]
      /\ exec' = [exec EXCEPT ![e] = ClaimedExec(n, q)]
      /\ exec[e].run = NoRun
  BY ExecCases, BusyExecAccess, IdleExecAccess
     DEF ClaimNext, SetRow, IsNextQueued, TimelyInv, BusyExec, TypeOK, Terminal
<1>2. exec'[e].run = q /\ \A f \in Execs \ {e} : exec'[f] = exec[f]
  BY <1>1 DEF ClaimedExec, TimelyInv, TypeOK
<1>3. CASE r = q
  <2>1. row'[r].status = "running"
    BY <1>1, <1>3 DEF Leased, TimelyInv, TypeOK
  <2>2. Dispatch!Goes(r, "queued", "running")
    BY <1>1, <1>3, <2>1, Mapped
  <2>3. ~Busy(r)
    BY <1>1, <1>3, BusyRow
  <2>4. Busy(r)'
    BY <1>2, <1>3 DEF Busy, Holds
  <2>5. Dispatch!Works(r, FALSE, TRUE)
    BY <2>3, <2>4, Mapped
  <2> QED
    BY <2>2, <2>5 DEF Dispatch!RunStep, Dispatch!HandOut
<1>4. CASE r # q
  <2>1. row'[r] = row[r]
    BY <1>1, <1>4 DEF TimelyInv, TypeOK
  <2>2. Busy(r)' => Busy(r)
    BY <1>2, <1>4 DEF Busy, Holds
  <2> QED
    BY <2>1, <2>2, SamePhase
<1> QED
  BY <1>3, <1>4

LEMMA OtherMaps ==
  ASSUME MaxStalls = 0, TimelyInv, TypeOK', [Next]_vars,
         \A n \in Nodes, q \in Runs : ~Spawn(n, q),
         \A n \in Nodes, e \in Execs, q \in Runs : ~ClaimNext(n, e, q),
         NEW r \in Runs
  PROVE  Dispatch!RunStep(r)
<1>1. RowStep(r) /\ claims' = claims
  BY RowSteps, ClaimsOnlyByClaimNext DEF TimelyInv
<1>2. Busy(r)' => Busy(r)
  <2>1. \A e \in Execs : Stepped(e)
    BY ExecSteps DEF TimelyInv
  <2> QED
    BY <2>1, IdleExecAccess, NoRunAssumption DEF Busy, Holds, Stepped
<1>3. row[r] \in Row /\ claims[r] \in Nat
  BY DEF TimelyInv, TypeOK
<1>4. ASSUME row[r].status = "canceling", row'[r].status = "canceled"
      PROVE  Dispatch!RunStep(r)
  <2>1. Dispatch!Goes(r, "canceling", "canceled")
    BY <1>4, Mapped
  <2>2. CASE Busy(r)
    BY <2>1, <2>2 DEF Busy, Dispatch!RunStep, Dispatch!Conclude
  <2>3. CASE ~Busy(r)
    BY <1>2, <2>1, <2>3 DEF Busy, Dispatch!RunStep, Dispatch!Settle
  <2> QED
    BY <2>2, <2>3
<1>5. ASSUME NEW k \in 0 .. 3, Became(r, Swept(row[r], k))
      PROVE  Dispatch!RunStep(r)
  <2>1. CASE Swept(row[r], k) = row[r]
    BY <1>2, <1>5, <2>1, SamePhase DEF Became
  <2>2. CASE row[r].status = "canceling" /\ Swept(row[r], k) = Released("canceled", row[r].attempts)
    BY <1>4, <1>5, <2>2 DEF Became, Released
  <2>3. CASE /\ row[r].status = "running" /\ row[r].lease = "expired"
             /\ \/ Swept(row[r], k) = Released("queued", row[r].attempts + 1)
                \/ Swept(row[r], k) = Released("failed", row[r].attempts)
    <3>1. Dispatch!Goes(r, "running", "queued") \/ Dispatch!Goes(r, "running", "failed")
      BY <1>5, <2>3, Mapped DEF Became, Released
    <3>2. ~Busy(r)
      BY <2>3, BusyRow
    <3>3. Dispatch!Works(r, FALSE, FALSE)
      BY <1>2, <3>2, Mapped
    <3> QED
      BY <3>1, <3>3 DEF Dispatch!RunStep, Dispatch!TakeBack
  <2> QED
    BY <1>3, <2>1, <2>2, <2>3, SweptRow
<1>6. ASSUME NEW e \in Execs, Holds(e, r), NEW s \in Terminal,
             row[r].status = "running", Became(r, Overwritten(s))
      PROVE  Dispatch!RunStep(r)
  <2>1. row'[r].status = s
    BY <1>6 DEF Became, Overwritten, Released
  <2>2. Dispatch!Goes(r, "running", s) /\ s \in Dispatch!Final
    BY <1>6, <2>1, Mapped DEF Terminal, Dispatch!Final
  <2>3. Busy(r)
    BY <1>6 DEF Busy
  <2> QED
    BY <2>2, <2>3 DEF Busy, Dispatch!RunStep, Dispatch!Conclude
<1>7. ASSUME row[r].status = "running", Became(r, Overwritten("canceling")), exec' = exec
      PROVE  Dispatch!RunStep(r)
  <2>1. Dispatch!Goes(r, "running", "canceling")
    BY <1>7, Mapped DEF Became, Overwritten, Released
  <2> QED
    BY <1>7, <2>1 DEF Holds, Dispatch!RunStep, Dispatch!CancelDuring
<1>8. ASSUME row[r].status = "queued", Became(r, Overwritten("canceled"))
      PROVE  Dispatch!RunStep(r)
  <2>1. Dispatch!Goes(r, "queued", "canceled")
    BY <1>8, Mapped DEF Became, Overwritten, Released
  <2>2. Dispatch!Works(r, FALSE, FALSE)
    BY <1>2, <1>8, BusyRow, Mapped
  <2> QED
    BY <2>1, <2>2 DEF Dispatch!RunStep, Dispatch!CancelBefore
<1>9. ASSUME row[r].status = "canceling", Became(r, Overwritten("canceled"))
      PROVE  Dispatch!RunStep(r)
  BY <1>4, <1>9 DEF Became, Overwritten, Released
<1>10. ASSUME NEW n, NEW a, row[r].status = "running", Became(r, Leased(n, a))
       PROVE  Dispatch!RunStep(r)
  BY <1>2, <1>10, SamePhase DEF Became, Leased
<1>11. ASSUME Kept(r) \/ Became(r, [row[r] EXCEPT !.lease = "expired"])
       PROVE  Dispatch!RunStep(r)
  BY <1>2, <1>3, <1>11, SamePhase DEF Kept, Became, Row
<1>12. claims'[r] # claims[r] + 1
  BY <1>1, <1>3
<1> QED
  BY <1>1, <1>5, <1>6, <1>7, <1>8, <1>9, <1>10, <1>11, <1>12 DEF RowStep, Concludes

(* Under the timing assumption the queue implements RunDispatch: a run is  *)
(* handed out only while nobody works on it and taken back only after its  *)
(* worker is gone, whatever crashes, closes and failing statements happen. *)
THEOREM DispatchImplemented == ASSUME MaxStalls = 0 PROVE Spec => ImplementsDispatch
<1>1. Init => Dispatch!DispatchInit
  BY NoRunAssumption DEF Init, Released, IdleExec, Holds, Dispatch!DispatchInit
<1>2. TimelyInv /\ TypeOK' /\ [Next]_vars => [Dispatch!DispatchNext]_(Dispatch!dispatchVars)
  BY SpawnMaps, ClaimMaps, OtherMaps DEF Dispatch!DispatchNext
<1> QED
  BY <1>1, <1>2, AlwaysTimely, TypeCorrect, PTL
     DEF Spec, ImplementsDispatch, Dispatch!DispatchSpec

-----------------------------------------------------------------------------
(* Executions that are stalled past their lease: what the queue keeps then *)

Holders(r) == {e \in Execs : Holds(e, r)}

(* The run waits for a goroutine, or for a requeue that will have it wait. *)
Lost(r) == row[r].status = "queued" \/ row[r].lease = "expired"

(* Each stall lets one goroutine more have the run.                        *)
StalledInv ==
  \A r \in Runs :
    /\ Cardinality(Holders(r)) <= used.stall + 1
    /\ Lost(r) => Cardinality(Holders(r)) <= used.stall
    /\ row[r].status = "absent" => Holders(r) = {}

(* No more goroutines execute a run than stalls have let it go, plus one.  *)
ExecutionsBounded ==
  \A r \in Runs : Cardinality({e \in Execs : Executing(e, r)}) <= used.stall + 1

(* A run is claimed once, once per allowed requeue and once per stall.      *)
ClaimsBounded == \A r \in Runs : claims[r] <= MaxAttempts + 1 + used.stall

(* Each stall lets one claim go uncounted: what a late renewal writes back *)
(* are the attempts it read before.                                        *)
Uncounted(r, attempts) == claims[r] <= attempts + used.stall

RowCounted(r) ==
  /\ row[r].status = "absent" => claims[r] = 0
  /\ Uncounted(r, MaxAttempts + 1)
  /\ row[r].status = "queued" => Uncounted(r, row[r].attempts)
  /\ row[r].status = "running" => Uncounted(r, row[r].attempts + 1)

HolderCounted(e, r) ==
  /\ row[r].lease = "expired" => Uncounted(r, row[r].attempts)
  /\ exec[e].keeper = "renewing" /\ Lost(r) => Uncounted(r, exec[e].snap)
  /\ exec[e].keeper = "renewing" /\ row[r].status = "running" => Uncounted(r, exec[e].snap + 1)

RetryInv ==
  \A r \in Runs : RowCounted(r) /\ \A e \in Execs : Holds(e, r) => HolderCounted(e, r)

LEMMA StallsGrow ==
  ASSUME TypeOK, [Next]_vars
  PROVE  used.stall \in Nat /\ used'.stall \in {used.stall, used.stall + 1}
<1>1. used \in Budget /\ used.stall \in Nat
  BY DEF TypeOK, Budget
<1>2. \/ used' = used
      \/ \E b \in {"fault", "crash", "close", "stall"} : used' = [used EXCEPT ![b] = @ + 1]
  BY DEF Next, vars, Fail, PollStep, RequeueExpired, RequeueFails, ClaimNext, StopClaiming,
     ExecStep, LeaseStep, StartExecution, RunReturns, WriteTerminal, TerminalRefused,
     WriteCanceled, GiveUp, KeeperStep, KeepAliveRead, KeepAliveReadFails, KeepAliveWrite,
     KeepAliveRefused, KeepAliveWriteFails, WatcherStep, WatchCancel, WatchFails,
     ClientStep, CallCancel, PendingCancel, CancelRead, CancelQueued, CancelRunning,
     CancelLostRace, CancelFails, CancelSignal, NodeStep, Close, Closed, Crash, Restart,
     Stop, LeaseExpires, LeaseMissed, Spawn
<1> QED
  BY <1>1, <1>2 DEF Budget

(* Who has a run had it before, or claims it now.                          *)
LEMMA HoldersBefore ==
  ASSUME TypeOK, [Next]_vars,
         \A n \in Nodes, e \in Execs, r \in Runs : ~ClaimNext(n, e, r)
  PROVE  \A r \in Runs : \A e \in Execs : exec'[e].run = r => Holds(e, r) /\ Renewing(e)
<1>1. \A e \in Execs : Stepped(e)
  BY ExecSteps
<1> QED
  BY <1>1, IdleExecAccess DEF Stepped, Holds

LEMMA ClaimedRow ==
  ASSUME TypeOK, NEW n \in Nodes, NEW e \in Execs, NEW q \in Runs, ClaimNext(n, e, q)
  PROVE  /\ row[q].status = "queued" /\ row'[q] = Leased(n, row[q].attempts)
         /\ claims'[q] = claims[q] + 1
         /\ \A r \in Runs \ {q} : Kept(r)
         /\ exec'[e].run = q /\ exec'[e].keeper = "off" /\ exec[e].run = NoRun
         /\ \A f \in Execs \ {e} : exec'[f] = exec[f]
         /\ used' = used
<1>1. exec[e] = IdleExec
  BY ExecCases, BusyExecAccess DEF ClaimNext, Terminal
<1>2. exec'[e] = ClaimedExec(n, q) /\ \A f \in Execs \ {e} : exec'[f] = exec[f]
  BY DEF ClaimNext, TypeOK
<1>3. /\ row[q].status = "queued" /\ row'[q] = Leased(n, row[q].attempts)
      /\ claims'[q] = claims[q] + 1 /\ used' = used
      /\ \A r \in Runs \ {q} : Kept(r)
  BY DEF ClaimNext, IsNextQueued, SetRow, Kept, TypeOK
<1>4. exec'[e].run = q /\ exec'[e].keeper = "off"
  BY <1>2 DEF ClaimedExec
<1>5. exec[e].run = NoRun
  BY <1>1, IdleExecAccess
<1> QED
  BY <1>2, <1>3, <1>4, <1>5

LEMMA HoldersFinite ==
  ASSUME IsFiniteSet(Execs), NEW r
  PROVE  IsFiniteSet(Holders(r)) /\ Cardinality(Holders(r)) \in Nat
BY FS_Subset, FS_CardinalityType DEF Holders

(* A row that is lost after the step was lost before, has been spawned, or *)
(* has just missed its lease.                                              *)
LEMMA LostBefore ==
  ASSUME TypeOK, RowConsistent, NEW r \in Runs, RowStep(r), Lost(r)'
  PROVE  \/ Lost(r)
         \/ \A e \in Execs : ~Holds(e, r)
         \/ used'.stall = used.stall + 1
<1>0. row[r] \in Row
  BY DEF TypeOK
<1>1. ASSUME NEW k \in 0 .. 3, Became(r, Swept(row[r], k)) PROVE Lost(r)
  BY <1>0, <1>1, SweptRow DEF Became, Lost, Released
<1>2. ASSUME NEW n, NEW a, row'[r] = Leased(n, a) PROVE FALSE
  BY <1>2 DEF Lost, Leased
<1>3. ASSUME NEW s \in Terminal \cup {"canceling"}, Became(r, Overwritten(s)) PROVE FALSE
  BY <1>3 DEF Became, Lost, Overwritten, Released, Terminal
<1>4. CASE Kept(r)
  BY <1>4 DEF Kept, Lost
<1> QED
  BY <1>1, <1>2, <1>3, <1>4 DEF RowStep, Became, Concludes, Terminal

LEMMA OneMore ==
  ASSUME NEW S, NEW x, IsFiniteSet(S)
  PROVE  /\ Cardinality(S \cup {x}) \in Nat
         /\ Cardinality(S \cup {x}) <= Cardinality(S) + 1
<1>1. Cardinality(S) \in Nat
  BY FS_CardinalityType
<1>2. CASE x \in S
  <2>1. S \cup {x} = S
    BY <1>2
  <2>2. Cardinality(S \cup {x}) = Cardinality(S)
    BY <2>1
  <2> HIDE <2>1
  <2> QED
    BY <1>1, <2>2
<1>3. CASE x \notin S
  <2>1. Cardinality(S \cup {x}) = Cardinality(S) + 1
    <3>1. Cardinality(S \cup {x}) = IF x \in S THEN Cardinality(S) ELSE Cardinality(S) + 1
      BY ONLY IsFiniteSet(S), FS_AddElement
    <3> QED
      BY <1>3, <3>1
  <2> QED
    BY <1>1, <2>1
<1> QED
  BY <1>2, <1>3

LEMMA StepStalled ==
  ASSUME IsFiniteSet(Execs), TypeOK, RowConsistent, StalledInv, [Next]_vars
  PROVE  StalledInv'
<1> SUFFICES ASSUME NEW r \in Runs
             PROVE  /\ Cardinality(Holders(r)') <= used'.stall + 1
                    /\ Lost(r)' => Cardinality(Holders(r)') <= used'.stall
                    /\ row'[r].status = "absent" => Holders(r)' = {}
  BY DEF StalledInv
<1>1. used.stall \in Nat /\ used'.stall \in {used.stall, used.stall + 1}
  BY StallsGrow
<1>2. IsFiniteSet(Holders(r)) /\ Cardinality(Holders(r)) \in Nat
  BY HoldersFinite
<1>3. /\ Cardinality(Holders(r)) <= used.stall + 1
      /\ Lost(r) => Cardinality(Holders(r)) <= used.stall
      /\ row[r].status = "absent" => Holders(r) = {}
  BY DEF StalledInv
<1>4. ASSUME NEW n \in Nodes, NEW e \in Execs, NEW q \in Runs, ClaimNext(n, e, q)
      PROVE  /\ Cardinality(Holders(r)') <= used'.stall + 1
             /\ Lost(r)' => Cardinality(Holders(r)') <= used'.stall
             /\ row'[r].status = "absent" => Holders(r)' = {}
  <2>0. /\ row[q].status = "queued" /\ row'[q] = Leased(n, row[q].attempts)
        /\ (r # q => Kept(r))
        /\ exec'[e].run = q /\ exec[e].run = NoRun
        /\ \A f \in Execs \ {e} : exec'[f] = exec[f]
    BY <1>4, ClaimedRow
  <2>1. CASE r = q
    <3>1. Lost(r) /\ row'[r].status = "running" /\ row'[r].lease = "live"
      BY <2>0, <2>1 DEF Lost, Leased
    <3>2. Holders(r)' = Holders(r) \cup {e}
      BY <2>0, <2>1 DEF Holders, Holds
    <3>3. Cardinality(Holders(r) \cup {e}) <= Cardinality(Holders(r)) + 1
      BY <1>2, OneMore
    <3>4. Cardinality(Holders(r) \cup {e}) \in Nat
      BY <1>2, OneMore
    <3> QED
      BY <1>1, <1>2, <1>3, <3>1, <3>2, <3>3, <3>4 DEF Lost
  <2>2. CASE r # q
    <3>1. Kept(r) /\ Holders(r)' = Holders(r)
      BY <2>0, <2>2 DEF Holders, Holds
    <3> QED
      BY <1>1, <1>2, <1>3, <3>1 DEF Kept, Lost
  <2> QED
    BY <2>1, <2>2
<1>5. ASSUME \A n \in Nodes, e \in Execs, q \in Runs : ~ClaimNext(n, e, q)
      PROVE  /\ Cardinality(Holders(r)') <= used'.stall + 1
             /\ Lost(r)' => Cardinality(Holders(r)') <= used'.stall
             /\ row'[r].status = "absent" => Holders(r)' = {}
  <2>1. Holders(r)' \subseteq Holders(r)
    BY <1>5, HoldersBefore DEF Holders, Holds
  <2>2. Cardinality(Holders(r)') \in Nat /\ Cardinality(Holders(r)') <= Cardinality(Holders(r))
    BY <1>2, <2>1, FS_Subset, FS_CardinalityType
  <2>3. Lost(r) \/ Holders(r) = {} \/ used'.stall = used.stall + 1
          => Cardinality(Holders(r)') <= used'.stall
    <3>1. CASE Lost(r)
      BY <1>1, <1>2, <1>3, <2>2, <3>1
    <3>2. CASE Holders(r) = {}
      <4>1. Cardinality(Holders(r)) = 0
        BY <3>2, FS_EmptySet
      <4> QED
        BY <1>1, <2>2, <4>1
    <3>3. CASE used'.stall = used.stall + 1
      BY <1>1, <1>2, <1>3, <2>2, <3>3
    <3> QED
      BY <3>1, <3>2, <3>3
  <2>4. ASSUME Lost(r)' PROVE Cardinality(Holders(r)') <= used'.stall
    <3>1. ASSUME NEW n \in Nodes, NEW q \in Runs, Spawn(n, q) PROVE Lost(r) \/ Holders(r) = {}
      <4>1. CASE r = q
        BY <1>3, <3>1, <4>1, SpawnRows
      <4>2. CASE r # q
        <5>1. row'[r] = row[r]
          BY <3>1, <4>2, SpawnRows
        <5> QED
          BY <2>4, <5>1 DEF Lost
      <4> QED
        BY <4>1, <4>2
    <3>2. CASE \E n \in Nodes, q \in Runs : Spawn(n, q)
      BY <2>3, <3>1, <3>2
    <3>3. CASE \A n \in Nodes, q \in Runs : ~Spawn(n, q)
      <4>1. RowStep(r)
        BY <3>3, RowSteps
      <4>2. Lost(r) \/ Holders(r) = {} \/ used'.stall = used.stall + 1
        BY <2>4, <4>1, LostBefore DEF Holders
      <4> QED
        BY <2>3, <4>2
    <3> QED
      BY <3>2, <3>3
  <2>5. ASSUME row'[r].status = "absent" PROVE Holders(r)' = {}
    <3>1. row[r].status = "absent"
      <4>1. CASE \E n \in Nodes, q \in Runs : Spawn(n, q)
        BY <2>5, <4>1, SpawnRows DEF Released
      <4>2. CASE \A n \in Nodes, q \in Runs : ~Spawn(n, q)
        BY <2>5, <4>2, RowSteps, RowStepShape DEF RowConsistent, Shape
      <4> QED
        BY <4>1, <4>2
    <3> QED
      BY <1>3, <2>1, <3>1
  <2> QED
    BY <1>1, <1>2, <1>3, <2>2, <2>4, <2>5
<1> QED
  BY <1>4, <1>5

(* What the accounts say before a step, of numbers.                        *)
LEMMA CountsAre ==
  ASSUME TypeOK, NEW r \in Runs
  PROVE  /\ row[r] \in Row /\ row[r].attempts \in 0 .. MaxAttempts
         /\ claims[r] \in Nat /\ used.stall \in Nat
         /\ \A e \in Execs : exec[e].run = r => exec[e].snap \in Nat
<1>1. \A e \in Execs : exec[e].run = r => exec[e].snap \in Nat
  BY ExecCases, BusyExecAccess
<1> QED
  BY <1>1 DEF TypeOK, Row, Budget

LEMMA ClaimCounted ==
  ASSUME TypeOK, RetryInv, NEW n \in Nodes, NEW e \in Execs, NEW q \in Runs, ClaimNext(n, e, q),
         NEW r \in Runs
  PROVE  RowCounted(r)' /\ \A f \in Execs : Holds(f, r)' => HolderCounted(f, r)'
<1>0. /\ row[q].status = "queued" /\ row'[q] = Leased(n, row[q].attempts)
      /\ claims'[q] = claims[q] + 1
      /\ (r # q => Kept(r))
      /\ exec'[e].run = q /\ exec'[e].keeper = "off" /\ exec[e].run = NoRun
      /\ \A f \in Execs \ {e} : exec'[f] = exec[f]
      /\ used' = used
  BY ClaimedRow
<1>1. /\ row[r].attempts \in 0 .. MaxAttempts /\ claims[r] \in Nat /\ used.stall \in Nat
      /\ \A f \in Execs : exec[f].run = r => exec[f].snap \in Nat
  BY CountsAre
<1>2. RowCounted(r) /\ \A f \in Execs : Holds(f, r) => HolderCounted(f, r)
  BY DEF RetryInv
<1>3. CASE r = q
  <2>1. /\ row'[r].status = "running" /\ row'[r].lease = "live"
        /\ row'[r].attempts = row[r].attempts
    BY <1>0, <1>3 DEF Leased
  <2>2. RowCounted(r)'
    BY <1>0, <1>1, <1>2, <1>3, <2>1 DEF RowCounted, Uncounted
  <2>3. ASSUME NEW f \in Execs, Holds(f, r)' PROVE HolderCounted(f, r)'
    <3>1. CASE f = e
      BY <1>0, <2>1, <3>1 DEF HolderCounted, Lost
    <3>2. CASE f # e
      <4>1. exec'[f] = exec[f] /\ Holds(f, r) /\ Lost(r) /\ exec[f].snap \in Nat
        BY <1>0, <1>1, <1>3, <2>3, <3>2 DEF Holds, Lost
      <4> QED
        BY <1>0, <1>1, <1>2, <1>3, <2>1, <4>1 DEF HolderCounted, Lost, Uncounted
    <3> QED
      BY <3>1, <3>2
  <2> QED
    BY <2>2, <2>3
<1>4. CASE r # q
  <2>1. RowCounted(r)'
    BY <1>0, <1>2, <1>4 DEF RowCounted, Uncounted, Kept
  <2>2. ASSUME NEW f \in Execs, Holds(f, r)' PROVE HolderCounted(f, r)'
    <3>1. exec'[f] = exec[f] /\ Holds(f, r)
      BY <1>0, <1>4, <2>2 DEF Holds
    <3> QED
      BY <1>0, <1>2, <1>4, <3>1 DEF HolderCounted, Lost, Uncounted, Kept
  <2> QED
    BY <2>1, <2>2
<1> QED
  BY <1>3, <1>4

(* A row that is neither queued nor running is accounted for.              *)
LEMMA SettledCounted ==
  ASSUME TypeOK, RetryInv, [Next]_vars, NEW r \in Runs, claims'[r] = claims[r],
         row'[r].status \notin {"absent", "queued", "running"}, row'[r].lease = "none"
  PROVE  RowCounted(r)' /\ \A f \in Execs : Holds(f, r)' => HolderCounted(f, r)'
<1>1. claims[r] \in Nat /\ used.stall \in Nat /\ Uncounted(r, MaxAttempts + 1)
  BY CountsAre DEF RetryInv, RowCounted
<1>2. Uncounted(r, MaxAttempts + 1)'
  BY <1>1, StallsGrow DEF Uncounted
<1> QED
  BY <1>2 DEF RowCounted, HolderCounted, Lost

LEMMA StepRetry ==
  ASSUME TypeOK, RowConsistent, RetryInv, [Next]_vars
  PROVE  RetryInv'
<1> SUFFICES ASSUME NEW r \in Runs
             PROVE  RowCounted(r)' /\ \A f \in Execs : Holds(f, r)' => HolderCounted(f, r)'
  BY DEF RetryInv
<1>1. /\ row[r] \in Row /\ row[r].attempts \in 0 .. MaxAttempts
      /\ claims[r] \in Nat /\ used.stall \in Nat
      /\ \A f \in Execs : exec[f].run = r => exec[f].snap \in Nat
  BY CountsAre
<1>2. used'.stall \in {used.stall, used.stall + 1}
  BY StallsGrow
<1>3. RowCounted(r) /\ \A f \in Execs : Holds(f, r) => HolderCounted(f, r)
  BY DEF RetryInv
<1>4. CASE \E n \in Nodes, e \in Execs, q \in Runs : ClaimNext(n, e, q)
  BY <1>4, ClaimCounted
<1>5. ASSUME \A n \in Nodes, e \in Execs, q \in Runs : ~ClaimNext(n, e, q)
      PROVE  RowCounted(r)' /\ \A f \in Execs : Holds(f, r)' => HolderCounted(f, r)'
  <2>1. \A f \in Execs : exec'[f].run = r => Holds(f, r) /\ Renewing(f)
    BY <1>5, HoldersBefore
  <2>2. claims' = claims
    BY <1>5, ClaimsOnlyByClaimNext
  (* The row does not change. *)
  <2>3. ASSUME row'[r] = row[r]
        PROVE  RowCounted(r)' /\ \A f \in Execs : Holds(f, r)' => HolderCounted(f, r)'
    <3>1. RowCounted(r)'
      BY <1>1, <1>2, <1>3, <2>2, <2>3 DEF RowCounted, Uncounted
    <3>2. ASSUME NEW f \in Execs, Holds(f, r)' PROVE HolderCounted(f, r)'
      <4>1. Holds(f, r) /\ Renewing(f) /\ HolderCounted(f, r) /\ exec[f].snap \in Nat
        BY <1>1, <1>3, <2>1, <3>2 DEF Holds
      <4>2. row[r].lease = "expired" => Uncounted(r, row[r].attempts)'
        BY <1>1, <1>2, <2>2, <2>3, <4>1 DEF HolderCounted, Uncounted
      <4>3. CASE /\ exec'[f].keeper = "renewing" /\ exec[f].keeper = "renewing"
                 /\ exec'[f].snap = exec[f].snap
        BY <1>1, <1>2, <2>2, <2>3, <4>1, <4>2, <4>3 DEF HolderCounted, Uncounted, Lost
      <4>4. CASE exec'[f].keeper = "renewing" /\ exec'[f].snap = row[r].attempts
        BY <1>1, <1>2, <1>3, <2>2, <2>3, <4>1, <4>2, <4>4
           DEF HolderCounted, RowCounted, Uncounted, Lost
      <4>5. CASE exec'[f].keeper # "renewing"
        BY <2>3, <4>2, <4>5 DEF HolderCounted
      <4> QED
        BY <4>1, <4>3, <4>4, <4>5 DEF Renewing, Holds
    <3> QED
      BY <3>1, <3>2
  <2>4. CASE \E n \in Nodes, q \in Runs : Spawn(n, q)
    <3>1. PICK n \in Nodes, q \in Runs : Spawn(n, q)
      BY <2>4
    <3>2. CASE r = q
      <4>1. /\ row[r].status = "absent" /\ row'[r] = Released("queued", 0)
            /\ exec' = exec /\ used' = used
        BY <3>1, <3>2, SpawnRows DEF Spawn
      <4>2. /\ claims'[r] = 0
            /\ row'[r].status = "queued" /\ row'[r].attempts = 0 /\ row'[r].lease = "none"
        BY <1>3, <2>2, <4>1 DEF RowCounted, Released
      <4> QED
        BY <1>1, <4>1, <4>2 DEF RowCounted, HolderCounted, Uncounted, Holds
    <3>3. CASE r # q
      BY <2>3, <3>1, <3>3, SpawnRows
    <3> QED
      BY <3>2, <3>3
  <2>5. CASE \A n \in Nodes, q \in Runs : ~Spawn(n, q)
    <3>1. RowStep(r)
      BY <2>5, RowSteps
    <3>2. ASSUME NEW k \in 0 .. 3, Became(r, Swept(row[r], k))
          PROVE  RowCounted(r)' /\ \A f \in Execs : Holds(f, r)' => HolderCounted(f, r)'
      <4>1. CASE row'[r] = row[r]
        BY <2>3, <4>1
      <4>2. CASE \/ row'[r] = Released("canceled", row[r].attempts)
                 \/ row'[r] = Released("failed", row[r].attempts)
        <5>1. row'[r].status \notin {"absent", "queued", "running"} /\ row'[r].lease = "none"
          BY <4>2 DEF Released
        <5> QED
          BY <2>2, <5>1, SettledCounted
      <4>3. CASE /\ row[r].status = "running" /\ row[r].lease = "expired"
                 /\ row[r].attempts < MaxAttempts
                 /\ row'[r] = Released("queued", row[r].attempts + 1)
        <5>1. /\ row'[r].status = "queued" /\ row'[r].lease = "none"
              /\ row'[r].attempts = row[r].attempts + 1
          BY <4>3 DEF Released
        <5>2. RowCounted(r)'
          BY <1>1, <1>2, <1>3, <2>2, <4>3, <5>1 DEF RowCounted, Uncounted
        <5>3. ASSUME NEW f \in Execs, Holds(f, r)' PROVE HolderCounted(f, r)'
          <6>1. Holds(f, r) /\ HolderCounted(f, r) /\ exec[f].snap \in Nat
            BY <1>1, <1>3, <2>1, <5>3 DEF Holds
          <6>2. exec'[f].keeper = "renewing" => exec[f].keeper = "renewing" /\ exec'[f].snap = exec[f].snap
            BY <2>1, <4>3, <5>1, <5>3 DEF Renewing, Holds
          <6> QED
            BY <1>1, <1>2, <2>2, <4>3, <5>1, <6>1, <6>2 DEF HolderCounted, Lost, Uncounted
        <5> QED
          BY <5>2, <5>3
      <4> QED
        BY <1>1, <3>2, <4>1, <4>2, <4>3, SweptRow DEF Became
    <3>3. ASSUME NEW s \in Terminal \cup {"canceling"}, Became(r, Overwritten(s))
          PROVE  RowCounted(r)' /\ \A f \in Execs : Holds(f, r)' => HolderCounted(f, r)'
      <4>1. row'[r].status \notin {"absent", "queued", "running"} /\ row'[r].lease = "none"
        BY <3>3 DEF Became, Overwritten, Released, Terminal
      <4> QED
        BY <2>2, <4>1, SettledCounted
    <3>4. ASSUME NEW e \in Execs, row[r].status = "running", Holds(e, r), exec[e].keeper = "renewing",
                 Became(r, Leased(exec[e].node, exec[e].snap))
          PROVE  RowCounted(r)' /\ \A f \in Execs : Holds(f, r)' => HolderCounted(f, r)'
      <4>1. row'[r].status = "running" /\ row'[r].lease = "live" /\ row'[r].attempts = exec[e].snap
        BY <3>4 DEF Became, Leased
      <4>2. exec[e].snap \in Nat /\ HolderCounted(e, r)
        BY <1>1, <1>3, <3>4 DEF Holds
      <4>3. RowCounted(r)'
        BY <1>1, <1>2, <1>3, <2>2, <3>4, <4>1, <4>2 DEF RowCounted, HolderCounted, Uncounted
      <4>4. ASSUME NEW f \in Execs, Holds(f, r)' PROVE HolderCounted(f, r)'
        <5>1. Holds(f, r) /\ Renewing(f) /\ HolderCounted(f, r) /\ exec[f].snap \in Nat
          BY <1>1, <1>3, <2>1, <4>4 DEF Holds
        <5>2. exec'[f].keeper = "renewing" =>
                \/ exec[f].keeper = "renewing" /\ exec'[f].snap = exec[f].snap
                \/ exec'[f].snap = row[r].attempts
          BY <5>1 DEF Renewing, Holds
        <5>3. exec'[f].keeper = "renewing" => claims'[r] <= exec'[f].snap + 1 + used'.stall
          BY <1>1, <1>2, <1>3, <2>2, <3>4, <5>1, <5>2 DEF HolderCounted, RowCounted, Uncounted
        <5> QED
          BY <4>1, <5>3 DEF HolderCounted, Lost, Uncounted
      <4> QED
        BY <4>3, <4>4
    <3>5. ASSUME row[r].lease = "live", Became(r, [row[r] EXCEPT !.lease = "expired"]),
                 (\A e \in Execs : ~Holds(e, r)) \/ used'.stall = used.stall + 1
          PROVE  RowCounted(r)' /\ \A f \in Execs : Holds(f, r)' => HolderCounted(f, r)'
      <4>1. row[r].status = "running"
        BY <3>5 DEF RowConsistent
      <4>2. row'[r].status = "running" /\ row'[r].lease = "expired" /\ row'[r].attempts = row[r].attempts
        BY <1>1, <3>5, <4>1 DEF Became, Row
      <4>3. RowCounted(r)'
        BY <1>1, <1>2, <1>3, <2>2, <4>1, <4>2 DEF RowCounted, Uncounted
      <4>4. ASSUME NEW f \in Execs, Holds(f, r)' PROVE HolderCounted(f, r)'
        <5>1. Holds(f, r) /\ HolderCounted(f, r) /\ exec[f].snap \in Nat
          BY <1>1, <1>3, <2>1, <4>4 DEF Holds
        <5>2. exec'[f].keeper = "renewing" => exec[f].keeper = "renewing" /\ exec'[f].snap = exec[f].snap
          BY <2>1, <3>5, <4>2, <4>4 DEF Renewing, Holds
        <5>3. used'.stall = used.stall + 1
          BY <3>5, <5>1
        <5>4. claims'[r] <= row'[r].attempts + used'.stall
          BY <1>1, <1>3, <2>2, <4>1, <4>2, <5>3 DEF RowCounted, Uncounted
        <5>5. exec'[f].keeper = "renewing" => /\ claims'[r] <= exec'[f].snap + used'.stall
                                               /\ claims'[r] <= exec'[f].snap + 1 + used'.stall
          BY <1>1, <2>2, <4>1, <5>1, <5>2, <5>3 DEF HolderCounted, Uncounted
        <5> QED
          BY <5>4, <5>5 DEF HolderCounted, Uncounted
      <4> QED
        BY <4>3, <4>4
    <3>6. CASE Kept(r)
      BY <2>3, <3>6 DEF Kept
    <3>7. claims'[r] # claims[r] + 1
      BY <1>1, <2>2
    <3> QED
      BY <3>1, <3>2, <3>3, <3>4, <3>5, <3>6, <3>7 DEF RowStep, Concludes, Terminal
  <2> QED
    BY <2>4, <2>5
<1> QED
  BY <1>4, <1>5

LEMMA InitCounted ==
  ASSUME Init
  PROVE  StalledInv /\ RetryInv
<1>1. \A r \in Runs : /\ row[r].status = "absent" /\ row[r].lease = "none" /\ row[r].attempts = 0
                      /\ claims[r] = 0
  BY DEF Init, Released
<1>2. \A r \in Runs, e \in Execs : ~Holds(e, r)
  BY DEF Init, IdleExec, Holds
<1>3. \A r \in Runs : Holders(r) = {}
  BY <1>2 DEF Holders
<1>4. \A r \in Runs : Cardinality(Holders(r)) = 0
  BY <1>3, FS_EmptySet
<1>5. used.stall = 0
  BY DEF Init
<1>6. ASSUME NEW r \in Runs PROVE Cardinality(Holders(r)) <= used.stall + 1 /\ ~Lost(r)
  <2>1. ~Lost(r)
    BY <1>1 DEF Lost
  <2>2. \A i, j : i = 0 /\ j = 0 => i <= j + 1
    OBVIOUS
  <2>3. Cardinality(Holders(r)) <= used.stall + 1
    BY <1>4, <1>5, <2>2
  <2> QED
    BY <2>1, <2>3
<1>7. StalledInv
  BY <1>3, <1>6 DEF StalledInv
<1>8. ASSUME NEW r \in Runs PROVE RowCounted(r)
  <2>1. claims[r] <= MaxAttempts + 1 + used.stall
    BY <1>1, <1>5
  <2> QED
    BY <1>1, <2>1 DEF RowCounted, Uncounted
<1>9. RetryInv
  BY <1>2, <1>8 DEF RetryInv
<1> QED
  BY <1>7, <1>9

(* However nodes crash, close and stall, a run is executed by at most one  *)
(* goroutine more than there were stalls: ClaimNext hands a run out again  *)
(* only after its lease ran out, and a lease a goroutine still acts under  *)
(* runs out only by a stall.                                               *)
THEOREM StallsCounted == ASSUME IsFiniteSet(Execs) PROVE Spec => []ExecutionsBounded
<1> DEFINE I == TypeOK /\ RegistryLive /\ RowConsistent /\ StalledInv
<1>1. Init => I
  BY InitTypeOK, InitRegistry, InitRows, InitCounted
<1>2. I /\ [Next]_vars => I'
  BY StepTypes, StepRegistry, StepRows, StepStalled
<1>3. I => ExecutionsBounded
  <2> SUFFICES ASSUME I, NEW r \in Runs
               PROVE  Cardinality({e \in Execs : Executing(e, r)}) <= used.stall + 1
    BY DEF ExecutionsBounded
  <2>1. {e \in Execs : Executing(e, r)} \subseteq Holders(r)
    BY DEF Executing, Holders
  <2>2. IsFiniteSet(Holders(r)) /\ Cardinality(Holders(r)) \in Nat
    BY HoldersFinite
  <2>3. /\ Cardinality({e \in Execs : Executing(e, r)}) \in Nat
        /\ Cardinality({e \in Execs : Executing(e, r)}) <= Cardinality(Holders(r))
    BY <2>1, <2>2, FS_Subset, FS_CardinalityType
  <2>4. used.stall \in Nat /\ Cardinality(Holders(r)) <= used.stall + 1
    BY DEF TypeOK, Budget, StalledInv
  <2> QED
    BY <2>2, <2>3, <2>4
<1> QED
  BY <1>1, <1>2, <1>3, PTL DEF Spec

(* A run is claimed once per attempt, and once more for each stall, whose  *)
(* renewal writes back the attempts from before the requeue.               *)
THEOREM RetriesCounted == Spec => []ClaimsBounded
<1> DEFINE I == TypeOK /\ RegistryLive /\ RowConsistent /\ RetryInv
<1>1. Init => I
  BY InitTypeOK, InitRegistry, InitRows, InitCounted
<1>2. I /\ [Next]_vars => I'
  BY StepTypes, StepRegistry, StepRows, StepRetry
<1>3. I => ClaimsBounded
  BY DEF RetryInv, RowCounted, Uncounted, ClaimsBounded
<1> QED
  BY <1>1, <1>2, <1>3, PTL DEF Spec
=============================================================================
