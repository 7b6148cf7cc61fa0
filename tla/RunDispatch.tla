----------------------------- MODULE RunDispatch -----------------------------
(***************************************************************************)
(* What the task-run queue promises of each run: the status diagram of     *)
(* taskrun/queue/queue.go, with the promise of its header that a run is    *)
(* executed by exactly one node.  A run is handed out only while nobody    *)
(* works on it, is taken back only after its worker is gone, and a         *)
(* terminal status is final.  Nodes, leases and messages do not appear;    *)
(* each step is also what the queue in memory (taskrun/queue/memory.go)    *)
(* does under its one mutex.                                               *)
(***************************************************************************)
CONSTANT Runs

VARIABLES
  phase,   \* the status of each run
  busy     \* is somebody working on the run

dispatchVars == <<phase, busy>>

Final == {"completed", "failed", "canceled"}

DispatchInit ==
  /\ phase = [r \in Runs |-> "absent"]
  /\ busy = [r \in Runs |-> FALSE]

(* r goes from phase p to phase q. *)
Goes(r, p, q) == phase[r] = p /\ phase'[r] = q

Works(r, before, after) == busy[r] = before /\ busy'[r] = after

Submit(r)  == Goes(r, "absent", "queued") /\ Works(r, FALSE, FALSE)
HandOut(r) == Goes(r, "queued", "running") /\ Works(r, FALSE, TRUE)

(* The worker concludes: with a status of its own choice if the run is     *)
(* still running, with canceled if it is being canceled.                   *)
Conclude(r) ==
  /\ \/ \E q \in Final : Goes(r, "running", q)
     \/ Goes(r, "canceling", "canceled")
  /\ busy[r] /\ busy'[r] \in BOOLEAN

(* The worker is gone, without a word. *)
Abandon(r) == phase'[r] = phase[r] /\ Works(r, TRUE, FALSE)

(* Nobody works on a run believed running: another attempt, or none left. *)
TakeBack(r) ==
  /\ Goes(r, "running", "queued") \/ Goes(r, "running", "failed")
  /\ Works(r, FALSE, FALSE)

CancelBefore(r) == Goes(r, "queued", "canceled") /\ Works(r, FALSE, FALSE)
CancelDuring(r) == Goes(r, "running", "canceling") /\ busy'[r] = busy[r]

(* A run being canceled is settled even while its worker winds down. *)
Settle(r) == Goes(r, "canceling", "canceled") /\ busy'[r] = busy[r]

RunStep(r) ==
  \/ Submit(r)
  \/ HandOut(r)
  \/ Conclude(r)
  \/ Abandon(r)
  \/ TakeBack(r)
  \/ CancelBefore(r)
  \/ CancelDuring(r)
  \/ Settle(r)
  \/ phase'[r] = phase[r] /\ busy'[r] = busy[r]

(* One statement of a node may settle and take back several runs at once,  *)
(* and a crash abandons all runs of a node.                                *)
DispatchNext == \A r \in Runs : RunStep(r)

DispatchSpec == DispatchInit /\ [][DispatchNext]_dispatchVars
==============================================================================
