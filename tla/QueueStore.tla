----------------------------- MODULE QueueStore -----------------------------
(***************************************************************************)
(* The shared table of the multi-node task-run queue (taskrun/queue):      *)
(* what one statement of the SQLite backend does to a row.  The nodes that *)
(* issue the statements are module TaskQueue.                              *)
(*                                                                         *)
(* A row keeps the columns the statements test or set.  Time is abstract:  *)
(* a lease is "none" (NULL), "live" (in the future) or "expired" (in the   *)
(* past); created_at is the position of the run in the sequence of         *)
(* insertions.                                                             *)
(***************************************************************************)
EXTENDS Naturals, Sequences

CONSTANTS
  Runs,         \* run ids that may be spawned
  Nodes,        \* server replicas sharing the table
  MaxAttempts,  \* QueueOptions.MaxAttempts: requeues allowed after a lost lease
  NoNode        \* worker_id = NULL

ASSUME MaxAttemptsAssumption == MaxAttempts \in Nat \ {0}
ASSUME NoNodeAssumption == NoNode \notin Nodes

Terminal == {"completed", "failed", "canceled"}
Status == {"absent", "queued", "running", "canceling"} \cup Terminal

Row == [status   : Status,
        worker   : Nodes \cup {NoNode},
        lease    : {"none", "live", "expired"},
        attempts : 0 .. MaxAttempts]

(* A row whose worker and lease columns are NULL. *)
Released(status, attempts) ==
  [status |-> status, worker |-> NoNode, lease |-> "none", attempts |-> attempts]

(* A running row leased to node n from now on. *)
Leased(n, attempts) ==
  [status |-> "running", worker |-> n, lease |-> "live", attempts |-> attempts]

(* UpdateStatusIf with Row{Run: run}: every column but the run record is   *)
(* overwritten with its zero value, attempts included.                     *)
Overwritten(status) == Released(status, 0)

(* Fault variant: the row that is oldest among those not yet finished. *)
IsNextOpen(table, arrivals, r) ==
  \E i \in DOMAIN arrivals :
    /\ arrivals[i] = r
    /\ table[r].status \in {"queued", "running"}
    /\ \A j \in DOMAIN arrivals :
         j < i => table[arrivals[j]].status \notin {"queued", "running"}

(* ClaimNext: the oldest queued row by created_at. *)
IsNextQueued(table, arrivals, r) ==
  \E i \in DOMAIN arrivals :
    /\ arrivals[i] = r
    /\ table[r].status = "queued"
    /\ \A j \in DOMAIN arrivals : j < i => table[arrivals[j]].status # "queued"

-----------------------------------------------------------------------------
(* RequeueExpired is three UPDATE statements, each atomic, in this order.  *)

(* Fault variants: a canceling row without a lease is left alone, and one  *)
(* settled as failed.                                                      *)
SettleExpiredOnly(w) ==
  IF w.status = "canceling" /\ w.lease = "expired"
    THEN Released("canceled", w.attempts)
    ELSE w

SettleAsFailed(w) ==
  IF w.status = "canceling" /\ w.lease # "live"
    THEN Released("failed", w.attempts)
    ELSE w

SettleCanceling(w) ==
  IF w.status = "canceling" /\ w.lease # "live"
    THEN Released("canceled", w.attempts)
    ELSE w

(* Fault variants: the limit, the lease, or the counter is forgotten. *)
RetryForever(w) ==
  IF w.status = "running" /\ w.lease = "expired"
    THEN Released("queued", w.attempts + 1)
    ELSE w

RetryEarly(w) ==
  IF w.status = "running" /\ w.attempts < MaxAttempts
    THEN Released("queued", w.attempts + 1)
    ELSE w

RetryUncounted(w) ==
  IF w.status = "running" /\ w.lease = "expired" /\ w.attempts < MaxAttempts
    THEN Released("queued", w.attempts)
    ELSE w

Retry(w) ==
  IF w.status = "running" /\ w.lease = "expired" /\ w.attempts < MaxAttempts
    THEN Released("queued", w.attempts + 1)
    ELSE w

(* Fault variant: the run is given up as canceled. *)
ExhaustCanceled(w) ==
  IF w.status = "running" /\ w.lease = "expired" /\ w.attempts >= MaxAttempts
    THEN Released("canceled", w.attempts)
    ELSE w

Exhaust(w) ==
  IF w.status = "running" /\ w.lease = "expired" /\ w.attempts >= MaxAttempts
    THEN Released("failed", w.attempts)
    ELSE w

(* Fault variant: the third statement is missing. *)
SweptWithoutExhaust(w, k) ==
  IF k = 0 THEN w ELSE Retry(SettleCanceling(w))

(* The row after the first k statements: an error stops the rest.  The     *)
(* statements select disjoint rows, so running them back to back loses no  *)
(* interleaving with a statement of another node.                          *)
Swept(w, k) ==
  LET settled == IF k >= 1 THEN SettleCanceling(w) ELSE w
      retried == IF k >= 2 THEN Retry(settled) ELSE settled
  IN  IF k >= 3 THEN Exhaust(retried) ELSE retried
=============================================================================
