----------------------------- MODULE MCTaskQueue -----------------------------
(* Instances of TaskQueue for TLC. *)
EXTENDS TaskQueue, TLC

(* Nodes, goroutines, clients and runs are interchangeable: the            *)
(* specification compares them for equality only.                          *)
Symmetry ==
  Permutations(Runs) \cup Permutations(Nodes)
    \cup Permutations(Execs) \cup Permutations(Clients)
==============================================================================
