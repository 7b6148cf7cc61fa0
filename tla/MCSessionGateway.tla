--------------------------- MODULE MCSessionGateway ---------------------------
(* Instances of SessionGateway for TLC. *)
EXTENDS SessionGateway, TLC

(* Requests and sessions are compared for equality only. *)
Symmetry == Permutations(Requests) \cup Permutations(Sessions)
==============================================================================
