--------------------------- MODULE MCRequestQueue ---------------------------
(* An instance of RequestQueue for TLC: acks and results are posted with    *)
(* priority 10, sync updates with 80.                                       *)
EXTENDS RequestQueue

CONSTANTS q1, q2, q3

MCPriority == [q \in Requests |-> IF q = q1 THEN 10 ELSE 80]
=============================================================================
