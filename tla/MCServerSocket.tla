---------------------------- MODULE MCServerSocket ----------------------------
(* Instances of ServerSocket for TLC. *)
EXTENDS ServerSocket

CONSTANTS s1, s2

\* Two servers on different ports, and one alone.
DistinctPort == [s \in {s1, s2} |-> IF s = s1 THEN 80 ELSE 81]
OnePort == [s \in {s1} |-> 80]
=============================================================================
