----------------------------- MODULE MCHostNetwork -----------------------------
(* Instances of HostNetwork for TLC. *)
EXTENDS HostNetwork

\* --tcp_server_port_map=80=8080
MapPort80(port) == IF port = 80 THEN 8080 ELSE port
=============================================================================
