------------------------------ MODULE ByteStream ------------------------------
(***************************************************************************)
(* What a Connection promises the code that writes to it: the peer gets    *)
(* the bytes that were accepted, each once and in order.  After a failure  *)
(* nothing more is accepted or delivered.  A connection object that goes   *)
(* away without a failure has delivered all it accepted.                   *)
(*                                                                         *)
(* The n-th byte accepted is the number n.                                 *)
(***************************************************************************)
EXTENDS Naturals, Sequences

VARIABLES
  accepted,   \* how many bytes were accepted
  delivered,  \* the bytes delivered so far
  failed,     \* whether writing has failed
  alive       \* whether the connection object exists

vars == <<accepted, delivered, failed, alive>>

Init ==
  /\ accepted = 0
  /\ delivered = <<>>
  /\ failed = FALSE
  /\ alive = TRUE

Accept ==
  /\ alive /\ ~failed
  /\ accepted' \in Nat /\ accepted' > accepted
  /\ UNCHANGED <<delivered, failed, alive>>

\* Some or all of the bytes accepted and not yet delivered.
Deliver(n) ==
  /\ alive /\ ~failed
  /\ Len(delivered) < n
  /\ delivered' = [i \in 1 .. n |-> i]
  /\ UNCHANGED <<accepted, failed, alive>>

Fail ==
  /\ alive
  /\ failed' = TRUE
  /\ UNCHANGED <<accepted, delivered, alive>>

GoAway ==
  /\ failed \/ Len(delivered) = accepted
  /\ alive' = FALSE
  /\ UNCHANGED <<accepted, delivered, failed>>

Next == Accept \/ (\E n \in 1 .. accepted : Deliver(n)) \/ Fail \/ GoAway

Spec == Init /\ [][Next]_vars
=============================================================================
