--------------------------- MODULE ListenerContract ---------------------------
(***************************************************************************)
(* What a ServerSocketListener (src/socket_listener.h) may rely on,        *)
(* whatever the chip, the peers and the other servers do.                  *)
(*                                                                         *)
(*   - A session begins with OnConnect, goes on with calls of OnCanRead,   *)
(*     and ends exactly once: either the listener closes the connection,   *)
(*     or it is told by OnDisconnect.  Nothing is called outside of a      *)
(*     session, and no session begins inside another one.                  *)
(*   - Calls do not nest: while OnConnect or OnCanRead of one listener     *)
(*     runs, no method of any listener is called.                          *)
(***************************************************************************)
CONSTANT Servers

VARIABLES
  session,  \* "open" between OnConnect and the end of the connection
  inCall    \* whether OnConnect or OnCanRead of the listener is running

vars == <<session, inCall>>

Quiet == \A s \in Servers : ~inCall[s]

Init ==
  /\ session = [s \in Servers |-> "idle"]
  /\ inCall = [s \in Servers |-> FALSE]

OnConnect(s) ==
  /\ Quiet
  /\ session[s] = "idle"
  /\ session' = [session EXCEPT ![s] = "open"]
  /\ inCall' = [inCall EXCEPT ![s] = TRUE]

OnCanRead(s) ==
  /\ Quiet
  /\ session[s] = "open"
  /\ inCall' = [inCall EXCEPT ![s] = TRUE]
  /\ UNCHANGED session

\* The listener calls close() on the connection it was given.
Close(s) ==
  /\ inCall[s]
  /\ session[s] = "open"
  /\ session' = [session EXCEPT ![s] = "idle"]
  /\ UNCHANGED inCall

Return(s) ==
  /\ inCall[s]
  /\ inCall' = [inCall EXCEPT ![s] = FALSE]
  /\ UNCHANGED session

OnDisconnect(s) ==
  /\ Quiet
  /\ session[s] = "open"
  /\ session' = [session EXCEPT ![s] = "idle"]
  /\ UNCHANGED inCall

Next ==
  \E s \in Servers :
    OnConnect(s) \/ OnCanRead(s) \/ Close(s) \/ Return(s) \/ OnDisconnect(s)

Spec == Init /\ [][Next]_vars
=============================================================================
