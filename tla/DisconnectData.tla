---------------------------- MODULE DisconnectData ----------------------------
(***************************************************************************)
(* DisconnectData (src/disconnect_data.cpp) and the one decision made from *)
(* it, ServerSocket::DetectCloseTimeout, with a clock that wraps around as *)
(* millis() does after 49 days.                                            *)
(*                                                                         *)
(* The calls come in the order ServerSocket and TcpServerConnection make   *)
(* them; ServerSocket models these two in full, with a clock that does not *)
(* wrap around.  phase abstracts the hardware socket: "listening" stands   *)
(* for every status without a connection.                                  *)
(***************************************************************************)
EXTENDS Integers

CONSTANTS
  ClockModulus,          \* millis() counts modulo this; 2^32 in the code
  kDisconnectMaxMillis,  \* 5000 in the code
  MaxGap                 \* bound on the time between two calls of PerformIO

\* The loop polls long before the clock has gone round once.
ASSUME ClockAssumption ==
  /\ ClockModulus \in Nat \ {0}
  /\ kDisconnectMaxMillis \in Nat
  /\ MaxGap \in Nat
  /\ kDisconnectMaxMillis + MaxGap < ClockModulus

VARIABLES
  millis,          \* the clock
  disconnected,
  disconnectTime,  \* disconnect_time_millis
  phase,           \* "listening", "open", "closing"
  age,             \* the true time since the connection began to close
  sincePoll        \* the true time since PerformIO was called

vars == <<millis, disconnected, disconnectTime, phase, age, sincePoll>>

Init ==
  /\ millis \in 0 .. ClockModulus - 1
  /\ disconnected = TRUE
  /\ disconnectTime = 0
  /\ phase = "listening"
  /\ age = 0
  /\ sincePoll = 0

\* Only the first call after a Reset sets the time.
RecordDisconnect ==
  /\ disconnected' = TRUE
  /\ disconnectTime' = IF disconnected THEN disconnectTime ELSE millis

Reset == disconnected' = FALSE /\ disconnectTime' = 0

\* Mutant: a clock that has wrapped around has not moved.
ElapsedIfLater == IF millis >= disconnectTime THEN millis - disconnectTime ELSE 0

\* ElapsedMillis: the difference of two unsigned numbers.
ElapsedDisconnectTime ==
  IF millis >= disconnectTime
  THEN millis - disconnectTime
  ELSE millis - disconnectTime + ClockModulus

\* The condition of DetectCloseTimeout.
TimedOut == disconnected /\ ElapsedDisconnectTime > kDisconnectMaxMillis

-----------------------------------------------------------------------------

\* The clock wraps around.
ClockAdvances == millis' = IF millis < ClockModulus - 1 THEN millis + 1 ELSE 0

Tick ==
  /\ sincePoll < MaxGap
  /\ ClockAdvances
  /\ age' = IF phase = "closing" THEN age + 1 ELSE 0
  /\ sincePoll' = sincePoll + 1
  /\ UNCHANGED <<disconnected, disconnectTime, phase>>

\* PerformIO finds a connection, new or old: the constructor of the
\* TcpServerConnection for the listener, or for HandleCloseWait, resets the data.
PollOpen ==
  /\ phase \in {"listening", "open"}
  /\ Reset
  /\ phase' = "open"
  /\ sincePoll' = 0
  /\ UNCHANGED <<millis, age>>

\* close() by the listener, perhaps more than once, or by HandleCloseWait.
Close ==
  /\ phase \in {"open", "closing"}
  /\ RecordDisconnect
  /\ phase' = "closing"
  /\ UNCHANGED <<millis, age, sincePoll>>

\* PerformIO finds a connection gone that its peer has ended.
ConnectionEnded ==
  /\ phase = "open"
  /\ RecordDisconnect
  /\ phase' = "listening"
  /\ sincePoll' = 0
  /\ UNCHANGED <<millis, age>>

\* The server is told that its socket is lost, in whatever phase.
SocketLost ==
  /\ RecordDisconnect
  /\ phase' = "listening"
  /\ age' = 0
  /\ UNCHANGED <<millis, sincePoll>>

\* PerformIO with no connection: the data is left alone.
PollListening ==
  /\ phase = "listening"
  /\ sincePoll' = 0
  /\ UNCHANGED <<millis, disconnected, disconnectTime, phase, age>>

\* Mutant: the socket is left to the chip.
DetectCloseTimeoutWaits ==
  /\ phase = "closing"
  /\ sincePoll' = 0
  /\ UNCHANGED <<millis, disconnected, disconnectTime, phase, age>>

DetectCloseTimeout ==
  /\ phase = "closing"
  /\ IF TimedOut
     THEN phase' = "listening" /\ age' = 0
     ELSE UNCHANGED <<phase, age>>
  /\ sincePoll' = 0
  /\ UNCHANGED <<millis, disconnected, disconnectTime>>

\* The peer answers, and the chip closes the socket.
ChipCloses ==
  /\ phase = "closing"
  /\ phase' = "listening"
  /\ age' = 0
  /\ UNCHANGED <<millis, disconnected, disconnectTime, sincePoll>>

Next ==
  \/ Tick \/ PollOpen \/ Close \/ ConnectionEnded \/ PollListening
  \/ DetectCloseTimeout \/ ChipCloses \/ SocketLost

Spec == Init /\ [][Next]_vars

-----------------------------------------------------------------------------
(* Properties.                                                             *)

\* The type of every variable, used in the proofs only: it holds by the widths.
TypeOK ==
  /\ millis \in 0 .. ClockModulus - 1
  /\ disconnected \in BOOLEAN
  /\ disconnectTime \in 0 .. ClockModulus - 1
  /\ phase \in {"listening", "open", "closing"}
  /\ age \in Nat
  /\ sincePoll \in 0 .. MaxGap

\* DetectCloseTimeout gives a closing connection up if, and only if, more than
\* kDisconnectMaxMillis have really passed since its close began: wherever the
\* clock wraps around, however often close() was called, and although the data of
\* the last connection is still there when the next one comes.
TimeoutIsTrue ==
  phase = "closing" => (TimedOut <=> age > kDisconnectMaxMillis)

\* No connection is closing for longer than the limit and one round of the loop.
ClosesInTime == phase = "closing" => age <= kDisconnectMaxMillis + MaxGap
=============================================================================
