--------------------------- MODULE PlatformNetwork ---------------------------
(***************************************************************************)
(* The hardware sockets of the WIZnet W5500 and the static PlatformNetwork *)
(* methods of src/platform_network.cpp (embedded build) through which the  *)
(* rest of McuNet uses them.                                               *)
(*                                                                         *)
(* The chip is external: it is modelled from the comments and the uses in  *)
(* src/.  It runs concurrently with the microcontroller, which sees it     *)
(* only through single register reads and commands, so that a status value *)
(* may be stale as soon as it has been read.                               *)
(***************************************************************************)
EXTENDS Naturals

CONSTANTS
  MAX_SOCK_NUM,   \* number of hardware sockets
  ListenOutcomes  \* statuses a socket may have after ::socket and ::listen

ASSUME SockNumAssumption == MAX_SOCK_NUM \in Nat \ {0}
ASSUME OutcomesAssumption ==
  /\ "LISTEN" \in ListenOutcomes
  /\ ListenOutcomes \subseteq {"CLOSED", "INIT", "LISTEN"}

VARIABLES
  sr,         \* Sn_SR, the status register of every hardware socket
  rx,         \* whether a socket's receive buffer holds unread bytes
  serverPort  \* EthernetClass::_server_port

netVars == <<sr, rx, serverPort>>

Socks == 0 .. MAX_SOCK_NUM - 1

(***************************************************************************)
(* Status values.  UDP stands for all the modes that are not TCP (UDP,     *)
(* IPRAW, MACRAW, PPPOE), which the code never tells apart; UNDOCUMENTED   *)
(* for values such as 0x11 that the data sheet does not list.              *)
(***************************************************************************)
ClosingStatuses == {"FIN_WAIT", "CLOSING", "TIME_WAIT", "LAST_ACK"}
OpenStatuses    == {"ESTABLISHED", "CLOSE_WAIT"}
Statuses ==
  {"CLOSED", "INIT", "LISTEN", "SYNSENT", "SYNRECV", "UDP", "UNDOCUMENTED"}
    \cup OpenStatuses \cup ClosingStatuses

StatusIsOpen(status)    == status \in OpenStatuses
StatusIsClosing(status) == status \in ClosingStatuses

SocketIsInTcpConnectionLifecycle(k) ==
  sr[k] \in {"SYNRECV", "INIT", "SYNSENT"} \cup OpenStatuses \cup ClosingStatuses

SocketIsClosed(k) == sr[k] = "CLOSED"

\* k is the socket the scan of FindUnusedSocket returns.  The scan is one step:
\* the chip never leaves CLOSED by itself, so its reads can be reordered to meet.
FindUnusedSocketReturns(k) ==
  /\ SocketIsClosed(k)
  /\ \A j \in Socks : j < k => ~SocketIsClosed(j)

-----------------------------------------------------------------------------
(* Commands given to the chip. *)

\* Mutant: _server_port is not looked at.
CanInitializeAnyPort(k, port) == SocketIsClosed(k)

\* The test InitializeTcpListenerSocket makes before it touches the socket.
CanInitializeTcpListener(k, port) ==
  /\ SocketIsClosed(k)
  /\ serverPort[k] \in {port, 0}

\* ::socket and ::listen report no errors: whatever status they leave behind,
\* the port is recorded and the method returns true.
InitializeTcpListenerSocket(k, port) ==
  /\ \E status \in ListenOutcomes : sr' = [sr EXCEPT ![k] = status]
  /\ rx' = [rx EXCEPT ![k] = FALSE]
  /\ serverPort' = [serverPort EXCEPT ![k] = port]

\* The status the DISCON command leads to: it sends a FIN on an open
\* connection and does nothing on a socket that has none.
AfterDisconnect(status) ==
  CASE status = "ESTABLISHED" -> "FIN_WAIT"
    [] status = "CLOSE_WAIT"  -> "LAST_ACK"
    [] OTHER                  -> status

DisconnectSocket(k) ==
  /\ sr' = [sr EXCEPT ![k] = AfterDisconnect(@)]
  /\ UNCHANGED <<rx, serverPort>>

\* Forgets the connection without a packet; _server_port keeps its value.
CloseSocket(k) ==
  /\ sr' = [sr EXCEPT ![k] = "CLOSED"]
  /\ UNCHANGED <<rx, serverPort>>

-----------------------------------------------------------------------------
(* What the chip does by itself, driven by packets and by its own timers.  *)

NetworkMoves ==
  {<<"LISTEN", "UNDOCUMENTED">>, <<"UNDOCUMENTED", "LISTEN">>,
   <<"LISTEN", "SYNRECV">>,      <<"UNDOCUMENTED", "SYNRECV">>,
   <<"SYNRECV", "ESTABLISHED">>, <<"SYNRECV", "CLOSED">>,
   <<"ESTABLISHED", "CLOSE_WAIT">>,
   <<"FIN_WAIT", "CLOSING">>,    <<"FIN_WAIT", "TIME_WAIT">>,
   <<"CLOSING", "TIME_WAIT">>}
    \cup (OpenStatuses \cup ClosingStatuses) \X {"CLOSED"}

NetworkMovesTo(k, status) ==
  /\ <<sr[k], status>> \in NetworkMoves
  /\ sr' = [sr EXCEPT ![k] = status]
  /\ UNCHANGED <<rx, serverPort>>

DataArrives(k) ==
  /\ sr[k] = "ESTABLISHED"
  /\ rx' = [rx EXCEPT ![k] = TRUE]
  /\ UNCHANGED <<sr, serverPort>>

NetInit ==
  /\ sr = [k \in Socks |-> "CLOSED"]
  /\ rx = [k \in Socks |-> FALSE]
  /\ serverPort = [k \in Socks |-> 0]
=============================================================================
