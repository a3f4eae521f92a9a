---------------------------- MODULE EthernetServer ----------------------------
(***************************************************************************)
(* The EthernetServer and EthernetClient of the host                       *)
(* (extras/host/ethernet5500/ethernet_server.cpp, ethernet_client.cpp)     *)
(* over HostNetwork: a sketch has one EthernetServer for each port and, as *)
(* verify_host_network does, calls available() of one after the other and  *)
(* uses the EthernetClient it gets, if its number is a socket's.           *)
(*                                                                         *)
(* The sketch is one thread, but the peers act between any two calls of    *)
(* HostNetwork that accept() and available() make; call says where in them *)
(* the sketch is:                                                          *)
(*   "accept"     the loop of accept(), at sock;                           *)
(*   "pending"    before AcceptConnection of a socket that listened;       *)
(*   "stop"       before stop() of a half-closed connection;               *)
(*   "available"  the loop of available(), at sock;                        *)
(*   "again"      before its second status();                              *)
(*   "count"      before client.available();                               *)
(*   "idle"       in neither.                                              *)
(***************************************************************************)
EXTENDS HostNetwork, FiniteSets

VARIABLES
  serverPort,  \* EthernetClass::_server_port
  call,        \* where the sketch is, for which port_, and listening
  client,      \* sock_ of the EthernetClient that available() returned last
  madeTo       \* the port each connection was made to

sketchVars == <<serverPort, call, client>>
allVars == <<vars, sketchVars, madeTo>>

MAX_SOCK_NUM == kMaxSockets
Idle == [at |-> "idle", port |-> 0, sock |-> 0, listening |-> FALSE]

EthernetInit ==
  /\ Init
  /\ serverPort = [k \in Socks |-> 0]
  /\ call = Idle
  /\ client = MAX_SOCK_NUM
  /\ madeTo = [k \in Socks |-> 0]

Goto(label) == call' = [call EXCEPT !.at = label]
NextSocket(loop) == call' = [call EXCEPT !.at = loop, !.sock = @ + 1]

At(label) == running = "up" /\ call.at = label /\ call.sock < MAX_SOCK_NUM

\* The socket was last used for the server's port.
Mine == serverPort[call.sock] = call.port

-----------------------------------------------------------------------------
(* EthernetServer.                                                         *)

\* Mutant: the port of a socket is set once.
BeginKeepsPort(port) ==
  \/ \E k \in Socks :
       /\ FindUnusedSocketReturns(k)
       /\ InitializeTcpListener(k, port)
       /\ serverPort' = IF serverPort[k] = 0 /\ info'[k].tcpPort = port
                        THEN [serverPort EXCEPT ![k] = port] ELSE serverPort
  \/ /\ \A k \in Socks : ChecksOfFields(k) /\ ~IsUnused(k)
     /\ UNCHANGED <<vars, serverPort>>
  \/ FindUnusedSocketAborts /\ UNCHANGED serverPort

\* begin(), which a failed CHECK of FindUnusedSocket may end.
BeginListening(port) ==
  \/ \E k \in Socks :
       /\ FindUnusedSocketReturns(k)
       /\ InitializeTcpListener(k, port)
       /\ serverPort' = IF info'[k].tcpPort = port
                        THEN [serverPort EXCEPT ![k] = port] ELSE serverPort
  \/ /\ \A k \in Socks : ChecksOfFields(k) /\ ~IsUnused(k)
     /\ UNCHANGED <<vars, serverPort>>
  \/ FindUnusedSocketAborts /\ UNCHANGED serverPort

\* setup() calls begin().
Begin(port) ==
  /\ running = "up"
  /\ call.at = "idle"
  /\ \A k \in Socks : serverPort[k] # port
  /\ BeginListening(port)
  /\ UNCHANGED <<call, client>>

Available(port) ==
  /\ running = "up"
  /\ call.at = "idle"
  /\ call' = [Idle EXCEPT !.at = "accept", !.port = port]
  /\ client' = MAX_SOCK_NUM
  /\ UNCHANGED <<vars, serverPort>>

\* A status() that ends the process.
StatusAborts ==
  /\ At("accept") \/ At("available") \/ At("again")
  /\ Mine
  /\ SocketStatusAborts(call.sock)
  /\ UNCHANGED sketchVars

Skip(loop) ==
  /\ At(loop)
  /\ ~Mine
  /\ NextSocket(loop)
  /\ UNCHANGED <<vars, serverPort, client>>

\* Mutant: a socket that listens does not count.
AcceptVisitsForgetting ==
  /\ At("accept") /\ Mine
  /\ \/ SocketStatusReturns(call.sock, "LISTEN") /\ Goto("pending")
     \/ SocketStatusReturns(call.sock, "CLOSE_WAIT") /\ Goto("stop")
     \/ /\ \E status \in {"CLOSED", "ESTABLISHED"} : SocketStatusReturns(call.sock, status)
        /\ NextSocket("accept")
  /\ UNCHANGED <<serverPort, client>>

\* Mutant: an established connection is stopped as well.
AcceptVisitsStopping ==
  /\ At("accept") /\ Mine
  /\ \/ /\ SocketStatusReturns(call.sock, "LISTEN")
        /\ call' = [call EXCEPT !.at = "pending", !.listening = TRUE]
     \/ /\ \E status \in {"CLOSE_WAIT", "ESTABLISHED"} :
             SocketStatusReturns(call.sock, status)
        /\ Goto("stop")
     \/ SocketStatusReturns(call.sock, "CLOSED") /\ NextSocket("accept")
  /\ UNCHANGED <<serverPort, client>>

\* One round of the loop of accept().  A half-closed connection is one that is not
\* readable any more, of which client.available() returns 0.
AcceptVisits ==
  /\ At("accept") /\ Mine
  /\ \/ /\ SocketStatusReturns(call.sock, "LISTEN")
        /\ call' = [call EXCEPT !.at = "pending", !.listening = TRUE]
     \/ SocketStatusReturns(call.sock, "CLOSE_WAIT") /\ Goto("stop")
     \/ /\ \E status \in {"CLOSED", "ESTABLISHED"} : SocketStatusReturns(call.sock, status)
        /\ NextSocket("accept")
  /\ UNCHANGED <<serverPort, client>>

\* The socket listened a moment ago; ::accept may fail, whether or not a
\* connection waits.
AcceptPending ==
  /\ At("pending")
  /\ AcceptConnection(call.sock) \/ UNCHANGED vars
  /\ NextSocket("accept")
  /\ UNCHANGED <<serverPort, client>>

Stop ==
  /\ At("stop")
  /\ CloseSocket(call.sock)
  /\ NextSocket("accept")
  /\ UNCHANGED <<serverPort, client>>

AcceptEnds ==
  /\ running = "up"
  /\ call.at = "accept" /\ call.sock = MAX_SOCK_NUM
  /\ \/ ~call.listening /\ BeginListening(call.port)
     \/ call.listening /\ UNCHANGED <<vars, serverPort>>
  /\ call' = [call EXCEPT !.at = "available", !.sock = 0, !.listening = FALSE]
  /\ UNCHANGED client

\* Mutant: the client is returned if its connection is open.
AvailableReturnsOpen ==
  /\ At("available") /\ Mine
  /\ IsConnected(call.sock)
  /\ client' = call.sock
  /\ call' = Idle
  /\ UNCHANGED <<vars, serverPort>>

\* One round of the loop of available().  The second status() is called if the
\* first is not ESTABLISHED; CLOSED and CLOSE_WAIT stay as they are meanwhile, and
\* a half-closed connection has nothing to read.
AvailableVisits ==
  /\ At("available") /\ Mine
  /\ \/ SocketStatusReturns(call.sock, "ESTABLISHED") /\ Goto("count")
     \/ SocketStatusReturns(call.sock, "LISTEN") /\ Goto("again")
     \/ /\ \E status \in {"CLOSED", "CLOSE_WAIT"} : SocketStatusReturns(call.sock, status)
        /\ NextSocket("available")
  /\ UNCHANGED <<serverPort, client>>

\* Only CLOSE_WAIT would count now.
AvailableVisitsAgain ==
  /\ At("again")
  /\ \E status \in {"LISTEN", "ESTABLISHED", "CLOSE_WAIT"} :
       SocketStatusReturns(call.sock, status)
  /\ NextSocket("available")
  /\ UNCHANGED <<serverPort, client>>

\* client.available(); anything but 0 counts, -1 too.
AvailableReturns ==
  /\ At("count")
  /\ AvailableBytes(call.sock)
  /\ IF RecvOutcome(peer[call.sock]) \in {"data", "ECONNRESET"}
     THEN client' = call.sock /\ call' = Idle
     ELSE NextSocket("available") /\ UNCHANGED client
  /\ UNCHANGED serverPort

\* Mutant: "none" is one too large.
AvailableReturnsBeyond ==
  /\ running = "up"
  /\ call.at = "available" /\ call.sock = MAX_SOCK_NUM
  /\ call' = Idle
  /\ client' = MAX_SOCK_NUM + 1
  /\ UNCHANGED <<vars, serverPort>>

\* EthernetClient(MAX_SOCK_NUM).
AvailableReturnsNone ==
  /\ running = "up"
  /\ call.at = "available" /\ call.sock = MAX_SOCK_NUM
  /\ call' = Idle
  /\ client' = MAX_SOCK_NUM
  /\ UNCHANGED <<vars, serverPort>>

Server ==
  \/ \E port \in TcpPorts : Begin(port) \/ Available(port)
  \/ StatusAborts \/ Skip("accept") \/ Skip("available")
  \/ AcceptVisits \/ AcceptPending \/ Stop \/ AcceptEnds
  \/ AvailableVisits \/ AvailableVisitsAgain \/ AvailableReturns
  \/ AvailableReturnsNone

-----------------------------------------------------------------------------
(* EthernetClient and EthernetClass, between two calls of available().     *)

\* read, peek, available, write and stop of the client returned last.
ClientCalls ==
  /\ call.at = "idle"
  /\ client < MAX_SOCK_NUM
  /\ \/ Recv(client) \/ Peek(client) \/ AvailableBytes(client) \/ Send(client)
     \/ CloseSocket(client)
  /\ UNCHANGED sketchVars

\* softreset() and hardreset() close every socket.
CloseAllSockets ==
  /\ running = "up"
  /\ call.at = "idle"
  /\ info' = [k \in Socks |-> Unused]
  /\ open' = {}
  /\ backlog' = [k \in Socks |-> 0]
  /\ peer' = [k \in Socks |-> NoPeer]
  /\ got' = [k \in Socks |-> <<>>]
  /\ UNCHANGED <<running, sketchVars>>

Peers == (\E k \in Socks : PeerConnects(k) \/ PeerActs(k)) /\ UNCHANGED sketchVars

\* A connection was made to the port its listener had.
RecordPort ==
  madeTo' = [k \in Socks |->
               IF IsListening(k) /\ HaveFd(info'[k].connection)
               THEN info[k].tcpPort ELSE madeTo[k]]

EthernetNext ==
  (Server \/ ClientCalls \/ CloseAllSockets \/ Peers) /\ RecordPort

EthernetSpec == EthernetInit /\ [][EthernetNext]_allVars

-----------------------------------------------------------------------------
(* Properties.                                                             *)

\* The type of every variable that is not HostNetwork's.
SketchTypeOK ==
  /\ serverPort \in [Socks -> TcpPorts \cup {0}]
  /\ call \in [at : {"idle", "accept", "pending", "stop", "available", "again", "count"},
               port : TcpPorts \cup {0}, sock : 0 .. MAX_SOCK_NUM, listening : BOOLEAN]
  /\ client \in 0 .. MAX_SOCK_NUM
  /\ madeTo \in [Socks -> TcpPorts \cup {0}]

\* accept() starts to listen only where nothing listens to its port: of the few
\* sockets no port ever takes two listeners, in whatever order connections come,
\* are accepted by status() or by accept() itself, and end.
OneListener ==
  \A port \in TcpPorts :
    Cardinality({k \in Socks : IsListening(k) /\ info[k].tcpPort = port}) <= 1

\* _server_port tells the servers' sockets apart, although it outlives the listener
\* and the connection it was set for: a connection belongs to the server of the
\* port it was made to.
ServesItsPort ==
  \A k \in Socks :
    /\ IsListening(k) /\ info[k].tcpPort > 0 => serverPort[k] = info[k].tcpPort
    /\ IsConnected(k) => serverPort[k] = madeTo[k]

\* accept() stops a connection only when its peer has finished, or the sketch was
\* told that it failed, and all its data has been read.
StopsOnlyFinished ==
  call.at = "stop" =>
    /\ IsConnected(call.sock)
    /\ peer[call.sock].fin \/ peer[call.sock].error = "reported"
    /\ peer[call.sock].taken = peer[call.sock].sent

\* available() "Returns an EthernetClient ... for which there is data available",
\* to the port it is for.
ReturnsReadable ==
  [][client' < MAX_SOCK_NUM /\ client' # client =>
       /\ IsConnected(client') /\ serverPort[client'] = call.port
       /\ peer[client'].taken < peer[client'].sent]_allVars
=============================================================================
