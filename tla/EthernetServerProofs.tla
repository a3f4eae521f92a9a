------------------------- MODULE EthernetServerProofs -------------------------
(***************************************************************************)
(* The invariants of EthernetServer, for every number of sockets, every    *)
(* set of ports and every bound.                                           *)
(*                                                                         *)
(* What HostNetworkProofs shows of each method of HostNetwork holds here   *)
(* as well, so HostInv is part of the inductive invariant.  Only begin()   *)
(* makes a listener; every other step leaves each listener alone or closes *)
(* it (NoNewListener).                                                     *)
(***************************************************************************)
EXTENDS EthernetServer, HostNetworkProofs

-----------------------------------------------------------------------------
(* The inductive invariant.                                                *)

ListensTo(k, port) == IsListening(k) /\ info[k].tcpPort = port

\* Two sockets do not listen to the same port.
UniqueListeners ==
  \A port \in TcpPorts : \A j, k \in Socks :
    ListensTo(j, port) /\ ListensTo(k, port) => j = k

\* Where the sketch is in accept() or available(), and what it has seen of the
\* socket it is at.
CallInv ==
  /\ call.at # "idle" => call.port \in TcpPorts
  /\ call.at \in {"pending", "stop", "again", "count"} => call.sock \in Socks
  /\ call.at = "pending" => call.listening
  /\ call.at = "stop" => IsConnected(call.sock) /\ ~info[call.sock].canRead
  /\ call.at = "count" => /\ IsConnected(call.sock) /\ Mine
                          /\ peer[call.sock].taken < peer[call.sock].sent

\* As long as accept() has seen no listener, no socket it has passed listens.
LoopInv ==
  call.at \in {"accept", "pending", "stop"} /\ ~call.listening =>
    \A j \in Socks : j < call.sock => ~ListensTo(j, call.port)

PortsInv == ServesItsPort /\ UniqueListeners

EthernetInv == HostInv /\ SketchTypeOK /\ PortsInv /\ CallInv /\ LoopInv

-----------------------------------------------------------------------------
(* What the methods of HostNetwork do to listeners and connections.        *)

\* Every socket keeps its listener or loses it, and is connected only if it was,
\* or if it listened to a port.
NoNewListener ==
  \A j \in Socks :
    /\ HaveFd(info'[j].listener) => IsListening(j) /\ info'[j].tcpPort = info[j].tcpPort
    /\ HaveFd(info'[j].connection) => IsConnected(j) \/ ListeningInfo(info[j])

\* It is enough to look at the socket that is changed.
LEMMA OneSocketChanged ==
  ASSUME HostInv, NEW k \in Socks, NEW i, info' = [info EXCEPT ![k] = i],
         HaveFd(i.listener) => IsListening(k) /\ i.tcpPort = info[k].tcpPort,
         HaveFd(i.connection) => IsConnected(k) \/ ListeningInfo(info[k])
  PROVE  NoNewListener
<1>1. \A j \in Socks : info'[j] = IF j = k THEN i ELSE info[j]
  BY DEF HostInv
<1> QED
  BY <1>1 DEF NoNewListener, IsListening, IsConnected

\* Steps that leave the sockets alone.
LEMMA InfoUnchanged ==
  ASSUME UNCHANGED info
  PROVE  NoNewListener
  BY DEF NoNewListener, IsListening, IsConnected

\* CloseSocket makes no listener and leaves none.
LEMMA CloseSocketCloses ==
  ASSUME HostInv, NEW k \in Socks, CloseSocket(k)
  PROVE  NoNewListener /\ ~HaveFd(info'[k].listener)
<1> DEFINE u == WithoutListener(WithoutConnection(info[k]))
<1>1. UnusedInfo(u)
  BY ClosedFields
<1>2. info' = [info EXCEPT ![k] = u]
  BY DEF CloseSocket
<1> HIDE DEF u
<1>3. ~HaveFd(u.listener) /\ ~HaveFd(u.connection)
  BY <1>1, OfSocket DEF UnusedInfo
<1>4. info'[k] = u
  BY <1>2 DEF HostInv
<1> QED
  BY <1>2, <1>3, <1>4, OneSocketChanged

\* A socket that accepts has a connection instead of its listener.
LEMMA AcceptedConnects ==
  ASSUME HostInv, NEW k \in Socks, CanAccept(k), NEW p, NEW readable, Accepted(k, p, readable)
  PROVE  /\ NoNewListener
         /\ HaveFd(info'[k].connection) /\ info'[k].canRead = readable /\ peer'[k] = p
<1> DEFINE fd == NewFd(open)
           i == [WithoutListener(info[k]) EXCEPT
                   !.connection = fd, !.canRead = readable, !.canWrite = TRUE]
<1>1. HaveFd(fd)
  BY NewFdIsFree, OfSocket DEF HostInv
<1>2. info' = [info EXCEPT ![k] = i] /\ peer' = [peer EXCEPT ![k] = p]
  BY DEF Accepted
<1>3. i.listener = -1 /\ i.connection = fd /\ i.canRead = readable
  BY OfSocket DEF WithoutListener, Info
<1> HIDE DEF i, fd
<1>4. ~HaveFd(i.listener) /\ ListeningInfo(info[k])
  BY <1>3, OfSocket, AcceptsFromListener
<1>5. info'[k] = i /\ peer'[k] = p
  BY <1>2 DEF HostInv
<1> QED
  BY <1>1, <1>2, <1>3, <1>4, <1>5, OneSocketChanged

\* IsConnectionHalfClosed answers false only if there is data to read, and after
\* the answer true the connection is not readable.
LEMMA HalfClosedReads ==
  ASSUME HostInv, NEW k \in Socks, NEW answer \in BOOLEAN, IsConnectionHalfClosed(k, answer)
  PROVE  /\ NoNewListener
         /\ HaveFd(info'[k].connection)
         /\ answer => ~info'[k].canRead
         /\ ~answer => peer'[k].taken < peer'[k].sent
<1>1. IsConnected(k)
  BY DEF IsConnectionHalfClosed
<1>2. CASE UNCHANGED vars /\ IF answer THEN ~info[k].canRead
                             ELSE RecvOutcome(peer[k]) = "data"
  <2>1. ~answer => peer[k].taken < peer[k].sent
    BY <1>2, OfSocket DEF RecvOutcome, Peer, Errors
  <2> QED
    BY <1>1, <1>2, <2>1, InfoUnchanged DEF vars, IsConnected
<1>3. CASE answer = TRUE /\ info' = [info EXCEPT ![k].canRead = FALSE]
  <2> DEFINE i == [info[k] EXCEPT !.canRead = FALSE]
  <2>1. info' = [info EXCEPT ![k] = i]
    BY <1>3
  <2>2. /\ i.listener = info[k].listener /\ i.tcpPort = info[k].tcpPort
        /\ i.connection = info[k].connection /\ i.canRead = FALSE
    BY OfSocket DEF Info
  <2> HIDE DEF i
  <2>3. info'[k] = i
    BY <2>1 DEF HostInv
  <2> QED
    BY <1>1, <1>3, <2>1, <2>2, <2>3, OneSocketChanged DEF IsListening, IsConnected
<1> QED
  BY <1>2, <1>3 DEF IsConnectionHalfClosed

\* What each status tells of the socket.
LEMMA StatusTells ==
  ASSUME HostInv, NEW k \in Socks, NEW status, SocketStatusReturns(k, status)
  PROVE  /\ NoNewListener
         /\ status = "CLOSED" => ~HaveFd(info'[k].listener)
         /\ status = "ESTABLISHED" => /\ HaveFd(info'[k].connection)
                                      /\ peer'[k].taken < peer'[k].sent
         /\ status = "CLOSE_WAIT" => HaveFd(info'[k].connection) /\ ~info'[k].canRead
<1>1. CASE status = "CLOSED" /\ IsUnused(k) /\ UNCHANGED vars
  BY <1>1, InfoUnchanged DEF vars, IsUnused, IsListening
<1>2. CASE status = "LISTEN" /\ UNCHANGED vars
  BY <1>2, InfoUnchanged DEF vars
<1>3. CASE status \in {"ESTABLISHED", "CLOSE_WAIT"} /\ SocketStatusAccepts(k, status)
  <2>1. PICK p \in Waiting :
          /\ CanAccept(k)
          /\ RecvOutcome(p) = IF status = "ESTABLISHED" THEN "data" ELSE "eof"
          /\ Accepted(k, p, status = "ESTABLISHED")
    BY <1>3 DEF SocketStatusAccepts
  <2> DEFINE readable == status = "ESTABLISHED"
  <2>2. Accepted(k, p, readable)
    BY <2>1
  <2>3. RecvOutcome(p) = "data" => p.taken < p.sent
    BY DEF Waiting, RecvOutcome
  <2> HIDE DEF readable
  <2>4. /\ NoNewListener
        /\ HaveFd(info'[k].connection) /\ info'[k].canRead = readable /\ peer'[k] = p
    BY <2>1, <2>2, AcceptedConnects
  <2> QED
    BY <1>3, <2>1, <2>3, <2>4 DEF readable
<1>4. CASE status = "ESTABLISHED" /\ IsConnectionHalfClosed(k, FALSE)
  BY <1>4, HalfClosedReads
<1>5. CASE status = "CLOSE_WAIT" /\ IsConnectionHalfClosed(k, TRUE)
  BY <1>5, HalfClosedReads
<1> QED
  BY <1>1, <1>2, <1>3, <1>4, <1>5 DEF SocketStatusReturns

\* Recv makes no listener, and closes the connection at most.
LEMMA RecvCloses ==
  ASSUME HostInv, NEW k \in Socks, AvailableBytes(k) \/ Peek(k) \/ Recv(k)
  PROVE  NoNewListener
<1>1. PICK n, by : RecvInternal(k, n, by)
  BY DEF AvailableBytes, Peek, Recv
<1>2. CASE UNCHANGED info
  BY <1>2, InfoUnchanged
<1>3. CASE info' = [info EXCEPT ![k].canRead = FALSE]
  <2> DEFINE i == [info[k] EXCEPT !.canRead = FALSE]
  <2>1. info' = [info EXCEPT ![k] = i]
    BY <1>3
  <2>2. /\ i.listener = info[k].listener /\ i.tcpPort = info[k].tcpPort
        /\ i.connection = info[k].connection
    BY OfSocket DEF Info
  <2> HIDE DEF i
  <2> QED
    BY <2>1, <2>2, OneSocketChanged DEF IsListening, IsConnected
<1>4. CASE CloseConnectionSocket(k)
  <2> DEFINE i == WithoutConnection(info[k])
  <2>1. info' = [info EXCEPT ![k] = i]
    BY <1>4 DEF CloseConnectionSocket
  <2>2. /\ i.listener = info[k].listener /\ i.tcpPort = info[k].tcpPort
        /\ i.connection = -1
    BY OfSocket DEF Info, WithoutConnection
  <2> HIDE DEF i
  <2>3. ~HaveFd(i.connection)
    BY <2>2, OfSocket
  <2> QED
    BY <2>1, <2>2, <2>3, OneSocketChanged DEF IsListening
<1> QED
  BY <1>1, <1>2, <1>3, <1>4 DEF RecvInternal, vars, Abort

\* What begin() makes of a socket that was unused.
LEMMA BeginMakes ==
  ASSUME HostInv, NEW k \in Socks, NEW port \in TcpPorts, IsUnused(k),
         InitializeTcpListener(k, port)
  PROVE  /\ \A j \in Socks \ {k} : info'[j] = info[j]
         /\ ~HaveFd(info'[k].connection)
         /\ info'[k].tcpPort \in {0, port}
<1> DEFINE u == WithoutListener(WithoutConnection(info[k]))
           fds == (open \ {info[k].connection}) \ {WithoutConnection(info[k]).listener}
<1>1. /\ u \in Info /\ UnusedInfo(u) /\ fds = open \ {Fd(info[k])}
      /\ WithoutConnection(info[k]).listener = info[k].listener
  BY ClosedFields
<1>2. PICK after \in Attempts(u, fds, port) : info' = [info EXCEPT ![k] = after[1]]
  BY <1>1 DEF InitializeTcpListener, IsUnused, IsListening
<1>3. after[1] \in {Listening(u, NewFd(fds), port), u, [u EXCEPT !.listener = NewFd(fds)]}
  BY <1>2 DEF Attempts
<1> HIDE DEF u, fds
<1>4. after[1].connection = -1 /\ after[1].tcpPort \in {0, port}
  BY <1>1, <1>3 DEF Listening, UnusedInfo, Info
<1>5. \A j \in Socks : info'[j] = IF j = k THEN after[1] ELSE info[j]
  BY <1>2 DEF HostInv
<1> QED
  BY <1>4, <1>5, OfSocket

-----------------------------------------------------------------------------
(* Preservation of the invariant.                                          *)

\* A socket that listens has no connection.
LEMMA OneDescriptor ==
  ASSUME NEW i, NEW b, NEW p, NEW g, SocketInv(i, b, p, g), HaveFd(i.listener)
  PROVE  ~HaveFd(i.connection)
  BY DEF SocketInv, HaveFd, UnusedInfo, HalfMadeInfo, ListeningInfo, ConnectedInfo

\* A listener has the port it is asked about, and a socket only one role.
LEMMA RolesOf ==
  ASSUME HostInv, NEW k \in Socks
  PROVE  /\ IsListening(k) => ~IsConnected(k)
         /\ IsListening(k) => info[k].tcpPort = 0 \/ info[k].tcpPort \in TcpPorts
         /\ ListeningInfo(info[k]) => IsListening(k) /\ info[k].tcpPort > 0
         /\ info[k].tcpPort \in TcpPorts \cup {0}
<1>1. /\ SocketInv(info[k], backlog[k], peer[k], got[k]) /\ info[k] \in Info
      /\ ~HaveFd(-1) /\ \A fd \in Fds : HaveFd(fd)
  BY OfSocket
<1>2. ListeningInfo(info[k]) => IsListening(k) /\ info[k].tcpPort > 0
  <2> SUFFICES ASSUME ListeningInfo(info[k])
               PROVE  IsListening(k) /\ info[k].tcpPort > 0
    OBVIOUS
  <2>1. info[k].tcpPort \in Nat \ {0}
    BY TcpPortsAssumption DEF ListeningInfo
  <2> QED
    BY <1>1, <2>1 DEF ListeningInfo, IsListening
<1>3. IsListening(k) => ~IsConnected(k)
  BY <1>1, OneDescriptor DEF IsListening, IsConnected
<1> QED
  BY <1>1, <1>2, <1>3 DEF Info

\* The port a connection was made to is one of the ports.
LEMMA RecordPortType ==
  ASSUME HostInv, SketchTypeOK, RecordPort
  PROVE  madeTo' \in [Socks -> TcpPorts \cup {0}]
  BY RolesOf DEF RecordPort, SketchTypeOK

\* A step without a new listener keeps what is known of the ports.
LEMMA PortsKept ==
  ASSUME EthernetInv, NoNewListener, UNCHANGED serverPort, RecordPort
  PROVE  PortsInv'
<1>1. HostInv /\ ServesItsPort /\ UniqueListeners
  BY DEF EthernetInv, PortsInv
<1>2. ASSUME NEW k \in Socks, HaveFd(info'[k].listener), info'[k].tcpPort > 0
      PROVE  serverPort[k] = info'[k].tcpPort
  BY <1>1, <1>2 DEF NoNewListener, ServesItsPort
<1>3. ASSUME NEW k \in Socks, HaveFd(info'[k].connection)
      PROVE  serverPort[k] = madeTo'[k]
  <2>1. CASE IsConnected(k)
    <3>1. ~IsListening(k)
      BY <1>1, <2>1, RolesOf
    <3>2. madeTo'[k] = madeTo[k]
      BY <3>1 DEF RecordPort
    <3> QED
      BY <1>1, <2>1, <3>2 DEF ServesItsPort
  <2>2. CASE ListeningInfo(info[k])
    <3>1. IsListening(k) /\ info[k].tcpPort > 0
      BY <1>1, <2>2, RolesOf
    <3>2. madeTo'[k] = info[k].tcpPort
      BY <1>3, <3>1 DEF RecordPort
    <3> QED
      BY <1>1, <3>1, <3>2 DEF ServesItsPort
  <2> QED
    BY <1>3, <2>1, <2>2 DEF NoNewListener
<1>4. ServesItsPort'
  BY <1>2, <1>3 DEF ServesItsPort, IsListening, IsConnected
<1>5. UniqueListeners'
  BY <1>1 DEF NoNewListener, UniqueListeners, ListensTo, IsListening
<1> QED
  BY <1>4, <1>5 DEF PortsInv

\* begin() makes a listener for a port that nothing listens to.
LEMMA BeginKeeps ==
  ASSUME EthernetInv, NEW port \in TcpPorts, \A j \in Socks : ~ListensTo(j, port),
         BeginListening(port), RecordPort
  PROVE  HostInv' /\ PortsInv' /\ serverPort' \in [Socks -> TcpPorts \cup {0}]
<1>1. HostInv /\ ServesItsPort /\ UniqueListeners /\ SketchTypeOK
  BY DEF EthernetInv, PortsInv
<1>2. ASSUME NEW k \in Socks, FindUnusedSocketReturns(k), InitializeTcpListener(k, port),
             serverPort' = IF info'[k].tcpPort = port
                           THEN [serverPort EXCEPT ![k] = port] ELSE serverPort
      PROVE  HostInv' /\ PortsInv' /\ serverPort' \in [Socks -> TcpPorts \cup {0}]
  <2>1. HostInv'
    BY <1>1, <1>2, InitializeTcpListenerKeeps
  <2>2. IsUnused(k)
    BY <1>2 DEF FindUnusedSocketReturns
  <2>3. /\ \A j \in Socks \ {k} : info'[j] = info[j]
        /\ ~HaveFd(info'[k].connection)
        /\ info'[k].tcpPort \in {0, port}
    BY <1>1, <1>2, <2>2, BeginMakes
  <2>4. serverPort' \in [Socks -> TcpPorts \cup {0}]
    BY <1>1, <1>2 DEF SketchTypeOK
  <2>5. \A j \in Socks \ {k} : serverPort'[j] = serverPort[j]
    BY <1>1, <1>2 DEF SketchTypeOK
  <2>6. info'[k].tcpPort = port => serverPort'[k] = port
    BY <1>1, <1>2 DEF SketchTypeOK
  <2>7. ASSUME NEW j \in Socks, HaveFd(info'[j].listener), info'[j].tcpPort > 0
        PROVE  serverPort'[j] = info'[j].tcpPort
    BY <1>1, <2>3, <2>5, <2>6, <2>7 DEF ServesItsPort, IsListening
  <2>8. ASSUME NEW j \in Socks, HaveFd(info'[j].connection)
        PROVE  serverPort'[j] = madeTo'[j]
    <3>1. j # k /\ IsConnected(j)
      BY <2>3, <2>8 DEF IsConnected
    <3>2. ~IsListening(j)
      BY <1>1, <3>1, RolesOf
    <3>3. madeTo'[j] = madeTo[j]
      BY <3>2 DEF RecordPort
    <3> QED
      BY <1>1, <2>5, <3>1, <3>3 DEF ServesItsPort
  <2>9. ServesItsPort'
    BY <2>7, <2>8 DEF ServesItsPort, IsListening, IsConnected
  <2>10. UniqueListeners'
    <3> SUFFICES ASSUME NEW other \in TcpPorts, NEW i \in Socks, NEW j \in Socks,
                        HaveFd(info'[i].listener), info'[i].tcpPort = other,
                        HaveFd(info'[j].listener), info'[j].tcpPort = other
                 PROVE  i = j
      BY DEF UniqueListeners, ListensTo, IsListening
    <3>1. CASE i # k /\ j # k
      BY <1>1, <2>3, <3>1 DEF UniqueListeners, ListensTo, IsListening
    <3>2. CASE i = k \/ j = k
      <4>1. other = port
        BY <2>3, <3>2, TcpPortsAssumption
      <4> QED
        BY <2>3, <3>2, <4>1 DEF ListensTo, IsListening
    <3> QED
      BY <3>1, <3>2
  <2> QED
    BY <2>1, <2>4, <2>9, <2>10 DEF PortsInv
<1>3. CASE UNCHANGED <<vars, serverPort>>
  <2>1. HostInv'
    BY <1>1, <1>3, RunningKeeps DEF vars, HostInv
  <2> QED
    BY <1>1, <1>3, <2>1, InfoUnchanged, PortsKept DEF vars, SketchTypeOK
<1>4. CASE FindUnusedSocketAborts /\ UNCHANGED serverPort
  <2>1. Abort
    BY <1>4 DEF FindUnusedSocketAborts
  <2>2. HostInv'
    BY <1>1, <2>1, AbortKeeps
  <2> QED
    BY <1>1, <1>4, <2>1, <2>2, InfoUnchanged, PortsKept DEF Abort, SketchTypeOK
<1> QED
  BY <1>2, <1>3, <1>4 DEF BeginListening

Labels == {"idle", "accept", "pending", "stop", "available", "again", "count"}
Calls == [at : Labels, port : TcpPorts \cup {0}, sock : 0 .. MAX_SOCK_NUM,
          listening : BOOLEAN]

\* What the parts of the invariant say at once.
LEMMA EthernetTypes ==
  ASSUME EthernetInv
  PROVE  /\ HostInv /\ call \in Calls /\ client \in 0 .. MAX_SOCK_NUM
         /\ serverPort \in [Socks -> TcpPorts \cup {0}]
         /\ CallInv /\ LoopInv /\ ServesItsPort /\ UniqueListeners
         /\ At("accept") \/ At("pending") \/ At("stop") \/ At("available")
              \/ At("again") \/ At("count") => call.sock \in Socks /\ call.sock + 1 \in 0 .. MAX_SOCK_NUM
<1>1. HostInv /\ CallInv /\ LoopInv /\ ServesItsPort /\ UniqueListeners
  BY DEF EthernetInv, PortsInv
<1>2. /\ call \in Calls /\ client \in 0 .. MAX_SOCK_NUM
      /\ serverPort \in [Socks -> TcpPorts \cup {0}]
  BY DEF EthernetInv, SketchTypeOK, Calls, Labels
<1>3. call.sock \in 0 .. MAX_SOCK_NUM
  BY <1>2 DEF Calls
<1>4. call.sock < MAX_SOCK_NUM => call.sock \in Socks /\ call.sock + 1 \in 0 .. MAX_SOCK_NUM
  BY <1>3, SocketsAssumption DEF MAX_SOCK_NUM, Socks
<1> QED
  BY <1>1, <1>2, <1>4 DEF At

\* The parts of the invariant together.
LEMMA PartsKeep ==
  ASSUME EthernetInv, HostInv', PortsInv', RecordPort,
         serverPort' \in [Socks -> TcpPorts \cup {0}],
         call' \in Calls, client' \in 0 .. MAX_SOCK_NUM, CallInv', LoopInv'
  PROVE  EthernetInv'
<1>1. madeTo' \in [Socks -> TcpPorts \cup {0}]
  BY RecordPortType DEF EthernetInv
<1>2. SketchTypeOK'
  BY <1>1 DEF SketchTypeOK, Calls, Labels, MAX_SOCK_NUM, Socks
<1> QED
  BY <1>2 DEF EthernetInv

\* A step without a new listener.
LEMMA CallKeeps ==
  ASSUME EthernetInv, HostInv', NoNewListener, UNCHANGED serverPort, RecordPort,
         call' \in Calls, client' \in 0 .. MAX_SOCK_NUM, CallInv', LoopInv'
  PROVE  EthernetInv'
  BY PortsKept, EthernetTypes, PartsKeep

\* A step without a new listener after which the sketch is not in accept().
LEMMA OutsideAccept ==
  ASSUME call'.at \notin {"accept", "pending", "stop"}
  PROVE  LoopInv'
  BY DEF LoopInv

\* accept() stays at its socket, or goes on to the next after one that does not
\* listen to its port, or after it has seen a listener.
LEMMA InsideAccept ==
  ASSUME EthernetInv, NoNewListener, call.at \in {"accept", "pending", "stop"},
         call'.port = call.port,
         call'.listening \/ (call'.listening = call.listening),
         \/ call'.sock = call.sock
         \/ /\ call.sock \in Socks /\ call'.sock = call.sock + 1
            /\ call'.listening \/ ~(HaveFd(info'[call.sock].listener)
                                    /\ info'[call.sock].tcpPort = call.port)
  PROVE  LoopInv'
<1> SUFFICES ASSUME ~call'.listening, NEW j \in Socks, j < call'.sock,
                    HaveFd(info'[j].listener), info'[j].tcpPort = call.port
             PROVE  FALSE
  BY DEF LoopInv, ListensTo, IsListening
<1>1. ListensTo(j, call.port)
  BY DEF NoNewListener, ListensTo
<1>2. ~call.listening
  OBVIOUS
<1>3. ~(j < call.sock)
  BY <1>1, <1>2, EthernetTypes DEF LoopInv
<1>4. j = call.sock
  <2>1. call'.sock = call.sock + 1 /\ call.sock \in Socks
    BY <1>3
  <2>2. j \in Int /\ call.sock \in Int
    BY <2>1, SocketsAssumption DEF Socks
  <2>3. j < call.sock + 1
    BY <2>1
  <2> QED
    BY <1>3, <2>2, <2>3
<1> QED
  BY <1>3, <1>4

\* Where Goto and NextSocket lead.
LEMMA GotoFields ==
  ASSUME call \in Calls, NEW label \in Labels, Goto(label)
  PROVE  /\ call' \in Calls /\ call'.at = label /\ call'.port = call.port
         /\ call'.sock = call.sock /\ call'.listening = call.listening
  BY DEF Goto, Calls

\* The next round of a loop.
LEMMA NextSocketFields ==
  ASSUME call \in Calls, NEW loop \in Labels, call.sock + 1 \in 0 .. MAX_SOCK_NUM,
         NextSocket(loop)
  PROVE  /\ call' \in Calls /\ call'.at = loop /\ call'.port = call.port
         /\ call'.sock = call.sock + 1 /\ call'.listening = call.listening
  BY DEF NextSocket, Calls

\* At the head of a loop nothing is known of a socket.
LEMMA LoopHead ==
  ASSUME CallInv, call.at # "idle", call'.at \in {"accept", "available"},
         call'.port = call.port
  PROVE  CallInv'
  BY DEF CallInv

\* Outside of accept() and available().
LEMMA IdleKeeps ==
  ASSUME call'.at = "idle"
  PROVE  CallInv' /\ LoopInv'
  BY DEF CallInv, LoopInv

\* begin() is called for a port without a listener.
LEMMA BeginStep ==
  ASSUME EthernetInv, NEW port \in TcpPorts, Begin(port), RecordPort
  PROVE  EthernetInv'
<1>1. \A j \in Socks : ~ListensTo(j, port)
  <2>1. port \in Nat \ {0}
    BY TcpPortsAssumption
  <2> QED
    BY <2>1, EthernetTypes DEF Begin, ServesItsPort, ListensTo
<1>2. HostInv' /\ PortsInv' /\ serverPort' \in [Socks -> TcpPorts \cup {0}]
  BY <1>1, BeginKeeps DEF Begin
<1>3. call' = call /\ call'.at = "idle" /\ client' = client
  BY DEF Begin
<1> QED
  BY <1>2, <1>3, EthernetTypes, IdleKeeps, PartsKeep

\* available() starts with accept() at the first socket.
LEMMA AvailableStep ==
  ASSUME EthernetInv, NEW port \in TcpPorts, Available(port), RecordPort
  PROVE  EthernetInv'
<1>1. UNCHANGED vars /\ UNCHANGED serverPort /\ client' = MAX_SOCK_NUM
  BY DEF Available
<1>2. /\ call'.at = "accept" /\ call'.port = port /\ call'.sock = 0
      /\ call'.listening = FALSE /\ call' \in Calls
  <2>1. 0 \in 0 .. MAX_SOCK_NUM
    BY SocketsAssumption DEF MAX_SOCK_NUM
  <2>2. Idle \in Calls /\ Idle.sock = 0 /\ Idle.listening = FALSE
    BY <2>1 DEF Idle, Calls, Labels
  <2>3. call' = [Idle EXCEPT !.at = "accept", !.port = port]
    BY DEF Available
  <2> QED
    BY <2>2, <2>3 DEF Calls, Labels
<1>3. HostInv'
  BY <1>1, EthernetTypes, RunningKeeps DEF vars, HostInv
<1>4. CallInv'
  BY <1>2 DEF CallInv
<1>5. LoopInv'
  BY <1>2, SocketsAssumption DEF LoopInv, Socks
<1>6. client' \in 0 .. MAX_SOCK_NUM
  BY <1>1, SocketsAssumption DEF MAX_SOCK_NUM
<1> QED
  BY <1>1, <1>2, <1>3, <1>4, <1>5, <1>6, InfoUnchanged, CallKeeps DEF vars

\* The process ends, or nothing happens to the sockets and the sketch.
LEMMA SketchUnchanged ==
  ASSUME EthernetInv, UNCHANGED <<info, peer, serverPort, call>>
  PROVE  CallInv' /\ LoopInv'
  BY EthernetTypes DEF CallInv, LoopInv, ListensTo, IsListening, IsConnected, Mine

\* A status query of either loop fails a CHECK.
LEMMA StatusAbortsStep ==
  ASSUME EthernetInv, StatusAborts, RecordPort
  PROVE  EthernetInv'
<1>1. call.sock \in Socks /\ SocketStatusAborts(call.sock) /\ UNCHANGED sketchVars
  BY EthernetTypes DEF StatusAborts
<1>2. HostInv' /\ UNCHANGED <<info, peer>>
  BY <1>1, EthernetTypes, SocketStatusAbortsKeeps
     DEF SocketStatusAborts, HalfClosedCheckFails, Abort
<1>3. NoNewListener
  BY <1>2, InfoUnchanged
<1>4. UNCHANGED serverPort /\ call' = call /\ client' = client
  BY <1>1 DEF sketchVars
<1> QED
  BY <1>2, <1>3, <1>4, EthernetTypes, SketchUnchanged, CallKeeps

\* Either loop passes a socket recorded for another port.
LEMMA SkipStep ==
  ASSUME EthernetInv, NEW loop \in {"accept", "available"}, Skip(loop), RecordPort
  PROVE  EthernetInv'
<1>1. /\ call.at = loop /\ call.sock \in Socks /\ call.sock + 1 \in 0 .. MAX_SOCK_NUM
      /\ call \in Calls /\ CallInv
  BY EthernetTypes DEF Skip, At
<1>2. loop \in Labels /\ NextSocket(loop)
  BY DEF Skip, Labels
<1>3. /\ call' \in Calls /\ call'.at = loop /\ call'.port = call.port
      /\ call'.sock = call.sock + 1 /\ call'.listening = call.listening
  BY <1>1, <1>2, NextSocketFields
<1>4. /\ UNCHANGED vars /\ UNCHANGED serverPort /\ client' = client
      /\ serverPort[call.sock] # call.port
  BY DEF Skip, Mine
<1>5. HostInv' /\ NoNewListener
  BY <1>4, EthernetTypes, RunningKeeps, InfoUnchanged DEF vars, HostInv
<1>6. CallInv'
  BY <1>1, <1>3, LoopHead
<1>7. LoopInv'
  <2>1. CASE loop = "available"
    BY <1>3, <2>1, OutsideAccept
  <2>2. CASE loop = "accept"
    <3>1. call.port \in Nat \ {0}
      BY <1>1, <2>2, TcpPortsAssumption DEF CallInv
    <3>2. ~(HaveFd(info[call.sock].listener) /\ info[call.sock].tcpPort = call.port)
      BY <1>1, <1>4, <3>1, EthernetTypes DEF ServesItsPort, IsListening
    <3>3. info' = info
      BY <1>4 DEF vars
    <3> QED
      BY <1>1, <1>3, <1>5, <2>2, <3>2, <3>3, InsideAccept
  <2> QED
    BY <2>1, <2>2
<1> QED
  BY <1>3, <1>4, <1>5, <1>6, <1>7, EthernetTypes, CallKeeps

\* accept() reads the status of a socket recorded for its port.
LEMMA AcceptVisitsStep ==
  ASSUME EthernetInv, AcceptVisits, RecordPort
  PROVE  EthernetInv'
<1> DEFINE k == call.sock
<1>1. /\ k \in Socks /\ k + 1 \in 0 .. MAX_SOCK_NUM /\ call.at = "accept"
      /\ call \in Calls /\ CallInv /\ HostInv
  BY EthernetTypes DEF AcceptVisits, At
<1>2. PICK status : /\ SocketStatusReturns(k, status)
                    /\ \/ /\ status = "LISTEN"
                          /\ call' = [call EXCEPT !.at = "pending", !.listening = TRUE]
                       \/ status = "CLOSE_WAIT" /\ Goto("stop")
                       \/ status \in {"CLOSED", "ESTABLISHED"} /\ NextSocket("accept")
  BY DEF AcceptVisits
<1>3. HostInv' /\ NoNewListener
  BY <1>1, <1>2, SocketStatusReturnsKeeps, StatusTells
<1>4. UNCHANGED serverPort /\ client' = client /\ call.port \in TcpPorts
  BY <1>1 DEF AcceptVisits, CallInv
<1>5. CASE status = "LISTEN" /\ call' = [call EXCEPT !.at = "pending", !.listening = TRUE]
  <2>1. /\ call' \in Calls /\ call'.at = "pending" /\ call'.port = call.port
        /\ call'.sock = k /\ call'.listening = TRUE
    BY <1>1, <1>5 DEF Calls, Labels
  <2>2. CallInv'
    BY <1>1, <1>4, <2>1 DEF CallInv, Socks
  <2>3. LoopInv'
    BY <2>1 DEF LoopInv
  <2> QED
    BY <1>3, <1>4, <2>1, <2>2, <2>3, EthernetTypes, CallKeeps
<1>6. CASE status = "CLOSE_WAIT" /\ Goto("stop")
  <2>1. /\ call' \in Calls /\ call'.at = "stop" /\ call'.port = call.port
        /\ call'.sock = k /\ call'.listening = call.listening
    BY <1>1, <1>6, GotoFields DEF Labels
  <2>2. HaveFd(info'[k].connection) /\ ~info'[k].canRead
    BY <1>1, <1>2, <1>6, StatusTells
  <2>3. CallInv'
    BY <1>1, <1>4, <2>1, <2>2 DEF CallInv, IsConnected, Socks
  <2>4. LoopInv'
    BY <1>1, <1>3, <2>1, InsideAccept
  <2> QED
    BY <1>3, <1>4, <2>1, <2>3, <2>4, EthernetTypes, CallKeeps
<1>7. CASE status \in {"CLOSED", "ESTABLISHED"} /\ NextSocket("accept")
  <2>1. /\ call' \in Calls /\ call'.at = "accept" /\ call'.port = call.port
        /\ call'.sock = k + 1 /\ call'.listening = call.listening
    BY <1>1, <1>7, NextSocketFields DEF Labels
  <2>2. ~HaveFd(info'[k].listener)
    <3>1. CASE status = "CLOSED"
      BY <1>1, <1>2, <3>1, StatusTells
    <3>2. CASE status = "ESTABLISHED"
      <4>1. HaveFd(info'[k].connection)
        BY <1>1, <1>2, <3>2, StatusTells
      <4>2. SocketInv(info'[k], backlog'[k], peer'[k], got'[k])
        BY <1>1, <1>3 DEF HostInv, Socks
      <4> QED
        BY <4>1, <4>2, OneDescriptor
    <3> QED
      BY <1>7, <3>1, <3>2
  <2>3. CallInv'
    BY <1>1, <2>1, LoopHead
  <2>4. LoopInv'
    BY <1>1, <1>3, <2>1, <2>2, InsideAccept
  <2> QED
    BY <1>3, <1>4, <2>1, <2>3, <2>4, EthernetTypes, CallKeeps
<1> QED
  BY <1>2, <1>5, <1>6, <1>7

\* accept() accepts what waits at the listener it has found.
LEMMA AcceptPendingStep ==
  ASSUME EthernetInv, AcceptPending, RecordPort
  PROVE  EthernetInv'
<1> DEFINE k == call.sock
<1>1. /\ k \in Socks /\ k + 1 \in 0 .. MAX_SOCK_NUM /\ call.at = "pending"
      /\ call \in Calls /\ CallInv /\ HostInv /\ call.listening
  BY EthernetTypes DEF AcceptPending, At, CallInv
<1>2. HostInv' /\ NoNewListener
  <2>1. CASE AcceptConnection(k)
    <3>1. HostInv'
      BY <1>1, <2>1, AcceptConnectionKeeps
    <3>2. NoNewListener
      BY <1>1, <2>1, AcceptedConnects DEF AcceptConnection
    <3> QED
      BY <3>1, <3>2
  <2>2. CASE UNCHANGED vars
    BY <1>1, <2>2, RunningKeeps, InfoUnchanged DEF vars, HostInv
  <2> QED
    BY <2>1, <2>2 DEF AcceptPending
<1>3. /\ call' \in Calls /\ call'.at = "accept" /\ call'.port = call.port
      /\ call'.sock = k + 1 /\ call'.listening = call.listening
  BY <1>1, NextSocketFields DEF AcceptPending, Labels
<1>4. CallInv' /\ LoopInv'
  BY <1>1, <1>2, <1>3, LoopHead, InsideAccept
<1> QED
  BY <1>2, <1>3, <1>4, EthernetTypes, CallKeeps DEF AcceptPending

\* accept() stops a half-closed connection.
LEMMA StopStep ==
  ASSUME EthernetInv, Stop, RecordPort
  PROVE  EthernetInv'
<1> DEFINE k == call.sock
<1>1. /\ k \in Socks /\ k + 1 \in 0 .. MAX_SOCK_NUM /\ call.at = "stop"
      /\ call \in Calls /\ CallInv /\ HostInv
  BY EthernetTypes DEF Stop, At
<1>2. HostInv' /\ NoNewListener /\ ~HaveFd(info'[k].listener)
  BY <1>1, CloseSocketKeeps, CloseSocketCloses DEF Stop
<1>3. /\ call' \in Calls /\ call'.at = "accept" /\ call'.port = call.port
      /\ call'.sock = k + 1 /\ call'.listening = call.listening
  BY <1>1, NextSocketFields DEF Stop, Labels
<1>4. CallInv' /\ LoopInv'
  BY <1>1, <1>2, <1>3, LoopHead, InsideAccept
<1> QED
  BY <1>2, <1>3, <1>4, EthernetTypes, CallKeeps DEF Stop

\* After its loop accept() calls begin() if it has seen no listener.
LEMMA AcceptEndsStep ==
  ASSUME EthernetInv, AcceptEnds, RecordPort
  PROVE  EthernetInv'
<1>1. /\ call.at = "accept" /\ call.sock = MAX_SOCK_NUM /\ call \in Calls
      /\ CallInv /\ LoopInv /\ HostInv /\ call.port \in TcpPorts /\ client' = client
  BY EthernetTypes DEF AcceptEnds, CallInv
<1>2. /\ call' \in Calls /\ call'.at = "available" /\ call'.port = call.port
  <2>1. 0 \in 0 .. MAX_SOCK_NUM
    BY SocketsAssumption DEF MAX_SOCK_NUM
  <2> QED
    BY <1>1, <2>1 DEF AcceptEnds, Calls, Labels
<1>3. CallInv' /\ LoopInv'
  BY <1>1, <1>2, LoopHead, OutsideAccept
<1>4. CASE ~call.listening /\ BeginListening(call.port)
  <2>1. \A j \in Socks : j < MAX_SOCK_NUM
    BY SocketsAssumption DEF Socks, MAX_SOCK_NUM
  <2>2. \A j \in Socks : ~ListensTo(j, call.port)
    BY <1>1, <1>4, <2>1 DEF LoopInv
  <2>3. HostInv' /\ PortsInv' /\ serverPort' \in [Socks -> TcpPorts \cup {0}]
    BY <1>1, <1>4, <2>2, BeginKeeps
  <2> QED
    BY <1>1, <1>2, <1>3, <2>3, EthernetTypes, PartsKeep
<1>5. CASE UNCHANGED <<vars, serverPort>>
  <2>1. HostInv' /\ NoNewListener
    BY <1>1, <1>5, RunningKeeps, InfoUnchanged DEF vars, HostInv
  <2> QED
    BY <1>1, <1>2, <1>3, <1>5, <2>1, EthernetTypes, CallKeeps
<1> QED
  BY <1>4, <1>5 DEF AcceptEnds

\* available() reads the status of a socket recorded for its port.
LEMMA AvailableVisitsStep ==
  ASSUME EthernetInv, AvailableVisits, RecordPort
  PROVE  EthernetInv'
<1> DEFINE k == call.sock
<1>1. /\ k \in Socks /\ k + 1 \in 0 .. MAX_SOCK_NUM /\ call.at = "available"
      /\ call \in Calls /\ CallInv /\ HostInv /\ call.port \in TcpPorts
  BY EthernetTypes DEF AvailableVisits, At, CallInv
<1>2. PICK status : /\ SocketStatusReturns(k, status)
                    /\ \/ status = "ESTABLISHED" /\ Goto("count")
                       \/ status = "LISTEN" /\ Goto("again")
                       \/ NextSocket("available")
  BY DEF AvailableVisits
<1>3. HostInv' /\ NoNewListener
  BY <1>1, <1>2, SocketStatusReturnsKeeps, StatusTells
<1>4. UNCHANGED serverPort /\ client' = client /\ serverPort[k] = call.port
  BY DEF AvailableVisits, Mine
<1>5. CASE status = "ESTABLISHED" /\ Goto("count")
  <2>1. /\ call' \in Calls /\ call'.at = "count" /\ call'.port = call.port
        /\ call'.sock = k
    BY <1>1, <1>5, GotoFields DEF Labels
  <2>2. HaveFd(info'[k].connection) /\ peer'[k].taken < peer'[k].sent
    BY <1>1, <1>2, <1>5, StatusTells
  <2>3. CallInv'
    BY <1>1, <1>4, <2>1, <2>2 DEF CallInv, IsConnected, Mine, Socks
  <2> QED
    BY <1>3, <1>4, <2>1, <2>3, EthernetTypes, OutsideAccept, CallKeeps
<1>6. CASE Goto("again")
  <2>1. /\ call' \in Calls /\ call'.at = "again" /\ call'.port = call.port
        /\ call'.sock = k
    BY <1>1, <1>6, GotoFields DEF Labels
  <2>2. CallInv'
    BY <1>1, <2>1 DEF CallInv, Socks
  <2> QED
    BY <1>3, <1>4, <2>1, <2>2, EthernetTypes, OutsideAccept, CallKeeps
<1>7. CASE NextSocket("available")
  <2>1. call' \in Calls /\ call'.at = "available" /\ call'.port = call.port
    BY <1>1, <1>7, NextSocketFields DEF Labels
  <2>2. CallInv'
    BY <1>1, <2>1, LoopHead
  <2> QED
    BY <1>3, <1>4, <2>1, <2>2, EthernetTypes, OutsideAccept, CallKeeps
<1> QED
  BY <1>2, <1>5, <1>6, <1>7

\* available() reads the status a second time.
LEMMA AvailableVisitsAgainStep ==
  ASSUME EthernetInv, AvailableVisitsAgain, RecordPort
  PROVE  EthernetInv'
<1>1. /\ call.sock \in Socks /\ call.sock + 1 \in 0 .. MAX_SOCK_NUM /\ call.at = "again"
      /\ call \in Calls /\ CallInv /\ HostInv
  BY EthernetTypes DEF AvailableVisitsAgain, At
<1>2. HostInv' /\ NoNewListener
  BY <1>1, SocketStatusReturnsKeeps, StatusTells DEF AvailableVisitsAgain
<1>3. /\ call' \in Calls /\ call'.at = "available" /\ call'.port = call.port
      /\ UNCHANGED serverPort /\ client' = client
  BY <1>1, NextSocketFields DEF AvailableVisitsAgain, Labels
<1>4. CallInv'
  BY <1>1, <1>3, LoopHead
<1> QED
  BY <1>2, <1>3, <1>4, EthernetTypes, OutsideAccept, CallKeeps

\* available() returns a client that has data.
LEMMA AvailableReturnsStep ==
  ASSUME EthernetInv, AvailableReturns, RecordPort
  PROVE  EthernetInv'
<1>1. /\ call.sock \in Socks /\ call.sock + 1 \in 0 .. MAX_SOCK_NUM /\ call.at = "count"
      /\ call \in Calls /\ CallInv /\ HostInv
  BY EthernetTypes DEF AvailableReturns, At
<1>2. HostInv' /\ NoNewListener
  BY <1>1, RecvKeeps, RecvCloses DEF AvailableReturns
<1>3. UNCHANGED serverPort
  BY DEF AvailableReturns
<1>4. CASE client' = call.sock /\ call' = Idle
  <2>1. 0 \in 0 .. MAX_SOCK_NUM /\ call.sock \in 0 .. MAX_SOCK_NUM
    BY <1>1, SocketsAssumption DEF MAX_SOCK_NUM, Socks
  <2>2. call' \in Calls /\ call'.at = "idle"
    BY <1>4, <2>1 DEF Idle, Calls, Labels
  <2> QED
    BY <1>2, <1>3, <1>4, <2>1, <2>2, IdleKeeps, CallKeeps
<1>5. CASE NextSocket("available") /\ UNCHANGED client
  <2>1. call' \in Calls /\ call'.at = "available" /\ call'.port = call.port
    BY <1>1, <1>5, NextSocketFields DEF Labels
  <2>2. CallInv'
    BY <1>1, <2>1, LoopHead
  <2> QED
    BY <1>2, <1>3, <1>5, <2>1, <2>2, EthernetTypes, OutsideAccept, CallKeeps
<1> QED
  BY <1>4, <1>5 DEF AvailableReturns

\* available() returns no client after its loop.
LEMMA AvailableReturnsNoneStep ==
  ASSUME EthernetInv, AvailableReturnsNone, RecordPort
  PROVE  EthernetInv'
<1>1. 0 \in 0 .. MAX_SOCK_NUM /\ MAX_SOCK_NUM \in 0 .. MAX_SOCK_NUM
  BY SocketsAssumption DEF MAX_SOCK_NUM
<1>2. call' \in Calls /\ call'.at = "idle"
  BY <1>1 DEF AvailableReturnsNone, Idle, Calls, Labels
<1>3. HostInv' /\ NoNewListener
  BY EthernetTypes, RunningKeeps, InfoUnchanged DEF AvailableReturnsNone, vars, HostInv
<1> QED
  BY <1>1, <1>2, <1>3, IdleKeeps, CallKeeps DEF AvailableReturnsNone

\* The sketch uses the client it got last.
LEMMA ClientCallsStep ==
  ASSUME EthernetInv, ClientCalls, RecordPort
  PROVE  EthernetInv'
<1>1. client \in Socks /\ HostInv
  BY EthernetTypes, SocketsAssumption DEF ClientCalls, Socks, MAX_SOCK_NUM
<1>2. call' = call /\ call'.at = "idle" /\ client' = client /\ UNCHANGED serverPort
  BY DEF ClientCalls, sketchVars
<1>3. HostInv' /\ NoNewListener
  <2>1. CASE Recv(client) \/ Peek(client) \/ AvailableBytes(client)
    BY <1>1, <2>1, RecvKeeps, RecvCloses
  <2>2. CASE Send(client)
    <3>1. UNCHANGED info
      BY <2>2 DEF Send
    <3> QED
      BY <1>1, <2>2, <3>1, SendKeeps, InfoUnchanged
  <2>3. CASE CloseSocket(client)
    BY <1>1, <2>3, CloseSocketKeeps, CloseSocketCloses
  <2> QED
    BY <2>1, <2>2, <2>3 DEF ClientCalls
<1> QED
  BY <1>2, <1>3, EthernetTypes, IdleKeeps, CallKeeps

\* The sketch resets the chip.
LEMMA CloseAllSocketsStep ==
  ASSUME EthernetInv, CloseAllSockets, RecordPort
  PROVE  EthernetInv'
<1>1. call' = call /\ call'.at = "idle" /\ client' = client /\ UNCHANGED serverPort
  BY DEF CloseAllSockets, sketchVars
<1>2. Unused \in Info /\ UnusedInfo(Unused)
  BY DEF Unused, Info, UnusedInfo
<1>3. \A k \in Socks : info'[k] = Unused
  BY DEF CloseAllSockets
<1>4. HostInv'
  <2>1. info' \in [Socks -> Info] /\ \A k \in Socks : UnusedInfo(info'[k])
    BY <1>2, <1>3 DEF CloseAllSockets
  <2> QED
    BY <2>1, ClosedAllKeeps DEF CloseAllSockets
<1>5. NoNewListener
  BY <1>3 DEF NoNewListener, Unused, HaveFd
<1> QED
  BY <1>1, <1>4, <1>5, EthernetTypes, IdleKeeps, CallKeeps

\* The peers send more, and take nothing back.
LEMMA PeersStep ==
  ASSUME EthernetInv, Peers, RecordPort
  PROVE  EthernetInv'
<1>1. HostInv /\ CallInv /\ LoopInv /\ UNCHANGED <<serverPort, call, client>>
  BY EthernetTypes DEF Peers, sketchVars
<1>2. PICK k \in Socks : PeerConnects(k) \/ PeerActs(k)
  BY DEF Peers
<1>3. HostInv'
  BY <1>1, <1>2, PeerConnectsKeeps, PeerActsKeeps
<1>4. UNCHANGED info
  BY <1>2 DEF PeerConnects, PeerActs
<1>5. \A j \in Socks : /\ peer'[j].taken = peer[j].taken
                       /\ peer[j].taken < peer[j].sent => peer'[j].taken < peer'[j].sent
  <2>1. CASE UNCHANGED peer
    BY <2>1
  <2>2. CASE PeerActs(k)
    <3>1. peer[k] \in Peer /\ peer[k].taken \in Nat /\ peer[k].sent \in Nat
      BY <1>1, <2>2, PeerFields, BoundsAssumption DEF PeerActs
    <3>2. \A j \in Socks \ {k} : peer'[j] = peer[j]
      BY <1>1, <2>2 DEF PeerActs, HostInv
    <3>3. /\ peer'[k].taken = peer[k].taken
          /\ peer'[k].sent \in {peer[k].sent, peer[k].sent + 1}
      BY <1>1, <2>2, <3>1 DEF PeerActs, HostInv, Peer
    <3> QED
      BY <3>1, <3>2, <3>3
  <2> QED
    BY <1>2, <2>1, <2>2 DEF PeerConnects
<1>6. CallInv'
  BY <1>1, <1>4, <1>5 DEF CallInv, IsConnected, Mine, Socks
<1>7. LoopInv'
  BY <1>1, <1>4 DEF LoopInv, ListensTo, IsListening
<1> QED
  BY <1>1, <1>3, <1>4, <1>6, <1>7, EthernetTypes, InfoUnchanged, CallKeeps

-----------------------------------------------------------------------------
(* The theorems.                                                           *)

\* At first the sketch is idle and no socket is used.
LEMMA EthernetInvInit == EthernetInit => EthernetInv
<1> SUFFICES ASSUME EthernetInit
             PROVE  EthernetInv
  OBVIOUS
<1>1. HostInv
  BY HostInvInit DEF EthernetInit
<1>2. 0 \in 0 .. MAX_SOCK_NUM /\ MAX_SOCK_NUM \in 0 .. MAX_SOCK_NUM
  BY SocketsAssumption DEF MAX_SOCK_NUM
<1>3. call.at = "idle" /\ SketchTypeOK
  BY <1>2 DEF EthernetInit, Idle, SketchTypeOK
<1>4. \A k \in Socks : ~IsListening(k) /\ ~IsConnected(k)
  BY DEF EthernetInit, Init, Unused, IsListening, IsConnected, HaveFd
<1> QED
  BY <1>1, <1>3, <1>4 DEF EthernetInv, PortsInv, ServesItsPort, UniqueListeners, ListensTo,
                          CallInv, LoopInv

\* Every step keeps the invariant.
LEMMA EthernetInvNext == EthernetInv /\ [EthernetNext]_allVars => EthernetInv'
<1> SUFFICES ASSUME EthernetInv, [EthernetNext]_allVars
             PROVE  EthernetInv'
  OBVIOUS
<1>1. ASSUME Server, RecordPort
      PROVE  EthernetInv'
  <2>1. ASSUME NEW port \in TcpPorts, Begin(port) \/ Available(port)
        PROVE  EthernetInv'
    BY <1>1, <2>1, BeginStep, AvailableStep
  <2>2. CASE StatusAborts \/ Skip("accept") \/ Skip("available")
    BY <1>1, <2>2, StatusAbortsStep, SkipStep
  <2>3. CASE AcceptVisits \/ AcceptPending \/ Stop \/ AcceptEnds
    BY <1>1, <2>3, AcceptVisitsStep, AcceptPendingStep, StopStep, AcceptEndsStep
  <2>4. CASE AvailableVisits \/ AvailableVisitsAgain
    BY <1>1, <2>4, AvailableVisitsStep, AvailableVisitsAgainStep
  <2>5. CASE AvailableReturns \/ AvailableReturnsNone
    BY <1>1, <2>5, AvailableReturnsStep, AvailableReturnsNoneStep
  <2> QED
    BY <1>1, <2>1, <2>2, <2>3, <2>4, <2>5 DEF Server
<1>2. ASSUME ClientCalls \/ CloseAllSockets \/ Peers, RecordPort
      PROVE  EthernetInv'
  BY <1>2, ClientCallsStep, CloseAllSocketsStep, PeersStep
<1>3. CASE UNCHANGED allVars
  <2>1. UNCHANGED <<info, open, backlog, peer, got, running, serverPort, call, client, madeTo>>
    BY <1>3 DEF allVars, vars, sketchVars
  <2>2. HostInv'
    BY <2>1, EthernetTypes, RunningKeeps DEF HostInv
  <2>3. CallInv' /\ LoopInv'
    BY <2>1, SketchUnchanged
  <2>4. PortsInv'
    BY <2>1 DEF EthernetInv, PortsInv, ServesItsPort, UniqueListeners, ListensTo,
                IsListening, IsConnected
  <2>5. SketchTypeOK'
    BY <2>1 DEF EthernetInv, SketchTypeOK
  <2> QED
    BY <2>2, <2>3, <2>4, <2>5 DEF EthernetInv
<1> QED
  BY <1>1, <1>2, <1>3 DEF EthernetNext

\* The inductive invariant of the sketch over the emulated sockets holds in every
\* behaviour.
THEOREM EthernetInvAlways == EthernetSpec => []EthernetInv
  BY EthernetInvInit, EthernetInvNext, PTL DEF EthernetSpec

\* The variables of the sketch keep their types: the loops of accept() and
\* available() never index a socket beyond the last.
THEOREM SketchTypeCorrect == EthernetSpec => []SketchTypeOK
<1>1. EthernetInv => SketchTypeOK
  BY DEF EthernetInv
<1> QED
  BY <1>1, EthernetInvAlways, PTL

\* A connection belongs to the server of the port it was made to, however often
\* its socket was used for another port before.
THEOREM ServesItsPortAlways == EthernetSpec => []ServesItsPort
<1>1. EthernetInv => ServesItsPort
  BY DEF EthernetInv, PortsInv
<1> QED
  BY <1>1, EthernetInvAlways, PTL

\* No two listeners of a port is at most one listener.
LEMMA EthernetInvOneListener == EthernetInv => OneListener
<1> SUFFICES ASSUME EthernetInv, NEW port \in TcpPorts
             PROVE  Cardinality({k \in Socks : IsListening(k) /\ info[k].tcpPort = port}) <= 1
  BY DEF OneListener
<1> DEFINE L == {k \in Socks : IsListening(k) /\ info[k].tcpPort = port}
<1>1. \A j, k \in L : j = k
  BY EthernetTypes DEF UniqueListeners, ListensTo
<1> HIDE DEF L
<1>2. CASE L = {}
  <2>1. Cardinality(L) = 0
    BY <1>2, FS_EmptySet
  <2> QED
    BY <2>1 DEF L
<1>3. CASE L # {}
  <2>1. PICK k : L = {k}
    BY <1>1, <1>3
  <2>2. Cardinality(L) = 1
    BY <2>1, FS_Singleton
  <2> QED
    BY <2>2 DEF L
<1> QED
  BY <1>2, <1>3

\* However many sockets and servers there are, and in whatever order connections
\* come and end, begin() is called only for a port that nothing listens to.
THEOREM OneListenerAlways == EthernetSpec => []OneListener
  BY EthernetInvOneListener, EthernetInvAlways, PTL

\* accept() never stops a connection that has unread data, or whose peer may
\* still send some.
THEOREM StopsOnlyFinishedAlways == EthernetSpec => []StopsOnlyFinished
<1>1. EthernetInv => StopsOnlyFinished
  BY EthernetTypes, PeerFields DEF StopsOnlyFinished, CallInv
<1> QED
  BY <1>1, EthernetInvAlways, PTL

\* The client that available() returns has data to read, which was sent to the
\* port of the server, although peers act between the status() of its
\* socket and the return.
THEOREM ReturnsReadableAlways == EthernetSpec => ReturnsReadable
<1> DEFINE Readable ==
      client' < MAX_SOCK_NUM /\ client' # client =>
        /\ IsConnected(client') /\ serverPort[client'] = call.port
        /\ peer[client'].taken < peer[client'].sent
<1>1. EthernetInv /\ [EthernetNext]_allVars => [Readable]_allVars
  <2> SUFFICES ASSUME EthernetInv, EthernetNext, client' < MAX_SOCK_NUM, client' # client
               PROVE  /\ IsConnected(client') /\ serverPort[client'] = call.port
                      /\ peer[client'].taken < peer[client'].sent
    OBVIOUS
  <2>1. ~(MAX_SOCK_NUM < MAX_SOCK_NUM)
    BY SocketsAssumption DEF MAX_SOCK_NUM
  <2>2. AvailableReturns /\ client' = call.sock
    BY <2>1 DEF EthernetNext, Server, ClientCalls, CloseAllSockets, Peers, sketchVars, Begin,
                Available, StatusAborts, Skip, AcceptVisits, AcceptPending, Stop, AcceptEnds,
                AvailableVisits, AvailableVisitsAgain, AvailableReturns, AvailableReturnsNone
  <2>3. call.at = "count"
    BY <2>2 DEF AvailableReturns, At
  <2> QED
    BY <2>2, <2>3, EthernetTypes DEF CallInv, Mine
<1> QED
  BY <1>1, EthernetInvAlways, PTL DEF EthernetSpec, ReturnsReadable

\* What HostNetwork promises holds under the sketch as well, whatever its server
\* and its clients call: sockets keep to one role, descriptors are neither leaked
\* nor shared, and bytes are read in order and up to the last.
THEOREM HostGuaranteesHold ==
  EthernetSpec => [](OneRole /\ DescriptorsAgree /\ EofAfterAllData /\ ReadsInOrder)
<1>1. EthernetInv => OneRole /\ DescriptorsAgree /\ EofAfterAllData /\ ReadsInOrder
  BY HostInvOneRole, HostInvDescriptors, HostInvEof, HostInvReads DEF EthernetInv
<1> QED
  BY <1>1, EthernetInvAlways, PTL
=============================================================================
