-------------------------- MODULE ServerSocketProofs --------------------------
(***************************************************************************)
(* Proofs about ServerSocket, for any number of servers and sockets.       *)
(***************************************************************************)
EXTENDS ServerSocket, TLAPS

USE DEF Labels, HasSocket, SocketStatus, SetLastStatus, Goto

-----------------------------------------------------------------------------
(* Type correctness.  First the operators the actions are made of.         *)

\* sock_num_ of a bound server is a hardware socket, and has a status.
LEMMA BoundSocket ==
  ASSUME TypeOK, NEW s \in Servers, HasSocket(s)
  PROVE  sockNum[s] \in Socks /\ sr[sockNum[s]] \in Statuses
  BY SockNumAssumption DEF TypeOK, Socks

\* RecordDisconnect and Reset keep the types of the disconnect data.
LEMMA DisconnectDataType ==
  ASSUME TypeOK, NEW s \in Servers, RecordDisconnect(s) \/ Reset(s)
  PROVE  /\ disconnected' \in [Servers -> BOOLEAN]
         /\ elapsed' \in [Servers -> 0 .. kDisconnectMaxMillis + 1]
<1>1. CASE RecordDisconnect(s)
  <2>1. disconnected' \in [Servers -> BOOLEAN]
    BY <1>1 DEF TypeOK, RecordDisconnect
  <2>2. elapsed' \in [Servers -> 0 .. kDisconnectMaxMillis + 1]
    BY <1>1, MillisAssumption DEF TypeOK, RecordDisconnect
  <2> QED BY <2>1, <2>2
<1>2. CASE Reset(s)
  BY <1>2, MillisAssumption DEF TypeOK, Reset
<1> QED BY <1>1, <1>2

\* Calling a listener keeps the type of session.
LEMMA HearsType ==
  ASSUME TypeOK, NEW s \in Servers, NEW expected,
         NEW next \in {"idle", "open"}, Hears(s, expected, next)
  PROVE  session' \in [Servers -> {"idle", "open", "confused"}]
  BY DEF TypeOK, Hears

\* Giving a listener its connection keeps the types.
LEMMA CallListenerType ==
  ASSUME TypeOK, NEW s \in Servers, NEW expected, CallListener(s, expected)
  PROVE  /\ disconnected' \in [Servers -> BOOLEAN]
         /\ elapsed' \in [Servers -> 0 .. kDisconnectMaxMillis + 1]
         /\ pc' \in [Servers -> Labels]
         /\ conn' \in [Servers -> {"none", "listener", "server"}]
         /\ writeBuffer' \in [Servers -> {"empty", "unsent", "failed"}]
         /\ session' \in [Servers -> {"idle", "open", "confused"}]
<1>1. session' \in [Servers -> {"idle", "open", "confused"}]
  BY HearsType DEF CallListener
<1>2. Reset(s)
  BY DEF CallListener
<1> QED BY <1>1, <1>2, DisconnectDataType DEF CallListener, TypeOK

\* A flush keeps the type of the write buffer.
LEMMA FlushType ==
  ASSUME TypeOK, NEW s \in Servers, Flush(s)
  PROVE  writeBuffer' \in [Servers -> {"empty", "unsent", "failed"}]
  BY DEF Flush, TypeOK

\* Commands to the chip keep the types of its registers.
LEMMA CommandType ==
  ASSUME TypeOK, NEW k \in Socks, NEW port \in Nat,
         \/ InitializeTcpListenerSocket(k, port)
         \/ CloseSocket(k)
         \/ DisconnectSocket(k)
  PROVE  /\ sr' \in [Socks -> Statuses]
         /\ rx' \in [Socks -> BOOLEAN]
         /\ serverPort' \in [Socks -> Nat]
<1>1. CASE InitializeTcpListenerSocket(k, port)
  BY <1>1, OutcomesAssumption
  DEF InitializeTcpListenerSocket, TypeOK, Statuses
<1>2. CASE CloseSocket(k)
  BY <1>2 DEF CloseSocket, TypeOK, Statuses
<1>3. CASE DisconnectSocket(k)
  BY <1>3 DEF DisconnectSocket, AfterDisconnect, TypeOK, Statuses,
     OpenStatuses, ClosingStatuses
<1> QED BY <1>1, <1>2, <1>3

\* The constructors of the servers and a chip after its reset have the types.
LEMMA TypeInit == Init => TypeOK
  BY SockNumAssumption, MillisAssumption
  DEF Init, NetInit, TypeOK, Statuses, OpenStatuses, ClosingStatuses, Socks

\* Every step of a server keeps the types.
LEMMA ServerType ==
  ASSUME TypeOK, OneThread, NEW s \in Servers, Server(s)
  PROVE  TypeOK'
<1> USE SockNumAssumption, MillisAssumption
<1>0. "CLOSED" \in Statuses /\ "LISTEN" \in Statuses /\ "INIT" \in Statuses
      /\ OpenStatuses \subseteq Statuses
  BY DEF Statuses
<1>1. CASE PickClosedSocket(s)
  <2>1. CASE \E k \in Socks : BeginListening(s, k, "picking")
    <3>1. PICK k \in Socks : BeginListening(s, k, "picking")
      BY <2>1
    <3>2. Port[s] \in Nat /\ k \in 0 .. MAX_SOCK_NUM
      BY PortAssumption DEF Socks
    <3>3. /\ sr' \in [Socks -> Statuses]
          /\ rx' \in [Socks -> BOOLEAN]
          /\ serverPort' \in [Socks -> Nat]
      BY <3>1, <3>2, CommandType DEF BeginListening
    <3> QED
      BY <1>0, <3>1, <3>2, <3>3 DEF BeginListening, TypeOK
  <2>2. CASE lastStatus' = [lastStatus EXCEPT ![s] = "CLOSED"]
             /\ UNCHANGED <<netVars, sockNum, disconnected, elapsed, callVars>>
    BY <1>0, <2>2 DEF TypeOK, netVars, callVars
  <2> QED BY <1>1, <2>1, <2>2 DEF PickClosedSocket
<1>2. CASE ReleaseSocket(s)
  BY <1>0, <1>2, BoundSocket, CommandType
  DEF ReleaseSocket, CloseHardwareSocket, TypeOK, callVars
<1>3. CASE SocketLost(s)
  <2>1. session' \in [Servers -> {"idle", "open", "confused"}]
    BY <1>3, HearsType DEF SocketLost, OnDisconnect, TypeOK
  <2>2. /\ disconnected' \in [Servers -> BOOLEAN]
        /\ elapsed' \in [Servers -> 0 .. kDisconnectMaxMillis + 1]
    BY <1>3, DisconnectDataType DEF SocketLost
  <2>3. sockNum' \in [Servers -> 0 .. MAX_SOCK_NUM]
    BY <1>3 DEF SocketLost, TypeOK
  <2> QED
    BY <1>0, <1>3, <2>1, <2>2, <2>3 DEF SocketLost, TypeOK, netVars
<1>4. CASE PerformIO(s)
  <2>0. HasSocket(s)
    BY <1>4 DEF PerformIO, ConnectionEnded, PollClosed, PollListen,
       PollUndocumented, PollConnected, PollEstablished, PollCloseWait,
       PollClosing, PollInit, PollForeign, Dispatches, Polls
  <2>s. sockNum[s] \in Socks /\ sr[sockNum[s]] \in Statuses
    BY <2>0, BoundSocket
  <2>1. CASE ConnectionEnded(s)
    <3>1. session' \in [Servers -> {"idle", "open", "confused"}]
      BY <2>1, HearsType DEF ConnectionEnded, OnDisconnect, TypeOK
    <3> QED
      BY <2>1, <2>s, <3>1, DisconnectDataType DEF ConnectionEnded, TypeOK, netVars
  <2>2. CASE PollClosed(s)
    <3>1. CASE BeginListening(s, sockNum[s], "listening")
      <4>1. Port[s] \in Nat
        BY PortAssumption
      <4> QED
        BY <1>0, <2>s, <3>1, <4>1, CommandType DEF BeginListening, TypeOK, Socks
    <3>2. CASE CloseHardwareSocket(s)
               /\ UNCHANGED <<sockNum, disconnected, elapsed, callVars>>
      BY <1>0, <2>s, <3>2, CommandType DEF CloseHardwareSocket, TypeOK, callVars
    <3> QED BY <2>2, <3>1, <3>2 DEF PollClosed
  <2>3. CASE PollListen(s) \/ PollUndocumented(s)
    BY <1>0, <2>3 DEF PollListen, PollUndocumented, TypeOK, vars, netVars,
       serverVars, callVars
  <2>4. CASE PollConnected(s) \/ PollEstablished(s)
    BY <1>0, <2>s, <2>4, CallListenerType DEF PollConnected, PollEstablished,
       AnnounceConnected, AnnounceCanRead, TypeOK, netVars, OpenStatuses
  <2>5. CASE PollCloseWait(s)
    <3>1. CASE AnnounceCanRead(s)
      BY <1>0, <2>5, <3>1, CallListenerType
      DEF PollCloseWait, AnnounceCanRead, TypeOK, netVars, OpenStatuses
    <3>2. CASE ~AnnounceCanRead(s)
      BY <1>0, <2>5, <3>2, DisconnectDataType
      DEF PollCloseWait, HandleCloseWait, TypeOK, netVars, OpenStatuses
    <3> QED BY <3>1, <3>2
  <2>6. CASE PollClosing(s)
    <3>1. CASE CloseHardwareSocket(s)
      BY <1>0, <2>s, <2>6, <3>1, CommandType
      DEF PollClosing, CloseHardwareSocket, TypeOK, callVars
    <3>2. CASE ~CloseHardwareSocket(s)
      BY <2>s, <2>6, <3>2 DEF PollClosing, DetectCloseTimeout, TypeOK, netVars,
         callVars
    <3> QED BY <3>1, <3>2
  <2>7. CASE PollInit(s) \/ PollForeign(s)
    <3>1. CASE CloseHardwareSocket(s)
      BY <1>0, <2>s, <2>7, <3>1, CommandType
      DEF PollInit, PollForeign, CloseHardwareSocket, TypeOK, callVars
    <3>2. CASE ~CloseHardwareSocket(s)
      BY <1>0, <2>s, <2>7, <3>2 DEF PollInit, PollForeign, TypeOK, netVars, callVars
    <3> QED BY <3>1, <3>2
  <2> QED
    BY <1>4, <2>1, <2>2, <2>3, <2>4, <2>5, <2>6, <2>7 DEF PerformIO
<1>5. CASE Continues(s) \/ Listener(s)
  <2>0. HasSocket(s)
    BY <1>5 DEF OneThread, Continues, Listener, ReadListenStatus,
       TcpServerConnectionClose, CloseStarts, CloseChecksAgain,
       CloseReadsStatus, CloseFlushes, CloseDisconnects, HandleCloseWaitEnds,
       ListenerReads, ListenerWrites, ListenerFlushes, ListenerCloses,
       ListenerReturns
  <2>s. sockNum[s] \in Socks /\ sr[sockNum[s]] \in Statuses
    BY <2>0, BoundSocket
  <2>r. ASSUME CloseReturns(s)
        PROVE  /\ disconnected' \in [Servers -> BOOLEAN]
               /\ elapsed' \in [Servers -> 0 .. kDisconnectMaxMillis + 1]
               /\ pc' \in [Servers -> Labels]
               /\ session' \in [Servers -> {"idle", "open", "confused"}]
    <3>1. session' \in [Servers -> {"idle", "open", "confused"}]
      BY <2>r DEF CloseReturns, TypeOK
    <3>2. RecordDisconnect(s) /\ pc' \in [Servers -> Labels]
      BY <2>r DEF CloseReturns, TypeOK
    <3> QED BY <3>1, <3>2, DisconnectDataType
  <2>1. CASE ReadListenStatus(s)
    BY <2>1, <2>s DEF ReadListenStatus, TypeOK, netVars
  <2>2. CASE CloseStarts(s) \/ CloseChecksAgain(s)
    <3>1. CASE CloseReturns(s)
      BY <2>2, <2>r, <3>1 DEF CloseStarts, CloseChecksAgain, CloseReadsStatus,
         TypeOK, netVars
    <3>2. CASE ~CloseReturns(s)
      BY <2>2, <3>2 DEF CloseStarts, CloseChecksAgain, CloseReadsStatus,
         TypeOK, netVars
    <3> QED BY <3>1, <3>2
  <2>3. CASE CloseFlushes(s)
    <3>1. writeBuffer' \in [Servers -> {"empty", "unsent", "failed"}]
      BY <2>3, FlushType DEF CloseFlushes
    <3> QED BY <2>3, <3>1 DEF CloseFlushes, TypeOK, netVars, serverVars
  <2>4. CASE CloseDisconnects(s)
    BY <2>4, <2>s, <2>r, CommandType DEF CloseDisconnects, TypeOK
  <2>5. CASE HandleCloseWaitEnds(s)
    <3>1. session' \in [Servers -> {"idle", "open", "confused"}]
      BY <2>5, HearsType DEF HandleCloseWaitEnds, OnDisconnect
    <3> QED BY <2>5, <2>s, <3>1 DEF HandleCloseWaitEnds, TypeOK, netVars
  <2>6. CASE ListenerReads(s) \/ ListenerWrites(s) \/ ListenerCloses(s)
    <3>1. CASE ListenerReads(s)
      BY <3>1, <2>s DEF ListenerReads, TypeOK, serverVars, callVars
    <3>2. CASE ListenerWrites(s)
      BY <3>2 DEF ListenerWrites, TypeOK, netVars, serverVars
    <3>3. CASE ListenerCloses(s)
      BY <3>3 DEF ListenerCloses, Goto, Labels, TypeOK, netVars, serverVars
    <3> QED BY <2>6, <3>1, <3>2, <3>3
  <2>7. CASE ListenerFlushes(s)
    BY <2>7, FlushType DEF ListenerFlushes, TypeOK, netVars, serverVars
  <2>8. CASE ListenerReturns(s)
    <3>1. lastStatus' \in [Servers -> Statuses]
      BY <2>8, <2>s DEF ListenerReturns, TypeOK
    <3> QED BY <2>8, <3>1 DEF ListenerReturns, TypeOK, netVars
  <2> QED
    BY <1>5, <2>1, <2>2, <2>3, <2>4, <2>5, <2>6, <2>7, <2>8
    DEF Continues, Listener, TcpServerConnectionClose
<1> QED BY <1>1, <1>2, <1>3, <1>4, <1>5 DEF Server

\* So do the steps of the chip and of the clock.
LEMMA EnvironmentType ==
  ASSUME TypeOK, Tick \/ \E k \in Socks : Chip(k)
  PROVE  TypeOK'
<1>1. CASE Tick
  <2>1. elapsed' \in [Servers -> 0 .. kDisconnectMaxMillis + 1]
    BY <1>1, MillisAssumption DEF Tick, TypeOK
  <2> QED BY <1>1, <2>1 DEF Tick, TypeOK, netVars, callVars
<1>2. ASSUME NEW k \in Socks, Chip(k) PROVE TypeOK'
  <2>1. CASE Network(k)
    BY <2>1 DEF Network, NetworkMovesTo, TypeOK, serverVars, callVars
  <2>2. CASE Receive(k)
    BY <2>2 DEF Receive, DataArrives, TypeOK, serverVars, callVars
  <2>3. CASE ForeignUse(k)
    BY <2>3 DEF ForeignUse, TypeOK, serverVars, callVars, Statuses
  <2> QED BY <1>2, <2>1, <2>2, <2>3 DEF Chip
<1> QED BY <1>1, <1>2

\* Every step keeps the types.
LEMMA TypeNext == TypeOK /\ OneThread /\ [Next]_vars => TypeOK'
<1> SUFFICES ASSUME TypeOK, OneThread, [Next]_vars PROVE TypeOK'
  OBVIOUS
<1>1. CASE UNCHANGED vars
  BY <1>1 DEF TypeOK, vars, netVars, serverVars, callVars
<1> QED BY <1>1, ServerType, EnvironmentType DEF Next

-----------------------------------------------------------------------------
(* What the step of a server leaves alone, and one thread.                 *)

\* A step of server s changes the state of no other server.
LEMMA OthersUnchanged ==
  ASSUME TypeOK, NEW s \in Servers, Server(s), NEW t \in Servers, t # s
  PROVE  /\ pc'[t] = pc[t] /\ conn'[t] = conn[t] 
         /\ writeBuffer'[t] = writeBuffer[t]
         /\ session'[t] = session[t] /\ sockNum'[t] = sockNum[t]
         /\ lastStatus'[t] = lastStatus[t] /\ disconnected'[t] = disconnected[t]
<1> USE DEF TypeOK
<1>1. CASE PickClosedSocket(s)
  BY <1>1 DEF PickClosedSocket, BeginListening, callVars
<1>2. CASE ReleaseSocket(s)
  BY <1>2 DEF ReleaseSocket, CloseHardwareSocket, callVars
<1>3. CASE SocketLost(s)
  BY <1>3 DEF SocketLost, OnDisconnect, Hears, RecordDisconnect
<1>4. CASE PerformIO(s)
  <2>1. CASE ConnectionEnded(s)
    BY <2>1 DEF ConnectionEnded, OnDisconnect, Hears, RecordDisconnect
  <2>2. CASE PollClosed(s)
    BY <2>2 DEF PollClosed, BeginListening, CloseHardwareSocket, callVars
  <2>3. CASE PollListen(s) \/ PollUndocumented(s)
    BY <2>3 DEF PollListen, PollUndocumented, vars, serverVars, callVars
  <2>4. CASE PollConnected(s) \/ PollEstablished(s)
    BY <2>4 DEF PollConnected, PollEstablished, AnnounceConnected,
       AnnounceCanRead, CallListener, Hears, Reset
  <2>5. CASE PollCloseWait(s)
    BY <2>5 DEF PollCloseWait, HandleCloseWait, AnnounceCanRead, CallListener,
       Hears, Reset
  <2>6. CASE PollClosing(s)
    BY <2>6 DEF PollClosing, DetectCloseTimeout, CloseHardwareSocket, callVars
  <2>7. CASE PollInit(s) \/ PollForeign(s)
    BY <2>7 DEF PollInit, PollForeign, CloseHardwareSocket, callVars
  <2> QED
    BY <1>4, <2>1, <2>2, <2>3, <2>4, <2>5, <2>6, <2>7 DEF PerformIO
<1>5. CASE Continues(s)
  BY <1>5 DEF Continues, ReadListenStatus, TcpServerConnectionClose,
     CloseStarts, CloseChecksAgain, CloseReadsStatus, CloseReturns,
     RecordDisconnect, CloseFlushes, Flush, CloseDisconnects,
     HandleCloseWaitEnds, OnDisconnect, Hears, serverVars
<1>6. CASE Listener(s)
  <2>1. CASE ListenerFlushes(s)
    BY <2>1 DEF ListenerFlushes, Flush, serverVars
  <2>2. CASE ~ListenerFlushes(s)
    BY <1>6, <2>2 DEF Listener, ListenerReads, ListenerWrites, ListenerCloses,
       ListenerReturns, serverVars, callVars
  <2> QED BY <2>1, <2>2
<1> QED BY <1>1, <1>2, <1>3, <1>4, <1>5, <1>6 DEF Server

\* A server starts a method only when no method runs.
LEMMA StartsWhenIdle ==
  ASSUME NEW s \in Servers, Server(s)
  PROVE  CpuIdle \/ pc[s] # "idle"
  BY DEF Server, PickClosedSocket, ReleaseSocket, SocketLost, PerformIO,
     ConnectionEnded, PollClosed, PollListen, PollUndocumented, PollConnected,
     PollEstablished, PollCloseWait, PollClosing, PollInit, PollForeign,
     Dispatches, Polls, Continues, ReadListenStatus, TcpServerConnectionClose,
     CloseStarts, CloseChecksAgain, CloseReadsStatus, CloseFlushes,
     CloseDisconnects, HandleCloseWaitEnds, Listener, ListenerReads,
     ListenerWrites, ListenerFlushes, ListenerCloses, ListenerReturns

\* Every step keeps methods from overlapping.
LEMMA OneThreadNext == TypeOK /\ OneThread /\ [Next]_vars => OneThread'
<1> SUFFICES ASSUME TypeOK, OneThread, [Next]_vars PROVE OneThread'
  OBVIOUS
<1> DEFINE Mine(s) ==
      /\ pc[s] # "idle" => HasSocket(s)
      /\ conn[s] = "none" <=> pc[s] \in {"idle", "picking", "listening"}
      /\ pc[s] = "listener" => conn[s] = "listener"
      /\ pc[s] = "closed" => conn[s] = "server"
<1>1. ASSUME NEW s \in Servers, Server(s) PROVE OneThread'
  <2> USE <1>1
  <2>0. Mine(s)
    BY DEF OneThread
  <2>1. Mine(s)'
    <3> USE <2>0 DEF TypeOK
    <3>1. CASE PickClosedSocket(s)
      BY <3>1, SockNumAssumption
      DEF PickClosedSocket, BeginListening, callVars, Socks, CpuIdle
    <3>2. CASE ReleaseSocket(s)
      BY <3>2 DEF ReleaseSocket, callVars, CpuIdle
    <3>3. CASE SocketLost(s)
      BY <3>3 DEF SocketLost, CpuIdle
    <3>4. CASE PerformIO(s)
      <4>1. CASE ConnectionEnded(s)
        BY <4>1 DEF ConnectionEnded
      <4>2. CASE PollClosed(s)
        BY <4>2 DEF PollClosed, Dispatches, Polls, CpuIdle, BeginListening,
           callVars
      <4>3. CASE PollListen(s) \/ PollUndocumented(s)
        BY <4>3 DEF PollListen, PollUndocumented, vars, serverVars, callVars
      <4>4. CASE PollConnected(s) \/ PollEstablished(s)
        BY <4>4 DEF PollConnected, PollEstablished, Dispatches, Polls,
           AnnounceConnected, AnnounceCanRead, CallListener
      <4>5. CASE PollCloseWait(s)
        BY <4>5 DEF PollCloseWait, Dispatches, Polls, HandleCloseWait,
           AnnounceCanRead, CallListener
      <4>6. CASE PollClosing(s) \/ PollInit(s) \/ PollForeign(s)
        BY <4>6 DEF PollClosing, PollInit, PollForeign, callVars
      <4> QED
        BY <3>4, <4>1, <4>2, <4>3, <4>4, <4>5, <4>6 DEF PerformIO
    <3>5. CASE Continues(s)
      BY <3>5 DEF Continues, ReadListenStatus, TcpServerConnectionClose,
         CloseStarts, CloseChecksAgain, CloseReadsStatus, CloseReturns,
         CloseFlushes, CloseDisconnects, HandleCloseWaitEnds, serverVars
    <3>6. CASE Listener(s)
      BY <3>6 DEF Listener, ListenerReads, ListenerWrites, ListenerFlushes,
         ListenerCloses, ListenerReturns, serverVars, callVars
    <3> QED BY <3>1, <3>2, <3>3, <3>4, <3>5, <3>6 DEF Server
  <2>2. ASSUME NEW t \in Servers, t # s PROVE Mine(t)'
    BY <2>2, OthersUnchanged DEF OneThread
  <2>3. ASSUME NEW t \in Servers, t # s PROVE pc'[t] = "idle"
    BY <2>3, OthersUnchanged, StartsWhenIdle DEF OneThread, CpuIdle
  <2> QED BY <2>1, <2>2, <2>3 DEF OneThread
<1>2. CASE Tick \/ (\E k \in Socks : Chip(k)) \/ UNCHANGED vars
  BY <1>2 DEF Tick, Chip, Network, Receive, ForeignUse, OneThread, vars,
     serverVars, callVars
<1> QED BY <1>1, <1>2 DEF Next

\* In every reachable state every variable has its type, and one method runs.
THEOREM TypeCorrect == Spec => [](TypeOK /\ OneThread)
<1>1. Init => TypeOK /\ OneThread
  BY TypeInit DEF Init, OneThread
<1>2. (TypeOK /\ OneThread) /\ [Next]_vars => (TypeOK /\ OneThread)'
  BY TypeNext, OneThreadNext
<1> QED BY <1>1, <1>2, PTL DEF Spec

-----------------------------------------------------------------------------
(* A hardware socket is bound to one server.                               *)

\* Besides the port of a socket that a server has found closed and may use, a
\* step of a server changes no recorded port; and it binds no other socket.
LEMMA PortStep ==
  ASSUME TypeOK, OneThread, NEW s \in Servers, Server(s)
  PROVE  \/ \E k \in Socks :
              /\ CanInitializeTcpListener(k, Port[s])
              /\ HasSocket(s) => k = sockNum[s]
              /\ serverPort' = [serverPort EXCEPT ![k] = Port[s]]
              /\ sockNum' = [sockNum EXCEPT ![s] = k]
         \/ /\ serverPort' = serverPort
            /\ sockNum'[s] \in {sockNum[s], MAX_SOCK_NUM}
<1>1. CASE PickClosedSocket(s)
  BY <1>1 DEF PickClosedSocket, BeginListening, InitializeTcpListenerSocket,
     netVars
<1>2. CASE ReleaseSocket(s) \/ SocketLost(s)
  BY <1>2 DEF ReleaseSocket, SocketLost, CloseHardwareSocket, CloseSocket,
     TypeOK, netVars
<1>3. CASE PerformIO(s)
  <2>1. CASE PollClosed(s)
    <3>1. sockNum[s] \in Socks
      BY <2>1, BoundSocket DEF PollClosed, Dispatches, Polls
    <3> QED
      BY <2>1, <3>1 DEF PollClosed, BeginListening,
         InitializeTcpListenerSocket, CloseHardwareSocket, CloseSocket
  <2>2. CASE ~PollClosed(s)
    BY <1>3, <2>2 DEF PerformIO, ConnectionEnded, PollListen, PollUndocumented,
       PollConnected, PollEstablished, PollCloseWait, PollClosing,
       DetectCloseTimeout, PollInit, PollForeign, CloseHardwareSocket,
       CloseSocket, vars, serverVars, netVars
  <2> QED BY <2>1, <2>2
<1>4. CASE Continues(s)
  BY <1>4 DEF Continues, ReadListenStatus, TcpServerConnectionClose,
     CloseStarts, CloseChecksAgain, CloseReadsStatus, CloseFlushes,
     CloseDisconnects, DisconnectSocket, HandleCloseWaitEnds, netVars, serverVars
<1>5. CASE Listener(s)
  BY <1>5 DEF Listener, ListenerReads, ListenerWrites, ListenerFlushes,
     ListenerCloses, ListenerReturns, netVars, serverVars
<1> QED BY <1>1, <1>2, <1>3, <1>4, <1>5 DEF Server

\* No two servers listen on one port: then what is recorded in _server_port
\* keeps every other server away from a bound socket, even while it is CLOSED.
LEMMA BoundPortNext ==
  ASSUME DistinctPorts
  PROVE  TypeOK /\ OneThread /\ BoundPort /\ [Next]_vars => BoundPort'
<1> SUFFICES ASSUME TypeOK, OneThread, BoundPort, [Next]_vars PROVE BoundPort'
  OBVIOUS
<1>1. ASSUME NEW s \in Servers, Server(s) PROVE BoundPort'
  <2> SUFFICES ASSUME NEW t \in Servers, HasSocket(t)'
               PROVE  serverPort'[sockNum'[t]] = Port[t]
    BY DEF BoundPort
  <2>0. t # s => sockNum'[t] = sockNum[t]
    BY <1>1, OthersUnchanged
  <2>1. CASE \E k \in Socks :
              /\ CanInitializeTcpListener(k, Port[s])
              /\ HasSocket(s) => k = sockNum[s]
              /\ serverPort' = [serverPort EXCEPT ![k] = Port[s]]
              /\ sockNum' = [sockNum EXCEPT ![s] = k]
    <3>1. PICK k \in Socks :
              /\ CanInitializeTcpListener(k, Port[s])
              /\ serverPort' = [serverPort EXCEPT ![k] = Port[s]]
              /\ sockNum' = [sockNum EXCEPT ![s] = k]
      BY <2>1
    <3>2. CASE t = s
      BY <3>1, <3>2 DEF TypeOK
    <3>3. CASE t # s /\ sockNum[t] # k
      BY <2>0, <3>1, <3>3, BoundSocket DEF BoundPort, TypeOK
    <3>4. CASE t # s /\ sockNum[t] = k
      <4>1. serverPort[k] = Port[t] /\ Port[t] # 0
        BY <2>0, <3>4, PortAssumption DEF BoundPort
      <4> QED
        BY <3>1, <3>4, <4>1 DEF CanInitializeTcpListener, DistinctPorts
    <3> QED BY <3>2, <3>3, <3>4
  <2>2. CASE serverPort' = serverPort /\ sockNum'[s] \in {sockNum[s], MAX_SOCK_NUM}
    BY <2>0, <2>2, SockNumAssumption DEF BoundPort
  <2> QED BY <1>1, <2>1, <2>2, PortStep
<1>2. CASE Tick \/ (\E k \in Socks : Chip(k)) \/ UNCHANGED vars
  BY <1>2 DEF Tick, Chip, Network, NetworkMovesTo, Receive, DataArrives,
     ForeignUse, BoundPort, vars, netVars, serverVars
<1> QED BY <1>1, <1>2 DEF Next

\* What _server_port records tells servers with different ports apart.
LEMMA ExclusiveByPort == DistinctPorts /\ BoundPort => ExclusiveBinding
  BY DEF DistinctPorts, BoundPort, ExclusiveBinding

\* If no two servers listen on one port, no two servers are ever bound to one
\* hardware socket, whatever picks, releases, losses and chip events occur.
THEOREM Exclusive == DistinctPorts /\ Spec => []ExclusiveBinding
<1> SUFFICES ASSUME DistinctPorts PROVE Spec => []ExclusiveBinding
  OBVIOUS
<1>1. Init => BoundPort
  BY SockNumAssumption DEF Init, BoundPort
<1>2. TypeOK /\ OneThread /\ BoundPort /\ [Next]_vars => BoundPort'
  BY BoundPortNext
<1>3. BoundPort => ExclusiveBinding
  BY ExclusiveByPort
<1> QED BY <1>1, <1>2, <1>3, TypeCorrect, PTL DEF Spec

-----------------------------------------------------------------------------
(* The status of a bound socket and what its server knows of it.           *)

\* A step of a server changes the status of no socket but its own.
LEMMA OtherSocketsUnchanged ==
  ASSUME TypeOK, OneThread, NEW s \in Servers, Server(s), NEW k \in Socks,
         k # sockNum[s], k # sockNum'[s]
  PROVE  sr'[k] = sr[k]
<1> USE DEF TypeOK
<1>1. CASE PickClosedSocket(s)
  BY <1>1 DEF PickClosedSocket, BeginListening, InitializeTcpListenerSocket,
     netVars
<1>2. CASE ReleaseSocket(s) \/ SocketLost(s)
  BY <1>2 DEF ReleaseSocket, SocketLost, CloseHardwareSocket, CloseSocket, netVars
<1>3. CASE PerformIO(s)
  BY <1>3 DEF PerformIO, ConnectionEnded, PollClosed, BeginListening,
     InitializeTcpListenerSocket, PollListen, PollUndocumented, PollConnected,
     PollEstablished, PollCloseWait, PollClosing, DetectCloseTimeout, PollInit,
     PollForeign, CloseHardwareSocket, CloseSocket, vars, netVars
<1>4. CASE Continues(s)
  BY <1>4 DEF Continues, ReadListenStatus, TcpServerConnectionClose,
     CloseStarts, CloseChecksAgain, CloseReadsStatus, CloseFlushes,
     CloseDisconnects, DisconnectSocket, HandleCloseWaitEnds, netVars
<1>5. CASE Listener(s)
  BY <1>5 DEF Listener, ListenerReads, ListenerWrites, ListenerFlushes,
     ListenerCloses, ListenerReturns, netVars
<1> QED BY <1>1, <1>2, <1>3, <1>4, <1>5 DEF Server

\* The status of a socket bound to another server stays what it is.
LEMMA OtherServersKeepStatus ==
  ASSUME TypeOK, OneThread, ExclusiveBinding, ExclusiveBinding',
         NEW s \in Servers, Server(s), NEW t \in Servers, t # s, HasSocket(t)
  PROVE  sr'[sockNum'[t]] = sr[sockNum[t]]
<1>1. sockNum'[t] = sockNum[t] /\ sockNum[t] \in Socks
  BY OthersUnchanged, BoundSocket
<1>2. sockNum[t] # sockNum[s] /\ sockNum[t] # sockNum'[s]
  BY <1>1 DEF ExclusiveBinding
<1> QED BY <1>1, <1>2, OtherSocketsUnchanged

\* The step of a server keeps the relation of its own socket and its own state.
LEMMA ChipAgreesOwn ==
  ASSUME TypeOK, OneThread, NEW s \in Servers, Server(s),
         HasSocket(s) => ChipAgrees(s), HasSocket(s)'
  PROVE  ChipAgrees(s)'
<1> USE DEF TypeOK, ChipAgrees, WasOpen, StatusIsOpen, StatusIsClosing,
            OpenStatuses, ClosingStatuses
<1>c. conn[s] = "none" <=> pc[s] \in {"idle", "picking", "listening"}
  BY DEF OneThread
<1>1. CASE PickClosedSocket(s)
  <2>1. PICK k \in Socks : BeginListening(s, k, "picking")
    BY <1>1 DEF PickClosedSocket
  <2>2. sr'[k] \in {"CLOSED", "INIT", "LISTEN"} /\ sockNum'[s] = k
    BY <2>1, OutcomesAssumption DEF BeginListening, InitializeTcpListenerSocket
  <2>3. pc[s] = "idle"
    BY <1>1 DEF PickClosedSocket, CpuIdle
  <2> QED BY <1>c, <2>1, <2>2, <2>3 DEF BeginListening
<1>2. CASE ReleaseSocket(s) \/ SocketLost(s)
  BY <1>2, SockNumAssumption DEF ReleaseSocket, SocketLost
<1>3. CASE PerformIO(s)
  <2>0. HasSocket(s) /\ pc[s] = "idle"
    BY <1>3 DEF PerformIO, ConnectionEnded, PollClosed, PollListen,
       PollUndocumented, PollConnected, PollEstablished, PollCloseWait,
       PollClosing, PollInit, PollForeign, Dispatches, Polls, CpuIdle
  <2>s. sockNum[s] \in Socks
    BY <2>0, BoundSocket
  <2>1. CASE ConnectionEnded(s)
    BY <1>c, <2>0, <2>1 DEF ConnectionEnded, RecordDisconnect, netVars
  <2>2. CASE PollClosed(s)
    <3>1. CASE BeginListening(s, sockNum[s], "listening")
      <4>1. sr'[sockNum[s]] \in {"CLOSED", "INIT", "LISTEN"}
        BY <2>s, <3>1, OutcomesAssumption
        DEF BeginListening, InitializeTcpListenerSocket
      <4> QED BY <1>c, <2>0, <3>1, <4>1 DEF BeginListening
    <3>2. CASE CloseHardwareSocket(s)
               /\ UNCHANGED <<sockNum, disconnected, elapsed, callVars>>
      BY <1>c, <2>0, <2>s, <3>2 DEF CloseHardwareSocket, CloseSocket, callVars
    <3> QED BY <2>2, <3>1, <3>2 DEF PollClosed
  <2>3. CASE PollListen(s) \/ PollUndocumented(s)
    BY <1>c, <2>0, <2>3 DEF PollListen, PollUndocumented, Dispatches, vars,
       netVars, serverVars, callVars
  <2>4. CASE PollConnected(s) \/ PollEstablished(s)
    BY <1>c, <2>0, <2>4 DEF PollConnected, PollEstablished, Dispatches,
       AnnounceConnected, AnnounceCanRead, CallListener, Reset, netVars
  <2>5. CASE PollCloseWait(s)
    BY <1>c, <2>0, <2>5 DEF PollCloseWait, Dispatches, HandleCloseWait,
       AnnounceCanRead, CallListener, Reset, netVars
  <2>6. CASE PollClosing(s)
    BY <1>c, <2>0, <2>s, <2>6 DEF PollClosing, DetectCloseTimeout, Dispatches,
       CloseHardwareSocket, CloseSocket, netVars, callVars
  <2>7. CASE PollInit(s) \/ PollForeign(s)
    BY <1>c, <2>0, <2>s, <2>7 DEF PollInit, PollForeign, Dispatches,
       CloseHardwareSocket, CloseSocket, netVars, callVars
  <2> QED
    BY <1>3, <2>1, <2>2, <2>3, <2>4, <2>5, <2>6, <2>7 DEF PerformIO
<1>4. CASE Continues(s)
  <2>0. HasSocket(s) /\ (pc[s] = "closed" => conn[s] = "server")
    BY <1>4 DEF Continues, ReadListenStatus, TcpServerConnectionClose,
       CloseStarts, CloseChecksAgain, CloseReadsStatus, CloseFlushes,
       CloseDisconnects, HandleCloseWaitEnds, OneThread
  <2>s. sockNum[s] \in Socks
    BY <2>0, BoundSocket
  <2>1. CASE ReadListenStatus(s)
    BY <1>c, <2>0, <2>1 DEF ReadListenStatus, netVars
  <2>2. CASE CloseStarts(s) \/ CloseChecksAgain(s)
    BY <1>c, <2>0, <2>2 DEF CloseStarts, CloseChecksAgain, CloseReadsStatus,
       CloseReturns, RecordDisconnect, netVars
  <2>3. CASE CloseFlushes(s)
    BY <1>c, <2>0, <2>3 DEF CloseFlushes, Flush, netVars, serverVars
  <2>4. CASE CloseDisconnects(s)
    BY <1>c, <2>0, <2>s, <2>4 DEF CloseDisconnects, DisconnectSocket,
       AfterDisconnect, CloseReturns, RecordDisconnect
  <2>5. CASE HandleCloseWaitEnds(s)
    BY <1>c, <2>0, <2>5 DEF HandleCloseWaitEnds, netVars
  <2> QED
    BY <1>4, <2>1, <2>2, <2>3, <2>4, <2>5 DEF Continues, TcpServerConnectionClose
<1>5. CASE Listener(s)
  <2>0. HasSocket(s) /\ conn[s] = "listener"
    BY <1>5 DEF Listener, ListenerReads, ListenerWrites, ListenerFlushes,
       ListenerCloses, ListenerReturns, OneThread
  <2>1. CASE \/ ListenerReads(s) \/ ListenerWrites(s) \/ ListenerFlushes(s)
             \/ ListenerCloses(s)
    BY <1>c, <2>0, <2>1 DEF ListenerReads, ListenerWrites, ListenerFlushes,
       ListenerCloses, netVars, serverVars, callVars
  <2>2. CASE ListenerReturns(s)
    BY <1>c, <2>0, <2>2 DEF ListenerReturns, netVars
  <2> QED BY <1>5, <2>1, <2>2 DEF Listener
<1> QED BY <1>1, <1>2, <1>3, <1>4, <1>5 DEF Server

\* A step of one socket, and the arrival of data, leave the status of the
\* others as it is.
LEMMA ChipKeepsOtherStatus ==
  ASSUME TypeOK, NEW k \in Socks, Chip(k), NEW j \in Socks, j # k \/ Receive(k)
  PROVE  sr'[j] = sr[j]
<1> sr \in [Socks -> Statuses]
  BY DEF TypeOK
<1>1. CASE Receive(k)
  BY <1>1 DEF Receive, DataArrives
<1>2. CASE Network(k) /\ j # k
  BY <1>2 DEF Network, NetworkMovesTo
<1>3. CASE ForeignUse(k) /\ j # k
  BY <1>3 DEF ForeignUse
<1> QED BY <1>1, <1>2, <1>3 DEF Chip

\* So do the chip, whose moves never reopen a connection that has ended, and
\* the users of the chip outside of the servers, who take closed sockets only.
LEMMA ChipAgreesEnvironment ==
  ASSUME TypeOK, OneThread, ChipInv, Tick \/ \E k \in Socks : Chip(k)
  PROVE  ChipInv'
<1> USE DEF TypeOK, ChipAgrees, WasOpen, StatusIsOpen, StatusIsClosing,
            OpenStatuses, ClosingStatuses
<1> SUFFICES ASSUME NEW s \in Servers, HasSocket(s)' PROVE ChipAgrees(s)'
  BY DEF ChipInv
<1>c. conn[s] = "none" <=> pc[s] \in {"idle", "picking", "listening"}
  BY DEF OneThread
<1>1. CASE Tick
  BY <1>1 DEF Tick, ChipInv, netVars, callVars
<1>2. ASSUME NEW k \in Socks, Chip(k) PROVE ChipAgrees(s)'
  <2>0. HasSocket(s) /\ ChipAgrees(s) /\ UNCHANGED <<serverVars, callVars>>
    BY <1>2 DEF Chip, Network, Receive, ForeignUse, ChipInv, serverVars
  <2>s. sockNum[s] \in Socks
    BY <2>0, BoundSocket
  <2>1. CASE sr'[sockNum[s]] = sr[sockNum[s]]
    BY <2>0, <2>1 DEF serverVars, callVars
  <2>2. CASE Network(k) /\ k = sockNum[s]
    <3>1. <<sr[k], sr'[k]>> \in NetworkMoves
      BY <2>2 DEF Network, NetworkMovesTo
    <3> QED
      BY <1>c, <2>0, <2>2, <3>1 DEF NetworkMoves, serverVars, callVars
  <2>3. CASE ForeignUse(k) /\ k = sockNum[s]
    BY <1>c, <2>0, <2>3 DEF ForeignUse, CpuIdle, serverVars, callVars
  <2>4. CASE k # sockNum[s] \/ Receive(k)
    <3>1. sr'[sockNum[s]] = sr[sockNum[s]]
      BY <1>2, <2>s, <2>4, ChipKeepsOtherStatus
    <3> QED BY <2>1, <3>1
  <2> HIDE DEF ChipAgrees
  <2> QED BY <1>2, <2>2, <2>3, <2>4 DEF Chip
<1> QED BY <1>1, <1>2

\* Every step keeps the relation of sockets and servers.
LEMMA ChipNext ==
  TypeOK /\ OneThread /\ ExclusiveBinding /\ ExclusiveBinding' /\ ChipInv
    /\ [Next]_vars => ChipInv'
<1> SUFFICES ASSUME TypeOK, OneThread, ExclusiveBinding, ExclusiveBinding',
                    ChipInv, [Next]_vars
             PROVE  ChipInv'
  OBVIOUS
<1>1. ASSUME NEW s \in Servers, Server(s) PROVE ChipInv'
  <2> SUFFICES ASSUME NEW t \in Servers, HasSocket(t)' PROVE ChipAgrees(t)'
    BY DEF ChipInv
  <2>1. CASE t = s
    BY <1>1, <2>1, ChipAgreesOwn DEF ChipInv
  <2>2. CASE t # s
    BY <1>1, <2>2, OthersUnchanged, OtherServersKeepStatus
    DEF ChipInv, ChipAgrees, WasOpen
  <2> QED BY <2>1, <2>2
<1>2. CASE Tick \/ \E k \in Socks : Chip(k)
  BY <1>2, ChipAgreesEnvironment
<1>3. CASE UNCHANGED vars
  BY <1>3 DEF ChipInv, ChipAgrees, WasOpen, vars, netVars, serverVars, callVars
<1> QED BY <1>1, <1>2, <1>3 DEF Next

\* The deadline and the assertions about connections follow from it.
LEMMA ChipInvConsequences ==
  OneThread /\ ChipInv => ClosingHasDeadline /\ ConnectionAssertions
  BY DEF OneThread, ChipInv, ChipAgrees, ClosingHasDeadline,
     ConnectionAssertions, Dispatches, Polls, CpuIdle, WasOpen, StatusIsOpen, StatusIsClosing,
     OpenStatuses, ClosingStatuses

\* That relation holds in every behaviour of servers with different ports.
LEMMA ChipInvariant == DistinctPorts /\ Spec => []ChipInv
<1> SUFFICES ASSUME DistinctPorts PROVE Spec => []ChipInv
  OBVIOUS
<1>1. Init => ChipInv
  BY SockNumAssumption DEF Init, ChipInv
<1>2. DistinctPorts /\ Spec => []ExclusiveBinding
  BY Exclusive
<1> QED BY <1>1, <1>2, TypeCorrect, ChipNext, PTL DEF Spec

\* A polled socket that is closing always has a deadline, so that the timeout
\* of DetectCloseTimeout can free it.
THEOREM DeadlineAlwaysSet == DistinctPorts /\ Spec => []ClosingHasDeadline
  BY TypeCorrect, ChipInvariant, ChipInvConsequences, PTL

\* The assertions of PerformIO about past_status for an open and for a closing
\* connection hold whatever packets come when.
THEOREM ConnectionAssertionsHold ==
  DistinctPorts /\ Spec => []ConnectionAssertions
  BY TypeCorrect, ChipInvariant, ChipInvConsequences, PTL

\* Only the disconnect at the end of TcpServerConnection::close takes a bound
\* socket from an open to a closing status.
LEMMA FinStep ==
  ASSUME TypeOK, OneThread, ExclusiveBinding, ExclusiveBinding', [Next]_vars,
         NEW s \in Servers, HasSocket(s), StatusIsOpen(SocketStatus(s)),
         StatusIsClosing(sr'[sockNum[s]])
  PROVE  CloseDisconnects(s)
<1> USE DEF TypeOK, StatusIsOpen, StatusIsClosing, OpenStatuses, ClosingStatuses
<1>s. sockNum[s] \in Socks
  BY BoundSocket
<1>u. sr'[sockNum[s]] # sr[sockNum[s]]
  OBVIOUS
<1>1. ASSUME Server(s), ~CloseDisconnects(s) PROVE FALSE
  <2>1. CASE PickClosedSocket(s) \/ ReleaseSocket(s) \/ SocketLost(s)
    BY <1>s, <1>u, <2>1 DEF PickClosedSocket, ReleaseSocket, SocketLost,
       CloseHardwareSocket, CloseSocket, netVars
  <2>2. CASE PerformIO(s)
    <3>1. CASE PollClosed(s)
      BY <3>1 DEF PollClosed, Dispatches
    <3>2. CASE ~PollClosed(s)
      BY <1>s, <1>u, <2>2, <3>2 DEF PerformIO, ConnectionEnded, PollListen,
         PollUndocumented, PollConnected, PollEstablished, PollCloseWait,
         PollClosing, DetectCloseTimeout, PollInit, PollForeign,
         CloseHardwareSocket, CloseSocket, vars, netVars
    <3> QED BY <3>1, <3>2
  <2>3. CASE Continues(s) \/ Listener(s)
    BY <1>1, <1>u, <2>3 DEF Continues, ReadListenStatus,
       TcpServerConnectionClose, CloseStarts, CloseChecksAgain,
       CloseReadsStatus, CloseFlushes, HandleCloseWaitEnds, Listener,
       ListenerReads, ListenerWrites, ListenerFlushes, ListenerCloses,
       ListenerReturns, netVars
  <2> QED BY <1>1, <2>1, <2>2, <2>3 DEF Server
<1>2. ASSUME NEW t \in Servers, Server(t), t # s PROVE FALSE
  BY <1>2, <1>u, OthersUnchanged, OtherServersKeepStatus
<1>3. CASE Tick \/ UNCHANGED vars
  BY <1>3, <1>u DEF Tick, vars, netVars
<1>4. ASSUME NEW k \in Socks, Chip(k) PROVE FALSE
  <2>1. CASE Network(k)
    <3>1. PICK status \in Statuses : NetworkMovesTo(k, status)
      BY <2>1 DEF Network
    <3> QED BY <1>s, <3>1 DEF NetworkMovesTo, NetworkMoves
  <2>2. CASE Receive(k) \/ ForeignUse(k)
    BY <1>s, <2>2 DEF Receive, DataArrives, ForeignUse
  <2> QED BY <1>4, <2>1, <2>2 DEF Chip
<1> QED BY <1>1, <1>2, <1>3, <1>4 DEF Next

\* No FIN overtakes bytes that close() has not tried to send: whoever else uses
\* the chip and whatever the peer does in the middle of close(), the buffer is
\* empty or its write error is set when an open connection starts to close.
THEOREM FinFollowsFlush == DistinctPorts /\ Spec => FinAfterFlush
<1> SUFFICES ASSUME DistinctPorts PROVE Spec => FinAfterFlush
  OBVIOUS
<1> DEFINE Fin(s) == /\ HasSocket(s) /\ StatusIsOpen(SocketStatus(s))
                     /\ StatusIsClosing(sr'[sockNum[s]])
           A == \A s \in Servers : Fin(s) => writeBuffer[s] # "unsent"
<1>1. TypeOK /\ OneThread /\ ExclusiveBinding /\ ExclusiveBinding' /\ ChipInv
        /\ [Next]_vars => [A]_vars
  <2> SUFFICES ASSUME TypeOK, OneThread, ExclusiveBinding, ExclusiveBinding',
                      ChipInv, [Next]_vars, NEW s \in Servers, Fin(s)
               PROVE  writeBuffer[s] # "unsent"
    OBVIOUS
  <2>1. CloseDisconnects(s)
    BY FinStep
  <2> QED BY <2>1 DEF CloseDisconnects, ChipInv, ChipAgrees
<1>2. Spec => []ExclusiveBinding /\ []ChipInv
  BY Exclusive, ChipInvariant
<1> QED BY <1>1, <1>2, TypeCorrect, PTL DEF Spec, FinAfterFlush

-----------------------------------------------------------------------------
(* All the assertions of PerformIO, when no packet comes between ::listen  *)
(* and the reads of its status.                                            *)

\* The step of a server keeps LISTEN in mind.
LEMMA ListenOwn ==
  ASSUME TypeOK, OneThread, NEW s \in Servers, Server(s), HasSocket(s)',
         HasSocket(s) => ChipAgrees(s) /\ ListenRemembered(s)
  PROVE  ListenRemembered(s)'
<1> USE DEF TypeOK, ListenRemembered, WasOpen, StatusIsOpen, OpenStatuses
<1>1. CASE PickClosedSocket(s)
  <2>1. PICK k \in Socks : BeginListening(s, k, "picking")
    BY <1>1 DEF PickClosedSocket
  <2>2. sr'[k] \in {"CLOSED", "INIT", "LISTEN"} /\ sockNum'[s] = k
    BY <2>1, OutcomesAssumption DEF BeginListening, InitializeTcpListenerSocket
  <2> QED BY <2>1, <2>2 DEF BeginListening
<1>2. CASE ReleaseSocket(s) \/ SocketLost(s)
  BY <1>2, SockNumAssumption DEF ReleaseSocket, SocketLost
<1>3. CASE PerformIO(s)
  <2>0. HasSocket(s) /\ pc[s] = "idle"
    BY <1>3 DEF PerformIO, ConnectionEnded, PollClosed, PollListen,
       PollUndocumented, PollConnected, PollEstablished, PollCloseWait,
       PollClosing, PollInit, PollForeign, Dispatches, Polls, CpuIdle
  <2>s. sockNum[s] \in Socks
    BY <2>0, BoundSocket
  <2>1. CASE ConnectionEnded(s)
    BY <2>0, <2>1 DEF ConnectionEnded, ChipAgrees, netVars
  <2>2. CASE PollClosed(s)
    <3>1. CASE BeginListening(s, sockNum[s], "listening")
      BY <2>s, <3>1, OutcomesAssumption
      DEF BeginListening, InitializeTcpListenerSocket
    <3>2. CASE CloseHardwareSocket(s)
               /\ UNCHANGED <<sockNum, disconnected, elapsed, callVars>>
      BY <2>0, <2>s, <3>2 DEF CloseHardwareSocket, CloseSocket, callVars
    <3> QED BY <2>2, <3>1, <3>2 DEF PollClosed
  <2>3. CASE PollListen(s) \/ PollUndocumented(s)
    BY <2>0, <2>3 DEF PollListen, PollUndocumented, Dispatches, vars, netVars,
       serverVars, callVars
  <2>4. CASE PollConnected(s) \/ PollEstablished(s) \/ PollCloseWait(s)
    BY <2>0, <2>4 DEF PollConnected, PollEstablished, PollCloseWait,
       HandleCloseWait, AnnounceConnected, AnnounceCanRead, CallListener
  <2>5. CASE PollClosing(s)
    BY <2>0, <2>s, <2>5 DEF PollClosing, DetectCloseTimeout, Dispatches,
       CloseHardwareSocket, CloseSocket, ClosingStatuses, netVars, callVars
  <2>6. CASE PollInit(s) \/ PollForeign(s)
    BY <2>0, <2>s, <2>6 DEF PollInit, PollForeign, Dispatches,
       CloseHardwareSocket, CloseSocket, netVars, callVars
  <2> QED BY <1>3, <2>1, <2>2, <2>3, <2>4, <2>5, <2>6 DEF PerformIO
<1>4. CASE Continues(s)
  <2>0. HasSocket(s) /\ (pc[s] = "closed" => conn[s] = "server")
    BY <1>4 DEF Continues, ReadListenStatus, TcpServerConnectionClose,
       CloseStarts, CloseChecksAgain, CloseReadsStatus, CloseFlushes,
       CloseDisconnects, HandleCloseWaitEnds, OneThread
  <2>1. CASE ReadListenStatus(s)
    BY <2>0, <2>1 DEF ReadListenStatus, netVars
  <2>2. CASE TcpServerConnectionClose(s)
    <3>1. pc'[s] \notin {"idle", "picking", "listening"}
      BY <2>2 DEF TcpServerConnectionClose, CloseStarts, CloseChecksAgain,
         CloseReadsStatus, CloseReturns, CloseFlushes, CloseDisconnects
    <3> QED BY <3>1
  <2>3. CASE HandleCloseWaitEnds(s)
    BY <2>0, <2>3 DEF HandleCloseWaitEnds, ChipAgrees, ClosingStatuses, netVars
  <2> QED BY <1>4, <2>1, <2>2, <2>3 DEF Continues
<1>5. CASE Listener(s)
  <2>0. HasSocket(s) /\ conn[s] = "listener" /\ pc[s] = "listener"
    BY <1>5 DEF Listener, ListenerReads, ListenerWrites, ListenerFlushes,
       ListenerCloses, ListenerReturns, OneThread
  <2>1. CASE ListenerReturns(s)
    BY <2>0, <2>1 DEF ListenerReturns, ChipAgrees, ClosingStatuses, netVars
  <2>2. CASE ~ListenerReturns(s)
    BY <1>5, <2>0, <2>2 DEF Listener, ListenerReads, ListenerWrites,
       ListenerFlushes, ListenerCloses, serverVars, callVars
  <2> QED BY <2>1, <2>2
<1> QED BY <1>1, <1>2, <1>3, <1>4, <1>5 DEF Server

\* So do the moves of the chip, which come after listen's status has been read.
LEMMA ListenEnvironment ==
  ASSUME EarlyStatuses = {}, TypeOK, NEW k \in Socks, Chip(k),
         NEW s \in Servers, HasSocket(s), ListenRemembered(s)
  PROVE  ListenRemembered(s)'
<1> USE DEF TypeOK, ListenRemembered, WasOpen, StatusIsOpen, OpenStatuses
<1>0. UNCHANGED <<serverVars, callVars>> /\ sockNum[s] \in Socks
  BY BoundSocket DEF Chip, Network, Receive, ForeignUse
<1>1. CASE sr'[sockNum[s]] = sr[sockNum[s]]
  BY <1>0, <1>1 DEF serverVars, callVars
<1>2. CASE Network(k) /\ k = sockNum[s]
  <2>1. /\ <<sr[k], sr'[k]>> \in NetworkMoves
        /\ pc[s] \notin {"picking", "listening"}
    BY <1>2 DEF Network, NetworkMovesTo
  <2> QED
    BY <1>0, <1>2, <2>1 DEF NetworkMoves, ClosingStatuses, serverVars, callVars
<1>3. CASE ForeignUse(k) /\ k = sockNum[s]
  BY <1>0, <1>3 DEF ForeignUse, CpuIdle, serverVars, callVars
<1>4. CASE k # sockNum[s] \/ Receive(k)
  <2>1. sr'[sockNum[s]] = sr[sockNum[s]]
    BY <1>0, <1>4 DEF Chip, Network, NetworkMovesTo, Receive, DataArrives,
       ForeignUse
  <2> QED BY <1>1, <2>1
<1> HIDE DEF ListenRemembered
<1> QED BY <1>2, <1>3, <1>4 DEF Chip

\* Every step does.
LEMMA ListenNext ==
  ASSUME EarlyStatuses = {}
  PROVE  TypeOK /\ OneThread /\ ExclusiveBinding /\ ExclusiveBinding' /\ ChipInv
           /\ ListenInv /\ [Next]_vars => ListenInv'
<1> SUFFICES ASSUME TypeOK, OneThread, ExclusiveBinding, ExclusiveBinding',
                    ChipInv, ListenInv, [Next]_vars,
                    NEW s \in Servers, HasSocket(s)'
             PROVE  ListenRemembered(s)'
  BY DEF ListenInv
<1>1. ASSUME NEW t \in Servers, Server(t) PROVE ListenRemembered(s)'
  <2>1. CASE t = s
    BY <1>1, <2>1, ListenOwn DEF ChipInv, ListenInv
  <2>2. CASE t # s
    BY <1>1, <2>2, OthersUnchanged, OtherServersKeepStatus
    DEF ListenInv, ListenRemembered, WasOpen
  <2> QED BY <2>1, <2>2
<1>2. CASE Tick \/ UNCHANGED vars
  BY <1>2 DEF Tick, ListenInv, ListenRemembered, WasOpen, vars, netVars,
     serverVars, callVars
<1>3. ASSUME NEW k \in Socks, Chip(k) PROVE ListenRemembered(s)'
  <2>1. HasSocket(s)
    BY <1>3 DEF Chip, Network, Receive, ForeignUse, serverVars
  <2> QED BY <1>3, <2>1, ListenEnvironment DEF ListenInv
<1> QED BY <1>1, <1>2, <1>3 DEF Next

\* If no packet moves a socket between ::listen and the reads of its status,
\* every assertion of PerformIO about past_status holds at every poll, whatever
\* servers, releases, losses, other users and peers do at other times.
THEOREM AssertionsHold ==
  DistinctPorts /\ EarlyStatuses = {} /\ Spec => []PollAssertions
<1> SUFFICES ASSUME DistinctPorts, EarlyStatuses = {}
             PROVE  Spec => []PollAssertions
  OBVIOUS
<1>1. Init => ListenInv
  BY SockNumAssumption DEF Init, ListenInv
<1>2. TypeOK /\ OneThread /\ ExclusiveBinding /\ ExclusiveBinding' /\ ChipInv
        /\ ListenInv /\ [Next]_vars => ListenInv'
  BY ListenNext
<1>3. ListenInv /\ ConnectionAssertions => PollAssertions
  BY DEF ListenInv, ListenRemembered, PollAssertions, Dispatches, Polls, CpuIdle,
     WasOpen, StatusIsOpen
<1>4. Spec => []ExclusiveBinding /\ []ChipInv /\ []ConnectionAssertions
  BY Exclusive, ChipInvariant, ConnectionAssertionsHold
<1> QED BY <1>1, <1>2, <1>3, <1>4, TypeCorrect, PTL DEF Spec

-----------------------------------------------------------------------------
(* What the listener has been told.                                        *)

\* The step of a server keeps its memory and its listener's session in agreement.
LEMMA SessionOwn ==
  ASSUME TypeOK, OneThread, NEW s \in Servers, Server(s),
         ContractAssumptions, SessionMatches(s), HasSocket(s) => ChipAgrees(s)
  PROVE  SessionMatches(s)'
<1> USE DEF TypeOK, SessionMatches, WasOpen, StatusIsOpen, OpenStatuses
<1>c. /\ conn[s] = "none" <=> pc[s] \in {"idle", "picking", "listening"}
      /\ pc[s] # "idle" => HasSocket(s)
  BY DEF OneThread
<1>1. CASE PickClosedSocket(s)
  <2>0. pc[s] = "idle" /\ ~HasSocket(s) /\ session[s] = "idle"
    BY <1>1 DEF PickClosedSocket, CpuIdle
  <2>1. CASE \E k \in Socks : BeginListening(s, k, "picking")
    <3>1. PICK k \in Socks : BeginListening(s, k, "picking")
      BY <2>1
    <3>2. sr'[k] \in {"CLOSED", "INIT", "LISTEN"} /\ sockNum'[s] = k
      BY <3>1, OutcomesAssumption DEF BeginListening, InitializeTcpListenerSocket
    <3> QED BY <1>c, <2>0, <3>1, <3>2 DEF BeginListening
  <2>2. CASE ~\E k \in Socks : BeginListening(s, k, "picking")
    BY <1>c, <1>1, <2>0, <2>2 DEF PickClosedSocket, callVars
  <2> QED BY <2>1, <2>2
<1>2. CASE ReleaseSocket(s)
  BY <1>2 DEF ReleaseSocket, ContractAssumptions
<1>3. CASE SocketLost(s)
  <2>1. pc[s] = "idle" /\ pc'[s] = "idle" /\ conn'[s] = "none"
    BY <1>3, <1>c DEF SocketLost, CpuIdle
  <2>2. session'[s] = "idle"
    BY <1>3, <2>1 DEF SocketLost, OnDisconnect, Hears
  <2>3. ~HasSocket(s)'
    BY <1>3, SockNumAssumption DEF SocketLost
  <2> QED BY <2>1, <2>2, <2>3
<1>4. CASE PerformIO(s)
  <2>0. HasSocket(s) /\ pc[s] = "idle"
    BY <1>4 DEF PerformIO, ConnectionEnded, PollClosed, PollListen,
       PollUndocumented, PollConnected, PollEstablished, PollCloseWait,
       PollClosing, PollInit, PollForeign, Dispatches, Polls, CpuIdle
  <2>s. sockNum[s] \in Socks
    BY <2>0, BoundSocket
  <2>1. CASE ConnectionEnded(s)
    BY <1>c, <2>0, <2>1 DEF ConnectionEnded, OnDisconnect, Hears
  <2>2. CASE PollClosed(s)
    <3>0. ~WasOpen(s) /\ session[s] = "idle"
      BY <2>0, <2>2 DEF PollClosed, Dispatches
    <3>1. CASE BeginListening(s, sockNum[s], "listening")
      <4>1. sr'[sockNum[s]] \in {"CLOSED", "INIT", "LISTEN"}
        BY <2>s, <3>1, OutcomesAssumption
        DEF BeginListening, InitializeTcpListenerSocket
      <4> QED BY <1>c, <2>0, <3>0, <3>1, <4>1 DEF BeginListening
    <3>2. CASE CloseHardwareSocket(s)
               /\ UNCHANGED <<sockNum, disconnected, elapsed, callVars>>
      BY <1>c, <2>0, <3>0, <3>2 DEF CloseHardwareSocket, callVars
    <3> QED BY <2>2, <3>1, <3>2 DEF PollClosed
  <2>3. CASE PollListen(s) \/ PollUndocumented(s)
    BY <1>c, <2>0, <2>3 DEF PollListen, PollUndocumented, Dispatches, vars,
       netVars, serverVars, callVars
  <2>4. CASE PollConnected(s) \/ PollEstablished(s)
    BY <1>c, <2>0, <2>4 DEF PollConnected, PollEstablished, AnnounceConnected,
       AnnounceCanRead, CallListener, Reset, Hears
  <2>5. CASE PollCloseWait(s)
    BY <1>c, <2>0, <2>5 DEF PollCloseWait, HandleCloseWait, AnnounceCanRead,
       CallListener, Reset, Hears
  <2>6. CASE PollClosing(s)
    BY <1>c, <2>0, <2>6 DEF PollClosing, DetectCloseTimeout, Dispatches,
       CloseHardwareSocket, ClosingStatuses, callVars
  <2>7. CASE PollInit(s) \/ PollForeign(s)
    BY <1>c, <2>0, <2>7 DEF PollInit, PollForeign, Dispatches,
       CloseHardwareSocket, callVars
  <2> QED
    BY <1>4, <2>1, <2>2, <2>3, <2>4, <2>5, <2>6, <2>7 DEF PerformIO
<1>5. CASE Continues(s)
  <2>0. pc[s] # "idle" /\ (pc[s] = "closed" => conn[s] = "server")
    BY <1>5 DEF Continues, ReadListenStatus, TcpServerConnectionClose,
       CloseStarts, CloseChecksAgain, CloseReadsStatus, CloseFlushes,
       CloseDisconnects, HandleCloseWaitEnds, OneThread
  <2>1. CASE ReadListenStatus(s)
    BY <1>c, <2>0, <2>1 DEF ReadListenStatus, netVars
  <2>2. CASE CloseStarts(s) \/ CloseChecksAgain(s)
    BY <1>c, <2>0, <2>2 DEF CloseStarts, CloseChecksAgain, CloseReadsStatus,
       CloseReturns, RecordDisconnect
  <2>3. CASE CloseFlushes(s)
    BY <1>c, <2>0, <2>3 DEF CloseFlushes, serverVars
  <2>4. CASE CloseDisconnects(s)
    BY <1>c, <2>0, <2>4 DEF CloseDisconnects, CloseReturns, RecordDisconnect
  <2>5. CASE HandleCloseWaitEnds(s)
    <3>1. ~StatusIsOpen(SocketStatus(s))
      BY <1>c, <2>0, <2>5 DEF HandleCloseWaitEnds, ChipAgrees
    <3> QED
      BY <1>c, <2>0, <2>5, <3>1 DEF HandleCloseWaitEnds, OnDisconnect, Hears
  <2> QED
    BY <1>5, <2>1, <2>2, <2>3, <2>4, <2>5 DEF Continues, TcpServerConnectionClose
<1>6. CASE Listener(s)
  <2>0. HasSocket(s) /\ conn[s] = "listener" /\ pc[s] = "listener"
    BY <1>6 DEF Listener, ListenerReads, ListenerWrites, ListenerFlushes,
       ListenerCloses, ListenerReturns, OneThread
  <2>1. CASE \/ ListenerReads(s) \/ ListenerWrites(s) \/ ListenerFlushes(s)
             \/ ListenerCloses(s)
    BY <1>c, <2>0, <2>1 DEF ListenerReads, ListenerWrites, ListenerFlushes,
       ListenerCloses, serverVars, callVars
  <2>2. CASE ListenerReturns(s)
    <3>1. WasOpen(s) /\ (disconnected[s] => ~StatusIsOpen(SocketStatus(s)))
      BY <2>0 DEF ChipAgrees
    <3> QED BY <1>c, <2>0, <2>2, <3>1 DEF ListenerReturns
  <2> QED BY <1>6, <2>1, <2>2 DEF Listener
<1> QED BY <1>1, <1>2, <1>3, <1>4, <1>5, <1>6 DEF Server

\* Every step does, the chip's included: before listen's status is read no
\* connection is open.
LEMMA SessionNext ==
  ASSUME ContractAssumptions
  PROVE  TypeOK /\ OneThread /\ ExclusiveBinding /\ ExclusiveBinding' /\ ChipInv
           /\ SessionInv /\ [Next]_vars => SessionInv'
<1> SUFFICES ASSUME TypeOK, OneThread, ExclusiveBinding, ExclusiveBinding',
                    ChipInv, SessionInv, [Next]_vars,
                    NEW s \in Servers
             PROVE  SessionMatches(s)'
  BY DEF SessionInv
<1>0. SessionMatches(s) /\ (pc[s] # "idle" => HasSocket(s))
  BY DEF SessionInv, OneThread
<1>1. ASSUME NEW t \in Servers, Server(t) PROVE SessionMatches(s)'
  <2>1. CASE t = s
    BY <1>0, <1>1, <2>1, SessionOwn DEF ChipInv
  <2>2. CASE t # s
    BY <1>0, <1>1, <2>2, OthersUnchanged, OtherServersKeepStatus
    DEF SessionMatches, WasOpen
  <2> QED BY <2>1, <2>2
<1>2. CASE Tick \/ UNCHANGED vars
  BY <1>0, <1>2 DEF Tick, SessionMatches, WasOpen, vars, netVars, serverVars, callVars
<1>3. ASSUME NEW k \in Socks, Chip(k) PROVE SessionMatches(s)'
  <2>1. UNCHANGED <<serverVars, callVars>>
    BY <1>3 DEF Chip, Network, Receive, ForeignUse
  <2>2. pc[s] \in {"picking", "listening"} /\ ~StatusIsOpen(SocketStatus(s))
          => ~StatusIsOpen(SocketStatus(s))'
    <3> SUFFICES ASSUME pc[s] \in {"picking", "listening"},
                        ~StatusIsOpen(SocketStatus(s))
                 PROVE  ~StatusIsOpen(SocketStatus(s))'
      OBVIOUS
    <3>1. sockNum[s] \in Socks /\ sockNum'[s] = sockNum[s]
      BY <1>0, <2>1, BoundSocket DEF serverVars
    <3>2. CASE Network(k)
      <4>1. PICK status \in Statuses :
              /\ sr' = [sr EXCEPT ![k] = status]
              /\ status \notin EarlyStatuses =>
                   \A t \in Servers :
                     sockNum[t] = k => pc[t] \notin {"picking", "listening"}
        BY <3>2 DEF Network, NetworkMovesTo
      <4>2. CASE sockNum[s] = k
        BY <3>1, <4>1, <4>2 DEF ContractAssumptions, StatusIsOpen, TypeOK
      <4>3. CASE sockNum[s] # k
        BY <3>1, <4>1, <4>3 DEF TypeOK
      <4> QED BY <4>2, <4>3
    <3>4. CASE Receive(k)
      BY <3>1, <3>4 DEF Receive, DataArrives
    <3>3. CASE ForeignUse(k)
      BY <3>3 DEF ForeignUse, CpuIdle
    <3> QED BY <1>3, <3>2, <3>3, <3>4 DEF Chip
  <2> QED BY <1>0, <2>1, <2>2 DEF SessionMatches, WasOpen, serverVars, callVars
<1> QED BY <1>1, <1>2, <1>3 DEF Next

\* So they agree in every behaviour.
LEMMA SessionInvariant == ContractAssumptions /\ Spec => []SessionInv
<1> SUFFICES ASSUME ContractAssumptions PROVE Spec => []SessionInv
  OBVIOUS
<1>1. Init => SessionInv
  BY SockNumAssumption DEF Init, SessionInv, SessionMatches
<1>2. Spec => []ExclusiveBinding
  <2>1. DistinctPorts
    BY DEF ContractAssumptions
  <2> QED BY <2>1, Exclusive
<1>3. Spec => []ChipInv
  <2>1. DistinctPorts
    BY DEF ContractAssumptions
  <2> QED BY <2>1, ChipInvariant
<1>4. TypeOK /\ OneThread /\ ExclusiveBinding /\ ExclusiveBinding' /\ ChipInv
        /\ SessionInv /\ [Next]_vars => SessionInv'
  BY SessionNext
<1> QED BY <1>1, <1>2, <1>3, <1>4, TypeCorrect, PTL DEF Spec

\* Between polls, last_status_ is open exactly while the listener is in a
\* session that nobody has ended.
THEOREM MemoryAgrees == ContractAssumptions /\ Spec => []SessionAgrees
<1>1. SessionInv => SessionAgrees
  BY DEF SessionInv, SessionMatches, SessionAgrees
<1> QED BY <1>1, SessionInvariant, PTL

-----------------------------------------------------------------------------
(* The servers implement ListenerContract.                                 *)

\* While no method runs, or the server itself closes a connection, no listener
\* is inside a callback.
LEMMA QuietWhenIdle ==
  ASSUME OneThread, CpuIdle \/ \E s \in Servers : pc[s] = "closed"
  PROVE  Contract!Quiet
  BY DEF OneThread, CpuIdle, Contract!Quiet

\* Each step of a server is a step of the contract or changes nothing of it.
LEMMA ServerContract ==
  ASSUME TypeOK, OneThread, NEW s \in Servers, Server(s),
         ContractAssumptions, SessionMatches(s), HasSocket(s) => ChipAgrees(s)
  PROVE  [Contract!Next]_(Contract!vars)
<1> USE DEF TypeOK
<1>c. /\ conn[s] = "none" <=> pc[s] \in {"idle", "picking", "listening"}
      /\ pc[s] # "idle" => HasSocket(s)
  BY DEF OneThread
<1>u. ASSUME session' = session,
             \A t \in Servers : conn'[t] = "listener" <=> conn[t] = "listener"
      PROVE  UNCHANGED Contract!vars
  BY <1>u DEF Contract!vars
<1>d. ASSUME Contract!Quiet, session[s] = "open",
             session' = [session EXCEPT ![s] = "idle"],
             \A t \in Servers : conn'[t] = "listener" <=> conn[t] = "listener"
      PROVE  Contract!Next
  <2>1. Contract!OnDisconnect(s)
    BY <1>d DEF Contract!OnDisconnect
  <2> QED BY <2>1 DEF Contract!Next
<1>1. CASE PickClosedSocket(s) \/ ReleaseSocket(s)
  BY <1>1, <1>u DEF PickClosedSocket, BeginListening, ReleaseSocket, callVars
<1>2. CASE SocketLost(s)
  <2>0. Contract!Quiet /\ pc[s] = "idle" /\ conn' = conn
    BY <1>2, QuietWhenIdle DEF SocketLost, CpuIdle
  <2>1. CASE HasSocket(s) /\ WasOpen(s)
    <3>1. session[s] = "open" /\ session' = [session EXCEPT ![s] = "idle"]
      BY <1>2, <2>0, <2>1 DEF SocketLost, OnDisconnect, Hears, SessionMatches
    <3> QED BY <1>d, <2>0, <3>1
  <2>2. CASE ~(HasSocket(s) /\ WasOpen(s))
    BY <1>2, <1>u, <2>0, <2>2 DEF SocketLost
  <2> QED BY <2>1, <2>2
<1>3. CASE PerformIO(s)
  <2>0. HasSocket(s) /\ pc[s] = "idle" /\ CpuIdle
    BY <1>3 DEF PerformIO, ConnectionEnded, PollClosed, PollListen,
       PollUndocumented, PollConnected, PollEstablished, PollCloseWait,
       PollClosing, PollInit, PollForeign, Dispatches, Polls, CpuIdle
  <2>q. Contract!Quiet
    BY <2>0, QuietWhenIdle
  <2>1. CASE ConnectionEnded(s)
    <3>1. session[s] = "open" /\ session' = [session EXCEPT ![s] = "idle"]
      BY <2>0, <2>1 DEF ConnectionEnded, OnDisconnect, Hears, SessionMatches
    <3> QED BY <1>d, <2>1, <2>q, <3>1 DEF ConnectionEnded
  <2>2. CASE PollConnected(s)
    <3>1. session[s] = "idle"
      BY <2>0, <2>2 DEF PollConnected, SessionMatches
    <3>2. /\ session' = [session EXCEPT ![s] = "open"]
          /\ conn' = [conn EXCEPT ![s] = "listener"]
      BY <2>2, <3>1 DEF PollConnected, AnnounceConnected, CallListener, Hears
    <3>3. Contract!OnConnect(s)
      BY <2>q, <3>1, <3>2 DEF Contract!OnConnect
    <3> QED BY <3>3 DEF Contract!Next
  <2>3. CASE /\ PollEstablished(s) \/ PollCloseWait(s)
             /\ AnnounceCanRead(s)
    <3>1. session[s] = "open"
      BY <2>0, <2>3 DEF PollEstablished, PollCloseWait, SessionMatches
    <3>2. session' = session /\ conn' = [conn EXCEPT ![s] = "listener"]
      BY <2>3, <3>1 DEF AnnounceCanRead, CallListener, Hears
    <3>3. Contract!OnCanRead(s)
      BY <2>q, <3>1, <3>2 DEF Contract!OnCanRead
    <3> QED BY <3>3 DEF Contract!Next
  <2>4. CASE PollCloseWait(s) /\ ~AnnounceCanRead(s)
    BY <1>c, <1>u, <2>0, <2>4 DEF PollCloseWait, HandleCloseWait
  <2>5. CASE \/ PollClosed(s) \/ PollListen(s) \/ PollUndocumented(s)
             \/ PollClosing(s) \/ PollInit(s) \/ PollForeign(s)
    BY <1>u, <2>5 DEF PollClosed, BeginListening, PollListen, PollUndocumented,
       PollClosing, PollInit, PollForeign, vars, callVars
  <2> QED
    BY <1>3, <2>1, <2>2, <2>3, <2>4, <2>5 DEF PerformIO, PollEstablished
<1>4. CASE TcpServerConnectionClose(s)
  <2>1. ASSUME CloseReturns(s), conn' = conn, conn[s] # "none"
        PROVE  [Contract!Next]_(Contract!vars)
    <3>1. CASE conn[s] = "listener" /\ session[s] = "open"
      <4>1. session' = [session EXCEPT ![s] = "idle"]
        BY <2>1, <3>1 DEF CloseReturns
      <4>2. Contract!Close(s)
        BY <2>1, <3>1, <4>1 DEF Contract!Close
      <4> QED BY <4>2 DEF Contract!Next
    <3>2. CASE ~(conn[s] = "listener" /\ session[s] = "open")
      <4>1. session' = session
        BY <2>1, <3>2 DEF CloseReturns
      <4> QED BY <1>u, <2>1, <4>1
    <3> QED BY <3>1, <3>2
  <2>2. conn[s] # "none" /\ conn' = conn
    BY <1>4, <1>c DEF TcpServerConnectionClose, CloseStarts, CloseChecksAgain,
       CloseReadsStatus, CloseFlushes, CloseDisconnects
  <2>3. CASE CloseReturns(s)
    BY <2>1, <2>2, <2>3
  <2>4. CASE ~CloseReturns(s)
    <3>1. session' = session
      BY <1>4, <2>4 DEF TcpServerConnectionClose, CloseStarts, CloseChecksAgain,
         CloseReadsStatus, CloseFlushes, CloseDisconnects
    <3> QED BY <1>u, <2>2, <3>1
  <2> QED BY <2>3, <2>4
<1>5. CASE HandleCloseWaitEnds(s)
  <2>1. Contract!Quiet /\ conn[s] = "server" /\ session[s] = "open"
    BY <1>5, QuietWhenIdle DEF HandleCloseWaitEnds, OneThread, SessionMatches
  <2>2. session' = [session EXCEPT ![s] = "idle"]
    BY <1>5, <2>1 DEF HandleCloseWaitEnds, OnDisconnect, Hears
  <2> QED BY <1>d, <1>5, <2>1, <2>2 DEF HandleCloseWaitEnds
<1>6. CASE ReadListenStatus(s)
  BY <1>u, <1>6 DEF ReadListenStatus
<1>7. CASE \/ ListenerReads(s) \/ ListenerWrites(s) \/ ListenerFlushes(s)
           \/ ListenerCloses(s)
  BY <1>u, <1>7 DEF ListenerReads, ListenerWrites, ListenerFlushes,
     ListenerCloses, callVars
<1>8. CASE ListenerReturns(s)
  <2>1. conn[s] = "listener"
    BY <1>8 DEF ListenerReturns, OneThread
  <2>2. Contract!Return(s)
    BY <1>8, <2>1 DEF ListenerReturns, Contract!Return
  <2> QED BY <2>2 DEF Contract!Next
<1> QED
  BY <1>1, <1>2, <1>3, <1>4, <1>5, <1>6, <1>7, <1>8
  DEF Server, Continues, Listener

\* Every step implements a step of ListenerContract or is invisible in it.
LEMMA ContractNext ==
  ASSUME ContractAssumptions
  PROVE  TypeOK /\ OneThread /\ ChipInv /\ SessionInv /\ [Next]_vars
           => [Contract!Next]_(Contract!vars)
<1> SUFFICES ASSUME TypeOK, OneThread, ChipInv, SessionInv, [Next]_vars
             PROVE  [Contract!Next]_(Contract!vars)
  OBVIOUS
<1>1. ASSUME NEW s \in Servers, Server(s)
      PROVE  [Contract!Next]_(Contract!vars)
  BY <1>1, ServerContract DEF ChipInv, SessionInv
<1>2. CASE Tick \/ (\E k \in Socks : Chip(k)) \/ UNCHANGED vars
  <2>1. UNCHANGED callVars
    BY <1>2 DEF Tick, Chip, Network, Receive, ForeignUse, vars
  <2> QED BY <2>1 DEF callVars, Contract!vars
<1> QED BY <1>1, <1>2 DEF Next

\* The servers implement the contract of their listeners: OnConnect, OnCanRead
\* and OnDisconnect come in order and one at a time, whatever peers, chip and
\* other servers do, as long as no sketch releases sockets, no two servers
\* share a port and no handshake ends before the status read after listen.
THEOREM ContractImplemented == ContractAssumptions /\ Spec => ListenerContractHolds
<1> SUFFICES ASSUME ContractAssumptions PROVE Spec => ListenerContractHolds
  OBVIOUS
<1>1. Init => Contract!Init
  BY DEF Init, Contract!Init
<1>2. TypeOK /\ OneThread /\ ChipInv /\ SessionInv /\ [Next]_vars
           => [Contract!Next]_(Contract!vars)
  BY ContractNext
<1>3. Spec => []ChipInv
  <2>1. DistinctPorts
    BY DEF ContractAssumptions
  <2> QED BY <2>1, ChipInvariant
<1>4. Spec => []SessionInv
  BY SessionInvariant
<1> QED
  BY <1>1, <1>2, <1>3, <1>4, TypeCorrect, PTL
  DEF Spec, ListenerContractHolds, Contract!Spec
=============================================================================
