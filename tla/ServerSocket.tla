----------------------------- MODULE ServerSocket -----------------------------
(***************************************************************************)
(* The ServerSocket objects of a sketch (src/server_socket.cpp), together  *)
(* with the TcpServerConnection (src/tcp_server_connection.cpp) each of    *)
(* them puts on the stack for its listener and its DisconnectData.         *)
(*                                                                         *)
(* The sketch is one thread: a method of one server runs at a time.  The   *)
(* chip is not: it may change the status of a socket between any two of    *)
(* the accesses a method makes.  An action therefore goes up to the next   *)
(* access whose outcome the chip can still change, and pc says where the   *)
(* method goes on:                                                         *)
(*   "picking", "listening"   before the two status reads that follow      *)
(*                            ::listen, the second one PickClosedSocket's; *)
(*   "listener"               inside OnConnect or OnCanRead;               *)
(*   "close" "flush" "flushed" "disconnect"                                *)
(*                            inside TcpServerConnection::close;           *)
(*   "closed"                 back in HandleCloseWait, after close.        *)
(***************************************************************************)
EXTENDS PlatformNetwork

CONSTANTS
  Servers,               \* the ServerSocket objects
  Port,                  \* their tcp_port_
  kDisconnectMaxMillis,  \* 5000 in the code
  SketchOps,             \* what the sketch does besides picking and polling
  EarlyStatuses          \* where packets may move a socket between ::listen
                         \* and the last read of its status

ASSUME PortAssumption == Port \in [Servers -> Nat \ {0}]
ASSUME MillisAssumption == kDisconnectMaxMillis \in Nat
ASSUME SketchAssumption ==
  /\ SketchOps \subseteq {"ReleaseSocket", "SocketLost", "foreign"}
  /\ EarlyStatuses \subseteq Statuses

VARIABLES
  sockNum,       \* sock_num_, MAX_SOCK_NUM when there is none
  lastStatus,    \* last_status_
  disconnected,  \* disconnect_data_.disconnected
  elapsed,       \* millis() - disconnect_time_millis, while disconnected
  pc,            \* where the method that runs goes on, or "idle"
  conn,          \* who uses the TcpServerConnection: the listener, the server
  writeBuffer,   \* its write buffer: "empty", "unsent" bytes, or bytes left
                 \* behind by a write error ("failed")
  session        \* what the listener has been told; see ListenerContract

serverVars == <<sockNum, lastStatus, disconnected, elapsed>>
callVars == <<pc, conn, writeBuffer, session>>
vars == <<netVars, serverVars, callVars>>

CpuIdle == \A s \in Servers : pc[s] = "idle"
HasSocket(s) == sockNum[s] < MAX_SOCK_NUM
SocketStatus(s) == sr[sockNum[s]]
WasOpen(s) == StatusIsOpen(lastStatus[s])
IsConnected(s) == HasSocket(s) /\ SocketIsInTcpConnectionLifecycle(sockNum[s])

SetLastStatus(s, status) == lastStatus' = [lastStatus EXCEPT ![s] = status]
Goto(s, label) == pc' = [pc EXCEPT ![s] = label]

-----------------------------------------------------------------------------
(* DisconnectData.                                                         *)

Reset(s) ==
  /\ disconnected' = [disconnected EXCEPT ![s] = FALSE]
  /\ elapsed' = [elapsed EXCEPT ![s] = 0]

\* Only the first call after a Reset sets the time.
RecordDisconnect(s) ==
  /\ disconnected' = [disconnected EXCEPT ![s] = TRUE]
  /\ elapsed' = [elapsed EXCEPT ![s] = IF disconnected[s] THEN @ ELSE 0]

-----------------------------------------------------------------------------
(* Calls of the listener.  A call that does not fit what the listener has  *)
(* been told before leaves it "confused".                                  *)

Hears(s, expected, next) ==
  session' = [session EXCEPT ![s] = IF @ = expected THEN next ELSE "confused"]

\* OnConnect and OnCanRead are given a TcpServerConnection, whose constructor
\* resets the disconnect data and whose write buffer is empty.
CallListener(s, expected) ==
  /\ Reset(s)
  /\ Hears(s, expected, "open")
  /\ conn' = [conn EXCEPT ![s] = "listener"]
  /\ Goto(s, "listener")
  /\ UNCHANGED writeBuffer

OnDisconnect(s) == Hears(s, "open", "idle")

AnnounceConnected(s) == CallListener(s, "idle")
AnnounceCanRead(s) == CallListener(s, "open")

-----------------------------------------------------------------------------
(* Listening.                                                              *)

\* BeginListening up to ::listen.  Both callers have just seen the socket
\* CLOSED, and the chip does not leave CLOSED by itself: the early returns for
\* a listening or a connected socket are not taken, and CloseHardwareSocket
\* changes nothing.
BeginListening(s, k, continue) ==
  /\ InitializeTcpListenerSocket(k, Port[s])
  /\ sockNum' = [sockNum EXCEPT ![s] = k]
  /\ SetLastStatus(s, "CLOSED")
  /\ Goto(s, continue)
  /\ UNCHANGED <<disconnected, elapsed, conn, writeBuffer, session>>

\* The reads of the status after ::listen.
ReadListenStatus(s) ==
  /\ pc[s] \in {"picking", "listening"}
  /\ SetLastStatus(s, SocketStatus(s))
  /\ Goto(s, IF pc[s] = "picking" THEN "listening" ELSE "idle")
  /\ UNCHANGED <<netVars, sockNum, disconnected, elapsed, conn, writeBuffer,
                 session>>

PickClosedSocket(s) ==
  /\ CpuIdle
  /\ ~HasSocket(s)
  /\ \/ \E k \in Socks :
          /\ FindUnusedSocketReturns(k)
          /\ CanInitializeTcpListener(k, Port[s])
          /\ BeginListening(s, k, "picking")
     \/ /\ \A k \in Socks :
             FindUnusedSocketReturns(k) => ~CanInitializeTcpListener(k, Port[s])
        /\ SetLastStatus(s, "CLOSED")
        /\ UNCHANGED <<netVars, sockNum, disconnected, elapsed, callVars>>

\* CLOSE takes effect at once, so the status read back is CLOSED.
CloseHardwareSocket(s) ==
  /\ CloseSocket(sockNum[s])
  /\ SetLastStatus(s, "CLOSED")

ReleaseSocket(s) ==
  /\ "ReleaseSocket" \in SketchOps
  /\ CpuIdle
  /\ HasSocket(s)
  /\ ~IsConnected(s)
  /\ CloseHardwareSocket(s)
  /\ sockNum' = [sockNum EXCEPT ![s] = MAX_SOCK_NUM]
  /\ UNCHANGED <<disconnected, elapsed, callVars>>

\* Mutant: the value for "no socket" is one too large.
SocketLostOffByOne(s) ==
  /\ "SocketLost" \in SketchOps
  /\ CpuIdle
  /\ IF HasSocket(s) /\ WasOpen(s) THEN OnDisconnect(s) ELSE UNCHANGED session
  /\ sockNum' = [sockNum EXCEPT ![s] = MAX_SOCK_NUM + 1]
  /\ SetLastStatus(s, "CLOSED")
  /\ RecordDisconnect(s)
  /\ UNCHANGED <<netVars, pc, conn, writeBuffer>>

\* The hardware socket is not touched: it keeps its status.
SocketLost(s) ==
  /\ "SocketLost" \in SketchOps
  /\ CpuIdle
  /\ IF HasSocket(s) /\ WasOpen(s) THEN OnDisconnect(s) ELSE UNCHANGED session
  /\ sockNum' = [sockNum EXCEPT ![s] = MAX_SOCK_NUM]
  /\ SetLastStatus(s, "CLOSED")
  /\ RecordDisconnect(s)
  /\ UNCHANGED <<netVars, pc, conn, writeBuffer>>

-----------------------------------------------------------------------------
(* PerformIO, one action for each branch.  The status is read once; unless *)
(* it says otherwise, a branch leaves last_status_ at that value.          *)

Polls(s) == CpuIdle /\ HasSocket(s)

\* Mutant: the listener is not told.
ConnectionEndedSilently(s) ==
  /\ Polls(s)
  /\ WasOpen(s) /\ ~StatusIsOpen(SocketStatus(s))
  /\ RecordDisconnect(s)
  /\ SetLastStatus(s, SocketStatus(s))
  /\ UNCHANGED <<netVars, sockNum, pc, conn, writeBuffer, session>>

\* The branch of PerformIO for a connection that ended since the last poll.
ConnectionEnded(s) ==
  /\ Polls(s)
  /\ WasOpen(s) /\ ~StatusIsOpen(SocketStatus(s))
  /\ IF disconnected[s] THEN UNCHANGED session ELSE OnDisconnect(s)
  /\ RecordDisconnect(s)
  /\ SetLastStatus(s, SocketStatus(s))
  /\ UNCHANGED <<netVars, sockNum, pc, conn, writeBuffer>>

\* The switch is reached only when that branch is not taken.
Dispatches(s, statuses) ==
  /\ Polls(s)
  /\ SocketStatus(s) \in statuses
  /\ WasOpen(s) => StatusIsOpen(SocketStatus(s))

PollClosed(s) ==
  /\ Dispatches(s, {"CLOSED"})
  /\ \/ /\ CanInitializeTcpListener(sockNum[s], Port[s])
        /\ BeginListening(s, sockNum[s], "listening")
     \/ /\ ~CanInitializeTcpListener(sockNum[s], Port[s])
        /\ CloseHardwareSocket(s)
        /\ UNCHANGED <<sockNum, disconnected, elapsed, callVars>>

\* Mutant: SYNRECV is recorded as it is.
PollListenVerbatim(s) ==
  /\ Dispatches(s, {"LISTEN", "SYNRECV"})
  /\ SetLastStatus(s, SocketStatus(s))
  /\ UNCHANGED <<netVars, sockNum, disconnected, elapsed, callVars>>

\* SYNRECV is recorded as LISTEN.
PollListen(s) ==
  /\ Dispatches(s, {"LISTEN", "SYNRECV"})
  /\ SetLastStatus(s, "LISTEN")
  /\ UNCHANGED <<netVars, sockNum, disconnected, elapsed, callVars>>

\* The status is ignored, last_status_ restored.
PollUndocumented(s) ==
  /\ Dispatches(s, {"UNDOCUMENTED"})
  /\ UNCHANGED vars

\* Mutant: a new connection is announced only if the peer still sends.
PollEstablishedOnly(s) ==
  /\ Dispatches(s, {"ESTABLISHED"})
  /\ ~WasOpen(s)
  /\ SetLastStatus(s, SocketStatus(s))
  /\ AnnounceConnected(s)
  /\ UNCHANGED <<netVars, sockNum>>

PollConnected(s) ==
  /\ Dispatches(s, OpenStatuses)
  /\ ~WasOpen(s)
  /\ SetLastStatus(s, SocketStatus(s))
  /\ AnnounceConnected(s)
  /\ UNCHANGED <<netVars, sockNum>>

PollEstablished(s) ==
  /\ Dispatches(s, {"ESTABLISHED"})
  /\ WasOpen(s)
  /\ SetLastStatus(s, "ESTABLISHED")
  /\ AnnounceCanRead(s)
  /\ UNCHANGED <<netVars, sockNum>>

\* Mutant: a half-closed connection is left to the listener.
HandleCloseWaitByReading(s) == AnnounceCanRead(s)

\* No bytes arrive in CLOSE_WAIT, so that the test for available bytes may be
\* part of the step that reads the status.
HandleCloseWait(s) ==
  \/ rx[sockNum[s]] /\ AnnounceCanRead(s)
  \/ /\ ~rx[sockNum[s]]
     /\ Reset(s)
     /\ conn' = [conn EXCEPT ![s] = "server"]
     /\ Goto(s, "close")
     /\ UNCHANGED <<writeBuffer, session>>

PollCloseWait(s) ==
  /\ Dispatches(s, {"CLOSE_WAIT"})
  /\ WasOpen(s)
  /\ SetLastStatus(s, "CLOSE_WAIT")
  /\ HandleCloseWait(s)
  /\ UNCHANGED <<netVars, sockNum>>

\* Mutant: the elapsed time is not looked at.
NoCloseTimeout(s) == SetLastStatus(s, SocketStatus(s)) /\ UNCHANGED netVars

DetectCloseTimeout(s) ==
  IF disconnected[s] /\ elapsed[s] > kDisconnectMaxMillis
  THEN CloseHardwareSocket(s)
  ELSE SetLastStatus(s, SocketStatus(s)) /\ UNCHANGED netVars

PollClosing(s) ==
  /\ Dispatches(s, ClosingStatuses)
  /\ DetectCloseTimeout(s)
  /\ UNCHANGED <<sockNum, disconnected, elapsed, callVars>>

\* A socket stuck in INIT, seen twice, is closed.
PollInit(s) ==
  /\ Dispatches(s, {"INIT"})
  /\ \/ lastStatus[s] = "INIT" /\ CloseHardwareSocket(s)
     \/ lastStatus[s] # "INIT" /\ SetLastStatus(s, "INIT") /\ UNCHANGED netVars
  /\ UNCHANGED <<sockNum, disconnected, elapsed, callVars>>

\* The socket is used for something else.
PollForeign(s) ==
  /\ Dispatches(s, {"SYNSENT", "UDP"})
  /\ CloseHardwareSocket(s)
  /\ UNCHANGED <<sockNum, disconnected, elapsed, callVars>>

PerformIO(s) ==
  \/ ConnectionEnded(s) \/ PollClosed(s) \/ PollListen(s) \/ PollUndocumented(s)
  \/ PollConnected(s) \/ PollEstablished(s) \/ PollCloseWait(s)
  \/ PollClosing(s) \/ PollInit(s) \/ PollForeign(s)

-----------------------------------------------------------------------------
(* TcpServerConnection::close, called by the listener or by HandleCloseWait. *)

\* Mutant: the disconnect is not recorded.
CloseReturnsUnrecorded(s) ==
  /\ Goto(s, IF conn[s] = "listener" THEN "listener" ELSE "closed")
  /\ session' = [session EXCEPT ![s] =
                   IF conn[s] = "listener" /\ @ = "open" THEN "idle" ELSE @]
  /\ UNCHANGED <<disconnected, elapsed>>

\* Record the disconnect and return; a listener that closes the connection
\* expects no OnDisconnect for it.
CloseReturns(s) ==
  /\ RecordDisconnect(s)
  /\ Goto(s, IF conn[s] = "listener" THEN "listener" ELSE "closed")
  /\ session' = [session EXCEPT ![s] =
                   IF conn[s] = "listener" /\ @ = "open" THEN "idle" ELSE @]

\* A status read: the label to go on at if the connection is still open.
CloseReadsStatus(s, label, continue) ==
  /\ pc[s] = label
  /\ IF StatusIsOpen(SocketStatus(s))
     THEN Goto(s, continue) /\ UNCHANGED <<disconnected, elapsed, session>>
     ELSE CloseReturns(s)
  /\ UNCHANGED <<netVars, sockNum, lastStatus, conn, writeBuffer>>

\* Mutant: close() does not flush.
CloseStartsWithoutFlush(s) == CloseReadsStatus(s, "close", "disconnect")

CloseStarts(s) == CloseReadsStatus(s, "close", "flush")

\* WriteBufferedConnection::flush, which returns nothing: the client may refuse
\* the bytes of an open connection too, and a write error stays.
Flush(s) ==
  \/ /\ writeBuffer[s] = "unsent"
     /\ \E outcome \in IF StatusIsOpen(SocketStatus(s))
                      THEN {"empty", "failed"} ELSE {"failed"} :
          writeBuffer' = [writeBuffer EXCEPT ![s] = outcome]
  \/ writeBuffer[s] # "unsent" /\ UNCHANGED writeBuffer

CloseFlushes(s) ==
  /\ pc[s] = "flush"
  /\ Flush(s)
  /\ Goto(s, "flushed")
  /\ UNCHANGED <<netVars, serverVars, conn, session>>

CloseChecksAgain(s) == CloseReadsStatus(s, "flushed", "disconnect")

CloseDisconnects(s) ==
  /\ pc[s] = "disconnect"
  /\ DisconnectSocket(sockNum[s])
  /\ CloseReturns(s)
  /\ UNCHANGED <<sockNum, lastStatus, conn, writeBuffer>>

TcpServerConnectionClose(s) ==
  CloseStarts(s) \/ CloseFlushes(s) \/ CloseChecksAgain(s) \/ CloseDisconnects(s)

\* HandleCloseWait, after close() has returned.
HandleCloseWaitEnds(s) ==
  /\ pc[s] = "closed"
  /\ SetLastStatus(s, SocketStatus(s))
  /\ OnDisconnect(s)
  /\ Goto(s, "idle")
  /\ conn' = [conn EXCEPT ![s] = "none"]
  /\ UNCHANGED <<netVars, sockNum, disconnected, elapsed, writeBuffer>>

-----------------------------------------------------------------------------
(* What a listener does with the connection it is given.                   *)

ListenerReads(s) ==
  /\ pc[s] = "listener"
  /\ rx[sockNum[s]]
  /\ rx' = [rx EXCEPT ![sockNum[s]] = FALSE]
  /\ UNCHANGED <<sr, serverPort, serverVars, callVars>>

\* A write may have to flush a full buffer, and fail; then no later one does
\* anything.
ListenerWrites(s) ==
  /\ pc[s] = "listener"
  /\ writeBuffer[s] # "failed"
  /\ \E outcome \in {"unsent", "failed"} :
       writeBuffer' = [writeBuffer EXCEPT ![s] = outcome]
  /\ UNCHANGED <<netVars, serverVars, pc, conn, session>>

ListenerFlushes(s) ==
  /\ pc[s] = "listener"
  /\ Flush(s)
  /\ UNCHANGED <<netVars, serverVars, pc, conn, session>>

ListenerCloses(s) ==
  /\ pc[s] = "listener"
  /\ Goto(s, "close")
  /\ UNCHANGED <<netVars, serverVars, conn, writeBuffer, session>>

\* Mutant: DetectListenerInitiatedDisconnect is not called.
ListenerReturnsUndetected(s) ==
  /\ pc[s] = "listener"
  /\ Goto(s, "idle")
  /\ conn' = [conn EXCEPT ![s] = "none"]
  /\ writeBuffer' = [writeBuffer EXCEPT ![s] = "empty"]
  /\ UNCHANGED <<netVars, serverVars, session>>

\* Mutant: a connection the listener has closed is taken for gone.
ListenerReturnsClosed(s) ==
  /\ pc[s] = "listener"
  /\ SetLastStatus(s, IF disconnected[s] THEN "CLOSED" ELSE lastStatus[s])
  /\ Goto(s, "idle")
  /\ conn' = [conn EXCEPT ![s] = "none"]
  /\ writeBuffer' = [writeBuffer EXCEPT ![s] = "empty"]
  /\ UNCHANGED <<netVars, sockNum, disconnected, elapsed, session>>

\* DetectListenerInitiatedDisconnect, and then the destructor of the
\* connection, which flushes its buffer or loses it.
ListenerReturns(s) ==
  /\ pc[s] = "listener"
  /\ SetLastStatus(s, IF disconnected[s] THEN SocketStatus(s) ELSE lastStatus[s])
  /\ Goto(s, "idle")
  /\ conn' = [conn EXCEPT ![s] = "none"]
  /\ writeBuffer' = [writeBuffer EXCEPT ![s] = "empty"]
  /\ UNCHANGED <<netVars, sockNum, disconnected, elapsed, session>>

-----------------------------------------------------------------------------
(* The environment: the chip, the clock, other users of the chip.          *)

\* Before the status has been read after ::listen, packets take the socket to
\* EarlyStatuses only.
Network(k) ==
  /\ \E status \in Statuses :
       /\ NetworkMovesTo(k, status)
       /\ status \notin EarlyStatuses =>
            \A s \in Servers :
              sockNum[s] = k => pc[s] \notin {"picking", "listening"}
  /\ UNCHANGED <<serverVars, callVars>>

Receive(k) == DataArrives(k) /\ UNCHANGED <<serverVars, callVars>>

\* Time passes; it is not counted beyond the first value that is too long.
Tick ==
  /\ elapsed' = [s \in Servers |->
                   IF disconnected[s] /\ elapsed[s] <= kDisconnectMaxMillis
                   THEN elapsed[s] + 1 ELSE elapsed[s]]
  /\ elapsed' # elapsed
  /\ UNCHANGED <<netVars, sockNum, lastStatus, disconnected, callVars>>

\* Another part of the sketch (a DHCP client, say) uses a closed socket,
\* without asking whether a server is bound to it.  A client connection is
\* followed up to SYNSENT only.
ForeignUse(k) ==
  /\ "foreign" \in SketchOps
  /\ CpuIdle
  /\ \/ sr[k] = "CLOSED" /\ \E status \in {"UDP", "SYNSENT"} :
                              sr' = [sr EXCEPT ![k] = status]
     \/ sr[k] \in {"UDP", "SYNSENT"} /\ sr' = [sr EXCEPT ![k] = "CLOSED"]
  /\ UNCHANGED <<rx, serverPort, serverVars, callVars>>

-----------------------------------------------------------------------------

Init ==
  /\ NetInit
  /\ sockNum = [s \in Servers |-> MAX_SOCK_NUM]
  /\ lastStatus = [s \in Servers |-> "CLOSED"]
  /\ disconnected = [s \in Servers |-> TRUE]
  /\ elapsed = [s \in Servers |-> 0]
  /\ pc = [s \in Servers |-> "idle"]
  /\ conn = [s \in Servers |-> "none"]
  /\ writeBuffer = [s \in Servers |-> "empty"]
  /\ session = [s \in Servers |-> "idle"]

Listener(s) ==
  \/ ListenerReads(s) \/ ListenerWrites(s) \/ ListenerFlushes(s)
  \/ ListenerCloses(s) \/ ListenerReturns(s)

\* What the processor does by itself once a method has started.
Continues(s) ==
  ReadListenStatus(s) \/ TcpServerConnectionClose(s) \/ HandleCloseWaitEnds(s)

Server(s) ==
  \/ PickClosedSocket(s) \/ ReleaseSocket(s) \/ SocketLost(s) \/ PerformIO(s)
  \/ Continues(s) \/ Listener(s)

Chip(k) == Network(k) \/ Receive(k) \/ ForeignUse(k)

Next == (\E s \in Servers : Server(s)) \/ (\E k \in Socks : Chip(k)) \/ Tick

Spec == Init /\ [][Next]_vars

-----------------------------------------------------------------------------
(* Fairness.  loop() runs for ever and polls every server; each callback   *)
(* returns and each method goes on; time passes.  Attempts to listen do    *)
(* not fail for ever.  Nothing is assumed of peers and chip.  A poll that  *)
(* is due may have to wait until another method returns, hence SF.         *)

ListenSucceeds(s) == PollClosed(s) /\ sr'[sockNum[s]] = "LISTEN"

Fairness ==
  /\ \A s \in Servers :
       /\ SF_vars(PerformIO(s))
       /\ SF_vars(ListenSucceeds(s))
       /\ SF_vars(ListenerReturns(s))
       /\ WF_vars(Continues(s))
  /\ WF_vars(Tick)

LiveSpec == Spec /\ Fairness

-----------------------------------------------------------------------------
(* Properties.                                                             *)

Labels ==
  {"idle", "picking", "listening", "listener", "close", "flush", "flushed",
   "disconnect", "closed"}

\* The type of every variable.
TypeOK ==
  /\ sr \in [Socks -> Statuses]
  /\ rx \in [Socks -> BOOLEAN]
  /\ serverPort \in [Socks -> Nat]
  /\ sockNum \in [Servers -> 0 .. MAX_SOCK_NUM]
  /\ lastStatus \in [Servers -> Statuses]
  /\ disconnected \in [Servers -> BOOLEAN]
  /\ elapsed \in [Servers -> 0 .. kDisconnectMaxMillis + 1]
  /\ pc \in [Servers -> Labels]
  /\ conn \in [Servers -> {"none", "listener", "server"}]
  /\ writeBuffer \in [Servers -> {"empty", "unsent", "failed"}]
  /\ session \in [Servers -> {"idle", "open", "confused"}]

DistinctPorts == \A s, t \in Servers : Port[s] = Port[t] => s = t

\* A hardware socket serves one server at a time, although a bound socket is
\* CLOSED between two connections, which is when FindUnusedSocket offers it
\* to every other server that picks a socket.
ExclusiveBinding ==
  \A s, t \in Servers :
    HasSocket(s) /\ HasSocket(t) /\ sockNum[s] = sockNum[t] => s = t

\* Between two polls, what the server remembers is what its listener was told:
\* last_status_ is open exactly when the listener is in a session, and then the
\* disconnect has not been recorded.  (PerformIO decides by last_status_ alone
\* which of OnConnect, OnCanRead and OnDisconnect it calls.)
SessionAgrees ==
  \A s \in Servers : pc[s] = "idle" =>
    /\ session[s] = "open" <=> HasSocket(s) /\ WasOpen(s)
    /\ session[s] = "open" => ~disconnected[s]

\* A socket that is closing is on the clock: whenever it is polled, the time of
\* its disconnect has been recorded, so that DetectCloseTimeout will end it.
ClosingHasDeadline ==
  \A s \in Servers :
    Polls(s) /\ StatusIsClosing(SocketStatus(s)) => disconnected[s]

\* The assertions of PerformIO about past_status for a connection that is open
\* or closing, at its lines 204 and 229: they hold at every poll that gets there.
ConnectionAssertions ==
  \A s \in Servers :
    /\ Dispatches(s, {"ESTABLISHED"}) /\ WasOpen(s) => lastStatus[s] = "ESTABLISHED"
    /\ Dispatches(s, ClosingStatuses) => StatusIsClosing(lastStatus[s])

\* All the assertions of PerformIO about past_status: besides those, the
\* VERIFY_STATUS_IS(SnSR::LISTEN, past_status) at its lines 180, 193, 200 and
\* 213.  A socket that had no connection is seen listening, connecting or
\* connected only after it was recorded as LISTEN.
PollAssertions ==
  /\ ConnectionAssertions
  /\ \A s \in Servers :
       Dispatches(s, {"LISTEN", "SYNRECV"} \cup OpenStatuses) /\ ~WasOpen(s)
         => lastStatus[s] = "LISTEN"

\* A FIN leaves only after the chip has been given what the listener wrote, or
\* has refused it: close() never disconnects an open connection whose buffer
\* it has not tried to send, wherever the peer interrupts it.
FinAfterFlush ==
  [][\A s \in Servers :
       /\ HasSocket(s) /\ StatusIsOpen(SocketStatus(s))
       /\ StatusIsClosing(sr'[sockNum[s]])
       => writeBuffer[s] # "unsent"]_vars

Contract == INSTANCE ListenerContract WITH
  inCall <- [s \in Servers |-> conn[s] = "listener"]

\* When they do: see the README for what happens otherwise.
ContractAssumptions ==
  /\ DistinctPorts
  /\ EarlyStatuses \cap OpenStatuses = {}
  /\ "ReleaseSocket" \notin SketchOps

\* The servers implement the contract of ServerSocketListener.
ListenerContractHolds == Contract!Spec

HasOpenSocket(s) == HasSocket(s) /\ StatusIsOpen(SocketStatus(s))

\* A bound socket that is closed, stuck in INIT or closing accepts connections
\* again, whatever the peer of the last connection does.
SocketRecovers ==
  \A s \in Servers :
    HasSocket(s) /\ SocketStatus(s) \in {"CLOSED", "INIT"} \cup ClosingStatuses
      ~> HasSocket(s) /\ SocketStatus(s) = "LISTEN"

\* A listener is told of the end of its connection: if the peer resets it, or
\* finishes sending and all its bytes have been read, the session ends.
DisconnectReported ==
  \A s \in Servers :
    /\ session[s] = "open"
    /\ \/ ~HasOpenSocket(s)
       \/ SocketStatus(s) = "CLOSE_WAIT" /\ ~rx[sockNum[s]]
    ~> session[s] # "open"

\* A connection that stays open is announced to the listener.
ConnectionAnnounced ==
  \A s \in Servers :
    HasOpenSocket(s) ~> session[s] = "open" \/ ~HasOpenSocket(s)

-----------------------------------------------------------------------------
(* The inductive invariant behind the safety properties.                   *)

\* _server_port remembers the server a socket is bound to.
BoundPort ==
  \A s \in Servers : HasSocket(s) => serverPort[sockNum[s]] = Port[s]

\* One method runs at a time, and only a server with a socket has anything to
\* do; the connection object exists from its callback to its return.
OneThread ==
  /\ \A s, t \in Servers : pc[s] # "idle" /\ pc[t] # "idle" => s = t
  /\ \A s \in Servers :
       /\ pc[s] # "idle" => HasSocket(s)
       /\ conn[s] = "none" <=> pc[s] \in {"idle", "picking", "listening"}
       /\ pc[s] = "listener" => conn[s] = "listener"
       /\ pc[s] = "closed" => conn[s] = "server"

\* How the status of the socket may differ from what the server knows of it,
\* between two polls, before listen's status is read, and during a callback.
ChipAgrees(s) ==
  LET status == SocketStatus(s) IN
  /\ pc[s] = "idle" =>
       /\ WasOpen(s) => status \in OpenStatuses \cup {"CLOSED", "UDP", "SYNSENT"}
       /\ StatusIsClosing(status) =>
            disconnected[s] /\ StatusIsClosing(lastStatus[s])
  /\ pc[s] \in {"picking", "listening"} => ~StatusIsClosing(status)
  /\ conn[s] # "none" =>
       /\ WasOpen(s)
       /\ status \in OpenStatuses \cup ClosingStatuses \cup {"CLOSED"}
       /\ disconnected[s] => ~StatusIsOpen(status)
       /\ ~disconnected[s] => ~StatusIsClosing(status)
  /\ conn[s] = "server" => (disconnected[s] <=> pc[s] = "closed")
  /\ pc[s] \notin {"picking", "listening"} /\ lastStatus[s] = "CLOSE_WAIT" =>
       status # "ESTABLISHED"
  /\ pc[s] \in {"flushed", "disconnect"} => writeBuffer[s] # "unsent"

ChipInv == \A s \in Servers : HasSocket(s) => ChipAgrees(s)

\* What the listener has been told, at every point of every method.
SessionMatches(s) ==
  /\ pc[s] = "idle" =>
       /\ session[s] = IF HasSocket(s) /\ WasOpen(s) THEN "open" ELSE "idle"
       /\ HasSocket(s) /\ WasOpen(s) => ~disconnected[s]
  /\ pc[s] \in {"picking", "listening"} =>
       /\ session[s] = "idle"
       /\ ~WasOpen(s)
       /\ ~StatusIsOpen(SocketStatus(s))
  /\ conn[s] = "listener" =>
       session[s] = IF disconnected[s] THEN "idle" ELSE "open"
  /\ conn[s] = "server" => session[s] = "open"

SessionInv == \A s \in Servers : SessionMatches(s)

\* When no packet comes between ::listen and the reads of its status: the
\* server remembers LISTEN from the moment its socket listens until it sees a
\* connection.
ListenRemembered(s) ==
  LET status == SocketStatus(s) IN
  /\ pc[s] = "idle" =>
       /\ status \in {"LISTEN", "UNDOCUMENTED", "SYNRECV"} => lastStatus[s] = "LISTEN"
       /\ StatusIsOpen(status) => lastStatus[s] = "LISTEN" \/ WasOpen(s)
  /\ pc[s] \in {"picking", "listening"} => status \in {"CLOSED", "INIT", "LISTEN"}

ListenInv == \A s \in Servers : HasSocket(s) => ListenRemembered(s)

-----------------------------------------------------------------------------
(* What the documentation says and the code does not do; see the README.   *)

\* CloseHardwareSocket will "inform the listener of the disconnect": no server
\* gives its socket up in the middle of a session.
ReleaseInforms == \A s \in Servers : session[s] = "open" => HasSocket(s)
=============================================================================
