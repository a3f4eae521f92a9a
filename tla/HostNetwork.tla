------------------------------ MODULE HostNetwork ------------------------------
(***************************************************************************)
(* HostNetwork and HostSocketInfo (extras/host/ethernet5500), which stand  *)
(* in for the chip when McuNet runs on a host: each emulated hardware      *)
(* socket is a listening or a connected BSD socket, or neither.            *)
(*                                                                         *)
(* The kernel and the peers are external.  A method makes at most one      *)
(* system call whose outcome a peer can still change, so that it is one    *)
(* step; SocketStatus accepts a connection and looks into it, but what is  *)
(* in it by then may be chosen when it is accepted.                        *)
(*                                                                         *)
(* The n-th byte a peer sends is the number n.                             *)
(***************************************************************************)
EXTENDS Integers, Sequences

CONSTANTS
  kMaxSockets,   \* number of emulated sockets
  TcpPorts,      \* the ports that listeners are asked for
  Lookup(_),     \* the port each is mapped to by --tcp_server_port_map
  MaxBytes,      \* bound on the bytes a peer sends
  MaxBacklog,    \* bound on the connections waiting for a listener
  FcntlMayFail   \* may a new listener fail to be made non-blocking?

ASSUME SocketsAssumption == kMaxSockets \in Nat \ {0}
ASSUME TcpPortsAssumption ==
  /\ TcpPorts \subseteq Nat \ {0}
  /\ \A port \in TcpPorts : Lookup(port) \in Nat \ {0}
ASSUME BoundsAssumption == MaxBytes \in Nat /\ MaxBacklog \in Nat
ASSUME ChoicesAssumption == FcntlMayFail \in BOOLEAN

VARIABLES
  info,      \* the fields of each HostSocketInfo
  open,      \* the descriptors the process has open
  backlog,   \* number of connections waiting for each listener
  peer,      \* of each connection: bytes sent by the peer and taken from the
             \* kernel, whether the peer has finished, the connection's error
             \* if any, and whether it is shut down for writing
  got,       \* the bytes of each connection that were returned, and by whom
  running    \* "up", "aborted" after a failed CHECK, "killed" by a signal,
             \* "gone" at the end

vars == <<info, open, backlog, peer, got, running>>

Socks == 0 .. kMaxSockets - 1
Errors == {"ECONNRESET", "ETIMEDOUT"}

HaveFd(fd) == fd >= 0

\* The lowest descriptor not in use.
NewFd(fds) == CHOOSE fd \in 0 .. 2 * kMaxSockets :
                fd \notin fds /\ \A lower \in 0 .. fd - 1 : lower \in fds

Unused == [listener |-> -1, tcpPort |-> 0, mappedPort |-> 0,
           connection |-> -1, canRead |-> FALSE, canWrite |-> FALSE]
NoPeer == [sent |-> 0, taken |-> 0, fin |-> FALSE, error |-> "none",
           shut |-> FALSE]

Init ==
  /\ info = [k \in Socks |-> Unused]
  /\ open = {}
  /\ backlog = [k \in Socks |-> 0]
  /\ peer = [k \in Socks |-> NoPeer]
  /\ got = [k \in Socks |-> <<>>]
  /\ running = "up"

IsListening(k) == HaveFd(info[k].listener)
IsConnected(k) == HaveFd(info[k].connection)
IsUnused(k) == ~IsListening(k) /\ ~IsConnected(k)

\* What recv of Linux does next: the data that is there, then the end if the peer
\* has sent it, then the error, which one call reports and later ones take for the
\* end.
RecvOutcome(p) ==
  IF p.taken < p.sent THEN "data"
  ELSE IF p.fin \/ p.error = "reported" THEN "eof"
  ELSE IF p.error # "none" THEN p.error ELSE "EAGAIN"

\* What CloseConnectionSocket and CloseListenerSocket leave of the fields.
WithoutConnection(i) ==
  [i EXCEPT !.connection = -1, !.canRead = FALSE, !.canWrite = FALSE]
WithoutListener(i) == [i EXCEPT !.listener = -1, !.tcpPort = 0, !.mappedPort = 0]

CloseConnectionSocket(k) ==
  /\ info' = [info EXCEPT ![k] = WithoutConnection(@)]
  /\ open' = open \ {info[k].connection}
  /\ peer' = [peer EXCEPT ![k] = NoPeer]
  /\ got' = [got EXCEPT ![k] = <<>>]
  /\ UNCHANGED <<backlog, running>>

Abort == running' = "aborted" /\ UNCHANGED <<info, open, backlog, peer, got>>

\* The CHECKs of IsUnused and IsTcpListener.
ChecksOfFields(k) ==
  IF IsListening(k)
  THEN info[k].tcpPort > 0 /\ info[k].mappedPort > 0 /\ ~IsConnected(k)
  ELSE info[k].tcpPort = 0 /\ info[k].mappedPort = 0

-----------------------------------------------------------------------------
(* Methods that change sockets.                                            *)

\* The fields and the open descriptors after an attempt to make a listener.
\* ::socket, setsockopt, ::bind or ::listen may fail, which leaves none; after a
\* failure of SetNonBlocking the new descriptor stays.
Listening(i, fd, port) ==
  [i EXCEPT !.listener = fd, !.tcpPort = port, !.mappedPort = Lookup(port)]

\* Mutant: the failures reset the fields, but do not close the descriptor.
AttemptsLeak(i, fds, port) ==
  LET fd == NewFd(fds) IN
  {<<Listening(i, fd, port), fds \cup {fd}>>, <<i, fds \cup {fd}>>}

Attempts(i, fds, port) ==
  LET fd == NewFd(fds) IN
  {<<Listening(i, fd, port), fds \cup {fd}>>, <<i, fds>>}
    \cup IF FcntlMayFail THEN {<<[i EXCEPT !.listener = fd], fds \cup {fd}>>} ELSE {}

\* Any connection is closed.  A listener for the same port is kept; any other is
\* closed, and a new one is made.
InitializeTcpListener(k, port) ==
  LET i == WithoutConnection(info[k])
      same == HaveFd(i.listener) /\ i.tcpPort = port
      kept == open \ {info[k].connection}
  IN  /\ running = "up"
      /\ \E after \in IF same THEN {<<i, kept>>}
                     ELSE Attempts(WithoutListener(i), kept \ {i.listener}, port) :
           info' = [info EXCEPT ![k] = after[1]] /\ open' = after[2]
      /\ backlog' = [backlog EXCEPT ![k] = IF same THEN @ ELSE 0]
      /\ peer' = [peer EXCEPT ![k] = NoPeer]
      /\ got' = [got EXCEPT ![k] = <<>>]
      /\ UNCHANGED running

\* Mutant: the listener stays.
AcceptedKeepingListener(k, p, readable) ==
  LET fd == NewFd(open) IN
  /\ info' = [info EXCEPT ![k] = [@ EXCEPT
                !.connection = fd, !.canRead = readable, !.canWrite = TRUE]]
  /\ open' = open \cup {fd}
  /\ backlog' = [backlog EXCEPT ![k] = 0]
  /\ peer' = [peer EXCEPT ![k] = p]
  /\ UNCHANGED <<got, running>>

\* The listener is closed, as the W5500 does not remember that it listened; the
\* kernel resets the other connections that wait for it.
Accepted(k, p, readable) ==
  LET fd == NewFd(open) IN
  /\ info' = [info EXCEPT ![k] = [WithoutListener(@) EXCEPT
                !.connection = fd, !.canRead = readable, !.canWrite = TRUE]]
  /\ open' = (open \cup {fd}) \ {info[k].listener}
  /\ backlog' = [backlog EXCEPT ![k] = 0]
  /\ peer' = [peer EXCEPT ![k] = p]
  /\ UNCHANGED <<got, running>>

\* A peer that has waited has sent something so far, and may have finished.
Waiting == [sent : 0 .. MaxBytes, taken : {0}, fin : BOOLEAN, error : {"none"},
            shut : {FALSE}]

\* ::accept on a listener that has a connection waiting.
CanAccept(k) == IsListening(k) /\ ~IsConnected(k) /\ backlog[k] > 0

AcceptConnection(k) == CanAccept(k) /\ \E p \in Waiting : Accepted(k, p, TRUE)

\* EthernetServer::accept calls it on a socket that listens.
Accept(k) == running = "up" /\ AcceptConnection(k)

\* ::shutdown for writing; it fails on a broken connection.
DisconnectSocket(k) ==
  /\ running = "up"
  /\ IsConnected(k)
  /\ peer[k].error = "none"
  /\ peer' = [peer EXCEPT ![k].shut = TRUE]
  /\ UNCHANGED <<info, open, backlog, got, running>>

CloseSocket(k) ==
  /\ running = "up"
  /\ info' = [info EXCEPT ![k] = WithoutListener(WithoutConnection(@))]
  /\ open' = open \ {info[k].connection, info[k].listener}
  /\ backlog' = [backlog EXCEPT ![k] = 0]
  /\ peer' = [peer EXCEPT ![k] = NoPeer]
  /\ got' = [got EXCEPT ![k] = <<>>]
  /\ UNCHANGED running

\* The destructors of all HostSocketInfos.
Destroy ==
  /\ running = "up"
  /\ info' = [k \in Socks |-> WithoutListener(WithoutConnection(info[k]))]
  /\ open' = open \ UNION {{info[k].connection, info[k].listener} : k \in Socks}
  /\ backlog' = [k \in Socks |-> 0]
  /\ peer' = [k \in Socks |-> NoPeer]
  /\ got' = [k \in Socks |-> <<>>]
  /\ running' = "gone"

-----------------------------------------------------------------------------
(* Methods that receive.                                                   *)

\* Mutant: "try again" is taken for the end.
IsEofOrTryAgain(outcome) == outcome \in {"eof", "EAGAIN"}

\* recv has returned 0.
IsEof(outcome) == outcome = "eof"

\* RecvInternal on a connection that has been readable so far: it takes n bytes
\* from the kernel (none when it peeks), which go to the caller of by.
RecvInternal(k, n, by) ==
  /\ running = "up"
  /\ IsConnected(k) /\ info[k].canRead
  /\ LET outcome == RecvOutcome(peer[k])
         first == peer[k].taken
         returned == [i \in 1 .. n |-> [byte |-> first + i, by |-> by]]
     IN  \/ /\ outcome = "data"
            /\ peer' = [peer EXCEPT ![k].taken = @ + n]
            /\ got' = [got EXCEPT ![k] = IF by = "nobody" THEN @ ELSE @ \o returned]
            /\ UNCHANGED <<info, open, backlog, running>>
         \/ /\ IsEof(outcome)
            /\ info' = [info EXCEPT ![k].canRead = FALSE]
            /\ UNCHANGED <<open, backlog, peer, got, running>>
         \/ outcome = "EAGAIN" /\ UNCHANGED vars
         \/ outcome = "ECONNRESET" /\ CloseConnectionSocket(k)
         \/ outcome = "ETIMEDOUT" /\ Abort

\* Mutant: AvailableBytes without MSG_PEEK.
AvailableBytesConsumes(k) == RecvInternal(k, 1, "nobody")

AvailableBytes(k) == RecvInternal(k, 0, "nobody")

\* Peek does not peek: it receives the byte, and the next Recv does not.
Peek(k) == RecvInternal(k, 1, "Peek")

\* Mutant: as many bytes as were asked for are taken to be there.
RecvTrusting(k) == \E n \in 1 .. MaxBytes : RecvInternal(k, n, "Recv")

\* recv returns as many bytes as are there, or fewer if asked for fewer.
Recv(k) ==
  \E n \in 1 .. MaxBytes :
    /\ RecvOutcome(peer[k]) = "data" => n <= peer[k].sent - peer[k].taken
    /\ RecvInternal(k, n, "Recv")

\* IsConnectionHalfClosed peeks at the next byte.  It knows data and the end;
\* anything else, "try again" included, fails its CHECK.
IsConnectionHalfClosed(k, answer) ==
  /\ IsConnected(k)
  /\ \/ answer = TRUE /\ ~info[k].canRead /\ UNCHANGED vars
     \/ /\ answer = FALSE
        /\ info[k].canRead /\ RecvOutcome(peer[k]) = "data"
        /\ UNCHANGED vars
     \/ /\ answer = TRUE
        /\ info[k].canRead /\ RecvOutcome(peer[k]) = "eof"
        /\ info' = [info EXCEPT ![k].canRead = FALSE]
        /\ UNCHANGED <<open, backlog, peer, got, running>>

HalfClosedCheckFails(k) ==
  /\ IsConnected(k) /\ info[k].canRead
  /\ RecvOutcome(peer[k]) \in {"EAGAIN"} \cup Errors
  /\ Abort

\* SocketStatus looks at the fields, accepts a waiting connection, and then asks
\* whether the connection is half closed.  If ::accept fails, for want of a
\* connection or of a descriptor, the socket listens on and a connection waits on.
SocketStatusAccepts(k, status) ==
  /\ CanAccept(k)
  /\ \E p \in Waiting :
       /\ RecvOutcome(p) = IF status = "ESTABLISHED" THEN "data" ELSE "eof"
       /\ Accepted(k, p, status = "ESTABLISHED")

SocketStatusReturns(k, status) ==
  /\ running = "up"
  /\ ChecksOfFields(k)
  /\ \/ status = "CLOSED" /\ IsUnused(k) /\ UNCHANGED vars
     \/ status = "LISTEN" /\ IsListening(k) /\ UNCHANGED vars
     \/ status \in {"ESTABLISHED", "CLOSE_WAIT"} /\ SocketStatusAccepts(k, status)
     \/ status = "ESTABLISHED" /\ IsConnectionHalfClosed(k, FALSE)
     \/ status = "CLOSE_WAIT" /\ IsConnectionHalfClosed(k, TRUE)

\* A CHECK fails on the way, also when the connection just accepted is empty.
SocketStatusAborts(k) ==
  /\ running = "up"
  /\ \/ ~ChecksOfFields(k) /\ Abort
     \/ ChecksOfFields(k) /\ CanAccept(k) /\ Abort
     \/ ChecksOfFields(k) /\ HalfClosedCheckFails(k)

SocketStatus(k) ==
  \/ \E status \in {"CLOSED", "LISTEN", "ESTABLISHED", "CLOSE_WAIT"} :
       SocketStatusReturns(k, status)
  \/ SocketStatusAborts(k)

SocketIsHalfClosed(k) ==
  /\ running = "up"
  /\ (\E answer \in BOOLEAN : IsConnectionHalfClosed(k, answer)) \/ HalfClosedCheckFails(k)

\* ::send with no flags.  The first call after the connection failed reports the
\* error; the kernel sends SIGPIPE, which nothing handles, to the writer of a
\* connection that has been shut down, that is known to have failed, or that was
\* reset after its peer had finished.  Otherwise nothing changes here.
Send(k) ==
  /\ running = "up"
  /\ IsConnected(k)
  /\ \/ /\ peer[k].error \in Errors
        /\ peer' = [peer EXCEPT ![k].error = "reported"]
        /\ UNCHANGED running
     \/ /\ \/ peer[k].shut /\ peer[k].error = "none"
           \/ peer[k].fin /\ peer[k].error = "ECONNRESET"
           \/ peer[k].error = "reported"
        /\ running' = "killed"
        /\ UNCHANGED peer
  /\ UNCHANGED <<info, open, backlog, got>>

\* IsUnused is asked of one socket after the other, up to the first unused one.
FindUnusedSocketReturns(k) ==
  /\ IsUnused(k)
  /\ \A j \in 0 .. k - 1 : ~IsUnused(j)
  /\ \A j \in 0 .. k : ChecksOfFields(j)

\* A CHECK of IsUnused may fail on the way.
FindUnusedSocketAborts ==
  /\ running = "up"
  /\ \E k \in Socks : /\ ~ChecksOfFields(k)
                      /\ \A j \in 0 .. k - 1 : ~IsUnused(j)
  /\ Abort

-----------------------------------------------------------------------------
(* The peers and the kernel.                                               *)

\* Only a socket that listens, and not one that is merely bound, is reachable.
PeerConnects(k) ==
  /\ running = "up"
  /\ IsListening(k) /\ info[k].tcpPort > 0 /\ backlog[k] < MaxBacklog
  /\ backlog' = [backlog EXCEPT ![k] = @ + 1]
  /\ UNCHANGED <<info, open, peer, got, running>>

\* Something reaches an accepted connection: data, the end, or an error, after
\* which nothing else does.
PeerActs(k) ==
  /\ running = "up"
  /\ IsConnected(k) /\ peer[k].error = "none"
  /\ \/ /\ ~peer[k].fin /\ peer[k].sent < MaxBytes
        /\ peer' = [peer EXCEPT ![k].sent = @ + 1]
     \/ ~peer[k].fin /\ peer' = [peer EXCEPT ![k].fin = TRUE]
     \/ \E error \in Errors : peer' = [peer EXCEPT ![k].error = error]
  /\ UNCHANGED <<info, open, backlog, got, running>>

Next ==
  \/ \E k \in Socks :
       \/ \E port \in TcpPorts : InitializeTcpListener(k, port)
       \/ Accept(k) \/ SocketStatus(k) \/ SocketIsHalfClosed(k)
       \/ DisconnectSocket(k) \/ CloseSocket(k)
       \/ AvailableBytes(k) \/ Peek(k) \/ Recv(k) \/ Send(k)
       \/ PeerConnects(k) \/ PeerActs(k)
  \/ FindUnusedSocketAborts
  \/ Destroy

Spec == Init /\ [][Next]_vars

-----------------------------------------------------------------------------
(* Properties.                                                             *)

Fds == 0 .. 2 * kMaxSockets

\* Every variable has its type; no more is taken from a connection than its peer
\* has sent.
TypeOK ==
  /\ info \in [Socks -> [listener : Fds \cup {-1}, tcpPort : TcpPorts \cup {0},
                         mappedPort : {0} \cup {Lookup(port) : port \in TcpPorts},
                         connection : Fds \cup {-1},
                         canRead : BOOLEAN, canWrite : BOOLEAN]]
  /\ open \subseteq Fds
  /\ backlog \in [Socks -> 0 .. MaxBacklog]
  /\ peer \in [Socks -> [sent : 0 .. MaxBytes, taken : 0 .. MaxBytes,
                         fin : BOOLEAN, error : Errors \cup {"none", "reported"},
                         shut : BOOLEAN]]
  /\ \A k \in Socks : peer[k].taken <= peer[k].sent
  /\ \A k \in Socks : Len(got[k]) <= MaxBytes
  /\ running \in {"up", "aborted", "killed", "gone"}

\* SetNonBlocking has failed in InitializeTcpListener.
HalfMade(k) ==
  FcntlMayFail /\ IsListening(k) /\ info[k] = [Unused EXCEPT !.listener = info[k].listener]

\* "IFF listening, these three are at non-default values": through every sequence
\* of calls, failures of the kernel and acts of the peers, a socket has its port
\* and mapped port exactly while it has a listener, never a listener together
\* with a connection, and may read or write only while it has a connection.  The
\* one exception is a listener that could not be made non-blocking.
OneRole ==
  \A k \in Socks : ~HalfMade(k) =>
    /\ ChecksOfFields(k)
    /\ IsListening(k) => info[k].mappedPort = Lookup(info[k].tcpPort)
    /\ info[k].canRead => info[k].canWrite
    /\ info[k].canWrite <=> IsConnected(k)

\* The descriptors the sockets refer to are open, no two references are to the
\* same one, and no other descriptor is open: none is leaked on an error path,
\* none is used after ::close, and the destructor closes all.
DescriptorsAgree ==
  LET refs == {ref \in Socks \X {"listener", "connection"} :
                 HaveFd(info[ref[1]][ref[2]])}
  IN  /\ open = {info[ref[1]][ref[2]] : ref \in refs}
      /\ \A r1, r2 \in refs :
           r1 # r2 => info[r1[1]][r1[2]] # info[r2[1]][r2[2]]

\* A connection is taken for half closed, for good, only when its peer has
\* finished or a Send was told that it failed, and all its data has been read.
EofAfterAllData ==
  \A k \in Socks : IsConnected(k) /\ ~info[k].canRead =>
    /\ peer[k].fin \/ peer[k].error = "reported"
    /\ peer[k].taken = peer[k].sent

\* Whatever other methods are called in between, and whenever the peer sends,
\* finishes or fails, the bytes of a connection are returned, by Recv or Peek, in
\* order and each exactly once: none is taken from the kernel and lost.
ReadsInOrder ==
  \A k \in Socks :
    /\ Len(got[k]) = peer[k].taken
    /\ \A i \in 1 .. Len(got[k]) : got[k][i].byte = i

\* Peek "Returns the first available byte from the socket", as the chip's does:
\* every byte that is taken from the kernel is returned by Recv.
PeekOnlyShows ==
  \A k \in Socks : \A i \in 1 .. Len(got[k]) : got[k][i].by = "Recv"

\* "IFF listening, these three are at non-default values", also after a system
\* call has failed: this is what IsUnused and IsTcpListener CHECK.  It holds
\* unless fcntl fails.
FieldChecks == \A k \in Socks : ChecksOfFields(k)

\* No CHECK fails: not those of IsUnused, and not that of IsConnectionHalfClosed,
\* which "Returns true if there is an open connection socket and the peer has
\* half-closed the connection" and is asked at each poll.
ChecksHold == running # "aborted"
=============================================================================
