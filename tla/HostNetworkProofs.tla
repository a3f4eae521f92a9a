--------------------------- MODULE HostNetworkProofs ---------------------------
(***************************************************************************)
(* The invariants of HostNetwork, for every number of sockets, every set   *)
(* of ports and every bound.                                               *)
(*                                                                         *)
(* A method changes what belongs to one socket, and the descriptors that   *)
(* are open.  So the inductive invariant has a part about each socket by   *)
(* itself (SocketInv), which a method is shown to keep for its socket, and *)
(* a part about the descriptors (FdsInv); StepKeeps puts them together.    *)
(***************************************************************************)
EXTENDS HostNetwork, FiniteSetTheorems, SequenceTheorems, WellFoundedInduction, TLAPS

-----------------------------------------------------------------------------
(* The inductive invariant.                                                *)

Info == [listener : Fds \cup {-1}, tcpPort : TcpPorts \cup {0},
         mappedPort : {0} \cup {Lookup(port) : port \in TcpPorts},
         connection : Fds \cup {-1}, canRead : BOOLEAN, canWrite : BOOLEAN]
Peer == [sent : 0 .. MaxBytes, taken : 0 .. MaxBytes, fin : BOOLEAN,
         error : Errors \cup {"none", "reported"}, shut : BOOLEAN]
Got == [byte : Nat, by : {"Recv", "Peek"}]

\* What the fields of a HostSocketInfo may be together.
UnusedInfo(i) ==
  /\ i.listener = -1 /\ i.connection = -1
  /\ i.tcpPort = 0 /\ i.mappedPort = 0 /\ i.canRead = FALSE /\ i.canWrite = FALSE
HalfMadeInfo(i) ==
  /\ FcntlMayFail /\ i.listener \in Fds /\ i.connection = -1
  /\ i.tcpPort = 0 /\ i.mappedPort = 0 /\ i.canRead = FALSE /\ i.canWrite = FALSE
ListeningInfo(i) ==
  /\ i.listener \in Fds /\ i.connection = -1
  /\ i.tcpPort \in TcpPorts /\ i.mappedPort = Lookup(i.tcpPort)
  /\ i.canRead = FALSE /\ i.canWrite = FALSE
ConnectedInfo(i) ==
  /\ i.listener = -1 /\ i.connection \in Fds
  /\ i.tcpPort = 0 /\ i.mappedPort = 0 /\ i.canWrite = TRUE

\* The bytes taken from the kernel were returned in order.
InOrder(p, g) ==
  /\ g \in Seq(Got)
  /\ Len(g) = p.taken
  /\ \A n \in 1 .. p.taken : g[n].byte = n

\* One socket by itself.  Only a listener has a backlog, and only a connection
\* a peer; a connection that is not readable any more has ended.
SocketInv(i, b, p, g) ==
  /\ i \in Info /\ b \in 0 .. MaxBacklog
  /\ p \in Peer /\ p.taken <= p.sent
  /\ InOrder(p, g)
  /\ UnusedInfo(i) \/ HalfMadeInfo(i) \/ ListeningInfo(i) \/ ConnectedInfo(i)
  /\ ~ListeningInfo(i) => b = 0
  /\ ~ConnectedInfo(i) => p = NoPeer
  /\ ConnectedInfo(i) /\ ~i.canRead =>
       (p.fin \/ p.error = "reported") /\ p.taken = p.sent

\* The one descriptor of a socket, or -1.
Fd(i) == IF HaveFd(i.listener) THEN i.listener ELSE i.connection

\* Each open descriptor belongs to exactly one socket.
FdsInv ==
  /\ open \subseteq Fds
  /\ \A k \in Socks : HaveFd(Fd(info[k])) => Fd(info[k]) \in open
  /\ \A fd \in open : \E k \in Socks : Fd(info[k]) = fd
  /\ \A j, k \in Socks : HaveFd(Fd(info[j])) /\ Fd(info[j]) = Fd(info[k]) => j = k

HostInv ==
  /\ info \in [Socks -> Info]
  /\ backlog \in [Socks -> 0 .. MaxBacklog]
  /\ peer \in [Socks -> Peer]
  /\ got \in [Socks -> Seq(Got)]
  /\ running \in {"up", "aborted", "killed", "gone"}
  /\ \A k \in Socks : SocketInv(info[k], backlog[k], peer[k], got[k])
  /\ FdsInv

-----------------------------------------------------------------------------
(* Descriptors.                                                            *)

\* A set of natural numbers that is not empty has a least element.
LEMMA LeastNatural ==
  ASSUME NEW T \in SUBSET Nat, T # {}
  PROVE  \E x \in T : \A y \in T : x <= y
<1>1. PICK x \in T : \A y \in T : <<y, x>> \notin OpToRel(<, Nat)
  BY WFMin, NatLessThanWellFounded, Zenon
<1>2. \A y \in T : ~(y < x)
  BY <1>1 DEF OpToRel
<1> QED
  BY <1>2

\* The sockets never use up the descriptors: one is free for the kernel to return.
LEMMA NewFdIsFree ==
  ASSUME FdsInv, NEW fds \in SUBSET open
  PROVE  NewFd(fds) \in Fds /\ NewFd(fds) \notin fds
<1> DEFINE free == Fds \ fds
<1>1. free # {}
  <2> SUFFICES ASSUME Fds \subseteq open
               PROVE  FALSE
    OBVIOUS
  <2> DEFINE holder == [fd \in Fds |-> CHOOSE k \in Socks : Fd(info[k]) = fd]
  <2>1. \A fd \in Fds : holder[fd] \in Socks /\ Fd(info[holder[fd]]) = fd
    BY DEF FdsInv
  <2>2. /\ IsFiniteSet(Socks) /\ Cardinality(Socks) = kMaxSockets
        /\ IsFiniteSet(Fds) /\ Cardinality(Fds) = 2 * kMaxSockets + 1
    <3>1. kMaxSockets \in Nat /\ 2 * kMaxSockets \in Nat
      BY SocketsAssumption
    <3>2. IsFiniteSet(Socks) /\ Cardinality(Socks) = kMaxSockets
      BY <3>1, FS_Interval, 0 \in Int, kMaxSockets - 1 \in Int DEF Socks
    <3>3. IsFiniteSet(Fds) /\ Cardinality(Fds) = 2 * kMaxSockets + 1
      BY <3>1, FS_Interval, 0 \in Int, 2 * kMaxSockets \in Int DEF Fds
    <3> QED BY <3>2, <3>3
  <2>3. holder \in [Fds -> Socks]
    BY <2>1
  <2>4. Cardinality(Socks) < Cardinality(Fds)
    BY <2>2, SocketsAssumption
  <2> HIDE DEF holder
  <2>5. \E x, y \in Fds : x # y /\ holder[x] = holder[y]
    BY <2>2, <2>3, <2>4, FS_PigeonHole
  <2> QED
    BY <2>1, <2>5
<1>2. PICK fd \in free : \A other \in free : fd <= other
  <2>1. free \in SUBSET Nat
    BY SocketsAssumption DEF Fds
  <2> HIDE DEF free
  <2> QED
    BY <1>1, <2>1, LeastNatural
<1>3. fd \in 0 .. 2 * kMaxSockets /\ fd \notin fds /\ \A lower \in 0 .. fd - 1 : lower \in fds
  BY <1>2, SocketsAssumption DEF Fds
<1> QED
  BY <1>3 DEF NewFd, Fds

-----------------------------------------------------------------------------
(* What every method has to show.                                          *)

\* A step that changes what belongs to socket k to i, b, p and g, and replaces
\* its descriptor, keeps the invariant.
LEMMA StepKeeps ==
  ASSUME HostInv, NEW k \in Socks, NEW i, NEW b, NEW p, NEW g,
         SocketInv(i, b, p, g),
         info' = [info EXCEPT ![k] = i],
         backlog' = [backlog EXCEPT ![k] = b],
         peer' = [peer EXCEPT ![k] = p],
         got' = [got EXCEPT ![k] = g],
         running' \in {"up", "aborted", "killed", "gone"},
         Fd(i) \notin open \ {Fd(info[k])},
         open' = (open \ {Fd(info[k])}) \cup (IF HaveFd(Fd(i)) THEN {Fd(i)} ELSE {})
  PROVE  HostInv'
<1>1. i \in Info /\ b \in 0 .. MaxBacklog /\ p \in Peer /\ g \in Seq(Got)
  BY DEF SocketInv, InOrder
<1>2. /\ info' \in [Socks -> Info]
      /\ backlog' \in [Socks -> 0 .. MaxBacklog]
      /\ peer' \in [Socks -> Peer]
  BY <1>1 DEF HostInv
<1>3. got' \in [Socks -> Seq(Got)]
  BY <1>1, Zenon DEF HostInv
<1>4. ASSUME NEW j \in Socks
      PROVE  SocketInv(info'[j], backlog'[j], peer'[j], got'[j])
  <2>1. CASE j = k
    <3>1. info'[j] = i /\ backlog'[j] = b /\ peer'[j] = p /\ got'[j] = g
      BY <2>1, Zenon DEF HostInv
    <3> QED
      BY <3>1
  <2>2. CASE j # k
    <3>1. /\ info'[j] = info[j] /\ backlog'[j] = backlog[j]
          /\ peer'[j] = peer[j] /\ got'[j] = got[j]
      BY <2>2, Zenon DEF HostInv
    <3> QED
      BY <3>1 DEF HostInv
  <2> QED
    BY <2>1, <2>2
<1>5. FdsInv'
  <2>1. \A j \in Socks : info'[j] = IF j = k THEN i ELSE info[j]
    BY DEF HostInv
  <2>2. Fd(i) \in Fds \cup {-1}
    BY <1>1 DEF Fd, Info
  <2>3. \A j \in Socks : Fd(info[j]) \in Fds \cup {-1}
    BY DEF Fd, Info, HostInv
  <2>4. \A fd \in Fds : HaveFd(fd)
    BY SocketsAssumption DEF Fds, HaveFd
  <2>5. ~HaveFd(-1)
    BY DEF HaveFd
  <2> DEFINE f(j) == Fd(info[j])
             h(j) == Fd(info'[j])
  <2>6. \A j \in Socks : h(j) = IF j = k THEN Fd(i) ELSE f(j)
    BY <2>1
  <2>7. /\ open \subseteq Fds
        /\ \A j \in Socks : HaveFd(f(j)) => f(j) \in open
        /\ \A fd \in open : \E j \in Socks : f(j) = fd
        /\ \A j, l \in Socks : HaveFd(f(j)) /\ f(j) = f(l) => j = l
    BY DEF HostInv, FdsInv
  <2>8. open' = (open \ {f(k)}) \cup (IF HaveFd(Fd(i)) THEN {Fd(i)} ELSE {})
    OBVIOUS
  <2>9. Fd(i) \notin open \ {f(k)}
    OBVIOUS
  <2>10. /\ open' \subseteq Fds
         /\ \A j \in Socks : HaveFd(h(j)) => h(j) \in open'
         /\ \A fd \in open' : \E j \in Socks : h(j) = fd
         /\ \A j, l \in Socks : HaveFd(h(j)) /\ h(j) = h(l) => j = l
    <3> HIDE DEF f, h
    <3>1. open' \subseteq Fds
      BY <2>2, <2>5, <2>7, <2>8
    <3>2. \A j \in Socks : HaveFd(h(j)) => h(j) \in open'
      BY <2>6, <2>7, <2>8
    <3>3. \A fd \in open' : \E j \in Socks : h(j) = fd
      BY <2>6, <2>7, <2>8
    <3>4. \A j, l \in Socks : HaveFd(h(j)) /\ h(j) = h(l) => j = l
      BY <2>6, <2>7, <2>9
    <3> QED
      BY <3>1, <3>2, <3>3, <3>4
  <2> QED
    BY <2>10 DEF FdsInv, Fds, Socks
<1> QED
  BY <1>2, <1>3, <1>4, <1>5 DEF HostInv

\* What the invariant says of socket k, and of the descriptors it may have.
LEMMA OfSocket ==
  ASSUME HostInv, NEW k \in Socks
  PROVE  /\ SocketInv(info[k], backlog[k], peer[k], got[k])
         /\ info[k] \in Info /\ peer[k] \in Peer
         /\ running \in {"up", "aborted", "killed", "gone"}
         /\ \A fd \in Fds : HaveFd(fd)
         /\ ~HaveFd(-1) /\ -1 \notin open /\ open \subseteq Fds
<1>1. \A fd \in Fds : HaveFd(fd)
  BY SocketsAssumption DEF Fds, HaveFd
<1>2. ~HaveFd(-1)
  BY DEF HaveFd
<1>3. open \subseteq Fds
  BY DEF HostInv, FdsInv
<1> QED
  BY <1>1, <1>2, <1>3 DEF HostInv, SocketInv

\* A step that leaves the descriptor of socket k alone.
LEMMA SameFdKeeps ==
  ASSUME HostInv, NEW k \in Socks, NEW i, NEW b, NEW p, NEW g,
         SocketInv(i, b, p, g), Fd(i) = Fd(info[k]),
         info' = [info EXCEPT ![k] = i],
         backlog' = [backlog EXCEPT ![k] = b],
         peer' = [peer EXCEPT ![k] = p],
         got' = [got EXCEPT ![k] = g],
         running' \in {"up", "aborted", "killed", "gone"},
         open' = open
  PROVE  HostInv'
<1>1. Fd(i) \notin open \ {Fd(info[k])}
  OBVIOUS
<1>2. open' = (open \ {Fd(info[k])}) \cup (IF HaveFd(Fd(i)) THEN {Fd(i)} ELSE {})
  <2>1. HaveFd(Fd(i)) => Fd(i) \in open
    BY DEF HostInv, FdsInv
  <2>2. ~HaveFd(Fd(i)) => Fd(i) \notin open
    BY OfSocket
  <2> QED
    BY <2>1, <2>2
<1> QED
  BY <1>1, <1>2, StepKeeps

\* A step that at most ends the process.
LEMMA RunningKeeps ==
  ASSUME HostInv, UNCHANGED <<info, open, backlog, peer, got>>,
         running' \in {"up", "aborted", "killed", "gone"}
  PROVE  HostInv'
<1>1. FdsInv'
  BY DEF HostInv, FdsInv, Fd
<1> QED
  BY <1>1 DEF HostInv

\* Replacing a value by itself.
LEMMA SameAt ==
  ASSUME NEW S, NEW T, NEW f \in [S -> T], NEW k \in S
  PROVE  f = [f EXCEPT ![k] = f[k]]
  OBVIOUS

\* What a step leaves alone of socket k.
LEMMA Unchanged ==
  ASSUME HostInv, NEW k \in Socks
  PROVE  /\ UNCHANGED info => info' = [info EXCEPT ![k] = info[k]]
         /\ UNCHANGED backlog => backlog' = [backlog EXCEPT ![k] = backlog[k]]
         /\ UNCHANGED peer => peer' = [peer EXCEPT ![k] = peer[k]]
         /\ UNCHANGED got => got' = [got EXCEPT ![k] = got[k]]
<1>1. /\ info = [info EXCEPT ![k] = info[k]]
      /\ backlog = [backlog EXCEPT ![k] = backlog[k]]
      /\ peer = [peer EXCEPT ![k] = peer[k]]
      /\ got = [got EXCEPT ![k] = got[k]]
  BY SameAt, Zenon DEF HostInv
<1> QED
  BY <1>1

\* A socket without a connection.
LEMMA NoConnection ==
  ASSUME NEW i \in Info, NEW b \in 0 .. MaxBacklog,
         UnusedInfo(i) \/ HalfMadeInfo(i) \/ ListeningInfo(i),
         ~ListeningInfo(i) => b = 0
  PROVE  SocketInv(i, b, NoPeer, <<>>)
<1>1. NoPeer \in Peer /\ NoPeer.taken = 0 /\ NoPeer.sent = 0
  BY BoundsAssumption DEF NoPeer, Peer
<1>2. <<>> \in Seq(Got) /\ Len(<<>>) = 0
  OBVIOUS
<1>3. InOrder(NoPeer, <<>>)
  BY <1>1, <1>2 DEF InOrder
<1>4. i.connection = -1
  BY DEF UnusedInfo, HalfMadeInfo, ListeningInfo
<1>5. ~ConnectedInfo(i)
  BY <1>4, SocketsAssumption DEF ConnectedInfo, Fds
<1> QED
  BY <1>1, <1>3, <1>5 DEF SocketInv

-----------------------------------------------------------------------------
(* Methods that change sockets.                                            *)

\* What is left of a socket's fields when its connection is closed, and then
\* its listener.
LEMMA ClosedFields ==
  ASSUME HostInv, NEW k \in Socks
  PROVE  LET i == WithoutConnection(info[k])
             u == WithoutListener(i)
         IN  /\ i \in Info /\ u \in Info
             /\ i.listener = info[k].listener /\ i.tcpPort = info[k].tcpPort
             /\ UnusedInfo(u) /\ Fd(u) = -1
             /\ ListeningInfo(info[k]) => ListeningInfo(i) /\ Fd(i) = Fd(info[k])
             /\ ConnectedInfo(info[k]) => UnusedInfo(i) /\ Fd(i) = -1
             /\ open \ {info[k].connection, info[k].listener} = open \ {Fd(info[k])}
             /\ (open \ {info[k].connection}) \ {i.listener} = open \ {Fd(info[k])}
<1> DEFINE i == WithoutConnection(info[k])
           u == WithoutListener(i)
<1>1. /\ info[k] \in Info /\ ~HaveFd(-1) /\ -1 \notin open
      /\ \A fd \in Fds : HaveFd(fd)
      /\ SocketInv(info[k], backlog[k], peer[k], got[k])
  BY OfSocket
<1>2. /\ i.listener = info[k].listener /\ i.tcpPort = info[k].tcpPort
      /\ i.mappedPort = info[k].mappedPort /\ i.connection = -1
      /\ i.canRead = FALSE /\ i.canWrite = FALSE /\ i \in Info
  BY <1>1 DEF WithoutConnection, Info
<1>3. UnusedInfo(u) /\ u \in Info
  BY <1>2 DEF WithoutListener, Info, UnusedInfo
<1>4. Fd(u) = -1
  BY <1>1, <1>3 DEF Fd, UnusedInfo
<1>5. ListeningInfo(info[k]) => ListeningInfo(i) /\ Fd(i) = Fd(info[k])
  BY <1>1, <1>2 DEF ListeningInfo, Fd
<1>6. ConnectedInfo(info[k]) => UnusedInfo(i) /\ Fd(i) = -1
  BY <1>1, <1>2 DEF ConnectedInfo, UnusedInfo, Fd
<1>7. \/ info[k].connection = -1 /\ Fd(info[k]) = info[k].listener
      \/ info[k].listener = -1 /\ Fd(info[k]) = info[k].connection
  BY <1>1 DEF SocketInv, UnusedInfo, HalfMadeInfo, ListeningInfo, ConnectedInfo, Fd
<1>8. open \ {info[k].connection, info[k].listener} = open \ {Fd(info[k])}
  BY <1>1, <1>7
<1>9. (open \ {info[k].connection}) \ {i.listener} = open \ {Fd(info[k])}
  BY <1>2, <1>8
<1> QED
  BY <1>2, <1>3, <1>4, <1>5, <1>6, <1>8, <1>9

\* CloseSocket closes the one descriptor of its socket.
LEMMA CloseSocketKeeps ==
  ASSUME HostInv, NEW k \in Socks, CloseSocket(k)
  PROVE  HostInv'
<1> DEFINE u == WithoutListener(WithoutConnection(info[k]))
<1>1. u \in Info /\ UnusedInfo(u) /\ Fd(u) = -1
  BY ClosedFields
<1>2. open' = open \ {Fd(info[k])}
  BY ClosedFields DEF CloseSocket
<1>3. /\ info' = [info EXCEPT ![k] = u] /\ backlog' = [backlog EXCEPT ![k] = 0]
      /\ peer' = [peer EXCEPT ![k] = NoPeer] /\ got' = [got EXCEPT ![k] = <<>>]
      /\ running' \in {"up", "aborted", "killed", "gone"}
  BY DEF CloseSocket
<1> HIDE DEF u
<1>4. SocketInv(u, 0, NoPeer, <<>>)
  BY <1>1, NoConnection, BoundsAssumption
<1>5. -1 \notin open /\ ~HaveFd(-1)
  BY OfSocket
<1> QED
  BY <1>1, <1>2, <1>3, <1>4, <1>5, StepKeeps

\* RecvInternal closes a connection that was reset.
LEMMA CloseConnectionKeeps ==
  ASSUME HostInv, NEW k \in Socks, IsConnected(k), CloseConnectionSocket(k)
  PROVE  HostInv'
<1> DEFINE i == WithoutConnection(info[k])
<1>1. /\ SocketInv(info[k], backlog[k], peer[k], got[k])
      /\ -1 \notin open /\ ~HaveFd(-1) /\ \A fd \in Fds : HaveFd(fd)
      /\ running \in {"up", "aborted", "killed", "gone"}
  BY OfSocket
<1>2. ConnectedInfo(info[k]) /\ backlog[k] = 0 /\ Fd(info[k]) = info[k].connection
  BY <1>1, SocketsAssumption
     DEF SocketInv, IsConnected, UnusedInfo, HalfMadeInfo, ListeningInfo, ConnectedInfo, Fd, Fds
<1>3. i \in Info /\ UnusedInfo(i) /\ Fd(i) = -1
  BY <1>2, ClosedFields
<1>4. /\ info' = [info EXCEPT ![k] = i] /\ backlog' = [backlog EXCEPT ![k] = 0]
      /\ peer' = [peer EXCEPT ![k] = NoPeer] /\ got' = [got EXCEPT ![k] = <<>>]
      /\ running' \in {"up", "aborted", "killed", "gone"}
      /\ open' = open \ {Fd(info[k])}
  BY <1>1, <1>2, Unchanged DEF CloseConnectionSocket
<1> HIDE DEF i
<1>5. SocketInv(i, 0, NoPeer, <<>>)
  BY <1>3, NoConnection, BoundsAssumption
<1> QED
  BY <1>1, <1>3, <1>4, <1>5, StepKeeps

\* What an attempt to make a listener leaves.
LEMMA AttemptsKeep ==
  ASSUME HostInv, NEW u \in Info, UnusedInfo(u), NEW fds \in SUBSET open,
         NEW port \in TcpPorts, NEW after \in Attempts(u, fds, port)
  PROVE  /\ after[1] \in Info
         /\ UnusedInfo(after[1]) \/ HalfMadeInfo(after[1]) \/ ListeningInfo(after[1])
         /\ Fd(after[1]) \notin fds
         /\ after[2] = fds \cup (IF HaveFd(Fd(after[1])) THEN {Fd(after[1])} ELSE {})
<1> DEFINE fd == NewFd(fds)
<1>1. fd \in Fds /\ fd \notin fds
  BY NewFdIsFree DEF HostInv
<1>2. /\ \A f \in Fds : HaveFd(f)
      /\ ~HaveFd(-1) /\ -1 \notin fds
  BY SocketsAssumption DEF Fds, HaveFd, HostInv, FdsInv
<1>3. \/ after = <<Listening(u, fd, port), fds \cup {fd}>>
      \/ after = <<u, fds>>
      \/ FcntlMayFail /\ after = <<[u EXCEPT !.listener = fd], fds \cup {fd}>>
  BY DEF Attempts
<1> HIDE DEF fd
<1>4. CASE after = <<Listening(u, fd, port), fds \cup {fd}>>
  <2> DEFINE l == Listening(u, fd, port)
  <2>1. l \in Info /\ ListeningInfo(l) /\ l.listener = fd
    BY <1>1 DEF Listening, Info, ListeningInfo, UnusedInfo
  <2>2. Fd(l) = fd /\ HaveFd(fd)
    BY <1>1, <1>2, <2>1 DEF Fd
  <2> QED
    BY <1>1, <1>4, <2>1, <2>2
<1>5. CASE after = <<u, fds>>
  <2>1. Fd(u) = -1
    BY <1>2 DEF Fd, UnusedInfo
  <2> QED
    BY <1>2, <1>5, <2>1
<1>6. CASE FcntlMayFail /\ after = <<[u EXCEPT !.listener = fd], fds \cup {fd}>>
  <2> DEFINE l == [u EXCEPT !.listener = fd]
  <2>1. l \in Info /\ HalfMadeInfo(l) /\ l.listener = fd
    BY <1>1, <1>6 DEF Info, HalfMadeInfo, UnusedInfo
  <2>2. Fd(l) = fd /\ HaveFd(fd)
    BY <1>1, <1>2, <2>1 DEF Fd
  <2> QED
    BY <1>1, <1>6, <2>1, <2>2
<1> QED
  BY <1>3, <1>4, <1>5, <1>6

\* InitializeTcpListener, on each of its ways out.
LEMMA InitializeTcpListenerKeeps ==
  ASSUME HostInv, NEW k \in Socks, NEW port \in TcpPorts, InitializeTcpListener(k, port)
  PROVE  HostInv'
<1> DEFINE i == WithoutConnection(info[k])
           u == WithoutListener(i)
           same == HaveFd(i.listener) /\ i.tcpPort = port
           kept == open \ {info[k].connection}
<1>1. /\ i \in Info /\ u \in Info /\ UnusedInfo(u)
      /\ i.listener = info[k].listener /\ i.tcpPort = info[k].tcpPort
      /\ ListeningInfo(info[k]) => ListeningInfo(i) /\ Fd(i) = Fd(info[k])
      /\ kept \ {i.listener} = open \ {Fd(info[k])}
  BY ClosedFields
<1>2. /\ SocketInv(info[k], backlog[k], peer[k], got[k])
      /\ -1 \notin open /\ ~HaveFd(-1) /\ \A fd \in Fds : HaveFd(fd)
  BY OfSocket
<1>3. PICK after \in IF same THEN {<<i, kept>>}
                     ELSE Attempts(u, kept \ {i.listener}, port) :
        info' = [info EXCEPT ![k] = after[1]] /\ open' = after[2]
  BY DEF InitializeTcpListener
<1>4. /\ backlog' = [backlog EXCEPT ![k] = IF same THEN backlog[k] ELSE 0]
      /\ peer' = [peer EXCEPT ![k] = NoPeer] /\ got' = [got EXCEPT ![k] = <<>>]
      /\ running' \in {"up", "aborted", "killed", "gone"}
  BY DEF InitializeTcpListener
<1> HIDE DEF i, u, kept
<1>5. CASE same
  <2>1. ListeningInfo(info[k])
    BY <1>1, <1>2, <1>5, TcpPortsAssumption
       DEF SocketInv, UnusedInfo, HalfMadeInfo, ConnectedInfo
  <2>2. open' = open
    BY <1>2, <1>3, <1>5, <2>1 DEF kept, ListeningInfo
  <2>3. SocketInv(i, backlog[k], NoPeer, <<>>)
    BY <1>1, <1>2, <2>1, NoConnection DEF SocketInv
  <2>4. after = <<i, kept>>
    BY <1>3, <1>5
  <2>5. info' = [info EXCEPT ![k] = i] /\ backlog' = [backlog EXCEPT ![k] = backlog[k]]
    BY <1>3, <1>4, <1>5, <2>4
  <2> QED
    BY <1>1, <1>4, <2>1, <2>2, <2>3, <2>5, SameFdKeeps
<1>6. CASE ~same
  <2> DEFINE fds == open \ {Fd(info[k])}
  <2>1. after \in Attempts(u, fds, port)
    BY <1>1, <1>3, <1>6
  <2>2. /\ after[1] \in Info
        /\ UnusedInfo(after[1]) \/ HalfMadeInfo(after[1]) \/ ListeningInfo(after[1])
        /\ Fd(after[1]) \notin fds
        /\ after[2] = fds \cup (IF HaveFd(Fd(after[1])) THEN {Fd(after[1])} ELSE {})
    BY <1>1, <2>1, AttemptsKeep
  <2>3. SocketInv(after[1], 0, NoPeer, <<>>)
    BY <2>2, NoConnection, BoundsAssumption
  <2>4. backlog' = [backlog EXCEPT ![k] = 0]
    BY <1>4, <1>6
  <2> QED
    BY <1>3, <1>4, <2>2, <2>3, <2>4, StepKeeps
<1> QED
  BY <1>5, <1>6

\* Only a socket that listens to a port accepts a connection.
LEMMA AcceptsFromListener ==
  ASSUME HostInv, NEW k \in Socks, CanAccept(k)
  PROVE  ListeningInfo(info[k])
  BY BoundsAssumption DEF HostInv, SocketInv, CanAccept

\* Accepting replaces the listener of a socket by a connection.
LEMMA AcceptedKeeps ==
  ASSUME HostInv, NEW k \in Socks, CanAccept(k), NEW p \in Waiting, NEW readable \in BOOLEAN,
         ~readable => p.fin /\ p.sent = 0, Accepted(k, p, readable)
  PROVE  HostInv'
<1> DEFINE fd == NewFd(open)
           i == [WithoutListener(info[k]) EXCEPT
                   !.connection = fd, !.canRead = readable, !.canWrite = TRUE]
<1>1. fd \in Fds /\ fd \notin open
  BY NewFdIsFree DEF HostInv
<1>2. /\ SocketInv(info[k], backlog[k], peer[k], got[k]) /\ info[k] \in Info
      /\ ~HaveFd(-1) /\ \A f \in Fds : HaveFd(f)
      /\ running \in {"up", "aborted", "killed", "gone"}
  BY OfSocket
<1>3. ListeningInfo(info[k])
  BY AcceptsFromListener
<1>4. Fd(info[k]) = info[k].listener /\ Fd(info[k]) \in open
  BY <1>2, <1>3 DEF Fd, ListeningInfo, HostInv, FdsInv
<1>5. /\ info' = [info EXCEPT ![k] = i] /\ backlog' = [backlog EXCEPT ![k] = 0]
      /\ peer' = [peer EXCEPT ![k] = p] /\ UNCHANGED <<got, running>>
      /\ open' = (open \cup {fd}) \ {info[k].listener}
  BY DEF Accepted
<1> HIDE DEF fd
<1>6. i \in Info /\ ConnectedInfo(i) /\ i.canRead = readable /\ i.connection = fd
  BY <1>1, <1>2, <1>3 DEF Info, WithoutListener, ListeningInfo, ConnectedInfo
<1> HIDE DEF i
<1>7. Fd(i) = fd /\ HaveFd(fd)
  BY <1>1, <1>2, <1>6 DEF Fd, ConnectedInfo
<1>8. p \in Peer /\ p.taken = 0 /\ p.taken <= p.sent
  <2>1. /\ p \in [sent : 0 .. MaxBytes, taken : {0}, fin : BOOLEAN, error : {"none"},
                   shut : {FALSE}]
        /\ p.sent \in 0 .. MaxBytes /\ p.taken = 0
    BY DEF Waiting
  <2>2. 0 \in 0 .. MaxBytes /\ 0 <= p.sent
    BY <2>1, BoundsAssumption
  <2> QED
    BY <2>1, <2>2 DEF Peer
<1>9. ~ConnectedInfo(info[k])
  BY <1>2, <1>3 DEF ConnectedInfo, ListeningInfo
<1>10. InOrder(p, got[k])
  <2>1. peer[k].taken = 0 /\ InOrder(peer[k], got[k])
    BY <1>2, <1>9 DEF SocketInv, NoPeer
  <2> QED
    BY <1>8, <2>1 DEF InOrder
<1>11. ~ListeningInfo(i)
  BY <1>2, <1>6 DEF ConnectedInfo, ListeningInfo
<1>12. SocketInv(i, 0, p, got[k])
  BY <1>6, <1>8, <1>10, <1>11, BoundsAssumption DEF SocketInv
<1>13. got' = [got EXCEPT ![k] = got[k]]
  BY <1>5, Unchanged
<1>14. open' = (open \ {Fd(info[k])}) \cup (IF HaveFd(Fd(i)) THEN {Fd(i)} ELSE {})
  BY <1>1, <1>4, <1>5, <1>7
<1>15. Fd(i) \notin open \ {Fd(info[k])}
  BY <1>1, <1>7
<1> QED
  BY <1>2, <1>5, <1>12, <1>13, <1>14, <1>15, StepKeeps

\* AcceptConnection, which finds the new connection readable.
LEMMA AcceptConnectionKeeps ==
  ASSUME HostInv, NEW k \in Socks, AcceptConnection(k)
  PROVE  HostInv'
  BY AcceptedKeeps DEF AcceptConnection

\* Destroy, and CloseAllSockets of the Ethernet class, leave no descriptor.
LEMMA ClosedAllKeeps ==
  ASSUME info' \in [Socks -> Info], \A k \in Socks : UnusedInfo(info'[k]),
         open' = {},
         backlog' = [k \in Socks |-> 0],
         peer' = [k \in Socks |-> NoPeer],
         got' = [k \in Socks |-> <<>>],
         running' \in {"up", "aborted", "killed", "gone"}
  PROVE  HostInv'
<1>1. NoPeer \in Peer /\ <<>> \in Seq(Got) /\ 0 \in 0 .. MaxBacklog
  BY BoundsAssumption DEF NoPeer, Peer
<1>2. /\ backlog' \in [Socks -> 0 .. MaxBacklog] /\ peer' \in [Socks -> Peer]
      /\ got' \in [Socks -> Seq(Got)]
  BY <1>1
<1>3. ASSUME NEW k \in Socks
      PROVE  SocketInv(info'[k], backlog'[k], peer'[k], got'[k])
  <2>1. SocketInv(info'[k], 0, NoPeer, <<>>)
    BY <1>1, NoConnection
  <2>2. backlog'[k] = 0 /\ peer'[k] = NoPeer /\ got'[k] = <<>>
    OBVIOUS
  <2> QED
    BY <2>1, <2>2
<1>4. \A k \in Socks : Fd(info'[k]) = -1
  BY DEF UnusedInfo, Fd
<1>5. ~HaveFd(-1)
  BY DEF HaveFd
<1>6. FdsInv'
  BY <1>4, <1>5 DEF FdsInv
<1> QED
  BY <1>2, <1>3, <1>6 DEF HostInv

\* The destructor of HostNetwork closes every descriptor.
LEMMA DestroyKeeps ==
  ASSUME HostInv, Destroy
  PROVE  HostInv'
<1>1. /\ info' \in [Socks -> Info]
      /\ \A k \in Socks : UnusedInfo(info'[k])
  BY ClosedFields DEF Destroy
<1>2. open' = {}
  <2>1. \A fd \in open : \E k \in Socks : fd = info[k].connection \/ fd = info[k].listener
    BY DEF HostInv, FdsInv, Fd
  <2> QED
    BY <2>1 DEF Destroy
<1> QED
  BY <1>1, <1>2, ClosedAllKeeps DEF Destroy

-----------------------------------------------------------------------------
(* Methods that receive and send, and the peers.                           *)

\* The fields of a socket that has a connection.
LEMMA ConnectedFields ==
  ASSUME HostInv, NEW k \in Socks, IsConnected(k)
  PROVE  ConnectedInfo(info[k])
<1>1. SocketInv(info[k], backlog[k], peer[k], got[k]) /\ ~HaveFd(-1)
  BY OfSocket
<1> QED
  BY <1>1 DEF SocketInv, IsConnected, UnusedInfo, HalfMadeInfo, ListeningInfo

\* A step of the connection of socket k that changes nothing but its peer, the
\* bytes returned and whether the process runs.
LEMMA PeerKeeps ==
  ASSUME HostInv, NEW k \in Socks, IsConnected(k), NEW p \in Peer, NEW g,
         p.taken <= p.sent, InOrder(p, g),
         ~info[k].canRead => (p.fin \/ p.error = "reported") /\ p.taken = p.sent,
         peer' = [peer EXCEPT ![k] = p],
         got' = [got EXCEPT ![k] = g],
         UNCHANGED <<info, open, backlog>>,
         running' \in {"up", "aborted", "killed", "gone"}
  PROVE  HostInv'
<1>1. ConnectedInfo(info[k]) /\ SocketInv(info[k], backlog[k], peer[k], got[k])
  BY ConnectedFields, OfSocket
<1>2. SocketInv(info[k], backlog[k], p, g)
  BY <1>1 DEF SocketInv
<1>3. info' = [info EXCEPT ![k] = info[k]] /\ backlog' = [backlog EXCEPT ![k] = backlog[k]]
  BY Unchanged
<1> QED
  BY <1>2, <1>3, SameFdKeeps

\* A connection is taken for half closed.
LEMMA HalfClosedKeeps ==
  ASSUME HostInv, NEW k \in Socks, IsConnected(k), RecvOutcome(peer[k]) = "eof"
  PROVE  /\ info' = [info EXCEPT ![k].canRead = FALSE]
         /\ UNCHANGED <<open, backlog, peer, got, running>>
         => HostInv'
<1> DEFINE i == [info[k] EXCEPT !.canRead = FALSE]
<1>1. /\ ConnectedInfo(info[k]) /\ SocketInv(info[k], backlog[k], peer[k], got[k])
      /\ info[k] \in Info /\ peer[k] \in Peer
      /\ running \in {"up", "aborted", "killed", "gone"}
      /\ ~HaveFd(-1) /\ \A fd \in Fds : HaveFd(fd)
  BY ConnectedFields, OfSocket
<1>2. i \in Info /\ ConnectedInfo(i) /\ Fd(i) = Fd(info[k])
  BY <1>1 DEF Info, ConnectedInfo, Fd
<1>3. ~ListeningInfo(i) /\ ~ListeningInfo(info[k])
  BY <1>1, <1>2 DEF ConnectedInfo, ListeningInfo
<1>4. ~(peer[k].taken < peer[k].sent) /\ (peer[k].fin \/ peer[k].error = "reported")
  BY <1>1 DEF RecvOutcome, Peer, Errors
<1>5. peer[k].taken = peer[k].sent
  <2>1. peer[k].taken \in 0 .. MaxBytes /\ peer[k].sent \in 0 .. MaxBytes
    BY <1>1 DEF Peer
  <2>2. peer[k].taken <= peer[k].sent
    BY <1>1 DEF SocketInv
  <2> QED
    BY <1>4, <2>1, <2>2, BoundsAssumption
<1>6. SocketInv(i, backlog[k], peer[k], got[k])
  BY <1>1, <1>2, <1>3, <1>4, <1>5 DEF SocketInv
<1>7. HAVE /\ info' = [info EXCEPT ![k].canRead = FALSE]
           /\ UNCHANGED <<open, backlog, peer, got, running>>
<1>8. info' = [info EXCEPT ![k] = i]
  BY <1>7
<1>9. /\ backlog' = [backlog EXCEPT ![k] = backlog[k]]
      /\ peer' = [peer EXCEPT ![k] = peer[k]] /\ got' = [got EXCEPT ![k] = got[k]]
      /\ open' = open /\ running' \in {"up", "aborted", "killed", "gone"}
  BY <1>1, <1>7, Unchanged
<1> HIDE DEF i
<1> QED
  BY <1>2, <1>6, <1>8, <1>9, SameFdKeeps

\* Adding the next n bytes to those that were returned.
LEMMA ReturnBytes ==
  ASSUME NEW p \in Peer, NEW g, InOrder(p, g), NEW n \in Nat, NEW by \in {"Recv", "Peek"},
         NEW q \in Peer, q.taken = p.taken + n
  PROVE  InOrder(q, g \o [i \in 1 .. n |-> [byte |-> p.taken + i, by |-> by]])
<1> DEFINE r == [i \in 1 .. n |-> [byte |-> p.taken + i, by |-> by]]
<1>1. p.taken \in Nat
  BY BoundsAssumption DEF Peer
<1>2. \A i \in 1 .. n : r[i] \in Got /\ r[i].byte = p.taken + i
  BY <1>1 DEF Got
<1>3. r \in Seq(Got) /\ Len(r) = n
  BY <1>2, IsASeq
<1>4. g \in Seq(Got) /\ Len(g) = p.taken /\ \A i \in 1 .. p.taken : g[i].byte = i
  BY DEF InOrder
<1> HIDE DEF r
<1>5. /\ g \o r \in Seq(Got) /\ Len(g \o r) = Len(g) + Len(r)
      /\ \A i \in 1 .. Len(g) + Len(r) :
           (g \o r)[i] = IF i <= Len(g) THEN g[i] ELSE r[i - Len(g)]
  BY <1>3, <1>4, ConcatProperties
<1>6. ASSUME NEW i \in 1 .. p.taken + n
      PROVE  (g \o r)[i].byte = i
  <2>1. CASE i <= p.taken
    BY <1>1, <1>3, <1>4, <1>5, <2>1
  <2>2. CASE ~(i <= p.taken)
    <3>1. i - p.taken \in 1 .. n /\ (g \o r)[i] = r[i - p.taken]
      BY <1>1, <1>3, <1>4, <1>5, <2>2
    <3>2. r[i - p.taken].byte = p.taken + (i - p.taken)
      BY <1>2, <3>1
    <3> QED
      BY <1>1, <3>1, <3>2
  <2> QED
    BY <2>1, <2>2
<1> QED
  BY <1>3, <1>4, <1>5, <1>6 DEF InOrder, r

\* Whatever RecvInternal is told, if it takes no more than there is, and gives it
\* to a caller.
LEMMA RecvInternalKeeps ==
  ASSUME HostInv, NEW k \in Socks, NEW n \in Nat,
         NEW by \in {"Recv", "Peek", "nobody"}, by = "nobody" => n = 0,
         RecvOutcome(peer[k]) = "data" => n <= peer[k].sent - peer[k].taken,
         RecvInternal(k, n, by)
  PROVE  HostInv'
<1> DEFINE outcome == RecvOutcome(peer[k])
           returned == [i \in 1 .. n |-> [byte |-> peer[k].taken + i, by |-> by]]
<1>1. /\ IsConnected(k) /\ info[k].canRead
      /\ \/ /\ outcome = "data"
            /\ peer' = [peer EXCEPT ![k].taken = @ + n]
            /\ got' = [got EXCEPT ![k] = IF by = "nobody" THEN @ ELSE @ \o returned]
            /\ UNCHANGED <<info, open, backlog, running>>
         \/ /\ outcome = "eof"
            /\ info' = [info EXCEPT ![k].canRead = FALSE]
            /\ UNCHANGED <<open, backlog, peer, got, running>>
         \/ UNCHANGED vars
         \/ CloseConnectionSocket(k)
         \/ Abort
  BY DEF RecvInternal, IsEof
<1>2. /\ SocketInv(info[k], backlog[k], peer[k], got[k])
      /\ running \in {"up", "aborted", "killed", "gone"} /\ peer[k] \in Peer
  BY OfSocket
<1>3. ASSUME outcome = "data",
             peer' = [peer EXCEPT ![k].taken = @ + n],
             got' = [got EXCEPT ![k] = IF by = "nobody" THEN @ ELSE @ \o returned],
             UNCHANGED <<info, open, backlog, running>>
      PROVE  HostInv'
  <2> DEFINE p == [peer[k] EXCEPT !.taken = @ + n]
             g == IF by = "nobody" THEN got[k] ELSE got[k] \o returned
  <2>1. peer' = [peer EXCEPT ![k] = p] /\ got' = [got EXCEPT ![k] = g]
    BY <1>3
  <2>2. /\ peer[k].taken \in Nat /\ peer[k].sent \in 0 .. MaxBytes
        /\ peer[k].taken + n <= peer[k].sent
    BY <1>2, <1>3, BoundsAssumption DEF Peer
  <2>3. peer[k].taken + n \in 0 .. MaxBytes
    BY <2>2, BoundsAssumption
  <2>4. p \in Peer /\ p.taken = peer[k].taken + n /\ p.sent = peer[k].sent
    BY <1>2, <2>3 DEF Peer
  <2>5. p.taken <= p.sent
    BY <2>2, <2>4
  <2>6. InOrder(p, g)
    <3>1. InOrder(peer[k], got[k])
      BY <1>2 DEF SocketInv
    <3>2. CASE by \in {"Recv", "Peek"}
      <4>1. g = got[k] \o returned
        BY <3>2
      <4>2. InOrder(p, got[k] \o returned)
        BY <1>2, <2>4, <3>1, <3>2, ReturnBytes
      <4> QED
        BY <4>1, <4>2
    <3>3. CASE by = "nobody" /\ n = 0
      <4>1. g = got[k] /\ p.taken = peer[k].taken
        BY <2>2, <2>4, <3>3
      <4> QED
        BY <3>1, <4>1 DEF InOrder
    <3> QED
      BY <3>2, <3>3
  <2> HIDE DEF p, g
  <2> QED
    BY <1>1, <1>2, <1>3, <2>1, <2>4, <2>5, <2>6, PeerKeeps
<1> QED
  BY <1>1, <1>2, <1>3, HalfClosedKeeps, CloseConnectionKeeps, RunningKeeps DEF vars, Abort

\* Recv and Peek.
LEMMA RecvKeeps ==
  ASSUME HostInv, NEW k \in Socks, AvailableBytes(k) \/ Peek(k) \/ Recv(k)
  PROVE  HostInv'
<1>1. peer[k].taken \in Nat /\ peer[k].sent \in Nat
  BY OfSocket, BoundsAssumption DEF Peer
<1>2. RecvOutcome(peer[k]) = "data" => peer[k].taken < peer[k].sent
  BY OfSocket DEF RecvOutcome, Peer, Errors
<1>3. CASE AvailableBytes(k)
  <2>1. RecvOutcome(peer[k]) = "data" => 0 <= peer[k].sent - peer[k].taken
    BY <1>1, <1>2
  <2>2. RecvInternal(k, 0, "nobody") /\ 0 \in Nat /\ "nobody" \in {"Recv", "Peek", "nobody"}
    BY <1>3 DEF AvailableBytes
  <2> QED
    BY <2>1, <2>2, RecvInternalKeeps, Zenon
<1>4. CASE Peek(k)
  <2>1. RecvOutcome(peer[k]) = "data" => 1 <= peer[k].sent - peer[k].taken
    BY <1>1, <1>2
  <2>2. RecvInternal(k, 1, "Peek") /\ 1 \in Nat /\ "Peek" \in {"Recv", "Peek", "nobody"}
        /\ "Peek" # "nobody"
    BY <1>4 DEF Peek
  <2> QED
    BY <2>1, <2>2, RecvInternalKeeps, Zenon
<1>5. CASE Recv(k)
  <2>1. PICK n \in 1 .. MaxBytes :
          /\ RecvOutcome(peer[k]) = "data" => n <= peer[k].sent - peer[k].taken
          /\ RecvInternal(k, n, "Recv")
    BY <1>5 DEF Recv
  <2>2. n \in Nat /\ "Recv" \in {"Recv", "Peek", "nobody"} /\ "Recv" # "nobody"
    BY BoundsAssumption
  <2> QED
    BY <2>1, <2>2, RecvInternalKeeps, Zenon
<1> QED
  BY <1>3, <1>4, <1>5

\* IsConnectionHalfClosed changes canRead at most.
LEMMA IsConnectionHalfClosedKeeps ==
  ASSUME HostInv, NEW k \in Socks, NEW answer \in BOOLEAN, IsConnectionHalfClosed(k, answer)
  PROVE  HostInv'
<1>1. CASE UNCHANGED vars
  BY <1>1, RunningKeeps DEF HostInv, vars
<1>2. CASE /\ RecvOutcome(peer[k]) = "eof"
           /\ info' = [info EXCEPT ![k].canRead = FALSE]
           /\ UNCHANGED <<open, backlog, peer, got, running>>
  BY <1>2, HalfClosedKeeps DEF IsConnectionHalfClosed
<1> QED
  BY <1>1, <1>2 DEF IsConnectionHalfClosed

\* A status query that accepts a connection and looks into it.
LEMMA SocketStatusAcceptsKeeps ==
  ASSUME HostInv, NEW k \in Socks, NEW status, SocketStatusAccepts(k, status)
  PROVE  HostInv'
<1>1. PICK p \in Waiting :
        /\ CanAccept(k)
        /\ RecvOutcome(p) = IF status = "ESTABLISHED" THEN "data" ELSE "eof"
        /\ Accepted(k, p, status = "ESTABLISHED")
  BY DEF SocketStatusAccepts
<1>2. p.sent \in 0 .. MaxBytes /\ p.taken = 0 /\ p.error = "none"
  BY DEF Waiting
<1>3. status # "ESTABLISHED" => p.fin /\ p.sent = 0
  BY <1>1, <1>2, BoundsAssumption DEF RecvOutcome
<1> DEFINE readable == status = "ESTABLISHED"
<1>4. readable \in BOOLEAN /\ (~readable => p.fin /\ p.sent = 0) /\ Accepted(k, p, readable)
  BY <1>1, <1>3
<1> HIDE DEF readable
<1> QED
  BY <1>1, <1>4, AcceptedKeeps

\* A status query that returns.
LEMMA SocketStatusReturnsKeeps ==
  ASSUME HostInv, NEW k \in Socks, NEW status, SocketStatusReturns(k, status)
  PROVE  HostInv'
<1>1. CASE UNCHANGED vars
  BY <1>1, RunningKeeps DEF HostInv, vars
<1>2. CASE SocketStatusAccepts(k, status)
  BY <1>2, SocketStatusAcceptsKeeps
<1>3. CASE \E answer \in BOOLEAN : IsConnectionHalfClosed(k, answer)
  BY <1>3, IsConnectionHalfClosedKeeps
<1> QED
  BY <1>1, <1>2, <1>3 DEF SocketStatusReturns

\* A CHECK that fails ends the process and nothing else.
LEMMA AbortKeeps ==
  ASSUME HostInv, Abort
  PROVE  HostInv'
  BY RunningKeeps DEF Abort

\* A status query whose CHECK fails.
LEMMA SocketStatusAbortsKeeps ==
  ASSUME HostInv, NEW k \in Socks, SocketStatusAborts(k)
  PROVE  HostInv'
  BY AbortKeeps DEF SocketStatusAborts, HalfClosedCheckFails

\* A step of a connection that changes one field of its peer, and takes no byte.
LEMMA PeerFieldKeeps ==
  ASSUME HostInv, NEW k \in Socks, IsConnected(k), NEW p \in Peer,
         p.taken = peer[k].taken, p.taken <= p.sent,
         ~info[k].canRead => (p.fin \/ p.error = "reported") /\ p.taken = p.sent,
         peer' = [peer EXCEPT ![k] = p],
         UNCHANGED <<info, open, backlog, got>>,
         running' \in {"up", "aborted", "killed", "gone"}
  PROVE  HostInv'
<1>1. InOrder(p, got[k])
  BY OfSocket DEF SocketInv, InOrder
<1>2. got' = [got EXCEPT ![k] = got[k]]
  BY Unchanged
<1> QED
  BY <1>1, <1>2, PeerKeeps

\* What the invariant says of a connection and its peer.
LEMMA PeerFields ==
  ASSUME HostInv, NEW k \in Socks, IsConnected(k)
  PROVE  /\ peer[k] \in Peer
         /\ peer[k].taken \in Nat /\ peer[k].sent \in 0 .. MaxBytes
         /\ peer[k].taken <= peer[k].sent
         /\ ~info[k].canRead =>
              /\ peer[k].fin \/ peer[k].error = "reported"
              /\ peer[k].taken = peer[k].sent
<1>1. ConnectedInfo(info[k]) /\ SocketInv(info[k], backlog[k], peer[k], got[k])
  BY ConnectedFields, OfSocket
<1>2. peer[k] \in Peer
  BY OfSocket
<1> QED
  BY <1>1, <1>2, BoundsAssumption DEF SocketInv, Peer

\* DisconnectSocket, which leaves the descriptor open.
LEMMA DisconnectSocketKeeps ==
  ASSUME HostInv, NEW k \in Socks
  PROVE  DisconnectSocket(k) => HostInv'
<1>1. HAVE DisconnectSocket(k)
<1> DEFINE p == [peer[k] EXCEPT !.shut = TRUE]
<1>2. IsConnected(k)
  BY <1>1 DEF DisconnectSocket
<1>3. /\ p \in Peer /\ p.taken = peer[k].taken /\ p.sent = peer[k].sent
      /\ p.fin = peer[k].fin /\ p.error = peer[k].error
  BY <1>2, PeerFields DEF Peer
<1>4. /\ peer' = [peer EXCEPT ![k] = p] /\ UNCHANGED <<info, open, backlog, got>>
      /\ running' \in {"up", "aborted", "killed", "gone"}
  BY <1>1 DEF DisconnectSocket
<1> HIDE DEF p
<1> QED
  BY <1>2, <1>3, <1>4, PeerFields, PeerFieldKeeps

\* Send may take the error of the connection, or end the process.
LEMMA SendKeeps ==
  ASSUME HostInv, NEW k \in Socks
  PROVE  Send(k) => HostInv'
<1>1. HAVE Send(k)
<1>2. IsConnected(k)
  BY <1>1 DEF Send
<1>3. CASE /\ peer[k].error \in Errors
           /\ peer' = [peer EXCEPT ![k].error = "reported"]
           /\ running' = running
  <2> DEFINE p == [peer[k] EXCEPT !.error = "reported"]
  <2>1. /\ p \in Peer /\ p.taken = peer[k].taken /\ p.sent = peer[k].sent
        /\ p.error = "reported"
    BY <1>2, PeerFields DEF Peer
  <2>2. /\ peer' = [peer EXCEPT ![k] = p] /\ UNCHANGED <<info, open, backlog, got>>
        /\ running' \in {"up", "aborted", "killed", "gone"}
    BY <1>1, <1>3, OfSocket DEF Send
  <2> HIDE DEF p
  <2> QED
    BY <1>2, <2>1, <2>2, PeerFields, PeerFieldKeeps
<1>4. CASE running' = "killed" /\ UNCHANGED peer
  BY <1>1, <1>4, RunningKeeps DEF Send
<1> QED
  BY <1>1, <1>3, <1>4 DEF Send

\* What the peer of a connection does.
LEMMA PeerActsKeeps ==
  ASSUME HostInv, NEW k \in Socks
  PROVE  PeerActs(k) => HostInv'
<1>1. HAVE PeerActs(k)
<1>2. IsConnected(k) /\ peer[k].error = "none"
  BY <1>1 DEF PeerActs
<1>3. /\ UNCHANGED <<info, open, backlog, got>>
      /\ running' \in {"up", "aborted", "killed", "gone"}
  BY <1>1 DEF PeerActs
<1>4. CASE /\ ~peer[k].fin /\ peer[k].sent < MaxBytes
           /\ peer' = [peer EXCEPT ![k].sent = @ + 1]
  <2> DEFINE p == [peer[k] EXCEPT !.sent = @ + 1]
  <2>1. peer[k].sent + 1 \in 0 .. MaxBytes
    BY <1>2, <1>4, PeerFields, BoundsAssumption
  <2>2. p \in Peer /\ p.taken = peer[k].taken /\ p.sent = peer[k].sent + 1
    BY <1>2, <2>1, PeerFields DEF Peer
  <2>3. p.taken <= p.sent /\ info[k].canRead
    <3>1. info[k].canRead
      BY <1>2, <1>4, PeerFields
    <3> QED
      BY <1>2, <2>2, <3>1, PeerFields
  <2>4. peer' = [peer EXCEPT ![k] = p]
    BY <1>4
  <2> HIDE DEF p
  <2> QED
    BY <1>2, <1>3, <2>2, <2>3, <2>4, PeerFieldKeeps
<1>5. CASE ~peer[k].fin /\ peer' = [peer EXCEPT ![k].fin = TRUE]
  <2> DEFINE p == [peer[k] EXCEPT !.fin = TRUE]
  <2>1. p \in Peer /\ p.taken = peer[k].taken /\ p.sent = peer[k].sent /\ p.fin
    BY <1>2, PeerFields DEF Peer
  <2>2. peer' = [peer EXCEPT ![k] = p]
    BY <1>5
  <2> HIDE DEF p
  <2> QED
    BY <1>2, <1>3, <2>1, <2>2, PeerFields, PeerFieldKeeps
<1>6. ASSUME NEW error \in Errors, peer' = [peer EXCEPT ![k].error = error]
      PROVE  HostInv'
  <2> DEFINE p == [peer[k] EXCEPT !.error = error]
  <2>1. /\ p \in Peer /\ p.taken = peer[k].taken /\ p.sent = peer[k].sent
        /\ p.fin = peer[k].fin
    BY <1>2, PeerFields DEF Peer
  <2>2. peer' = [peer EXCEPT ![k] = p]
    BY <1>6
  <2> HIDE DEF p
  <2> QED
    BY <1>2, <1>3, <2>1, <2>2, PeerFields, PeerFieldKeeps
<1> QED
  BY <1>1, <1>4, <1>5, <1>6 DEF PeerActs

\* A new connection waits at a listener.
LEMMA PeerConnectsKeeps ==
  ASSUME HostInv, NEW k \in Socks, PeerConnects(k)
  PROVE  HostInv'
<1>1. /\ SocketInv(info[k], backlog[k], peer[k], got[k])
      /\ info[k].tcpPort > 0 /\ IsListening(k) /\ ~HaveFd(-1)
      /\ backlog[k] + 1 \in 0 .. MaxBacklog
  BY OfSocket, BoundsAssumption DEF PeerConnects, SocketInv
<1>2. ListeningInfo(info[k])
  BY <1>1 DEF SocketInv, UnusedInfo, HalfMadeInfo, ConnectedInfo
<1>3. SocketInv(info[k], backlog[k] + 1, peer[k], got[k])
  BY <1>1, <1>2 DEF SocketInv
<1>4. /\ info' = [info EXCEPT ![k] = info[k]]
      /\ peer' = [peer EXCEPT ![k] = peer[k]] /\ got' = [got EXCEPT ![k] = got[k]]
      /\ backlog' = [backlog EXCEPT ![k] = backlog[k] + 1]
      /\ open' = open /\ running' \in {"up", "aborted", "killed", "gone"}
  BY Unchanged DEF PeerConnects
<1> QED
  BY <1>3, <1>4, SameFdKeeps

-----------------------------------------------------------------------------
(* The theorems.                                                           *)

\* At first no socket is used.
LEMMA HostInvInit == Init => HostInv
<1> SUFFICES ASSUME Init
             PROVE  HostInv
  OBVIOUS
<1>1. Unused \in Info /\ UnusedInfo(Unused) /\ Fd(Unused) = -1
  BY DEF Unused, Info, UnusedInfo, Fd, HaveFd
<1>2. NoPeer \in Peer /\ <<>> \in Seq(Got) /\ 0 \in 0 .. MaxBacklog
  BY BoundsAssumption DEF NoPeer, Peer
<1>3. SocketInv(Unused, 0, NoPeer, <<>>)
  BY <1>1, <1>2, NoConnection
<1>4. \A k \in Socks : /\ info[k] = Unused /\ backlog[k] = 0
                       /\ peer[k] = NoPeer /\ got[k] = <<>>
  BY DEF Init
<1>5. FdsInv
  BY <1>1, <1>4 DEF FdsInv, Init, HaveFd
<1>6. /\ info \in [Socks -> Info] /\ backlog \in [Socks -> 0 .. MaxBacklog]
      /\ peer \in [Socks -> Peer] /\ got \in [Socks -> Seq(Got)] /\ running = "up"
  BY <1>1, <1>2 DEF Init
<1> QED
  BY <1>3, <1>4, <1>5, <1>6 DEF HostInv

\* Every step keeps the invariant.
LEMMA HostInvNext == HostInv /\ [Next]_vars => HostInv'
<1> SUFFICES ASSUME HostInv, [Next]_vars
             PROVE  HostInv'
  OBVIOUS
<1>1. ASSUME NEW k \in Socks, NEW port \in TcpPorts, InitializeTcpListener(k, port)
      PROVE  HostInv'
  BY <1>1, InitializeTcpListenerKeeps
<1>2. ASSUME NEW k \in Socks, Accept(k)
      PROVE  HostInv'
  BY <1>2, AcceptConnectionKeeps DEF Accept
<1>3. ASSUME NEW k \in Socks, SocketStatus(k)
      PROVE  HostInv'
  BY <1>3, SocketStatusReturnsKeeps, SocketStatusAbortsKeeps DEF SocketStatus
<1>4. ASSUME NEW k \in Socks, SocketIsHalfClosed(k)
      PROVE  HostInv'
  BY <1>4, IsConnectionHalfClosedKeeps, AbortKeeps DEF SocketIsHalfClosed, HalfClosedCheckFails
<1>5. ASSUME NEW k \in Socks, DisconnectSocket(k) \/ CloseSocket(k)
      PROVE  HostInv'
  BY <1>5, DisconnectSocketKeeps, CloseSocketKeeps
<1>6. ASSUME NEW k \in Socks, AvailableBytes(k) \/ Peek(k) \/ Recv(k) \/ Send(k)
      PROVE  HostInv'
  BY <1>6, RecvKeeps, SendKeeps
<1>7. ASSUME NEW k \in Socks, PeerConnects(k) \/ PeerActs(k)
      PROVE  HostInv'
  BY <1>7, PeerConnectsKeeps, PeerActsKeeps
<1>8. CASE FindUnusedSocketAborts
  BY <1>8, AbortKeeps DEF FindUnusedSocketAborts
<1>9. CASE Destroy
  BY <1>9, DestroyKeeps
<1>10. CASE UNCHANGED vars
  BY <1>10, RunningKeeps DEF HostInv, vars
<1> QED
  BY <1>1, <1>2, <1>3, <1>4, <1>5, <1>6, <1>7, <1>8, <1>9, <1>10 DEF Next

\* The inductive invariant of the emulated sockets holds in every behaviour: each
\* is unused, half made, a listener or a connection, with the fields, the backlog,
\* the peer and the descriptor that go with it.
THEOREM HostInvAlways == Spec => []HostInv
  BY HostInvInit, HostInvNext, PTL DEF Spec

\* The invariant gives the types.
LEMMA HostInvTypeOK == HostInv => TypeOK
<1> SUFFICES ASSUME HostInv
             PROVE  TypeOK
  OBVIOUS
<1>1. ASSUME NEW k \in Socks
      PROVE  peer[k].taken <= peer[k].sent /\ Len(got[k]) <= MaxBytes
  <2>1. /\ peer[k].taken <= peer[k].sent /\ Len(got[k]) = peer[k].taken
        /\ peer[k].taken \in 0 .. MaxBytes
    BY DEF HostInv, SocketInv, InOrder, Peer
  <2> QED
    BY <2>1, BoundsAssumption
<1> QED
  BY <1>1 DEF HostInv, TypeOK, FdsInv, Info, Peer

\* Every variable keeps its type; among others the kernel never runs out of the
\* descriptors the model has, and nothing is read beyond what the peer sent.
THEOREM TypeCorrect == Spec => []TypeOK
  BY HostInvAlways, HostInvTypeOK, PTL

\* It gives the roles: a socket that is not half made passes its CHECKs.
LEMMA HostInvOneRole == HostInv => OneRole
<1> SUFFICES ASSUME HostInv, NEW k \in Socks, ~HalfMade(k)
             PROVE  /\ ChecksOfFields(k)
                    /\ IsListening(k) => info[k].mappedPort = Lookup(info[k].tcpPort)
                    /\ info[k].canRead => info[k].canWrite
                    /\ info[k].canWrite <=> IsConnected(k)
  BY DEF OneRole
<1>1. /\ SocketInv(info[k], backlog[k], peer[k], got[k]) /\ info[k] \in Info
      /\ ~HaveFd(-1) /\ \A fd \in Fds : HaveFd(fd)
  BY OfSocket
<1>2. ~HalfMadeInfo(info[k])
  <2> SUFFICES ASSUME HalfMadeInfo(info[k])
               PROVE  HalfMade(k)
    OBVIOUS
  <2>1. info[k] = [Unused EXCEPT !.listener = info[k].listener]
    <3> DEFINE d == [Unused EXCEPT !.listener = info[k].listener]
    <3>1. d \in Info /\ info[k] \in Info
      BY <1>1 DEF Unused, Info
    <3>2. /\ d.listener = info[k].listener /\ d.tcpPort = 0 /\ d.mappedPort = 0
          /\ d.connection = -1 /\ d.canRead = FALSE /\ d.canWrite = FALSE
      BY DEF Unused
    <3> HIDE DEF d
    <3>3. info[k] = d
      BY <3>1, <3>2 DEF HalfMadeInfo, Info
    <3> QED
      BY <3>3 DEF d
  <2> QED
    BY <1>1, <2>1 DEF HalfMadeInfo, HalfMade, IsListening
<1>3. CASE UnusedInfo(info[k])
  BY <1>1, <1>3 DEF UnusedInfo, ChecksOfFields, IsListening, IsConnected
<1>4. CASE ListeningInfo(info[k])
  <2>1. info[k].tcpPort > 0 /\ info[k].mappedPort > 0
    <3>1. info[k].tcpPort \in Nat \ {0} /\ info[k].mappedPort \in Nat \ {0}
      BY <1>4, TcpPortsAssumption DEF ListeningInfo
    <3> QED
      BY <3>1
  <2> QED
    BY <1>1, <1>4, <2>1 DEF ListeningInfo, ChecksOfFields, IsListening, IsConnected
<1>5. CASE ConnectedInfo(info[k])
  BY <1>1, <1>5 DEF ConnectedInfo, ChecksOfFields, IsListening, IsConnected
<1> QED
  BY <1>1, <1>2, <1>3, <1>4, <1>5 DEF SocketInv

\* "IFF listening, these three are at non-default values", for any number of
\* sockets and whatever fails: the ports are set exactly while a socket listens,
\* and a socket never both listens and is connected.
THEOREM RolesKept == Spec => []OneRole
  BY HostInvAlways, HostInvOneRole, PTL

\* The CHECKs of IsUnused and IsTcpListener fail only after an fcntl that failed:
\* without such a failure a status query or FindUnusedSocket never ends the
\* process for the fields of a socket.
THEOREM FieldChecksHold == ~FcntlMayFail /\ Spec => []FieldChecks
<1> SUFFICES ASSUME ~FcntlMayFail
             PROVE  Spec => []FieldChecks
  OBVIOUS
<1>1. OneRole => FieldChecks
  BY DEF OneRole, HalfMade, FieldChecks
<1> QED
  BY <1>1, RolesKept, PTL

\* Descriptors and the fields that refer to them correspond one to one.
LEMMA HostInvDescriptors == HostInv => DescriptorsAgree
<1> SUFFICES ASSUME HostInv
             PROVE  DescriptorsAgree
  OBVIOUS
<1> DEFINE refs == {ref \in Socks \X {"listener", "connection"} :
                      HaveFd(info[ref[1]][ref[2]])}
<1>1. ASSUME NEW k \in Socks
      PROVE  \/ info[k].connection = -1 /\ Fd(info[k]) = info[k].listener
             \/ info[k].listener = -1 /\ Fd(info[k]) = info[k].connection
  BY OfSocket DEF SocketInv, UnusedInfo, HalfMadeInfo, ListeningInfo, ConnectedInfo, Fd
<1>2. ~HaveFd(-1) /\ \A fd \in open : HaveFd(fd)
  BY SocketsAssumption DEF HaveFd, HostInv, FdsInv, Fds
<1>3. ASSUME NEW ref \in refs
      PROVE  /\ ref[1] \in Socks /\ ref[2] \in {"listener", "connection"}
             /\ info[ref[1]][ref[2]] = Fd(info[ref[1]])
             /\ HaveFd(Fd(info[ref[1]]))
  BY <1>1, <1>2
<1>4. ASSUME NEW k \in Socks, HaveFd(Fd(info[k]))
      PROVE  \E ref \in refs : ref[1] = k /\ info[ref[1]][ref[2]] = Fd(info[k])
  <2>1. CASE Fd(info[k]) = info[k].listener
    <3>1. <<k, "listener">> \in refs
      BY <1>4, <2>1
    <3> QED
      BY <2>1, <3>1
  <2>2. CASE Fd(info[k]) = info[k].connection
    <3>1. <<k, "connection">> \in refs
      BY <1>4, <2>2
    <3> QED
      BY <2>2, <3>1
  <2> QED
    BY <1>1, <2>1, <2>2
<1>5. open = {info[ref[1]][ref[2]] : ref \in refs}
  <2> HIDE DEF refs
  <2>1. ASSUME NEW fd \in open
        PROVE  \E ref \in refs : info[ref[1]][ref[2]] = fd
    <3>1. PICK k \in Socks : Fd(info[k]) = fd
      BY DEF HostInv, FdsInv
    <3>2. HaveFd(Fd(info[k]))
      BY <1>2, <3>1
    <3> QED
      BY <1>4, <3>1, <3>2
  <2>2. ASSUME NEW ref \in refs
        PROVE  info[ref[1]][ref[2]] \in open
    BY <1>3 DEF HostInv, FdsInv
  <2> QED
    BY <2>1, <2>2
<1>6. ASSUME NEW r1 \in refs, NEW r2 \in refs,
             info[r1[1]][r1[2]] = info[r2[1]][r2[2]]
      PROVE  r1 = r2
  <2>1. r1[1] = r2[1]
    <3> HIDE DEF refs
    <3> QED
      BY <1>3, <1>6 DEF HostInv, FdsInv
  <2>2. r1[2] = r2[2]
    <3>1. /\ r1[1] \in Socks /\ r1[2] \in {"listener", "connection"}
          /\ r2[2] \in {"listener", "connection"}
          /\ HaveFd(info[r1[1]][r1[2]]) /\ HaveFd(info[r1[1]][r2[2]])
      BY <2>1
    <3> QED
      BY <1>1, <1>2, <3>1
  <2> QED
    BY <2>1, <2>2
<1> QED
  BY <1>5, <1>6 DEF DescriptorsAgree

\* No descriptor is leaked, closed twice or shared, on any path of the methods,
\* the failing ones included.
THEOREM DescriptorsRight == Spec => []DescriptorsAgree
  BY HostInvAlways, HostInvDescriptors, PTL

\* A connection is at its end only when all is read.
LEMMA HostInvEof == HostInv => EofAfterAllData
  BY PeerFields DEF EofAfterAllData

\* The end of a connection is never taken for reached while bytes are unread.
THEOREM EofRight == Spec => []EofAfterAllData
  BY HostInvAlways, HostInvEof, PTL

\* The bytes are in order, socket by socket.
LEMMA HostInvReads == HostInv => ReadsInOrder
  BY DEF HostInv, SocketInv, InOrder, ReadsInOrder

\* The bytes of every connection are returned in order, each exactly once.
THEOREM BytesInOrder == Spec => []ReadsInOrder
  BY HostInvAlways, HostInvReads, PTL
=============================================================================
