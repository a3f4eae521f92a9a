# McuNet: models, checks and proofs

McuNet gives Arduino-like boards TCP servers on a WIZnet W5500 chip. The chip
runs TCP by itself and offers a few *hardware sockets*; the library polls their
status registers and turns what it sees into calls of an application's listener.
Paths below are relative to the repository's root.

This directory holds TLA+ modules translated from that code, the TLC runs that
check them on small instances, and TLAPS proofs of the same properties for every
size. `PROJECT.json` lists components, runs, mutants, findings, hazards,
theorems, and for each definition the source lines it stands for.

## 1. Inventory

| component | state | operations | interacts with |
|---|---|---|---|
| `ServerSocket` (src/server_socket.*) | `sock_num_`, `last_status_`, `disconnect_data_` | `PickClosedSocket`, `ReleaseSocket`, `SocketLost`, `PerformIO` | polls the chip through `PlatformNetwork`; calls its listener; puts a `TcpServerConnection` on the stack for it |
| `TcpServerConnection` (src/tcp_server_connection.*) | socket number, reference to the disconnect data, write buffer | constructor, `close`, destructor | the listener writes, reads and closes; `close` flushes and gives the chip DISCON |
| `WriteBufferedConnection` (src/write_buffered_connection.*) | write buffer, write error | two `write`s, `flush`, destructor | writes to an Arduino `Client` that may take a part only |
| `DisconnectData` (src/disconnect_data.*) | `disconnected`, time | `Reset`, `RecordDisconnect`, `ElapsedDisconnectTime` | shared by a server and its connections |
| listener (src/socket_listener.h) | the application's | `OnConnect`, `OnCanRead`, `OnDisconnect` | called by `PerformIO` and `SocketLost` |
| `PlatformNetwork` (src/platform_network.*) | none; `EthernetClass::_server_port` of the Ethernet5500 library | status queries, listen, disconnect, close, data | the chip, or on a host an implementation registered with `PlatformNetworkInterface` |
| host network (extras/host/ethernet5500/host_*) | BSD descriptors per emulated socket | the same operations | replaces the chip when the library runs on a host |
| `EthernetServer`, `EthernetClient` of the host (extras/host/ethernet5500/ethernet_*) | `_server_port`, a socket number | `begin`, `available` (which accepts), the client's methods, resets | the host network, as a sketch on a host uses it |
| `Addresses` (src/addresses.*, ethernet_address.*, ip_address.*) | a MAC and a link-local address | generate, read from and write to EEPROM | `IpDevice` |
| `IpDevice` (src/ip_device.*) | `using_dhcp_` | `InitializeNetworking`, `MaintainDhcpLease` | EEPROM, chip, DHCP |

What is hard here:

* The chip is a second processor. Between any two register accesses of a method
  a SYN, FIN, RST, data or a chip timeout may change the status; a value that was
  read may be stale when it is used.
* What a listener is told depends on the difference between two polls, through
  whatever the chip, the listener's own `close()` and the server's `close()` did
  in between.
* Sockets are a shared resource. A socket bound to a server is CLOSED between
  two connections, and then looks free to everybody else.
* A closing connection ends when the peer says so, or after a timeout that only
  runs if the disconnect was recorded.
* Partial writes: the client may take any part of a buffer, then fail.
* Power may fail between any two steps of `setup()`, also while EEPROM is written.
* `millis()` wraps around after 49 days.
* On a host, one `recv` decides for good whether a connection can be read, and a
  status query accepts connections on its own.

What makes the components correct: a listener sees well-formed sessions and each
end exactly once; a socket serves one server; a closing socket always has a
deadline, so that it comes back to listening; `close()` tries to send what was
written before it sends the FIN; bytes arrive once and in order; a device keeps the addresses it
has saved and ends `setup()` with a network that can be used.

## 2. Modules

| module | models |
|---|---|
| `PlatformNetwork` | the hardware sockets (status, whether bytes are unread, recorded port), the moves the chip makes by itself, and the static methods of `PlatformNetwork` |
| `ServerSocket` | any number of servers, their connections and disconnect data, their listeners, other users of the chip, the clock |
| `ListenerContract` | abstract: what a listener may rely on |
| `MCServerSocket` | the instances of `ServerSocket` TLC runs |
| `ServerSocketProofs` | theorems about `ServerSocket` |
| `WriteBufferedConnection` | the write buffer, from constructor to destructor |
| `ByteStream` | abstract: accepted bytes arrive once and in order |
| `WriteBufferedConnectionProofs` | theorems about `WriteBufferedConnection` |
| `DisconnectData` | the recorded disconnect and the timeout over a clock that wraps around |
| `DisconnectDataProofs` | theorems about `DisconnectData` |
| `IpDevice` | `SetupW5500`, `InitializeNetworking`, `MaintainDhcpLease`, the addresses and their EEPROM entry |
| `MCIpDevice` | prefixes, random numbers and leases TLC runs `IpDevice` with |
| `IpDeviceProofs` | theorems about `IpDevice` |
| `HostNetwork` | the sockets emulated on a host, each a BSD listener or connection |
| `MCHostNetwork` | the port map TLC runs `HostNetwork` with |
| `HostNetworkProofs` | theorems about `HostNetwork` |
| `EthernetServer` | a sketch with an `EthernetServer` for each port, composed with `HostNetwork` |
| `MCEthernetServer` | the port map TLC runs `EthernetServer` with |
| `EthernetServerProofs` | theorems about `EthernetServer`, from those about `HostNetwork` |

### PlatformNetwork

`sr` is the status register Sn_SR of each socket, `rx` whether its receive buffer
holds unread bytes, `serverPort` the array `EthernetClass::_server_port`. The
chip itself is external; `NetworkMoves` lists the status changes it makes
without a command, taken from the statuses the code handles and its comments
about them, among them the undocumented value the code reports after LISTEN. The
chip model assumes that

* a socket leaves CLOSED only by a command, so that a scan for a closed socket,
  and `BeginListening` after CLOSED was read, may be one step: the early returns
  of `BeginListening` for a listening or connected socket cannot be taken there;
* DISCON and CLOSE change the status before the next register read;
* no data arrives in CLOSE_WAIT (the peer has sent its FIN);
* ::socket and ::listen, which report no errors, leave CLOSED, INIT or LISTEN
  behind (`ListenOutcomes`).

UDP stands for UDP, IPRAW, MACRAW and PPPOE, which the code treats alike. A client
connection that another part of the sketch makes over a closed socket is followed up
to SYNSENT only. Were it to become ESTABLISHED before the server it is bound to polls
it, the server would take it for one of its own: nothing in the status tells them
apart. server_socket.cpp:255-256 puts it on the sketch to release the socket first.

### ServerSocket

One action per branch of `PerformIO` and one per public method. A sketch has one
thread, so that a method starts only when no other runs (`CpuIdle`), but
the chip may move between any two accesses: methods that access the chip more
than once are cut there, and `pc` says where they go on. The listener's callback
is a sequence of `ListenerReads`, `ListenerWrites`, `ListenerFlushes` and
`ListenerCloses` (any number, any order) up to `ListenerReturns`, which includes
`DetectListenerInitiatedDisconnect` and the destructor of the connection.

`session` records what the listener has been told; a call that does not fit makes
it "confused". `writeBuffer` is the state of the connection's write buffer (the
bytes themselves are the matter of `WriteBufferedConnection`): "empty", "unsent"
when a flush would still send something, "failed" once a write error is set, after
which bytes may be left and every flush returns at once. A flush may fail while the
connection is open too, since the client may take nothing; `flush()` returns no
value, and `close()` goes on either way. `elapsed` is
the time since the recorded disconnect; it stops at the first value greater than
`kDisconnectMaxMillis`, since the code only asks whether it is greater.

`SketchOps` says which of `ReleaseSocket`, `SocketLost` and the use of sockets by
others the sketch makes, `EarlyStatuses` to which statuses packets may take a socket
between ::listen and the last status read that follows it: none, a SYN and what
becomes of it (SYNRECV, the undocumented value, CLOSED, back to LISTEN), or also a
complete handshake (ESTABLISHED, CLOSE_WAIT).

### ListenerContract

A session begins with `OnConnect`, goes on with `OnCanRead`, and ends once, by the
listener's `close()` or by `OnDisconnect`; calls of listeners do not overlap. The
refinement mapping is the identity on `session`, and `inCall` is whether the
connection object is in the listener's hands.

### WriteBufferedConnection and ByteStream

Byte number n is the number n. `FlushInternal` is one step per call of
`client_.write`, which takes any number of the bytes offered, or none. The
error value itself (the client's, or `kBlockedFlush`) is not told apart. Nothing
calls `clearWriteError` on a connection in this repository, and the model has no
such action. The abstract `ByteStream` promises that bytes are delivered once and
in order, that nothing is accepted or delivered after a failure, and that a
connection that goes away without failure has delivered everything.

### HostNetwork

`info` holds the fields of each `HostSocketInfo`, `open` the descriptors the process
has open, `running` whether it still runs. `peer` is what the kernel knows of the
peer of a connection, and `got` the bytes that `Recv` and `Peek` have returned; byte
number n is the number n. Each method is one step: it makes one system call at most
whose outcome a peer can influence, except `SocketStatus`, which may accept a
connection and then look into it, and what it finds there is chosen when it is
accepted. ::accept may also fail while a connection waits (out of descriptors, say),
which leaves the socket listening. The kernel is Linux's: recv gives the data, then the end if the peer has
sent it, then the error, which is reported once and looks like the end from then on;
a send may be the call that it is reported to, and a send after that raises SIGPIPE.
ECONNRESET stands for the three errors `RecvInternal` handles, ETIMEDOUT for those
it does not, EAGAIN for the three that mean "try again". `FcntlMayFail` lets a
listener fail to become non-blocking, which leaves one socket half made
(`HalfMade`), the one exception of `OneRole`; what becomes of it is the matter of
`FieldChecks`. Sends that succeed and `Flush` change
nothing here. The queries `SocketIsClosed`, `SocketIsInTcpConnectionLifecycle` and
`SocketIsTcpListener` change nothing either; the CHECKs of the last are among those
of `FindUnusedSocket`. `HostSocketInfo::CanReadFromConnection`, which nothing calls, is
left out; it asks `Peek`, and so would take a byte that nobody gets (`PeekConsumes`).

### EthernetServer

`EXTENDS HostNetwork` and uses its actions as the calls they are: the sketch is one
thread that runs `accept()` and `available()` one network call at a time (`call` says
where it is), and peers act between any two. Between calls of `available()` it uses
the client it got last in any way (`ClientCalls`), starts to listen on a port that has
no socket yet (`Begin`) or resets the chip (`CloseAllSockets`). `madeTo` remembers which
port a connection was made to; the code does not know it.

### DisconnectData

The clock counts modulo `ClockModulus` and starts anywhere; `age` and `sincePoll` are
true times. The calls come in the order in which `ServerSocket` and
`TcpServerConnection` make them; `phase` stands for the hardware socket. The one
assumption is that the limit and one round of the sketch's loop together are
shorter than one round of the clock.

### IpDevice

`pc` walks through `setup()`: read the entry, generate, write, ask for DHCP, check the
hardware, up. Between any two steps power may fail; what is in RAM is lost, the
chip may or may not be reset (its reset pin may not be connected), and of an entry
that was being written there is the new one, the old one or none (EepromTlv, of
another library, finds no torn entries). While the power is off the EEPROM may be
erased and a sketch with another prefix uploaded. A MAC address has a first byte,
whose bits matter, and two opaque parts; IP addresses have four bytes. The entry
is the sequence of bytes `WriteToRegion` writes, and `ReadFromRegion` takes it apart.
`random()` returns members of `Samples` within its bounds. Without a chip, register
reads give all zeros or ones in the first byte. `kept` is what was last saved or
found saved, and is forgotten when the EEPROM is erased or a prefix is asked for
that it does not have.

## 3. Runs

| run | instance | shows |
|---|---|---|
| `ServerSocketContract` | 2 servers, 2 sockets, all listen outcomes, `SocketLost`, foreign use, early SYNs, timeout 1 | type, exclusive binding, agreement of memory and session, deadlines, the assertions about open and closing connections, an attempt to flush before every FIN; refinement of `ListenerContract` |
| `ServerSocketRelease` | 2 servers, 2 sockets, all listen outcomes, `ReleaseSocket` as well, no packet before listen's status is read, timeout 0 | exclusive binding, deadlines, every assertion of `PerformIO` about `past_status` |
| `ServerSocketLive` | 1 server, 1 socket, all listen outcomes, timeout 2, fairness | `SocketRecovers`, `DisconnectReported`, `ConnectionAnnounced` |
| `WriteBufferedConnection` | buffer of 4, writes of up to 10, 14 bytes in all | buffer assertions, refinement of `ByteStream`, every call returns |
| `DisconnectData` | a clock modulo 16, limit 5, at most 3 between two polls | the timeout is right wherever the clock wraps around, and closing ends in time |
| `IpDevice` | 3 starts, two prefixes and none, the bounds of each random number, 2 leases | `SameAddresses`, `UsableNetwork`, `HardwareFound` |
| `HostNetwork` | 2 sockets, ports 80 (mapped) and 81, 2 bytes, 2 waiting connections, failures of fcntl | type, `OneRole`, `ReadsInOrder`, `DescriptorsAgree`, `EofAfterAllData` |
| `EthernetServer` | 2 servers and 2 sockets, 1 byte, 1 waiting connection, failures of fcntl | `OneListener`, `ServesItsPort`, `StopsOnlyFinished`, `ReturnsReadable` |

Four more runs show where documentation and code disagree (section 5).

The assertions. `PerformIO` asserts six times what `past_status` is. Two concern
connections that are open or closing (server_socket.cpp:204 and 229,
`ConnectionAssertions`); they hold whatever packets come when (with early SYNs in
`ServerSocketContract`, with early handshakes too by the proof). Four say that a socket
seen listening, connecting or newly connected was LISTEN before (180, 193, 200, 213);
together with the others (`PollAssertions`) they hold as long as no packet comes
between ::listen and the status reads, and a single SYN there breaks them (section 5).
Line 217 repeats the condition of the branch it is in, and 241 and 262
(`MCU_DCHECK(false)`) fail whenever INIT or a foreign status is seen, whatever
`past_status` was; they are no properties of the model. Nor is the assertion at the end
of `BeginListening` (125), which already fails when ::listen leaves something else than
LISTEN behind.

Bounds. Two servers and two sockets are the least with which a server can find
its own, another's or a free socket; the proofs cover any number. The timeout is
1 (or 0, 2) units: only "not longer" and "longer than the limit" matter. Buffer 4
with writes of 10 makes a write span the buffer more than twice from every fill
level. Liveness is run with one server: servers influence each other by holding
the processor and by sockets, and exclusive binding removes the second. Emulated
sockets influence each other by descriptors only, for which two are enough; two
bytes allow data to arrive before and after any other event, two ports a change
of port. Two `EthernetServer`s on two sockets compete for every socket: one may hold
both, or each one; with three sockets the state space is beyond a run of minutes.
Three starts of a device are a first one, one that finds what the first has left,
and one that finds what a failed second has left; the proofs cover any number. A
clock modulo 16 with a limit of 5 and gaps of 3 lets the wrap around fall at every
point of a close.

Fairness (`Fairness` in `ServerSocket`). `loop()` runs for ever and polls each
server (examples/NetEcho): strong fairness of `PerformIO`, strong because a poll
has to wait while another method runs. Callbacks return: the same for
`ListenerReturns`. A method that has started goes on: weak fairness of
`Continues`. Time passes. Listening does not fail for ever: strong fairness of
the poll that ends in LISTEN; without it a chip that always leaves INIT behind
would never listen, and no code could help. Nothing is assumed of the peer or the
chip. For `WriteBufferedConnection`, a call that has begun goes on.
`CHECK_DEADLOCK FALSE` there and for `HostNetwork` and `EthernetServer`: after the
destructor, or once the process has ended, nothing happens; and for `IpDevice`, where
`MaxBoots` ends the run.

Every property has a mutant of the code that breaks it (`mutants` in
`PROJECT.json`; the mutated forms are marked "Mutant" in the modules).

## 4. Proofs

All for any set of servers, any number of sockets, any ports, any timeout.

`ServerSocketProofs`

* `TypeCorrect`: `TypeOK` together with `OneThread` (a method runs for at most one
  server, and only for one with a socket), which `TypeOK` needs, as a method that
  goes on uses `sock_num_` unchecked.
* `Exclusive`: from `BoundPort` (the socket of a server carries its port in
  `_server_port`). With different ports (`DistinctPorts`) the test of
  `InitializeTcpListenerSocket` keeps all other servers away even while the
  socket is CLOSED.
* `DeadlineAlwaysSet`, `ConnectionAssertionsHold`, `FinFollowsFlush` (an action property):
  from `ChipInv`, which says
  for each point of each method how far the chip's status can be from what the
  server knows: between polls a socket may close only after its disconnect was
  recorded and seen; during a callback the recorded disconnect and an open status
  exclude each other; from the flush of `close()` to its DISCON the buffer is empty or
  has failed; and so on. Exclusive binding is needed, since another
  server on the same socket would break it.
* `AssertionsHold`: from `ListenInv` as well, which says that the server remembers LISTEN
  from the moment its socket listens until it sees a connection. Assumes, besides
  different ports, that no packet comes before listen's status is read
  (`EarlyStatuses = {}`), which is necessary (section 5).
* `MemoryAgrees`: from `SessionInv`, which says at each point what the listener has
  been told. Assumes `ContractAssumptions`: different ports, no `ReleaseSocket`, no
  handshake complete before listen's status is read. Each is necessary (section 5).
* `ContractImplemented`: every step of `ServerSocket` is a step of `ListenerContract`
  or leaves its variables alone.

`WriteBufferedConnectionProofs`, for every buffer size from 1 to 255 and every bound

* `TypeCorrect`, `AssertionsHold` and `StreamImplemented`: from `StreamInv` (the buffer holds the last
  bytes that entered it, the client got the first ones, and without an error they
  meet where `FlushInternal` has got to).

`DisconnectDataProofs`, for every modulus, limit and gap that satisfy `ClockAssumption`

* `TimeoutRight`, `CloseBounded`: from the fact that while a connection
  is closing its disconnect is recorded and the recorded time is `age` before the
  clock, modulo the clock, and that `age` was within the limit at the last poll.

`IpDeviceProofs`, for any prefixes, leases, random numbers and number of starts

* `TypeCorrect`, `AddressesLast`, `NetworkUsable`, `NoHardwareNoNetwork`: from `IInv`, which adds
  to the properties that all addresses held anywhere were generated (`AllGood`), that
  what is used has the sketch's prefix (`PrefixKept`) and that the chip was given the
  MAC address before it is read back (`ChipKnows`). Lemmas say what the generators
  return, that the gateway is host 1 of the subnet (which no third byte of 1 to 254
  makes an address of ours), that an entry reads back as the addresses that were
  written, and that open lines never show a local unicast address.

`HostNetworkProofs`, for any number of sockets, any ports with any mapping, any bounds
on bytes and waiting connections, and whether fcntl may fail or not

* `TypeCorrect`, `RolesKept`, `DescriptorsRight`, `EofRight`, `BytesInOrder`: from `HostInv`. A
  method changes one socket and the set of open descriptors, and so the invariant has
  two parts. `SocketInv` is about one socket by itself: it is unused, half made,
  a listener or a connection (`UnusedInfo` to `ConnectedInfo`), only a listener has a
  backlog and only a connection a peer, the bytes returned are the first ones in
  order, and a connection that is not readable has ended with nothing unread. `FdsInv`
  says that open descriptors and sockets correspond one to one. `StepKeeps` puts the
  two together for a step that replaces one socket and its descriptor, and there is one
  lemma for each method. None of the properties is inductive: that a byte is
  returned once needs that a socket without a connection has no peer; that a new
  descriptor is nobody's needs the exact set of open ones, and that there is one
  at all (`NewFdIsFree`) is the pigeonhole principle over sockets and descriptors.
* `FieldChecksHold`: if fcntl does not fail, `FieldChecks`, the CHECKs of `IsUnused` and
  `IsTcpListener` on the fields, from `OneRole`. The assumption is needed (section 5).

`EthernetServerProofs`, for any number of sockets, ports and bounds

* `SketchTypeCorrect`, `ServesItsPortAlways`, `OneListenerAlways`, `StopsOnlyFinishedAlways` and the
  action property `ReturnsReadableAlways`: from `EthernetInv`, which contains `HostInv` (the
  lemmas about the methods are used again) and says what the sketch may rely on at each
  of its network calls, whatever peers have done since the one before. `LoopInv`: as
  long as `accept()` has seen no listener, no socket it has passed listens to its port.
  That is stable since only `begin()` makes listeners; all other steps, the status
  queries that accept among them, leave each listener alone or remove it
  (`NoNewListener`). `CallInv`: a connection about to be stopped is not readable any more,
  and one whose bytes are about to be counted has some, since bytes that have arrived
  stay until the sketch itself reads them.
* `HostGuaranteesHold`: the four properties of `HostNetwork` hold in the composition.

All strengthenings were checked with TLC before they were proved. The assumptions are
those on the constants (the named ASSUMEs of the modules, which TLC evaluates in the
runs) and the ones stated in a theorem. Every safety property of a passing run is
proved. Only model-checked are the liveness properties `SocketRecovers`,
`DisconnectReported` and `ConnectionAnnounced` of `ServerSocket` and `CallsReturn` of
`WriteBufferedConnection`: fairness is beyond the prover.

## 5. Where documentation and code disagree

Each is a run that is expected to end in a violation; `findings` in `PROJECT.json`
quotes the lines.

* `QuickHandshake`: if a handshake completes between ::listen and the status read that
  follows, `OnConnect` is never called.
* `ReleaseInSession`: `ReleaseSocket` can end a session without `OnDisconnect`.
* `PeekConsumes`: on a host, `Peek` takes the byte it shows, and `Recv` does not return it;
  `ReadsInOrder` therefore counts the bytes that `Peek` has returned.
* `IdlePoll`: on a host, reading the status of an open connection with no data
  waiting fails a CHECK.

Others the models show, without a run of their own:

* A SYN between ::listen and the last status read (server_socket.cpp:60 or 120) is
  recorded as SYNRECV. Only `PerformIO` rewrites SYNRECV to LISTEN ("to keep the debug
  macros in the following states simple", 190-191), and so the next poll that sees the
  socket listening, connecting or connected fails an assertion that `past_status` is
  LISTEN, although nothing is wrong: `PollAssertions` is violated as soon as
  `EarlyStatuses` contains SYNRECV.
* `TcpServerConnection::close` wants to "make sure that any data in the write buffer is
  sent" (tcp_server_connection.cpp:35-36), but disconnects although its flush has
  failed, with bytes left in the buffer: in `ServerSocket` `pc` gets to "disconnect" with a
  failed buffer. `FinAfterFlush` therefore claims the attempt only.
* After a failure of fcntl in `InitializeTcpListener` a socket has a listener without
  ports, and the next status query or `FindUnusedSocket` fails a CHECK
  (host_socket_info.h:139, .cpp:255): `FieldChecks` is violated if `FcntlMayFail`.
* Two servers for one port can come to share a hardware socket: one bound to a server
  is CLOSED between two connections, and `InitializeTcpListenerSocket` takes a CLOSED
  socket whose recorded port is the one asked for (platform_network.cpp:109). This is
  why `ExclusiveBinding` speaks of servers with different ports.
* After `ReleaseSocket` the port stays recorded, so that no server for another port can
  use the socket, and `PickClosedSocket` of such a server fails as long as it is the
  first closed one, although others may be free (server_socket.h:59-62 promises "a
  closed hardware socket").
* `Send` after `DisconnectSocket`, or a second one after the connection failed, ends the
  process with SIGPIPE, where -1 is promised (host_socket_info.h:110-111, .cpp:364).
* addresses.h:21-24 says a stored MAC address that is not unicast gives an error;
  the code compares the prefix only. Nothing in this repository saves such an address.
* ip_device.h:26-28 says that false is returned "if unable to configure addresses": a
  failed save is only logged, and networking goes on with addresses that the next
  start will not find.
* `EthernetServer::available` returns `EthernetClient(MAX_SOCK_NUM)` for "none", a number
  `GetHostSocketInfo` admits (host_network.cpp:27) and then fails a CHECK for; the one
  caller tests it first.
* On a host `DisconnectSocket` leaves the status open until the peer answers, unlike the
  chip. `ListenerContract` is claimed for the chip only.

## 6. Not modelled, and the plan

Not modelled:

* log output, formatting (`printTo`, `InsertInto`, `ToString`), the orders `operator<` and the
  text form of the port map: no state depends on them;
* `PlatformNetworkInterface`: one global pointer, set at the start of `main` and removed
  at its end, and CHECKs that it is set;
* `EthernetUDP` of the host: declarations only; `EthernetClient::connect` and the stubs of
  `EthernetClass` on a host;
* the Ethernet5500 library, EepromTlv, the Linux kernel and DHCP: other projects,
  modelled by what this code sees of them;
* test tools (mocks, fakes, string streams) and the sketches' serial output;
* `ServerSocket` over `HostNetwork`: as the host's status query ends the process for every
  silent connection (`IdlePoll`), no behaviour of the pair lasts beyond the first idle
  poll, and properties of it would say little until that is settled.

What is left of the plan: nothing of the safety properties, all of which are both
model-checked and proved. The hazards of `PROJECT.json` without a property say there why
they have none.
