------------------------------- MODULE IpDevice -------------------------------
(***************************************************************************)
(* IpDevice::InitializeNetworking (src/ip_device.cpp) and the Addresses it *)
(* reads from EEPROM or generates and saves (src/addresses.cpp,            *)
(* ethernet_address.cpp, ip_address.cpp), called from setup() of the       *)
(* sketch TestIpDeviceSetup at each start of the device.                   *)
(*                                                                         *)
(* Power may fail between any two steps and while the EEPROM is written.   *)
(* While it is off, another program may erase the EEPROM, and a new sketch *)
(* with another OuiPrefix may be uploaded.                                 *)
(*                                                                         *)
(* A MAC address is its first byte, the two bytes that complete its prefix *)
(* and the three of the interface; only the first byte's value matters.    *)
(***************************************************************************)
EXTENDS Integers, Sequences

CONSTANTS
  Mids,     \* values of bytes 1 and 2 of a MAC address
  Nics,     \* values of bytes 3, 4 and 5 of a MAC address
  Samples,  \* the numbers the random number generator may return
  Leases,   \* the IP addresses DHCP servers give out
  Ouis,     \* the OuiPrefix arguments of the sketches: see OuiPrefix, or NoOui
  NoOui,    \* a sketch that passes no OuiPrefix
  None,     \* no addresses, no EEPROM entry
  MaxBoots  \* bound on the starts of the device

ASSUME SamplesAssumption == Samples \subseteq Nat
ASSUME BootsAssumption == MaxBoots \in Nat

VARIABLES
  pc,         \* where setup() is, "up" in loop(), "off" without power
  oui,        \* the OuiPrefix the sketch passes
  eeprom,     \* the entry with the tag of GetAddressesTag
  addresses,  \* the local variable of InitializeNetworking
  usingDhcp,  \* using_dhcp_
  chip,       \* what the W5500 has been told: MAC, IP address and gateway
  hardware,   \* whether there is a W5500
  kept,       \* the addresses that were last saved or found saved
  boots       \* number of starts so far

vars == <<pc, oui, eeprom, addresses, usingDhcp, chip, hardware, kept, boots>>

-----------------------------------------------------------------------------
(* Addresses.                                                              *)

\* Arduino's random(low, high).
Random(low, high) == {n \in Samples : low <= n /\ n < high}

\* The second lowest bit is set and the lowest cleared.
ToOuiUnicast(byte) == 4 * (byte \div 4) + 2

\* The constructor of OuiPrefix.
OuiPrefix(byte0, mid) == [first |-> ToOuiUnicast(byte0), mid |-> mid]

ASSUME OuisAssumption ==
  \A prefix \in Ouis \ {NoOui} :
    \E byte0 \in 0 .. 255, mid \in Mids : prefix = OuiPrefix(byte0, mid)

\* EthernetAddress::GenerateAddress.
GeneratedMacs(prefix) ==
  IF prefix # NoOui
  THEN {[first |-> ToOuiUnicast(prefix.first), mid |-> prefix.mid, nic |-> nic] :
          nic \in Nics}
  ELSE {[first |-> ToOuiUnicast(byte), mid |-> mid, nic |-> nic] :
          byte \in Random(0, 256), mid \in Mids, nic \in Nics}

\* Mutant: every host number of the subnet.
GeneratedIpsOfSubnet ==
  {<<169, 254, third, fourth>> : third \in Random(0, 256), fourth \in Random(0, 256)}

\* IpAddress::GenerateAddress.
GeneratedIps ==
  {<<169, 254, third, fourth>> : third \in Random(1, 255), fourth \in Random(0, 256)}

\* The entry has the bytes of the MAC address, then those of the IP address.
WriteMac(mac) == <<mac.first, mac.mid, mac.nic>>
WriteIp(ip) == <<ip[1], ip[2], ip[3], ip[4]>>
WriteToRegion(pair) == WriteMac(pair.mac) \o WriteIp(pair.ip)

\* What is read from its bytes; its size is fixed, so that reading does not fail.
ReadMac(region) == [first |-> region[1], mid |-> region[2], nic |-> region[3]]
ReadIp(region) == [i \in 1 .. 4 |-> region[3 + i]]
ReadFromRegion(region) == [mac |-> ReadMac(region), ip |-> ReadIp(region)]

HasOuiPrefix(mac, prefix) == mac.first = prefix.first /\ mac.mid = prefix.mid

\* Mutant: without a prefix there is nothing to compare with.
AcceptableWithPrefix(pair, prefix) ==
  /\ pair # None
  /\ prefix # NoOui
  /\ HasOuiPrefix(pair.mac, prefix)

\* Mutant: without a prefix the status of FindEntry is not looked at.
AcceptableUnfound(pair, prefix) ==
  prefix = NoOui \/ (pair # None /\ HasOuiPrefix(pair.mac, prefix))

\* What ReadEepromEntry accepts.
Acceptable(pair, prefix) ==
  /\ pair # None
  /\ prefix # NoOui => HasOuiPrefix(pair.mac, prefix)

Subnet == <<255, 255, 0, 0>>

\* ip & Subnet, with the lowest bit set.
Gateway(ip) ==
  LET masked(i) == IF Subnet[i] = 255 THEN ip[i] ELSE 0
  IN  [i \in 1 .. 4 |-> IF i < 4 THEN masked(i) ELSE 2 * (masked(i) \div 2) + 1]

-----------------------------------------------------------------------------
(* The W5500, or the pins it is not connected to.                          *)

ResetChip == [mac |-> None, ip |-> None, gateway |-> None]

\* Reads of a chip that is not there give the level of the line.
Noise == {[first |-> byte, mid |-> mid, nic |-> nic] :
            byte \in {0, 255}, mid \in Mids, nic \in Nics}

MacAddress == IF hardware THEN {chip.mac} ELSE Noise

-----------------------------------------------------------------------------

Init ==
  /\ pc = "off"
  /\ oui \in Ouis
  /\ eeprom = None
  /\ addresses = None
  /\ usingDhcp = FALSE
  /\ chip = ResetChip
  /\ hardware \in BOOLEAN
  /\ kept = None
  /\ boots = 0

\* setup() calls SetupW5500, then InitializeNetworking.  The hard reset works if
\* the reset pin is connected; if not, a restart of the ATmega finds the chip as
\* it was.
PowerUp ==
  /\ pc = "off"
  /\ boots < MaxBoots
  /\ boots' = boots + 1
  /\ pc' = "read"
  /\ chip' \in {chip, ResetChip}
  /\ UNCHANGED <<oui, eeprom, addresses, usingDhcp, hardware, kept>>

\* FindEntry and ReadFromRegion.
Found == IF eeprom = None THEN None ELSE ReadFromRegion(eeprom)

\* An entry with another prefix has been read when it is rejected.
ReadEepromEntry ==
  /\ pc = "read"
  /\ addresses' = Found
  /\ \/ /\ Acceptable(Found, oui)
        /\ kept' = Found
        /\ pc' = "dhcp"
     \/ /\ ~Acceptable(Found, oui)
        /\ pc' = "generate"
        /\ UNCHANGED kept
  /\ UNCHANGED <<oui, eeprom, usingDhcp, chip, hardware, boots>>

GenerateAddresses ==
  /\ pc = "generate"
  /\ \E mac \in GeneratedMacs(oui), ip \in GeneratedIps :
       addresses' = [mac |-> mac, ip |-> ip]
  /\ pc' = "write"
  /\ UNCHANGED <<oui, eeprom, usingDhcp, chip, hardware, kept, boots>>

\* A failure stops a debug build; otherwise it is logged, and the addresses are
\* used all the same.  The old entry may be lost.
WriteEepromEntry ==
  /\ pc = "write"
  /\ \/ eeprom' = WriteToRegion(addresses) /\ kept' = addresses /\ pc' = "dhcp"
     \/ eeprom' \in {eeprom, None} /\ UNCHANGED kept /\ pc' \in {"dhcp", "halted"}
  /\ UNCHANGED <<oui, addresses, usingDhcp, chip, hardware, boots>>

\* Ethernet.begin(mac) sets the MAC address, then asks for a lease.
BeginWithDhcp ==
  /\ pc = "dhcp"
  /\ \/ \E lease \in Leases :
          /\ hardware
          /\ chip' = [mac |-> addresses.mac, ip |-> lease, gateway |-> None]
          /\ usingDhcp' = TRUE
          /\ pc' = "up"
     \/ /\ chip' = [chip EXCEPT !.mac = addresses.mac]
        /\ usingDhcp' = FALSE
        /\ pc' = "check"
  /\ UNCHANGED <<oui, eeprom, addresses, hardware, kept, boots>>

\* Mutant: the MAC address is not read back.
BeginUnchecked ==
  /\ pc = "check"
  /\ chip' = [mac |-> addresses.mac, ip |-> addresses.ip,
              gateway |-> Gateway(addresses.ip)]
  /\ pc' = "up"
  /\ usingDhcp' = FALSE
  /\ UNCHANGED <<oui, eeprom, addresses, hardware, kept, boots>>

\* "Is there hardware?"  If not, InitializeNetworking returns an error, which the
\* MCU_CHECK_OK of setup() does not let pass.
BeginWithoutDhcp ==
  /\ pc = "check"
  /\ \E mac \in MacAddress :
       \/ /\ mac # addresses.mac
          /\ pc' = "halted"
          /\ UNCHANGED chip
       \/ /\ mac = addresses.mac
          /\ chip' = [mac |-> addresses.mac, ip |-> addresses.ip,
                      gateway |-> Gateway(addresses.ip)]
          /\ pc' = "up"
  /\ usingDhcp' = FALSE
  /\ UNCHANGED <<oui, eeprom, addresses, hardware, kept, boots>>

\* loop() keeps the lease, if there is one; the server may give another address.
MaintainDhcpLease ==
  /\ pc = "up"
  /\ usingDhcp
  /\ \E lease \in Leases : chip' = [chip EXCEPT !.ip = lease]
  /\ UNCHANGED <<pc, oui, eeprom, addresses, usingDhcp, hardware, kept, boots>>

-----------------------------------------------------------------------------
(* What happens to the device.                                             *)

\* Power fails, or the ATmega restarts.  Of an entry that was being written all,
\* nothing or the old one is left: EepromTlv finds no torn entries.
PowerFails ==
  /\ pc # "off"
  /\ eeprom' \in IF pc = "write" THEN {eeprom, None, WriteToRegion(addresses)} ELSE {eeprom}
  /\ pc' = "off"
  /\ addresses' = None
  /\ usingDhcp' = FALSE
  /\ UNCHANGED <<oui, chip, hardware, kept, boots>>

Erase ==
  /\ pc = "off"
  /\ eeprom' = None
  /\ kept' = None
  /\ UNCHANGED <<pc, oui, addresses, usingDhcp, chip, hardware, boots>>

\* Addresses that have the new sketch's prefix are still good.
Upload ==
  /\ pc = "off"
  /\ oui' \in Ouis
  /\ kept' = IF Acceptable(kept, oui') THEN kept ELSE None
  /\ UNCHANGED <<pc, eeprom, addresses, usingDhcp, chip, hardware, boots>>

Next ==
  \/ PowerUp \/ ReadEepromEntry \/ GenerateAddresses \/ WriteEepromEntry
  \/ BeginWithDhcp \/ BeginWithoutDhcp \/ MaintainDhcpLease
  \/ PowerFails \/ Erase \/ Upload

Spec == Init /\ [][Next]_vars

-----------------------------------------------------------------------------
(* Properties.                                                             *)

\* Locally administered and not a multicast address: the low bits are 10.
LocalUnicast(mac) == \E high \in 0 .. 63 : mac.first = 4 * high + 2

\* 169.254.1.0 to 169.254.254.255.
LinkLocal(ip) ==
  /\ ip[1] = 169 /\ ip[2] = 254
  /\ ip[3] \in 1 .. 254 /\ ip[4] \in 0 .. 255

Byte == 0 .. 255

Mac == [first : Byte, mid : Mids, nic : Nics]

Ip == [1 .. 4 -> Byte]

ASSUME NoneAssumption == None \notin [mac : Mac, ip : Ip] /\ None \notin Mac
ASSUME NoEntryAssumption == None \notin Seq(Byte \cup Mids \cup Nics)

\* Every variable has its type, and addresses are set when they are used.
TypeOK ==
  /\ pc \in {"off", "read", "generate", "write", "dhcp", "check", "up", "halted"}
  /\ oui \in Ouis
  /\ usingDhcp \in BOOLEAN /\ hardware \in BOOLEAN
  /\ boots \in 0 .. MaxBoots
  /\ {Found, addresses, kept} \subseteq [mac : Mac, ip : Ip] \cup {None}
  /\ chip \in [mac : Mac \cup {None}, ip : Ip \cup Leases \cup {None},
              gateway : Ip \cup {None}]
  /\ pc \in {"write", "dhcp", "check", "up"} => addresses # None

\* "generate random addresses when we first boot up a sketch, and then use those
\* same addresses each time the sketch boots up in the future": once saved, and
\* until the EEPROM is erased or a sketch asks for another prefix, addresses are
\* neither generated anew nor overwritten, whenever power fails.
SameAddresses ==
  kept # None =>
    /\ Found = kept
    /\ pc \notin {"generate", "write"}
    /\ pc \in {"dhcp", "check", "up"} => addresses = kept

\* setup() ends with a usable network: a local unicast MAC address with the
\* sketch's prefix on the chip and, without DHCP, the link-local address and a
\* gateway in its subnet that is another host; this for addresses generated now,
\* ones read back, and ones saved by a sketch with another prefix or none.
UsableNetwork ==
  pc = "up" =>
    /\ chip.mac = addresses.mac /\ LocalUnicast(chip.mac)
    /\ oui # NoOui => HasOuiPrefix(chip.mac, oui)
    /\ ~usingDhcp =>
         /\ chip.ip = addresses.ip /\ LinkLocal(chip.ip)
         /\ chip.gateway # chip.ip
         /\ \A i \in 1 .. 4 : Subnet[i] = 255 => chip.gateway[i] = chip.ip[i]

\* A board without a W5500 never gets past setup(): what is read from the open
\* lines is never taken for the MAC address.
HardwareFound == pc = "up" => hardware
=============================================================================
