---------------------------- MODULE IpDeviceProofs ----------------------------
(***************************************************************************)
(* The invariants of IpDevice, for every set of prefixes, every range of   *)
(* random numbers and any number of starts.                                *)
(***************************************************************************)
EXTENDS IpDevice, TLAPS

-----------------------------------------------------------------------------
(* What the generators return.                                             *)

\* ToOuiUnicast returns a byte whose low bits are 10, and changes no such byte.
LEMMA UnicastByte ==
  ASSUME NEW byte \in Byte
  PROVE  /\ ToOuiUnicast(byte) \in Byte
         /\ \E high \in 0 .. 63 : ToOuiUnicast(byte) = 4 * high + 2
         /\ ToOuiUnicast(ToOuiUnicast(byte)) = ToOuiUnicast(byte)
<1> DEFINE high == byte \div 4
<1>1. high \in 0 .. 63
  BY DEF Byte
<1>2. ToOuiUnicast(byte) = 4 * high + 2
  BY DEF ToOuiUnicast
<1>3. (4 * high + 2) \div 4 = high
  BY <1>1
<1> QED
  BY <1>1, <1>2, <1>3 DEF ToOuiUnicast, Byte

\* A generated MAC address is local and unicast, and has the sketch's prefix.
LEMMA MacsAreGood ==
  ASSUME NEW prefix \in Ouis, NEW mac \in GeneratedMacs(prefix)
  PROVE  /\ mac \in Mac
         /\ LocalUnicast(mac)
         /\ prefix # NoOui => HasOuiPrefix(mac, prefix)
<1>1. CASE prefix # NoOui
  <2>1. PICK byte0 \in Byte, mid \in Mids : prefix = OuiPrefix(byte0, mid)
    BY <1>1, OuisAssumption DEF Byte
  <2>2. PICK nic \in Nics :
          mac = [first |-> ToOuiUnicast(prefix.first), mid |-> prefix.mid, nic |-> nic]
    BY <1>1 DEF GeneratedMacs
  <2>3. /\ prefix.mid = mid /\ prefix.first = ToOuiUnicast(byte0)
        /\ ToOuiUnicast(prefix.first) = ToOuiUnicast(byte0)
    BY <2>1, UnicastByte DEF OuiPrefix
  <2> QED
    BY <2>2, <2>3, UnicastByte DEF Mac, LocalUnicast, HasOuiPrefix
<1>2. CASE prefix = NoOui
  <2>1. PICK byte \in Random(0, 256), mid \in Mids, nic \in Nics :
          mac = [first |-> ToOuiUnicast(byte), mid |-> mid, nic |-> nic]
    BY <1>2 DEF GeneratedMacs
  <2>2. byte \in Byte
    BY SamplesAssumption DEF Random, Byte
  <2> QED
    BY <1>2, <2>1, <2>2, UnicastByte DEF Mac, LocalUnicast
<1> QED
  BY <1>1, <1>2

\* A generated IP address is link-local.
LEMMA IpsAreGood ==
  ASSUME NEW ip \in GeneratedIps
  PROVE  ip \in Ip /\ LinkLocal(ip)
<1>1. PICK third \in Random(1, 255), fourth \in Random(0, 256) :
        ip = <<169, 254, third, fourth>>
  BY DEF GeneratedIps
<1>2. third \in 1 .. 254 /\ fourth \in Byte
  BY SamplesAssumption DEF Random, Byte
<1> QED
  BY <1>1, <1>2 DEF Ip, Byte, LinkLocal

\* The gateway is the host with number 1 of the subnet.
LEMMA GatewayIs ==
  ASSUME NEW ip \in Ip
  PROVE  /\ Gateway(ip) \in Ip
         /\ Gateway(ip)[1] = ip[1] /\ Gateway(ip)[2] = ip[2]
         /\ Gateway(ip)[3] = 0
<1>1. 2 * (0 \div 2) + 1 = 1
  OBVIOUS
<1>2. Gateway(ip) = [i \in 1 .. 4 |-> IF i <= 2 THEN ip[i] ELSE IF i = 3 THEN 0 ELSE 1]
  BY <1>1 DEF Gateway, Subnet
<1> QED
  BY <1>2 DEF Ip, Byte

\* Open lines never show a local unicast address.
LEMMA NoiseIsNotUnicast ==
  ASSUME NEW mac \in Noise
  PROVE  ~LocalUnicast(mac)
BY DEF Noise, LocalUnicast

\* Reading an entry gives the addresses that were written.
LEMMA ReadsBack ==
  ASSUME NEW pair \in [mac : Mac, ip : Ip]
  PROVE  /\ WriteToRegion(pair) # None
         /\ ReadFromRegion(WriteToRegion(pair)) = pair
<1> DEFINE w == WriteToRegion(pair)
<1>1. /\ pair.mac.first \in Byte /\ pair.mac.mid \in Mids /\ pair.mac.nic \in Nics
      /\ \A i \in 1 .. 4 : pair.ip[i] \in Byte
  BY DEF Mac, Ip
<1>2. w \in Seq(Byte \cup Mids \cup Nics)
  BY <1>1 DEF WriteToRegion, WriteMac, WriteIp
<1>3. /\ w[1] = pair.mac.first /\ w[2] = pair.mac.mid /\ w[3] = pair.mac.nic
      /\ w[4] = pair.ip[1] /\ w[5] = pair.ip[2] /\ w[6] = pair.ip[3] /\ w[7] = pair.ip[4]
  BY <1>1 DEF WriteToRegion, WriteMac, WriteIp
<1>4. ReadMac(w) = pair.mac
  BY <1>3 DEF ReadMac, Mac
<1>5. ReadIp(w) = pair.ip
  BY <1>3 DEF ReadIp, Ip
<1> QED
  BY <1>2, <1>4, <1>5, NoEntryAssumption DEF ReadFromRegion

-----------------------------------------------------------------------------
(* The inductive invariant.                                                *)

\* All addresses held were generated.
AllGood ==
  \A held \in {Found, addresses, kept} \ {None} :
    LocalUnicast(held.mac) /\ LinkLocal(held.ip)

\* What was kept is still accepted, and what is used has the prefix.
PrefixKept ==
  /\ kept # None => Acceptable(kept, oui)
  /\ pc \in {"write", "dhcp", "check", "up"} /\ oui # NoOui =>
       HasOuiPrefix(addresses.mac, oui)

\* The chip has been given the MAC address before it is read back.
ChipKnows == pc \in {"check", "up"} => chip.mac = addresses.mac

IInv ==
  /\ TypeOK /\ AllGood /\ PrefixKept /\ ChipKnows
  /\ SameAddresses /\ UsableNetwork /\ HardwareFound

\* At first the power is off.
LEMMA InitIInv == Init => IInv
<1> SUFFICES ASSUME Init PROVE IInv
  OBVIOUS
<1>1. TypeOK
  <2>1. chip \in [mac : Mac \cup {None}, ip : Ip \cup Leases \cup {None},
                  gateway : Ip \cup {None}]
    BY DEF Init, ResetChip
  <2>2. {Found, addresses, kept} = {None} /\ boots \in 0 .. MaxBoots
    BY BootsAssumption DEF Init, Found
  <2> QED
    BY <2>1, <2>2 DEF Init, TypeOK
<1>2. AllGood /\ PrefixKept /\ ChipKnows /\ SameAddresses /\ UsableNetwork /\ HardwareFound
  BY DEF Init, Found, AllGood, PrefixKept, ChipKnows, SameAddresses, UsableNetwork, HardwareFound
<1> QED
  BY <1>1, <1>2 DEF IInv

\* Every step keeps the invariant.
LEMMA NextIInv == IInv /\ [Next]_vars => IInv'
<1> SUFFICES ASSUME IInv, [Next]_vars
             PROVE  IInv'
  OBVIOUS
<1> USE BootsAssumption, NoneAssumption
<1> USE DEF IInv, TypeOK
<1>a. eeprom' = eeprom => Found' = Found
  BY DEF Found
<1>b. eeprom' = None => Found' = None
  BY DEF Found
<1>c. pc = "write" /\ eeprom' = WriteToRegion(addresses) => Found' = addresses
  BY ReadsBack DEF Found
<1> USE <1>a
<1>1. CASE PowerUp
  BY <1>1 DEF PowerUp, AllGood, PrefixKept, ChipKnows, SameAddresses, UsableNetwork,
    HardwareFound, ResetChip
<1>2. CASE ReadEepromEntry
  <2>1. TypeOK'
    BY <1>2 DEF ReadEepromEntry, Acceptable
  <2>2. AllGood'
    BY <1>2 DEF ReadEepromEntry, AllGood
  <2>3. PrefixKept' /\ SameAddresses'
    BY <1>2 DEF ReadEepromEntry, PrefixKept, SameAddresses, Acceptable
  <2>4. ChipKnows' /\ UsableNetwork' /\ HardwareFound'
    BY <1>2 DEF ReadEepromEntry, ChipKnows, UsableNetwork, HardwareFound
  <2> QED
    BY <2>1, <2>2, <2>3, <2>4
<1>3. CASE GenerateAddresses
  <2>1. PICK mac \in GeneratedMacs(oui), ip \in GeneratedIps :
          addresses' = [mac |-> mac, ip |-> ip]
    BY <1>3 DEF GenerateAddresses
  <2>2. /\ mac \in Mac /\ LocalUnicast(mac)
        /\ oui # NoOui => HasOuiPrefix(mac, oui)
    BY MacsAreGood
  <2>3. ip \in Ip /\ LinkLocal(ip)
    BY IpsAreGood
  <2>4. addresses' \in [mac : Mac, ip : Ip]
    BY <2>1, <2>2, <2>3
  <2>5. TypeOK'
    BY <1>3, <2>4 DEF GenerateAddresses
  <2>6. AllGood' /\ PrefixKept'
    BY <1>3, <2>1, <2>2, <2>3 DEF GenerateAddresses, AllGood, PrefixKept
  <2>7. ChipKnows' /\ UsableNetwork' /\ HardwareFound' /\ SameAddresses'
    BY <1>3 DEF GenerateAddresses, ChipKnows, UsableNetwork, HardwareFound, SameAddresses
  <2> QED
    BY <2>5, <2>6, <2>7
<1>4. CASE WriteEepromEntry
  <2>1. TypeOK'
    BY <1>4, <1>b, <1>c DEF WriteEepromEntry
  <2>2. AllGood' /\ PrefixKept' /\ SameAddresses'
    BY <1>4, <1>b, <1>c DEF WriteEepromEntry, AllGood, PrefixKept, SameAddresses, Acceptable
  <2>3. ChipKnows' /\ UsableNetwork' /\ HardwareFound'
    BY <1>4 DEF WriteEepromEntry, ChipKnows, UsableNetwork, HardwareFound
  <2> QED
    BY <2>1, <2>2, <2>3
<1>5. CASE BeginWithDhcp
  <2>1. TypeOK'
    <3>1. addresses \in [mac : Mac, ip : Ip]
      BY <1>5 DEF BeginWithDhcp
    <3>2. chip' \in [mac : Mac \cup {None}, ip : Ip \cup Leases \cup {None},
                     gateway : Ip \cup {None}]
      BY <1>5, <3>1 DEF BeginWithDhcp
    <3>3. usingDhcp' \in BOOLEAN
      BY <1>5 DEF BeginWithDhcp
    <3> QED
      BY <1>5, <3>2, <3>3 DEF BeginWithDhcp
  <2>2. AllGood' /\ PrefixKept' /\ SameAddresses'
    BY <1>5 DEF BeginWithDhcp, AllGood, PrefixKept, SameAddresses
  <2>3. ChipKnows' /\ HardwareFound'
    BY <1>5 DEF BeginWithDhcp, ChipKnows, HardwareFound
  <2>4. UsableNetwork'
    BY <1>5, <2>3 DEF BeginWithDhcp, ChipKnows, UsableNetwork, AllGood, PrefixKept
  <2> QED
    BY <2>1, <2>2, <2>3, <2>4
<1>6. CASE BeginWithoutDhcp
  <2>1. addresses \in [mac : Mac, ip : Ip] /\ addresses # None
    BY <1>6 DEF BeginWithoutDhcp
  <2>2. LocalUnicast(addresses.mac) /\ LinkLocal(addresses.ip)
    BY <2>1 DEF AllGood
  <2>3. /\ Gateway(addresses.ip) \in Ip
        /\ Gateway(addresses.ip)[1] = addresses.ip[1]
        /\ Gateway(addresses.ip)[2] = addresses.ip[2]
        /\ Gateway(addresses.ip)[3] = 0
    BY <2>1, GatewayIs
  <2>4. AllGood' /\ PrefixKept' /\ SameAddresses'
    BY <1>6 DEF BeginWithoutDhcp, AllGood, PrefixKept, SameAddresses
  <2>5. PICK mac \in MacAddress :
          \/ mac # addresses.mac /\ pc' = "halted" /\ UNCHANGED chip
          \/ /\ mac = addresses.mac
             /\ chip' = [mac |-> addresses.mac, ip |-> addresses.ip,
                         gateway |-> Gateway(addresses.ip)]
             /\ pc' = "up"
    BY <1>6 DEF BeginWithoutDhcp
  <2>6. CASE mac # addresses.mac /\ pc' = "halted" /\ UNCHANGED chip
    BY <1>6, <2>4, <2>6 DEF BeginWithoutDhcp, ChipKnows, UsableNetwork, HardwareFound
  <2>7. CASE /\ mac = addresses.mac
             /\ chip' = [mac |-> addresses.mac, ip |-> addresses.ip,
                         gateway |-> Gateway(addresses.ip)]
             /\ pc' = "up"
    <3>1. hardware
      BY <2>2, <2>7, NoiseIsNotUnicast DEF MacAddress
    <3>2. TypeOK'
      BY <1>6, <2>1, <2>3, <2>7 DEF BeginWithoutDhcp
    <3>3. Gateway(addresses.ip)[3] # addresses.ip[3]
      BY <2>2, <2>3 DEF LinkLocal
    <3>4. \A i \in 1 .. 4 : Subnet[i] = 255 => Gateway(addresses.ip)[i] = addresses.ip[i]
      BY <2>3 DEF Subnet
    <3>5. UsableNetwork'
      BY <1>6, <2>1, <2>2, <2>7, <3>3, <3>4 DEF BeginWithoutDhcp, UsableNetwork, PrefixKept
    <3>6. ChipKnows' /\ HardwareFound'
      BY <1>6, <2>7, <3>1 DEF BeginWithoutDhcp, ChipKnows, HardwareFound
    <3> QED
      BY <2>4, <3>2, <3>5, <3>6
  <2> QED
    BY <2>5, <2>6, <2>7
<1>7. CASE MaintainDhcpLease
  BY <1>7 DEF MaintainDhcpLease, AllGood, PrefixKept, ChipKnows, SameAddresses,
    UsableNetwork, HardwareFound
<1>8. CASE PowerFails
  <2>1. TypeOK' /\ AllGood'
    BY <1>8, <1>b, <1>c DEF PowerFails, AllGood
  <2>2. PrefixKept' /\ SameAddresses'
    BY <1>8, <1>b, <1>c DEF PowerFails, PrefixKept, SameAddresses
  <2>3. ChipKnows' /\ UsableNetwork' /\ HardwareFound'
    BY <1>8 DEF PowerFails, ChipKnows, UsableNetwork, HardwareFound
  <2> QED
    BY <2>1, <2>2, <2>3
<1>9. CASE Erase
  BY <1>9, <1>b DEF Erase, AllGood, PrefixKept, ChipKnows, SameAddresses, UsableNetwork,
    HardwareFound
<1>10. CASE Upload
  <2>1. TypeOK' /\ AllGood'
    BY <1>10 DEF Upload, AllGood
  <2>2. PrefixKept' /\ SameAddresses'
    BY <1>10 DEF Upload, PrefixKept, SameAddresses
  <2>3. ChipKnows' /\ UsableNetwork' /\ HardwareFound'
    BY <1>10 DEF Upload, ChipKnows, UsableNetwork, HardwareFound
  <2> QED
    BY <2>1, <2>2, <2>3
<1>11. CASE UNCHANGED vars
  BY <1>11 DEF vars, AllGood, PrefixKept, ChipKnows, SameAddresses, UsableNetwork,
    HardwareFound, Acceptable
<1> QED
  BY <1>1, <1>2, <1>3, <1>4, <1>5, <1>6, <1>7, <1>8, <1>9, <1>10, <1>11 DEF Next

\* The inductive invariant holds in every behaviour.
LEMMA Invariance == Spec => []IInv
BY InitIInv, NextIInv, PTL DEF Spec

-----------------------------------------------------------------------------

\* InitializeNetworking keeps every variable's type, and uses no addresses before
\* they are read or generated.
THEOREM TypeCorrect == Spec => []TypeOK
<1>1. IInv => TypeOK
  BY DEF IInv
<1> QED
  BY <1>1, Invariance, PTL

\* However often the device starts and wherever power fails, addresses that were
\* saved stay the device's addresses.
THEOREM AddressesLast == Spec => []SameAddresses
<1>1. IInv => SameAddresses
  BY DEF IInv
<1> QED
  BY <1>1, Invariance, PTL

\* When setup() is done the chip has a local unicast MAC address with the sketch's
\* prefix and, without DHCP, a link-local address and a gateway beside it.
THEOREM NetworkUsable == Spec => []UsableNetwork
<1>1. IInv => UsableNetwork
  BY DEF IInv
<1> QED
  BY <1>1, Invariance, PTL

\* The check of the MAC address in InitializeNetworking tells a board without a
\* W5500 from one with it.
THEOREM NoHardwareNoNetwork == Spec => []HardwareFound
<1>1. IInv => HardwareFound
  BY DEF IInv
<1> QED
  BY <1>1, Invariance, PTL
=============================================================================
