------------------------------ MODULE MCIpDevice ------------------------------
(* Instance of IpDevice for TLC. *)
EXTENDS IpDevice

\* The prefix of TestIpDeviceSetup, whose multicast bit is set as written; another
\* prefix that shares its first byte; and a sketch that passes none.
Prefixes == {OuiPrefix(83, 1), OuiPrefix(83, 2), NoOui}

\* The bounds of each byte and of random(), and the gateway's numbers.
Numbers == {0, 1, 255, 256}

Lease == {<<192, 168, 0, 7>>, <<10, 0, 0, 7>>}
=============================================================================
