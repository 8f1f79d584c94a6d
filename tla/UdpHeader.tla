------------------------------ MODULE UdpHeader ------------------------------
(***************************************************************************)
(* The header the UDP chain puts before each datagram, so that the far end *)
(* knows where to send it: version, length of the address, address, port.  *)
(* A packet is a sequence of bytes.                                        *)
(***************************************************************************)
EXTENDS Integers, Sequences, SequencesExt

VARIABLE header  \* what is given to packAddress, and to unpackAddress

Byte    == 0..255
Address == {ip \in Seq(Byte) : Len(ip) \in Byte}  \* its length is sent as a byte
PortNo  == 0..65535
Target  == [ip : Address, port : PortNo, data : Seq(Byte)]

VersionIPv4 == 0
VersionIPv6 == 128
MinHeaderSize == 4

Refused == [ip |-> <<>>, port |-> -1, data |-> <<>>]

(* net.IP: To4 knows an IPv4 address in either form; "" is no address.     *)
MappedPrefix == <<0, 0, 0, 0, 0, 0, 0, 0, 0, 0, 255, 255>>

To4(ip) == IF Len(ip) = 16 /\ IsPrefix(MappedPrefix, ip) THEN SubSeq(ip, 13, 16) ELSE ip

-----------------------------------------------------------------------------
(* Mutant: the port's bytes are swapped.                                   *)
PackSwapped(ip, port, data) ==
    <<IF Len(To4(ip)) = 4 THEN VersionIPv4 ELSE VersionIPv6, Len(To4(ip))>>
        \o To4(ip) \o <<port % 256, port \div 256>> \o data

packAddress(ip, port, data) ==
    <<IF Len(To4(ip)) = 4 THEN VersionIPv4 ELSE VersionIPv6, Len(To4(ip))>>
        \o To4(ip) \o <<port \div 256, port % 256>> \o data

(* A packet that is too short, or whose length of the address does not fit *)
(* its version, is refused; a version that is neither is not.              *)
unpackAddress(packet) ==
    IF \/ Len(packet) < MinHeaderSize
       \/ Len(packet) < 4 + packet[2]
       \/ packet[1] = VersionIPv4 /\ packet[2] # 4
       \/ packet[1] = VersionIPv6 /\ packet[2] # 16
    THEN Refused
    ELSE LET ipLen == packet[2] IN
         [ip   |-> SubSeq(packet, 3, 2 + ipLen),
          port |-> 256 * packet[3 + ipLen] + packet[4 + ipLen],
          data |-> SubSeq(packet, 5 + ipLen, Len(packet))]

-----------------------------------------------------------------------------
(* Any targets and packets.  There are no steps: both are functions.       *)
HeaderSpec ==
    /\ header \in [target : SUBSET Target, packet : SUBSET Seq(Byte)]
    /\ [][UNCHANGED header]_header

(* What unpackAddress makes of a packet of packAddress is the target and   *)
(* the datagram that were packed, with an IPv4 address in its short form;  *)
(* a target without an address is packed, and refused at the other end.    *)
(* Nothing else is accepted: a packet that unpackAddress takes apart is    *)
(* the one packAddress makes of what it found, if its version is one of    *)
(* the two that are sent and its address is no IPv4 one in the long form.  *)
HeaderRoundTrip ==
    /\ \A t \in header.target :
        unpackAddress(packAddress(t.ip, t.port, t.data)) =
            IF Len(To4(t.ip)) \in {4, 16}
            THEN [ip |-> To4(t.ip), port |-> t.port, data |-> t.data]
            ELSE Refused
    /\ \A p \in header.packet :
        LET found == unpackAddress(p)
        IN  (found # Refused /\ p[1] \in {VersionIPv4, VersionIPv6} /\ To4(found.ip) = found.ip)
            => packAddress(found.ip, found.port, found.data) = p
=============================================================================
