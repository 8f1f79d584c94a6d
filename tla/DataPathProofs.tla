--------------------------- MODULE DataPathProofs ---------------------------
(***************************************************************************)
(* Proofs about what carries a rule's traffic: the header of the datagrams *)
(* of a UDP chain, and the relay of a TCP or TLS connection.               *)
(*                                                                         *)
(* The relay's data are seen as cells: what is in a channel, in the hands  *)
(* of a copy, in the header's reader, or received.  Every step moves the   *)
(* first item of one cell to the end of another, loses it, adds the item   *)
(* that a peer sends, or hands items to the header's reader; the proofs    *)
(* show that of the actions once, and reason about cells from then on.     *)
(***************************************************************************)
EXTENDS UdpHeader, Relay, SequenceTheorems, FiniteSetTheorems, TLAPS

(* The ports two bytes can name.                                           *)
Port == {256 * x + y : x \in Byte, y \in Byte}

(* A sequence of two.                                                      *)
LEMMA TwoFacts ==
  ASSUME NEW S, NEW x \in S, NEW y \in S
  PROVE  <<x, y>> \in Seq(S) /\ Len(<<x, y>>) = 2 /\ <<x, y>>[1] = x /\ <<x, y>>[2] = y
OBVIOUS

(* Places in two sequences put one behind the other.                       *)
LEMMA ConcatFacts ==
  ASSUME NEW S, NEW s \in Seq(S), NEW t \in Seq(S), NEW k \in Nat, k = Len(s), NEW n \in Nat, n = Len(t)
  PROVE  /\ s \o t \in Seq(S) /\ Len(s \o t) = k + n
         /\ \A i \in 1..k : (s \o t)[i] = s[i]
         /\ \A i \in 1..n : (s \o t)[k + i] = t[i]
<1>1. /\ s \o t \in Seq(S) /\ Len(s \o t) = k + n
      /\ \A i \in 1..(k + n) : (s \o t)[i] = IF i <= k THEN s[i] ELSE t[i - k]
  BY ConcatProperties, LenProperties
<1>2. ASSUME NEW i \in 1..k PROVE (s \o t)[i] = s[i]
  BY <1>1
<1>3. ASSUME NEW i \in 1..n PROVE (s \o t)[k + i] = t[i]
  <2>1. PICK j : j = k + i
    OBVIOUS
  <2>2. j \in 1..(k + n) /\ ~(j <= k) /\ j - k = i
    BY <1>1, <2>1
  <2>3. (s \o t)[j] = t[j - k]
    BY <1>1, <2>2
  <2> QED
    BY <2>1, <2>2, <2>3
<1> QED
  BY <1>1, <1>2, <1>3

(* A packet is the version, the length of the address, the address, the    *)
(* port's two bytes and the datagram.                                      *)
Layout(p, v, a, x, y, d) ==
    /\ p \in Seq(Byte) /\ Len(p) = 4 + Len(a) + Len(d)
    /\ p[1] = v /\ p[2] = Len(a)
    /\ \A i \in 1..Len(a) : p[2 + i] = a[i]
    /\ p[3 + Len(a)] = x /\ p[4 + Len(a)] = y
    /\ \A i \in 1..Len(d) : p[4 + Len(a) + i] = d[i]

(* Putting them together.                                                  *)
LEMMA PacketLayout ==
  ASSUME NEW v \in Byte, NEW a \in Seq(Byte), Len(a) \in Byte, NEW x \in Byte, NEW y \in Byte,
         NEW d \in Seq(Byte)
  PROVE  Layout(<<v, Len(a)>> \o a \o <<x, y>> \o d, v, a, x, y, d)
<1>1. PICK n \in Byte : n = Len(a)
  OBVIOUS
<1>2. PICK m \in Nat : m = Len(d) /\ n \in Nat
  BY <1>1, LenProperties
<1>3. PICK s \in Seq(Byte) : s = <<v, n>> /\ Len(s) = 2 /\ s[1] = v /\ s[2] = n
  <2>1. <<v, n>> \in Seq(Byte) /\ Len(<<v, n>>) = 2 /\ <<v, n>>[1] = v /\ <<v, n>>[2] = n
    BY TwoFacts, Zenon
  <2> QED
    BY <2>1, Zenon
<1>4. PICK z \in Seq(Byte) : z = <<x, y>> /\ Len(z) = 2 /\ z[1] = x /\ z[2] = y
  <2>1. <<x, y>> \in Seq(Byte) /\ Len(<<x, y>>) = 2 /\ <<x, y>>[1] = x /\ <<x, y>>[2] = y
    BY TwoFacts, Zenon
  <2> QED
    BY <2>1, Zenon
<1>5. PICK k \in Nat, j \in Nat : k = 2 + n /\ j = k + 2
  BY <1>2
<1>6. PICK t \in Seq(Byte) :
          /\ t = s \o a /\ Len(t) = k
          /\ t[1] = v /\ t[2] = n /\ \A i \in 1..n : t[2 + i] = a[i]
  <2>1. /\ s \o a \in Seq(Byte) /\ Len(s \o a) = 2 + n
        /\ \A i \in 1..2 : (s \o a)[i] = s[i]
        /\ \A i \in 1..n : (s \o a)[2 + i] = a[i]
    BY <1>1, <1>2, <1>3, ConcatFacts
  <2>2. 1 \in 1..2 /\ 2 \in 1..2
    OBVIOUS
  <2>3. (s \o a)[1] = v /\ (s \o a)[2] = n
    BY <1>3, <2>1, <2>2, Zenon
  <2> QED
    BY <1>5, <2>1, <2>3, Zenon
<1>7. PICK u \in Seq(Byte) :
          /\ u = t \o z /\ Len(u) = j
          /\ \A i \in 1..k : u[i] = t[i]
          /\ u[k + 1] = x /\ u[k + 2] = y
  <2>1. PICK l \in Nat : l = 2
    OBVIOUS
  <2>2. k = Len(t) /\ l = Len(z)
    BY <1>4, <1>6, <2>1
  <2>3. /\ t \o z \in Seq(Byte) /\ Len(t \o z) = k + l
        /\ \A i \in 1..k : (t \o z)[i] = t[i]
        /\ \A i \in 1..l : (t \o z)[k + i] = z[i]
    BY <2>2, ConcatFacts
  <2>4. 1 \in 1..l /\ 2 \in 1..l
    BY <2>1
  <2>5. (t \o z)[k + 1] = x /\ (t \o z)[k + 2] = y
    BY <1>4, <2>3, <2>4, Zenon
  <2>6. Len(t \o z) = j
    BY <1>5, <2>1, <2>3
  <2> QED
    BY <2>3, <2>5, <2>6, Zenon
<1>8. PICK p \in Seq(Byte) :
          /\ p = u \o d /\ Len(p) = j + m
          /\ \A i \in 1..j : p[i] = u[i]
          /\ \A i \in 1..m : p[j + i] = d[i]
  <2>1. /\ u \o d \in Seq(Byte) /\ Len(u \o d) = j + m
        /\ \A i \in 1..j : (u \o d)[i] = u[i]
        /\ \A i \in 1..m : (u \o d)[j + i] = d[i]
    <3>1. j = Len(u) /\ m = Len(d)
      BY <1>2, <1>7
    <3> QED
      BY <3>1, ConcatFacts
  <2> QED
    BY <2>1, Zenon
<1>9. p[1] = v /\ p[2] = n
  <2>1. 1 \in 1..k /\ 2 \in 1..k /\ 1 \in 1..j /\ 2 \in 1..j
    BY <1>2, <1>5
  <2> QED
    BY <1>6, <1>7, <1>8, <2>1, ZenonT(60)
<1>10. p[3 + n] = x /\ p[4 + n] = y
  <2>1. k + 1 \in 1..j /\ k + 2 \in 1..j
    BY <1>2, <1>5
  <2>2. p[k + 1] = x /\ p[k + 2] = y
    BY <1>7, <1>8, <2>1, Zenon
  <2>3. k + 1 = 3 + n /\ k + 2 = 4 + n
    BY <1>2, <1>5
  <2> QED
    BY <2>2, <2>3, Zenon
<1>11. ASSUME NEW i \in 1..n PROVE p[2 + i] = a[i]
  <2>1. 2 + i \in 1..k /\ 2 + i \in 1..j
    BY <1>2, <1>5
  <2> QED
    BY <1>6, <1>7, <1>8, <2>1, ZenonT(60)
<1>12. j = 4 + n
  BY <1>2, <1>5
<1>13. \A i \in 1..m : p[4 + n + i] = d[i]
  BY <1>8, <1>12, Zenon
<1>14. Layout(p, v, a, x, y, d)
  <2>1. Len(p) = 4 + n + m
    BY <1>8, <1>12, Zenon
  <2> QED
    BY <1>1, <1>2, <1>9, <1>10, <1>11, <1>13, <2>1, Zenon DEF Layout
<1> QED
  BY <1>1, <1>3, <1>4, <1>6, <1>7, <1>8, <1>14, Zenon

(* A part of a sequence.                                                   *)
LEMMA PartOf ==
  ASSUME NEW S, NEW s \in Seq(S), NEW k \in Nat, NEW n \in Nat, k + n <= Len(s)
  PROVE  /\ SubSeq(s, k + 1, k + n) \in Seq(S) /\ Len(SubSeq(s, k + 1, k + n)) = n
         /\ \A i \in 1..n : SubSeq(s, k + 1, k + n)[i] = s[k + i]
<1>1. PICK a \in Int, b \in Int : a = k + 1 /\ b = k + n
  OBVIOUS
<1>2. \A i \in a..b : i \in 1..Len(s)
  BY <1>1
<1>3. \A i \in a..b : s[i] \in S
  BY <1>2, ElementOfSeq
<1>4. /\ SubSeq(s, a, b) \in Seq(S)
      /\ Len(SubSeq(s, a, b)) = IF a <= b THEN b - a + 1 ELSE 0
      /\ \A i \in 1..(b - a + 1) : SubSeq(s, a, b)[i] = s[a + i - 1]
  BY <1>3, SubSeqProperties
<1>5. b - a + 1 = n /\ (~(a <= b) => n = 0) /\ \A i \in 1..n : a + i - 1 = k + i
  BY <1>1
<1> QED
  BY <1>1, <1>4, <1>5

(* Two packets with one layout are the same.                               *)
LEMMA LayoutUnique ==
  ASSUME NEW p, NEW q, NEW v, NEW a \in Seq(Byte), NEW x, NEW y, NEW d \in Seq(Byte),
         Layout(p, v, a, x, y, d), Layout(q, v, a, x, y, d)
  PROVE  p = q
<1>1. /\ p \in Seq(Byte) /\ q \in Seq(Byte) /\ Len(p) = Len(q)
      /\ Len(p) = 4 + Len(a) + Len(d) /\ Len(a) \in Nat /\ Len(d) \in Nat
  BY DEF Layout
<1>2. ASSUME NEW i \in 1..Len(p) PROVE p[i] = q[i]
  <2>1. i \in Nat
    BY <1>1
  <2>2. CASE i \in {1, 2}
    BY <2>2 DEF Layout
  <2>3. CASE i >= 3 /\ i <= 2 + Len(a)
    <3>1. PICK j \in 1..Len(a) : i = 2 + j
      <4>1. i - 2 \in 1..Len(a) /\ i = 2 + (i - 2)
        BY <1>1, <2>1, <2>3
      <4> QED
        BY <4>1
    <3> QED
      BY <3>1 DEF Layout
  <2>4. CASE i = 3 + Len(a) \/ i = 4 + Len(a)
    BY <2>4 DEF Layout
  <2>5. CASE i > 4 + Len(a)
    <3>1. PICK j \in 1..Len(d) : i = 4 + Len(a) + j
      <4>1. i - (4 + Len(a)) \in 1..Len(d) /\ i = 4 + Len(a) + (i - (4 + Len(a)))
        BY <1>1, <1>2, <2>1, <2>5
      <4> QED
        BY <4>1
    <3> QED
      BY <3>1 DEF Layout
  <2> QED
    BY <1>1, <1>2, <2>1, <2>2, <2>3, <2>4, <2>5
<1> QED
  BY <1>1, <1>2, SeqEqual

(* To4 shortens an address or leaves it.                                   *)
LEMMA To4Facts ==
  ASSUME NEW ip \in Seq(Byte)
  PROVE  To4(ip) \in Seq(Byte) /\ (Len(To4(ip)) = Len(ip) \/ (Len(ip) = 16 /\ Len(To4(ip)) = 4))
<1>1. CASE To4(ip) = ip
  BY <1>1
<1>2. CASE Len(ip) = 16 /\ To4(ip) = SubSeq(ip, 13, 16)
  <2>1. \A i \in 13..16 : ip[i] \in Byte
    <3>1. \A i \in 13..16 : i \in 1..Len(ip)
      BY <1>2
    <3> QED
      BY <3>1, ElementOfSeq
  <2>2. SubSeq(ip, 13, 16) \in Seq(Byte) /\ Len(SubSeq(ip, 13, 16)) = 4
    BY <2>1, SubSeqProperties
  <2> QED
    BY <1>2, <2>2
<1> QED
  BY <1>1, <1>2 DEF To4

(* What unpackAddress finds in a packet of packAddress.                    *)
LEMMA UnpackLayout ==
  ASSUME NEW p, NEW v \in Byte, NEW a \in Seq(Byte), NEW x \in Byte, NEW y \in Byte, NEW d \in Seq(Byte),
         Layout(p, v, a, x, y, d), Len(a) \in Byte
  PROVE  unpackAddress(p) =
           IF (v = VersionIPv4 /\ Len(a) # 4) \/ (v = VersionIPv6 /\ Len(a) # 16) THEN Refused
           ELSE [ip |-> a, port |-> 256 * x + y, data |-> d]
<1>1. /\ p \in Seq(Byte) /\ Len(p) = 4 + Len(a) + Len(d) /\ Len(a) \in Nat /\ Len(d) \in Nat
      /\ p[1] = v /\ p[2] = Len(a) /\ p[3 + Len(a)] = x /\ p[4 + Len(a)] = y
  BY DEF Layout
<1>2. CASE (v = VersionIPv4 /\ Len(a) # 4) \/ (v = VersionIPv6 /\ Len(a) # 16)
  BY <1>1, <1>2 DEF unpackAddress
<1>3. CASE ~((v = VersionIPv4 /\ Len(a) # 4) \/ (v = VersionIPv6 /\ Len(a) # 16))
  <2>1. unpackAddress(p) = [ip   |-> SubSeq(p, 3, 2 + Len(a)),
                            port |-> 256 * x + y,
                            data |-> SubSeq(p, 5 + Len(a), Len(p))]
    BY <1>1, <1>3 DEF unpackAddress, MinHeaderSize
  <2>2. SubSeq(p, 3, 2 + Len(a)) = a
    <3>1. PICK s : s = SubSeq(p, 3, 2 + Len(a))
      OBVIOUS
    <3>2. s \in Seq(Byte) /\ Len(s) = Len(a) /\ \A i \in 1..Len(a) : s[i] = p[2 + i]
      BY <1>1, <3>1, PartOf
    <3>3. \A i \in 1..Len(s) : s[i] = a[i]
      BY <3>2 DEF Layout
    <3> QED
      BY <3>1, <3>2, <3>3, SeqEqual
  <2>3. SubSeq(p, 5 + Len(a), Len(p)) = d
    <3>1. PICK s : s = SubSeq(p, 5 + Len(a), Len(p))
      OBVIOUS
    <3>2. s \in Seq(Byte) /\ Len(s) = Len(d) /\ \A i \in 1..Len(d) : s[i] = p[4 + Len(a) + i]
      <4>1. PICK k \in Nat : k = 4 + Len(a)
        BY <1>1
      <4>2. s = SubSeq(p, k + 1, k + Len(d)) /\ k + Len(d) <= Len(p)
        BY <1>1, <3>1, <4>1
      <4> QED
        BY <1>1, <4>1, <4>2, PartOf
    <3>3. \A i \in 1..Len(s) : s[i] = d[i]
      BY <3>2 DEF Layout
    <3> QED
      BY <3>1, <3>2, <3>3, SeqEqual
  <2> QED
    BY <1>3, <2>1, <2>2, <2>3
<1> QED
  BY <1>2, <1>3

(* The two bytes of a port.                                                *)
LEMMA PortBytes ==
  ASSUME NEW x \in Byte, NEW y \in Byte
  PROVE  (256 * x + y) \div 256 = x /\ (256 * x + y) % 256 = y
BY SMT DEF Byte

(* packAddress writes a packet with the layout.                            *)
LEMMA PackLayout ==
  ASSUME NEW ip \in Seq(Byte), Len(ip) \in Byte, NEW x \in Byte, NEW y \in Byte, NEW data \in Seq(Byte)
  PROVE  /\ Layout(packAddress(ip, 256 * x + y, data),
                   IF Len(To4(ip)) = 4 THEN VersionIPv4 ELSE VersionIPv6, To4(ip), x, y, data)
         /\ To4(ip) \in Seq(Byte) /\ Len(To4(ip)) \in Byte
<1>1. PICK a : a = To4(ip)
  OBVIOUS
<1>2. a \in Seq(Byte) /\ Len(a) \in Byte
  <2>1. 4 \in Byte
    BY SMT DEF Byte
  <2> QED
    BY <1>1, <2>1, To4Facts, Zenon
<1>3. VersionIPv4 \in Byte /\ VersionIPv6 \in Byte
  BY SMT DEF Byte, VersionIPv4, VersionIPv6
<1>4. PICK v : v = IF Len(a) = 4 THEN VersionIPv4 ELSE VersionIPv6
  OBVIOUS
<1>5. v \in Byte
  BY <1>3, <1>4
<1>6. packAddress(ip, 256 * x + y, data) = <<v, Len(a)>> \o a \o <<x, y>> \o data
  <2>1. PICK w : w = 256 * x + y
    OBVIOUS
  <2>2. w \div 256 = x /\ w % 256 = y
    BY <2>1, PortBytes
  <2>3. packAddress(ip, w, data) = <<v, Len(a)>> \o a \o <<w \div 256, w % 256>> \o data
    BY <1>1, <1>4, ZenonT(60) DEF packAddress
  <2> QED
    BY <2>1, <2>2, <2>3, ZenonT(60)
<1>7. Layout(<<v, Len(a)>> \o a \o <<x, y>> \o data, v, a, x, y, data)
  BY <1>2, <1>5, PacketLayout
<1> QED
  BY <1>1, <1>2, <1>4, <1>6, <1>7, Zenon

(* unpackAddress finds what packAddress was given, whatever the address,   *)
(* the port and the datagram: an IPv4 address comes back in its short      *)
(* form, and what is no address of either kind is refused.                 *)
THEOREM PackedIsFound ==
  ASSUME NEW ip \in Seq(Byte), Len(ip) \in Byte, NEW port \in Port, NEW data \in Seq(Byte)
  PROVE  unpackAddress(packAddress(ip, port, data)) =
             IF Len(To4(ip)) \in {4, 16} THEN [ip |-> To4(ip), port |-> port, data |-> data]
             ELSE Refused
<1>1. PICK x \in Byte, y \in Byte : port = 256 * x + y
  BY DEF Port
<1>2. PICK a : a = To4(ip)
  OBVIOUS
<1>3. PICK v : v = IF Len(a) = 4 THEN VersionIPv4 ELSE VersionIPv6
  OBVIOUS
<1>4. /\ Layout(packAddress(ip, port, data), v, a, x, y, data)
      /\ a \in Seq(Byte) /\ Len(a) \in Byte
  BY <1>1, <1>2, <1>3, PackLayout
<1>5. v \in Byte
  BY <1>3, SMT DEF Byte, VersionIPv4, VersionIPv6
<1>6. unpackAddress(packAddress(ip, port, data)) =
           IF (v = VersionIPv4 /\ Len(a) # 4) \/ (v = VersionIPv6 /\ Len(a) # 16) THEN Refused
           ELSE [ip |-> a, port |-> port, data |-> data]
  BY <1>1, <1>4, <1>5, UnpackLayout
<1>7. ((v = VersionIPv4 /\ Len(a) # 4) \/ (v = VersionIPv6 /\ Len(a) # 16)) <=> Len(a) \notin {4, 16}
  BY <1>3, SMT DEF VersionIPv4, VersionIPv6
<1> QED
  BY <1>2, <1>6, <1>7, Zenon

(* And a packet that unpackAddress takes apart is the one packAddress      *)
(* makes of what it found, if its version is one of the two that are sent  *)
(* and its address is no IPv4 one in the long form.                        *)
THEOREM FoundIsPacked ==
  ASSUME NEW packet \in Seq(Byte), unpackAddress(packet) # Refused,
         packet[1] \in {VersionIPv4, VersionIPv6},
         NEW found, found = unpackAddress(packet), To4(found.ip) = found.ip
  PROVE  packAddress(found.ip, found.port, found.data) = packet
<1>1. PICK n : n = packet[2]
  OBVIOUS
<1>2. /\ Len(packet) \in Nat /\ ~(Len(packet) < 4) /\ ~(Len(packet) < 4 + n)
      /\ packet[1] = VersionIPv4 => n = 4
      /\ packet[1] = VersionIPv6 => n = 16
      /\ found = [ip   |-> SubSeq(packet, 3, 2 + n),
                  port |-> 256 * packet[3 + n] + packet[4 + n],
                  data |-> SubSeq(packet, 5 + n, Len(packet))]
  BY <1>1, LenProperties DEF unpackAddress, MinHeaderSize
<1>3. n \in {4, 16} /\ n \in Nat
  BY <1>2, SMTT(40)
<1>4. PICK a, d : a = SubSeq(packet, 3, 2 + n) /\ d = SubSeq(packet, 5 + n, Len(packet))
  OBVIOUS
<1>5. a \in Seq(Byte) /\ Len(a) = n /\ \A i \in 1..n : a[i] = packet[2 + i]
  <2>1. a = SubSeq(packet, 2 + 1, 2 + n) /\ 2 + n <= Len(packet)
    BY <1>2, <1>3, <1>4
  <2> QED
    BY <1>3, <2>1, PartOf
<1>6. PICK m \in Nat : Len(packet) = 4 + n + m
  <2>1. Len(packet) - (4 + n) \in Nat /\ Len(packet) = 4 + n + (Len(packet) - (4 + n))
    BY <1>2, <1>3
  <2> QED
    BY <2>1
<1>7. d \in Seq(Byte) /\ Len(d) = m /\ \A i \in 1..m : d[i] = packet[4 + n + i]
  <2>1. PICK k \in Nat : k = 4 + n
    BY <1>3
  <2>2. d = SubSeq(packet, k + 1, k + m) /\ k + m <= Len(packet)
    BY <1>3, <1>4, <1>6, <2>1
  <2> QED
    BY <2>1, <2>2, PartOf, ZenonT(60)
<1>8. PICK x \in Byte, y \in Byte : x = packet[3 + n] /\ y = packet[4 + n]
  <2>1. 3 + n \in 1..Len(packet) /\ 4 + n \in 1..Len(packet)
    BY <1>3, <1>6
  <2> QED
    BY <2>1, ElementOfSeq
<1>9. Layout(packet, packet[1], a, x, y, d)
  BY <1>1, <1>5, <1>6, <1>7, <1>8 DEF Layout
<1>10. found.ip = a /\ found.port = 256 * x + y /\ found.data = d /\ To4(a) = a
  <2>1. found = [ip |-> a, port |-> 256 * x + y, data |-> d]
    BY <1>2, <1>4, <1>8, Zenon
  <2>2. found.ip = a /\ found.port = 256 * x + y /\ found.data = d
    BY <2>1
  <2> QED
    BY <2>2, Zenon
<1>11. Len(a) \in Byte
  <2>1. 4 \in Byte /\ 16 \in Byte
    BY SMT DEF Byte
  <2> QED
    BY <1>3, <1>5, <2>1
<1>12. packet[1] = IF Len(a) = 4 THEN VersionIPv4 ELSE VersionIPv6
  BY <1>2, <1>3, <1>5, SMTT(40) DEF VersionIPv4, VersionIPv6
<1>13. Layout(packAddress(a, 256 * x + y, d), packet[1], a, x, y, d)
  <2>1. Layout(packAddress(a, 256 * x + y, d),
               IF Len(To4(a)) = 4 THEN VersionIPv4 ELSE VersionIPv6, To4(a), x, y, d)
    BY <1>5, <1>7, <1>8, <1>11, PackLayout, SMTT(40)
  <2> QED
    BY <1>10, <1>12, <2>1, ZenonT(60)
<1> QED
  BY <1>5, <1>7, <1>9, <1>10, <1>13, LayoutUnique

(* Any port is two bytes.                                                  *)
LEMMA PortsAre == \A p \in PortNo : p \in Port
<1>1. SUFFICES ASSUME NEW p \in PortNo PROVE p \in Port
  OBVIOUS
<1>2. PICK x, y : x = p \div 256 /\ y = p % 256
  OBVIOUS
<1>3. x \in Byte /\ y \in Byte /\ p = 256 * x + y
  BY <1>2, SMTT(60) DEF Byte, PortNo
<1> QED
  BY <1>3, SMT DEF Port

(* Both of them, for all targets and packets.                              *)
THEOREM HeaderReturns == HeaderSpec => []HeaderRoundTrip
<1> DEFINE Typed0 == header \in [target : SUBSET Target, packet : SUBSET Seq(Byte)]
<1>1. ASSUME Typed0 PROVE HeaderRoundTrip
  <2>1. ASSUME NEW t \in header.target
        PROVE  unpackAddress(packAddress(t.ip, t.port, t.data)) =
                  IF Len(To4(t.ip)) \in {4, 16}
                  THEN [ip |-> To4(t.ip), port |-> t.port, data |-> t.data]
                  ELSE Refused
    <3>1. t \in Target
      BY <1>1, <2>1
    <3>2. t.ip \in Seq(Byte) /\ Len(t.ip) \in Byte /\ t.port \in PortNo /\ t.data \in Seq(Byte)
      BY <3>1, SMT DEF Target, Address
    <3>3. t.port \in Port
      BY <3>2, PortsAre, Zenon
    <3> QED
      BY <3>2, <3>3, PackedIsFound, Zenon
  <2>2. ASSUME NEW p \in header.packet, NEW found, found = unpackAddress(p), found # Refused,
               p[1] \in {VersionIPv4, VersionIPv6}, To4(found.ip) = found.ip
        PROVE  packAddress(found.ip, found.port, found.data) = p
    <3>1. p \in Seq(Byte)
      BY <1>1, <2>2
    <3> QED
      BY <2>2, <3>1, FoundIsPacked, Zenon
  <2> QED
    BY <2>1, <2>2, Zenon DEF HeaderRoundTrip
<1>2. Typed0 /\ UNCHANGED header => Typed0'
  OBVIOUS
<1>3. Typed0 /\ [UNCHANGED header]_header => Typed0'
  BY <1>2
<1>4. HeaderSpec => []Typed0
  BY <1>3, PTL DEF HeaderSpec
<1> QED
  BY <1>1, <1>4, PTL

-----------------------------------------------------------------------------
(* The relay: cells, and what is true of them                              *)

(* The places a chunk of a direction can be in.                            *)
Spots == {"wire0", "wire1", "wire2", "copy1", "copy2", "held", "drain", "got"}
(* What a copy has read and not written.                                   *)
Carry(h, k) == IF copy[h][k].pc = "write" THEN <<copy[h][k].chunk>> ELSE <<>>
(* The header was sent and is not read.                                    *)
HeaderIn == hop[2].pc # "idle" /\ copy[2]["up"].pc = "off"
(* A channel without the header.                                           *)
Body(c, d) == IF HeaderIn /\ c = 1 /\ d = "up" THEN Tail(wire[c][d]) ELSE wire[c][d]
(* What is in a place of a direction, the oldest first; the bytes read     *)
(* with the header and the copy that writes them exist towards the rule's  *)
(* target only.                                                            *)
Cell(d, s) ==
    CASE s = "wire0" -> Body(0, d)
      [] s = "wire1" -> Body(1, d)
      [] s = "wire2" -> Body(2, d)
      [] s = "copy1" -> Carry(1, d)
      [] s = "copy2" -> Carry(2, d)
      [] s = "held"  -> IF d = "up" THEN hop[2].held ELSE <<>>
      [] s = "drain" -> IF d = "up" THEN Carry(2, "drain") ELSE <<>>
      [] s = "got"   -> got[d]
(* All the places of a direction.                                          *)
Cells(d) == [s \in Spots |-> Cell(d, s)]

(* What the program counters of a hop say of each other.                   *)
HopShape(h) ==
    /\ hop[h].pc \in {"idle", "setup"} =>
         /\ \A k \in Copiers : copy[h][k].pc = "off"
         /\ end[h] = NoEnds
    /\ copy[h]["up"].pc = "off" => \A k \in Copiers : copy[h][k].pc = "off"
    /\ (h = 1 \/ Hops = 1 \/ Kind = "tls") => copy[h]["drain"].pc = "off"
    /\ copy[h]["drain"].pc = "off" => hop[h].held = <<>>
    /\ hop[h].errs <= (IF copy[h]["up"].pc = "end" THEN 1 ELSE 0) + (IF copy[h]["down"].pc = "end" THEN 1 ELSE 0)

(* And those of both hops.                                                 *)
Shape ==
    /\ \A h \in 1..2 : HopShape(h)
    /\ hop[1].pc # "idle"
    /\ Hops = 1 => hop[2].pc = "idle"
    /\ hop[1].pc = "setup" => hop[2].pc = "idle" /\ wire[1].up = <<>>
    /\ HeaderIn => wire[1].up # <<>> /\ Head(wire[1].up) = Header

(* Sequences that repeat nothing, and their items.                         *)
Inj(s) == \A i, j \in 1..Len(s) : s[i] = s[j] => i = j
Items(s) == {s[i] : i \in 1..Len(s)}

(* Each item is in one cell at most, or in one at least.                   *)
Once(F, n) ==
    /\ \A s \in Spots : Inj(F[s]) /\ Items(F[s]) \subseteq 1..n
    /\ \A s, t \in Spots : s # t => Items(F[s]) \cap Items(F[t]) = {}
(* Every item is in a cell.                                                *)
All(F, n) == \A i \in 1..n : \E s \in Spots : i \in Items(F[s])

(* No end of a channel is closed.                                          *)
Unclosed == \A c \in 0..2 : end[c].l # "closed" /\ end[c].r # "closed"
(* Where the chunks of a direction are.                                    *)
PlaceInv ==
    \A d \in Dirs : Once(Cells(d), sent[d]) /\ (Unclosed => All(Cells(d), sent[d]))

(* The chunks of a direction that the rule's connector has read, and those *)
(* it has not.                                                             *)
Counted(d, F) ==
    IF d = "up" THEN Len(F["copy1"]) + Len(F["wire1"]) + Len(F["held"]) + Len(F["drain"]) + Len(F["copy2"]) + Len(F["got"])
    ELSE Len(F["copy1"]) + Len(F["got"])
(* And those it has not read.                                              *)
Uncounted(d, F) ==
    IF d = "up" THEN Len(F["wire0"]) ELSE Len(F["wire1"]) + Len(F["copy2"]) + Len(F["wire2"])

(* The counter is between what is behind it and what was sent.             *)
CountInv ==
    /\ Counted("up", Cells("up")) + Counted("down", Cells("down")) <= charged
    /\ charged + Uncounted("up", Cells("up")) + Uncounted("down", Cells("down")) <= sent.up + sent.down

(* A run of consecutive numbers, the last of which is last.                *)
EndsAt(s, last) == \A i \in 1..Len(s) : s[i] = last - Len(s) + i
(* A copy that has lost nothing.                                           *)
Sound(h, d) == copy[h][d].pc # "end" /\ FarOut(h, d) # "closed"

(* The cells of one hop in order, without a gap while it is sound.         *)
Row1(F, n, start, sound) ==
    /\ EndsAt(F[start], n)
    /\ EndsAt(F["copy1"], n - Len(F[start]))
    /\ EndsAt(F["got"], Len(F["got"]))
    /\ sound => Len(F["got"]) = n - Len(F[start]) - Len(F["copy1"])

(* The same of two hops, with a gap at most where one lost data.           *)
Row2(F, n, start, src, snk, a, b) ==
    /\ EndsAt(F[start], n)
    /\ EndsAt(F[src], n - Len(F[start]))
    /\ EndsAt(F["got"], Len(F["got"]))
    /\ \E e \in Int :
         /\ a => e = n - Len(F[start]) - Len(F[src])
         /\ EndsAt(F["wire1"], e)
         /\ EndsAt(F[snk], e - Len(F["wire1"]))
         /\ b => Len(F["got"]) = e - Len(F["wire1"]) - Len(F[snk])

(* The order of a direction.                                               *)
OrderOf(d) ==
    IF Hops = 1
    THEN Row1(Cells(d), sent[d], IF d = "up" THEN "wire0" ELSE "wire1", Sound(1, d))
    ELSE IF d = "up" THEN Row2(Cells(d), sent[d], "wire0", "copy1", "copy2", Sound(1, d), Sound(2, d))
    ELSE Row2(Cells(d), sent[d], "wire2", "copy2", "copy1", Sound(2, d), Sound(1, d))
(* The order of every direction; after a TCP chain's header two goroutines *)
(* write to the target, and no order is promised.                          *)
OrderInv == \A d \in Dirs : (TcpChain /\ d = "up") \/ OrderOf(d)

(* The first item of a cell goes to the end of another one.                *)
Shift(F, G, p, q) ==
    /\ F[p] # <<>>
    /\ \A s \in Spots : G[s] = IF s = p THEN Tail(F[p]) ELSE IF s = q THEN Append(F[q], Head(F[p])) ELSE F[s]

(* The first item of a cell is lost.                                       *)
Drop(F, G, p) ==
    /\ F[p] # <<>>
    /\ \A s \in Spots : G[s] = IF s = p THEN Tail(F[p]) ELSE F[s]

(* An item is added to a cell.                                             *)
Enter(F, G, p, x) == \A s \in Spots : G[s] = IF s = p THEN Append(F[p], x) ELSE F[s]

(* The second hop reads the header, and as many items with it.             *)
Split(F, G, m) ==
    /\ F["held"] = <<>> /\ m \in 0..Len(F["wire1"])
    /\ \A s \in Spots : G[s] = IF s = "wire1" THEN SubSeq(F["wire1"], m + 1, Len(F["wire1"]))
                               ELSE IF s = "held" THEN SubSeq(F["wire1"], 1, m)
                               ELSE F[s]

-----------------------------------------------------------------------------
(* Lemmas about sequences *)

(* What remains when the first item is taken.                              *)
LEMMA TailFacts ==
  ASSUME NEW S, NEW s \in Seq(S), s # <<>>
  PROVE  /\ Len(s) \in Nat \ {0} /\ Tail(s) \in Seq(S) /\ Len(Tail(s)) = Len(s) - 1
         /\ \A i \in 1..Len(s) - 1 : Tail(s)[i] = s[i + 1]
         /\ Head(s) = s[1] /\ Head(s) \in S
OBVIOUS

(* What an item is added to.                                               *)
LEMMA AppendFacts ==
  ASSUME NEW S, NEW s \in Seq(S), NEW x \in S
  PROVE  /\ Append(s, x) \in Seq(S) /\ Len(s) \in Nat /\ Len(Append(s, x)) = Len(s) + 1
         /\ \A i \in 1..Len(s) : Append(s, x)[i] = s[i]
         /\ Append(s, x)[Len(s) + 1] = x
OBVIOUS

(* One item alone.                                                         *)
LEMMA OneItem ==
  ASSUME NEW S, NEW x \in S
  PROVE  /\ <<x>> \in Seq(S) /\ Len(<<x>>) = 1 /\ <<x>> # <<>> /\ <<x>>[1] = x
         /\ Head(<<x>>) = x /\ Tail(<<x>>) = <<>> /\ Append(<<>>, x) = <<x>>
         /\ <<>> \in Seq(S) /\ Len(<<>>) = 0
OBVIOUS

(* The first item of a sequence that repeats nothing leaves it for good.   *)
LEMMA TailItems ==
  ASSUME NEW S, NEW s \in Seq(S), s # <<>>, Inj(s)
  PROVE  /\ Inj(Tail(s)) /\ Items(Tail(s)) = Items(s) \ {Head(s)} /\ Head(s) \in Items(s)
<1>1. PICK t \in Seq(S), n \in Nat : t = Tail(s) /\ n = Len(s) /\ Len(t) = n - 1 /\ n >= 1
  <2>1. Tail(s) \in Seq(S) /\ Len(s) \in Nat /\ Len(Tail(s)) = Len(s) - 1 /\ Len(s) >= 1
    BY TailFacts
  <2> QED
    BY <2>1, Zenon
<1>2. (\A i \in 1..n - 1 : t[i] = s[i + 1]) /\ Head(s) = s[1]
  BY <1>1, TailFacts
<1>3. Inj(t)
  <2>1. SUFFICES ASSUME NEW i \in 1..Len(t), NEW j \in 1..Len(t), t[i] = t[j]
                 PROVE  i = j
    BY DEF Inj
  <2>2. PICK k \in 1..n, m \in 1..n : k = i + 1 /\ m = j + 1
    BY <1>1
  <2>3. t[i] = s[k] /\ t[j] = s[m]
    BY <1>1, <1>2, <2>2
  <2>4. k = m
    BY <1>1, <2>1, <2>3 DEF Inj
  <2> QED
    BY <2>2, <2>4
<1>4. Head(s) \in Items(s)
  BY <1>1, <1>2 DEF Items
<1>5. ASSUME NEW x \in Items(t) PROVE x \in Items(s) \ {Head(s)}
  <2>1. PICK i \in 1..n - 1 : x = t[i]
    BY <1>1, <1>5 DEF Items
  <2>2. x = s[i + 1] /\ i + 1 \in 1..Len(s) /\ 1 \in 1..Len(s) /\ i + 1 # 1
    BY <1>1, <1>2, <2>1
  <2>3. s[i + 1] # s[1]
    BY <2>2 DEF Inj
  <2> QED
    BY <1>2, <2>2, <2>3 DEF Items
<1>6. ASSUME NEW x \in Items(s), x # Head(s) PROVE x \in Items(t)
  <2>1. PICK i \in 1..n : x = s[i]
    BY <1>1, <1>6 DEF Items
  <2>2. PICK j : j = i - 1
    OBVIOUS
  <2>3. i # 1
    BY <1>2, <1>6, <2>1
  <2>4. j \in 1..n - 1 /\ i = j + 1
    BY <1>1, <2>2, <2>3
  <2>5. t[j] = x
    BY <1>2, <2>1, <2>4
  <2> QED
    BY <1>1, <2>4, <2>5 DEF Items
<1>7. Items(t) = Items(s) \ {Head(s)}
  BY <1>5, <1>6
<1> QED
  BY <1>1, <1>3, <1>4, <1>7

(* A new item.                                                             *)
LEMMA AppendItems ==
  ASSUME NEW S, NEW s \in Seq(S), NEW x \in S
  PROVE  /\ Items(Append(s, x)) = Items(s) \cup {x}
         /\ Inj(s) /\ x \notin Items(s) => Inj(Append(s, x))
<1>1. PICK t \in Seq(S), n \in Nat : t = Append(s, x) /\ n = Len(s) /\ Len(t) = n + 1
  BY AppendFacts
<1>2. (\A i \in 1..n : t[i] = s[i]) /\ t[n + 1] = x
  BY <1>1, AppendFacts
<1>3. \A i \in 1..n + 1 : i \in 1..n \/ i = n + 1
  OBVIOUS
<1>4. \A i \in 1..n : i \in 1..n + 1
  OBVIOUS
<1>5. n + 1 \in 1..n + 1
  OBVIOUS
<1>6. Items(t) = Items(s) \cup {x}
  BY <1>1, <1>2, <1>3, <1>4, <1>5, Zenon DEF Items
<1>7. ASSUME Inj(s), x \notin Items(s) PROVE Inj(t)
  <2>1. SUFFICES ASSUME NEW i \in 1..n + 1, NEW j \in 1..n + 1, t[i] = t[j]
                 PROVE  i = j
    BY <1>1 DEF Inj
  <2>2. CASE i \in 1..n /\ j \in 1..n
    BY <1>1, <1>2, <1>7, <2>1, <2>2 DEF Inj
  <2>3. CASE i = n + 1 /\ j \in 1..n
    BY <1>1, <1>2, <1>7, <2>1, <2>3 DEF Items
  <2>4. CASE i \in 1..n /\ j = n + 1
    BY <1>1, <1>2, <1>7, <2>1, <2>4 DEF Items
  <2> QED
    BY <1>3, <2>2, <2>3, <2>4
<1> QED
  BY <1>1, <1>6, <1>7

(* No item.                                                                *)
LEMMA NoItems == Items(<<>>) = {} /\ Inj(<<>>) /\ Len(<<>>) = 0
BY DEF Items, Inj

(* A sequence that repeats nothing has as many items as places.            *)
LEMMA ItemsCount ==
  ASSUME NEW S, NEW s \in Seq(S), Inj(s)
  PROVE  Cardinality(Items(s)) = Len(s)
<1>1. PICK n \in Nat : n = Len(s)
  OBVIOUS
<1>2. PICK f : f = [i \in 1..n |-> s[i]]
  OBVIOUS
<1>3. f \in Bijection(1..n, Items(s))
  <2>1. f \in [1..n -> Items(s)] /\ \A i \in 1..n : f[i] = s[i]
    BY <1>1, <1>2 DEF Items
  <2>2. \A i \in 1..n, j \in 1..n : f[i] = f[j] => i = j
    BY <1>1, <2>1 DEF Inj
  <2>3. \A x \in Items(s) : \E i \in 1..n : f[i] = x
    BY <1>1, <2>1 DEF Items
  <2> QED
    BY <2>1, <2>2, <2>3 DEF Bijection, Injection, Surjection, IsInjective
<1>4. ExistsBijection(1..n, Items(s))
  BY <1>3 DEF ExistsBijection
<1>5. IsFiniteSet(1..n) /\ Cardinality(1..n) = n
  BY FS_Interval
<1> QED
  BY <1>1, <1>4, <1>5, FS_Bijection

(* A run of numbers.                                                       *)
LEMMA TailEnds ==
  ASSUME NEW s \in Seq(Nat), s # <<>>, NEW last \in Int, EndsAt(s, last)
  PROVE  EndsAt(Tail(s), last) /\ Head(s) = last - Len(s) + 1
<1>1. PICK t \in Seq(Nat), n \in Nat : t = Tail(s) /\ n = Len(s) /\ Len(t) = n - 1 /\ n >= 1
  <2>1. Tail(s) \in Seq(Nat) /\ Len(s) \in Nat /\ Len(Tail(s)) = Len(s) - 1 /\ Len(s) >= 1
    BY TailFacts
  <2> QED
    BY <2>1, Zenon
<1>2. (\A i \in 1..n - 1 : t[i] = s[i + 1]) /\ Head(s) = s[1]
  BY <1>1, TailFacts
<1>3. \A i \in 1..n : s[i] = last - n + i
  BY <1>1 DEF EndsAt
<1>4. ASSUME NEW i \in 1..n - 1 PROVE t[i] = last - (n - 1) + i
  <2>1. PICK j \in 1..n : j = i + 1
    BY <1>1
  <2>2. t[i] = s[j] /\ s[j] = last - n + j
    BY <1>2, <1>3, <2>1
  <2> QED
    BY <2>1, <2>2
<1>5. EndsAt(t, last)
  BY <1>1, <1>4 DEF EndsAt
<1>6. Head(s) = last - n + 1
  <2>1. 1 \in 1..n
    BY <1>1
  <2> QED
    BY <1>2, <1>3, <2>1
<1> QED
  BY <1>1, <1>5, <1>6

(* The next number continues a run.                                        *)
LEMMA AppendEnds ==
  ASSUME NEW s \in Seq(Nat), NEW last \in Int, EndsAt(s, last), NEW x \in Nat, x = last + 1
  PROVE  EndsAt(Append(s, x), x)
<1>1. PICK t \in Seq(Nat), n \in Nat : t = Append(s, x) /\ n = Len(s) /\ Len(t) = n + 1
  BY AppendFacts
<1>2. (\A i \in 1..n : t[i] = s[i]) /\ t[n + 1] = x
  BY <1>1, AppendFacts
<1>3. \A i \in 1..n : s[i] = last - n + i
  BY <1>1 DEF EndsAt
<1>4. ASSUME NEW i \in 1..n + 1 PROVE t[i] = x - (n + 1) + i
  <2>1. CASE i \in 1..n
    BY <1>2, <1>3, <2>1
  <2>2. CASE i = n + 1
    BY <1>2, <2>2
  <2> QED
    BY <2>1, <2>2
<1> QED
  BY <1>1, <1>4 DEF EndsAt

-----------------------------------------------------------------------------
(* Lemmas about the cells *)

(* The cells of a direction.                                               *)
CellTypes == [Spots -> Seq(Nat)]

(* An item that goes from one place to another is still in one place.      *)
LEMMA ShiftOnce ==
  ASSUME NEW F \in CellTypes, NEW G, NEW n, Once(F, n),
         NEW p \in Spots, NEW q \in Spots, p # q, Shift(F, G, p, q)
  PROVE  Once(G, n) /\ (All(F, n) => All(G, n))
<1>1. F[p] \in Seq(Nat) /\ F[q] \in Seq(Nat) /\ F[p] # <<>>
  BY DEF CellTypes, Shift
<1>2. PICK x : x = Head(F[p])
  OBVIOUS
<1>3. x \in Nat /\ x \in Items(F[p]) /\ x \notin Items(F[q])
  <2>1. x \in Nat
    BY <1>1, <1>2, TailFacts
  <2>2. x \in Items(F[p])
    BY <1>1, <1>2, TailItems DEF Once
  <2> QED
    BY <2>1, <2>2 DEF Once
<1>4. Items(G[p]) = Items(F[p]) \ {x} /\ Inj(G[p])
  <2>1. G[p] = Tail(F[p])
    BY DEF Shift
  <2> QED
    BY <1>1, <1>2, <2>1, TailItems DEF Once
<1>5. Items(G[q]) = Items(F[q]) \cup {x} /\ Inj(G[q])
  <2>1. G[q] = Append(F[q], x)
    BY <1>2 DEF Shift
  <2> QED
    BY <1>1, <1>3, <2>1, AppendItems DEF Once
<1>6. \A s \in Spots : s # p /\ s # q => G[s] = F[s]
  BY DEF Shift
<1>7. \A s \in Spots : Inj(G[s]) /\ Items(G[s]) \subseteq 1..n
  BY <1>3, <1>4, <1>5, <1>6 DEF Once
<1>8. ASSUME NEW s \in Spots, NEW t \in Spots, s # t
      PROVE  Items(G[s]) \cap Items(G[t]) = {}
  <2>1. /\ \A u \in Spots : u # p => Items(F[u]) \cap Items(F[p]) = {}
        /\ \A u \in Spots : u # q => Items(F[u]) \cap Items(F[q]) = {}
        /\ Items(F[s]) \cap Items(F[t]) = {}
    BY <1>8 DEF Once
  <2>2. \A u \in Spots : u # p => x \notin Items(F[u])
    BY <1>3, <2>1
  <2> QED
    BY <1>4, <1>5, <1>6, <1>8, <2>1, <2>2
<1>9. ASSUME All(F, n), NEW i \in 1..n
      PROVE  \E s \in Spots : i \in Items(G[s])
  BY <1>4, <1>5, <1>6, <1>9 DEF All
<1> QED
  BY <1>7, <1>8, <1>9 DEF Once, All

(* So is every other item when one is lost.                                *)
LEMMA DropOnce ==
  ASSUME NEW F \in CellTypes, NEW G, NEW n, Once(F, n), NEW p \in Spots, Drop(F, G, p)
  PROVE  Once(G, n)
<1>1. F[p] \in Seq(Nat) /\ F[p] # <<>> /\ G[p] = Tail(F[p])
  BY DEF CellTypes, Drop
<1>2. Items(G[p]) \subseteq Items(F[p]) /\ Inj(G[p])
  BY <1>1, TailItems DEF Once
<1>3. \A s \in Spots : Items(G[s]) \subseteq Items(F[s]) /\ Inj(G[s])
  BY <1>2 DEF Drop, Once
<1> QED
  BY <1>3 DEF Once

(* A chunk that is sent is new.                                            *)
LEMMA EnterOnce ==
  ASSUME NEW F \in CellTypes, NEW G, NEW n \in Nat, Once(F, n), NEW p \in Spots, Enter(F, G, p, n + 1)
  PROVE  Once(G, n + 1) /\ (All(F, n) => All(G, n + 1))
<1>1. F[p] \in Seq(Nat)
  BY DEF CellTypes
<1>2. PICK x \in Nat : x = n + 1
  OBVIOUS
<1>3. \A s \in Spots : x \notin Items(F[s])
  BY <1>2 DEF Once
<1>4. Items(G[p]) = Items(F[p]) \cup {x} /\ Inj(G[p])
  <2>1. G[p] = Append(F[p], x)
    BY <1>2 DEF Enter
  <2> QED
    BY <1>1, <1>3, <2>1, AppendItems DEF Once
<1>5. \A s \in Spots : s # p => G[s] = F[s]
  BY DEF Enter
<1>6. \A i : i \in 1..x <=> i \in 1..n \/ i = x
  BY <1>2
<1>7. \A s \in Spots : Inj(G[s]) /\ Items(G[s]) \subseteq 1..x
  BY <1>4, <1>5, <1>6 DEF Once
<1>8. ASSUME NEW s \in Spots, NEW t \in Spots, s # t
      PROVE  Items(G[s]) \cap Items(G[t]) = {}
  <2>1. Items(F[s]) \cap Items(F[t]) = {}
    BY <1>8 DEF Once
  <2> QED
    BY <1>3, <1>4, <1>5, <1>8, <2>1
<1>9. ASSUME All(F, n), NEW i \in 1..x
      PROVE  \E s \in Spots : i \in Items(G[s])
  BY <1>4, <1>5, <1>6, <1>9 DEF All
<1> QED
  BY <1>2, <1>7, <1>8, <1>9 DEF Once, All

(* A sequence in two parts.                                                *)
LEMMA PartItems ==
  ASSUME NEW s \in Seq(Nat), Inj(s), NEW m \in 0..Len(s)
  PROVE  LET a == SubSeq(s, 1, m)
             b == SubSeq(s, m + 1, Len(s))
         IN  /\ a \in Seq(Nat) /\ Inj(a) /\ Len(a) = m
             /\ b \in Seq(Nat) /\ Inj(b) /\ Len(b) = Len(s) - m
             /\ Items(a) \cup Items(b) = Items(s) /\ Items(a) \cap Items(b) = {}
<1>1. PICK n \in Nat, k \in Nat : n = Len(s) /\ m \in Nat /\ n = m + k
  <2>1. Len(s) \in Nat /\ m \in Nat /\ Len(s) - m \in Nat /\ Len(s) = m + (Len(s) - m)
    OBVIOUS
  <2> QED
    BY <2>1
<1>2. PICK a, b : a = SubSeq(s, 1, m) /\ b = SubSeq(s, m + 1, n)
  OBVIOUS
<1>3. a \in Seq(Nat) /\ Len(a) = m /\ \A i \in 1..m : a[i] = s[i]
  <2>1. PICK z \in Nat : z = 0
    OBVIOUS
  <2>2. a = SubSeq(s, z + 1, z + m)
    BY <1>1, <1>2, <2>1
  <2>3. m \in Nat /\ z + m <= Len(s)
    BY <1>1, <2>1
  <2>4. /\ SubSeq(s, z + 1, z + m) \in Seq(Nat) /\ Len(SubSeq(s, z + 1, z + m)) = m
        /\ \A i \in 1..m : SubSeq(s, z + 1, z + m)[i] = s[z + i]
    BY <2>3, PartOf, ZenonT(90)
  <2>5. a \in Seq(Nat) /\ Len(a) = m /\ \A i \in 1..m : a[i] = s[z + i]
    BY <2>2, <2>4, Zenon
  <2> QED
    BY <2>1, <2>5
<1>4. b \in Seq(Nat) /\ Len(b) = k /\ \A i \in 1..k : b[i] = s[m + i]
  <2>1. b = SubSeq(s, m + 1, m + k) /\ m + k <= Len(s)
    BY <1>1, <1>2
  <2>2. /\ SubSeq(s, m + 1, m + k) \in Seq(Nat) /\ Len(SubSeq(s, m + 1, m + k)) = k
        /\ \A i \in 1..k : SubSeq(s, m + 1, m + k)[i] = s[m + i]
    BY <1>1, <2>1, PartOf, ZenonT(90)
  <2> QED
    BY <2>1, <2>2, Zenon
<1>5. Inj(a)
  BY <1>1, <1>3, SMTT(60) DEF Inj
<1>6. Inj(b)
  <2>1. SUFFICES ASSUME NEW i \in 1..k, NEW j \in 1..k, b[i] = b[j]
                 PROVE  i = j
    BY <1>4 DEF Inj
  <2>2. PICK v \in 1..n, w \in 1..n : v = m + i /\ w = m + j
    BY <1>1
  <2>3. s[v] = s[w]
    BY <1>4, <2>1, <2>2
  <2>4. v = w
    BY <1>1, <2>3 DEF Inj
  <2> QED
    BY <1>1, <2>2, <2>4
<1>7. \A x \in Items(a) : \E i \in 1..m : x = s[i]
  BY <1>3 DEF Items
<1>8. \A x \in Items(b) : \E i \in m + 1..n : x = s[i]
  <2>1. SUFFICES ASSUME NEW x \in Items(b)
                 PROVE  \E i \in m + 1..n : x = s[i]
    OBVIOUS
  <2>2. PICK i \in 1..k : x = b[i]
    BY <1>4 DEF Items
  <2>3. PICK j \in m + 1..n : j = m + i
    BY <1>1
  <2> QED
    BY <1>4, <2>2, <2>3
<1>9. Items(a) \cap Items(b) = {}
  <2>1. SUFFICES ASSUME NEW x \in Items(a), x \in Items(b)
                 PROVE  FALSE
    OBVIOUS
  <2>2. PICK i \in 1..m, j \in m + 1..n : x = s[i] /\ x = s[j]
    BY <1>7, <1>8, <2>1
  <2>3. i \in 1..n /\ j \in 1..n /\ i # j
    BY <1>1
  <2> QED
    BY <1>1, <2>2, <2>3 DEF Inj
<1>10. Items(a) \cup Items(b) \subseteq Items(s)
  <2>1. \A i : i \in 1..m \/ i \in m + 1..n => i \in 1..n
    BY <1>1
  <2> QED
    BY <1>1, <1>7, <1>8, <2>1 DEF Items
<1>11. Items(s) \subseteq Items(a) \cup Items(b)
  <2>1. SUFFICES ASSUME NEW i \in 1..n
                 PROVE  s[i] \in Items(a) \cup Items(b)
    BY <1>1 DEF Items
  <2>2. CASE i \in 1..m
    BY <1>3, <2>2 DEF Items
  <2>3. CASE i \notin 1..m
    <3>1. PICK j \in 1..k : i = m + j
      <4>1. i - m \in 1..k /\ i = m + (i - m)
        BY <1>1, <2>3
      <4> QED
        BY <4>1
    <3>2. b[j] = s[i]
      BY <1>4, <3>1
    <3> QED
      BY <1>4, <3>2 DEF Items
  <2> QED
    BY <2>2, <2>3
<1>12. Len(b) = n - m
  BY <1>1, <1>4
<1> QED
  BY <1>1, <1>2, <1>3, <1>4, <1>5, <1>6, <1>9, <1>10, <1>11, <1>12

(* And when the reader of the header takes some with it.                   *)
LEMMA SplitOnce ==
  ASSUME NEW F \in CellTypes, NEW G, NEW n, Once(F, n), NEW m, Split(F, G, m)
  PROVE  Once(G, n) /\ (All(F, n) => All(G, n))
<1>1. F["wire1"] \in Seq(Nat) /\ Inj(F["wire1"]) /\ m \in 0..Len(F["wire1"])
  BY DEF CellTypes, Spots, Once, Split
<1>2. Items(F["held"]) = {}
  BY NoItems DEF Split
<1>3. /\ Inj(G["held"]) /\ Inj(G["wire1"])
      /\ Items(G["held"]) \cup Items(G["wire1"]) = Items(F["wire1"])
      /\ Items(G["held"]) \cap Items(G["wire1"]) = {}
  <2>1. G["held"] = SubSeq(F["wire1"], 1, m) /\ G["wire1"] = SubSeq(F["wire1"], m + 1, Len(F["wire1"]))
    BY DEF Split, Spots
  <2> QED
    BY <1>1, <2>1, PartItems
<1>4. \A s \in Spots : s \notin {"held", "wire1"} => G[s] = F[s]
  BY DEF Split
<1>5. \A s \in Spots : s \notin {"held", "wire1"} => Items(F[s]) \cap Items(F["wire1"]) = {}
  BY DEF Once, Spots
<1>6. \A s \in Spots : Inj(G[s]) /\ Items(G[s]) \subseteq 1..n
  <2>1. Items(F["wire1"]) \subseteq 1..n
    BY DEF Once, Spots
  <2> QED
    BY <1>3, <1>4, <2>1 DEF Once
<1>7. ASSUME NEW s \in Spots, NEW t \in Spots, s # t
      PROVE  Items(G[s]) \cap Items(G[t]) = {}
  <2>1. Items(F[s]) \cap Items(F[t]) = {}
    BY <1>7 DEF Once
  <2> QED
    BY <1>3, <1>4, <1>5, <1>7, <2>1
<1>8. ASSUME All(F, n), NEW i \in 1..n
      PROVE  \E s \in Spots : i \in Items(G[s])
  <2>1. PICK s \in Spots : i \in Items(F[s])
    BY <1>8 DEF All
  <2>2. CASE s \in {"held", "wire1"}
    <3>1. i \in Items(G["held"]) \/ i \in Items(G["wire1"])
      BY <1>2, <1>3, <2>1, <2>2
    <3> QED
      BY <3>1 DEF Spots
  <2>3. CASE s \notin {"held", "wire1"}
    BY <1>4, <2>1, <2>3
  <2> QED
    BY <2>2, <2>3
<1> QED
  BY <1>6, <1>7, <1>8 DEF Once, All

(* How long the cells are then.                                            *)
LEMMA ShiftSizes ==
  ASSUME NEW F \in CellTypes, NEW G, NEW p \in Spots, NEW q \in Spots, p # q, Shift(F, G, p, q)
  PROVE  /\ \A s \in Spots : Len(F[s]) \in Nat
         /\ Len(G[p]) = Len(F[p]) - 1 /\ Len(G[q]) = Len(F[q]) + 1
         /\ \A s \in Spots : s # p /\ s # q => G[s] = F[s]
<1>1. \A s \in Spots : F[s] \in Seq(Nat) /\ Len(F[s]) \in Nat
  BY DEF CellTypes
<1>2. F[p] # <<>> /\ G[p] = Tail(F[p]) /\ G[q] = Append(F[q], Head(F[p]))
  BY DEF Shift
<1>3. Len(G[p]) = Len(F[p]) - 1 /\ Head(F[p]) \in Nat
  BY <1>1, <1>2, TailFacts
<1>4. Len(G[q]) = Len(F[q]) + 1
  BY <1>1, <1>2, <1>3, AppendFacts
<1> QED
  BY <1>1, <1>3, <1>4 DEF Shift

(* The sizes of the cells when an item is lost.                            *)
LEMMA DropSizes ==
  ASSUME NEW F \in CellTypes, NEW G, NEW p \in Spots, Drop(F, G, p)
  PROVE  /\ \A s \in Spots : Len(F[s]) \in Nat
         /\ Len(G[p]) = Len(F[p]) - 1
         /\ \A s \in Spots : s # p => G[s] = F[s]
<1>1. \A s \in Spots : F[s] \in Seq(Nat) /\ Len(F[s]) \in Nat
  BY DEF CellTypes
<1>2. F[p] # <<>> /\ G[p] = Tail(F[p])
  BY DEF Drop
<1>3. Len(G[p]) = Len(F[p]) - 1
  BY <1>1, <1>2, TailFacts
<1> QED
  BY <1>1, <1>3 DEF Drop

(* The sizes of the cells when an item enters.                             *)
LEMMA EnterSizes ==
  ASSUME NEW F \in CellTypes, NEW G, NEW p \in Spots, NEW x \in Nat, Enter(F, G, p, x)
  PROVE  /\ \A s \in Spots : Len(F[s]) \in Nat
         /\ Len(G[p]) = Len(F[p]) + 1
         /\ \A s \in Spots : s # p => G[s] = F[s]
<1>1. \A s \in Spots : F[s] \in Seq(Nat) /\ Len(F[s]) \in Nat
  BY DEF CellTypes
<1>2. G[p] = Append(F[p], x)
  BY DEF Enter
<1>3. Len(G[p]) = Len(F[p]) + 1
  BY <1>1, <1>2, AppendFacts
<1> QED
  BY <1>1, <1>3 DEF Enter

(* The sizes of the cells when the header's reader takes some.             *)
LEMMA SplitSizes ==
  ASSUME NEW F \in CellTypes, NEW G, NEW n, Once(F, n), NEW m, Split(F, G, m)
  PROVE  /\ \A s \in Spots : Len(F[s]) \in Nat
         /\ Len(F["held"]) = 0 /\ Len(G["held"]) + Len(G["wire1"]) = Len(F["wire1"])
         /\ m = 0 => G["held"] = <<>> /\ G["wire1"] = F["wire1"]
         /\ \A s \in Spots : s \notin {"held", "wire1"} => G[s] = F[s]
<1>1. \A s \in Spots : F[s] \in Seq(Nat) /\ Len(F[s]) \in Nat
  BY DEF CellTypes
<1>2. PICK w : w = F["wire1"]
  OBVIOUS
<1>3. w \in Seq(Nat) /\ Inj(w) /\ m \in 0..Len(w) /\ Len(F["held"]) = 0
  BY <1>1, <1>2 DEF Spots, Once, Split
<1>4. G["held"] = SubSeq(w, 1, m) /\ G["wire1"] = SubSeq(w, m + 1, Len(w))
  BY <1>2 DEF Split, Spots
<1>5. Len(G["held"]) = m /\ Len(G["wire1"]) = Len(w) - m /\ G["held"] \in Seq(Nat) /\ G["wire1"] \in Seq(Nat)
  BY <1>3, <1>4, PartItems
<1>6. ASSUME m = 0 PROVE G["held"] = <<>> /\ G["wire1"] = w
  <2>1. G["held"] = <<>>
    BY <1>5, <1>6
  <2>2. G["wire1"] = SubSeq(w, 1, Len(w))
    BY <1>4, <1>6
  <2> QED
    BY <1>3, <2>1, <2>2
<1>7. Len(G["held"]) + Len(G["wire1"]) = Len(F["wire1"])
  BY <1>2, <1>3, <1>5
<1> QED
  BY <1>1, <1>2, <1>3, <1>6, <1>7 DEF Split

-----------------------------------------------------------------------------
(* Lemmas about the order *)

(* An item that goes from one run to the one before it.                    *)
LEMMA ShiftEnds ==
  ASSUME NEW F \in CellTypes, NEW G, NEW p \in Spots, NEW q \in Spots, p # q, Shift(F, G, p, q),
         NEW last \in Int, EndsAt(F[p], last), EndsAt(F[q], last - Len(F[p]))
  PROVE  EndsAt(G[p], last) /\ EndsAt(G[q], last - Len(G[p]))
<1>1. F[p] \in Seq(Nat) /\ F[q] \in Seq(Nat) /\ F[p] # <<>> /\ Len(F[p]) \in Nat
  BY DEF CellTypes, Shift
<1>2. PICK x : x = Head(F[p])
  OBVIOUS
<1>3. G[p] = Tail(F[p]) /\ G[q] = Append(F[q], x)
  BY <1>2 DEF Shift
<1>4. EndsAt(G[p], last) /\ x = last - Len(F[p]) + 1 /\ x \in Nat
  <2>1. EndsAt(Tail(F[p]), last) /\ Head(F[p]) = last - Len(F[p]) + 1
    BY <1>1, TailEnds
  <2>2. Head(F[p]) \in Nat
    BY <1>1, TailFacts
  <2> QED
    BY <1>2, <1>3, <2>1, <2>2, Zenon
<1>5. PICK l \in Int : l = last - Len(F[p])
  <2>1. last - Len(F[p]) \in Int
    BY <1>1
  <2> QED
    BY <2>1, Zenon
<1>6. EndsAt(G[q], x)
  <2>1. x = l + 1 /\ EndsAt(F[q], l)
    BY <1>4, <1>5
  <2> QED
    BY <1>1, <1>3, <1>4, <1>5, <2>1, AppendEnds
<1>7. x = last - Len(G[p])
  <2>1. Len(G[p]) = Len(F[p]) - 1
    BY ShiftSizes
  <2> QED
    BY <1>1, <1>4, <2>1
<1> QED
  BY <1>4, <1>6, <1>7

(* An item that is lost.                                                   *)
LEMMA DropEnds ==
  ASSUME NEW F \in CellTypes, NEW G, NEW p \in Spots, Drop(F, G, p), NEW last \in Int, EndsAt(F[p], last)
  PROVE  EndsAt(G[p], last)
<1>1. F[p] \in Seq(Nat) /\ F[p] # <<>> /\ G[p] = Tail(F[p])
  BY DEF CellTypes, Drop
<1> QED
  BY <1>1, TailEnds

(* An item that is sent.                                                   *)
LEMMA EnterEnds ==
  ASSUME NEW F \in CellTypes, NEW G, NEW p \in Spots, NEW n \in Nat, Enter(F, G, p, n + 1), EndsAt(F[p], n)
  PROVE  EndsAt(G[p], n + 1) /\ Len(G[p]) = Len(F[p]) + 1 /\ Len(F[p]) \in Nat
<1>1. PICK x \in Nat : x = n + 1
  OBVIOUS
<1>2. F[p] \in Seq(Nat) /\ Len(F[p]) \in Nat /\ G[p] = Append(F[p], x)
  <2>1. F[p] \in Seq(Nat) /\ Len(F[p]) \in Nat
    BY DEF CellTypes
  <2>2. G[p] = Append(F[p], n + 1)
    BY DEF Enter
  <2> QED
    BY <1>1, <2>1, <2>2, Zenon
<1>3. EndsAt(G[p], x)
  BY <1>1, <1>2, AppendEnds
<1>4. Len(G[p]) = Len(F[p]) + 1
  BY <1>1, <1>2, AppendFacts
<1>5. EndsAt(G[p], n + 1)
  BY <1>1, <1>3
<1> QED
  BY <1>2, <1>4, <1>5

(* A run whose end is its length is 1, 2, 3, ...; it stays one.            *)
LEMMA Row1Steps ==
  ASSUME NEW F \in CellTypes, NEW G, NEW n \in Nat, NEW a \in BOOLEAN, NEW st \in {"wire0", "wire1"},
         Row1(F, n, st, a)
  PROVE  /\ Shift(F, G, st, "copy1") => Row1(G, n, st, a)
         /\ a /\ Shift(F, G, "copy1", "got") => Row1(G, n, st, a)
         /\ Drop(F, G, "copy1") => Row1(G, n, st, FALSE)
         /\ Enter(F, G, st, n + 1) => Row1(G, n + 1, st, a)
<1>1. /\ st \in Spots /\ "copy1" \in Spots /\ "got" \in Spots
      /\ st # "copy1" /\ st # "got" /\ "copy1" # "got"
  BY DEF Spots
<1>2. Len(F[st]) \in Nat /\ Len(F["copy1"]) \in Nat /\ Len(F["got"]) \in Nat
  BY <1>1 DEF CellTypes
<1>3. /\ EndsAt(F[st], n) /\ EndsAt(F["copy1"], n - Len(F[st])) /\ EndsAt(F["got"], Len(F["got"]))
      /\ a => Len(F["got"]) = n - Len(F[st]) - Len(F["copy1"])
  BY DEF Row1
<1>4. ASSUME Shift(F, G, st, "copy1") PROVE Row1(G, n, st, a)
  <2>1. EndsAt(G[st], n) /\ EndsAt(G["copy1"], n - Len(G[st]))
    BY <1>1, <1>3, <1>4, ShiftEnds
  <2>2. Len(G[st]) = Len(F[st]) - 1 /\ Len(G["copy1"]) = Len(F["copy1"]) + 1 /\ G["got"] = F["got"]
    BY <1>1, <1>4, ShiftSizes
  <2>3. n - Len(G[st]) - Len(G["copy1"]) = n - Len(F[st]) - Len(F["copy1"])
    BY <1>2, <2>2
  <2> QED
    BY <1>3, <2>1, <2>2, <2>3 DEF Row1
<1>5. ASSUME a, Shift(F, G, "copy1", "got") PROVE Row1(G, n, st, a)
  <2>1. PICK l \in Int : l = n - Len(F[st])
    <3>1. n - Len(F[st]) \in Int
      BY <1>2
    <3> QED
      BY <3>1, Zenon
  <2>2. EndsAt(F["copy1"], l) /\ EndsAt(F["got"], l - Len(F["copy1"])) /\ Len(F["got"]) = l - Len(F["copy1"])
    BY <1>3, <1>5, <2>1
  <2>3. EndsAt(G["copy1"], l) /\ EndsAt(G["got"], l - Len(G["copy1"]))
    BY <1>1, <1>5, <2>2, ShiftEnds
  <2>4. Len(G["copy1"]) = Len(F["copy1"]) - 1 /\ Len(G["got"]) = Len(F["got"]) + 1 /\ G[st] = F[st]
    BY <1>1, <1>5, ShiftSizes
  <2>5. Len(G["got"]) = l - Len(G["copy1"])
    BY <1>2, <2>2, <2>4
  <2> QED
    BY <1>3, <2>1, <2>3, <2>4, <2>5 DEF Row1
<1>6. ASSUME Drop(F, G, "copy1") PROVE Row1(G, n, st, FALSE)
  <2>1. PICK l \in Int : l = n - Len(F[st])
    <3>1. n - Len(F[st]) \in Int
      BY <1>2
    <3> QED
      BY <3>1, Zenon
  <2>2. EndsAt(G["copy1"], l)
    BY <1>1, <1>3, <1>6, <2>1, DropEnds
  <2>3. G[st] = F[st] /\ G["got"] = F["got"]
    BY <1>1, <1>6, DropSizes
  <2> QED
    BY <1>3, <2>1, <2>2, <2>3 DEF Row1
<1>7. ASSUME Enter(F, G, st, n + 1) PROVE Row1(G, n + 1, st, a)
  <2>1. PICK x \in Nat, l \in Int : x = n + 1 /\ l = n - Len(F[st])
    <3>1. n - Len(F[st]) \in Int /\ n + 1 \in Nat
      BY <1>2
    <3> QED
      BY <3>1, Zenon
  <2>2. EndsAt(G[st], x) /\ x - Len(G[st]) = l
    <3>1. EndsAt(G[st], n + 1) /\ Len(G[st]) = Len(F[st]) + 1
      BY <1>1, <1>3, <1>7, EnterEnds
    <3>2. EndsAt(G[st], x)
      BY <2>1, <3>1
    <3>3. x - Len(G[st]) = l
      BY <1>2, <2>1, <3>1
    <3> QED
      BY <3>2, <3>3
  <2>3. G["copy1"] = F["copy1"] /\ G["got"] = F["got"]
    BY <1>1, <1>7, <2>1, EnterSizes
  <2>4. EndsAt(F["copy1"], l) /\ (a => Len(F["got"]) = l - Len(F["copy1"]))
    BY <1>3, <2>1, Zenon
  <2>5. Row1(G, x, st, a)
    BY <1>3, <2>2, <2>3, <2>4, Zenon DEF Row1
  <2> QED
    BY <2>1, <2>5, Zenon
<1> QED
  BY <1>4, <1>5, <1>6, <1>7

(* What holds of a sound row holds of one that is not known to be.         *)
LEMMA RowsWeaken ==
  ASSUME NEW F, NEW n, NEW st, NEW src, NEW snk,
         NEW a \in BOOLEAN, NEW b \in BOOLEAN, NEW c \in BOOLEAN, NEW d \in BOOLEAN, c => a, d => b
  PROVE  /\ Row1(F, n, st, a) => Row1(F, n, st, c)
         /\ Row2(F, n, st, src, snk, a, b) => Row2(F, n, st, src, snk, c, d)
<1>1. Row1(F, n, st, a) => Row1(F, n, st, c)
  BY DEF Row1
<1>2. Row2(F, n, st, src, snk, a, b) => Row2(F, n, st, src, snk, c, d)
  BY DEF Row2
<1> QED
  BY <1>1, <1>2

(* The cells of a direction over two hops: where it starts, and the copies *)
(* of the hop it enters and of that it leaves.                             *)
Line(st, src, snk) ==
    st \in {"wire0", "wire2"} /\ src \in {"copy1", "copy2"} /\ snk \in {"copy1", "copy2"} /\ src # snk

(* The same over two hops: the run between them may lag behind, when the   *)
(* first hop has lost a part, but only grows while both are sound.         *)
LEMMA Row2Steps ==
  ASSUME NEW F \in CellTypes, NEW G, NEW n \in Nat, NEW a \in BOOLEAN, NEW b \in BOOLEAN,
         NEW st, NEW src, NEW snk, Line(st, src, snk), Row2(F, n, st, src, snk, a, b)
  PROVE  /\ Shift(F, G, st, src) => Row2(G, n, st, src, snk, a, b)
         /\ a /\ Shift(F, G, src, "wire1") => Row2(G, n, st, src, snk, a, b)
         /\ Drop(F, G, src) => Row2(G, n, st, src, snk, FALSE, b)
         /\ Shift(F, G, "wire1", snk) => Row2(G, n, st, src, snk, a, b)
         /\ b /\ Shift(F, G, snk, "got") => Row2(G, n, st, src, snk, a, b)
         /\ Drop(F, G, snk) => Row2(G, n, st, src, snk, a, FALSE)
         /\ Enter(F, G, st, n + 1) => Row2(G, n + 1, st, src, snk, a, b)
<1>1. /\ st \in Spots /\ src \in Spots /\ snk \in Spots /\ "wire1" \in Spots /\ "got" \in Spots
      /\ st # src /\ st # snk /\ st # "wire1" /\ st # "got" /\ src # snk /\ src # "wire1" /\ src # "got"
      /\ snk # "wire1" /\ snk # "got" /\ "wire1" # "got"
  BY DEF Line, Spots
<1>2. PICK fs \in Nat, fr \in Nat, fw \in Nat, fk \in Nat, fg \in Nat :
        fs = Len(F[st]) /\ fr = Len(F[src]) /\ fw = Len(F["wire1"]) /\ fk = Len(F[snk]) /\ fg = Len(F["got"])
  BY <1>1 DEF CellTypes
<1>3. EndsAt(F[st], n) /\ EndsAt(F[src], n - fs) /\ EndsAt(F["got"], fg)
  BY <1>2, Zenon DEF Row2
<1>c. fs \in Nat /\ fr \in Nat /\ fw \in Nat /\ fk \in Nat /\ fg \in Nat
  BY <1>2, Zenon
<1>a. EndsAt(F[src], n - Len(F[st]))
  BY DEF Row2
<1>b. n - fs \in Int /\ \A e \in Int : e - fw \in Int
  BY <1>2
<1>4. PICK e \in Int : /\ a => e = n - fs - fr
                       /\ EndsAt(F["wire1"], e) /\ EndsAt(F[snk], e - fw)
                       /\ b => fg = e - fw - fk
  BY <1>2, Zenon DEF Row2
<1>5. ASSUME Shift(F, G, st, src) PROVE Row2(G, n, st, src, snk, a, b)
  <2>1. EndsAt(G[st], n) /\ EndsAt(G[src], n - Len(G[st]))
    BY <1>1, <1>3, <1>a, <1>5, ShiftEnds
  <2>2. /\ Len(G[st]) = fs - 1 /\ Len(G[src]) = fr + 1
        /\ G["wire1"] = F["wire1"] /\ G[snk] = F[snk] /\ G["got"] = F["got"]
    <3>1. /\ Len(G[st]) = Len(F[st]) - 1 /\ Len(G[src]) = Len(F[src]) + 1
          /\ \A s \in Spots : s # st /\ s # src => G[s] = F[s]
      BY <1>1, <1>5, ShiftSizes
    <3> QED
      BY <1>1, <1>2, <3>1
  <2>3. n - Len(G[st]) - Len(G[src]) = n - fs - fr
    BY <1>c, <2>2
  <2> QED
    BY <1>2, <1>3, <1>4, <2>1, <2>2, <2>3, Zenon DEF Row2
<1>6. ASSUME a, Shift(F, G, src, "wire1") PROVE Row2(G, n, st, src, snk, a, b)
  <2>1. PICK l \in Int : l = n - fs
    BY <1>b, Zenon
  <2>2. EndsAt(F[src], l) /\ EndsAt(F["wire1"], l - Len(F[src]))
    <3>1. e = l - Len(F[src])
      BY <1>2, <1>4, <1>6, <2>1
    <3> QED
      BY <1>3, <1>4, <2>1, <3>1, Zenon
  <2>3. EndsAt(G[src], l) /\ EndsAt(G["wire1"], l - Len(G[src]))
    BY <1>1, <1>6, <2>2, ShiftEnds
  <2>4. /\ Len(G[src]) = fr - 1 /\ Len(G["wire1"]) = fw + 1
        /\ G[st] = F[st] /\ G[snk] = F[snk] /\ G["got"] = F["got"]
    <3>1. /\ Len(G[src]) = Len(F[src]) - 1 /\ Len(G["wire1"]) = Len(F["wire1"]) + 1
          /\ \A s \in Spots : s # src /\ s # "wire1" => G[s] = F[s]
      BY <1>1, <1>6, ShiftSizes
    <3> QED
      BY <1>1, <1>2, <3>1
  <2>5. PICK g \in Int : g = l - Len(G[src])
    <3>1. l - Len(G[src]) \in Int
      BY <1>2, <2>4
    <3> QED
      BY <3>1, Zenon
  <2>6. g - Len(G["wire1"]) = e - fw
    <3>1. e = n - fs - fr
      BY <1>4, <1>6
    <3> QED
      BY <1>c, <3>1, <2>1, <2>4, <2>5
  <2>7. g = n - fs - Len(G[src])
    BY <2>1, <2>5
  <2>8. /\ EndsAt(G["wire1"], g) /\ EndsAt(G[snk], g - Len(G["wire1"]))
        /\ b => Len(G["got"]) = g - Len(G["wire1"]) - Len(G[snk])
    BY <1>2, <1>4, <2>3, <2>4, <2>5, <2>6, Zenon
  <2>9. EndsAt(G[st], n) /\ EndsAt(G[src], n - Len(G[st])) /\ EndsAt(G["got"], Len(G["got"])) /\ Len(G[st]) = fs
    BY <1>2, <1>3, <2>1, <2>3, <2>4, Zenon
  <2> QED
    BY <2>7, <2>8, <2>9, Zenon DEF Row2
<1>7. ASSUME Drop(F, G, src) PROVE Row2(G, n, st, src, snk, FALSE, b)
  <2>1. PICK l \in Int : l = n - fs
    BY <1>b, Zenon
  <2>2. EndsAt(G[src], l)
    BY <1>1, <1>3, <1>7, <2>1, DropEnds
  <2>3. G[st] = F[st] /\ G["wire1"] = F["wire1"] /\ G[snk] = F[snk] /\ G["got"] = F["got"]
    BY <1>1, <1>7, DropSizes
  <2> QED
    BY <1>2, <1>3, <1>4, <2>1, <2>2, <2>3, Zenon DEF Row2
<1>8. ASSUME Shift(F, G, "wire1", snk) PROVE Row2(G, n, st, src, snk, a, b)
  <2>a. EndsAt(F["wire1"], e) /\ EndsAt(F[snk], e - Len(F["wire1"]))
    BY <1>2, <1>4, Zenon
  <2>1. EndsAt(G["wire1"], e) /\ EndsAt(G[snk], e - Len(G["wire1"]))
    BY <1>1, <2>a, <1>8, ShiftEnds
  <2>2. /\ Len(G["wire1"]) = fw - 1 /\ Len(G[snk]) = fk + 1
        /\ G[st] = F[st] /\ G[src] = F[src] /\ G["got"] = F["got"]
    <3>1. /\ Len(G["wire1"]) = Len(F["wire1"]) - 1 /\ Len(G[snk]) = Len(F[snk]) + 1
          /\ \A s \in Spots : s # "wire1" /\ s # snk => G[s] = F[s]
      BY <1>1, <1>8, ShiftSizes
    <3> QED
      BY <1>1, <1>2, <3>1
  <2>3. e - Len(G["wire1"]) - Len(G[snk]) = e - fw - fk
    BY <1>c, <2>2
  <2> QED
    BY <1>2, <1>3, <1>4, <2>1, <2>2, <2>3, Zenon DEF Row2
<1>9. ASSUME b, Shift(F, G, snk, "got") PROVE Row2(G, n, st, src, snk, a, b)
  <2>1. PICK l \in Int : l = e - fw
    BY <1>b, Zenon
  <2>2. EndsAt(F[snk], l) /\ EndsAt(F["got"], l - Len(F[snk]))
    <3>1. fg = l - Len(F[snk])
      BY <1>2, <1>4, <1>9, <2>1
    <3> QED
      BY <1>3, <1>4, <2>1, <3>1, Zenon
  <2>3. EndsAt(G[snk], l) /\ EndsAt(G["got"], l - Len(G[snk]))
    BY <1>1, <1>9, <2>2, ShiftEnds
  <2>4. /\ Len(G[snk]) = fk - 1 /\ Len(G["got"]) = fg + 1
        /\ G[st] = F[st] /\ G[src] = F[src] /\ G["wire1"] = F["wire1"]
    <3>1. /\ Len(G[snk]) = Len(F[snk]) - 1 /\ Len(G["got"]) = Len(F["got"]) + 1
          /\ \A s \in Spots : s # snk /\ s # "got" => G[s] = F[s]
      BY <1>1, <1>9, ShiftSizes
    <3> QED
      BY <1>1, <1>2, <3>1
  <2>5. Len(G["got"]) = l - Len(G[snk])
    <3>1. fg = e - fw - fk
      BY <1>4, <1>9
    <3> QED
      BY <1>c, <3>1, <2>1, <2>4
  <2>6. l = e - Len(G["wire1"])
    BY <1>2, <2>1, <2>4
  <2> QED
    BY <1>2, <1>3, <1>4, <2>3, <2>4, <2>5, <2>6, Zenon DEF Row2
<1>10. ASSUME Drop(F, G, snk) PROVE Row2(G, n, st, src, snk, a, FALSE)
  <2>1. PICK l \in Int : l = e - fw
    BY <1>b, Zenon
  <2>2. EndsAt(G[snk], l)
    BY <1>1, <1>4, <1>10, <2>1, DropEnds
  <2>3. G[st] = F[st] /\ G["wire1"] = F["wire1"] /\ G[src] = F[src] /\ G["got"] = F["got"]
    BY <1>1, <1>10, DropSizes
  <2> QED
    BY <1>2, <1>3, <1>4, <2>1, <2>2, <2>3, Zenon DEF Row2
<1>11. ASSUME Enter(F, G, st, n + 1) PROVE Row2(G, n + 1, st, src, snk, a, b)
  <2>1. PICK x \in Nat, l \in Int : x = n + 1 /\ l = n - fs
    <3>1. n - fs \in Int /\ n + 1 \in Nat
      BY <1>2
    <3> QED
      BY <3>1, Zenon
  <2>2. EndsAt(G[st], x) /\ x - Len(G[st]) = l
    <3>1. EndsAt(G[st], n + 1) /\ Len(G[st]) = Len(F[st]) + 1
      BY <1>1, <1>3, <1>11, EnterEnds
    <3>2. EndsAt(G[st], x)
      BY <2>1, <3>1
    <3>3. x - Len(G[st]) = l
      BY <1>2, <2>1, <3>1
    <3> QED
      BY <3>2, <3>3
  <2>3. G[src] = F[src] /\ G["wire1"] = F["wire1"] /\ G[snk] = F[snk] /\ G["got"] = F["got"]
    <3>1. \A s \in Spots : s # st => G[s] = F[s]
      <4>1. Enter(F, G, st, x)
        BY <1>11, <2>1
      <4> QED
        BY <1>1, <2>1, <4>1, EnterSizes
    <3> QED
      BY <1>1, <3>1
  <2>4. EndsAt(F[src], l) /\ (a => e = l - fr)
    BY <1>3, <1>4, <2>1, Zenon
  <2>5. Row2(G, x, st, src, snk, a, b)
    BY <1>2, <1>3, <1>4, <2>2, <2>3, <2>4, Zenon DEF Row2
  <2> QED
    BY <2>1, <2>5, Zenon
<1> QED
  BY <1>5, <1>6, <1>7, <1>8, <1>9, <1>10, <1>11

-----------------------------------------------------------------------------
(* What a step does to the cells *)

(* Types and program counters.                                             *)
Formed == TypeOK /\ Shape

(* The pairs of a hop and a copy there may be.                             *)
Hands == {<<1, "up">>, <<1, "down">>, <<2, "up">>, <<2, "down">>, <<2, "drain">>}

(* The cells, one by one.                                                  *)
LEMMA CellsAre ==
  ASSUME NEW d \in Dirs
  PROVE  /\ Cells(d)["wire0"] = Body(0, d) /\ Cells(d)["wire1"] = Body(1, d) /\ Cells(d)["wire2"] = Body(2, d)
         /\ Cells(d)["copy1"] = Carry(1, d) /\ Cells(d)["copy2"] = Carry(2, d)
         /\ Cells(d)["held"] = (IF d = "up" THEN hop[2].held ELSE <<>>)
         /\ Cells(d)["drain"] = (IF d = "up" THEN Carry(2, "drain") ELSE <<>>)
         /\ Cells(d)["got"] = got[d]
BY DEF Cells, Cell, Spots

(* The cells after a step, one by one.                                     *)
LEMMA CellsWere ==
  ASSUME NEW d \in Dirs
  PROVE  /\ Cells(d)'["wire0"] = Body(0, d)' /\ Cells(d)'["wire1"] = Body(1, d)' /\ Cells(d)'["wire2"] = Body(2, d)'
         /\ Cells(d)'["copy1"] = Carry(1, d)' /\ Cells(d)'["copy2"] = Carry(2, d)'
         /\ Cells(d)'["held"] = (IF d = "up" THEN hop'[2].held ELSE <<>>)
         /\ Cells(d)'["drain"] = (IF d = "up" THEN Carry(2, "drain")' ELSE <<>>)
         /\ Cells(d)'["got"] = got'[d]
BY DEF Cells, Cell, Spots


(* Chunks are numbers.                                                     *)
LEMMA ChunkSeqs ==
  ASSUME NEW s \in Seq(Chunks)
  PROVE  s \in Seq(Nat)
<1>1. Chunks \subseteq Nat
  BY RelayAssumption DEF Chunks
<1> QED
  BY <1>1, SeqMonotonic

(* Where a header waits, no data waits before it.                          *)
LEMMA BodyTyped ==
  ASSUME Formed, NEW c \in 0..2, NEW d \in Dirs
  PROVE  wire[c][d] \in Seq(Chunks) /\ Body(c, d) \in Seq(Chunks)
<1>1. wire[c][d] \in Seq(Chunks)
  BY DEF Formed, TypeOK, Dirs
<1>2. ASSUME HeaderIn, c = 1, d = "up" PROVE wire[c][d] # <<>>
  BY <1>2 DEF Formed, Shape
<1> QED
  BY <1>1, <1>2, TailFacts DEF Body

(* A copy carries chunks.                                                  *)
LEMMA CarryTyped ==
  ASSUME TypeOK, NEW h \in 1..2, NEW k \in Copiers
  PROVE  Carry(h, k) \in Seq(Chunks)
<1>1. copy[h][k].chunk \in Chunks
  BY DEF TypeOK
<1> QED
  BY <1>1, OneItem DEF Carry

(* Every cell holds a sequence of numbers.                                 *)
LEMMA CellsTyped ==
  ASSUME Formed, NEW d \in Dirs
  PROVE  Cells(d) \in CellTypes
<1>1. \A c \in 0..2 : Body(c, d) \in Seq(Nat)
  BY BodyTyped, ChunkSeqs
<1>2. \A h \in 1..2, k \in Copiers : Carry(h, k) \in Seq(Nat)
  BY CarryTyped, ChunkSeqs DEF Formed
<1>3. got[d] \in Seq(Nat) /\ hop[2].held \in Seq(Nat)
  <2>1. got[d] \in Seq(Chunks) /\ hop[2].held \in Seq(Chunks)
    BY DEF Formed, TypeOK, Dirs
  <2> QED
    BY <2>1, ChunkSeqs
<1>4. <<>> \in Seq(Nat) /\ d \in Copiers /\ "drain" \in Copiers /\ 0 \in 0..2 /\ 1 \in 0..2 /\ 2 \in 0..2 /\ 1 \in 1..2 /\ 2 \in 1..2
  BY DEF Dirs, Copiers
<1>5. /\ Body(0, d) \in Seq(Nat) /\ Body(1, d) \in Seq(Nat) /\ Body(2, d) \in Seq(Nat)
      /\ Carry(1, d) \in Seq(Nat) /\ Carry(2, d) \in Seq(Nat) /\ Carry(2, "drain") \in Seq(Nat)
  BY <1>1, <1>2, <1>4
<1> QED
  BY <1>3, <1>4, <1>5 DEF Cells, Cell, CellTypes, Spots

(* The cell of a channel, and that of a copy.                              *)
Wired(c)   == IF c = 0 THEN "wire0" ELSE IF c = 1 THEN "wire1" ELSE "wire2"
(* The cell of a copy, and that of a channel.                              *)
Hand(h, k) == IF k = "drain" THEN "drain" ELSE IF h = 1 THEN "copy1" ELSE "copy2"

(* The cell of a channel holds its data, and that of a copy its chunk.     *)
LEMMA CellOf ==
  ASSUME NEW d \in Dirs
  PROVE  /\ \A c \in 0..2 : Wired(c) \in Spots /\ Cells(d)[Wired(c)] = Body(c, d) /\ Cells(d)'[Wired(c)] = Body(c, d)'
         /\ \A h \in 1..2, k \in Copiers : Way(k) = d /\ <<h, k>> \in Hands =>
              Hand(h, k) \in Spots /\ Cells(d)[Hand(h, k)] = Carry(h, k) /\ Cells(d)'[Hand(h, k)] = Carry(h, k)'
<1>1. \A c \in 0..2 : Wired(c) \in Spots /\ Cells(d)[Wired(c)] = Body(c, d) /\ Cells(d)'[Wired(c)] = Body(c, d)'
  <2>1. SUFFICES ASSUME NEW c \in 0..2
                 PROVE  Wired(c) \in Spots /\ Cells(d)[Wired(c)] = Body(c, d) /\ Cells(d)'[Wired(c)] = Body(c, d)'
    OBVIOUS
  <2>2. c = 0 \/ c = 1 \/ c = 2
    OBVIOUS
  <2> QED
    BY <2>2, CellsAre, CellsWere DEF Wired, Spots
<1>2. \A h \in 1..2, k \in Copiers : Way(k) = d /\ <<h, k>> \in Hands =>
         Hand(h, k) \in Spots /\ Cells(d)[Hand(h, k)] = Carry(h, k) /\ Cells(d)'[Hand(h, k)] = Carry(h, k)'
  <2>1. SUFFICES ASSUME NEW h \in 1..2, NEW k \in Copiers, Way(k) = d, <<h, k>> \in Hands
                 PROVE  Hand(h, k) \in Spots /\ Cells(d)[Hand(h, k)] = Carry(h, k) /\ Cells(d)'[Hand(h, k)] = Carry(h, k)'
    OBVIOUS
  <2>2. (h = 1 \/ h = 2) /\ (k = "drain" => h = 2 /\ d = "up") /\ (k # "drain" => k = d)
    BY <2>1 DEF Hands, Way, Copiers
  <2>3. CASE k = "drain"
    BY <2>2, <2>3, CellsAre, CellsWere DEF Hand, Spots
  <2>4. CASE k # "drain" /\ h = 1
    BY <2>2, <2>4, CellsAre, CellsWere DEF Hand, Spots
  <2>5. CASE k # "drain" /\ h = 2
    BY <2>2, <2>5, CellsAre, CellsWere DEF Hand, Spots
  <2> QED
    BY <2>2, <2>3, <2>4, <2>5
<1> QED
  BY <1>1, <1>2

(* The cells outside P are what they were when what they hold is.          *)
LEMMA Frame ==
  ASSUME NEW d \in Dirs, NEW P,
         \A c \in 0..2 : Wired(c) \notin P => Body(c, d)' = Body(c, d),
         \A h \in 1..2, k \in Copiers :
            Way(k) = d /\ <<h, k>> \in Hands /\ Hand(h, k) \notin P => Carry(h, k)' = Carry(h, k),
         "held" \notin P /\ d = "up" => hop'[2].held = hop[2].held,
         "got" \notin P => got'[d] = got[d]
  PROVE  /\ \A s \in Spots : s \notin P => Cells(d)'[s] = Cells(d)[s]
         /\ P = {} => Cells(d)' = Cells(d)
<1>0. \A s \in Spots : s \notin P => Cell(d, s)' = Cell(d, s)
  <2>1. SUFFICES ASSUME NEW s \in Spots, s \notin P
                 PROVE  Cell(d, s)' = Cell(d, s)
    OBVIOUS
  <2>2. /\ "wire0" \notin P => Body(0, d)' = Body(0, d)
        /\ "wire1" \notin P => Body(1, d)' = Body(1, d)
        /\ "wire2" \notin P => Body(2, d)' = Body(2, d)
    BY DEF Wired
  <2>3. /\ "copy1" \notin P => Carry(1, d)' = Carry(1, d)
        /\ "copy2" \notin P => Carry(2, d)' = Carry(2, d)
        /\ d = "up" /\ "drain" \notin P => Carry(2, "drain")' = Carry(2, "drain")
    <3>1. /\ Way("up") = "up" /\ Way("down") = "down" /\ Way("drain") = "up"
          /\ Hand(1, "up") = "copy1" /\ Hand(1, "down") = "copy1" /\ Hand(2, "up") = "copy2" /\ Hand(2, "down") = "copy2"
          /\ Hand(2, "drain") = "drain" /\ 1 \in 1..2 /\ 2 \in 1..2
      BY DEF Way, Hand
    <3>2. CASE d = "up"
      <4>1. "copy1" \notin P => Carry(1, "up")' = Carry(1, "up")
        BY <3>1, <3>2 DEF Hands, Copiers
      <4>2. "copy2" \notin P => Carry(2, "up")' = Carry(2, "up")
        BY <3>1, <3>2 DEF Hands, Copiers
      <4>3. "drain" \notin P => Carry(2, "drain")' = Carry(2, "drain")
        BY <3>1, <3>2 DEF Hands, Copiers
      <4> QED
        BY <3>2, <4>1, <4>2, <4>3
    <3>3. CASE d = "down"
      <4>1. "copy1" \notin P => Carry(1, "down")' = Carry(1, "down")
        BY <3>1, <3>3 DEF Hands, Copiers
      <4>2. "copy2" \notin P => Carry(2, "down")' = Carry(2, "down")
        BY <3>1, <3>3 DEF Hands, Copiers
      <4> QED
        BY <3>3, <4>1, <4>2
    <3> QED
      BY <3>2, <3>3 DEF Dirs
  <2> QED
    BY <2>1, <2>2, <2>3 DEF Cell, Spots
<1>1. \A s \in Spots : s \notin P => Cells(d)'[s] = Cells(d)[s]
  BY <1>0 DEF Cells
<1>2. P = {} => Cells(d)' = Cells(d)
  BY <1>0 DEF Cells
<1> QED
  BY <1>1, <1>2

(* A copy at work belongs to a hop that exists and has been set up.        *)
LEMMA AtWork ==
  ASSUME Formed, NEW h \in 1..Hops, NEW k \in Copiers, copy[h][k].pc # "off"
  PROVE  /\ h \in 1..2 /\ <<h, k>> \in Hands /\ (h = 2 => Hops = 2 /\ ~HeaderIn)
         /\ (k = "drain" => TcpChain) /\ hop[h].pc \notin {"idle", "setup"}
         /\ copy[h]["up"].pc # "off"
<1>1. path \in {"tcp", "tls"} \X {1, 2}
  BY RelayAssumption DEF Formed, TypeOK
<1>2. h \in 1..2 /\ (h = 2 => Hops = 2) /\ (h = 1 \/ h = 2)
  BY <1>1 DEF Hops
<1>3. HopShape(h)
  BY <1>2 DEF Formed, Shape
<1>4. copy[h]["up"].pc # "off" /\ hop[h].pc \notin {"idle", "setup"}
  BY <1>3 DEF HopShape
<1>5. k = "drain" => h = 2 /\ Kind # "tls"
  BY <1>2, <1>3 DEF HopShape
<1>6. k = "drain" => TcpChain
  BY <1>1, <1>2, <1>5 DEF TcpChain, Kind, Hops
<1>7. <<h, k>> \in Hands
  BY <1>2, <1>5 DEF Hands, Copiers
<1> QED
  BY <1>2, <1>4, <1>6, <1>7 DEF HeaderIn

(* The copies when one of them changes its state.                          *)
SetPc(h, k, x) == [copy EXCEPT ![h][k].pc = x]

(* The one that changes its state keeps its chunk.                         *)
LEMMA CopyPcSet ==
  ASSUME TypeOK, NEW h \in 1..2, NEW k \in Copiers, NEW x
  PROVE  \A g \in 1..2, j \in Copiers :
            SetPc(h, k, x)[g][j] = IF g = h /\ j = k THEN [pc |-> x, chunk |-> copy[h][k].chunk] ELSE copy[g][j]
<1>1. PICK r : r = copy[h][k]
  OBVIOUS
<1>2. r \in [pc : {"off", "read", "write", "end"}, chunk : Chunks]
  BY <1>1, SMTT(60) DEF TypeOK
<1>3. PICK y : y = [pc |-> x, chunk |-> r.chunk]
  OBVIOUS
<1>4. [copy[h][k] EXCEPT !.pc = x] = y
  BY <1>1, <1>2, <1>3
<1>5. SetPc(h, k, x) = [copy EXCEPT ![h] = [copy[h] EXCEPT ![k] = [copy[h][k] EXCEPT !.pc = x]]]
  BY DEF TypeOK, SetPc
<1>6. \A g \in 1..2, j \in Copiers : SetPc(h, k, x)[g][j] = IF g = h /\ j = k THEN [copy[h][k] EXCEPT !.pc = x] ELSE copy[g][j]
  BY <1>5 DEF TypeOK
<1> QED
  BY <1>1, <1>3, <1>4, <1>6

(* While no copy starts, the header stays where it is.                     *)
LEMMA HeaderStays ==
  ASSUME NEW h \in 1..2, NEW k \in Copiers, copy[h][k].pc # "off", copy'[h][k].pc # "off",
         \A g \in 1..2, j \in Copiers : g # h \/ j # k => copy'[g][j] = copy[g][j],
         hop'[2].pc = hop[2].pc
  PROVE  HeaderIn' = HeaderIn
<1>1. copy'[2]["up"].pc = "off" <=> copy[2]["up"].pc = "off"
  BY DEF Copiers
<1> QED
  BY <1>1 DEF HeaderIn


(* A copy reads: the first chunk of its channel is in its hands.           *)
LEMMA ReadEffect ==
  ASSUME Formed, NEW h \in 1..Hops, NEW k \in Copiers, Read(h, k)
  PROVE  /\ Shift(Cells(Way(k)), Cells(Way(k))', Wired(In(h, k)), Hand(h, k))
         /\ \A d \in Dirs : d # Way(k) => Cells(d)' = Cells(d)
         /\ HeaderIn' = HeaderIn /\ wire'[1].up = (IF In(h, k) = 1 /\ Way(k) = "up" THEN Tail(wire[1].up) ELSE wire[1].up)
<1>1. copy[h][k].pc = "read" /\ wire[In(h, k)][Way(k)] # <<>>
  BY DEF Read, Reading
<1>2. h \in 1..2 /\ <<h, k>> \in Hands /\ (h = 2 => Hops = 2 /\ ~HeaderIn)
  BY <1>1, AtWork
<1>3. PICK c \in 0..2, e \in Dirs : c = In(h, k) /\ e = Way(k)
  BY <1>2 DEF In, Way, Dirs, Hands
<1>4. PICK x : x = Head(wire[c][e])
  OBVIOUS
<1>5. TypeOK
  BY DEF Formed
<1>6. /\ copy' = [copy EXCEPT ![h][k] = [pc |-> "write", chunk |-> x]]
      /\ wire' = [wire EXCEPT ![c][e] = Tail(wire[c][e])]
      /\ hop' = hop /\ got' = got
  <2>1. wire' = [wire EXCEPT ![c][e] = Tail(@)]
    BY <1>3 DEF Read
  <2>2. [wire EXCEPT ![c][e] = Tail(@)] = [wire EXCEPT ![c][e] = Tail(wire[c][e])]
    BY <1>5 DEF TypeOK, Dirs
  <2> QED
    BY <1>3, <1>4, <2>1, <2>2 DEF Read
<1>7. \A b \in 0..2, f \in Dirs : wire'[b][f] = IF b = c /\ f = e THEN Tail(wire[c][e]) ELSE wire[b][f]
  BY <1>5, <1>6 DEF TypeOK, Dirs
<1>8. \A g \in 1..2, j \in Copiers :
        copy'[g][j] = IF g = h /\ j = k THEN [pc |-> "write", chunk |-> x] ELSE copy[g][j]
  BY <1>2, <1>5, <1>6 DEF TypeOK
<1>9. HeaderIn' = HeaderIn
  <2>1. copy[h][k].pc # "off" /\ copy'[h][k].pc # "off" /\ hop'[2].pc = hop[2].pc
    BY <1>1, <1>2, <1>6, <1>8
  <2> QED
    BY <1>2, <1>8, <2>1, HeaderStays
<1>10. \A b \in 0..2, f \in Dirs : b # c \/ f # e => Body(b, f)' = Body(b, f)
  BY <1>7, <1>9 DEF Body
<1>11. Body(c, e) = wire[c][e] /\ Body(c, e)' = Tail(wire[c][e])
  <2>1. ~(HeaderIn /\ c = 1 /\ e = "up")
    BY <1>2, <1>3 DEF In, Way, Hands
  <2> QED
    BY <1>7, <1>9, <2>1 DEF Body
<1>12. \A g \in 1..2, j \in Copiers : g # h \/ j # k => Carry(g, j)' = Carry(g, j)
  BY <1>8 DEF Carry
<1>13. Carry(h, k) = <<>> /\ Carry(h, k)' = <<x>>
  BY <1>1, <1>2, <1>8 DEF Carry
<1>14. x \in Chunks /\ Append(<<>>, x) = <<x>>
  <2>1. wire[c][e] \in Seq(Chunks) /\ wire[c][e] # <<>>
    BY <1>1, <1>3, <1>5 DEF TypeOK, Dirs
  <2> QED
    BY <1>4, <2>1, TailFacts
<1>15. ASSUME NEW f \in Dirs, f # e PROVE Cells(f)' = Cells(f)
  <2>1. PICK P : P = {}
    OBVIOUS
  <2>2. \A b \in 0..2 : Wired(b) \notin P => Body(b, f)' = Body(b, f)
    BY <1>10, <1>15
  <2>3. \A g \in 1..2, j \in Copiers : Way(j) = f /\ <<g, j>> \in Hands /\ Hand(g, j) \notin P => Carry(g, j)' = Carry(g, j)
    BY <1>3, <1>12, <1>15
  <2> QED
    BY <1>6, <2>1, <2>2, <2>3, Frame
<1>16. PICK p, q : p = Wired(c) /\ q = Hand(h, k)
  OBVIOUS
<1>17. \A s \in Spots : s \notin {p, q} => Cells(e)'[s] = Cells(e)[s]
  <2>1. \A b \in 0..2 : Wired(b) \notin {p, q} => Body(b, e)' = Body(b, e)
    BY <1>10, <1>16
  <2>2. \A g \in 1..2, j \in Copiers : Way(j) = e /\ Hand(g, j) \notin {p, q} => Carry(g, j)' = Carry(g, j)
    BY <1>12, <1>16
  <2> QED
    BY <1>6, <2>1, <2>2, Frame
<1>18. /\ p \in Spots /\ q \in Spots /\ p # q
       /\ Cells(e)[p] = wire[c][e] /\ Cells(e)'[p] = Tail(wire[c][e])
       /\ Cells(e)[q] = <<>> /\ Cells(e)'[q] = <<x>>
  <2>1. p \in Spots /\ Cells(e)[p] = wire[c][e] /\ Cells(e)'[p] = Tail(wire[c][e])
    BY <1>11, <1>16, CellOf
  <2>2. q \in Spots /\ Cells(e)[q] = <<>> /\ Cells(e)'[q] = <<x>>
    BY <1>2, <1>3, <1>13, <1>16, CellOf
  <2>3. p # q
    BY <1>16 DEF Wired, Hand
  <2> QED
    BY <2>1, <2>2, <2>3
<1>19. Shift(Cells(e), Cells(e)', p, q)
  BY <1>1, <1>3, <1>4, <1>14, <1>17, <1>18 DEF Shift
<1>20. wire'[1].up = (IF c = 1 /\ e = "up" THEN Tail(wire[1].up) ELSE wire[1].up)
  BY <1>7 DEF Dirs
<1> QED
  BY <1>3, <1>9, <1>15, <1>16, <1>19, <1>20

(* A copy writes: the chunk in its hands goes on, comes out, or is lost    *)
(* on a connection that the other side has closed.                         *)
LEMMA WriteEffect ==
  ASSUME Formed, NEW h \in 1..Hops, NEW k \in Copiers, Write(h, k)
  PROVE  /\ \/ FarOut(h, k) = "closed" /\ Drop(Cells(Way(k)), Cells(Way(k))', Hand(h, k))
            \/ /\ FarOut(h, k) # "closed" /\ Out(h, k) \in {0, Hops}
               /\ Shift(Cells(Way(k)), Cells(Way(k))', Hand(h, k), "got")
            \/ /\ FarOut(h, k) # "closed" /\ Out(h, k) \notin {0, Hops}
               /\ Shift(Cells(Way(k)), Cells(Way(k))', Hand(h, k), Wired(Out(h, k)))
         /\ \A d \in Dirs : d # Way(k) => Cells(d)' = Cells(d)
         /\ HeaderIn' = HeaderIn
         /\ wire[1].up # <<>> => wire'[1].up # <<>> /\ Head(wire'[1].up) = Head(wire[1].up)
<1>1. copy[h][k].pc = "write" /\ hop' = hop
  BY DEF Write
<1>2. h \in 1..2 /\ <<h, k>> \in Hands /\ (h = 2 => Hops = 2)
  BY <1>1, AtWork
<1>3. PICK c \in 0..2, e \in Dirs : c = Out(h, k) /\ e = Way(k)
  BY <1>2 DEF Out, Way, Dirs, Hands
<1>4. PICK x : x = copy[h][k].chunk
  OBVIOUS
<1>5. TypeOK
  BY DEF Formed
<1>6. x \in Chunks /\ <<>> \in Seq(Chunks) /\ Head(<<x>>) = x /\ Tail(<<x>>) = <<>> /\ <<x>> # <<>>
  <2>1. x \in Chunks
    BY <1>2, <1>4, <1>5, SMTT(60) DEF TypeOK
  <2> QED
    BY <2>1, OneItem
<1>7. /\ copy' = [copy EXCEPT ![h][k].pc = "read"]
      /\ \/ FarOut(h, k) = "closed" /\ wire' = wire /\ got' = got
         \/ FarOut(h, k) # "closed" /\ c \in {0, Hops} /\ got' = [got EXCEPT ![e] = Append(got[e], x)] /\ wire' = wire
         \/ FarOut(h, k) # "closed" /\ c \notin {0, Hops} /\ wire' = [wire EXCEPT ![c][e] = Append(wire[c][e], x)] /\ got' = got
  <2>1. [wire EXCEPT ![c][e] = Append(@, x)] = [wire EXCEPT ![c][e] = Append(wire[c][e], x)]
    BY <1>5 DEF TypeOK, Dirs
  <2>2. [got EXCEPT ![e] = Append(@, x)] = [got EXCEPT ![e] = Append(got[e], x)]
    BY <1>5 DEF TypeOK, Dirs
  <2> QED
    BY <1>3, <1>4, <2>1, <2>2 DEF Write
<1>8. \A g \in 1..2, j \in Copiers :
        copy'[g][j] = IF g = h /\ j = k THEN [pc |-> "read", chunk |-> copy[h][k].chunk] ELSE copy[g][j]
  <2>1. copy' = SetPc(h, k, "read")
    BY <1>7 DEF SetPc
  <2> QED
    BY <1>2, <1>5, <2>1, CopyPcSet
<1>9. HeaderIn' = HeaderIn
  <2>1. copy[h][k].pc # "off" /\ copy'[h][k].pc # "off" /\ hop'[2].pc = hop[2].pc
    BY <1>1, <1>2, <1>8
  <2> QED
    BY <1>2, <1>8, <2>1, HeaderStays
<1>10. \A g \in 1..2, j \in Copiers : g # h \/ j # k => Carry(g, j)' = Carry(g, j)
  BY <1>8 DEF Carry
<1>11. Carry(h, k) = <<x>> /\ Carry(h, k)' = <<>>
  BY <1>1, <1>2, <1>4, <1>8 DEF Carry
<1>12. PICK p : p = Hand(h, k)
  OBVIOUS
<1>13. p \in Spots /\ Cells(e)[p] = <<x>> /\ Cells(e)'[p] = <<>>
  BY <1>2, <1>3, <1>11, <1>12, CellOf
<1>14. \A g \in 1..2, j \in Copiers : <<g, j>> \in Hands /\ Hand(g, j) # p => Carry(g, j)' = Carry(g, j)
  BY <1>10, <1>12
<1>15. \A b \in 0..2, f \in Dirs : f # e \/ b # c \/ wire' = wire => wire'[b][f] = wire[b][f] /\ Body(b, f)' = Body(b, f)
  <2>1. ASSUME NEW b \in 0..2, NEW f \in Dirs, f # e \/ b # c \/ wire' = wire PROVE wire'[b][f] = wire[b][f]
    BY <1>5, <1>7, <2>1, SMTT(60) DEF TypeOK, Dirs
  <2>2. ASSUME NEW b \in 0..2, NEW f \in Dirs, wire'[b][f] = wire[b][f] PROVE Body(b, f)' = Body(b, f)
    BY <1>9, <2>2 DEF Body
  <2> QED
    BY <2>1, <2>2
<1>16. \A f \in Dirs : f # e \/ got' = got => got'[f] = got[f]
  BY <1>5, <1>7 DEF TypeOK, Dirs
<1>17. ASSUME NEW f \in Dirs, f # e PROVE Cells(f)' = Cells(f)
  <2>1. PICK P : P = {}
    OBVIOUS
  <2>2. \A b \in 0..2 : Wired(b) \notin P => Body(b, f)' = Body(b, f)
    BY <1>15, <1>17
  <2>3. \A g \in 1..2, j \in Copiers : Way(j) = f /\ <<g, j>> \in Hands /\ Hand(g, j) \notin P => Carry(g, j)' = Carry(g, j)
    BY <1>3, <1>10, <1>17
  <2>4. got'[f] = got[f] /\ hop'[2].held = hop[2].held
    BY <1>1, <1>16, <1>17
  <2> QED
    BY <2>1, <2>2, <2>3, <2>4, Frame
<1>18. CASE FarOut(h, k) = "closed"
  <2>1. wire' = wire /\ got' = got
    BY <1>7, <1>18
  <2>2. \A s \in Spots : s \notin {p} => Cells(e)'[s] = Cells(e)[s]
    <3>1. \A b \in 0..2 : Wired(b) \notin {p} => Body(b, e)' = Body(b, e)
      BY <1>15, <2>1
    <3>2. \A g \in 1..2, j \in Copiers : Way(j) = e /\ <<g, j>> \in Hands /\ Hand(g, j) \notin {p} => Carry(g, j)' = Carry(g, j)
      BY <1>14
    <3>3. got'[e] = got[e] /\ hop'[2].held = hop[2].held
      BY <1>1, <2>1
    <3> QED
      BY <3>1, <3>2, <3>3, Frame
  <2>3. Drop(Cells(e), Cells(e)', p)
    BY <1>6, <1>13, <2>2 DEF Drop
  <2> QED
    BY <1>3, <1>9, <1>12, <1>17, <1>18, <2>1, <2>3
<1>19. CASE FarOut(h, k) # "closed" /\ c \in {0, Hops}
  <2>1. wire' = wire /\ got' = [got EXCEPT ![e] = Append(got[e], x)]
    BY <1>7, <1>19
  <2>2. \A s \in Spots : s \notin {p, "got"} => Cells(e)'[s] = Cells(e)[s]
    <3>1. \A b \in 0..2 : Wired(b) \notin {p, "got"} => Body(b, e)' = Body(b, e)
      BY <1>15, <2>1
    <3>2. \A g \in 1..2, j \in Copiers : Way(j) = e /\ <<g, j>> \in Hands /\ Hand(g, j) \notin {p, "got"} => Carry(g, j)' = Carry(g, j)
      BY <1>14
    <3>3. hop'[2].held = hop[2].held
      BY <1>1
    <3> QED
      BY <3>1, <3>2, <3>3, Frame
  <2>3. Cells(e)'["got"] = Append(Cells(e)["got"], x)
    <3>1. got'[e] = Append(got[e], x)
      BY <1>5, <2>1 DEF TypeOK, Dirs
    <3> QED
      BY <3>1, CellsAre, CellsWere
  <2>4. p # "got" /\ "got" \in Spots
    BY <1>12 DEF Hand, Spots
  <2>5. Shift(Cells(e), Cells(e)', p, "got")
    BY <1>6, <1>13, <2>2, <2>3, <2>4 DEF Shift
  <2> QED
    BY <1>3, <1>9, <1>12, <1>17, <1>19, <2>1, <2>5
<1>20. CASE FarOut(h, k) # "closed" /\ c \notin {0, Hops}
  <2>1. got' = got /\ wire' = [wire EXCEPT ![c][e] = Append(wire[c][e], x)]
    BY <1>7, <1>20
  <2>2. wire'[c][e] = Append(wire[c][e], x) /\ wire[c][e] \in Seq(Chunks)
    BY <1>5, <2>1 DEF TypeOK, Dirs
  <2>3. PICK q : q = Wired(c)
    OBVIOUS
  <2>4. \A s \in Spots : s \notin {p, q} => Cells(e)'[s] = Cells(e)[s]
    <3>1. \A b \in 0..2 : Wired(b) \notin {p, q} => Body(b, e)' = Body(b, e)
      BY <1>15, <2>3
    <3>2. \A g \in 1..2, j \in Copiers : Way(j) = e /\ <<g, j>> \in Hands /\ Hand(g, j) \notin {p, q} => Carry(g, j)' = Carry(g, j)
      BY <1>14
    <3>3. got'[e] = got[e] /\ hop'[2].held = hop[2].held
      BY <1>1, <2>1
    <3> QED
      BY <3>1, <3>2, <3>3, Frame
  <2>5. wire[c][e] # <<>> => wire'[c][e] # <<>> /\ Head(wire'[c][e]) = Head(wire[c][e]) /\ Tail(wire'[c][e]) = Append(Tail(wire[c][e]), x)
    BY <1>6, <2>2, SMTT(60)
  <2>6. wire[1].up # <<>> => wire'[1].up # <<>> /\ Head(wire'[1].up) = Head(wire[1].up)
    <3>1. CASE c = 1 /\ e = "up"
      BY <2>5, <3>1
    <3>2. CASE ~(c = 1 /\ e = "up")
      BY <1>15, <3>2 DEF Dirs
    <3> QED
      BY <3>1, <3>2
  <2>7. Body(c, e)' = Append(Body(c, e), x)
    <3>1. CASE HeaderIn /\ c = 1 /\ e = "up"
      <4>1. wire[c][e] # <<>>
        BY <3>1 DEF Formed, Shape
      <4> QED
        BY <1>9, <2>5, <3>1, <4>1 DEF Body
    <3>2. CASE ~(HeaderIn /\ c = 1 /\ e = "up")
      BY <1>9, <2>2, <3>2 DEF Body
    <3> QED
      BY <3>1, <3>2
  <2>8. q \in Spots /\ p # q /\ Cells(e)'[q] = Append(Cells(e)[q], x)
    BY <1>12, <2>3, <2>7, CellOf DEF Wired, Hand
  <2>9. Shift(Cells(e), Cells(e)', p, q)
    BY <1>6, <1>13, <2>4, <2>8 DEF Shift
  <2> QED
    BY <1>3, <1>9, <1>12, <1>17, <1>20, <2>3, <2>6, <2>9
<1> QED
  BY <1>18, <1>19, <1>20

(* A copy ends: what it had in its hands is lost.                          *)
LEMMA EndEffect ==
  ASSUME Formed, NEW h \in 1..Hops, NEW k \in Copiers, copy[h][k].pc \in {"read", "write"}, EndCopy(h, k)
  PROVE  /\ copy[h][k].pc = "read" => \A d \in Dirs : Cells(d)' = Cells(d)
         /\ copy[h][k].pc = "write" =>
              /\ Drop(Cells(Way(k)), Cells(Way(k))', Hand(h, k))
              /\ \A d \in Dirs : d # Way(k) => Cells(d)' = Cells(d)
         /\ HeaderIn' = HeaderIn
<1>1. copy[h][k].pc # "off" /\ wire' = wire /\ got' = got
  BY DEF EndCopy
<1>2. h \in 1..2 /\ <<h, k>> \in Hands /\ (h = 2 => Hops = 2)
  BY <1>1, AtWork
<1>3. PICK e \in Dirs : e = Way(k)
  BY DEF Way, Dirs
<1>4. PICK x : x = copy[h][k].chunk
  OBVIOUS
<1>5. TypeOK
  BY DEF Formed
<1>6. x \in Chunks /\ Head(<<x>>) = x /\ Tail(<<x>>) = <<>> /\ <<x>> # <<>>
  <2>1. x \in Chunks
    BY <1>2, <1>4, <1>5 DEF TypeOK
  <2> QED
    BY <2>1, OneItem
<1>7. hop'[2].pc = hop[2].pc /\ hop'[2].held = hop[2].held
  BY <1>2, <1>5 DEF EndCopy, TypeOK
<1>8. \A g \in 1..2, j \in Copiers :
        copy'[g][j] = IF g = h /\ j = k THEN [pc |-> "end", chunk |-> copy[h][k].chunk] ELSE copy[g][j]
  <2>1. copy' = SetPc(h, k, "end")
    BY DEF EndCopy, SetPc
  <2> QED
    BY <1>2, <1>5, <2>1, CopyPcSet
<1>9. HeaderIn' = HeaderIn
  <2>1. copy'[h][k].pc # "off"
    BY <1>2, <1>8
  <2> QED
    BY <1>1, <1>2, <1>7, <1>8, <2>1, HeaderStays
<1>10. \A g \in 1..2, j \in Copiers : g # h \/ j # k => Carry(g, j)' = Carry(g, j)
  BY <1>8 DEF Carry
<1>11. Carry(h, k) = (IF copy[h][k].pc = "write" THEN <<x>> ELSE <<>>) /\ Carry(h, k)' = <<>>
  BY <1>2, <1>4, <1>8 DEF Carry
<1>12. PICK p : p = Hand(h, k)
  OBVIOUS
<1>13. p \in Spots /\ Cells(e)[p] = Carry(h, k) /\ Cells(e)'[p] = <<>>
  BY <1>2, <1>3, <1>11, <1>12, CellOf
<1>14. \A b \in 0..2, f \in Dirs : Body(b, f)' = Body(b, f)
  BY <1>1, <1>9 DEF Body
<1>15. ASSUME NEW f \in Dirs, f # e \/ copy[h][k].pc = "read" PROVE Cells(f)' = Cells(f)
  <2>1. PICK P : P = {}
    OBVIOUS
  <2>2. \A g \in 1..2, j \in Copiers : Way(j) = f /\ <<g, j>> \in Hands /\ Hand(g, j) \notin P => Carry(g, j)' = Carry(g, j)
    BY <1>3, <1>10, <1>11, <1>15
  <2>3. got'[f] = got[f] /\ \A b \in 0..2 : Wired(b) \notin P => Body(b, f)' = Body(b, f)
    BY <1>1, <1>14
  <2> QED
    BY <1>7, <2>1, <2>2, <2>3, Frame
<1>16. ASSUME copy[h][k].pc = "write" PROVE Drop(Cells(e), Cells(e)', p)
  <2>1. \A s \in Spots : s \notin {p} => Cells(e)'[s] = Cells(e)[s]
    <3>1. \A g \in 1..2, j \in Copiers : Way(j) = e /\ <<g, j>> \in Hands /\ Hand(g, j) \notin {p} => Carry(g, j)' = Carry(g, j)
      BY <1>10, <1>12
    <3>2. got'[e] = got[e] /\ \A b \in 0..2 : Wired(b) \notin {p} => Body(b, e)' = Body(b, e)
      BY <1>1, <1>14
    <3> QED
      BY <1>7, <3>1, <3>2, Frame
  <2> QED
    BY <1>6, <1>11, <1>13, <1>16, <2>1 DEF Drop
<1> QED
  BY <1>3, <1>9, <1>12, <1>15, <1>16

(* The io.Copy of the header's reader takes what the reader holds.         *)
LEMMA TakeHeldEffect ==
  ASSUME Formed, NEW h \in 1..Hops, TakeHeld(h)
  PROVE  /\ h = 2 /\ TcpChain
         /\ Shift(Cells("up"), Cells("up")', "held", "drain")
         /\ Cells("down")' = Cells("down")
         /\ HeaderIn' = HeaderIn
<1>1. /\ copy[h]["drain"].pc = "read" /\ hop[h].held # <<>> /\ wire' = wire /\ got' = got
      /\ "drain" \in Copiers /\ "up" \in Dirs /\ "down" \in Dirs
  BY DEF TakeHeld, Reading, Copiers, Dirs
<1>2. h \in 1..2 /\ <<h, "drain">> \in Hands /\ TcpChain
  BY <1>1, AtWork
<1>3. h = 2
  BY <1>2 DEF Hands
<1>4. PICK w : w = hop[2].held
  OBVIOUS
<1>5. TypeOK
  BY DEF Formed
<1>6. w \in Seq(Chunks) /\ w # <<>> /\ Head(w) \in Chunks
  <2>1. w \in Seq(Chunks) /\ w # <<>>
    BY <1>1, <1>3, <1>4, <1>5 DEF TypeOK
  <2> QED
    BY <2>1, TailFacts
<1>7. hop'[2].pc = hop[2].pc /\ hop'[2].held = Tail(w)
  BY <1>3, <1>4, <1>5 DEF TakeHeld, TypeOK
<1>8. \A g \in 1..2, j \in Copiers :
        copy'[g][j] = IF g = 2 /\ j = "drain" THEN [pc |-> "write", chunk |-> Head(w)] ELSE copy[g][j]
  BY <1>3, <1>4, <1>5 DEF TakeHeld, TypeOK
<1>9. HeaderIn' = HeaderIn
  <2>1. copy[2]["drain"].pc # "off" /\ copy'[2]["drain"].pc # "off"
    BY <1>1, <1>3, <1>8
  <2> QED
    BY <1>1, <1>7, <1>8, <2>1, HeaderStays
<1>10. \A g \in 1..2, j \in Copiers : g # 2 \/ j # "drain" => Carry(g, j)' = Carry(g, j)
  BY <1>8 DEF Carry
<1>11. Carry(2, "drain") = <<>> /\ Carry(2, "drain")' = Append(<<>>, Head(w))
  <2>1. Append(<<>>, Head(w)) = <<Head(w)>>
    BY <1>6, OneItem
  <2> QED
    BY <1>1, <1>3, <1>8, <2>1 DEF Carry
<1>12. \A b \in 0..2, f \in Dirs : Body(b, f)' = Body(b, f)
  BY <1>1, <1>9 DEF Body
<1>13. Cells("down")' = Cells("down")
  <2>1. PICK P : P = {}
    OBVIOUS
  <2>2. \A g \in 1..2, j \in Copiers : Way(j) = "down" /\ <<g, j>> \in Hands /\ Hand(g, j) \notin P => Carry(g, j)' = Carry(g, j)
    BY <1>10 DEF Way
  <2>3. got'["down"] = got["down"] /\ \A b \in 0..2 : Wired(b) \notin P => Body(b, "down")' = Body(b, "down")
    BY <1>1, <1>12
  <2> QED
    BY <1>1, <2>1, <2>2, <2>3, Frame
<1>14. \A s \in Spots : s \notin {"held", "drain"} => Cells("up")'[s] = Cells("up")[s]
  <2>1. \A g \in 1..2, j \in Copiers : Way(j) = "up" /\ <<g, j>> \in Hands /\ Hand(g, j) \notin {"held", "drain"} => Carry(g, j)' = Carry(g, j)
    BY <1>10 DEF Hand
  <2>2. got'["up"] = got["up"] /\ \A b \in 0..2 : Wired(b) \notin {"held", "drain"} => Body(b, "up")' = Body(b, "up")
    BY <1>1, <1>12
  <2> QED
    BY <1>1, <2>1, <2>2, Frame
<1>15. /\ Cells("up")["held"] = w /\ Cells("up")'["held"] = Tail(w)
       /\ Cells("up")["drain"] = <<>> /\ Cells("up")'["drain"] = Append(<<>>, Head(w))
  BY <1>1, <1>4, <1>7, <1>11, CellsAre, CellsWere
<1>16. Shift(Cells("up"), Cells("up")', "held", "drain")
  BY <1>6, <1>14, <1>15 DEF Shift
<1> QED
  BY <1>2, <1>3, <1>9, <1>13, <1>16

(* Nothing in the cells moves.                                             *)
LEMMA StillEffect ==
  ASSUME wire' = wire, copy' = copy, got' = got, hop'[2].held = hop[2].held, HeaderIn' = HeaderIn
  PROVE  \A d \in Dirs : Cells(d)' = Cells(d)
<1>1. SUFFICES ASSUME NEW d \in Dirs
               PROVE  Cells(d)' = Cells(d)
  OBVIOUS
<1>2. PICK P : P = {}
  OBVIOUS
<1>3. \A b \in 0..2 : Body(b, d)' = Body(b, d)
  BY DEF Body
<1>4. \A g \in 1..2, j \in Copiers : Carry(g, j)' = Carry(g, j)
  BY DEF Carry
<1> QED
  BY <1>2, <1>3, <1>4, Frame

(* A peer sends: its chunk enters at the peer's channel.                   *)
LEMMA SendEffect ==
  ASSUME Formed, NEW d \in Dirs, Send(d)
  PROVE  /\ Enter(Cells(d), Cells(d)', Wired(Peer(d).chan), sent[d] + 1)
         /\ \A e \in Dirs : e # d => Cells(e)' = Cells(e)
         /\ HeaderIn' = HeaderIn
         /\ wire[1].up # <<>> => wire'[1].up # <<>> /\ Head(wire'[1].up) = Head(wire[1].up)
         /\ d = "up" => wire'[1].up = wire[1].up
<1>1. hop' = hop /\ copy' = copy /\ got' = got /\ TypeOK /\ sent[d] < Limit[d]
  BY DEF Send, Formed
<1>2. HeaderIn' = HeaderIn
  BY <1>1 DEF HeaderIn
<1>3. PICK c \in 0..2 : c = Peer(d).chan
  <2>1. path \in {"tcp", "tls"} \X {1, 2}
    BY <1>1, RelayAssumption DEF TypeOK
  <2> QED
    BY <2>1 DEF Peer, Hops
<1>4. PICK x : x = sent[d] + 1
  OBVIOUS
<1>5. x \in Nat
  BY <1>1, <1>4, SMTT(60) DEF TypeOK, Dirs
<1>6. wire' = [wire EXCEPT ![c][d] = Append(wire[c][d], x)]
  <2>1. [wire EXCEPT ![c][d] = Append(@, x)] = [wire EXCEPT ![c][d] = Append(wire[c][d], x)]
    BY <1>1 DEF TypeOK, Dirs
  <2> QED
    BY <1>3, <1>4, <2>1 DEF Send
<1>7. \A b \in 0..2, f \in Dirs : wire'[b][f] = IF b = c /\ f = d THEN Append(wire[c][d], x) ELSE wire[b][f]
  BY <1>1, <1>6 DEF TypeOK, Dirs
<1>8. wire[c][d] \in Seq(Nat)
  <2>1. wire[c][d] \in Seq(Chunks)
    BY <1>1 DEF TypeOK, Dirs
  <2> QED
    BY <2>1, ChunkSeqs
<1>9. \A g \in 1..2, j \in Copiers : Carry(g, j)' = Carry(g, j)
  BY <1>1 DEF Carry
<1>10. \A b \in 0..2, f \in Dirs : b # c \/ f # d => Body(b, f)' = Body(b, f)
  BY <1>2, <1>7 DEF Body
<1>11. Body(c, d)' = Append(Body(c, d), x)
  <2>1. ~(HeaderIn /\ c = 1 /\ d = "up")
    BY <1>3 DEF Peer
  <2> QED
    BY <1>2, <1>7, <2>1 DEF Body
<1>12. ASSUME NEW e \in Dirs, e # d PROVE Cells(e)' = Cells(e)
  <2>1. PICK P : P = {}
    OBVIOUS
  <2>2. got'[e] = got[e] /\ hop'[2].held = hop[2].held
    BY <1>1
  <2>3. \A b \in 0..2 : Wired(b) \notin P => Body(b, e)' = Body(b, e)
    BY <1>10, <1>12
  <2> QED
    BY <1>9, <2>1, <2>2, <2>3, Frame
<1>13. PICK p : p = Wired(c)
  OBVIOUS
<1>14. \A s \in Spots : s \notin {p} => Cells(d)'[s] = Cells(d)[s]
  <2>1. got'[d] = got[d] /\ hop'[2].held = hop[2].held
    BY <1>1
  <2>2. \A b \in 0..2 : Wired(b) \notin {p} => Body(b, d)' = Body(b, d)
    BY <1>10, <1>13
  <2> QED
    BY <1>9, <2>1, <2>2, Frame
<1>15. p \in Spots /\ Cells(d)'[p] = Append(Cells(d)[p], x)
  BY <1>11, <1>13, CellOf
<1>16. Enter(Cells(d), Cells(d)', p, x)
  BY <1>14, <1>15 DEF Enter
<1>17. wire[1].up # <<>> => wire'[1].up # <<>> /\ Head(wire'[1].up) = Head(wire[1].up)
  <2>1. wire'[1].up = wire[1].up \/ (c = 1 /\ d = "up")
    BY <1>7 DEF Dirs
  <2>2. ~(c = 1 /\ d = "up")
    BY <1>3 DEF Peer
  <2> QED
    BY <2>1, <2>2
<1>18. d = "up" => wire'[1].up = wire[1].up
  BY <1>3, <1>7 DEF Peer, Dirs
<1> QED
  BY <1>2, <1>3, <1>4, <1>12, <1>13, <1>16, <1>17, <1>18

(* The parts of what follows the first item.                               *)
LEMMA TailParts ==
  ASSUME NEW S, NEW s \in Seq(S), s # <<>>, NEW m \in 0..(Len(s) - 1)
  PROVE  /\ SubSeq(s, 2, m + 1) = SubSeq(Tail(s), 1, m)
         /\ SubSeq(s, m + 2, Len(s)) = SubSeq(Tail(s), m + 1, Len(Tail(s)))
         /\ m \in 0..Len(Tail(s))
<1>1. PICK t \in Seq(S), n \in Nat, k \in Nat : t = Tail(s) /\ n = Len(s) /\ Len(t) = n - 1 /\ n = m + k + 1
  <2>1. Tail(s) \in Seq(S) /\ Len(s) \in Nat /\ Len(Tail(s)) = Len(s) - 1
    BY TailFacts
  <2>2. Len(s) - 1 - m \in Nat /\ Len(s) = m + (Len(s) - 1 - m) + 1
    BY <2>1
  <2> QED
    BY <2>1, <2>2, Zenon
<1>2. \A i \in 1..n - 1 : t[i] = s[i + 1]
  BY <1>1, TailFacts
<1>3. PICK z \in Nat, u \in Nat : z = 0 /\ u = 1
  OBVIOUS
<1>4. m \in Nat /\ m + 1 \in Nat
  OBVIOUS
<1>5. PICK a, b : a = SubSeq(s, 2, m + 1) /\ b = SubSeq(t, 1, m)
  OBVIOUS
<1>6. a \in Seq(S) /\ Len(a) = m /\ \A i \in 1..m : a[i] = s[u + i]
  <2>1. u + m <= Len(s)
    BY <1>1, <1>3, <1>4
  <2>2. /\ SubSeq(s, u + 1, u + m) \in Seq(S) /\ Len(SubSeq(s, u + 1, u + m)) = m
        /\ \A i \in 1..m : SubSeq(s, u + 1, u + m)[i] = s[u + i]
    BY <1>4, <2>1, PartOf, ZenonT(60)
  <2>3. a = SubSeq(s, u + 1, u + m)
    BY <1>3, <1>4, <1>5
  <2> QED
    BY <2>2, <2>3, Zenon
<1>7. b \in Seq(S) /\ Len(b) = m /\ \A i \in 1..m : b[i] = t[z + i]
  <2>1. z + m <= Len(t)
    BY <1>1, <1>3, <1>4
  <2>2. /\ SubSeq(t, z + 1, z + m) \in Seq(S) /\ Len(SubSeq(t, z + 1, z + m)) = m
        /\ \A i \in 1..m : SubSeq(t, z + 1, z + m)[i] = t[z + i]
    BY <1>4, <2>1, PartOf, ZenonT(60)
  <2>3. b = SubSeq(t, z + 1, z + m)
    BY <1>3, <1>4, <1>5
  <2> QED
    BY <2>2, <2>3, Zenon
<1>8. \A i \in 1..m : a[i] = b[i]
  <2>1. SUFFICES ASSUME NEW i \in 1..m
                 PROVE  a[i] = b[i]
    OBVIOUS
  <2>2. i \in 1..n - 1 /\ u + i = i + 1 /\ z + i = i
    BY <1>1, <1>3, <1>4
  <2> QED
    BY <1>2, <1>6, <1>7, <2>2
<1>9. a = b
  BY <1>6, <1>7, <1>8, SeqEqual
<1>10. PICK c, d : c = SubSeq(s, m + 2, n) /\ d = SubSeq(t, m + 1, n - 1)
  OBVIOUS
<1>11. PICK q \in Nat : q = m + 1
  BY <1>4
<1>12. c \in Seq(S) /\ Len(c) = k /\ \A i \in 1..k : c[i] = s[q + i]
  <2>1. q + k <= Len(s)
    BY <1>1, <1>4, <1>11
  <2>2. /\ SubSeq(s, q + 1, q + k) \in Seq(S) /\ Len(SubSeq(s, q + 1, q + k)) = k
        /\ \A i \in 1..k : SubSeq(s, q + 1, q + k)[i] = s[q + i]
    BY <1>1, <2>1, PartOf
  <2>3. q + 1 = m + 2 /\ q + k = n
    BY <1>1, <1>4, <1>11
  <2>4. c = SubSeq(s, q + 1, q + k)
    BY <1>10, <2>3
  <2> QED
    BY <2>2, <2>4, Zenon
<1>13. d \in Seq(S) /\ Len(d) = k /\ \A i \in 1..k : d[i] = t[m + i]
  <2>1. m + k <= Len(t)
    BY <1>1, <1>4
  <2>2. /\ SubSeq(t, m + 1, m + k) \in Seq(S) /\ Len(SubSeq(t, m + 1, m + k)) = k
        /\ \A i \in 1..k : SubSeq(t, m + 1, m + k)[i] = t[m + i]
    BY <1>1, <1>4, <2>1, PartOf
  <2>3. m + k = n - 1
    BY <1>1, <1>4
  <2>4. d = SubSeq(t, m + 1, m + k)
    BY <1>10, <2>3
  <2> QED
    BY <2>2, <2>4, Zenon
<1>14. \A i \in 1..k : c[i] = d[i]
  <2>1. SUFFICES ASSUME NEW i \in 1..k
                 PROVE  c[i] = d[i]
    OBVIOUS
  <2>2. m + i \in 1..n - 1 /\ (m + i) + 1 = q + i
    BY <1>1, <1>4, <1>11
  <2> QED
    BY <1>2, <1>12, <1>13, <2>2
<1>15. c = d
  BY <1>12, <1>13, <1>14, SeqEqual
<1>16. m \in 0..Len(t)
  BY <1>1, <1>4
<1> QED
  BY <1>1, <1>5, <1>9, <1>10, <1>15, <1>16

(* The first hop dials: the header is no cell's, and neither is what waits *)
(* before it.                                                              *)
LEMMA EstablishEffect ==
  ASSUME Formed, NEW h \in 1..Hops, Establish(h)
  PROVE  /\ \A d \in Dirs : Cells(d)' = Cells(d)
         /\ hop[2].pc = "idle" /\ (HeaderIn' => wire'[1].up = <<Header>>)
<1>1. h = 1 /\ hop[1].pc = "setup" /\ got' = got /\ TypeOK
  BY DEF Establish, Formed
<1>2. hop[2].pc = "idle" /\ wire[1].up = <<>> /\ \A g \in 1..2, k \in Copiers : hop[g].pc \in {"idle", "setup"} => copy[g][k].pc = "off"
  BY <1>1 DEF Formed, Shape, HopShape
<1>3. path \in {"tcp", "tls"} \X {1, 2}
  BY <1>1, RelayAssumption DEF TypeOK
<1>4. hop'[2].held = hop[2].held /\ hop'[2].pc = (IF Hops = 2 THEN "setup" ELSE "idle")
  <2>1. PICK H : H = [hop EXCEPT ![1].pc = "run", ![1].waits = WaitsFor(1)]
    OBVIOUS
  <2>2. H[2] = hop[2] /\ DOMAIN H = 1..2
    <3>1. DOMAIN hop = 1..2
      BY <1>1 DEF TypeOK
    <3>2. DOMAIN H = DOMAIN hop
      BY <2>1
    <3>3. H[2] = hop[2]
      BY <2>1, <3>1
    <3> QED
      BY <3>1, <3>2, <3>3
  <2>3. PICK r : r = hop[2]
    OBVIOUS
  <2>4. r \in [pc : {"idle", "setup", "run", "failed", "done"}, held : Seq(Chunks), errs : 0..3, waits : 0..2]
    BY <1>1, <2>3 DEF TypeOK
  <2>5. hop' = [H EXCEPT ![2].pc = IF Hops = 2 THEN "setup" ELSE @]
    BY <1>1, <2>1 DEF Establish
  <2>6. hop'[2] = [r EXCEPT !.pc = IF Hops = 2 THEN "setup" ELSE r.pc]
    BY <2>2, <2>3, <2>5
  <2> QED
    BY <1>2, <2>3, <2>4, <2>6
<1>5. \A g \in 1..2, k \in Copiers :
        copy'[g][k] = IF g = 1 THEN Running(1)[k] ELSE copy[g][k]
  BY <1>1 DEF Establish, TypeOK
<1>6. \A k \in Copiers : Running(1)[k].pc \in {"off", "read"}
  BY DEF Running
<1>7. \A g \in 1..2, k \in Copiers : Carry(g, k)' = Carry(g, k)
  <2>1. SUFFICES ASSUME NEW g \in 1..2, NEW k \in Copiers
                 PROVE  Carry(g, k)' = Carry(g, k)
    OBVIOUS
  <2>2. CASE g = 1
    <3>1. copy[1][k].pc = "off" /\ copy'[1][k].pc \in {"off", "read"}
      BY <1>1, <1>2, <1>5, <1>6, <2>2
    <3> QED
      BY <2>2, <3>1 DEF Carry
  <2>3. CASE g # 1
    BY <1>5, <2>3 DEF Carry
  <2> QED
    BY <2>2, <2>3
<1>8. copy'[2]["up"].pc = "off" /\ copy[2]["up"].pc = "off"
  BY <1>2, <1>5 DEF Copiers
<1>9. ~HeaderIn /\ (HeaderIn' <=> Hops = 2)
  BY <1>2, <1>4, <1>8 DEF HeaderIn
<1>10. Hops = 2 <=> Role(1) = "chain"
  BY <1>3 DEF Role, Hops
<1>11. wire' = IF Hops = 2 THEN [wire EXCEPT ![1].up = <<Header>>] ELSE wire
  BY <1>10 DEF Establish
<1>12. \A b \in 0..2, f \in Dirs : Hops # 2 \/ b # 1 \/ f # "up" => wire'[b][f] = wire[b][f]
  BY <1>1, <1>11 DEF TypeOK, Dirs
<1>13. Hops = 2 => wire'[1]["up"] = <<Header>>
  BY <1>1, <1>11 DEF TypeOK, Dirs
<1>14. \A b \in 0..2, f \in Dirs : Body(b, f)' = Body(b, f)
  <2>1. SUFFICES ASSUME NEW b \in 0..2, NEW f \in Dirs
                 PROVE  Body(b, f)' = Body(b, f)
    OBVIOUS
  <2>2. CASE Hops = 2 /\ b = 1 /\ f = "up"
    <3>1. Tail(<<Header>>) = <<>>
      OBVIOUS
    <3> QED
      BY <1>2, <1>9, <1>13, <2>2, <3>1 DEF Body
  <2>3. CASE ~(Hops = 2 /\ b = 1 /\ f = "up")
    BY <1>9, <1>12, <2>3 DEF Body
  <2> QED
    BY <2>2, <2>3
<1>15. ASSUME NEW d \in Dirs PROVE Cells(d)' = Cells(d)
  <2>1. PICK P : P = {}
    OBVIOUS
  <2>2. got'[d] = got[d]
    BY <1>1
  <2> QED
    BY <1>4, <1>7, <1>14, <2>1, <2>2, Frame
<1> QED
  BY <1>2, <1>9, <1>13, <1>15

(* The second hop reads the header, and what the reader took with it stays *)
(* in front of the rest.                                                   *)
LEMMA EstabFromHeaderEffect ==
  ASSUME Formed, NEW h \in 1..Hops, EstabFromHeader(h)
  PROVE  /\ Hops = 2 /\ Cells("down")' = Cells("down") /\ ~HeaderIn' /\ Role(2) = "relay"
         /\ \E m \in Nat : /\ Split(Cells("up"), Cells("up")', m) /\ (Kind = "tls" => m = 0)
                           /\ hop'[2].held = SubSeq(wire[1].up, 2, m + 1)
<1>1. h = 2 /\ hop[2].pc = "setup" /\ got' = got /\ TypeOK /\ wire[1].up # <<>>
  BY DEF EstabFromHeader, Formed
<1>2. path \in {"tcp", "tls"} \X {1, 2}
  BY <1>1, RelayAssumption DEF TypeOK
<1>3. Hops = 2 /\ Role(2) = "relay"
  BY <1>1, <1>2 DEF Role, Hops
<1>4. /\ \A k \in Copiers : copy[2][k].pc = "off"
      /\ hop[2].held = <<>>
  BY <1>1 DEF Formed, Shape, HopShape, Copiers
<1>5. PICK w \in Seq(Chunks) : w = wire[1].up
  BY <1>1 DEF TypeOK
<1>6. PICK m \in 0..(IF Kind = "tcp" THEN Len(w) - 1 ELSE 0) :
         /\ hop' = [hop EXCEPT ![2] = [@ EXCEPT !.pc = "run", !.waits = WaitsFor(2), !.held = SubSeq(w, 2, m + 1)]]
         /\ wire' = [wire EXCEPT ![1].up = SubSeq(@, m + 2, Len(@))]
  BY <1>1, <1>5 DEF EstabFromHeader
<1>7. w # <<>> /\ m \in 0..(Len(w) - 1) /\ (Kind = "tls" => m = 0) /\ m \in Nat
  BY <1>1, <1>5, <1>6
<1>8. wire' = [wire EXCEPT ![1].up = SubSeq(w, m + 2, Len(w))]
  <2>1. [wire EXCEPT ![1].up = SubSeq(@, m + 2, Len(@))] = [wire EXCEPT ![1].up = SubSeq(w, m + 2, Len(w))]
    BY <1>1, <1>5 DEF TypeOK
  <2> QED
    BY <1>6, <2>1
<1>9. hop'[2].held = SubSeq(w, 2, m + 1)
  <2>1. PICK v, r : v = SubSeq(w, 2, m + 1) /\ r = hop[2]
    OBVIOUS
  <2>2. r \in [pc : {"idle", "setup", "run", "failed", "done"}, held : Seq(Chunks), errs : 0..3, waits : 0..2]
    BY <1>1, <2>1 DEF TypeOK
  <2>3. hop'[2] = [r EXCEPT !.pc = "run", !.waits = WaitsFor(2), !.held = v]
    BY <1>1, <1>6, <2>1 DEF TypeOK
  <2> QED
    BY <2>1, <2>2, <2>3
<1>10. PICK t, a, b : t = Tail(w) /\ a = SubSeq(w, 2, m + 1) /\ b = SubSeq(w, m + 2, Len(w))
  OBVIOUS
<1>11. a = SubSeq(t, 1, m) /\ b = SubSeq(t, m + 1, Len(t)) /\ m \in 0..Len(t)
  BY <1>7, <1>10, TailParts
<1>12. \A g \in 1..2, k \in Copiers :
        copy'[g][k] = IF g = 2 THEN Running(2)[k] ELSE copy[g][k]
  BY <1>1 DEF EstabFromHeader, TypeOK
<1>13. (\A k \in Copiers : Running(2)[k].pc \in {"off", "read"}) /\ Running(2)["up"].pc = "read"
  BY DEF Running, Copiers
<1>14. \A g \in 1..2, k \in Copiers : Carry(g, k)' = Carry(g, k)
  <2>1. SUFFICES ASSUME NEW g \in 1..2, NEW k \in Copiers
                 PROVE  Carry(g, k)' = Carry(g, k)
    OBVIOUS
  <2>2. CASE g = 2
    <3>1. copy[2][k].pc = "off" /\ copy'[2][k].pc \in {"off", "read"}
      BY <1>4, <1>12, <1>13, <2>2
    <3> QED
      BY <2>2, <3>1 DEF Carry
  <2>3. CASE g # 2
    BY <1>12, <2>3 DEF Carry
  <2> QED
    BY <2>2, <2>3
<1>15. HeaderIn /\ ~HeaderIn'
  <2>1. copy[2]["up"].pc = "off" /\ copy'[2]["up"].pc = "read"
    BY <1>4, <1>12, <1>13 DEF Copiers
  <2> QED
    BY <1>1, <2>1 DEF HeaderIn
<1>16. \A c \in 0..2, f \in Dirs : c # 1 \/ f # "up" => wire'[c][f] = wire[c][f]
  BY <1>1, <1>8, SMTT(60) DEF TypeOK, Dirs
<1>17. wire'[1]["up"] = b
  <2>1. wire' = [wire EXCEPT ![1].up = b]
    BY <1>8, <1>10
  <2> QED
    BY <1>1, <2>1 DEF TypeOK
<1>18. \A c \in 0..2, f \in Dirs : c # 1 \/ f # "up" => Body(c, f)' = Body(c, f)
  BY <1>16 DEF Body
<1>19. Body(1, "up") = t /\ Body(1, "up")' = b
  BY <1>5, <1>10, <1>15, <1>17 DEF Body
<1>20. Cells("down")' = Cells("down")
  <2>1. PICK P : P = {}
    OBVIOUS
  <2>2. got'["down"] = got["down"] /\ "down" \in Dirs
    BY <1>1 DEF Dirs
  <2>3. \A c \in 0..2 : Body(c, "down")' = Body(c, "down")
    BY <1>18, <2>2
  <2> QED
    BY <1>14, <2>1, <2>2, <2>3, Frame
<1>21. \A s \in Spots : s \notin {"wire1", "held"} => Cells("up")'[s] = Cells("up")[s]
  <2>1. got'["up"] = got["up"] /\ "up" \in Dirs
    BY <1>1 DEF Dirs
  <2>2. \A c \in 0..2 : Wired(c) \notin {"wire1", "held"} => Body(c, "up")' = Body(c, "up")
    BY <1>18, <2>1 DEF Wired
  <2> QED
    BY <1>14, <2>1, <2>2, Frame
<1>22. /\ Cells("up")["wire1"] = t /\ Cells("up")'["wire1"] = b
       /\ Cells("up")["held"] = <<>> /\ Cells("up")'["held"] = a
  <2>1. "up" \in Dirs
    BY DEF Dirs
  <2> QED
    BY <1>4, <1>9, <1>10, <1>19, <2>1, CellsAre, CellsWere
<1>23. Split(Cells("up"), Cells("up")', m)
  BY <1>11, <1>21, <1>22 DEF Split
<1> QED
  BY <1>3, <1>5, <1>7, <1>9, <1>15, <1>20, <1>23

-----------------------------------------------------------------------------
(* What is over stays over *)

(* The paths there are.                                                    *)
LEMMA PathFacts ==
  ASSUME TypeOK
  PROVE  Hops \in {1, 2} /\ Kind \in {"tcp", "tls"} /\ path = <<Kind, Hops>> /\ 1..Hops \subseteq 1..2
<1>1. path \in {"tcp", "tls"} \X {1, 2}
  BY RelayAssumption DEF TypeOK
<1>2. Hops \in {1, 2} /\ Kind \in {"tcp", "tls"} /\ path = <<Kind, Hops>>
  BY <1>1 DEF Hops, Kind
<1>3. 1..Hops \subseteq 1..2
  BY <1>2
<1> QED
  BY <1>2, <1>3

(* A connection that is closed.                                            *)
Ended == \A c \in 0..2 : /\ end[c].l = "closed" => end'[c].l = "closed"
                         /\ end[c].r = "closed" => end'[c].r = "closed"

(* What CloseEnds does to each end.                                        *)
LEMMA CloseEnded ==
  ASSUME TypeOK, NEW h \in 1..2, CloseEnds(h)
  PROVE  /\ Ended
         /\ \A c \in 0..2 : /\ end'[c].l = IF c = h THEN Shut(end[c].l) ELSE end[c].l
                            /\ end'[c].r = IF c = h - 1 THEN Shut(end[c].r) ELSE end[c].r
<1>1. end \in [0..2 -> [l : {"none", "open", "shut", "closed"}, r : {"none", "open", "shut", "closed"}]]
  BY DEF TypeOK
<1>2. PICK g \in 0..2 : g = h - 1 /\ g # h
  OBVIOUS
<1>3. end' = [[end EXCEPT ![g].r = Shut(end[g].r)] EXCEPT ![h].l = Shut(end[h].l)]
  BY <1>1, <1>2 DEF CloseEnds
<1>4. \A c \in 0..2 : /\ end'[c].l = IF c = h THEN Shut(end[c].l) ELSE end[c].l
                      /\ end'[c].r = IF c = g THEN Shut(end[c].r) ELSE end[c].r
  BY <1>1, <1>2, <1>3
<1>5. Shut("closed") = "closed"
  BY DEF Shut
<1>6. Ended
  BY <1>4, <1>5 DEF Ended
<1> QED
  BY <1>2, <1>4, <1>6

(* No step opens an end that was closed.                                   *)
LEMMA EndsStay ==
  ASSUME Formed, Next
  PROVE  Ended
<1>0. TypeOK /\ \A h \in 1..2 : hop[h].pc \in {"idle", "setup"} => end[h] = NoEnds
  BY DEF Formed, Shape, HopShape
<1>1. path \in {"tcp", "tls"} \X {1, 2} /\ 1..Hops \subseteq 1..2
  BY <1>0, RelayAssumption, SMTT(60) DEF TypeOK, Hops
<1>2. ASSUME NEW h \in 1..2, hop[h].pc \in {"idle", "setup"}, end' = [end EXCEPT ![h] = [l |-> "open", r |-> "open"]]
      PROVE  Ended
  <2>1. end[h].l = "none" /\ end[h].r = "none"
    BY <1>0, <1>2 DEF NoEnds
  <2>2. \A c \in 0..2 : c # h => end'[c] = end[c]
    BY <1>0, <1>2 DEF TypeOK
  <2> QED
    BY <2>1, <2>2 DEF Ended
<1>3. ASSUME NEW h \in 1..Hops, Setup(h) PROVE Ended
  <2>1. CASE Establish(h)
    BY <1>2, <2>1 DEF Establish
  <2>2. CASE EstabFromHeader(h)
    <3>1. h = 2 /\ hop[2].pc = "setup" /\ end' = [end EXCEPT ![2] = [l |-> "open", r |-> "open"]]
      BY <2>2 DEF EstabFromHeader
    <3>2. 2 \in 1..2
      OBVIOUS
    <3> QED
      BY <1>2, <3>1, <3>2
  <2>3. CASE SetupFails(h)
    BY <1>0, <1>1, <2>3, CloseEnded DEF SetupFails, Ended
  <2> QED
    BY <1>3, <2>1, <2>2, <2>3 DEF Setup
<1>4. ASSUME NEW h \in 1..Hops, Collect(h) \/ Finish(h) PROVE Ended
  BY <1>0, <1>1, <1>4, CloseEnded DEF Collect, Finish
<1>5. ASSUME NEW h \in 1..Hops, WaiterTakes(h) \/ WaiterTimesOut(h) PROVE Ended
  BY <1>5 DEF WaiterTakes, WaiterTimesOut, Ended
<1>6. ASSUME NEW h \in 1..Hops, NEW k \in Copiers, Copy(h, k) PROVE Ended
  BY <1>6 DEF Copy, Read, ReadEnds, Write, WriteFails, TakeHeld, EndCopy, Ended
<1>7. ASSUME NEW d \in Dirs, Send(d) PROVE Ended
  BY <1>7 DEF Send, Ended
<1>8. ASSUME NEW d \in Dirs, Leave(d) PROVE Ended
  <2>1. CASE d = "up"
    <3>1. PICK e \in {"shut", "closed"} :
             end[0]["l"] \in {"open", "shut"} /\ end' = [end EXCEPT ![0]["l"] = e]
      BY <1>8, <2>1 DEF Leave, PeerEnd, Peer
    <3> QED
      BY <1>0, <3>1 DEF Ended, TypeOK
  <2>2. CASE d = "down"
    <3>1. PICK c \in 0..2 : c = Hops
      BY <1>1 DEF Hops
    <3>2. PICK e \in {"shut", "closed"} :
             end[c]["r"] \in {"open", "shut"} /\ end' = [end EXCEPT ![c]["r"] = e]
      BY <1>8, <2>2, <3>1 DEF Leave, PeerEnd, Peer
    <3> QED
      BY <1>0, <3>2 DEF Ended, TypeOK
  <2> QED
    BY <2>1, <2>2 DEF Dirs
<1> QED
  BY <1>3, <1>4, <1>5, <1>6, <1>7, <1>8 DEF Next

(* A copy that has ended.                                                  *)
LEMMA CopiesStay ==
  ASSUME Formed, Next
  PROVE  path' = path /\ \A h \in 1..2, k \in Copiers : copy[h][k].pc = "end" => copy'[h][k].pc = "end"
<1> DEFINE Stay == \A h \in 1..2, k \in Copiers : copy[h][k].pc = "end" => copy'[h][k].pc = "end"
<1>0. TypeOK /\ \A h \in 1..2 : hop[h].pc = "setup" => \A k \in Copiers : copy[h][k].pc = "off"
  BY DEF Formed, Shape, HopShape
<1>1. path \in {"tcp", "tls"} \X {1, 2} /\ 1..Hops \subseteq 1..2
  BY <1>0, RelayAssumption, SMTT(60) DEF TypeOK, Hops
<1>2. ASSUME NEW g \in 1..2, NEW j \in Copiers, NEW x, copy[g][j].pc # "end",
             copy' = [copy EXCEPT ![g][j] = x]
      PROVE  Stay
  BY <1>0, <1>2 DEF TypeOK
<1>3. ASSUME NEW g \in 1..2, NEW x, hop[g].pc = "setup", copy' = [copy EXCEPT ![g] = x]
      PROVE  Stay
  <2>1. \A h \in 1..2, k \in Copiers : h # g => copy'[h][k] = copy[h][k]
    BY <1>0, <1>3 DEF TypeOK
  <2>2. \A k \in Copiers : copy[g][k].pc # "end"
    BY <1>0, <1>3
  <2> QED
    BY <2>1, <2>2
<1>4. ASSUME copy' = copy PROVE Stay
  BY <1>4
<1>5. ASSUME NEW h \in 1..Hops, Setup(h) PROVE path' = path /\ Stay
  <2>1. CASE Establish(h)
    <3>1. path' = path /\ hop[1].pc = "setup" /\ copy' = [copy EXCEPT ![1] = Running(1)]
      BY <2>1 DEF Establish
    <3> HIDE DEF Stay
    <3>2. 1 \in 1..2
      OBVIOUS
    <3> QED
      BY <1>3, <3>1, <3>2
  <2>2. CASE EstabFromHeader(h)
    <3>1. path' = path /\ hop[2].pc = "setup" /\ copy' = [copy EXCEPT ![2] = Running(2)]
      BY <2>2 DEF EstabFromHeader
    <3> HIDE DEF Stay
    <3>2. 2 \in 1..2
      OBVIOUS
    <3> QED
      BY <1>3, <3>1, <3>2
  <2>3. CASE SetupFails(h)
    BY <1>4, <2>3 DEF SetupFails
  <2> QED
    BY <1>5, <2>1, <2>2, <2>3 DEF Setup
<1>6. ASSUME NEW h \in 1..Hops, Collect(h) \/ Finish(h) \/ WaiterTakes(h) \/ WaiterTimesOut(h) PROVE path' = path /\ Stay
  BY <1>4, <1>6 DEF Collect, Finish, WaiterTakes, WaiterTimesOut
<1>7. ASSUME NEW d \in Dirs, Send(d) \/ Leave(d) PROVE path' = path /\ Stay
  BY <1>4, <1>7 DEF Send, Leave
<1>8. ASSUME NEW h \in 1..Hops, NEW k \in Copiers, Copy(h, k) PROVE path' = path /\ Stay
  <2>0. h \in 1..2 /\ "drain" \in Copiers
    BY <1>1 DEF Copiers
  <2>a. TypeOK
    BY <1>0
  <2>1. CASE Read(h, k)
    <3>1. PICK x : x = [pc |-> "write", chunk |-> Head(wire[In(h, k)][Way(k)])]
      OBVIOUS
    <3>2. path' = path /\ copy[h][k].pc # "end" /\ copy' = [copy EXCEPT ![h][k] = x]
      BY <2>1, <3>1 DEF Read, Reading
    <3> QED
      BY <1>2, <2>0, <3>2
  <2>2. CASE TakeHeld(h)
    <3>1. PICK x : x = [pc |-> "write", chunk |-> Head(hop[h].held)]
      OBVIOUS
    <3>2. path' = path /\ copy[h]["drain"].pc # "end" /\ copy' = [copy EXCEPT ![h]["drain"] = x]
      BY <2>2, <3>1 DEF TakeHeld, Reading
    <3> QED
      BY <1>2, <2>0, <3>2
  <2>3. CASE Write(h, k)
    <3>1. path' = path /\ copy[h][k].pc = "write" /\ copy' = SetPc(h, k, "read")
      BY <2>3 DEF Write, SetPc
    <3>2. \A g \in 1..2, j \in Copiers :
            copy'[g][j] = IF g = h /\ j = k THEN [pc |-> "read", chunk |-> copy[h][k].chunk] ELSE copy[g][j]
      BY <2>a, <2>0, <3>1, CopyPcSet
    <3> QED
      BY <3>1, <3>2
  <2>4. CASE ReadEnds(h, k) \/ WriteFails(h, k)
    <3>1. path' = path /\ copy' = SetPc(h, k, "end")
      BY <2>4 DEF ReadEnds, WriteFails, EndCopy, SetPc
    <3>2. \A g \in 1..2, j \in Copiers :
            copy'[g][j] = IF g = h /\ j = k THEN [pc |-> "end", chunk |-> copy[h][k].chunk] ELSE copy[g][j]
      BY <1>0, <2>0, <3>1, CopyPcSet
    <3> QED
      BY <3>1, <3>2
  <2> QED
    BY <1>8, <2>1, <2>2, <2>3, <2>4 DEF Copy
<1> QED
  BY <1>5, <1>6, <1>7, <1>8 DEF Next

(* What was lost is not found: a direction that is sound now was before.   *)
LEMMA Fades ==
  ASSUME Formed, Next
  PROVE  /\ Unclosed' => Unclosed
         /\ \A h \in 1..Hops, d \in Dirs : Sound(h, d)' => Sound(h, d)
<1>1. Ended /\ path' = path /\ \A h \in 1..2, k \in Copiers : copy[h][k].pc = "end" => copy'[h][k].pc = "end"
  BY EndsStay, CopiesStay
<1>2. 1..Hops \subseteq 1..2
  BY PathFacts DEF Formed
<1>3. Unclosed' => Unclosed
  BY <1>1 DEF Unclosed, Ended
<1>4. ASSUME NEW h \in 1..Hops, NEW d \in Dirs, Sound(h, d)' PROVE Sound(h, d)
  <2>1. h \in 1..2 /\ d \in Copiers
    BY <1>2 DEF Dirs, Copiers
  <2>2. copy[h][d].pc # "end"
    BY <1>1, <1>4, <2>1 DEF Sound
  <2>3. PICK g \in 0..2 : g = h - 1
    BY <2>1
  <2>4. CASE d = "up"
    <3>1. FarOut(h, d) = end[h]["r"] /\ FarOut(h, d)' = end'[h]["r"] /\ h \in 0..2
      BY <2>1, <2>4 DEF FarOut, Out, Side, Way
    <3> QED
      BY <1>1, <1>4, <2>2, <3>1 DEF Sound, Ended
  <2>5. CASE d = "down"
    <3>1. FarOut(h, d) = end[g]["l"] /\ FarOut(h, d)' = end'[g]["l"]
      BY <2>1, <2>3, <2>5 DEF FarOut, Out, Side, Way
    <3> QED
      BY <1>1, <1>4, <2>2, <3>1 DEF Sound, Ended
  <2> QED
    BY <2>4, <2>5 DEF Dirs
<1> QED
  BY <1>3, <1>4

-----------------------------------------------------------------------------
(* The five things a step may do to the data                               *)

(* Where the peer of a direction puts its data, and the ways on from there.*)
Start(d) == IF d = "up" THEN "wire0" ELSE IF Hops = 1 THEN "wire1" ELSE "wire2"

(* From which cell to which an item of a direction may go.                 *)
Moves(d) ==
    IF Hops = 1 THEN {<<Start(d), "copy1">>, <<"copy1", "got">>}
    ELSE IF d = "down"
    THEN {<<"wire2", "copy2">>, <<"copy2", "wire1">>, <<"wire1", "copy1">>, <<"copy1", "got">>}
    ELSE {<<"wire0", "copy1">>, <<"copy1", "wire1">>, <<"wire1", "copy2">>, <<"copy2", "got">>}
         \cup (IF TcpChain THEN {<<"held", "drain">>, <<"wire1", "drain">>, <<"drain", "got">>} ELSE {})

(* Nothing happens to the other direction.                                 *)
Apart(d) == \A e \in Dirs : e # d => Cells(e)' = Cells(e)

(* No data move.                                                           *)
Passes ==
    /\ \A d \in Dirs : Cells(d)' = Cells(d)
    /\ sent' = sent /\ charged' = charged

(* The first item of a cell goes on to the next one: a copy that writes    *)
(* has lost nothing so far, and the first connector's copies count.        *)
Advances(d, p, q) ==
    /\ <<p, q>> \in Moves(d) /\ Shift(Cells(d), Cells(d)', p, q) /\ Apart(d)
    /\ p = "copy1" => Sound(1, d)
    /\ p = "copy2" => Sound(2, d)
    /\ sent' = sent /\ charged' = charged + (IF q = "copy1" THEN 1 ELSE 0)

(* A copy cannot write what it has read: it has lost data from then on,    *)
(* and some connection is closed.                                          *)
Loses(d, p) ==
    /\ p \in {"copy1", "copy2", "drain"} /\ Drop(Cells(d), Cells(d)', p) /\ Apart(d)
    /\ p = "drain" => TcpChain /\ d = "up"
    /\ p = "copy1" => ~Sound(1, d)'
    /\ p = "copy2" => ~Sound(2, d)' /\ Hops = 2
    /\ ~Unclosed' /\ sent' = sent /\ charged' = charged

(* The peer of a direction sends its next chunk.                           *)
Enters(d) ==
    /\ Enter(Cells(d), Cells(d)', Start(d), sent[d] + 1) /\ Apart(d)
    /\ sent[d] < Limit[d] /\ sent' = [sent EXCEPT ![d] = @ + 1] /\ charged' = charged

(* The second hop reads the header, over TLS nothing with it.              *)
Begins ==
    /\ Hops = 2 /\ \E m \in Nat : Split(Cells("up"), Cells("up")', m) /\ (Kind = "tls" => m = 0)
    /\ Apart("up") /\ sent' = sent /\ charged' = charged

(* A step does one of these to the data.                                   *)
Effect ==
    \/ Passes \/ Begins
    \/ \E d \in Dirs : Enters(d)
    \/ \E d \in Dirs, p \in Spots, q \in Spots : Advances(d, p, q)
    \/ \E d \in Dirs, p \in Spots : Loses(d, p)

(* The way a copy leads is one of them.                                    *)
LEMMA HandMoves ==
  ASSUME Formed, NEW h \in 1..Hops, NEW k \in Copiers, copy[h][k].pc # "off"
  PROVE  /\ Way(k) \in Dirs /\ Wired(In(h, k)) \in Spots /\ Hand(h, k) \in Spots /\ Wired(Out(h, k)) \in Spots /\ "got" \in Spots
         /\ <<Wired(In(h, k)), Hand(h, k)>> \in Moves(Way(k))
         /\ Out(h, k) \in {0, Hops} => <<Hand(h, k), "got">> \in Moves(Way(k))
         /\ Out(h, k) \notin {0, Hops} => <<Hand(h, k), Wired(Out(h, k))>> \in Moves(Way(k))
         /\ Hand(h, k) \in {"copy1", "copy2", "drain"}
         /\ Counts(h) <=> Hand(h, k) = "copy1"
         /\ Hand(h, k) = "drain" => TcpChain /\ Way(k) = "up"
         /\ Hand(h, k) = "copy1" => h = 1 /\ k = Way(k)
         /\ Hand(h, k) = "copy2" => h = 2 /\ k = Way(k) /\ Hops = 2
<1>1. h \in 1..2 /\ <<h, k>> \in Hands /\ (h = 2 => Hops = 2) /\ (k = "drain" => TcpChain)
  BY AtWork
<1>2. Hops \in {1, 2}
  BY PathFacts DEF Formed
<1>3. CASE h = 1 /\ k = "up"
  <2>1. Hops = 1 \/ Hops = 2
    BY <1>2
  <2> QED
    BY <1>3, <2>1 DEF Way, In, Out, Wired, Hand, Moves, Start, Counts, Role, Dirs, Spots
<1>4. CASE h = 1 /\ k = "down"
  <2>1. Hops = 1 \/ Hops = 2
    BY <1>2
  <2> QED
    BY <1>4, <2>1 DEF Way, In, Out, Wired, Hand, Moves, Start, Counts, Role, Dirs, Spots
<1>5. CASE h = 2 /\ k = "up"
  BY <1>1, <1>5 DEF Way, In, Out, Wired, Hand, Moves, Start, Counts, Role, Dirs, Spots
<1>6. CASE h = 2 /\ k = "down"
  BY <1>1, <1>6 DEF Way, In, Out, Wired, Hand, Moves, Start, Counts, Role, Dirs, Spots
<1>7. CASE h = 2 /\ k = "drain"
  BY <1>1, <1>7 DEF Way, In, Out, Wired, Hand, Moves, Start, Counts, Role, Dirs, Spots
<1> QED
  BY <1>1, <1>3, <1>4, <1>5, <1>6, <1>7 DEF Hands

(* A closed end anywhere.                                                  *)
LEMMA AnyClosed ==
  ASSUME TypeOK, NEW h \in 1..Hops, NEW k \in Copiers, "closed" \in {NearOut(h, k), FarOut(h, k)}
  PROVE  ~Unclosed
<1>1. h \in 1..2
  BY PathFacts
<1>2. PICK c \in 0..2 : c = Out(h, k)
  BY <1>1 DEF Out
<1>3. (Side(k).near = "l" \/ Side(k).near = "r") /\ (Side(k).far = "l" \/ Side(k).far = "r")
  BY DEF Side
<1>4. end[c]["l"] = "closed" \/ end[c]["r"] = "closed"
  BY <1>2, <1>3 DEF NearOut, FarOut
<1> QED
  BY <1>4 DEF Unclosed

(* Every step of a copy has one of the effects.                            *)
LEMMA CopyEffect ==
  ASSUME Formed, NEW h \in 1..Hops, NEW k \in Copiers, Copy(h, k)
  PROVE  Effect
<1>0. TypeOK /\ h \in 1..2
  BY PathFacts DEF Formed
<1>1. CASE Read(h, k)
  <2>1. copy[h][k].pc # "off" /\ sent' = sent /\ charged' = IF Counts(h) THEN charged + 1 ELSE charged
    BY <1>1 DEF Read, Reading
  <2>2. PICK d \in Dirs, p \in Spots, q \in Spots :
           d = Way(k) /\ p = Wired(In(h, k)) /\ q = Hand(h, k)
    BY <2>1, HandMoves
  <2>3. <<p, q>> \in Moves(d) /\ (Counts(h) <=> q = "copy1") /\ p # "copy1" /\ p # "copy2"
    BY <2>1, <2>2, HandMoves DEF Wired
  <2>4. Shift(Cells(d), Cells(d)', p, q) /\ Apart(d)
    BY <1>1, <2>2, ReadEffect DEF Apart
  <2>5. charged' = charged + (IF q = "copy1" THEN 1 ELSE 0)
    <3>1. charged \in Nat
      BY <1>0 DEF TypeOK
    <3> QED
      BY <2>1, <2>3, <3>1
  <2>6. Advances(d, p, q)
    BY <2>1, <2>3, <2>4, <2>5 DEF Advances
  <2> QED
    BY <2>6 DEF Effect
<1>2. CASE Write(h, k)
  <2>1. copy[h][k].pc # "off" /\ copy[h][k].pc # "end" /\ sent' = sent /\ charged' = charged /\ end' = end
    BY <1>2 DEF Write
  <2>2. PICK d \in Dirs, p \in Spots : d = Way(k) /\ p = Hand(h, k)
    BY <2>1, HandMoves
  <2>3. /\ p \in {"copy1", "copy2", "drain"} /\ (p = "drain" => TcpChain /\ d = "up")
        /\ p = "copy1" => h = 1 /\ k = d
        /\ p = "copy2" => h = 2 /\ k = d /\ Hops = 2
    BY <2>1, <2>2, HandMoves
  <2>4. Apart(d)
    BY <1>2, <2>2, WriteEffect DEF Apart
  <2>5. CASE FarOut(h, k) = "closed"
    <3>1. Drop(Cells(d), Cells(d)', p)
      BY <1>2, <2>2, <2>5, WriteEffect
    <3>2. FarOut(h, k)' = "closed"
      <4>1. path' = path
        BY <1>2 DEF Write
      <4> QED
        BY <2>1, <2>5, <4>1 DEF FarOut, Out
    <3>3. (p = "copy1" => ~Sound(1, d)') /\ (p = "copy2" => ~Sound(2, d)')
      BY <2>3, <3>2 DEF Sound
    <3>4. ~Unclosed'
      <4>1. ~Unclosed
        BY <1>0, <2>5, AnyClosed
      <4> QED
        BY <2>1, <4>1 DEF Unclosed
    <3>5. Loses(d, p)
      BY <2>1, <2>3, <2>4, <3>1, <3>3, <3>4 DEF Loses
    <3> QED
      BY <3>5 DEF Effect
  <2>6. CASE FarOut(h, k) # "closed"
    <3>1. (p = "copy1" => Sound(1, d)) /\ (p = "copy2" => Sound(2, d))
      BY <2>1, <2>3, <2>6 DEF Sound
    <3>2. PICK q \in Spots : <<p, q>> \in Moves(d) /\ Shift(Cells(d), Cells(d)', p, q) /\ q # "copy1"
      <4>1. CASE Out(h, k) \in {0, Hops}
        <5>1. <<p, "got">> \in Moves(d) /\ "got" \in Spots
          BY <2>1, <2>2, <4>1, HandMoves
        <5>2. Shift(Cells(d), Cells(d)', p, "got")
          BY <1>2, <2>2, <2>6, <4>1, WriteEffect
        <5> QED
          BY <5>1, <5>2
      <4>2. CASE Out(h, k) \notin {0, Hops}
        <5>1. PICK q \in Spots : q = Wired(Out(h, k)) /\ <<p, q>> \in Moves(d)
          BY <2>1, <2>2, <4>2, HandMoves
        <5>2. Shift(Cells(d), Cells(d)', p, q)
          BY <1>2, <2>2, <2>6, <4>2, <5>1, WriteEffect
        <5>3. q # "copy1"
          BY <5>1 DEF Wired
        <5> QED
          BY <5>1, <5>2, <5>3
      <4> QED
        BY <4>1, <4>2
    <3>3. charged' = charged + (IF q = "copy1" THEN 1 ELSE 0)
      <4>1. charged \in Nat
        BY <1>0 DEF TypeOK
      <4> QED
        BY <2>1, <3>2, <4>1
    <3>4. Advances(d, p, q)
      BY <2>1, <2>4, <3>1, <3>2, <3>3 DEF Advances
    <3> QED
      BY <3>4 DEF Effect
  <2> QED
    BY <2>5, <2>6
<1>3. CASE ReadEnds(h, k)
  <2>1. copy[h][k].pc = "read" /\ EndCopy(h, k)
    BY <1>3 DEF ReadEnds, Reading
  <2>2. \A d \in Dirs : Cells(d)' = Cells(d)
    BY <2>1, EndEffect
  <2>3. Passes
    BY <2>1, <2>2 DEF Passes, EndCopy
  <2> QED
    BY <2>3 DEF Effect
<1>4. CASE WriteFails(h, k)
  <2>1. copy[h][k].pc = "write" /\ EndCopy(h, k) /\ "closed" \in {NearOut(h, k), FarOut(h, k)}
    BY <1>4 DEF WriteFails
  <2>2. PICK d \in Dirs, p \in Spots : d = Way(k) /\ p = Hand(h, k)
    BY <2>1, HandMoves
  <2>3. /\ p \in {"copy1", "copy2", "drain"} /\ (p = "drain" => TcpChain /\ d = "up")
        /\ p = "copy1" => h = 1 /\ k = d
        /\ p = "copy2" => h = 2 /\ k = d /\ Hops = 2
    BY <2>1, <2>2, HandMoves
  <2>4. Drop(Cells(d), Cells(d)', p) /\ Apart(d)
    BY <2>1, <2>2, EndEffect DEF Apart
  <2>5. copy'[h][k].pc = "end"
    BY <1>0, <2>1 DEF EndCopy, TypeOK
  <2>6. (p = "copy1" => ~Sound(1, d)') /\ (p = "copy2" => ~Sound(2, d)')
    BY <2>3, <2>5 DEF Sound
  <2>7. ~Unclosed'
    <3>1. ~Unclosed
      BY <1>0, <2>1, AnyClosed
    <3> QED
      BY <2>1, <3>1 DEF Unclosed, EndCopy
  <2>8. sent' = sent /\ charged' = charged
    BY <2>1 DEF EndCopy
  <2>9. Loses(d, p)
    BY <2>3, <2>4, <2>6, <2>7, <2>8 DEF Loses
  <2> QED
    BY <2>9 DEF Effect
<1>5. CASE k = "drain" /\ TakeHeld(h)
  <2>1. Shift(Cells("up"), Cells("up")', "held", "drain") /\ Cells("down")' = Cells("down") /\ h = 2 /\ TcpChain
    BY <1>5, TakeHeldEffect
  <2>2. <<"held", "drain">> \in Moves("up")
    BY <1>0, <2>1 DEF Moves, Hops, TcpChain
  <2>3. sent' = sent /\ charged' = charged + (IF "drain" = "copy1" THEN 1 ELSE 0)
    <3>1. charged \in Nat
      BY <1>0 DEF TypeOK
    <3> QED
      BY <1>5, <3>1 DEF TakeHeld
  <2>4. Advances("up", "held", "drain")
    BY <2>1, <2>2, <2>3 DEF Advances, Apart, Dirs
  <2>5. "up" \in Dirs /\ "held" \in Spots /\ "drain" \in Spots
    BY DEF Dirs, Spots
  <2> QED
    BY <2>4, <2>5 DEF Effect
<1> QED
  BY <1>1, <1>2, <1>3, <1>4, <1>5 DEF Copy

(* And so has every other.                                                 *)
LEMMA StepEffect ==
  ASSUME Formed, Next
  PROVE  Effect
<1>0. TypeOK
  BY DEF Formed
<1>1. ASSUME NEW h \in 1..Hops, Setup(h) PROVE Effect
  <2>1. CASE Establish(h)
    <3>1. Passes
      BY <2>1, EstablishEffect DEF Passes, Establish
    <3> QED
      BY <3>1 DEF Effect
  <2>2. CASE EstabFromHeader(h)
    <3>1. sent' = sent /\ charged' = charged
      BY <2>2 DEF EstabFromHeader
    <3>2. Begins
      BY <2>2, <3>1, EstabFromHeaderEffect DEF Begins, Apart, Dirs
    <3> QED
      BY <3>2 DEF Effect
  <2>3. CASE SetupFails(h)
    <3>1. wire' = wire /\ copy' = copy /\ got' = got /\ sent' = sent /\ charged' = charged
      BY <2>3 DEF SetupFails
    <3>2. h \in 1..2 /\ hop[h].pc = "setup"
      BY <1>0, <2>3, PathFacts DEF SetupFails
    <3>3. PICK x \in {"done", "failed"} : hop' = [hop EXCEPT ![h].pc = x]
      BY <2>3 DEF SetupFails
    <3>4. hop'[2].held = hop[2].held /\ (hop'[2].pc = "idle" <=> hop[2].pc = "idle")
      BY <1>0, <3>2, <3>3 DEF TypeOK
    <3>5. HeaderIn' = HeaderIn
      BY <3>1, <3>4 DEF HeaderIn
    <3>6. Passes
      BY <3>1, <3>4, <3>5, StillEffect DEF Passes
    <3> QED
      BY <3>6 DEF Effect
  <2> QED
    BY <1>1, <2>1, <2>2, <2>3 DEF Setup
<1>2. ASSUME NEW h \in 1..Hops, Collect(h) \/ Finish(h) PROVE Effect
  <2>1. wire' = wire /\ copy' = copy /\ got' = got /\ sent' = sent /\ charged' = charged
    BY <1>2 DEF Collect, Finish
  <2>2. h \in 1..2 /\ hop[h].pc # "idle" /\ hop' = [hop EXCEPT ![h].pc = "done"]
    BY <1>0, <1>2, PathFacts DEF Collect, Finish
  <2>3. hop'[2].held = hop[2].held /\ (hop'[2].pc = "idle" <=> hop[2].pc = "idle")
    BY <1>0, <2>2 DEF TypeOK
  <2>4. HeaderIn' = HeaderIn
    BY <2>1, <2>3 DEF HeaderIn
  <2>5. Passes
    BY <2>1, <2>3, <2>4, StillEffect DEF Passes
  <2> QED
    BY <2>5 DEF Effect
<1>3. ASSUME NEW h \in 1..Hops, WaiterTakes(h) \/ WaiterTimesOut(h) PROVE Effect
  <2>1. wire' = wire /\ copy' = copy /\ got' = got /\ sent' = sent /\ charged' = charged
    BY <1>3 DEF WaiterTakes, WaiterTimesOut
  <2>2. h = 1
    BY <1>3 DEF WaiterTakes, WaiterTimesOut, Role
  <2>3. hop'[2] = hop[2]
    BY <1>0, <1>3, <2>2 DEF WaiterTakes, WaiterTimesOut, TypeOK
  <2>4. HeaderIn' = HeaderIn
    BY <2>1, <2>3 DEF HeaderIn
  <2>5. Passes
    BY <2>1, <2>3, <2>4, StillEffect DEF Passes
  <2> QED
    BY <2>5 DEF Effect
<1>4. ASSUME NEW h \in 1..Hops, NEW k \in Copiers, Copy(h, k) PROVE Effect
  BY <1>4, CopyEffect
<1>5. ASSUME NEW d \in Dirs, Send(d) PROVE Effect
  <2>1. Hops = 1 \/ Hops = 2
    BY <1>0, PathFacts
  <2>2. Start(d) = Wired(Peer(d).chan)
    BY <2>1 DEF Start, Wired, Peer, Dirs
  <2>3. sent[d] < Limit[d] /\ sent' = [sent EXCEPT ![d] = @ + 1] /\ charged' = charged
    BY <1>5 DEF Send
  <2>4. Enters(d)
    BY <1>5, <2>2, <2>3, SendEffect DEF Enters, Apart
  <2> QED
    BY <2>4 DEF Effect
<1>6. ASSUME NEW d \in Dirs, Leave(d) PROVE Effect
  <2>1. wire' = wire /\ copy' = copy /\ got' = got /\ sent' = sent /\ charged' = charged /\ hop' = hop
    BY <1>6 DEF Leave
  <2>2. HeaderIn' = HeaderIn
    BY <2>1 DEF HeaderIn
  <2>3. Passes
    BY <2>1, <2>2, StillEffect DEF Passes
  <2> QED
    BY <2>3 DEF Effect
<1> QED
  BY <1>1, <1>2, <1>3, <1>4, <1>5, <1>6 DEF Next

-----------------------------------------------------------------------------
(* Every chunk is in one place, and counted when it should be              *)

(* The ways lead from one cell to another.                                 *)
LEMMA MovesFacts ==
  ASSUME NEW d \in Dirs, NEW p, NEW q, <<p, q>> \in Moves(d)
  PROVE  p # q /\ p \in Spots /\ q \in Spots /\ Start(d) \in Spots
<1>1. Start(d) \in {"wire0", "wire1", "wire2"}
  BY DEF Start
<1> QED
  BY <1>1 DEF Moves, Spots

(* Every step keeps each chunk in one place.                               *)
LEMMA PlaceStep ==
  ASSUME Formed, PlaceInv, Next
  PROVE  PlaceInv'
<1>1. SUFFICES ASSUME NEW d \in Dirs
               PROVE  Once(Cells(d)', sent'[d]) /\ (Unclosed' => All(Cells(d)', sent'[d]))
  BY DEF PlaceInv
<1>2. PICK F \in CellTypes, n \in Nat : F = Cells(d) /\ n = sent[d]
  <2>1. sent[d] \in Nat
    BY DEF Formed, TypeOK, Dirs
  <2> QED
    BY <2>1, CellsTyped
<1>3. PICK G : G = Cells(d)'
  OBVIOUS
<1>4. Once(F, n) /\ (Unclosed => All(F, n)) /\ (Unclosed' => Unclosed)
  BY <1>2, Fades DEF PlaceInv
<1>5. CASE sent'[d] = sent[d] /\ G = F
  BY <1>2, <1>3, <1>4, <1>5
<1>6. CASE Passes
  BY <1>2, <1>3, <1>5, <1>6 DEF Passes
<1>7. CASE Begins
  <2>1. CASE d = "up"
    <3>1. PICK m \in Nat : Split(F, G, m)
      BY <1>2, <1>3, <1>7, <2>1 DEF Begins
    <3>2. Once(G, n) /\ (All(F, n) => All(G, n))
      BY <1>4, <3>1, SplitOnce
    <3> QED
      BY <1>2, <1>3, <1>4, <1>7, <3>2 DEF Begins
  <2>2. CASE d # "up"
    BY <1>2, <1>3, <1>5, <1>7, <2>2 DEF Begins, Apart
  <2> QED
    BY <2>1, <2>2
<1>8. ASSUME NEW e \in Dirs, Enters(e) PROVE Once(G, sent'[d]) /\ (Unclosed' => All(G, sent'[d]))
  <2>1. CASE d = e
    <3>1. Enter(F, G, Start(d), n + 1) /\ sent'[d] = n + 1 /\ Start(d) \in Spots
      BY <1>2, <1>3, <1>8, <2>1 DEF Enters, Formed, TypeOK, Dirs, Start, Spots
    <3>2. Once(G, n + 1) /\ (All(F, n) => All(G, n + 1))
      BY <1>4, <3>1, EnterOnce
    <3> QED
      BY <1>4, <3>1, <3>2
  <2>2. CASE d # e
    <3>1. sent'[d] = sent[d]
      BY <1>8, <2>2 DEF Enters, Formed, TypeOK, Dirs
    <3> QED
      BY <1>2, <1>3, <1>5, <1>8, <2>2, <3>1 DEF Enters, Apart
  <2> QED
    BY <2>1, <2>2
<1>9. ASSUME NEW e \in Dirs, NEW p \in Spots, NEW q \in Spots, Advances(e, p, q)
      PROVE  Once(G, sent'[d]) /\ (Unclosed' => All(G, sent'[d]))
  <2>1. CASE d = e
    <3>1. Shift(F, G, p, q) /\ p # q /\ sent'[d] = n
      BY <1>2, <1>3, <1>9, <2>1, MovesFacts DEF Advances
    <3>2. Once(G, n) /\ (All(F, n) => All(G, n))
      BY <1>4, <3>1, ShiftOnce
    <3> QED
      BY <1>4, <3>1, <3>2
  <2>2. CASE d # e
    BY <1>2, <1>3, <1>5, <1>9, <2>2 DEF Advances, Apart
  <2> QED
    BY <2>1, <2>2
<1>10. ASSUME NEW e \in Dirs, NEW p \in Spots, Loses(e, p)
       PROVE  Once(G, sent'[d]) /\ (Unclosed' => All(G, sent'[d]))
  <2>1. CASE d = e
    <3>1. Drop(F, G, p) /\ sent'[d] = n /\ ~Unclosed'
      BY <1>2, <1>3, <1>10, <2>1 DEF Loses
    <3>2. Once(G, n)
      BY <1>4, <3>1, DropOnce
    <3> QED
      BY <3>1, <3>2
  <2>2. CASE d # e
    BY <1>2, <1>3, <1>5, <1>10, <2>2 DEF Loses, Apart
  <2> QED
    BY <2>1, <2>2
<1>11. Effect
  BY StepEffect
<1> QED
  BY <1>3, <1>6, <1>7, <1>8, <1>9, <1>10, <1>11 DEF Effect

(* What is counted are numbers.                                            *)
LEMMA CountTypes ==
  ASSUME NEW d, NEW F \in CellTypes
  PROVE  Counted(d, F) \in Nat /\ Uncounted(d, F) \in Nat
<1>1. \A s \in Spots : Len(F[s]) \in Nat
  BY DEF CellTypes
<1>2. /\ Len(F["wire0"]) \in Nat /\ Len(F["wire1"]) \in Nat /\ Len(F["wire2"]) \in Nat /\ Len(F["copy1"]) \in Nat
      /\ Len(F["copy2"]) \in Nat /\ Len(F["held"]) \in Nat /\ Len(F["drain"]) \in Nat /\ Len(F["got"]) \in Nat
  BY <1>1 DEF Spots
<1>3. \A i, j \in Nat : i + j \in Nat
  OBVIOUS
<1>4. /\ Len(F["copy1"]) + Len(F["wire1"]) \in Nat
      /\ Len(F["copy1"]) + Len(F["got"]) \in Nat
      /\ Len(F["wire1"]) + Len(F["copy2"]) + Len(F["wire2"]) \in Nat
      /\ Len(F["copy1"]) + Len(F["wire1"]) + Len(F["held"]) + Len(F["drain"]) + Len(F["copy2"]) + Len(F["got"]) \in Nat
  BY <1>2, <1>3, Zenon
<1> QED
  BY <1>2, <1>4, Zenon DEF Counted, Uncounted

(* Of the moves only the read by the rule's connector counts.              *)
LEMMA ShiftCount ==
  ASSUME NEW d \in Dirs, NEW F \in CellTypes, NEW G, NEW p, NEW q, <<p, q>> \in Moves(d), Shift(F, G, p, q)
  PROVE  /\ q = "copy1" => Counted(d, G) = Counted(d, F) + 1 /\ Uncounted(d, G) = Uncounted(d, F) - 1
         /\ q # "copy1" => Counted(d, G) = Counted(d, F) /\ Uncounted(d, G) = Uncounted(d, F)
<1>1. p # q /\ p \in Spots /\ q \in Spots
  BY MovesFacts
<1>2. PICK f, g : f = [s \in Spots |-> Len(F[s])] /\ g = [s \in Spots |-> Len(G[s])]
  OBVIOUS
<1>3. /\ \A s \in Spots : f[s] \in Nat
      /\ g[p] = f[p] - 1 /\ g[q] = f[q] + 1
      /\ \A s \in Spots : s # p /\ s # q => g[s] = f[s]
  BY <1>1, <1>2, ShiftSizes, SMTT(60)
<1>4. /\ f["wire0"] \in Nat /\ f["wire1"] \in Nat /\ f["wire2"] \in Nat /\ f["copy1"] \in Nat
      /\ f["copy2"] \in Nat /\ f["held"] \in Nat /\ f["drain"] \in Nat /\ f["got"] \in Nat
  BY <1>3 DEF Spots
<1>5. /\ d = "up" => /\ Counted(d, F) = f["copy1"] + f["wire1"] + f["held"] + f["drain"] + f["copy2"] + f["got"]
                     /\ Counted(d, G) = g["copy1"] + g["wire1"] + g["held"] + g["drain"] + g["copy2"] + g["got"]
                     /\ Uncounted(d, F) = f["wire0"] /\ Uncounted(d, G) = g["wire0"]
      /\ d = "down" => /\ Counted(d, F) = f["copy1"] + f["got"] /\ Counted(d, G) = g["copy1"] + g["got"]
                       /\ Uncounted(d, F) = f["wire1"] + f["copy2"] + f["wire2"]
                       /\ Uncounted(d, G) = g["wire1"] + g["copy2"] + g["wire2"]
  BY <1>2 DEF Counted, Uncounted, Spots
<1>6. CASE d = "up"
  <2>1. <<p, q>> \in {<<"wire0", "copy1">>, <<"copy1", "wire1">>, <<"wire1", "copy2">>, <<"copy2", "got">>,
                      <<"copy1", "got">>, <<"held", "drain">>, <<"wire1", "drain">>, <<"drain", "got">>}
    BY <1>6 DEF Moves, Start
  <2>2. \A s \in {"wire0", "copy1", "wire1", "held", "drain", "copy2", "got"} :
           g[s] = IF s = p THEN f[s] - 1 ELSE IF s = q THEN f[s] + 1 ELSE f[s]
    BY <1>1, <1>3 DEF Spots
  <2>3. /\ g["wire0"] = IF p = "wire0" THEN f["wire0"] - 1 ELSE IF q = "wire0" THEN f["wire0"] + 1 ELSE f["wire0"]
        /\ g["wire1"] = IF p = "wire1" THEN f["wire1"] - 1 ELSE IF q = "wire1" THEN f["wire1"] + 1 ELSE f["wire1"]
        /\ g["copy1"] = IF p = "copy1" THEN f["copy1"] - 1 ELSE IF q = "copy1" THEN f["copy1"] + 1 ELSE f["copy1"]
        /\ g["copy2"] = IF p = "copy2" THEN f["copy2"] - 1 ELSE IF q = "copy2" THEN f["copy2"] + 1 ELSE f["copy2"]
        /\ g["held"] = IF p = "held" THEN f["held"] - 1 ELSE IF q = "held" THEN f["held"] + 1 ELSE f["held"]
        /\ g["drain"] = IF p = "drain" THEN f["drain"] - 1 ELSE IF q = "drain" THEN f["drain"] + 1 ELSE f["drain"]
        /\ g["got"] = IF p = "got" THEN f["got"] - 1 ELSE IF q = "got" THEN f["got"] + 1 ELSE f["got"]
    BY <2>2
  <2> QED
    BY <1>4, <1>5, <1>6, <2>1, <2>3
<1>7. CASE d = "down"
  <2>1. <<p, q>> \in {<<"wire2", "copy2">>, <<"copy2", "wire1">>, <<"wire1", "copy1">>, <<"copy1", "got">>}
    BY <1>7 DEF Moves, Start
  <2>2. \A s \in {"copy1", "got", "wire1", "copy2", "wire2"} :
           g[s] = IF s = p THEN f[s] - 1 ELSE IF s = q THEN f[s] + 1 ELSE f[s]
    BY <1>1, <1>3 DEF Spots
  <2>3. /\ g["wire2"] = IF p = "wire2" THEN f["wire2"] - 1 ELSE IF q = "wire2" THEN f["wire2"] + 1 ELSE f["wire2"]
        /\ g["wire1"] = IF p = "wire1" THEN f["wire1"] - 1 ELSE IF q = "wire1" THEN f["wire1"] + 1 ELSE f["wire1"]
        /\ g["copy1"] = IF p = "copy1" THEN f["copy1"] - 1 ELSE IF q = "copy1" THEN f["copy1"] + 1 ELSE f["copy1"]
        /\ g["copy2"] = IF p = "copy2" THEN f["copy2"] - 1 ELSE IF q = "copy2" THEN f["copy2"] + 1 ELSE f["copy2"]
        /\ g["got"] = IF p = "got" THEN f["got"] - 1 ELSE IF q = "got" THEN f["got"] + 1 ELSE f["got"]
    BY <2>2
  <2> QED
    BY <1>4, <1>5, <1>7, <2>1, <2>3
<1> QED
  BY <1>6, <1>7 DEF Dirs

(* What is lost is not counted any more.                                   *)
LEMMA DropCount ==
  ASSUME NEW d \in Dirs, NEW F \in CellTypes, NEW G, NEW p \in Spots, Drop(F, G, p)
  PROVE  Counted(d, G) <= Counted(d, F) /\ Uncounted(d, G) <= Uncounted(d, F)
         /\ Counted(d, G) \in Int /\ Uncounted(d, G) \in Int
<1>1. PICK f, g : f = [s \in Spots |-> Len(F[s])] /\ g = [s \in Spots |-> Len(G[s])]
  OBVIOUS
<1>2. /\ \A s \in Spots : f[s] \in Nat
      /\ g[p] = f[p] - 1
      /\ \A s \in Spots : s # p => g[s] = f[s]
  BY <1>1, DropSizes
<1>3. \A s \in Spots : f[s] \in Int /\ g[s] \in Int /\ g[s] <= f[s]
  BY <1>2
<1>4. /\ f["wire0"] \in Int /\ f["wire1"] \in Int /\ f["wire2"] \in Int /\ f["copy1"] \in Int
      /\ f["copy2"] \in Int /\ f["held"] \in Int /\ f["drain"] \in Int /\ f["got"] \in Int
      /\ g["wire0"] \in Int /\ g["wire1"] \in Int /\ g["wire2"] \in Int /\ g["copy1"] \in Int
      /\ g["copy2"] \in Int /\ g["held"] \in Int /\ g["drain"] \in Int /\ g["got"] \in Int
      /\ g["wire0"] <= f["wire0"] /\ g["wire1"] <= f["wire1"] /\ g["wire2"] <= f["wire2"] /\ g["copy1"] <= f["copy1"]
      /\ g["copy2"] <= f["copy2"] /\ g["held"] <= f["held"] /\ g["drain"] <= f["drain"] /\ g["got"] <= f["got"]
  BY <1>3 DEF Spots
<1>5. /\ d = "up" => /\ Counted(d, F) = f["copy1"] + f["wire1"] + f["held"] + f["drain"] + f["copy2"] + f["got"]
                     /\ Counted(d, G) = g["copy1"] + g["wire1"] + g["held"] + g["drain"] + g["copy2"] + g["got"]
                     /\ Uncounted(d, F) = f["wire0"] /\ Uncounted(d, G) = g["wire0"]
      /\ d = "down" => /\ Counted(d, F) = f["copy1"] + f["got"] /\ Counted(d, G) = g["copy1"] + g["got"]
                       /\ Uncounted(d, F) = f["wire1"] + f["copy2"] + f["wire2"]
                       /\ Uncounted(d, G) = g["wire1"] + g["copy2"] + g["wire2"]
  BY <1>1 DEF Counted, Uncounted, Spots
<1> QED
  BY <1>4, <1>5 DEF Dirs

(* What is sent is not counted yet.                                        *)
LEMMA EnterCount ==
  ASSUME NEW d \in Dirs, NEW F \in CellTypes, NEW G, NEW x \in Nat, Enter(F, G, Start(d), x)
  PROVE  Counted(d, G) = Counted(d, F) /\ Uncounted(d, G) = Uncounted(d, F) + 1
<1>1. Start(d) \in Spots /\ Start(d) \in (IF d = "up" THEN {"wire0"} ELSE {"wire1", "wire2"})
  BY DEF Start, Spots, Dirs
<1>2. PICK f, g, p : f = [s \in Spots |-> Len(F[s])] /\ g = [s \in Spots |-> Len(G[s])] /\ p = Start(d)
  OBVIOUS
<1>3. /\ \A s \in Spots : f[s] \in Nat
      /\ g[p] = f[p] + 1
      /\ \A s \in Spots : s # p => g[s] = f[s]
  BY <1>1, <1>2, EnterSizes
<1>4. /\ f["wire0"] \in Nat /\ f["wire1"] \in Nat /\ f["wire2"] \in Nat /\ f["copy1"] \in Nat
      /\ f["copy2"] \in Nat /\ f["held"] \in Nat /\ f["drain"] \in Nat /\ f["got"] \in Nat
  BY <1>3 DEF Spots
<1>5. /\ d = "up" => /\ Counted(d, F) = f["copy1"] + f["wire1"] + f["held"] + f["drain"] + f["copy2"] + f["got"]
                     /\ Counted(d, G) = g["copy1"] + g["wire1"] + g["held"] + g["drain"] + g["copy2"] + g["got"]
                     /\ Uncounted(d, F) = f["wire0"] /\ Uncounted(d, G) = g["wire0"]
      /\ d = "down" => /\ Counted(d, F) = f["copy1"] + f["got"] /\ Counted(d, G) = g["copy1"] + g["got"]
                       /\ Uncounted(d, F) = f["wire1"] + f["copy2"] + f["wire2"]
                       /\ Uncounted(d, G) = g["wire1"] + g["copy2"] + g["wire2"]
  BY <1>2 DEF Counted, Uncounted, Spots
<1>6. CASE d = "up"
  <2>1. p = "wire0"
    BY <1>1, <1>2, <1>6
  <2>2. /\ g["wire0"] = f["wire0"] + 1 /\ g["copy1"] = f["copy1"] /\ g["wire1"] = f["wire1"] /\ g["held"] = f["held"]
        /\ g["drain"] = f["drain"] /\ g["copy2"] = f["copy2"] /\ g["got"] = f["got"]
    BY <1>3, <2>1 DEF Spots
  <2> QED
    BY <1>5, <1>6, <2>2
<1>7. CASE d = "down"
  <2>1. p = "wire1" \/ p = "wire2"
    BY <1>1, <1>2, <1>7
  <2>2. /\ g["copy1"] = f["copy1"] /\ g["copy2"] = f["copy2"] /\ g["got"] = f["got"]
        /\ \/ g["wire1"] = f["wire1"] + 1 /\ g["wire2"] = f["wire2"]
           \/ g["wire1"] = f["wire1"] /\ g["wire2"] = f["wire2"] + 1
    BY <1>3, <2>1 DEF Spots
  <2> QED
    BY <1>4, <1>5, <1>7, <2>2, SMTT(60)
<1> QED
  BY <1>6, <1>7 DEF Dirs

(* What the header's reader takes stays counted.                           *)
LEMMA SplitCount ==
  ASSUME NEW F \in CellTypes, NEW G, NEW n, Once(F, n), NEW m, Split(F, G, m)
  PROVE  Counted("up", G) = Counted("up", F) /\ Uncounted("up", G) = Uncounted("up", F)
<1>1. PICK f, g : f = [s \in Spots |-> Len(F[s])] /\ g = [s \in Spots |-> Len(G[s])]
  OBVIOUS
<1>2. /\ \A s \in Spots : f[s] \in Nat
      /\ \A s \in Spots : s \notin {"held", "wire1"} => g[s] = f[s]
  BY <1>1, SplitSizes
<1>3. g["held"] + g["wire1"] = f["wire1"] /\ f["held"] = 0
  BY <1>1, SplitSizes DEF Spots
<1>4. g["held"] \in Nat /\ g["wire1"] \in Nat
  <2>1. PICK w : w = F["wire1"]
    OBVIOUS
  <2>2. w \in Seq(Nat) /\ Inj(w) /\ m \in 0..Len(w)
    BY <2>1 DEF Once, Split, Spots, CellTypes
  <2>3. G["held"] = SubSeq(w, 1, m) /\ G["wire1"] = SubSeq(w, m + 1, Len(w))
    BY <2>1 DEF Split, Spots
  <2>4. Len(G["held"]) = m /\ Len(G["wire1"]) = Len(w) - m
    BY <2>2, <2>3, PartItems
  <2>5. m \in Nat /\ Len(w) - m \in Nat
    BY <2>2
  <2> QED
    BY <1>1, <2>4, <2>5 DEF Spots
<1>5. /\ Counted("up", F) = f["copy1"] + f["wire1"] + f["held"] + f["drain"] + f["copy2"] + f["got"]
      /\ Counted("up", G) = g["copy1"] + g["wire1"] + g["held"] + g["drain"] + g["copy2"] + g["got"]
      /\ Uncounted("up", F) = f["wire0"] /\ Uncounted("up", G) = g["wire0"]
  BY <1>1 DEF Counted, Uncounted, Spots
<1>6. /\ f["wire0"] \in Nat /\ f["wire1"] \in Nat /\ f["copy1"] \in Nat
      /\ f["copy2"] \in Nat /\ f["held"] \in Nat /\ f["drain"] \in Nat /\ f["got"] \in Nat
      /\ g["wire0"] = f["wire0"] /\ g["copy1"] = f["copy1"]
      /\ g["copy2"] = f["copy2"] /\ g["drain"] = f["drain"] /\ g["got"] = f["got"]
  BY <1>2 DEF Spots
<1> QED
  BY <1>3, <1>4, <1>5, <1>6

(* Every step keeps the account.                                           *)
LEMMA CountStep ==
  ASSUME Formed, PlaceInv, CountInv, Next
  PROVE  CountInv' /\ charged' \in Nat
<1>1. "up" \in Dirs /\ "down" \in Dirs /\ \A d \in Dirs : d = "up" \/ d = "down"
  BY DEF Dirs
<1>2. PICK F \in CellTypes, K \in CellTypes : F = Cells("up") /\ K = Cells("down")
  BY <1>1, CellsTyped
<1>3. PICK G, L : G = Cells("up")' /\ L = Cells("down")'
  OBVIOUS
<1>4. PICK a, b, u, v : a = Counted("up", F) /\ b = Counted("down", K) /\ u = Uncounted("up", F) /\ v = Uncounted("down", K)
  OBVIOUS
<1>5. PICK c, e, x, y : c = Counted("up", G) /\ e = Counted("down", L) /\ x = Uncounted("up", G) /\ y = Uncounted("down", L)
  OBVIOUS
<1>6. a \in Nat /\ b \in Nat /\ u \in Nat /\ v \in Nat
  BY <1>4, CountTypes
<1>7. PICK m \in Nat, n \in Nat, t \in Nat : m = sent.up /\ n = sent.down /\ t = charged
  <2>1. sent.up \in Nat /\ sent.down \in Nat /\ charged \in Nat
    BY DEF Formed, TypeOK
  <2> QED
    BY <2>1, Zenon
<1>8. a + b <= t /\ t + u + v <= m + n
  BY <1>2, <1>4, <1>7 DEF CountInv
<1>9. SUFFICES c + e <= charged' /\ charged' + x + y <= sent'.up + sent'.down /\ charged' \in Nat
  <2>1. CountInv' = (c + e <= charged' /\ charged' + x + y <= sent'.up + sent'.down)
    BY <1>3, <1>5 DEF CountInv
  <2> QED
    BY <2>1
<1>10. CASE Passes
  <2>1. c = a /\ e = b /\ x = u /\ y = v /\ charged' = t /\ sent'.up = m /\ sent'.down = n
    BY <1>1, <1>2, <1>3, <1>4, <1>5, <1>7, <1>10 DEF Passes
  <2> QED
    BY <1>8, <2>1
<1>11. CASE Begins
  <2>1. PICK k : Split(F, G, k)
    BY <1>2, <1>3, <1>11 DEF Begins
  <2>2. PICK z : Once(F, z)
    BY <1>1, <1>2 DEF PlaceInv
  <2>3. c = a /\ x = u
    BY <1>4, <1>5, <2>1, <2>2, SplitCount
  <2>4. L = K /\ charged' = t /\ sent'.up = m /\ sent'.down = n
    BY <1>1, <1>2, <1>3, <1>7, <1>11 DEF Begins, Apart
  <2>5. e = b /\ y = v
    BY <1>4, <1>5, <2>4
  <2> QED
    BY <1>8, <2>3, <2>4, <2>5
<1>12. ASSUME NEW d \in Dirs, Enters(d)
       PROVE  c + e <= charged' /\ charged' + x + y <= sent'.up + sent'.down /\ charged' \in Nat
  <2>1. sent[d] + 1 \in Nat /\ charged' = t
    BY <1>7, <1>12, SMTT(60) DEF Enters, Formed, TypeOK, Dirs
  <2>2. CASE d = "up"
    <3>1. Enter(F, G, Start("up"), sent["up"] + 1) /\ L = K
      BY <1>1, <1>2, <1>3, <1>12, <2>2 DEF Enters, Apart
    <3>2. c = a /\ x = u + 1
      BY <1>1, <1>4, <1>5, <2>1, <2>2, <3>1, EnterCount
    <3>3. sent'.up = m + 1 /\ sent'.down = n
      BY <1>7, <1>12, <2>2 DEF Enters, Formed, TypeOK
    <3>4. e = b /\ y = v
      BY <1>4, <1>5, <3>1
    <3> QED
      BY <1>6, <1>8, <2>1, <3>2, <3>3, <3>4
  <2>3. CASE d = "down"
    <3>1. Enter(K, L, Start("down"), sent["down"] + 1) /\ G = F
      BY <1>1, <1>2, <1>3, <1>12, <2>3 DEF Enters, Apart
    <3>2. e = b /\ y = v + 1
      BY <1>1, <1>4, <1>5, <2>1, <2>3, <3>1, EnterCount
    <3>3. sent'.up = m /\ sent'.down = n + 1
      BY <1>7, <1>12, <2>3 DEF Enters, Formed, TypeOK
    <3>4. c = a /\ x = u
      BY <1>4, <1>5, <3>1
    <3> QED
      BY <1>6, <1>8, <2>1, <3>2, <3>3, <3>4
  <2> QED
    BY <1>1, <2>2, <2>3
<1>13. ASSUME NEW d \in Dirs, NEW p \in Spots, NEW q \in Spots, Advances(d, p, q)
       PROVE  c + e <= charged' /\ charged' + x + y <= sent'.up + sent'.down /\ charged' \in Nat
  <2>1. charged' = (IF q = "copy1" THEN t + 1 ELSE t) /\ sent'.up = m /\ sent'.down = n /\ <<p, q>> \in Moves(d)
    BY <1>7, <1>13 DEF Advances
  <2>2. CASE d = "up"
    <3>1. Shift(F, G, p, q) /\ L = K
      BY <1>1, <1>2, <1>3, <1>13, <2>2 DEF Advances, Apart
    <3>2. (q = "copy1" => c = a + 1 /\ x = u - 1) /\ (q # "copy1" => c = a /\ x = u)
      BY <1>1, <1>4, <1>5, <2>1, <2>2, <3>1, ShiftCount
    <3>3. e = b /\ y = v
      BY <1>4, <1>5, <3>1
    <3> QED
      BY <1>6, <1>8, <2>1, <3>2, <3>3
  <2>3. CASE d = "down"
    <3>1. Shift(K, L, p, q) /\ G = F
      BY <1>1, <1>2, <1>3, <1>13, <2>3 DEF Advances, Apart
    <3>2. (q = "copy1" => e = b + 1 /\ y = v - 1) /\ (q # "copy1" => e = b /\ y = v)
      BY <1>1, <1>4, <1>5, <2>1, <2>3, <3>1, ShiftCount
    <3>3. c = a /\ x = u
      BY <1>4, <1>5, <3>1
    <3> QED
      BY <1>6, <1>8, <2>1, <3>2, <3>3
  <2> QED
    BY <1>1, <2>2, <2>3
<1>14. ASSUME NEW d \in Dirs, NEW p \in Spots, Loses(d, p)
       PROVE  c + e <= charged' /\ charged' + x + y <= sent'.up + sent'.down /\ charged' \in Nat
  <2>1. charged' = t /\ sent'.up = m /\ sent'.down = n
    BY <1>7, <1>14 DEF Loses
  <2>2. CASE d = "up"
    <3>1. Drop(F, G, p) /\ L = K
      BY <1>1, <1>2, <1>3, <1>14, <2>2 DEF Loses, Apart
    <3>2. c <= a /\ x <= u /\ c \in Int /\ x \in Int
      BY <1>1, <1>4, <1>5, <3>1, DropCount
    <3>3. e = b /\ y = v
      BY <1>4, <1>5, <3>1
    <3> QED
      BY <1>6, <1>8, <2>1, <3>2, <3>3
  <2>3. CASE d = "down"
    <3>1. Drop(K, L, p) /\ G = F
      BY <1>1, <1>2, <1>3, <1>14, <2>3 DEF Loses, Apart
    <3>2. e <= b /\ y <= v /\ e \in Int /\ y \in Int
      BY <1>1, <1>4, <1>5, <3>1, DropCount
    <3>3. c = a /\ x = u
      BY <1>4, <1>5, <3>1
    <3> QED
      BY <1>6, <1>8, <2>1, <3>2, <3>3
  <2> QED
    BY <1>1, <2>2, <2>3
<1>15. Effect
  BY StepEffect
<1> QED
  BY <1>10, <1>11, <1>12, <1>13, <1>14, <1>15 DEF Effect

-----------------------------------------------------------------------------
(* The order *)

(* Where a relay of one hop starts.                                        *)
First(st) == st \in {"wire0", "wire1"}

(* What a step can do to the cells of one hop, whose copy was sound (a)    *)
(* and is afterwards (c).                                                 *)
RowStep1(F, G, n, m, st, a, c) ==
  \/ m = n /\ \A s \in Spots : s # "held" => G[s] = F[s]
  \/ m = n /\ Shift(F, G, st, "copy1")
  \/ m = n /\ a /\ Shift(F, G, "copy1", "got")
  \/ m = n /\ ~c /\ Drop(F, G, "copy1")
  \/ m = n + 1 /\ Enter(F, G, st, n + 1)

(* The same over two hops, whose copies were sound (a, b) and are          *)
(* afterwards (c, e).                                                      *)
RowStep2(F, G, n, m, st, src, snk, a, b, c, e) ==
  \/ m = n /\ \A s \in Spots : s # "held" => G[s] = F[s]
  \/ m = n /\ Shift(F, G, st, src)
  \/ m = n /\ a /\ Shift(F, G, src, "wire1")
  \/ m = n /\ ~c /\ Drop(F, G, src)
  \/ m = n /\ Shift(F, G, "wire1", snk)
  \/ m = n /\ b /\ Shift(F, G, snk, "got")
  \/ m = n /\ ~e /\ Drop(F, G, snk)
  \/ m = n + 1 /\ Enter(F, G, st, n + 1)

(* A row of one hop stays a row.                                           *)
LEMMA Row1Effect ==
  ASSUME NEW F \in CellTypes, NEW G, NEW n \in Nat, NEW m, NEW st, First(st),
         NEW a \in BOOLEAN, NEW c \in BOOLEAN, c => a, Row1(F, n, st, a),
         RowStep1(F, G, n, m, st, a, c)
  PROVE  Row1(G, m, st, c)
<1>1. Row1(G, m, st, a) => Row1(G, m, st, c)
  BY RowsWeaken
<1>2. CASE m = n /\ \A s \in Spots : s # "held" => G[s] = F[s]
  <2>1. G[st] = F[st] /\ G["copy1"] = F["copy1"] /\ G["got"] = F["got"]
    BY <1>2 DEF Spots, First
  <2>2. Row1(G, n, st, a)
    BY <2>1, Zenon DEF Row1
  <2> QED
    BY <1>1, <1>2, <2>2
<1>3. CASE m = n /\ Shift(F, G, st, "copy1")
  BY <1>1, <1>3, Row1Steps DEF First
<1>4. CASE m = n /\ a /\ Shift(F, G, "copy1", "got")
  BY <1>1, <1>4, Row1Steps DEF First
<1>5. CASE m = n /\ ~c /\ Drop(F, G, "copy1")
  <2>1. Row1(G, n, st, FALSE)
    BY <1>5, Row1Steps DEF First
  <2>2. c = FALSE
    BY <1>5
  <2> QED
    BY <1>5, <2>1, <2>2
<1>6. CASE m = n + 1 /\ Enter(F, G, st, n + 1)
  <2>1. Row1(G, n + 1, st, a)
    BY <1>6, Row1Steps DEF First
  <2> QED
    BY <1>1, <1>6, <2>1
<1> QED
  BY <1>2, <1>3, <1>4, <1>5, <1>6 DEF RowStep1

(* And so does a row of two.                                                *)
LEMMA Row2Effect ==
  ASSUME NEW F \in CellTypes, NEW G, NEW n \in Nat, NEW m,
         NEW st, NEW src, NEW snk, Line(st, src, snk),
         NEW a \in BOOLEAN, NEW b \in BOOLEAN, NEW c \in BOOLEAN, NEW e \in BOOLEAN, c => a, e => b,
         Row2(F, n, st, src, snk, a, b),
         RowStep2(F, G, n, m, st, src, snk, a, b, c, e)
  PROVE  Row2(G, m, st, src, snk, c, e)
<1>0. /\ Shift(F, G, st, src) => Row2(G, n, st, src, snk, a, b)
      /\ a /\ Shift(F, G, src, "wire1") => Row2(G, n, st, src, snk, a, b)
      /\ Drop(F, G, src) => Row2(G, n, st, src, snk, FALSE, b)
      /\ Shift(F, G, "wire1", snk) => Row2(G, n, st, src, snk, a, b)
      /\ b /\ Shift(F, G, snk, "got") => Row2(G, n, st, src, snk, a, b)
      /\ Drop(F, G, snk) => Row2(G, n, st, src, snk, a, FALSE)
      /\ Enter(F, G, st, n + 1) => Row2(G, n + 1, st, src, snk, a, b)
  BY Row2Steps, Zenon
<1>1. Row2(G, m, st, src, snk, a, b) => Row2(G, m, st, src, snk, c, e)
  BY RowsWeaken
<1>2. CASE m = n /\ \A s \in Spots : s # "held" => G[s] = F[s]
  <2>1. G[st] = F[st] /\ G[src] = F[src] /\ G["wire1"] = F["wire1"] /\ G[snk] = F[snk] /\ G["got"] = F["got"]
    BY <1>2 DEF Spots, Line
  <2>2. Row2(G, n, st, src, snk, a, b)
    BY <2>1, Zenon DEF Row2
  <2> QED
    BY <1>1, <1>2, <2>2
<1>3. CASE m = n /\ Shift(F, G, st, src)
  BY <1>1, <1>3, <1>0
<1>4. CASE m = n /\ a /\ Shift(F, G, src, "wire1")
  BY <1>1, <1>4, <1>0
<1>5. CASE m = n /\ ~c /\ Drop(F, G, src)
  <2>1. Row2(G, n, st, src, snk, FALSE, b)
    BY <1>5, <1>0
  <2>2. c = FALSE
    BY <1>5
  <2>3. Row2(G, m, st, src, snk, c, b)
    BY <1>5, <2>1, <2>2
  <2> QED
    BY <2>3, RowsWeaken
<1>6. CASE m = n /\ Shift(F, G, "wire1", snk)
  BY <1>1, <1>6, <1>0
<1>7. CASE m = n /\ b /\ Shift(F, G, snk, "got")
  BY <1>1, <1>7, <1>0
<1>8. CASE m = n /\ ~e /\ Drop(F, G, snk)
  <2>1. Row2(G, n, st, src, snk, a, FALSE)
    BY <1>8, <1>0
  <2>2. e = FALSE
    BY <1>8
  <2>3. Row2(G, m, st, src, snk, a, e)
    BY <1>8, <2>1, <2>2
  <2> QED
    BY <2>3, RowsWeaken
<1>9. CASE m = n + 1 /\ Enter(F, G, st, n + 1)
  <2>1. Row2(G, n + 1, st, src, snk, a, b)
    BY <1>9, <1>0
  <2> QED
    BY <1>1, <1>9, <2>1
<1> QED
  BY <1>2, <1>3, <1>4, <1>5, <1>6, <1>7, <1>8, <1>9 DEF RowStep2

(* A hop's direction is sound or not.                                      *)
LEMMA SoundIs == \A h, d : Sound(h, d) \in BOOLEAN /\ Sound(h, d)' \in BOOLEAN
BY DEF Sound

(* What a step does to a direction that keeps its order.                   *)
LEMMA OrderStep ==
  ASSUME Formed, PlaceInv, OrderInv, Next
  PROVE  OrderInv'
<1>1. path' = path /\ Hops' = Hops /\ (TcpChain' <=> TcpChain) /\ Hops \in {1, 2} /\ (~TcpChain /\ Hops = 2 => Kind = "tls")
  <2>1. path' = path
    BY CopiesStay
  <2>2. Hops' = Hops /\ (TcpChain' <=> TcpChain)
    BY <2>1 DEF Hops, TcpChain
  <2>3. Hops \in {1, 2} /\ Kind \in {"tcp", "tls"} /\ path = <<Kind, Hops>>
    BY PathFacts DEF Formed
  <2> QED
    BY <2>1, <2>2, <2>3 DEF TcpChain
<1>2. SUFFICES ASSUME NEW d \in Dirs, ~(TcpChain /\ d = "up"), OrderOf(d)
               PROVE  OrderOf(d)'
  BY <1>1 DEF OrderInv
<1>3. PICK F \in CellTypes, n \in Nat : F = Cells(d) /\ n = sent[d]
  <2>1. sent[d] \in Nat
    BY DEF Formed, TypeOK, Dirs
  <2> QED
    BY <2>1, CellsTyped
<1>4. PICK G, m : G = Cells(d)' /\ m = sent'[d]
  OBVIOUS
<1>5. PICK a \in BOOLEAN, b \in BOOLEAN, c \in BOOLEAN, e \in BOOLEAN :
        a = Sound(1, d) /\ b = Sound(2, d) /\ c = Sound(1, d)' /\ e = Sound(2, d)'
  BY SoundIs
<1>6. (c => a) /\ (Hops = 2 => (e => b))
  <2>1. 1 \in 1..Hops /\ (Hops = 2 => 2 \in 1..Hops)
    BY <1>1
  <2> QED
    BY <1>5, <2>1, Fades
<1>7. \/ m = n /\ \A s \in Spots : s # "held" => G[s] = F[s]
      \/ m = n + 1 /\ Enter(F, G, Start(d), n + 1)
      \/ m = n /\ \E p \in Spots, q \in Spots :
           <<p, q>> \in Moves(d) /\ Shift(F, G, p, q) /\ (p = "copy1" => a) /\ (p = "copy2" => b)
      \/ m = n /\ Drop(F, G, "copy1") /\ ~c
      \/ m = n /\ Drop(F, G, "copy2") /\ ~e /\ Hops = 2
  <2>1. CASE Passes
    BY <1>3, <1>4, <2>1 DEF Passes
  <2>2. CASE Begins
    <3>1. m = n
      BY <1>3, <1>4, <2>2 DEF Begins
    <3>2. CASE d = "up"
      <4>1. Kind = "tls"
        BY <1>1, <1>2, <2>2, <3>2 DEF Begins
      <4>2. Split(F, G, 0)
        BY <1>3, <1>4, <2>2, <3>2, <4>1 DEF Begins
      <4>3. Once(F, n)
        BY <1>3 DEF PlaceInv
      <4>4. PICK z : z = 0
        OBVIOUS
      <4>5. /\ G["wire1"] = F["wire1"]
            /\ \A s \in Spots : s \notin {"held", "wire1"} => G[s] = F[s]
        BY <4>2, <4>3, <4>4, SplitSizes
      <4> QED
        BY <3>1, <4>5
    <3>3. CASE d # "up"
      BY <1>3, <1>4, <2>2, <3>1, <3>3 DEF Begins, Apart
    <3> QED
      BY <3>2, <3>3
  <2>3. ASSUME NEW f \in Dirs, Enters(f)
        PROVE  \/ m = n /\ \A s \in Spots : s # "held" => G[s] = F[s]
               \/ m = n + 1 /\ Enter(F, G, Start(d), n + 1)
    <3>1. CASE f = d
      <4>1. m = n + 1
        BY <1>3, <1>4, <2>3, <3>1 DEF Enters, Formed, TypeOK, Dirs
      <4> QED
        BY <1>3, <1>4, <2>3, <3>1, <4>1 DEF Enters
    <3>2. CASE f # d
      <4>1. m = n
        BY <1>3, <1>4, <2>3, <3>2 DEF Enters, Formed, TypeOK, Dirs
      <4> QED
        BY <1>3, <1>4, <2>3, <3>2, <4>1 DEF Enters, Apart
    <3> QED
      BY <3>1, <3>2
  <2>4. ASSUME NEW f \in Dirs, NEW p \in Spots, NEW q \in Spots, Advances(f, p, q)
        PROVE  \/ m = n /\ \A s \in Spots : s # "held" => G[s] = F[s]
               \/ m = n /\ <<p, q>> \in Moves(d) /\ Shift(F, G, p, q) /\ (p = "copy1" => a) /\ (p = "copy2" => b)
    <3>1. m = n
      BY <1>3, <1>4, <2>4 DEF Advances
    <3>2. CASE f = d
      BY <1>3, <1>4, <1>5, <2>4, <3>1, <3>2 DEF Advances
    <3>3. CASE f # d
      BY <1>3, <1>4, <2>4, <3>1, <3>3 DEF Advances, Apart
    <3> QED
      BY <3>2, <3>3
  <2>5. ASSUME NEW f \in Dirs, NEW p \in Spots, Loses(f, p)
        PROVE  \/ m = n /\ \A s \in Spots : s # "held" => G[s] = F[s]
               \/ m = n /\ Drop(F, G, "copy1") /\ ~c
               \/ m = n /\ Drop(F, G, "copy2") /\ ~e /\ Hops = 2
    <3>1. m = n
      BY <1>3, <1>4, <2>5 DEF Loses
    <3>2. CASE f = d
      BY <1>2, <1>3, <1>4, <1>5, <2>5, <3>1, <3>2 DEF Loses
    <3>3. CASE f # d
      BY <1>3, <1>4, <2>5, <3>1, <3>3 DEF Loses, Apart
    <3> QED
      BY <3>2, <3>3
  <2>6. Effect
    BY StepEffect
  <2> QED
    BY <2>1, <2>2, <2>3, <2>4, <2>5, <2>6 DEF Effect
<1>8. CASE Hops = 1
  <2>1. PICK st : st = (IF d = "up" THEN "wire0" ELSE "wire1") /\ First(st)
    BY DEF First
  <2>2. Row1(F, n, st, a)
    BY <1>2, <1>3, <1>5, <1>8, <2>1 DEF OrderOf
  <2>3. Start(d) = st
    BY <1>8, <2>1 DEF Start
  <2>4. \A p, q : <<p, q>> \in Moves(d) => (p = st /\ q = "copy1") \/ (p = "copy1" /\ q = "got")
    BY <1>8, <2>3 DEF Moves
  <2>5. RowStep1(F, G, n, m, st, a, c)
    <3>1. CASE \E p \in Spots, q \in Spots : <<p, q>> \in Moves(d) /\ Shift(F, G, p, q) /\ (p = "copy1" => a) /\ m = n
      <4>1. PICK p \in Spots, q \in Spots : <<p, q>> \in Moves(d) /\ Shift(F, G, p, q) /\ (p = "copy1" => a) /\ m = n
        BY <3>1
      <4>2. CASE p = st /\ q = "copy1"
        BY <4>1, <4>2 DEF RowStep1
      <4>3. CASE p = "copy1" /\ q = "got"
        BY <4>1, <4>3 DEF RowStep1
      <4> QED
        BY <2>4, <4>1, <4>2, <4>3
    <3> QED
      BY <1>7, <1>8, <2>3, <3>1 DEF RowStep1
  <2>6. Row1(G, m, st, c)
    BY <1>6, <2>1, <2>2, <2>5, Row1Effect
  <2>7. OrderOf(d)' = Row1(G, m, st, c)
    BY <1>1, <1>4, <1>5, <1>8, <2>1 DEF OrderOf
  <2> QED
    BY <2>6, <2>7
<1>9. CASE Hops = 2 /\ d = "up"
  <2>1. Row2(F, n, "wire0", "copy1", "copy2", a, b) /\ Line("wire0", "copy1", "copy2")
    BY <1>2, <1>3, <1>5, <1>9 DEF OrderOf, Line
  <2>2. Start(d) = "wire0"
    BY <1>9 DEF Start
  <2>3. \A p, q : <<p, q>> \in Moves(d) =>
           \/ p = "wire0" /\ q = "copy1"
           \/ p = "copy1" /\ q = "wire1"
           \/ p = "wire1" /\ q = "copy2"
           \/ p = "copy2" /\ q = "got"
    BY <1>2, <1>9 DEF Moves
  <2>4. RowStep2(F, G, n, m, "wire0", "copy1", "copy2", a, b, c, e)
    <3>1. CASE \E p \in Spots, q \in Spots : <<p, q>> \in Moves(d) /\ Shift(F, G, p, q) /\ (p = "copy1" => a) /\ (p = "copy2" => b) /\ m = n
      BY <2>3, <3>1 DEF RowStep2
    <3> QED
      BY <1>7, <2>2, <3>1 DEF RowStep2
  <2>7. (c => a) /\ (e => b)
    BY <1>6, <1>9
  <2>5. Row2(G, m, "wire0", "copy1", "copy2", c, e)
    BY <2>7, <2>1, <2>4, Row2Effect
  <2>6. OrderOf(d)' = Row2(G, m, "wire0", "copy1", "copy2", c, e)
    BY <1>1, <1>4, <1>5, <1>9 DEF OrderOf
  <2> QED
    BY <2>5, <2>6
<1>10. CASE Hops = 2 /\ d = "down"
  <2>1. Row2(F, n, "wire2", "copy2", "copy1", b, a) /\ Line("wire2", "copy2", "copy1")
    BY <1>2, <1>3, <1>5, <1>10 DEF OrderOf, Line
  <2>2. Start(d) = "wire2"
    BY <1>10 DEF Start
  <2>3. \A p, q : <<p, q>> \in Moves(d) =>
           \/ p = "wire2" /\ q = "copy2"
           \/ p = "copy2" /\ q = "wire1"
           \/ p = "wire1" /\ q = "copy1"
           \/ p = "copy1" /\ q = "got"
    BY <1>10 DEF Moves
  <2>4. RowStep2(F, G, n, m, "wire2", "copy2", "copy1", b, a, e, c)
    <3>1. CASE \E p \in Spots, q \in Spots : <<p, q>> \in Moves(d) /\ Shift(F, G, p, q) /\ (p = "copy1" => a) /\ (p = "copy2" => b) /\ m = n
      BY <2>3, <3>1 DEF RowStep2
    <3> QED
      BY <1>7, <2>2, <3>1 DEF RowStep2
  <2>7. (c => a) /\ (e => b)
    BY <1>6, <1>10
  <2>5. Row2(G, m, "wire2", "copy2", "copy1", e, c)
    BY <2>7, <2>1, <2>4, Row2Effect
  <2>6. OrderOf(d)' = Row2(G, m, "wire2", "copy2", "copy1", e, c)
    BY <1>1, <1>4, <1>5, <1>10 DEF OrderOf
  <2> QED
    BY <2>5, <2>6
<1> QED
  BY <1>1, <1>8, <1>9, <1>10 DEF Dirs

-----------------------------------------------------------------------------
(* Types *)

(* The values of the variables, each by a name, so that the lemmas need    *)
(* not expand them.                                                        *)
States    == {"none", "open", "shut", "closed"}
EndTypes  == [0..2 -> [l : States, r : States]]
WireTypes == [0..2 -> [up : Seq(Chunks), down : Seq(Chunks)]]
HopTypes  == [1..2 -> [pc : {"idle", "setup", "run", "failed", "done"}, held : Seq(Chunks), errs : 0..3, waits : 0..2]]
Works     == [pc : {"off", "read", "write", "end"}, chunk : Chunks]
CopyTypes == [1..2 -> [Copiers -> Works]]
GotTypes  == [up : Seq(Chunks), down : Seq(Chunks)]

(* The type invariant without the counter.                                 *)
Typed ==
    /\ path \in Paths /\ end \in EndTypes /\ wire \in WireTypes /\ hop \in HopTypes
    /\ copy \in CopyTypes /\ got \in GotTypes /\ sent \in [up : 0..MaxUp, down : 0..MaxDown]

(* The type invariant, by these names.                                     *)
LEMMA TypedIs == TypeOK <=> Typed /\ charged \in 0..(MaxUp + MaxDown)
BY DEF TypeOK, Typed, EndTypes, States, WireTypes, HopTypes, CopyTypes, Works, GotTypes

(* The same after a step.                                                  *)
LEMMA TypedWas == TypeOK' <=> Typed' /\ charged' \in 0..(MaxUp + MaxDown)
BY DEF TypeOK, Typed, EndTypes, States, WireTypes, HopTypes, CopyTypes, Works, GotTypes

(* What a step puts into a channel.                                        *)
LEMMA WireSet ==
  ASSUME NEW f \in WireTypes, NEW c \in 0..2, NEW d \in Dirs, NEW s \in Seq(Chunks)
  PROVE  [f EXCEPT ![c][d] = s] \in WireTypes
<1>1. PICK r : r = f[c] /\ r \in [up : Seq(Chunks), down : Seq(Chunks)]
  BY DEF WireTypes
<1>2. [r EXCEPT ![d] = s] \in [up : Seq(Chunks), down : Seq(Chunks)]
  BY <1>1 DEF Dirs
<1>3. [f EXCEPT ![c] = [r EXCEPT ![d] = s]] \in WireTypes
  BY <1>2 DEF WireTypes
<1> QED
  BY <1>1, <1>3

(* What a copy becomes.                                                    *)
LEMMA CopySet ==
  ASSUME NEW f \in CopyTypes, NEW h \in 1..2, NEW k \in Copiers, NEW x \in Works
  PROVE  [f EXCEPT ![h][k] = x] \in CopyTypes
BY DEF CopyTypes

(* What a connection becomes.                                              *)
LEMMA EndSet ==
  ASSUME NEW f \in EndTypes, NEW c \in 0..2, NEW x \in States
  PROVE  [f EXCEPT ![c].l = x] \in EndTypes /\ [f EXCEPT ![c].r = x] \in EndTypes
BY DEF EndTypes

(* Closing keeps the types.                                                *)
LEMMA CloseTyped ==
  ASSUME end \in EndTypes, NEW h \in 1..2, CloseEnds(h)
  PROVE  end' \in EndTypes
<1>1. PICK g \in 0..2, b \in 0..2 : g = h - 1 /\ b = h
  OBVIOUS
<1>2. /\ \A c \in 0..2 : Shut(end[c].l) \in States /\ Shut(end[c].r) \in States
      /\ end' = [[end EXCEPT ![g].r = Shut(end[g].r)] EXCEPT ![b].l = Shut(end[b].l)]
  BY <1>1 DEF EndTypes, States, Shut, CloseEnds
<1>3. PICK f \in EndTypes : f = [end EXCEPT ![g].r = Shut(end[g].r)]
  BY <1>2, EndSet
<1> QED
  BY <1>2, <1>3, EndSet

(* A connection that is made.                                              *)
LEMMA OpenTyped ==
  ASSUME end \in EndTypes, NEW h \in 1..2
  PROVE  [end EXCEPT ![h] = [l |-> "open", r |-> "open"]] \in EndTypes
BY DEF EndTypes, States

(* The copies of a hop that starts.                                        *)
LEMMA RunningTyped ==
  ASSUME copy \in CopyTypes, NEW h \in 1..2
  PROVE  /\ [copy EXCEPT ![h] = Running(h)] \in CopyTypes
         /\ \A k \in Copiers : Running(h)[k].pc = (IF k = "drain" /\ ~(Kind = "tcp" /\ Role(h) = "relay") THEN "off" ELSE "read")
<1>1. Header \in Chunks
  BY RelayAssumption DEF Header, Chunks
<1>2. Running(h) \in [Copiers -> Works]
  BY <1>1 DEF Running, Works
<1> QED
  BY <1>2 DEF CopyTypes, Running

(* Fields of one hop change.                                               *)
LEMMA HopSet ==
  ASSUME NEW f \in HopTypes, NEW h \in 1..2
  PROVE  /\ \A x \in {"idle", "setup", "run", "failed", "done"} : [f EXCEPT ![h].pc = x] \in HopTypes
         /\ \A w \in 0..2 : [f EXCEPT ![h].waits = w] \in HopTypes
         /\ \A n \in 0..3 : [f EXCEPT ![h].errs = n] \in HopTypes
         /\ \A s \in Seq(Chunks) : [f EXCEPT ![h].held = s] \in HopTypes
BY DEF HopTypes

(* At most both copies have ended.                                         *)
LEMMA FewErrors ==
  ASSUME Formed, NEW h \in 1..2
  PROVE  hop[h].errs \in 0..2
<1>1. hop[h].errs \in 0..3 /\ HopShape(h)
  BY DEF Formed, Shape, TypeOK
<1> QED
  BY <1>1 DEF HopShape

(* A part of a sequence, however short.                                    *)
LEMMA SubTyped ==
  ASSUME NEW S, NEW s \in Seq(S), NEW a \in Nat \ {0}, NEW b \in Int, b <= Len(s)
  PROVE  SubSeq(s, a, b) \in Seq(S)
<1>1. \A i \in a..b : i \in 1..Len(s)
  OBVIOUS
<1>2. \A i \in a..b : s[i] \in S
  BY <1>1, ElementOfSeq
<1> QED
  BY <1>2, SubSeqProperties

(* Where a copy reads and writes.                                          *)
LEMMA Places ==
  ASSUME NEW h \in 1..2, NEW k \in Copiers
  PROVE  In(h, k) \in 0..2 /\ Out(h, k) \in 0..2 /\ Way(k) \in Dirs
BY DEF In, Out, Way, Dirs

(* A step of a copy keeps the types.                                       *)
LEMMA CopyTyped ==
  ASSUME Formed, NEW h \in 1..Hops, NEW k \in Copiers, Copy(h, k)
  PROVE  Typed'
<1>1. TypeOK /\ Typed /\ h \in 1..2 /\ "drain" \in Copiers
  BY PathFacts, TypedIs DEF Formed, Copiers
<1>2. PICK c \in 0..2, b \in 0..2, d \in Dirs : c = In(h, k) /\ b = Out(h, k) /\ d = Way(k)
  BY <1>1, Places
<1>3. wire[c][d] \in Seq(Chunks) /\ wire[b][d] \in Seq(Chunks) /\ got[d] \in Seq(Chunks) /\ copy[h][k].chunk \in Chunks /\ hop[h].held \in Seq(Chunks)
  BY <1>1, SMTT(60) DEF TypeOK, Dirs
<1>4. CASE Read(h, k)
  <2>1. /\ wire[c][d] # <<>> /\ copy' = [copy EXCEPT ![h][k] = [pc |-> "write", chunk |-> Head(wire[c][d])]]
        /\ wire' = [wire EXCEPT ![c][d] = Tail(@)]
        /\ path' = path /\ end' = end /\ hop' = hop /\ sent' = sent /\ got' = got
    BY <1>2, <1>4 DEF Read
  <2>2. PICK s \in Seq(Chunks), y \in Chunks : s = Tail(wire[c][d]) /\ y = Head(wire[c][d])
    BY <1>3, <2>1, TailFacts
  <2>3. wire' = [wire EXCEPT ![c][d] = s]
    BY <1>1, <2>1, <2>2 DEF TypeOK, Dirs
  <2>4. wire' \in WireTypes
    BY <1>1, <2>3, WireSet DEF Typed
  <2>5. PICK x \in Works : x = [pc |-> "write", chunk |-> y]
    BY DEF Works
  <2>6. copy' \in CopyTypes
    BY <1>1, <2>1, <2>2, <2>5, CopySet DEF Typed
  <2> QED
    BY <1>1, <2>1, <2>4, <2>6 DEF Typed
<1>5. CASE ReadEnds(h, k) \/ WriteFails(h, k)
  <2>1. /\ copy' = [copy EXCEPT ![h][k].pc = "end"]
        /\ hop' = IF k = "drain" THEN hop ELSE [hop EXCEPT ![h].errs = @ + 1]
        /\ path' = path /\ end' = end /\ wire' = wire /\ sent' = sent /\ got' = got
    BY <1>5 DEF ReadEnds, WriteFails, EndCopy
  <2>2. copy' \in CopyTypes
    BY <1>1, <2>1 DEF Typed, CopyTypes, Works
  <2>3. hop' \in HopTypes
    <3>1. PICK n \in 0..3 : n = hop[h].errs + 1
      BY <1>1, FewErrors
    <3>3. [hop EXCEPT ![h].errs = @ + 1] = [hop EXCEPT ![h].errs = n]
      BY <3>1
    <3>2. hop' = hop \/ hop' = [hop EXCEPT ![h].errs = n]
      BY <2>1, <3>3
    <3>4. [hop EXCEPT ![h].errs = n] \in HopTypes
      BY <1>1, <3>1, HopSet DEF Typed
    <3>5. hop \in HopTypes
      BY <1>1 DEF Typed
    <3> QED
      BY <3>2, <3>4, <3>5, Zenon
  <2> QED
    BY <1>1, <2>1, <2>2, <2>3 DEF Typed
<1>6. CASE Write(h, k)
  <2>1. /\ copy' = [copy EXCEPT ![h][k].pc = "read"] /\ path' = path /\ end' = end /\ hop' = hop /\ sent' = sent
        /\ \/ wire' = wire /\ got' = got
           \/ wire' = wire /\ got' = [got EXCEPT ![d] = Append(@, copy[h][k].chunk)]
           \/ got' = got /\ wire' = [wire EXCEPT ![b][d] = Append(@, copy[h][k].chunk)]
    BY <1>2, <1>6 DEF Write
  <2>2. copy' \in CopyTypes
    BY <1>1, <2>1 DEF Typed, CopyTypes, Works
  <2>3. PICK s \in Seq(Chunks), t \in Seq(Chunks) : s = Append(wire[b][d], copy[h][k].chunk) /\ t = Append(got[d], copy[h][k].chunk)
    BY <1>3, AppendFacts
  <2>4. \/ wire' = wire /\ got' = got
        \/ wire' = wire /\ got' = [got EXCEPT ![d] = t]
        \/ got' = got /\ wire' = [wire EXCEPT ![b][d] = s]
    BY <1>1, <2>1, <2>3 DEF TypeOK, Dirs
  <2>5. [got EXCEPT ![d] = t] \in GotTypes
    BY <1>1 DEF Typed, GotTypes, Dirs
  <2>6. wire' \in WireTypes /\ got' \in GotTypes
    BY <1>1, <2>4, <2>5, WireSet, SMTT(60) DEF Typed
  <2> QED
    BY <1>1, <2>1, <2>2, <2>6 DEF Typed
<1>7. CASE TakeHeld(h)
  <2>1. /\ copy' = [copy EXCEPT ![h]["drain"] = [pc |-> "write", chunk |-> Head(hop[h].held)]]
        /\ hop' = [hop EXCEPT ![h].held = Tail(@)] /\ hop[h].held # <<>>
        /\ path' = path /\ end' = end /\ wire' = wire /\ sent' = sent /\ got' = got
    BY <1>7 DEF TakeHeld
  <2>2. PICK s \in Seq(Chunks), y \in Chunks : s = Tail(hop[h].held) /\ y = Head(hop[h].held)
    BY <1>3, <2>1, TailFacts
  <2>3. hop' = [hop EXCEPT ![h].held = s]
    BY <1>1, <2>1, <2>2 DEF TypeOK
  <2>4. PICK x \in Works : x = [pc |-> "write", chunk |-> y]
    BY DEF Works
  <2>5. copy' \in CopyTypes
    BY <1>1, <2>1, <2>2, <2>4, CopySet DEF Typed
  <2>6. hop' \in HopTypes
    BY <1>1, <2>3, HopSet DEF Typed
  <2> QED
    BY <1>1, <2>1, <2>5, <2>6 DEF Typed
<1> QED
  BY <1>4, <1>5, <1>6, <1>7 DEF Copy

(* So does a step of a handler or a peer.                                  *)
LEMMA OtherTyped ==
  ASSUME Formed, NEW h \in 1..Hops, NEW d \in Dirs,
         \/ Setup(h) \/ Collect(h) \/ WaiterTakes(h) \/ WaiterTimesOut(h) \/ Finish(h)
         \/ Send(d) \/ Leave(d)
  PROVE  Typed'
<1>1. TypeOK /\ Typed /\ h \in 1..2 /\ Hops \in {1, 2} /\ 1 \in 1..2 /\ 2 \in 1..2
  BY PathFacts, TypedIs DEF Formed
<1>2. \A g \in 1..2 : WaitsFor(g) \in 0..2
  BY DEF WaitsFor
<1>3. CASE Establish(h)
  <2>1. /\ path' = path /\ sent' = sent /\ got' = got
        /\ end' = [end EXCEPT ![1] = [l |-> "open", r |-> "open"]]
        /\ wire' = wire \/ wire' = [wire EXCEPT ![1].up = <<Header>>]
        /\ hop' = [[hop EXCEPT ![1].pc = "run", ![1].waits = WaitsFor(1)] EXCEPT ![2].pc = IF Hops = 2 THEN "setup" ELSE @]
        /\ copy' = [copy EXCEPT ![1] = Running(1)]
    BY <1>3 DEF Establish
  <2>2. end' \in EndTypes /\ copy' \in CopyTypes
    BY <1>1, <2>1, OpenTyped, RunningTyped DEF Typed
  <2>3. wire' \in WireTypes
    <3>1. Header \in Chunks
      BY RelayAssumption DEF Header, Chunks
    <3>2. PICK s \in Seq(Chunks) : s = <<Header>>
      BY <3>1, OneItem, Zenon
    <3>3. wire' = wire \/ wire' = [wire EXCEPT ![1]["up"] = s]
      BY <2>1, <3>2
    <3> QED
      BY <1>1, <3>3, WireSet DEF Typed, Dirs
  <2>4. hop' \in HopTypes
    <3>1. PICK w \in 0..2 : w = WaitsFor(1)
      BY <1>1, <1>2
    <3>2. PICK f \in HopTypes : f = [hop EXCEPT ![1].pc = "run"]
      BY <1>1, HopSet DEF Typed
    <3>3. PICK g \in HopTypes : g = [f EXCEPT ![1].waits = w]
      BY <1>1, <3>2, HopSet
    <3>4. PICK x \in {"idle", "setup", "run", "failed", "done"} : x = IF Hops = 2 THEN "setup" ELSE g[2].pc
      BY <1>1, <3>3 DEF HopTypes
    <3>5. g = [hop EXCEPT ![1].pc = "run", ![1].waits = WaitsFor(1)]
      BY <1>1, <3>1, <3>2, <3>3 DEF Typed, HopTypes
    <3>6. hop' = [g EXCEPT ![2].pc = x]
      BY <2>1, <3>4, <3>5
    <3> QED
      BY <1>1, <3>6, HopSet
  <2> QED
    BY <1>1, <2>1, <2>2, <2>3, <2>4 DEF Typed
<1>4. CASE EstabFromHeader(h)
  <2>1. wire[1].up \in Seq(Chunks) /\ wire[1].up # <<>>
    BY <1>1, <1>4 DEF TypeOK, EstabFromHeader
  <2>2. PICK n \in Nat : n = Len(wire[1].up) /\ n >= 1
    BY <2>1, TailFacts
  <2>3. PICK m \in 0..(n - 1) :
          /\ hop' = [hop EXCEPT ![2] = [@ EXCEPT !.pc = "run", !.waits = WaitsFor(2), !.held = SubSeq(wire[1].up, 2, m + 1)]]
          /\ wire' = [wire EXCEPT ![1].up = SubSeq(@, m + 2, Len(@))]
    <3>1. PICK m \in 0..(IF Kind = "tcp" THEN Len(wire[1].up) - 1 ELSE 0) :
          /\ hop' = [hop EXCEPT ![2] = [@ EXCEPT !.pc = "run", !.waits = WaitsFor(2), !.held = SubSeq(wire[1].up, 2, m + 1)]]
          /\ wire' = [wire EXCEPT ![1].up = SubSeq(@, m + 2, Len(@))]
      BY <1>4 DEF EstabFromHeader
    <3>2. m \in 0..(n - 1)
      BY <2>2, <3>1
    <3> QED
      BY <3>1, <3>2
  <2>4. PICK s \in Seq(Chunks), t \in Seq(Chunks) : s = SubSeq(wire[1].up, 2, m + 1) /\ t = SubSeq(wire[1].up, m + 2, Len(wire[1].up))
    <3>1. 2 \in Nat \ {0} /\ m + 2 \in Nat \ {0} /\ m + 1 \in Int /\ n \in Int /\ m + 1 <= n
      BY <2>2, <2>3
    <3>2. SubSeq(wire[1].up, 2, m + 1) \in Seq(Chunks)
      BY <2>1, <2>2, <3>1, SubTyped
    <3>3. SubSeq(wire[1].up, m + 2, n) \in Seq(Chunks)
      BY <2>1, <2>2, <3>1, SubTyped
    <3> QED
      BY <2>2, <3>2, <3>3, Zenon
  <2>5. wire' \in WireTypes
    <3>1. wire' = [wire EXCEPT ![1]["up"] = t]
      <4>1. [wire EXCEPT ![1].up = SubSeq(@, m + 2, Len(@))] = [wire EXCEPT ![1]["up"] = t]
        BY <2>4
      <4> QED
        BY <2>3, <4>1
    <3>2. PICK c \in 0..2, e \in Dirs : c = 1 /\ e = "up"
      BY DEF Dirs
    <3>3. wire' = [wire EXCEPT ![c][e] = t]
      BY <3>1, <3>2
    <3> QED
      BY <1>1, <3>3, WireSet DEF Typed
  <2>6. hop' \in HopTypes
    <3>1. PICK w \in 0..2 : w = WaitsFor(2)
      BY <1>1, <1>2
    <3>2. PICK r : r = hop[2] /\ r \in [pc : {"idle", "setup", "run", "failed", "done"}, held : Seq(Chunks), errs : 0..3, waits : 0..2]
      BY <1>1 DEF Typed, HopTypes
    <3>5. PICK q : q = [r EXCEPT !.pc = "run", !.waits = w, !.held = s]
      OBVIOUS
    <3>3. q \in [pc : {"idle", "setup", "run", "failed", "done"}, held : Seq(Chunks), errs : 0..3, waits : 0..2]
      BY <3>2, <3>5
    <3>4. hop' = [hop EXCEPT ![2] = q]
      BY <2>3, <2>4, <3>1, <3>2, <3>5, Zenon
    <3> QED
      BY <1>1, <3>3, <3>4 DEF Typed, HopTypes
  <2>7. end' \in EndTypes /\ copy' \in CopyTypes /\ path' = path /\ sent' = sent /\ got' = got
    BY <1>1, <1>4, OpenTyped, RunningTyped DEF EstabFromHeader, Typed
  <2> QED
    BY <1>1, <2>5, <2>6, <2>7 DEF Typed
<1>5. CASE SetupFails(h) \/ Collect(h) \/ Finish(h)
  <2>1. PICK x \in {"idle", "setup", "run", "failed", "done"} : hop' = [hop EXCEPT ![h].pc = x]
    BY <1>5 DEF SetupFails, Collect, Finish
  <2>2. hop' \in HopTypes
    BY <1>1, <2>1, HopSet DEF Typed
  <2>3. end' \in EndTypes
    BY <1>1, <1>5, CloseTyped DEF SetupFails, Collect, Finish, Typed
  <2> QED
    BY <1>1, <1>5, <2>2, <2>3 DEF SetupFails, Collect, Finish, Typed
<1>6. CASE WaiterTakes(h) \/ WaiterTimesOut(h)
  <2>1. hop[h].waits \in 0..2 /\ hop[h].errs \in 0..3
    BY <1>1 DEF TypeOK
  <2>2. PICK w \in 0..2 : w = hop[h].waits - 1
    BY <1>6, <2>1 DEF WaiterTakes, WaiterTimesOut
  <2>3. PICK f \in HopTypes : f = [hop EXCEPT ![h].waits = w]
    BY <1>1, <2>1, HopSet DEF Typed
  <2>4. hop' \in HopTypes
    <3>1. CASE WaiterTakes(h)
      <4>1. PICK e \in 0..3 : e = hop[h].errs - 1
        BY <2>1, <3>1 DEF WaiterTakes
      <4>2. hop' = [hop EXCEPT ![h].waits = @ - 1, ![h].errs = @ - 1]
        BY <3>1 DEF WaiterTakes
      <4>3. hop' = [f EXCEPT ![h].errs = e]
        BY <1>1, <2>2, <2>3, <4>1, <4>2 DEF Typed, HopTypes
      <4> QED
        BY <1>1, <4>3, HopSet
    <3>2. CASE WaiterTimesOut(h)
      <4>1. hop' = f
        BY <1>1, <2>2, <2>3, <3>2 DEF WaiterTimesOut, Typed, HopTypes
      <4> QED
        BY <4>1
    <3> QED
      BY <1>6, <3>1, <3>2
  <2> QED
    BY <1>1, <1>6, <2>4 DEF WaiterTakes, WaiterTimesOut, Typed
<1>7. CASE Send(d)
  <2>1. PICK c \in 0..2 : c = Peer(d).chan
    BY <1>1 DEF Peer
  <2>2. /\ wire' = [wire EXCEPT ![c][d] = Append(@, sent[d] + 1)] /\ sent' = [sent EXCEPT ![d] = @ + 1]
        /\ sent[d] < Limit[d] /\ path' = path /\ end' = end /\ hop' = hop /\ copy' = copy /\ got' = got
    BY <1>7, <2>1 DEF Send
  <2>3. MaxUp \in Nat /\ MaxDown \in Nat
    BY RelayAssumption
  <2>4. sent[d] + 1 \in Chunks /\ sent' \in [up : 0..MaxUp, down : 0..MaxDown]
    <3>1. CASE d = "up"
      <4>1. sent.up \in 0..MaxUp /\ sent.up < MaxUp
        BY <1>1, <2>2, <3>1 DEF TypeOK, Limit
      <4>2. PICK n \in 0..MaxUp : n = sent.up + 1
        BY <2>3, <4>1
      <4>3. sent' = [sent EXCEPT !["up"] = n]
        BY <2>2, <3>1, <4>2
      <4>4. sent[d] + 1 \in Chunks
        BY <2>3, <3>1, <4>1, <4>2 DEF Chunks
      <4>5. sent \in [up : 0..MaxUp, down : 0..MaxDown]
        BY <1>1 DEF TypeOK
      <4> QED
        BY <4>2, <4>3, <4>4, <4>5
    <3>2. CASE d = "down"
      <4>1. sent.down \in 0..MaxDown /\ sent.down < MaxDown
        BY <1>1, <2>2, <3>2 DEF TypeOK, Limit
      <4>2. PICK n \in 0..MaxDown : n = sent.down + 1
        BY <2>3, <4>1
      <4>3. sent' = [sent EXCEPT !["down"] = n]
        BY <2>2, <3>2, <4>2
      <4>4. sent[d] + 1 \in Chunks
        BY <2>3, <3>2, <4>1, <4>2 DEF Chunks
      <4>5. sent \in [up : 0..MaxUp, down : 0..MaxDown]
        BY <1>1 DEF TypeOK
      <4> QED
        BY <4>2, <4>3, <4>4, <4>5
    <3> QED
      BY <3>1, <3>2 DEF Dirs
  <2>5. wire[c][d] \in Seq(Chunks)
    BY <1>1 DEF TypeOK, Dirs
  <2>6. PICK s \in Seq(Chunks) : s = Append(wire[c][d], sent[d] + 1)
    BY <2>4, <2>5, AppendFacts
  <2>7. wire' = [wire EXCEPT ![c][d] = s]
    BY <1>1, <2>2, <2>6 DEF TypeOK, Dirs
  <2>8. wire' \in WireTypes
    BY <1>1, <2>7, WireSet DEF Typed
  <2> QED
    BY <1>1, <2>2, <2>4, <2>8 DEF Typed
<1>8. CASE Leave(d)
  <2>1. PICK x \in States : end' = [end EXCEPT ![Peer(d).chan][Peer(d).side] = x]
    BY <1>8 DEF Leave, States
  <2>2. end' \in EndTypes
    <3>1. CASE d = "up"
      <4>0. PICK c \in 0..2 : c = 0
        OBVIOUS
      <4>1. end' = [end EXCEPT ![c].l = x]
        BY <2>1, <3>1, <4>0 DEF Peer
      <4> QED
        BY <1>1, <4>1, EndSet DEF Typed
    <3>2. CASE d # "up"
      <4>1. PICK c \in 0..2 : c = Hops
        BY <1>1
      <4>2. end' = [end EXCEPT ![c].r = x]
        BY <2>1, <3>2, <4>1 DEF Peer
      <4> QED
        BY <1>1, <4>2, EndSet DEF Typed
    <3> QED
      BY <3>1, <3>2
  <2> QED
    BY <1>1, <1>8, <2>2 DEF Leave, Typed
<1> QED
  BY <1>3, <1>4, <1>5, <1>6, <1>7, <1>8 DEF Setup

(* The ends of a hop's copies, each of which sent an error.                *)
Errs(h) == (IF copy[h]["up"].pc = "end" THEN 1 ELSE 0) + (IF copy[h]["down"].pc = "end" THEN 1 ELSE 0)

(* A hop whose copies come and go as they were keeps its shape.            *)
LEMMA HopShapeKept ==
  ASSUME NEW h \in 1..2, HopShape(h), path' = path,
         hop'[h].pc \in {"idle", "setup"} => hop[h].pc \in {"idle", "setup"} /\ end'[h] = end[h],
         \A k \in Copiers : copy'[h][k].pc = "off" <=> copy[h][k].pc = "off",
         copy[h]["drain"].pc = "off" => hop'[h].held = hop[h].held,
         hop'[h].errs <= Errs(h)'
  PROVE  HopShape(h)'
<1>1. "up" \in Copiers /\ "drain" \in Copiers
  BY DEF Copiers
<1>2. HopShape(h)!1'
  BY DEF HopShape, NoEnds
<1>3. HopShape(h)!2'
  BY <1>1 DEF HopShape
<1>4. HopShape(h)!3'
  BY <1>1 DEF HopShape, Hops, Kind
<1>5. HopShape(h)!4'
  BY <1>1 DEF HopShape
<1> QED
  BY <1>2, <1>3, <1>4, <1>5 DEF HopShape, Errs

(* The rest of the shape, when the handlers stay where they are.           *)
LEMMA RestKept ==
  ASSUME Shape, path' = path, \A h \in 1..2 : hop'[h].pc = hop[h].pc, HeaderIn' = HeaderIn,
         hop[1].pc = "setup" => wire'[1].up = wire[1].up,
         HeaderIn => wire'[1].up # <<>> /\ Head(wire'[1].up) = Head(wire[1].up),
         \A h \in 1..2 : HopShape(h)'
  PROVE  Shape'
<1>1. hop'[1].pc = hop[1].pc /\ hop'[2].pc = hop[2].pc
  OBVIOUS
<1>2. Hops' = Hops
  BY DEF Hops
<1>3. hop'[1].pc # "idle" /\ (Hops' = 1 => hop'[2].pc = "idle")
  BY <1>1, <1>2 DEF Shape
<1>4. hop'[1].pc = "setup" => hop'[2].pc = "idle" /\ wire'[1].up = <<>>
  BY <1>1 DEF Shape
<1>5. HeaderIn' => wire'[1].up # <<>> /\ Head(wire'[1].up) = Header
  BY DEF Shape
<1> QED
  BY <1>3, <1>4, <1>5 DEF Shape

(* The errors counted are those of copies that ended.                      *)
LEMMA ErrsAre ==
  ASSUME Formed, NEW h \in 1..2
  PROVE  hop[h].errs \in Nat /\ hop[h].errs <= Errs(h) /\ Errs(h) \in Nat
<1>1. hop[h].errs \in 0..3 /\ HopShape(h)
  BY DEF Formed, Shape, TypeOK
<1> QED
  BY <1>1 DEF HopShape, Errs

(* A step of a copy keeps the shape.                                       *)
LEMMA CopyShape ==
  ASSUME Formed, NEW h \in 1..Hops, NEW k \in Copiers, Copy(h, k)
  PROVE  Shape'
<1>1. TypeOK /\ Typed /\ Shape /\ h \in 1..2 /\ "up" \in Copiers /\ "down" \in Copiers /\ "drain" \in Copiers
  BY PathFacts, TypedIs DEF Formed, Copiers
<1>2. copy[h][k].pc # "off"
  BY <1>1 DEF Copy, Read, ReadEnds, Reading, Write, WriteFails, TakeHeld
<1>3. (h = 2 => ~HeaderIn) /\ hop[h].pc \notin {"idle", "setup"} /\ hop[1].pc # "setup"
  <2>1. (h = 2 => ~HeaderIn) /\ hop[h].pc \notin {"idle", "setup"}
    BY <1>2, AtWork
  <2>2. h = 1 \/ h = 2
    BY <1>1
  <2> QED
    BY <1>1, <2>1, <2>2 DEF Shape
<1>4. path' = path /\ end' = end /\ \A g \in 1..2 : hop'[g].pc = hop[g].pc
  <2>1. path' = path /\ end' = end
    BY DEF Copy, Read, ReadEnds, Write, WriteFails, TakeHeld, EndCopy
  <2>2. CASE hop' = hop
    BY <2>1, <2>2
  <2>3. CASE hop' = [hop EXCEPT ![h].errs = @ + 1]
    BY <1>1, <2>1, <2>3 DEF Typed, HopTypes
  <2>4. CASE hop' = [hop EXCEPT ![h].held = Tail(@)]
    BY <1>1, <2>1, <2>4 DEF Typed, HopTypes
  <2>5. hop' = hop \/ hop' = [hop EXCEPT ![h].errs = @ + 1] \/ hop' = [hop EXCEPT ![h].held = Tail(@)]
    BY DEF Copy, Read, ReadEnds, Write, WriteFails, TakeHeld, EndCopy
  <2> QED
    BY <2>2, <2>3, <2>4, <2>5
<1>5. SUFFICES /\ HeaderIn' = HeaderIn
               /\ HeaderIn => wire'[1].up # <<>> /\ Head(wire'[1].up) = Head(wire[1].up)
               /\ \A g \in 1..2, j \in Copiers : copy'[g][j].pc = "off" <=> copy[g][j].pc = "off"
               /\ \A g \in 1..2 : copy[g]["drain"].pc = "off" => hop'[g].held = hop[g].held
               /\ \A g \in 1..2 : hop'[g].errs <= Errs(g)'
  <2>1. \A g \in 1..2 : HopShape(g)
    BY <1>1 DEF Shape
  <2>2. \A g \in 1..2 : HopShape(g)'
    BY <1>4, <1>5, <2>1, HopShapeKept
  <2> QED
    BY <1>1, <1>3, <1>4, <1>5, <2>2, RestKept
<1>6. CASE Read(h, k)
  <2>1. copy[h][k].pc = "read" /\ hop' = hop
    BY <1>6 DEF Read, Reading
  <2>2. \A g \in 1..2, j \in Copiers : copy'[g][j].pc = IF g = h /\ j = k THEN "write" ELSE copy[g][j].pc
    BY <1>1, <1>6 DEF Read, Typed, CopyTypes
  <2>3. \A g \in 1..2 : hop'[g].errs <= Errs(g)'
    BY <1>1, <2>1, <2>2, ErrsAre DEF Errs
  <2>4. HeaderIn' = HeaderIn /\ (HeaderIn => wire'[1].up = wire[1].up)
    <3>1. HeaderIn' = HeaderIn /\ wire'[1].up = (IF In(h, k) = 1 /\ Way(k) = "up" THEN Tail(wire[1].up) ELSE wire[1].up)
      BY <1>6, ReadEffect
    <3>2. In(h, k) = 1 /\ Way(k) = "up" => h = 2
      BY <1>1 DEF In
    <3> QED
      BY <1>3, <3>1, <3>2
  <2> QED
    BY <1>1, <2>1, <2>2, <2>3, <2>4 DEF Shape
<1>7. CASE Write(h, k)
  <2>1. copy[h][k].pc = "write" /\ hop' = hop /\ copy' = SetPc(h, k, "read")
    BY <1>7 DEF Write, SetPc
  <2>2. \A g \in 1..2, j \in Copiers : copy'[g][j] = IF g = h /\ j = k THEN [pc |-> "read", chunk |-> copy[h][k].chunk] ELSE copy[g][j]
    BY <1>1, <2>1, CopyPcSet
  <2>3. \A g \in 1..2 : hop'[g].errs <= Errs(g)'
    BY <1>1, <2>1, <2>2, ErrsAre DEF Errs
  <2>4. HeaderIn' = HeaderIn /\ (wire[1].up # <<>> => wire'[1].up # <<>> /\ Head(wire'[1].up) = Head(wire[1].up))
    BY <1>7, WriteEffect
  <2> QED
    BY <1>1, <2>1, <2>2, <2>3, <2>4 DEF Shape
<1>8. CASE ReadEnds(h, k) \/ WriteFails(h, k)
  <2>1. copy[h][k].pc \in {"read", "write"} /\ EndCopy(h, k)
    BY <1>8 DEF ReadEnds, WriteFails, Reading
  <2>2. copy' = SetPc(h, k, "end") /\ wire' = wire
    BY <2>1 DEF EndCopy, SetPc
  <2>3. \A g \in 1..2, j \in Copiers : copy'[g][j] = IF g = h /\ j = k THEN [pc |-> "end", chunk |-> copy[h][k].chunk] ELSE copy[g][j]
    BY <1>1, <2>2, CopyPcSet
  <2>4. HeaderIn' = HeaderIn
    BY <2>1, EndEffect
  <2>5. \A g \in 1..2 : hop'[g].held = hop[g].held /\ hop'[g].errs = (IF g = h /\ k # "drain" THEN hop[g].errs + 1 ELSE hop[g].errs)
    BY <1>1, <2>1 DEF EndCopy, Typed, HopTypes
  <2>6. ASSUME NEW g \in 1..2 PROVE hop'[g].errs <= Errs(g)'
    <3>1. hop[g].errs \in Nat /\ hop[g].errs <= Errs(g)
      BY <1>1, ErrsAre
    <3>2. CASE g = h /\ k = "up"
      BY <1>1, <2>1, <2>3, <2>5, <3>1, <3>2 DEF Errs
    <3>3. CASE g = h /\ k = "down"
      BY <1>1, <2>1, <2>3, <2>5, <3>1, <3>3 DEF Errs
    <3>4. CASE g # h \/ k = "drain"
      BY <1>1, <2>3, <2>5, <3>1, <3>4 DEF Errs
    <3> QED
      BY <3>2, <3>3, <3>4 DEF Copiers
  <2> QED
    BY <1>1, <2>1, <2>2, <2>3, <2>4, <2>5, <2>6 DEF Shape
<1>9. CASE k = "drain" /\ TakeHeld(h)
  <2>1. copy[h]["drain"].pc = "read" /\ wire' = wire
    BY <1>9 DEF TakeHeld, Reading
  <2>2. \A g \in 1..2, j \in Copiers : copy'[g][j].pc = IF g = h /\ j = "drain" THEN "write" ELSE copy[g][j].pc
    BY <1>1, <1>9 DEF TakeHeld, Typed, CopyTypes
  <2>3. \A g \in 1..2 : hop'[g].errs = hop[g].errs /\ (g # h => hop'[g].held = hop[g].held)
    BY <1>1, <1>9 DEF TakeHeld, Typed, HopTypes
  <2>4. \A g \in 1..2 : hop'[g].errs <= Errs(g)'
    BY <1>1, <2>2, <2>3, ErrsAre DEF Errs
  <2>5. HeaderIn' = HeaderIn
    BY <1>9, TakeHeldEffect
  <2> QED
    BY <1>1, <2>1, <2>2, <2>3, <2>4, <2>5 DEF Shape
<1> QED
  BY <1>6, <1>7, <1>8, <1>9 DEF Copy

(* A handler is over.                                                      *)
HopEnds(h) == \E x \in {"done", "failed"} : hop' = [hop EXCEPT ![h].pc = x]

(* An unfinished handler's other connection is closed by no other.         *)
LEMMA CloseShape ==
  ASSUME Formed, NEW h \in 1..Hops, hop[h].pc # "idle", CloseEnds(h) \/ end' = end,
         path' = path, wire' = wire, copy' = copy, HopEnds(h)
  PROVE  Shape'
<1>1. TypeOK /\ Typed /\ Shape /\ h \in 1..2
  BY PathFacts, TypedIs DEF Formed
<1>0. PICK x \in {"done", "failed"} : hop' = [hop EXCEPT ![h].pc = x]
  BY DEF HopEnds
<1>2. \A g \in 1..2 : /\ hop'[g].held = hop[g].held /\ hop'[g].errs = hop[g].errs
                      /\ hop'[g].pc = IF g = h THEN x ELSE hop[g].pc
  BY <1>0, <1>1 DEF Typed, HopTypes
<1>3. end' \in EndTypes
  BY <1>1, CloseTyped DEF Typed
<1>4. \A c \in 0..2 : /\ c # h => end'[c].l = end[c].l
                      /\ c # h - 1 => end'[c].r = end[c].r
  BY <1>1, CloseEnded
<1>5. ASSUME NEW g \in 1..2, hop'[g].pc \in {"idle", "setup"} PROVE hop[g].pc \in {"idle", "setup"} /\ end'[g] = end[g]
  <2>1. g # h /\ hop[g].pc \in {"idle", "setup"}
    BY <1>2, <1>5
  <2>2. g # h - 1
    <3>1. SUFFICES ASSUME g = h - 1 PROVE FALSE
      OBVIOUS
    <3>2. g = 1 /\ h = 2
      BY <1>1, <3>1
    <3>3. hop[1].pc = "setup" \/ hop[1].pc = "idle"
      BY <2>1, <3>2
    <3> QED
      BY <1>1, <3>2, <3>3 DEF Shape
  <2>3. PICK c \in 0..2 : c = g
    OBVIOUS
  <2>4. end'[c].l = end[c].l /\ end'[c].r = end[c].r
    BY <1>4, <2>1, <2>2, <2>3
  <2>5. end'[c] = end[c]
    BY <1>1, <1>3, <2>4 DEF Typed, EndTypes
  <2> QED
    BY <2>1, <2>3, <2>5
<1>6. \A g \in 1..2 : HopShape(g)'
  <2>1. \A g \in 1..2 : HopShape(g) /\ hop'[g].errs <= Errs(g)'
    BY <1>1, <1>2, ErrsAre DEF Shape, Errs
  <2> QED
    BY <1>2, <1>5, <2>1, HopShapeKept
<1>7. HeaderIn' = HeaderIn
  BY <1>1, <1>2 DEF HeaderIn
<1>8. hop'[1].pc # "idle" /\ (Hops' = 1 => hop'[2].pc = "idle")
  <2>1. Hops' = Hops /\ (h = 2 => Hops = 2) /\ (Hops = 1 \/ Hops = 2)
    BY <1>1, PathFacts DEF Hops
  <2>2. hop'[1].pc = hop[1].pc \/ hop'[1].pc = x
    BY <1>2
  <2>3. Hops = 1 => hop'[2].pc = hop[2].pc
    BY <1>2, <2>1
  <2> QED
    BY <1>1, <2>1, <2>2, <2>3 DEF Shape
<1>9. hop'[1].pc = "setup" => hop'[2].pc = "idle" /\ wire'[1].up = <<>>
  <2>1. SUFFICES ASSUME hop'[1].pc = "setup" PROVE hop'[2].pc = "idle" /\ wire'[1].up = <<>>
    OBVIOUS
  <2>2. h # 1 /\ hop[1].pc = "setup"
    BY <1>2, <2>1
  <2>3. hop[2].pc = "idle" /\ h = 2
    BY <1>1, <2>2 DEF Shape
  <2> QED
    BY <2>3
<1> QED
  BY <1>1, <1>6, <1>7, <1>8, <1>9 DEF Shape

(* A connection that is made to a chain or a target.                       *)
LEMMA EstablishShape ==
  ASSUME Formed, NEW h \in 1..Hops, Establish(h)
  PROVE  Shape'
<1>1. TypeOK /\ Typed /\ Shape /\ h = 1 /\ Hops \in {1, 2} /\ 1 \in 1..2 /\ 2 \in 1..2 /\ "up" \in Copiers /\ "drain" \in Copiers
  BY PathFacts, TypedIs DEF Formed, Copiers, Establish
<1>2. path' = path /\ Hops' = Hops /\ Kind' = Kind /\ hop[1].pc = "setup" /\ hop[2].pc = "idle"
  BY <1>1 DEF Establish, Hops, Kind, Shape
<1>3. HopShape(1) /\ HopShape(2)
  BY <1>1 DEF Shape
<1>4. /\ hop'[1].pc = "run" /\ hop'[1].held = hop[1].held /\ hop'[1].errs = hop[1].errs
      /\ hop'[2].pc = (IF Hops = 2 THEN "setup" ELSE hop[2].pc) /\ hop'[2].held = hop[2].held /\ hop'[2].errs = hop[2].errs
  <2>1. hop' = [[hop EXCEPT ![1].pc = "run", ![1].waits = WaitsFor(1)] EXCEPT ![2].pc = IF Hops = 2 THEN "setup" ELSE @]
    BY <1>1 DEF Establish
  <2>2. PICK f : f = [hop EXCEPT ![1].pc = "run", ![1].waits = WaitsFor(1)]
    OBVIOUS
  <2>3. f[1].pc = "run" /\ f[1].held = hop[1].held /\ f[1].errs = hop[1].errs /\ f[2] = hop[2]
    BY <1>1, <2>2 DEF Typed, HopTypes
  <2>4. DOMAIN f = 1..2 /\ f[2] \in [pc : {"idle", "setup", "run", "failed", "done"}, held : Seq(Chunks), errs : 0..3, waits : 0..2]
    BY <1>1, <2>2, <2>3 DEF Typed, HopTypes
  <2>5. hop' = [f EXCEPT ![2].pc = IF Hops = 2 THEN "setup" ELSE @]
    BY <2>1, <2>2
  <2> QED
    BY <2>3, <2>4, <2>5
<1>5. copy'[2] = copy[2] /\ \A k \in Copiers : copy'[1][k].pc = (IF k = "drain" THEN "off" ELSE "read")
  <2>1. copy' = [copy EXCEPT ![1] = Running(1)] /\ Role(1) # "relay"
    BY <1>1 DEF Establish, Role
  <2>2. copy'[2] = copy[2] /\ copy'[1] = Running(1)
    BY <1>1, <2>1 DEF Typed, CopyTypes
  <2>3. \A k \in Copiers : Running(1)[k].pc = (IF k = "drain" THEN "off" ELSE "read")
    BY <1>1, <2>1, RunningTyped DEF Typed
  <2> QED
    BY <2>2, <2>3
<1>6. end'[2] = end[2]
  BY <1>1 DEF Establish, Typed, EndTypes
<1>7. HopShape(1)'
  <2>1. hop[1].errs = 0 /\ hop[1].held = <<>>
    <3>1. hop[1].errs \in Nat /\ hop[1].errs <= Errs(1)
      BY <1>1, ErrsAre
    <3>2. \A k \in Copiers : copy[1][k].pc = "off"
      BY <1>2, <1>3 DEF HopShape
    <3>3. Errs(1) = 0
      BY <3>2 DEF Errs, Copiers
    <3> QED
      BY <1>1, <1>3, <3>1, <3>2, <3>3 DEF HopShape
  <2>2. copy'[1]["up"].pc = "read" /\ copy'[1]["down"].pc = "read" /\ copy'[1]["drain"].pc = "off"
    BY <1>5 DEF Copiers
  <2> QED
    BY <1>4, <2>1, <2>2 DEF HopShape
<1>8. HopShape(2)'
  BY <1>2, <1>3, <1>4, <1>5, <1>6 DEF HopShape, NoEnds, Hops, Kind
<1>9. HeaderIn' => wire'[1].up # <<>> /\ Head(wire'[1].up) = Header
  <2>1. HeaderIn' => wire'[1].up = <<Header>>
    BY EstablishEffect
  <2>2. Header \in Nat /\ <<Header>> # <<>> /\ Head(<<Header>>) = Header
    BY OneItem DEF Header
  <2> QED
    BY <2>1, <2>2
<1>10. \A g \in 1..2 : HopShape(g)'
  <2>1. \A g \in 1..2 : g = 1 \/ g = 2
    OBVIOUS
  <2> QED
    BY <1>7, <1>8, <2>1
<1> QED
  BY <1>2, <1>4, <1>9, <1>10 DEF Shape

(* Nothing of a sequence.                                                  *)
LEMMA NoPart ==
  ASSUME NEW S, NEW s \in Seq(S)
  PROVE  SubSeq(s, 2, 1) = <<>>
<1>1. PICK a \in Int, b \in Int : a = 2 /\ b = 1
  OBVIOUS
<1>2. ~(a <= b) /\ \A i \in a..b : s[i] \in S
  BY <1>1
<1>3. SubSeq(s, a, b) \in Seq(S) /\ Len(SubSeq(s, a, b)) = 0
  BY <1>2, SubSeqProperties
<1>4. SubSeq(s, a, b) = <<>>
  BY <1>3, EmptySeq
<1> QED
  BY <1>1, <1>4

(* Every cell holds a sequence of numbers after the step.                  *)
LEMMA CellsTypedNext ==
  ASSUME Typed', Shape', NEW d \in Dirs
  PROVE  Cells(d)' \in CellTypes
<1>1. \A c \in 0..2 : Body(c, d)' \in Seq(Nat)
  <2>1. SUFFICES ASSUME NEW c \in 0..2 PROVE Body(c, d)' \in Seq(Chunks)
    BY ChunkSeqs
  <2>2. wire'[c][d] \in Seq(Chunks)
    BY DEF Typed, WireTypes, Dirs
  <2>3. HeaderIn' /\ c = 1 /\ d = "up" => wire'[c][d] # <<>>
    BY DEF Shape
  <2> QED
    BY <2>2, <2>3, TailFacts DEF Body
<1>2. \A h \in 1..2, k \in Copiers : Carry(h, k)' \in Seq(Nat)
  <2>1. SUFFICES ASSUME NEW h \in 1..2, NEW k \in Copiers PROVE Carry(h, k)' \in Seq(Chunks)
    BY ChunkSeqs
  <2>2. copy'[h][k].chunk \in Chunks
    BY DEF Typed, CopyTypes, Works
  <2> QED
    BY <2>2, OneItem DEF Carry
<1>3. got'[d] \in Seq(Nat) /\ hop'[2].held \in Seq(Nat)
  <2>1. got'[d] \in Seq(Chunks) /\ hop'[2].held \in Seq(Chunks)
    BY DEF Typed, GotTypes, HopTypes, Dirs
  <2> QED
    BY <2>1, ChunkSeqs
<1>4. <<>> \in Seq(Nat) /\ d \in Copiers /\ "drain" \in Copiers /\ 0 \in 0..2 /\ 1 \in 0..2 /\ 2 \in 0..2 /\ 1 \in 1..2 /\ 2 \in 1..2
  BY DEF Dirs, Copiers
<1>5. /\ Body(0, d)' \in Seq(Nat) /\ Body(1, d)' \in Seq(Nat) /\ Body(2, d)' \in Seq(Nat)
      /\ Carry(1, d)' \in Seq(Nat) /\ Carry(2, d)' \in Seq(Nat) /\ Carry(2, "drain")' \in Seq(Nat)
  BY <1>1, <1>2, <1>4
<1>6. \A s \in Spots : Cell(d, s)' \in Seq(Nat)
  BY <1>3, <1>4, <1>5 DEF Cell, Spots
<1> QED
  BY <1>6 DEF Cells, CellTypes

(* A header that is read.                                                  *)
LEMMA HeaderShape ==
  ASSUME Formed, NEW h \in 1..Hops, EstabFromHeader(h)
  PROVE  Shape'
<1>1. TypeOK /\ Typed /\ Shape /\ h = 2 /\ 1 \in 1..2 /\ 2 \in 1..2 /\ "up" \in Copiers /\ "down" \in Copiers /\ "drain" \in Copiers
  BY TypedIs DEF Formed, Copiers, EstabFromHeader
<1>2. path' = path /\ Hops' = Hops /\ Kind' = Kind /\ Hops = 2 /\ hop[2].pc = "setup" /\ Kind \in {"tcp", "tls"}
  BY <1>1, PathFacts, EstabFromHeaderEffect DEF EstabFromHeader, Hops, Kind
<1>3. HopShape(1) /\ HopShape(2)
  BY <1>1 DEF Shape
<1>4. PICK m \in Nat : (Kind = "tls" => m = 0) /\ hop'[2].held = SubSeq(wire[1].up, 2, m + 1)
  BY EstabFromHeaderEffect
<1>5. hop'[1] = hop[1] /\ hop'[2].pc = "run" /\ hop'[2].errs = hop[2].errs
  <2>1. PICK s : hop' = [hop EXCEPT ![2] = [@ EXCEPT !.pc = "run", !.waits = WaitsFor(2), !.held = s]]
    BY <1>1 DEF EstabFromHeader
  <2>2. hop[2] \in [pc : {"idle", "setup", "run", "failed", "done"}, held : Seq(Chunks), errs : 0..3, waits : 0..2]
    BY <1>1 DEF Typed, HopTypes
  <2>3. PICK r : r = [hop[2] EXCEPT !.pc = "run", !.waits = WaitsFor(2), !.held = s] /\ hop' = [hop EXCEPT ![2] = r]
    BY <2>1
  <2>4. r.pc = "run" /\ r.errs = hop[2].errs
    BY <2>2, <2>3
  <2>5. hop'[1] = hop[1] /\ hop'[2] = r
    BY <1>1, <2>3 DEF Typed, HopTypes
  <2> QED
    BY <2>4, <2>5
<1>6. copy'[1] = copy[1] /\ \A k \in Copiers : copy'[2][k].pc = (IF k = "drain" /\ Kind # "tcp" THEN "off" ELSE "read")
  <2>1. copy' = [copy EXCEPT ![2] = Running(2)] /\ Role(2) = "relay"
    BY <1>1, EstabFromHeaderEffect DEF EstabFromHeader
  <2>2. copy'[1] = copy[1] /\ copy'[2] = Running(2)
    BY <1>1, <2>1 DEF Typed, CopyTypes
  <2>3. \A k \in Copiers : Running(2)[k].pc = (IF k = "drain" /\ Kind # "tcp" THEN "off" ELSE "read")
    BY <1>1, <2>1, RunningTyped DEF Typed
  <2> QED
    BY <2>2, <2>3
<1>7. end'[1] = end[1]
  BY <1>1 DEF EstabFromHeader, Typed, EndTypes
<1>8. HopShape(1)'
  BY <1>2, <1>3, <1>5, <1>6, <1>7 DEF HopShape, NoEnds, Hops, Kind
<1>9. HopShape(2)'
  <2>1. hop[2].errs = 0
    <3>1. hop[2].errs \in Nat /\ hop[2].errs <= Errs(2)
      BY <1>1, ErrsAre
    <3>2. \A k \in Copiers : copy[2][k].pc = "off"
      BY <1>2, <1>3 DEF HopShape
    <3>3. Errs(2) = 0
      BY <3>2 DEF Errs, Copiers
    <3> QED
      BY <3>1, <3>3
  <2>2. copy'[2]["up"].pc = "read" /\ copy'[2]["down"].pc = "read" /\ (copy'[2]["drain"].pc = "off" <=> Kind = "tls")
    BY <1>1, <1>2, <1>6
  <2>3. copy'[2]["drain"].pc = "off" => hop'[2].held = <<>>
    <3>1. SUFFICES ASSUME Kind = "tls" PROVE hop'[2].held = <<>>
      BY <2>2
    <3>2. hop'[2].held = SubSeq(wire[1].up, 2, 1)
      BY <1>4, <3>1
    <3> QED
      BY <1>1, <3>2, NoPart DEF Typed, WireTypes
  <2> QED
    BY <1>2, <1>5, <2>1, <2>2, <2>3 DEF HopShape
<1>10. ~HeaderIn'
  BY EstabFromHeaderEffect
<1>11. \A g \in 1..2 : HopShape(g)'
  <2>1. \A g \in 1..2 : g = 1 \/ g = 2
    OBVIOUS
  <2> QED
    BY <1>8, <1>9, <2>1
<1> QED
  BY <1>1, <1>2, <1>5, <1>10, <1>11 DEF Shape

(* Steps that touch no copy and no handler's progress.                     *)
LEMMA QuietShape ==
  ASSUME Formed, path' = path, copy' = copy, HeaderIn' = HeaderIn,
         \A g \in 1..2 : /\ hop'[g].pc = hop[g].pc /\ hop'[g].held = hop[g].held
                         /\ hop'[g].errs \in Nat /\ hop'[g].errs <= hop[g].errs
                         /\ hop[g].pc \in {"idle", "setup"} => end'[g] = end[g],
         hop[1].pc = "setup" => wire'[1].up = wire[1].up,
         wire[1].up # <<>> => wire'[1].up # <<>> /\ Head(wire'[1].up) = Head(wire[1].up)
  PROVE  Shape'
<1>1. Shape
  BY DEF Formed
<1>2. ASSUME NEW g \in 1..2 PROVE HopShape(g)'
  <2>1. hop[g].errs \in Nat /\ hop[g].errs <= Errs(g) /\ Errs(g) \in Nat /\ HopShape(g)
    BY <1>1, ErrsAre DEF Shape
  <2>2. Errs(g)' = Errs(g)
    BY DEF Errs
  <2>3. hop'[g].errs <= Errs(g)'
    BY <2>1, <2>2
  <2> QED
    BY <2>1, <2>3, HopShapeKept
<1>3. HeaderIn => wire'[1].up # <<>> /\ Head(wire'[1].up) = Head(wire[1].up)
  BY <1>1 DEF Shape
<1> QED
  BY <1>1, <1>2, <1>3, RestKept

(* A waiter of a TLS chain.                                                *)
LEMMA WaiterShape ==
  ASSUME Formed, NEW h \in 1..Hops, WaiterTakes(h) \/ WaiterTimesOut(h)
  PROVE  Shape'
<1>1. TypeOK /\ Typed /\ h \in 1..2
  BY PathFacts, TypedIs DEF Formed
<1>2. path' = path /\ copy' = copy /\ wire' = wire /\ end' = end
  BY DEF WaiterTakes, WaiterTimesOut
<1>3. ASSUME NEW g \in 1..2
      PROVE  /\ hop'[g].pc = hop[g].pc /\ hop'[g].held = hop[g].held
             /\ hop'[g].errs \in Nat /\ hop'[g].errs <= hop[g].errs
  <2>1. hop[g].errs \in 0..3
    BY <1>1 DEF TypeOK
  <2>2. CASE WaiterTakes(h)
    <3>1. hop[h].errs > 0 /\ hop' = [hop EXCEPT ![h].waits = @ - 1, ![h].errs = @ - 1]
      BY <2>2 DEF WaiterTakes
    <3>2. hop'[g].pc = hop[g].pc /\ hop'[g].held = hop[g].held /\ hop'[g].errs = (IF g = h THEN hop[h].errs - 1 ELSE hop[g].errs)
      BY <1>1, <3>1 DEF Typed, HopTypes
    <3> QED
      BY <2>1, <3>1, <3>2
  <2>3. CASE WaiterTimesOut(h)
    BY <1>1, <2>1, <2>3 DEF WaiterTimesOut, Typed, HopTypes
  <2> QED
    BY <2>2, <2>3
<1>4. HeaderIn' = HeaderIn
  BY <1>2, <1>3 DEF HeaderIn
<1> QED
  BY <1>2, <1>3, <1>4, QuietShape

(* A peer that sends.                                                      *)
LEMMA SendShape ==
  ASSUME Formed, NEW d \in Dirs, Send(d)
  PROVE  Shape'
<1>1. TypeOK /\ Typed /\ Shape
  BY TypedIs DEF Formed
<1>2. path' = path /\ copy' = copy /\ hop' = hop /\ end' = end
  BY DEF Send
<1>3. /\ HeaderIn' = HeaderIn
      /\ wire[1].up # <<>> => wire'[1].up # <<>> /\ Head(wire'[1].up) = Head(wire[1].up)
  BY SendEffect
<1>4. wire'[1].up = wire[1].up
  <2>1. CASE d = "up"
    BY <2>1, SendEffect
  <2>2. CASE d = "down"
    BY <1>1, <2>2 DEF Send, Typed, WireTypes
  <2> QED
    BY <2>1, <2>2 DEF Dirs
<1>5. \A g \in 1..2 : hop'[g].errs \in Nat /\ hop'[g].errs <= hop[g].errs
  BY <1>1, <1>2, ErrsAre DEF Formed
<1> QED
  BY <1>2, <1>3, <1>4, <1>5, QuietShape

(* A peer that ends its side.                                              *)
LEMMA LeaveShape ==
  ASSUME Formed, NEW d \in Dirs, Leave(d)
  PROVE  Shape'
<1>1. TypeOK /\ Typed /\ Shape /\ Hops \in {1, 2}
  BY TypedIs, PathFacts DEF Formed
<1>2. path' = path /\ copy' = copy /\ hop' = hop /\ wire' = wire
  BY DEF Leave
<1>3. ASSUME NEW g \in 1..2, hop[g].pc \in {"idle", "setup"} PROVE end'[g] = end[g]
  <2>1. end[g] = NoEnds
    BY <1>1, <1>3 DEF Shape, HopShape
  <2>2. PICK e : end' = [end EXCEPT ![Peer(d).chan][Peer(d).side] = e] /\ end[Peer(d).chan][Peer(d).side] # "none"
    BY DEF Leave, PeerEnd
  <2>3. Peer(d).chan # g
    <3>1. CASE d = "up"
      BY <3>1 DEF Peer
    <3>2. CASE d = "down"
      BY <2>1, <2>2, <3>2 DEF Peer, NoEnds
    <3> QED
      BY <3>1, <3>2 DEF Dirs
  <2>4. PICK c : c = Peer(d).chan
    OBVIOUS
  <2> QED
    BY <1>1, <2>2, <2>3, <2>4 DEF Typed, EndTypes
<1>4. \A g \in 1..2 : hop'[g].errs \in Nat /\ hop'[g].errs <= hop[g].errs
  BY <1>1, <1>2, ErrsAre DEF Formed
<1>5. HeaderIn' = HeaderIn
  BY <1>2 DEF HeaderIn
<1> QED
  BY <1>2, <1>3, <1>4, <1>5, QuietShape

(* Every step keeps the types and the shape.                               *)
LEMMA FormedStep ==
  ASSUME Formed, PlaceInv, CountInv, Next
  PROVE  Formed'
<1>1. TypeOK /\ Typed /\ Hops \in {1, 2} /\ "up" \in Dirs /\ "down" \in Dirs
  BY PathFacts, TypedIs DEF Formed, Dirs
<1>2. 1 \in 1..Hops
  BY <1>1
<1>3. Typed' /\ Shape'
  <2>1. ASSUME NEW h \in 1..Hops, Setup(h) \/ Collect(h) \/ WaiterTakes(h) \/ WaiterTimesOut(h) \/ Finish(h)
        PROVE  Typed' /\ Shape'
    <3>1. Typed'
      BY <1>1, <2>1, OtherTyped
    <3>2. CASE SetupFails(h)
      <4>1. hop[h].pc # "idle" /\ path' = path /\ wire' = wire /\ copy' = copy /\ (CloseEnds(h) \/ end' = end) /\ HopEnds(h)
        BY <3>2 DEF SetupFails, HopEnds
      <4> QED
        BY <3>1, <4>1, CloseShape
    <3>3. CASE Collect(h) \/ Finish(h)
      <4>1. hop[h].pc # "idle" /\ path' = path /\ wire' = wire /\ copy' = copy /\ CloseEnds(h) /\ HopEnds(h)
        BY <3>3 DEF Collect, Finish, HopEnds
      <4> QED
        BY <3>1, <4>1, CloseShape
    <3> QED
      BY <2>1, <3>1, <3>2, <3>3, EstablishShape, HeaderShape, WaiterShape DEF Setup
  <2>2. ASSUME NEW h \in 1..Hops, NEW k \in Copiers, Copy(h, k) PROVE Typed' /\ Shape'
    BY <2>2, CopyTyped, CopyShape
  <2>3. ASSUME NEW d \in Dirs, Send(d) \/ Leave(d) PROVE Typed' /\ Shape'
    BY <1>2, <2>3, OtherTyped, SendShape, LeaveShape
  <2> QED
    BY <2>1, <2>2, <2>3 DEF Next
<1>4. charged' \in 0..(MaxUp + MaxDown)
  <2>1. CountInv' /\ charged' \in Nat
    BY CountStep
  <2>2. PICK a, b, c : a = Uncounted("up", Cells("up"))' /\ b = Uncounted("down", Cells("down"))' /\ c = charged'
    OBVIOUS
  <2>3. a \in Nat /\ b \in Nat
    BY <1>1, <1>3, <2>2, CellsTypedNext, CountTypes
  <2>4. c + a + b <= sent'.up + sent'.down
    BY <2>1, <2>2 DEF CountInv
  <2>5. sent'.up \in 0..MaxUp /\ sent'.down \in 0..MaxDown
    BY <1>3 DEF Typed
  <2> QED
    BY <2>1, <2>2, <2>3, <2>4, <2>5, RelayAssumption
<1> QED
  BY <1>3, <1>4, TypedWas DEF Formed

-----------------------------------------------------------------------------
(* The invariant of the relay *)

(* Besides the types: the program counters, each chunk in one place, the   *)
(* counter between what passed it and what was sent, and no gap before a   *)
(* copy that has lost nothing.                                             *)
RelayInv == TypeOK /\ Shape /\ PlaceInv /\ CountInv /\ OrderInv

(* No item is a run that ends anywhere.                                    *)
LEMMA NoRun == \A e : EndsAt(<<>>, e)
<1>1. PICK z : z = <<>> /\ Len(z) = 0
  BY NoItems
<1>2. 1..Len(z) = {}
  BY <1>1
<1>3. \A e : EndsAt(z, e)
  BY <1>2, Zenon DEF EndsAt
<1> QED
  BY <1>1, <1>3

(* At first every cell is empty.                                           *)
LEMMA CellsAtFirst ==
  ASSUME Init, NEW d \in Dirs
  PROVE  \A s \in Spots : Cells(d)[s] = <<>>
<1>1. /\ \A c \in 0..2 : wire[c][d] = <<>>
      /\ \A h \in 1..2, k \in Copiers : copy[h][k].pc = "off"
      /\ hop[2].pc = "idle" /\ hop[2].held = <<>> /\ got[d] = <<>>
  BY DEF Init, ConnectedAt, NoHop, Off, Dirs
<1>2. ~HeaderIn
  BY <1>1 DEF HeaderIn
<1>3. \A c \in 0..2 : Body(c, d) = <<>>
  BY <1>1, <1>2 DEF Body
<1>4. \A h \in 1..2, k \in Copiers : Carry(h, k) = <<>>
  BY <1>1 DEF Carry
<1>5. 0 \in 0..2 /\ 1 \in 0..2 /\ 2 \in 0..2 /\ 1 \in 1..2 /\ 2 \in 1..2 /\ d \in Copiers /\ "drain" \in Copiers
  BY DEF Dirs, Copiers
<1>6. /\ Body(0, d) = <<>> /\ Body(1, d) = <<>> /\ Body(2, d) = <<>>
      /\ Carry(1, d) = <<>> /\ Carry(2, d) = <<>> /\ Carry(2, "drain") = <<>>
  BY <1>3, <1>4, <1>5
<1>7. \A s \in Spots : Cell(d, s) = <<>>
  BY <1>1, <1>6 DEF Cell, Spots
<1> QED
  BY <1>7 DEF Cells

(* Where every connection starts.                                          *)
LEMMA RelayStarts ==
  ASSUME Init
  PROVE  RelayInv
<1>1. TypeOK
  <2>1. path \in Paths /\ path \in {"tcp", "tls"} \X {1, 2} /\ MaxUp \in Nat /\ MaxDown \in Nat
    BY RelayAssumption DEF Init, ConnectedAt
  <2>2. Header \in Chunks /\ <<>> \in Seq(Chunks)
    BY <2>1 DEF Header, Chunks
  <2>3. end \in EndTypes /\ wire \in WireTypes
    BY <2>2 DEF Init, ConnectedAt, NoEnds, EndTypes, States, WireTypes
  <2>4. hop \in HopTypes
    <3>1. NoHop \in [pc : {"idle", "setup", "run", "failed", "done"}, held : Seq(Chunks), errs : 0..3, waits : 0..2]
      BY <2>2 DEF NoHop
    <3>2. [NoHop EXCEPT !.pc = "setup"] \in [pc : {"idle", "setup", "run", "failed", "done"}, held : Seq(Chunks), errs : 0..3, waits : 0..2]
      BY <3>1
    <3> QED
      BY <3>1, <3>2 DEF Init, ConnectedAt, HopTypes
  <2>5. copy \in CopyTypes
    BY <2>2 DEF Init, ConnectedAt, Off, CopyTypes, Works
  <2>6. got \in GotTypes /\ sent \in [up : 0..MaxUp, down : 0..MaxDown] /\ charged \in 0..(MaxUp + MaxDown)
    BY <2>1, <2>2 DEF Init, ConnectedAt, GotTypes
  <2> QED
    BY <2>1, <2>3, <2>4, <2>5, <2>6, TypedIs DEF Typed
<1>2. Shape
  <2>1. /\ \A h \in 1..2, k \in Copiers : copy[h][k].pc = "off"
        /\ \A h \in 1..2 : hop[h].held = <<>> /\ hop[h].errs = 0 /\ end[h] = NoEnds
        /\ hop[1].pc = "setup" /\ hop[2].pc = "idle" /\ wire[1].up = <<>>
    BY DEF Init, ConnectedAt, NoHop, Off
  <2>2. \A h \in 1..2 : HopShape(h)
    BY <2>1 DEF HopShape, Copiers
  <2> QED
    BY <2>1, <2>2 DEF Shape, HeaderIn
<1>3. \A d \in Dirs : sent[d] = 0
  BY DEF Init, ConnectedAt, Dirs
<1>4. PlaceInv
  <2>1. SUFFICES ASSUME NEW d \in Dirs PROVE Once(Cells(d), sent[d]) /\ All(Cells(d), sent[d])
    BY DEF PlaceInv
  <2>2. \A s \in Spots : Items(Cells(d)[s]) = {} /\ Inj(Cells(d)[s])
    BY CellsAtFirst, NoItems
  <2>3. PICK F, n : F = Cells(d) /\ n = sent[d] /\ n \in Nat /\ 1..n = {}
    BY <1>3
  <2>4. Once(F, n) /\ All(F, n)
    BY <2>2, <2>3, Zenon DEF Once, All
  <2> QED
    BY <2>3, <2>4
<1>5. CountInv
  <2>1. "up" \in Dirs /\ "down" \in Dirs
    BY DEF Dirs
  <2>2. \A d \in Dirs, s \in Spots : Len(Cells(d)[s]) = 0
    BY CellsAtFirst, NoItems
  <2>3. \A d \in Dirs : Counted(d, Cells(d)) = 0 /\ Uncounted(d, Cells(d)) = 0
    <3>1. SUFFICES ASSUME NEW d \in Dirs PROVE Counted(d, Cells(d)) = 0 /\ Uncounted(d, Cells(d)) = 0
      OBVIOUS
    <3>3. PICK F : F = Cells(d)
      OBVIOUS
    <3>4. /\ Len(F["wire0"]) = 0 /\ Len(F["wire1"]) = 0 /\ Len(F["wire2"]) = 0 /\ Len(F["copy1"]) = 0
          /\ Len(F["copy2"]) = 0 /\ Len(F["held"]) = 0 /\ Len(F["drain"]) = 0 /\ Len(F["got"]) = 0
      BY <2>2, <3>3 DEF Spots
    <3> QED
      BY <3>3, <3>4 DEF Counted, Uncounted
  <2> QED
    BY <1>3, <2>1, <2>3 DEF CountInv, Init, ConnectedAt
<1>6. OrderInv
  <2>1. SUFFICES ASSUME NEW d \in Dirs PROVE OrderOf(d)
    BY DEF OrderInv
  <2>2. PICK F, n : F = Cells(d) /\ n = sent[d] /\ n = 0
    BY <1>3
  <2>3. \A s \in Spots : F[s] = <<>>
    BY <2>2, CellsAtFirst
  <2>4. \A s \in Spots, e \in Int : EndsAt(F[s], e) /\ Len(F[s]) = 0
    BY <2>3, NoItems, NoRun
  <2>5. \A st \in Spots, a \in BOOLEAN : Row1(F, n, st, a)
    <3>1. SUFFICES ASSUME NEW st \in Spots, NEW a \in BOOLEAN PROVE Row1(F, n, st, a)
      OBVIOUS
    <3>2. F[st] = <<>> /\ F["copy1"] = <<>> /\ F["got"] = <<>>
      BY <2>3 DEF Spots
    <3>3. PICK x, y, z : x = Len(F[st]) /\ y = Len(F["copy1"]) /\ z = Len(F["got"]) /\ x = 0 /\ y = 0 /\ z = 0
      BY <3>2, NoItems
    <3>4. EndsAt(F[st], n) /\ EndsAt(F["copy1"], n - x) /\ EndsAt(F["got"], z)
      BY <3>2, NoRun
    <3>5. z = n - x - y
      BY <2>2, <3>3
    <3> QED
      BY <3>3, <3>4, <3>5 DEF Row1
  <2>6. \A st \in Spots, src \in Spots, snk \in Spots, a \in BOOLEAN, b \in BOOLEAN : Row2(F, n, st, src, snk, a, b)
    <3>1. SUFFICES ASSUME NEW st \in Spots, NEW src \in Spots, NEW snk \in Spots, NEW a \in BOOLEAN, NEW b \in BOOLEAN
                   PROVE  Row2(F, n, st, src, snk, a, b)
      OBVIOUS
    <3>2. F[st] = <<>> /\ F[src] = <<>> /\ F[snk] = <<>> /\ F["wire1"] = <<>> /\ F["got"] = <<>>
      BY <2>3 DEF Spots
    <3>3. PICK x, y, v, w, z : /\ x = Len(F[st]) /\ y = Len(F[src]) /\ v = Len(F["wire1"]) /\ w = Len(F[snk]) /\ z = Len(F["got"])
                               /\ x = 0 /\ y = 0 /\ v = 0 /\ w = 0 /\ z = 0
      BY <3>2, NoItems
    <3>4. PICK e \in Int : e = 0
      OBVIOUS
    <3>5. /\ EndsAt(F[st], n) /\ EndsAt(F[src], n - x) /\ EndsAt(F["got"], z)
          /\ EndsAt(F["wire1"], e) /\ EndsAt(F[snk], e - v)
      BY <3>2, NoRun
    <3>6. e = n - x - y /\ z = e - v - w
      BY <2>2, <3>3, <3>4
    <3> QED
      BY <3>3, <3>5, <3>6 DEF Row2
  <2>7. "wire0" \in Spots /\ "wire1" \in Spots /\ "wire2" \in Spots /\ "copy1" \in Spots /\ "copy2" \in Spots
    BY DEF Spots
  <2> QED
    BY <2>2, <2>5, <2>6, <2>7, SoundIs DEF OrderOf
<1> QED
  BY <1>1, <1>2, <1>4, <1>5, <1>6 DEF RelayInv

(* Nothing changes.                                                        *)
LEMMA RelayStutters ==
  ASSUME RelayInv, UNCHANGED vars
  PROVE  RelayInv'
<1>1. path' = path /\ end' = end /\ wire' = wire /\ hop' = hop /\ copy' = copy /\ sent' = sent /\ got' = got /\ charged' = charged
  BY DEF vars
<1>2. HeaderIn' = HeaderIn /\ Hops' = Hops /\ Kind' = Kind
  BY <1>1 DEF HeaderIn, Hops, Kind
<1>3. \A d \in Dirs : Cells(d)' = Cells(d)
  BY <1>1, <1>2, StillEffect
<1>4. TypeOK'
  BY <1>1 DEF RelayInv, TypeOK
<1>5. Shape'
  BY <1>1, <1>2 DEF RelayInv, Shape, HopShape
<1>6. PlaceInv'
  BY <1>1, <1>3 DEF RelayInv, PlaceInv, Unclosed
<1>7. CountInv'
  BY <1>1, <1>3 DEF RelayInv, CountInv, Dirs
<1>8. OrderInv'
  <2>1. \A h, d : Sound(h, d)' = Sound(h, d)
    BY <1>1 DEF Sound, FarOut, Out
  <2> QED
    BY <1>1, <1>2, <1>3, <2>1 DEF RelayInv, OrderInv, OrderOf, TcpChain
<1> QED
  BY <1>4, <1>5, <1>6, <1>7, <1>8 DEF RelayInv

(* The invariant holds in every state of every relayed connection: each    *)
(* chunk is in one place at most, while nothing is closed in one place,    *)
(* every place of a direction with one reader holds a run of consecutive   *)
(* chunks, and what is behind the rule's counter is at most what it says.  *)
THEOREM RelaySound == Spec => []RelayInv
<1>1. Init => RelayInv
  BY RelayStarts
<1>2. RelayInv /\ [Next]_vars => RelayInv'
  <2>1. SUFFICES ASSUME RelayInv, Next PROVE RelayInv'
    BY RelayStutters
  <2>2. Formed /\ PlaceInv /\ CountInv /\ OrderInv
    BY <2>1 DEF RelayInv, Formed
  <2>3. Formed' /\ PlaceInv' /\ CountInv' /\ OrderInv'
    BY <2>1, <2>2, FormedStep, PlaceStep, CountStep, OrderStep
  <2> QED
    BY <2>3 DEF RelayInv, Formed
<1> QED
  BY <1>1, <1>2, PTL DEF Spec

(* What the type invariant of the runs says, for every size.               *)
THEOREM RelayTyped == Spec => []TypeOK
<1>1. RelayInv => TypeOK
  BY DEF RelayInv
<1> QED
  BY <1>1, RelaySound, PTL

(* What is received counts among what the rule's connector has read.       *)
THEOREM Charged == Spec => []DeliveredIsCharged
<1>1. ASSUME RelayInv PROVE DeliveredIsCharged
  <2>1. PICK F \in CellTypes, K \in CellTypes : F = Cells("up") /\ K = Cells("down")
    BY <1>1, CellsTyped DEF RelayInv, Formed, Dirs
  <2>2. F["got"] = got["up"] /\ K["got"] = got["down"]
    BY <2>1, CellsAre DEF Dirs
  <2>3. PICK a \in Nat, b \in Nat, e \in Nat, f \in Nat, g \in Nat, p \in Nat, q \in Nat, r \in Nat :
           /\ a = Len(F["copy1"]) /\ b = Len(F["wire1"]) /\ e = Len(F["held"]) /\ f = Len(F["drain"])
           /\ g = Len(F["copy2"]) /\ p = Len(F["got"]) /\ q = Len(K["copy1"]) /\ r = Len(K["got"])
    <3>1. \A s \in Spots : Len(F[s]) \in Nat /\ Len(K[s]) \in Nat
      BY DEF CellTypes
    <3> QED
      BY <3>1 DEF Spots
  <2>4. Counted("up", F) = a + b + e + f + g + p /\ Counted("down", K) = q + r
    BY <2>3 DEF Counted
  <2>5. Counted("up", F) + Counted("down", K) <= charged /\ charged \in 0..(MaxUp + MaxDown)
    BY <1>1, <2>1 DEF RelayInv, CountInv, TypeOK
  <2>6. p + r <= charged
    <3>1. charged \in Nat
      BY <2>5, RelayAssumption
    <3>2. (a + b + e + f + g + p) + (q + r) <= charged
      BY <2>4, <2>5
    <3> QED
      BY <3>1, <3>2
  <2> QED
    BY <2>2, <2>3, <2>6 DEF DeliveredIsCharged
<1> QED
  BY <1>1, RelaySound, PTL

(* What is received in a direction with one reader at a time is what was   *)
(* sent, in the order in which it was sent.                                *)
THEOREM Ordered == Spec => []InOrder
<1>1. ASSUME RelayInv PROVE InOrder
  <2>1. SUFFICES ASSUME NEW d \in Dirs, ~(TcpChain /\ d = "up"), NEW i \in DOMAIN got[d]
                 PROVE  got[d][i] = i
    BY DEF InOrder
  <2>2. PICK F \in CellTypes : F = Cells(d) /\ F["got"] = got[d]
    BY <1>1, CellsTyped, CellsAre DEF RelayInv, Formed
  <2>3. EndsAt(F["got"], Len(F["got"]))
    BY <1>1, <2>1, <2>2, Zenon DEF RelayInv, OrderInv, OrderOf, Row1, Row2
  <2>4. PICK s \in Seq(Nat), n \in Nat : s = F["got"] /\ n = Len(s)
    BY DEF CellTypes, Spots
  <2>5. i \in 1..n /\ s[i] = n - n + i
    BY <2>1, <2>2, <2>3, <2>4 DEF EndsAt
  <2> QED
    BY <2>2, <2>4, <2>5
<1> QED
  BY <1>1, RelaySound, PTL

(* The items of a sequence.                                                *)
LEMMA ItemsAre ==
  ASSUME NEW S, NEW s \in Seq(S)
  PROVE  /\ ToSet(s) = Items(s)
         /\ s # <<>> => Items(s) = {Head(s)} \cup Items(Tail(s))
<1>1. ToSet(s) = Items(s)
  BY DEF ToSet, Items
<1>2. ASSUME s # <<>> PROVE Items(s) = {Head(s)} \cup Items(Tail(s))
  <2>1. PICK t \in Seq(S), n \in Nat : t = Tail(s) /\ n = Len(s) /\ Len(t) = n - 1 /\ n >= 1
    <3>1. Tail(s) \in Seq(S) /\ Len(s) \in Nat /\ Len(Tail(s)) = Len(s) - 1 /\ Len(s) >= 1
      BY <1>2, TailFacts
    <3> QED
      BY <3>1, Zenon
  <2>2. (\A i \in 1..n - 1 : t[i] = s[i + 1]) /\ Head(s) = s[1]
    BY <1>2, <2>1, TailFacts
  <2>3. ASSUME NEW x \in Items(t) PROVE x \in Items(s)
    <3>1. PICK i \in 1..n - 1 : x = t[i]
      BY <2>1, <2>3 DEF Items
    <3>2. x = s[i + 1] /\ i + 1 \in 1..n
      BY <2>1, <2>2, <3>1
    <3> QED
      BY <2>1, <3>2 DEF Items
  <2>4. Head(s) \in Items(s)
    <3>1. 1 \in 1..n
      BY <2>1
    <3> QED
      BY <2>1, <2>2, <3>1 DEF Items
  <2>5. ASSUME NEW x \in Items(s), x # Head(s) PROVE x \in Items(t)
    <3>1. PICK i \in 1..n : x = s[i]
      BY <2>1, <2>5 DEF Items
    <3>2. PICK j : j = i - 1
      OBVIOUS
    <3>3. i # 1
      BY <2>2, <2>5, <3>1
    <3>4. j \in 1..n - 1 /\ i = j + 1
      BY <2>1, <3>2, <3>3
    <3> QED
      BY <2>1, <2>2, <3>1, <3>4 DEF Items
  <2> QED
    BY <2>1, <2>3, <2>4, <2>5
<1> QED
  BY <1>1, <1>2

(* A chunk on its way is in a cell other than the last, and conversely.    *)
LEMMA UnderwayAre ==
  ASSUME Formed, NEW d \in Dirs, NEW x, x # Header
  PROVE  x \in Underway(d) <=> \E s \in Spots \ {"got"} : x \in Items(Cells(d)[s])
<1>1. TypeOK /\ Shape
  BY DEF Formed
<1>0. x \in Underway(d) <=>
        \/ \E c \in 0..2 : x \in ToSet(wire[c][d])
        \/ \E y \in (1..2) \X Copiers : Way(y[2]) = d /\ copy[y[1]][y[2]].pc = "write" /\ x = copy[y[1]][y[2]].chunk
        \/ d = "up" /\ x \in ToSet(hop[2].held)
  <2>1. PICK A, B, C : /\ A = UNION {ToSet(wire[c][d]) : c \in 0..2}
                       /\ B = {copy[y[1]][y[2]].chunk : y \in {y \in (1..2) \X Copiers : Way(y[2]) = d /\ copy[y[1]][y[2]].pc = "write"}}
                       /\ C = IF d = "up" THEN ToSet(hop[2].held) ELSE {}
    OBVIOUS
  <2>2. Underway(d) = (A \cup B \cup C) \ {Header}
    BY <2>1 DEF Underway
  <2>3. x \in A <=> \E c \in 0..2 : x \in ToSet(wire[c][d])
    BY <2>1, Zenon
  <2>4. x \in B <=> \E y \in (1..2) \X Copiers : Way(y[2]) = d /\ copy[y[1]][y[2]].pc = "write" /\ x = copy[y[1]][y[2]].chunk
    BY <2>1, Zenon
  <2>5. x \in C <=> d = "up" /\ x \in ToSet(hop[2].held)
    BY <2>1
  <2> QED
    BY <2>2, <2>3, <2>4, <2>5, Zenon
<1>2. ASSUME NEW c \in 0..2 PROVE x \in ToSet(wire[c][d]) <=> x \in Items(Cells(d)[Wired(c)])
  <2>1. wire[c][d] \in Seq(Chunks) /\ Cells(d)[Wired(c)] = Body(c, d)
    BY BodyTyped, CellOf
  <2>2. CASE HeaderIn /\ c = 1 /\ d = "up"
    <3>1. wire[c][d] # <<>> /\ Head(wire[c][d]) = Header /\ Body(c, d) = Tail(wire[c][d])
      BY <1>1, <2>2 DEF Shape, Body
    <3> QED
      BY <2>1, <3>1, ItemsAre
  <2>3. CASE ~(HeaderIn /\ c = 1 /\ d = "up")
    BY <2>1, <2>3, ItemsAre DEF Body
  <2> QED
    BY <2>2, <2>3
<1>3. ASSUME NEW h \in 1..2, NEW k \in Copiers, Way(k) = d, copy[h][k].pc = "write"
      PROVE  <<h, k>> \in Hands
  <2>1. h \in 1..Hops
    <3>1. Hops = 1 \/ Hops = 2
      BY <1>1, PathFacts
    <3>2. CASE Hops = 1 /\ h = 2
      <4>1. hop[2].pc = "idle" /\ HopShape(2)
        BY <1>1, <3>2 DEF Shape
      <4> QED
        BY <1>3, <3>2, <4>1 DEF HopShape
    <3> QED
      BY <3>1, <3>2
  <2> QED
    BY <1>3, <2>1, AtWork
<1>4. ASSUME NEW h \in 1..2, NEW k \in Copiers, <<h, k>> \in Hands, Way(k) = d
      PROVE  /\ Hand(h, k) \in Spots \ {"got"}
             /\ x \in Items(Cells(d)[Hand(h, k)]) <=> copy[h][k].pc = "write" /\ x = copy[h][k].chunk
  <2>1. Cells(d)[Hand(h, k)] = Carry(h, k)
    BY <1>4, CellOf
  <2>2. Items(<<copy[h][k].chunk>>) = {copy[h][k].chunk}
    BY DEF Items
  <2>3. x \in Items(Carry(h, k)) <=> copy[h][k].pc = "write" /\ x = copy[h][k].chunk
    BY <2>2, NoItems DEF Carry
  <2> QED
    BY <2>1, <2>3 DEF Hand, Spots
<1>5. hop[2].held \in Seq(Chunks) /\ Items(<<>>) = {}
  BY <1>1, NoItems DEF TypeOK
<1>6. Cells(d)["held"] = (IF d = "up" THEN hop[2].held ELSE <<>>)
  BY CellsAre
<1>7. d = "up" => (x \in ToSet(hop[2].held) <=> x \in Items(Cells(d)["held"]))
  BY <1>5, <1>6, ItemsAre
<1>8. ASSUME x \in Underway(d) PROVE \E s \in Spots \ {"got"} : x \in Items(Cells(d)[s])
  <2>1. \/ \E c \in 0..2 : x \in ToSet(wire[c][d])
        \/ \E h \in 1..2, k \in Copiers : Way(k) = d /\ copy[h][k].pc = "write" /\ x = copy[h][k].chunk
        \/ d = "up" /\ x \in ToSet(hop[2].held)
    BY <1>0, <1>8
  <2>2. \A c \in 0..2 : Wired(c) \in Spots \ {"got"}
    BY DEF Wired, Spots
  <2>3. CASE \E c \in 0..2 : x \in ToSet(wire[c][d])
    BY <1>2, <2>2, <2>3
  <2>4. CASE \E h \in 1..2, k \in Copiers : Way(k) = d /\ copy[h][k].pc = "write" /\ x = copy[h][k].chunk
    BY <1>3, <1>4, <2>4
  <2>5. CASE d = "up" /\ x \in ToSet(hop[2].held)
    <3>1. "held" \in Spots \ {"got"}
      BY DEF Spots
    <3> QED
      BY <1>7, <2>5, <3>1
  <2> QED
    BY <2>1, <2>3, <2>4, <2>5
<1>9. ASSUME NEW s \in Spots \ {"got"}, x \in Items(Cells(d)[s]) PROVE x \in Underway(d)
  <2>1. \/ \E c \in 0..2 : s = Wired(c)
        \/ \E h \in 1..2, k \in Copiers : s = Hand(h, k) /\ <<h, k>> \in Hands /\ Way(k) = d
        \/ d = "up" /\ s = "held"
    <3>1. CASE s \in {"wire0", "wire1", "wire2"}
      BY <3>1 DEF Wired
    <3>2. CASE s \in {"copy1", "copy2"}
      <4>1. PICK h \in 1..2 : s = IF h = 1 THEN "copy1" ELSE "copy2"
        BY <3>2
      <4>2. d \in Copiers /\ Hand(h, d) = s /\ Way(d) = d /\ <<h, d>> \in Hands
        BY <4>1 DEF Dirs, Copiers, Hand, Way, Hands
      <4> QED
        BY <4>2
    <3>3. CASE s = "held"
      BY <1>5, <1>6, <1>9, <3>3
    <3>4. CASE s = "drain"
      <4>1. d = "up"
        BY <1>5, <1>9, <3>4, CellsAre
      <4>2. "drain" \in Copiers /\ 2 \in 1..2 /\ Hand(2, "drain") = s /\ Way("drain") = d /\ <<2, "drain">> \in Hands
        BY <3>4, <4>1 DEF Copiers, Hand, Way, Hands
      <4> QED
        BY <4>2
    <3> QED
      BY <3>1, <3>2, <3>3, <3>4 DEF Spots
  <2>2. CASE \E c \in 0..2 : s = Wired(c)
    <3>1. PICK c \in 0..2 : x \in ToSet(wire[c][d])
      BY <1>2, <1>9, <2>2
    <3> QED
      BY <1>0, <3>1
  <2>3. CASE \E h \in 1..2, k \in Copiers : s = Hand(h, k) /\ <<h, k>> \in Hands /\ Way(k) = d
    <3>1. PICK h \in 1..2, k \in Copiers : Way(k) = d /\ copy[h][k].pc = "write" /\ x = copy[h][k].chunk
      BY <1>4, <1>9, <2>3
    <3>2. PICK y : y = <<h, k>>
      OBVIOUS
    <3>3. y \in (1..2) \X Copiers /\ Way(y[2]) = d /\ copy[y[1]][y[2]].pc = "write" /\ x = copy[y[1]][y[2]].chunk
      BY <3>1, <3>2
    <3> QED
      BY <1>0, <3>3
  <2>4. CASE d = "up" /\ s = "held"
    <3>1. x \in ToSet(hop[2].held)
      BY <1>7, <1>9, <2>4
    <3> QED
      BY <1>0, <2>4, <3>1
  <2> QED
    BY <2>1, <2>2, <2>3, <2>4
<1> QED
  BY <1>8, <1>9

(* While nothing is closed, every chunk sent was received, once, or is on  *)
(* its way, also what the header's reader took beyond the header.          *)
THEOREM NothingIsLost == Spec => []NothingLost
<1>1. ASSUME RelayInv PROVE NothingLost
  <2>1. SUFFICES ASSUME \A c \in 0..2 : "closed" \notin {end[c].l, end[c].r}, NEW d \in Dirs
                 PROVE  /\ ToSet(got[d]) \cup Underway(d) = 1..sent[d]
                        /\ Cardinality(ToSet(got[d])) = Len(got[d])
    BY DEF NothingLost
  <2>2. Unclosed
    BY <2>1 DEF Unclosed
  <2>3. PICK F, n : F = Cells(d) /\ n = sent[d] /\ Once(F, n) /\ All(F, n) /\ F["got"] = got[d]
    BY <1>1, <2>2, CellsAre DEF RelayInv, PlaceInv
  <2>4. got[d] \in Seq(Chunks) /\ "got" \in Spots /\ n \in Nat
    BY <1>1, <2>3, SMTT(60) DEF RelayInv, TypeOK, Dirs, Spots
  <2>5. ToSet(got[d]) = Items(F["got"])
    BY <2>3, <2>4, ItemsAre
  <2>6. \A x : x \in Underway(d) => x # Header
    BY DEF Underway
  <2>7. \A x : x # Header => (x \in Underway(d) <=> \E s \in Spots \ {"got"} : x \in Items(F[s]))
    BY <1>1, <2>3, UnderwayAre DEF RelayInv, Formed
  <2>8. \A x \in 1..n : x # Header
    <3>1. PICK z \in Nat : z = Header /\ z = 0
      BY DEF Header
    <3>2. \A x \in 1..n : x # z
      BY <2>4, <3>1
    <3> QED
      BY <3>1, <3>2
  <2>9. ToSet(got[d]) \cup Underway(d) = 1..n
    <3>1. ASSUME NEW x \in ToSet(got[d]) \cup Underway(d) PROVE x \in 1..n
      BY <2>3, <2>4, <2>5, <2>6, <2>7, <3>1, Zenon DEF Once
    <3>2. ASSUME NEW x \in 1..n PROVE x \in ToSet(got[d]) \cup Underway(d)
      <4>1. PICK s \in Spots : x \in Items(F[s])
        BY <2>3 DEF All
      <4> QED
        BY <2>5, <2>7, <2>8, <4>1
    <3> QED
      BY <3>1, <3>2
  <2>10. Cardinality(Items(F["got"])) = Len(F["got"])
    BY <2>3, <2>4, ItemsCount DEF Once
  <2> QED
    BY <2>3, <2>5, <2>9, <2>10
<1> QED
  BY <1>1, RelaySound, PTL
=============================================================================
