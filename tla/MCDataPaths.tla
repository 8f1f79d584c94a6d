----------------------------- MODULE MCDataPaths -----------------------------
(* Small instances of what carries a rule's traffic, one at a time: a      *)
(* relayed TCP or TLS connection, a UDPConnectorV2, the header the UDP     *)
(* chain puts before a datagram, and gost with its observer.               *)
EXTENDS Relay, UdpExchange, UdpHeader, GostObserver

CONSTANTS q1, q2  \* ports

VARIABLE used  \* which of them is used

AllPaths == {"tcp", "tls"} \X {1, 2}

NoConnection == ConnectedAt("done") /\ path = <<"tcp", 1>>
NoExchange   == ExchangeInit /\ ~sock

(* No address, an IPv4 one in both its forms, and an IPv6 one.             *)
Addresses ==
    { <<>>, <<10, 0, 0, 1>>, <<0, 0, 0, 0, 0, 0, 0, 0, 0, 0, 255, 255, 10, 0, 0, 1>>,
      <<32, 1, 0, 0, 0, 0, 0, 0, 0, 0, 0, 0, 0, 0, 0, 1>> }

Targets == [ip : Addresses, port : {1, 255, 256, 65535}, data : {<<>>, <<7>>, <<0, 4, 0>>}]

Served == {<<"tcp", q1>>, <<"udp", q1>>, <<"tcp", q2>>}

Packets ==
    { SubSeq(<<version, ipLen>> \o [i \in 1..18 |-> i], 1, n) :
        version \in {0, 128}, ipLen \in {0, 3, 4, 5, 16}, n \in 0..20 }

NoHeader == [target |-> {}, packet |-> {}]
Headers  == [target : {{t} : t \in Targets}, packet : {{}}]
            \cup [target : {{}}, packet : {{p} : p \in Packets}]

(* The others are in a state in which nothing asks for a fair step.        *)
PathInit ==
    /\ ObserverInit
    /\ \/ used = "relay" /\ Init /\ NoExchange /\ header = NoHeader
       \/ used = "exchange" /\ NoConnection /\ ExchangeInit /\ sock /\ header = NoHeader
       \/ used = "header" /\ NoConnection /\ NoExchange /\ header \in Headers
       \/ used = "observer" /\ NoConnection /\ NoExchange /\ header = NoHeader

PathNext ==
    /\ \/ used = "relay" /\ Next /\ UNCHANGED <<exchangeVars, observerVars>>
       \/ used = "exchange" /\ ExchangeNext /\ UNCHANGED <<vars, observerVars>>
       \/ used = "observer" /\ ObserverNext /\ UNCHANGED <<vars, exchangeVars>>
    /\ UNCHANGED <<used, header>>

PathSpec ==
    /\ PathInit /\ [][PathNext]_<<vars, exchangeVars, observerVars, used, header>> /\ Fairness
=============================================================================
