------------------------------- MODULE Relay -------------------------------
(***************************************************************************)
(* One relayed connection, from the client of a rule to its target.  A     *)
(* direct rule is one hop; a chained rule is two, the TCPConnector or      *)
(* TLSConnector of the rule (role "chain") and that of the chain (role     *)
(* "relay"), which first reads a header line that names the target.        *)
(*                                                                         *)
(* Channel c connects hop c (or the client, when c = 0) on its left with   *)
(* hop c + 1 (or the target, when c = hops) on its right.  Actors: the     *)
(* handleConn goroutine of each hop, its copyConn goroutines, its timers,  *)
(* the client and the target.  Data are chunks numbered in the order in    *)
(* which they are sent; what is written to the client or the target counts *)
(* as received.  Buffers never fill: at most MaxUp and MaxDown chunks are  *)
(* sent.                                                                   *)
(***************************************************************************)
EXTENDS Naturals, Sequences, FiniteSets, SequencesExt

CONSTANTS
    Paths,      \* the paths to explore: <<kind, hops>>
    MaxUp,      \* chunks the client sends
    MaxDown     \* chunks the target sends

ASSUME RelayAssumption ==
    /\ Paths \subseteq {"tcp", "tls"} \X {1, 2}
    /\ MaxUp \in Nat /\ MaxDown \in Nat

VARIABLES
    path,       \* <<kind, hops>>
    end,        \* end[c]: the two ends of channel c
    wire,       \* wire[c]: what was sent through it and not yet read
    hop,        \* the handleConn goroutines
    copy,       \* the copyConn goroutines of each hop
    sent, got,  \* chunks sent and received, for each direction
    charged     \* curTraffic of the rule's connector, in chunks

vars == <<path, end, wire, hop, copy, sent, got, charged>>

-----------------------------------------------------------------------------
Kind == path[1]
Hops == path[2]

(* handleConn's three branches: a rule with a chain has both addresses, a  *)
(* chain has neither.                                                      *)
Role(h) == IF Hops = 1 THEN "direct" ELSE IF h = 1 THEN "chain" ELSE "relay"

Dirs    == {"up", "down"}
Limit   == [up |-> MaxUp, down |-> MaxDown]
Header  == 0
Chunks  == 0..(MaxUp + MaxDown)
(* "drain" is the io.Copy in the handler of a TCP relay.                   *)
Copiers == {"up", "down", "drain"}

Way(k)  == IF k = "down" THEN "down" ELSE "up"
In(h, k)  == IF Way(k) = "up" THEN h - 1 ELSE h     \* the channel k reads
Out(h, k) == IF Way(k) = "up" THEN h ELSE h - 1     \* the channel k writes
Side(k) == IF Way(k) = "up" THEN [near |-> "r", far |-> "l"] ELSE [near |-> "l", far |-> "r"]

NearIn(h, k)  == end[In(h, k)][Side(k).near]
FarIn(h, k)   == end[In(h, k)][Side(k).far]
NearOut(h, k) == end[Out(h, k)][Side(k).far]
FarOut(h, k)  == end[Out(h, k)][Side(k).near]

TypeOK ==
    /\ path \in Paths
    /\ end \in [0..2 -> [l : {"none", "open", "shut", "closed"}, r : {"none", "open", "shut", "closed"}]]
    /\ wire \in [0..2 -> [up : Seq(Chunks), down : Seq(Chunks)]]
    /\ hop \in [1..2 -> [pc    : {"idle", "setup", "run", "failed", "done"},
                         held  : Seq(Chunks),           \* left in the bufio.Reader
                         errs  : 0..3,                  \* in errChan
                         waits : 0..2]]                 \* goroutines handleConn waits for
    /\ copy \in [1..2 -> [Copiers -> [pc : {"off", "read", "write", "end"}, chunk : Chunks]]]
    /\ sent \in [up : 0..MaxUp, down : 0..MaxDown]
    /\ got \in [up : Seq(Chunks), down : Seq(Chunks)]
    /\ charged \in 0..(MaxUp + MaxDown)

-----------------------------------------------------------------------------
(* handleConn: setup                                                       *)

(* Mutant: the io.Copy that is commented out in the TLS handler.           *)
RunningWithDrain(h) ==
    [k \in Copiers |-> [pc |-> IF k = "drain" /\ Role(h) # "relay" THEN "off" ELSE "read", chunk |-> Header]]

Running(h) ==
    [k \in Copiers |-> [pc |-> IF k = "drain" /\ ~(Kind = "tcp" /\ Role(h) = "relay") THEN "off" ELSE "read",
                        chunk |-> Header]]

(* What handleConn waits for: the first error; in a TLS chain, two         *)
(* goroutines, each for any of the errors or its timer; in a TLS relay,    *)
(* both copies.                                                            *)
WaitsFor(h) == IF Kind = "tls" /\ Role(h) # "direct" THEN 2 ELSE 1

(* Dial the target of a direct rule, or the chain, to which the header is  *)
(* sent: its hop finds a new connection.                                   *)
Establish(h) ==
    /\ h = 1 /\ hop[1].pc = "setup"
    /\ end' = [end EXCEPT ![1] = [l |-> "open", r |-> "open"]]
    /\ wire' = IF Role(1) = "chain" THEN [wire EXCEPT ![1].up = <<Header>>] ELSE wire
    /\ hop' = [[hop EXCEPT ![1].pc = "run", ![1].waits = WaitsFor(1)]
                    EXCEPT ![2].pc = IF Hops = 2 THEN "setup" ELSE @]
    /\ copy' = [copy EXCEPT ![1] = Running(1)]
    /\ UNCHANGED <<path, sent, got, charged>>

(* Mutant: the reader is dropped, as the TLS handler does.                 *)
EstabDropsReader(h) ==
    /\ h = 2 /\ hop[2].pc = "setup" /\ wire[1].up # <<>>
    /\ \E more \in 0..(IF Kind = "tcp" THEN Len(wire[1].up) - 1 ELSE 0) :
        wire' = [wire EXCEPT ![1].up = SubSeq(@, more + 2, Len(@))]
    /\ hop' = [hop EXCEPT ![2] = [@ EXCEPT !.pc = "run", !.waits = WaitsFor(2)]]
    /\ end' = [end EXCEPT ![2] = [l |-> "open", r |-> "open"]]
    /\ copy' = [copy EXCEPT ![2] = Running(2)]
    /\ UNCHANGED <<path, sent, got, charged>>

(* estabFromHeader: the buffered reader may take more than the header; a   *)
(* TLS connection gives it one record, and the header is one.              *)
EstabFromHeader(h) ==
    /\ h = 2 /\ hop[2].pc = "setup" /\ wire[1].up # <<>>
    /\ \E more \in 0..(IF Kind = "tcp" THEN Len(wire[1].up) - 1 ELSE 0) :
        /\ hop' = [hop EXCEPT ![2] = [@ EXCEPT !.pc = "run", !.waits = WaitsFor(2),
                                               !.held = SubSeq(wire[1].up, 2, more + 1)]]
        /\ wire' = [wire EXCEPT ![1].up = SubSeq(@, more + 2, Len(@))]
    /\ end' = [end EXCEPT ![2] = [l |-> "open", r |-> "open"]]
    /\ copy' = [copy EXCEPT ![2] = Running(2)]
    /\ UNCHANGED <<path, sent, got, charged>>

Shut(e) == IF e = "none" THEN "none" ELSE "closed"

(* Close both connections of hop h.                                        *)
CloseEnds(h) == end' = [end EXCEPT ![h - 1].r = Shut(@), ![h].l = Shut(@)]

(* A Dial fails, or the header does not come: the TLS handler has a        *)
(* deferred close; the TCP handler leaves the connection to the collector. *)
SetupFails(h) ==
    /\ hop[h].pc = "setup"
    /\ IF Kind = "tls"
       THEN CloseEnds(h) /\ hop' = [hop EXCEPT ![h].pc = "done"]
       ELSE UNCHANGED end /\ hop' = [hop EXCEPT ![h].pc = "failed"]
    /\ UNCHANGED <<path, wire, copy, sent, got, charged>>

(* The finalizer of a connection nothing refers to.                        *)
Collect(h) ==
    /\ hop[h].pc = "failed"
    /\ CloseEnds(h)
    /\ hop' = [hop EXCEPT ![h].pc = "done"]
    /\ UNCHANGED <<path, wire, copy, sent, got, charged>>

-----------------------------------------------------------------------------
(* copyConn, and the io.Copy of the rest of the header's reader            *)

(* Mutant: the chain branch copies without counting, as the relay does.    *)
CountsOnlyDirect(h) == Role(h) = "direct"
Counts(h) == Role(h) # "relay"

Reading(h, k) == copy[h][k].pc = "read"

TakeHeld(h) ==
    /\ Reading(h, "drain") /\ hop[h].held # <<>>
    /\ copy' = [copy EXCEPT ![h]["drain"] = [pc |-> "write", chunk |-> Head(hop[h].held)]]
    /\ hop' = [hop EXCEPT ![h].held = Tail(@)]
    /\ UNCHANGED <<path, end, wire, sent, got, charged>>

Read(h, k) ==
    LET c == In(h, k)
    IN  /\ Reading(h, k) /\ NearIn(h, k) = "open" /\ wire[c][Way(k)] # <<>>
        /\ k = "drain" => hop[h].held = <<>>
        /\ copy' = [copy EXCEPT ![h][k] = [pc |-> "write", chunk |-> Head(wire[c][Way(k)])]]
        /\ wire' = [wire EXCEPT ![c][Way(k)] = Tail(@)]
        /\ charged' = IF Counts(h) THEN charged + 1 ELSE charged
        /\ UNCHANGED <<path, end, hop, sent, got>>

EndCopy(h, k) ==
    /\ copy' = [copy EXCEPT ![h][k].pc = "end"]
    /\ hop' = IF k = "drain" THEN hop ELSE [hop EXCEPT ![h].errs = @ + 1]
    /\ UNCHANGED <<path, end, wire, sent, got, charged>>

(* The end of the stream, a reset, or a connection closed here.            *)
ReadEnds(h, k) ==
    /\ Reading(h, k)
    /\ k = "drain" => hop[h].held = <<>>
    /\ \/ NearIn(h, k) = "closed"
       \/ FarIn(h, k) = "closed"
       \/ FarIn(h, k) = "shut" /\ wire[In(h, k)][Way(k)] = <<>>
    /\ EndCopy(h, k)

(* To an end that was closed, the first writes succeed all the same.       *)
Write(h, k) ==
    LET c     == Out(h, k)
        chunk == copy[h][k].chunk
    IN  /\ copy[h][k].pc = "write" /\ NearOut(h, k) # "closed"
        /\ copy' = [copy EXCEPT ![h][k].pc = "read"]
        /\ IF FarOut(h, k) = "closed" THEN UNCHANGED <<wire, got>>
           ELSE IF c \in {0, Hops}
           THEN got' = [got EXCEPT ![Way(k)] = Append(@, chunk)] /\ UNCHANGED wire
           ELSE wire' = [wire EXCEPT ![c][Way(k)] = Append(@, chunk)] /\ UNCHANGED got
        /\ UNCHANGED <<path, end, hop, sent, charged>>

WriteFails(h, k) ==
    /\ copy[h][k].pc = "write"
    /\ "closed" \in {NearOut(h, k), FarOut(h, k)}
    /\ EndCopy(h, k)

-----------------------------------------------------------------------------
(* handleConn: the end                                                     *)

(* One of the two goroutines of a TLS chain takes an error ...             *)
WaiterTakes(h) ==
    /\ Kind = "tls" /\ Role(h) = "chain"
    /\ hop[h].pc = "run" /\ hop[h].waits > 0 /\ hop[h].errs > 0
    /\ hop' = [hop EXCEPT ![h].waits = @ - 1, ![h].errs = @ - 1]
    /\ UNCHANGED <<path, end, wire, copy, sent, got, charged>>

(* ... or has waited for ten minutes, however busy the connection is.      *)
WaiterTimesOut(h) ==
    /\ Kind = "tls" /\ Role(h) = "chain"
    /\ hop[h].pc = "run" /\ hop[h].waits > 0
    /\ hop' = [hop EXCEPT ![h].waits = @ - 1]
    /\ UNCHANGED <<path, end, wire, copy, sent, got, charged>>

(* Mutant: wait for both copies.                                           *)
FinishedBoth(h) ==
    IF Kind = "tls" /\ Role(h) = "chain" THEN hop[h].waits = 0
    ELSE hop[h].errs >= 2 /\ copy[h]["drain"].pc \in {"off", "end"}

Finished(h) ==
    IF Kind = "tls" /\ Role(h) = "chain" THEN hop[h].waits = 0
    ELSE hop[h].errs >= hop[h].waits /\ copy[h]["drain"].pc \in {"off", "end"}

Finish(h) ==
    /\ hop[h].pc = "run" /\ Finished(h)
    /\ CloseEnds(h)
    /\ hop' = [hop EXCEPT ![h].pc = "done"]
    /\ UNCHANGED <<path, wire, copy, sent, got, charged>>

-----------------------------------------------------------------------------
(* The client (left end of channel 0) and the target (right end of the     *)
(* last channel)                                                           *)

Peer(d) == IF d = "up" THEN [chan |-> 0, side |-> "l"] ELSE [chan |-> Hops, side |-> "r"]
PeerEnd(d) == end[Peer(d).chan][Peer(d).side]

Send(d) ==
    /\ PeerEnd(d) = "open" /\ sent[d] < Limit[d]
    /\ sent' = [sent EXCEPT ![d] = @ + 1]
    /\ wire' = [wire EXCEPT ![Peer(d).chan][d] = Append(@, sent[d] + 1)]
    /\ UNCHANGED <<path, end, hop, copy, got, charged>>

(* Half-close (a FIN and no more data), or close.                          *)
Leave(d) ==
    /\ \E e \in {"shut", "closed"} :
        /\ PeerEnd(d) = "open" \/ (PeerEnd(d) = "shut" /\ e = "closed")
        /\ end' = [end EXCEPT ![Peer(d).chan][Peer(d).side] = e]
    /\ UNCHANGED <<path, wire, hop, copy, sent, got, charged>>

-----------------------------------------------------------------------------
NoEnds == [l |-> "none", r |-> "none"]
NoHop  == [pc |-> "idle", held |-> <<>>, errs |-> 0, waits |-> 0]
Off    == [k \in Copiers |-> [pc |-> "off", chunk |-> Header]]

(* The client is connected and handleConn is at pc.                        *)
ConnectedAt(pc) ==
    /\ path \in Paths
    /\ end = [c \in 0..2 |-> IF c = 0 THEN [l |-> "open", r |-> "open"] ELSE NoEnds]
    /\ wire = [c \in 0..2 |-> [up |-> <<>>, down |-> <<>>]]
    /\ hop = [h \in 1..2 |-> IF h = 1 THEN [NoHop EXCEPT !.pc = pc] ELSE NoHop]
    /\ copy = [h \in 1..2 |-> Off]
    /\ sent = [up |-> 0, down |-> 0]
    /\ got = [up |-> <<>>, down |-> <<>>]
    /\ charged = 0

Init == ConnectedAt("setup")

Copy(h, k) ==
    \/ Read(h, k) \/ ReadEnds(h, k) \/ Write(h, k) \/ WriteFails(h, k)
    \/ k = "drain" /\ TakeHeld(h)

Setup(h) == Establish(h) \/ EstabFromHeader(h) \/ SetupFails(h)

Next ==
    \/ \E h \in 1..Hops :
        \/ Setup(h) \/ Collect(h) \/ WaiterTakes(h) \/ WaiterTimesOut(h) \/ Finish(h)
        \/ \E k \in Copiers : Copy(h, k)
    \/ \E d \in Dirs : Send(d) \/ Leave(d)

Spec == Init /\ [][Next]_vars

(* Goroutines run, timers fire, the collector is forced every two minutes. *)
(* Nothing is asked of the client and the target.                          *)
Fairness ==
    \A h \in 1..2 :
        /\ WF_vars(Setup(h)) /\ WF_vars(Collect(h)) /\ WF_vars(Finish(h))
        /\ WF_vars(WaiterTakes(h)) /\ WF_vars(WaiterTimesOut(h))
        /\ \A k \in Copiers : WF_vars(Copy(h, k))

FairSpec == Spec /\ Fairness

-----------------------------------------------------------------------------
(* Properties *)

TcpChain == path = <<"tcp", 2>>
TlsChain == path = <<"tls", 2>>

(* What comes out is a prefix of what went in, whenever the connection     *)
(* ends.  Not so for what the client of a TCP chain sends: two readers of  *)
(* one connection, the copy and the drain, write to the target.            *)
InOrder ==
    \A d \in Dirs :
        (TcpChain /\ d = "up") \/ \A i \in DOMAIN got[d] : got[d][i] = i

(* The chunks of a direction that are in a channel, in the hands of a      *)
(* copy or in the header's reader.                                         *)
Underway(d) ==
    LET copying == {x \in (1..2) \X Copiers : Way(x[2]) = d /\ copy[x[1]][x[2]].pc = "write"}
    IN  ((UNION {ToSet(wire[c][d]) : c \in 0..2})
            \cup {copy[x[1]][x[2]].chunk : x \in copying}
            \cup (IF d = "up" THEN ToSet(hop[2].held) ELSE {})) \ {Header}

(* Until a hop closes the connection or one of the two peers does, every   *)
(* chunk was received, once, or is on its way: also what the header's      *)
(* reader took beyond the header.                                          *)
NothingLost ==
    (\A c \in 0..2 : "closed" \notin {end[c].l, end[c].r}) =>
        \A d \in Dirs :
            /\ ToSet(got[d]) \cup Underway(d) = 1..sent[d]
            /\ Cardinality(ToSet(got[d])) = Len(got[d])

(* Nothing comes out that the rule's counter has not seen: neither a path  *)
(* nor an ending lets traffic pass for free.                               *)
DeliveredIsCharged == Len(got.up) + Len(got.down) <= charged

PeerClosed(d) == PeerEnd(d) = "closed"
PeerLeft(d)   == PeerEnd(d) \in {"shut", "closed"}

(* The peer that direction d leads to sees the end of the connection, or   *)
(* was never connected.                                                    *)
FarPeerTold(d) ==
    IF d = "up" THEN end[Hops].l \in {"none", "closed"} ELSE end[0].r = "closed"

(* When one peer ends its side, the connection of the other is closed too, *)
(* however silent it is.  Two exceptions.  In a TCP chain the end of the   *)
(* target does not reach the client, because the handler of the relay is   *)
(* still in io.Copy, reading from a client that may be waiting for that    *)
(* very end.  In a TLS chain the end of the client does not reach the      *)
(* target, because the relay waits for both copies and has no timer.  When *)
(* both peers have closed, every hop closes both its connections.          *)
ConnectionsEnd ==
    /\ (PeerLeft("up") /\ ~TlsChain) ~> FarPeerTold("up")
    /\ (PeerLeft("down") /\ ~TcpChain) ~> FarPeerTold("down")
    /\ (PeerClosed("up") /\ PeerClosed("down"))
            ~> \A c \in 0..2 : "open" \notin {end[c].l, end[c].r}
=============================================================================
