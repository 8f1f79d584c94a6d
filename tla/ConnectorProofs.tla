--------------------------- MODULE ConnectorProofs ---------------------------
(***************************************************************************)
(* Theorems about the two connectors that make connections, or exchanges,  *)
(* of the datagrams of one socket, for any number of peers, connections    *)
(* and goroutines.                                                         *)
(***************************************************************************)
EXTENDS UdpListener, UdpExchange, TLAPS

-----------------------------------------------------------------------------
(* UDPConnectorV2: the one buffer *)

(* The datagram of a goroutine that has not sent it is in the buffer still,*)
(* unless another one was read since; what it has sent is then what its    *)
(* client gave it.                                                         *)
OwnData(g) ==
    LET c == call[g]
    IN  /\ c.step # "ended" => c.client \in Clients
        /\ c.step \in {"await", "answer"} => c.data \in Clients \cup {Torn}
        /\ Unsent(g) => client \in Clients
        /\ (Unsent(g) /\ c.client \notin raced) => ~c.late /\ client = c.client
        /\ (c.step \in {"await", "answer"} /\ c.client \notin raced) => c.data = c.client

(* The inductive invariant of UDPConnectorV2.                              *)
ExchangeInv ==
    /\ ExchangeTypeOK
    /\ \A g \in Calls : OwnData(g)
    /\ AnsweredOnlyByRace

(* A goroutine that ends.                                                  *)
LEMMA CallEndsFacts ==
  ASSUME ExchangeInv, NEW g \in Calls, CallEnds(g), client' = client, raced' = raced
  PROVE  /\ call' \in [Calls -> CallTypes]
         /\ \A x \in Calls : OwnData(x)'
<1>1. NoCall \in CallTypes /\ NoCall.step = "ended"
  BY DEF NoCall, CallTypes
<1>2. call' \in [Calls -> CallTypes] /\ call'[g] = NoCall /\ \A x \in Calls : x # g => call'[x] = call[x]
  BY <1>1 DEF CallEnds, ExchangeInv, ExchangeTypeOK
<1>3. OwnData(g)'
  BY <1>1, <1>2 DEF OwnData, Unsent
<1>4. ASSUME NEW x \in Calls, x # g
      PROVE  OwnData(x)'
  BY <1>2, <1>4 DEF ExchangeInv, OwnData, Unsent
<1> QED
  BY <1>2, <1>3, <1>4

(* A goroutine that goes on without touching its data.                     *)
LEMMA CallGoesFacts ==
  ASSUME ExchangeInv, NEW g \in Calls, NEW step \in {"send", "answer"}, CallGoes(g, step),
         step = "send" => call[g].step = "dial", step = "answer" => call[g].step = "await",
         client' = client, raced' = raced
  PROVE  /\ call' \in [Calls -> CallTypes]
         /\ \A x \in Calls : OwnData(x)'
<1>1. call[g] \in CallTypes
  BY DEF ExchangeInv, ExchangeTypeOK
<1>2. /\ call' \in [Calls -> CallTypes] /\ \A x \in Calls : x # g => call'[x] = call[x]
      /\ call'[g].step = step /\ call'[g].client = call[g].client
      /\ call'[g].data = call[g].data /\ call'[g].late = call[g].late
  <2>1. [call[g] EXCEPT !.step = step] \in CallTypes
    BY <1>1 DEF CallTypes
  <2>2. call' = [call EXCEPT ![g] = [call[g] EXCEPT !.step = step]]
    BY DEF CallGoes
  <2> QED
    BY <1>1, <2>1, <2>2 DEF ExchangeInv, ExchangeTypeOK, CallTypes
<1>3. OwnData(g)'
  BY <1>2 DEF ExchangeInv, OwnData, Unsent
<1>4. ASSUME NEW x \in Calls, x # g
      PROVE  OwnData(x)'
  BY <1>2, <1>4 DEF ExchangeInv, OwnData, Unsent
<1> QED
  BY <1>2, <1>3, <1>4

(* A datagram is read over those that are not sent yet: their clients are  *)
(* history.                                                                *)
LEMMA ReadDatagramStep ==
  ASSUME ExchangeInv, NEW c \in Clients, NEW g \in Calls, ReadDatagram(c, g)
  PROVE  ExchangeInv'
<1>1. /\ client' = c /\ UNCHANGED <<sock, answered>> /\ call[g].step = "ended"
      /\ call' = [x \in Calls |->
                    IF x = g THEN [NoCall EXCEPT !.step = "dial", !.client = c]
                    ELSE [call[x] EXCEPT !.late = @ \/ Unsent(x)]]
      /\ raced' = raced \cup { call[x].client : x \in { y \in Calls : Unsent(y) } }
  BY DEF ReadDatagram
<1>2. \A x \in Calls : call[x] \in CallTypes
  BY DEF ExchangeInv, ExchangeTypeOK
<1>3. /\ call'[g] \in CallTypes /\ call'[g].step = "dial" /\ call'[g].client = c /\ call'[g].late = FALSE
  BY <1>1 DEF NoCall, CallTypes
<1>4. ASSUME NEW x \in Calls, x # g
      PROVE  /\ call'[x] \in CallTypes
             /\ call'[x].step = call[x].step /\ call'[x].client = call[x].client
             /\ call'[x].data = call[x].data
             /\ call'[x].late => call[x].late \/ Unsent(x)
  <2>1. PICK d \in CallTypes : d = call[x]
    BY <1>2
  <2>2. PICK l \in BOOLEAN : l <=> (d.late \/ Unsent(x))
    OBVIOUS
  <2>3. call'[x] = [d EXCEPT !.late = l]
    BY <1>1, <1>4, <2>1, <2>2 DEF CallTypes
  <2>4. /\ [d EXCEPT !.late = l] \in CallTypes
        /\ LET e == [d EXCEPT !.late = l]
           IN  e.step = d.step /\ e.client = d.client /\ e.data = d.data /\ e.late = l
    BY DEF CallTypes
  <2> QED
    BY <2>1, <2>2, <2>3, <2>4
<1>5. raced' \subseteq Clients /\ raced \subseteq raced'
  BY <1>1 DEF ExchangeInv, ExchangeTypeOK, OwnData, Unsent
<1>6. ExchangeTypeOK'
  <2>1. call' \in [Calls -> CallTypes]
    BY <1>1, <1>3, <1>4
  <2> QED
    BY <1>1, <1>5, <2>1 DEF ExchangeInv, ExchangeTypeOK
<1>7. OwnData(g)'
  BY <1>1, <1>3 DEF OwnData, Unsent
<1>8. ASSUME NEW x \in Calls, x # g
      PROVE  OwnData(x)'
  <2>1. Unsent(x) => call[x].client \in raced'
    BY <1>1
  <2> QED
    BY <1>1, <1>4, <1>5, <1>8, <2>1 DEF ExchangeInv, OwnData, Unsent
<1>9. AnsweredOnlyByRace'
  BY <1>1, <1>5 DEF ExchangeInv, AnsweredOnlyByRace
<1> QED
  BY <1>6, <1>7, <1>8, <1>9 DEF ExchangeInv

(* What a goroutine sends is the buffer, or torn when it is late.          *)
LEMMA SendOnStep ==
  ASSUME ExchangeInv, NEW g \in Calls, SendOn(g)
  PROVE  ExchangeInv'
<1>1. call[g].step = "send" /\ UNCHANGED <<sock, client, answered, raced>> /\ call[g] \in CallTypes
  BY DEF SendOn, ExchangeInv, ExchangeTypeOK
<1>2. AnsweredOnlyByRace'
  BY <1>1 DEF ExchangeInv, AnsweredOnlyByRace
<1>3. CASE CallEnds(g)
  BY <1>1, <1>2, <1>3, CallEndsFacts DEF ExchangeInv, ExchangeTypeOK
<1>4. ASSUME NEW data \in {client} \cup (IF call[g].late THEN {Torn} ELSE {}),
             call' = [call EXCEPT ![g].step = "await", ![g].data = data]
      PROVE  ExchangeInv'
  <2>1. data \in Clients \cup {Torn} /\ (call[g].client \notin raced => data = call[g].client)
    BY <1>1, <1>4 DEF ExchangeInv, OwnData, Unsent
  <2>2. /\ call' \in [Calls -> CallTypes] /\ \A x \in Calls : x # g => call'[x] = call[x]
        /\ call'[g].step = "await" /\ call'[g].client = call[g].client /\ call'[g].data = data
    <3>1. call' = [call EXCEPT ![g] = [call[g] EXCEPT !.step = "await", !.data = data]]
      BY <1>4
    <3>2. [call[g] EXCEPT !.step = "await", !.data = data] \in CallTypes
      BY <1>1, <2>1 DEF CallTypes
    <3> QED
      BY <1>1, <3>1, <3>2 DEF ExchangeInv, ExchangeTypeOK, CallTypes
  <2>3. OwnData(g)'
    BY <1>1, <2>1, <2>2 DEF ExchangeInv, OwnData, Unsent
  <2>4. ASSUME NEW x \in Calls, x # g
        PROVE  OwnData(x)'
    BY <1>1, <2>2, <2>4 DEF ExchangeInv, OwnData, Unsent
  <2> QED
    BY <1>1, <1>2, <2>2, <2>3, <2>4 DEF ExchangeInv, ExchangeTypeOK
<1> QED
  BY <1>3, <1>4 DEF SendOn

(* The answer is to what was sent, and goes to the goroutine's client.     *)
LEMMA AnswerStep ==
  ASSUME ExchangeInv, NEW g \in Calls, Answer(g)
  PROVE  ExchangeInv'
<1>1. /\ call[g].step = "answer" /\ CallEnds(g) /\ UNCHANGED <<sock, client, raced>>
      /\ answered' = IF sock THEN [answered EXCEPT ![call[g].client] = @ \cup {call[g].data}] ELSE answered
  BY DEF Answer
<1>2. /\ call[g].client \in Clients /\ call[g].data \in Clients \cup {Torn}
      /\ call[g].client \notin raced => call[g].data = call[g].client
  BY <1>1 DEF ExchangeInv, OwnData
<1>3. /\ answered' \in [Clients -> SUBSET (Clients \cup {Torn})]
      /\ \A c \in Clients : answered'[c] \subseteq
            answered[c] \cup (IF c = call[g].client THEN {call[g].data} ELSE {})
  BY <1>1, <1>2 DEF ExchangeInv, ExchangeTypeOK
<1>4. AnsweredOnlyByRace'
  BY <1>1, <1>2, <1>3 DEF ExchangeInv, AnsweredOnlyByRace
<1> QED
  BY <1>1, <1>3, <1>4, CallEndsFacts DEF ExchangeInv, ExchangeTypeOK

(* The invariant of the buffer and the goroutines that share it.           *)
THEOREM Exchanged == ExchangeSpec => []ExchangeInv
<1>1. ExchangeInit => ExchangeInv
  <2>1. NoCall \in CallTypes /\ NoCall.step = "ended"
    BY DEF NoCall, CallTypes
  <2> QED
    BY <2>1 DEF ExchangeInit, ExchangeInv, ExchangeTypeOK, OwnData, Unsent, AnsweredOnlyByRace
<1>2. ASSUME ExchangeInv, [ExchangeNext]_exchangeVars
      PROVE  ExchangeInv'
  <2>1. ASSUME NEW c \in Clients, NEW g \in Calls, ReadDatagram(c, g)
        PROVE  ExchangeInv'
    BY <1>2, <2>1, ReadDatagramStep
  <2>2. ASSUME NEW g \in Calls, DialTarget(g) \/ Await(g)
        PROVE  ExchangeInv'
    <3>1. UNCHANGED <<sock, client, answered, raced>>
      BY <2>2 DEF DialTarget, Await
    <3>2. AnsweredOnlyByRace'
      BY <1>2, <3>1 DEF ExchangeInv, AnsweredOnlyByRace
    <3>3. call' \in [Calls -> CallTypes] /\ \A x \in Calls : OwnData(x)'
      <4>1. CASE CallEnds(g)
        BY <1>2, <3>1, <4>1, CallEndsFacts
      <4>2. CASE call[g].step = "dial" /\ CallGoes(g, "send")
        BY <1>2, <3>1, <4>2, CallGoesFacts
      <4>3. CASE call[g].step = "await" /\ CallGoes(g, "answer")
        BY <1>2, <3>1, <4>3, CallGoesFacts
      <4> QED
        BY <2>2, <4>1, <4>2, <4>3 DEF DialTarget, Await
    <3> QED
      BY <1>2, <3>1, <3>2, <3>3 DEF ExchangeInv, ExchangeTypeOK
  <2>3. ASSUME NEW g \in Calls, SendOn(g) \/ Answer(g)
        PROVE  ExchangeInv'
    BY <1>2, <2>3, SendOnStep, AnswerStep
  <2>4. CASE CloseSocket \/ UNCHANGED exchangeVars
    <3>1. UNCHANGED <<client, call, answered, raced>> /\ sock' \in BOOLEAN
      BY <1>2, <2>4 DEF CloseSocket, exchangeVars, ExchangeInv, ExchangeTypeOK
    <3> QED
      BY <1>2, <3>1 DEF ExchangeInv, ExchangeTypeOK, OwnData, Unsent, AnsweredOnlyByRace
  <2> QED
    BY <1>2, <2>1, <2>2, <2>3, <2>4 DEF ExchangeNext, CallSteps
<1> QED
  BY <1>1, <1>2, PTL DEF ExchangeSpec

(* A client is answered with another's datagram only when another datagram *)
(* was read into the buffer before its own was sent.                       *)
THEOREM AnsweredByRace == ExchangeSpec => []AnsweredOnlyByRace
<1>1. ExchangeInv => AnsweredOnlyByRace
  BY DEF ExchangeInv
<1> QED
  BY <1>1, Exchanged, PTL

-----------------------------------------------------------------------------
(* UDPConnector: the map of connections *)

(* Serve will come to the connection, Handle is at it, or Handle gave up.  *)
Attended(c) ==
    \/ c \in Range(backlog)
    \/ conn[c].handler \notin {"none", "gone"}
    \/ conn[c].failed

(* listen() has a peer and a connection of that peer in its hands.         *)
Held ==
    /\ reader \in {"offer", "store", "refuse", "enqueue"} => cur.peer \in Peers /\ cur.conn \in Conns
    /\ reader = "offer" => Len(backlog) < Backlog \/ refused < MaxRefused
    /\ reader \in {"offer", "store"} => conn[cur.conn].peer = cur.peer
    /\ reader = "store" => Attended(cur.conn) \/ conn[cur.conn].state = "closed"

(* What EntriesServed says of an entry.                                    *)
ServedEntry(p) ==
    LET c == entries[p]
    IN  c \in early \/ (conn[c].state = "open" /\ conn[c].peer = p /\ Attended(c))

(* The inductive invariant of UDPConnector.                                *)
ListenerInv ==
    /\ ListenerTypeOK
    /\ Held
    /\ \A p \in Entries : ServedEntry(p)

(* The goroutines of a connection change neither its peer nor, but for     *)
(* Close, its state, and leave it attended or closed.                      *)
Continues(c, rec) ==
    /\ rec \in ConnTypes
    /\ rec.peer = conn[c].peer /\ rec.state = conn[c].state
    /\ conn[c].failed => rec.failed
    /\ conn[c].handler \notin {"none", "gone"} =>
            rec.handler \notin {"none", "gone"} \/ rec.failed \/ conn[c].state = "closed"

(* Such a step keeps the invariant.                                        *)
LEMMA OwnStep ==
  ASSUME ListenerInv, NEW c \in Conns, NEW rec, Own(c, rec), Continues(c, rec)
  PROVE  ListenerInv'
<1>1. /\ conn' \in [Conns -> ConnTypes] /\ conn'[c] = rec /\ \A d \in Conns : d # c => conn'[d] = conn[d]
      /\ UNCHANGED <<mode, ln, stored, server, reader, cur, backlog, entries, refused, early>>
  BY DEF Own, Continues, ListenerInv, ListenerTypeOK
<1>2. ListenerTypeOK'
  BY <1>1 DEF ListenerInv, ListenerTypeOK
<1>3. \A d \in Conns : /\ conn'[d].peer = conn[d].peer /\ conn'[d].state = conn[d].state
                       /\ Attended(d) => Attended(d)' \/ conn[d].state = "closed"
  <2>1. SUFFICES ASSUME NEW d \in Conns
                 PROVE  /\ conn'[d].peer = conn[d].peer /\ conn'[d].state = conn[d].state
                        /\ Attended(d) => Attended(d)' \/ conn[d].state = "closed"
    OBVIOUS
  <2>2. CASE d = c
    BY <1>1, <2>2 DEF Continues, Attended
  <2>3. CASE d # c
    BY <1>1, <2>3 DEF Attended
  <2> QED
    BY <2>2, <2>3
<1>4. Held'
  <2>1. reader = "store" => Attended(cur.conn)' \/ conn'[cur.conn].state = "closed"
    <3>1. CASE reader = "store"
      <4>1. PICK d \in Conns : d = cur.conn
        BY <3>1 DEF ListenerInv, Held
      <4>2. Attended(d)' \/ conn'[d].state = "closed"
        BY <3>1, <4>1, <1>3 DEF ListenerInv, Held
      <4> QED
        BY <4>1, <4>2, <1>1
    <3> QED
      BY <3>1
  <2> QED
    BY <1>1, <1>3, <2>1 DEF ListenerInv, Held
<1>5. ASSUME NEW p \in Entries
      PROVE  ServedEntry(p)'
  <2>1. PICK d \in Conns : d = entries[p]
    BY DEF ListenerInv, ListenerTypeOK, Entries
  <2>2. d \in early \/ (conn[d].state = "open" /\ conn[d].peer = p /\ Attended(d))
    BY <2>1 DEF ListenerInv, ServedEntry
  <2>3. d \in early \/ (conn'[d].state = "open" /\ conn'[d].peer = p /\ Attended(d)')
    BY <1>3, <2>2
  <2> QED
    BY <1>1, <2>1, <2>3 DEF ServedEntry
<1>6. Entries' = Entries
  BY <1>1 DEF Entries
<1> QED
  BY <1>2, <1>4, <1>5, <1>6 DEF ListenerInv

(* What Handle and the timer make of a connection.                         *)
LEMMA RecordFacts ==
  ASSUME ListenerTypeOK, NEW rec \in ConnTypes
  PROVE  /\ Touched(rec) \in ConnTypes
         /\ rec.queue > 0 => Taken(rec) \in ConnTypes
         /\ GivenUp(rec) \in ConnTypes /\ Relaying(rec) \in ConnTypes /\ Ended(rec) \in ConnTypes
         /\ \A new \in {Touched(rec), Taken(rec), GivenUp(rec), Relaying(rec), Ended(rec)} :
                new.peer = rec.peer /\ new.state = rec.state /\ (rec.failed => new.failed)
         /\ Touched(rec).handler = rec.handler /\ Taken(rec).handler = rec.handler
         /\ GivenUp(rec).failed
         /\ Relaying(rec).handler = "relay" /\ Ended(rec).handler \in {"drain", "close"}
<1>1. /\ Touched(rec) \in ConnTypes /\ Touched(rec).handler = rec.handler
      /\ Touched(rec).peer = rec.peer /\ Touched(rec).state = rec.state /\ Touched(rec).failed = rec.failed
  BY DEF Touched, ConnTypes
<1>2. /\ GivenUp(rec) \in ConnTypes /\ GivenUp(rec).failed
      /\ GivenUp(rec).peer = rec.peer /\ GivenUp(rec).state = rec.state
  BY DEF GivenUp, ConnTypes
<1>3. /\ Relaying(rec) \in ConnTypes /\ Relaying(rec).handler = "relay"
      /\ Relaying(rec).peer = rec.peer /\ Relaying(rec).state = rec.state /\ Relaying(rec).failed = rec.failed
  BY DEF Relaying, ConnTypes
<1>4. /\ Ended(rec) \in ConnTypes /\ Ended(rec).handler \in {"drain", "close"}
      /\ Ended(rec).peer = rec.peer /\ Ended(rec).state = rec.state /\ Ended(rec).failed = rec.failed
  BY DEF Ended, ConnTypes
<1>5. /\ rec.queue > 0 => Taken(rec) \in ConnTypes
      /\ Taken(rec).handler = rec.handler
      /\ Taken(rec).peer = rec.peer /\ Taken(rec).state = rec.state /\ Taken(rec).failed = rec.failed
  <2>1. PICK less : less = [rec EXCEPT !.queue = @ - 1]
    OBVIOUS
  <2>2. Taken(rec) = [less EXCEPT !.ttl = IF @ = "wait" THEN "reset" ELSE @]
    BY <2>1 DEF Taken, Touched
  <2>3. /\ rec.queue > 0 => less \in ConnTypes
        /\ less.handler = rec.handler /\ less.peer = rec.peer /\ less.state = rec.state
        /\ less.failed = rec.failed
        /\ DOMAIN less = DOMAIN rec /\ less = [f \in DOMAIN less |-> less[f]]
    BY <2>1, ListenerAssumption DEF ConnTypes
  <2> QED
    BY ZenonT(40), <2>1, <2>2, <2>3, ListenerAssumption DEF ConnTypes
<1> QED
  BY <1>1, <1>2, <1>3, <1>4, <1>5

(* Steps that change no connection: what is attended stays attended as     *)
(* long as the backlog only grows.                                         *)
LEMMA SameConns ==
  ASSUME conn' = conn, Range(backlog) \subseteq Range(backlog')
  PROVE  \A c : Attended(c) => Attended(c)'
BY DEF Attended

(* Steps of the socket and of Serve, which touch no connection's entry.    *)
LEMMA QuietStep ==
  ASSUME ListenerInv, UNCHANGED <<mode, cur, backlog, conn, entries, refused, early>>,
         ListenerTypeOK', reader' = reader \/ reader' \in {"read", "fail", "done", "none"}
  PROVE  ListenerInv'
<1>1. \A c : Attended(c) => Attended(c)'
  BY DEF Attended
<1>2. Held'
  BY DEF ListenerInv, Held, Attended
<1>3. Entries' = Entries /\ \A p \in Entries : ServedEntry(p)'
  BY DEF ListenerInv, Entries, ServedEntry, Attended
<1> QED
  BY <1>2, <1>3 DEF ListenerInv

(* The steps that touch neither a connection nor the map: Listen,          *)
(* StoreConn, Close and the errors of the socket.                          *)
LEMMA SocketSteps ==
  ASSUME ListenerInv, Listen \/ StoreConn \/ Close \/ AcceptError \/ ReadFails
  PROVE  ListenerInv'
<1>1. ListenerTypeOK'
  BY DEF ListenerInv, ListenerTypeOK, Listen, StoreConn, Close, AcceptError, ReadFails
<1>2. /\ UNCHANGED <<mode, cur, backlog, conn, entries, refused, early>>
      /\ reader' = reader \/ reader' \in {"read", "fail", "done", "none"}
  BY DEF Listen, StoreConn, Close, AcceptError, ReadFails
<1> QED
  BY <1>1, <1>2, QuietStep

(* The connection Serve accepts leaves the backlog and is being handled.   *)
LEMMA AcceptStep ==
  ASSUME ListenerInv, Accept
  PROVE  ListenerInv'
<1>1. /\ backlog # <<>> /\ backlog' = Tail(backlog) /\ backlog \in Seq(Conns)
      /\ UNCHANGED <<mode, ln, stored, server, reader, cur, entries, refused, early>>
  BY DEF Accept, ListenerInv, ListenerTypeOK
<1>2. PICK h \in Conns : h = Head(backlog)
  BY <1>1
<1>3. /\ conn' \in [Conns -> ConnTypes] /\ conn'[h].handler = "dial"
      /\ conn'[h].state = conn[h].state /\ conn'[h].peer = conn[h].peer
      /\ \A d \in Conns : d # h => conn'[d] = conn[d]
  <2>1. conn' = [conn EXCEPT ![h] = [conn[h] EXCEPT !.handler = "dial"]] /\ conn[h] \in ConnTypes
    BY <1>2 DEF Accept, Set, ListenerInv, ListenerTypeOK
  <2>2. [conn[h] EXCEPT !.handler = "dial"] \in ConnTypes
    BY <2>1 DEF ConnTypes
  <2> QED
    BY <2>1, <2>2 DEF ListenerInv, ListenerTypeOK, ConnTypes
<1>4. backlog' \in Seq(Conns) /\ Len(backlog') <= Backlog
  BY <1>1, ListenerAssumption DEF ListenerInv, ListenerTypeOK
<1>5. ListenerTypeOK'
  BY <1>1, <1>3, <1>4 DEF ListenerInv, ListenerTypeOK
<1>6. \A d \in Conns : d \in Range(backlog) => d = h \/ d \in Range(backlog')
  <2>1. SUFFICES ASSUME NEW i \in 1..Len(backlog), i # 1
                 PROVE  backlog[i] \in Range(backlog')
    BY <1>1, <1>2 DEF Range
  <2>2. i - 1 \in 1..Len(backlog') /\ backlog'[i - 1] = backlog[i]
    <3>1. PICK s \in Seq(Conns) : s = backlog
      BY <1>1
    <3>2. /\ Len(s) \in Nat /\ i \in 2..Len(s) /\ s # <<>>
      BY <2>1, <3>1
    <3>3. i - 1 \in 1..Len(Tail(s)) /\ Tail(s)[i - 1] = s[i]
      BY <3>2
    <3> QED
      BY <1>1, <3>1, <3>3
  <2> QED
    BY <1>4, <2>2 DEF Range
<1>7. \A d \in Conns : /\ conn'[d].peer = conn[d].peer /\ conn'[d].state = conn[d].state
                       /\ Attended(d) => Attended(d)'
  BY <1>3, <1>6 DEF Attended
<1>8. Held'
  <2>1. reader = "store" => Attended(cur.conn)' \/ conn'[cur.conn].state = "closed"
    <3>1. CASE reader = "store"
      <4>1. PICK d \in Conns : d = cur.conn
        BY <3>1 DEF ListenerInv, Held
      <4>2. Attended(d)' \/ conn'[d].state = "closed"
        BY <3>1, <4>1, <1>7 DEF ListenerInv, Held
      <4> QED
        BY <4>1, <4>2, <1>1
    <3> QED
      BY <3>1
  <2>2. reader = "offer" => Len(backlog') < Backlog \/ refused < MaxRefused
    BY <1>1, <1>4, ListenerAssumption DEF ListenerInv, ListenerTypeOK
  <2> QED
    BY <1>1, <1>7, <2>1, <2>2 DEF ListenerInv, Held
<1>9. ASSUME NEW p \in Entries
      PROVE  ServedEntry(p)'
  <2>1. PICK d \in Conns : d = entries[p]
    BY DEF ListenerInv, ListenerTypeOK, Entries
  <2>2. d \in early \/ (conn[d].state = "open" /\ conn[d].peer = p /\ Attended(d))
    BY <2>1 DEF ListenerInv, ServedEntry
  <2>3. d \in early \/ (conn'[d].state = "open" /\ conn'[d].peer = p /\ Attended(d)')
    BY <1>7, <2>2
  <2> QED
    BY <1>1, <2>1, <2>3 DEF ServedEntry
<1>10. Entries' = Entries
  BY <1>1 DEF Entries
<1> QED
  BY <1>5, <1>8, <1>9, <1>10 DEF ListenerInv

(* A datagram of a peer with an entry.                                     *)
LEMMA ReceiveKnownStep ==
  ASSUME ListenerInv, NEW p \in Peers, ReceiveKnown(p)
  PROVE  ListenerInv'
<1>1. /\ cur' = [peer |-> p, conn |-> entries[p]] /\ entries[p] \in Conns /\ reader' = "enqueue"
      /\ UNCHANGED <<mode, ln, stored, server, backlog, conn, entries, refused, early>>
  BY DEF ReceiveKnown, ListenerInv, ListenerTypeOK
<1>2. ListenerTypeOK'
  BY <1>1 DEF ListenerInv, ListenerTypeOK
<1>3. Held'
  BY <1>1 DEF Held
<1>4. Entries' = Entries /\ \A q \in Entries : ServedEntry(q)'
  BY <1>1 DEF ListenerInv, Entries, ServedEntry, Attended
<1> QED
  BY <1>2, <1>3, <1>4 DEF ListenerInv

(* A new connection takes a free id, which no entry holds.                 *)
LEMMA ReceiveNewStep ==
  ASSUME ListenerInv, NEW p \in Peers, NEW c \in Conns, ReceiveNew(p, c)
  PROVE  ListenerInv'
<1>1. /\ c \notin Range(backlog) \cup Range(entries)
      /\ Len(backlog) < Backlog \/ refused < MaxRefused
      /\ conn' = [conn EXCEPT ![c] = [Spent EXCEPT !.state = "open", !.peer = p, !.ttl = "wait"]]
      /\ cur' = [peer |-> p, conn |-> c] /\ reader' = "offer" /\ early' = early \ {c}
      /\ UNCHANGED <<mode, ln, stored, server, backlog, entries, refused>>
  BY DEF ReceiveNew, Free
<1>2. /\ conn' \in [Conns -> ConnTypes] /\ conn'[c].peer = p
      /\ \A d \in Conns : d # c => conn'[d] = conn[d]
  <2>1. [Spent EXCEPT !.state = "open", !.peer = p, !.ttl = "wait"] \in ConnTypes
    <3>1. PICK spent \in ConnTypes : spent = Spent
      <4>1. 0 \in 0..QueueSize
        BY ListenerAssumption
      <4> QED
        BY <4>1 DEF Spent, ConnTypes
    <3>2. [spent EXCEPT !.state = "open", !.peer = p, !.ttl = "wait"] \in ConnTypes
      BY <3>1 DEF ConnTypes
    <3> QED
      BY <3>1, <3>2
  <2> QED
    BY <1>1, <2>1 DEF ListenerInv, ListenerTypeOK, Spent
<1>3. ListenerTypeOK'
  BY <1>1, <1>2 DEF ListenerInv, ListenerTypeOK
<1>4. Held'
  BY <1>1, <1>2 DEF Held
<1>5. ASSUME NEW q \in Entries
      PROVE  ServedEntry(q)'
  <2>1. entries[q] \in Conns /\ entries[q] # c
    BY <1>1 DEF ListenerInv, ListenerTypeOK, Entries, Range
  <2> QED
    BY <1>1, <1>2, <2>1 DEF ListenerInv, ServedEntry, Attended
<1>6. Entries' = Entries
  BY <1>1 DEF Entries
<1> QED
  BY <1>3, <1>4, <1>5, <1>6 DEF ListenerInv

(* The new connection is in the backlog before it has an entry.            *)
LEMMA OfferStep ==
  ASSUME ListenerInv, Offer
  PROVE  ListenerInv'
<1>1. /\ reader = "offer" /\ cur.peer \in Peers /\ cur.conn \in Conns /\ conn[cur.conn].peer = cur.peer
      /\ UNCHANGED <<mode, ln, stored, server, cur, conn, entries, early>>
  BY DEF Offer, ListenerInv, Held
<1>2. CASE Len(backlog) < Backlog
  <2>1. /\ backlog' = Append(backlog, cur.conn) /\ reader' = "store" /\ refused' = refused
        /\ backlog \in Seq(Conns)
    BY <1>2 DEF Offer, ListenerInv, ListenerTypeOK
  <2>2. backlog' \in Seq(Conns) /\ Len(backlog') <= Backlog
    BY <1>1, <1>2, <2>1, ListenerAssumption
  <2>3. cur.conn \in Range(backlog') /\ Range(backlog) \subseteq Range(backlog')
    <3>1. /\ Len(backlog') = Len(backlog) + 1 /\ backlog'[Len(backlog) + 1] = cur.conn
          /\ \A i \in 1..Len(backlog) : backlog'[i] = backlog[i]
      BY <1>1, <2>1
    <3>2. Len(backlog) \in Nat /\ DOMAIN backlog = 1..Len(backlog) /\ DOMAIN backlog' = 1..Len(backlog')
      BY <2>1, <2>2
    <3> QED
      BY <3>1, <3>2 DEF Range
  <2>4. ListenerTypeOK'
    BY <1>1, <2>1, <2>2 DEF ListenerInv, ListenerTypeOK
  <2>5. Held'
    BY <1>1, <2>1, <2>3 DEF Held, Attended
  <2>6. Entries' = Entries /\ \A q \in Entries : ServedEntry(q)'
    BY <1>1, <2>3 DEF ListenerInv, Entries, ServedEntry, Attended
  <2> QED
    BY <2>4, <2>5, <2>6 DEF ListenerInv
<1>3. CASE ~(Len(backlog) < Backlog)
  <2>1. refused' = refused + 1 /\ reader' = "refuse" /\ backlog' = backlog
    BY <1>3 DEF Offer
  <2>2. refused' \in 0..MaxRefused
    BY <1>1, <1>3, <2>1, ListenerAssumption DEF ListenerInv, ListenerTypeOK, Held
  <2>3. ListenerTypeOK'
    BY <1>1, <2>1, <2>2 DEF ListenerInv, ListenerTypeOK
  <2>4. Held'
    BY <1>1, <2>1 DEF Held
  <2>5. Entries' = Entries /\ \A q \in Entries : ServedEntry(q)'
    BY <1>1, <2>1 DEF ListenerInv, Entries, ServedEntry, Attended
  <2> QED
    BY <2>3, <2>4, <2>5 DEF ListenerInv
<1> QED
  BY <1>2, <1>3

(* The entry is stored; early tells that its connection was closed before. *)
LEMMA StoreStep ==
  ASSUME ListenerInv, Store
  PROVE  ListenerInv'
<1>1. /\ reader = "store" /\ reader' = "enqueue"
      /\ entries' = [entries EXCEPT ![cur.peer] = cur.conn]
      /\ early' = IF conn[cur.conn].state = "open" THEN early ELSE early \cup {cur.conn}
      /\ UNCHANGED <<mode, ln, stored, server, cur, backlog, conn, refused>>
  BY DEF Store
<1>2. /\ cur.peer \in Peers /\ cur.conn \in Conns /\ conn[cur.conn].peer = cur.peer
      /\ Attended(cur.conn) \/ conn[cur.conn].state = "closed"
  BY <1>1 DEF ListenerInv, Held
<1>3. ListenerTypeOK'
  BY <1>1, <1>2 DEF ListenerInv, ListenerTypeOK
<1>4. Held'
  BY <1>1, <1>2 DEF Held
<1>5. ASSUME NEW q \in Entries'
      PROVE  ServedEntry(q)'
  <2>1. CASE q = cur.peer
    <3>1. entries'[q] = cur.conn
      BY <1>1, <1>2, <2>1 DEF ListenerInv, ListenerTypeOK
    <3> QED
      BY <1>1, <1>2, <2>1, <3>1 DEF ServedEntry, Attended
  <2>2. CASE q # cur.peer
    <3>1. entries'[q] = entries[q] /\ q \in Entries
      BY <1>1, <2>2 DEF ListenerInv, ListenerTypeOK, Entries
    <3> QED
      BY <1>1, <3>1 DEF ListenerInv, ServedEntry, Attended
  <2> QED
    BY <2>1, <2>2
<1> QED
  BY <1>3, <1>4, <1>5 DEF ListenerInv

(* listen() goes on with a connection it closed, or queues the datagram.   *)
LEMMA RefusedStep ==
  ASSUME ListenerInv, Refused
  PROVE  ListenerInv'
<1>1. /\ cur.peer \in Peers /\ cur.conn \in Conns /\ reader' = "enqueue"
      /\ UNCHANGED <<mode, ln, stored, server, cur, backlog, conn, entries, refused, early>>
  BY DEF Refused, ListenerInv, Held
<1>2. ListenerTypeOK'
  BY <1>1 DEF ListenerInv, ListenerTypeOK
<1>3. Held'
  BY <1>1 DEF Held
<1>4. Entries' = Entries /\ \A q \in Entries : ServedEntry(q)'
  BY <1>1 DEF ListenerInv, Entries, ServedEntry, Attended
<1> QED
  BY <1>2, <1>3, <1>4 DEF ListenerInv

(* A datagram that the loop puts in the queue of its connection, or drops. *)
LEMMA EnqueueStep ==
  ASSUME ListenerInv, Enqueue
  PROVE  ListenerInv'
<1>1. /\ reader = "enqueue" /\ reader' = "read" /\ cur.conn \in Conns
      /\ UNCHANGED <<mode, ln, stored, server, cur, backlog, entries, refused, early>>
  BY DEF Enqueue, ListenerInv, Held
<1>2. PICK c \in Conns : c = cur.conn
  BY <1>1
<1>3. PICK n \in 0..QueueSize : n = IF conn[c].queue < QueueSize THEN conn[c].queue + 1 ELSE QueueSize
  BY <1>2, ListenerAssumption DEF ListenerInv, ListenerTypeOK, ConnTypes
<1>4. /\ conn' \in [Conns -> ConnTypes]
      /\ \A d \in Conns : /\ conn'[d].peer = conn[d].peer /\ conn'[d].state = conn[d].state
                          /\ conn'[d].handler = conn[d].handler /\ conn'[d].failed = conn[d].failed
  <2>1. conn' = [conn EXCEPT ![c] = [conn[c] EXCEPT !.queue = n]] /\ conn[c] \in ConnTypes
    BY <1>2, <1>3 DEF Enqueue, Set, ListenerInv, ListenerTypeOK
  <2>2. [conn[c] EXCEPT !.queue = n] \in ConnTypes
    BY <2>1 DEF ConnTypes
  <2> QED
    BY <2>1, <2>2 DEF ListenerInv, ListenerTypeOK, ConnTypes
<1>5. ListenerTypeOK'
  BY <1>1, <1>4 DEF ListenerInv, ListenerTypeOK
<1>6. Held'
  BY <1>1 DEF Held
<1>7. ASSUME NEW q \in Entries
      PROVE  ServedEntry(q)'
  <2>1. entries[q] \in Conns
    BY DEF ListenerInv, ListenerTypeOK, Entries
  <2> QED
    BY <1>1, <1>4, <2>1 DEF ListenerInv, ServedEntry, Attended
<1>8. Entries' = Entries
  BY <1>1 DEF Entries
<1> QED
  BY <1>5, <1>6, <1>7, <1>8 DEF ListenerInv

(* Close, under its lock: the entry goes with the state, so that no entry  *)
(* is left of the connection but one that was stored too late.             *)
LEMMA OnCloseStep ==
  ASSUME ListenerInv, NEW c \in Conns, OnClose(c)
  PROVE  ListenerInv'
<1>1. /\ conn[c].state = "open" /\ conn[c] \in ConnTypes
      /\ entries' = [entries EXCEPT ![conn[c].peer] = None]
      /\ conn' = [conn EXCEPT ![c] = [conn[c] EXCEPT !.state = "removing"]]
      /\ UNCHANGED <<mode, ln, stored, server, reader, cur, backlog, refused, early>>
  BY DEF OnClose, Set, ListenerInv, ListenerTypeOK
<1>2. /\ conn' \in [Conns -> ConnTypes]
      /\ \A d \in Conns : /\ conn'[d].peer = conn[d].peer /\ (d # c => conn'[d] = conn[d])
                          /\ conn'[d].handler = conn[d].handler /\ conn'[d].failed = conn[d].failed
                          /\ conn[d].state = "closed" => conn'[d].state = "closed"
  <2>1. [conn[c] EXCEPT !.state = "removing"] \in ConnTypes
    BY <1>1 DEF ConnTypes
  <2> QED
    BY <1>1, <2>1 DEF ListenerInv, ListenerTypeOK, ConnTypes
<1>3. /\ entries' \in [Peers -> Conns \cup {None}]
      /\ \A q \in Peers : entries'[q] = IF q = conn[c].peer THEN None ELSE entries[q]
  BY <1>1 DEF ListenerInv, ListenerTypeOK
<1>4. ListenerTypeOK'
  BY <1>1, <1>2, <1>3 DEF ListenerInv, ListenerTypeOK
<1>5. Held'
  <2>1. reader = "store" => Attended(cur.conn)' \/ conn'[cur.conn].state = "closed"
    BY <1>1, <1>2 DEF ListenerInv, Held, Attended
  <2> QED
    BY <1>1, <1>2, <2>1 DEF ListenerInv, Held
<1>6. ASSUME NEW q \in Entries'
      PROVE  ServedEntry(q)'
  <2>1. /\ q \in Entries /\ q # conn[c].peer /\ entries'[q] = entries[q] /\ entries[q] \in Conns
    BY <1>1, <1>3 DEF ListenerInv, ListenerTypeOK, Entries
  <2>2. entries[q] = c => c \in early
    BY <2>1 DEF ListenerInv, ServedEntry
  <2> QED
    BY <1>1, <1>2, <2>1, <2>2 DEF ListenerInv, ServedEntry, Attended
<1> QED
  BY <1>4, <1>5, <1>6 DEF ListenerInv

(* The second half of a connection's close: its entry is deleted by then.  *)
LEMMA CloseChannelStep ==
  ASSUME ListenerInv, NEW c \in Conns, CloseChannel(c)
  PROVE  ListenerInv'
<1>1. /\ conn[c].state = "removing" /\ conn[c] \in ConnTypes
      /\ conn' = [conn EXCEPT ![c] = [conn[c] EXCEPT !.state = "closed"]]
      /\ UNCHANGED <<mode, ln, stored, server, reader, cur, backlog, entries, refused, early>>
  BY DEF CloseChannel, Set, ListenerInv, ListenerTypeOK
<1>2. /\ conn' \in [Conns -> ConnTypes]
      /\ \A d \in Conns : /\ conn'[d].peer = conn[d].peer /\ (d # c => conn'[d] = conn[d])
                          /\ conn'[d].handler = conn[d].handler /\ conn'[d].failed = conn[d].failed
                          /\ conn[d].state = "closed" => conn'[d].state = "closed"
  <2>1. [conn[c] EXCEPT !.state = "closed"] \in ConnTypes
    BY <1>1 DEF ConnTypes
  <2> QED
    BY <1>1, <2>1 DEF ListenerInv, ListenerTypeOK, ConnTypes
<1>3. ListenerTypeOK'
  BY <1>1, <1>2 DEF ListenerInv, ListenerTypeOK
<1>4. Held'
  <2>1. reader = "store" => Attended(cur.conn)' \/ conn'[cur.conn].state = "closed"
    BY <1>1, <1>2 DEF ListenerInv, Held, Attended
  <2> QED
    BY <1>1, <1>2, <2>1 DEF ListenerInv, Held
<1>5. ASSUME NEW q \in Entries
      PROVE  ServedEntry(q)'
  <2>1. entries[q] \in Conns
    BY DEF ListenerInv, ListenerTypeOK, Entries
  <2> QED
    BY <1>1, <1>2, <2>1 DEF ListenerInv, ServedEntry, Attended
<1>6. Entries' = Entries
  BY <1>1 DEF Entries
<1> QED
  BY <1>3, <1>4, <1>5, <1>6 DEF ListenerInv

(* The timer changes its own place only.                                   *)
LEMMA TtlStep ==
  ASSUME ListenerInv, NEW c \in Conns, TtlSteps(c)
  PROVE  ListenerInv'
<1>1. conn[c] \in ConnTypes
  BY DEF ListenerInv, ListenerTypeOK
<1>2. PICK t \in {"wait", "close", "done"} : Own(c, [conn[c] EXCEPT !.ttl = t])
  BY DEF TtlSteps, TtlExpires, TtlReset, TtlEnds
<1>3. Continues(c, [conn[c] EXCEPT !.ttl = t])
  BY <1>1 DEF Continues, ConnTypes
<1> QED
  BY <1>2, <1>3, OwnStep

(* Handle and its copiers, which end only with a connection that is closed *)
(* or given up.                                                            *)
LEMMA HandleStep ==
  ASSUME ListenerInv, NEW c \in Conns, HandleSteps(c) \/ Down(c) \/ DownFails(c)
  PROVE  ListenerInv'
<1>1. conn[c] \in ConnTypes /\ ListenerTypeOK
  BY DEF ListenerInv, ListenerTypeOK
<1>2. PICK rec : Own(c, rec) /\ Continues(c, rec)
  <2>1. CASE Dial(c)
    BY <1>1, <2>1, RecordFacts DEF Dial, Continues
  <2>2. CASE ReadHeader(c)
    <3>1. Taken(conn[c]) \in ConnTypes
      BY <1>1, <2>2, RecordFacts DEF ReadHeader
    <3>2. PICK taken \in ConnTypes : taken = Taken(conn[c])
      BY <3>1
    <3>3. taken.peer = conn[c].peer /\ taken.state = conn[c].state /\ (conn[c].failed => taken.failed)
          /\ taken.handler = conn[c].handler
      BY <1>1, <3>2, RecordFacts
    <3>4. Own(c, taken) \/ Own(c, Relaying(taken)) \/ Own(c, GivenUp(taken))
      BY <2>2, <3>2 DEF ReadHeader
    <3>5. Continues(c, taken) /\ Continues(c, Relaying(taken)) /\ Continues(c, GivenUp(taken))
      BY <1>1, <3>3, RecordFacts DEF Continues
    <3> QED
      BY <3>4, <3>5
  <2>3. CASE HeaderClosed(c)
    BY <1>1, <2>3, RecordFacts DEF HeaderClosed, Continues
  <2>4. CASE Up(c)
    <3>1. Taken(conn[c]) \in ConnTypes
      BY <1>1, <2>4, RecordFacts DEF Up
    <3>2. PICK taken \in ConnTypes : taken = Taken(conn[c])
      BY <3>1
    <3>3. taken.peer = conn[c].peer /\ taken.state = conn[c].state /\ (conn[c].failed => taken.failed)
          /\ taken.handler = conn[c].handler
      BY <1>1, <3>2, RecordFacts
    <3>4. Own(c, taken) \/ Own(c, Ended(taken))
      BY <2>4, <3>2 DEF Up
    <3>5. Continues(c, taken) /\ Continues(c, Ended(taken))
      BY <1>1, <3>3, RecordFacts DEF Continues
    <3> QED
      BY <3>4, <3>5
  <2>5. CASE UpClosed(c)
    BY <1>1, <2>5, RecordFacts DEF UpClosed, Continues
  <2>6. CASE HandleEnds(c)
    <3>1. Own(c, [conn[c] EXCEPT !.handler = "gone", !.queue = 0]) /\ conn[c].state = "closed"
      BY <2>6 DEF HandleEnds
    <3>2. 0 \in 0..QueueSize
      BY ListenerAssumption
    <3>3. Continues(c, [conn[c] EXCEPT !.handler = "gone", !.queue = 0])
      BY <1>1, <3>1, <3>2 DEF Continues, ConnTypes
    <3> QED
      BY <3>1, <3>3
  <2>7. CASE Down(c)
    <3>1. Continues(c, Touched(conn[c]))
      BY <1>1, RecordFacts DEF Continues
    <3> QED
      BY <2>7, <3>1 DEF Down
  <2>8. CASE DownFails(c)
    <3>1. PICK less \in ConnTypes : less = [conn[c] EXCEPT !.back = FALSE]
      BY <1>1 DEF ConnTypes
    <3>2. /\ less.peer = conn[c].peer /\ less.state = conn[c].state
          /\ less.failed = conn[c].failed /\ less.handler = conn[c].handler
      BY <1>1, <3>1 DEF ConnTypes
    <3>3. Own(c, Ended(less)) \/ Own(c, less)
      BY <2>8, <3>1 DEF DownFails
    <3>4. Continues(c, Ended(less)) /\ Continues(c, less)
      BY <1>1, <3>2, RecordFacts DEF Continues
    <3> QED
      BY <3>3, <3>4
  <2> QED
    BY <2>1, <2>2, <2>3, <2>4, <2>5, <2>6, <2>7, <2>8 DEF HandleSteps
<1> QED
  BY <1>2, OwnStep

(* It holds when the connector has been made,                              *)
LEMMA ListenerInitially == ListenerInit => ListenerInv
<1> SUFFICES ASSUME ListenerInit
             PROVE  ListenerInv
  OBVIOUS
<1>1. Spent \in ConnTypes
  BY ListenerAssumption DEF Spent, ConnTypes
<1>2. ListenerTypeOK
  <2>1. <<>> \in Seq(Conns) /\ Len(<<>>) <= Backlog /\ 0 \in 0..MaxRefused
    BY ListenerAssumption
  <2> QED
    BY <1>1, <2>1 DEF ListenerInit, ListenerTypeOK
<1>3. Held
  BY DEF ListenerInit, Held
<1>4. Entries = {}
  BY DEF ListenerInit, Entries
<1> QED
  BY <1>2, <1>3, <1>4 DEF ListenerInv

(* and every step keeps it.                                                *)
LEMMA ListenerSteps == ListenerInv /\ [ListenerNext]_listenerVars => ListenerInv'
<1> SUFFICES ASSUME ListenerInv, [ListenerNext]_listenerVars
             PROVE  ListenerInv'
  OBVIOUS
<1>1. CASE ListenSteps
  BY <1>1, SocketSteps, AcceptStep, OfferStep, StoreStep, RefusedStep, EnqueueStep DEF ListenSteps
<1>2. CASE Close
  BY <1>2, SocketSteps
<1>3. ASSUME NEW p \in Peers, ReceiveKnown(p) \/ \E c \in Conns : ReceiveNew(p, c)
      PROVE  ListenerInv'
  BY <1>3, ReceiveKnownStep, ReceiveNewStep
<1>4. ASSUME NEW c \in Conns, CloseSteps(c) \/ TtlSteps(c) \/ HandleSteps(c) \/ Down(c) \/ DownFails(c)
      PROVE  ListenerInv'
  BY <1>4, OnCloseStep, CloseChannelStep, TtlStep, HandleStep DEF CloseSteps
<1>5. CASE UNCHANGED listenerVars
  BY <1>5 DEF listenerVars, ListenerInv, ListenerTypeOK, Held, Entries, ServedEntry, Attended
<1> QED
  BY <1>1, <1>2, <1>3, <1>4, <1>5 DEF ListenerNext

(* The listener keeps the invariant.                                       *)
THEOREM ListenerSound == ListenerSpec => []ListenerInv
BY ListenerInitially, ListenerSteps, PTL DEF ListenerSpec

(* The variables keep their types: the backlog and every queue stay within *)
(* the capacity of their channel.                                          *)
THEOREM ListenerTyped == ListenerSpec => []ListenerTypeOK
<1>1. ListenerInv => ListenerTypeOK
  BY DEF ListenerInv
<1> QED
  BY <1>1, ListenerSound, PTL

(* An entry nobody closes is one that listen() stored for a connection     *)
(* already closed; every other entry is of an open connection that Serve   *)
(* comes to, Handle is at, or Handle gave up.                              *)
THEOREM Attending == ListenerSpec => []EntriesServed
<1>1. ListenerInv => EntriesServed
  BY DEF ListenerInv, EntriesServed, ServedEntry, Attended
<1> QED
  BY <1>1, ListenerSound, PTL

=============================================================================
