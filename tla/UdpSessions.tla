---------------------------- MODULE UdpSessions ----------------------------
(***************************************************************************)
(* The sessions of one open UDP object: connector.UDPForwarder and the two *)
(* modes of udp_chain_connector.ProxyServer, which share the design.  A    *)
(* session is the Client struct of one peer address: a socket to the       *)
(* target, the time it was last used and a goroutine that brings answers   *)
(* back.  The sessions are found in a sync.Map under the peer's address.   *)
(*                                                                         *)
(* Actors: Receiver (the loop of Start with handlePacket), Return(s) (the  *)
(* goroutine handleTargetReturn of session s), Janitor (the goroutine      *)
(* cleanupExpiredClients) and Closer (a Close called by DelPort).  Each    *)
(* access to the map, the channel shutdownChan and a socket is a step;     *)
(* Load, Dial and Store of a new session are one, because only the         *)
(* receiver stores.  How a port comes to have such an object, and a Close  *)
(* that overtakes Start, are in AgentPorts.                                *)
(***************************************************************************)
CONSTANTS
    Peers,      \* addresses that send datagrams
    Sessions,   \* identities of Client objects
    Kinds,      \* which of "forwarder" and "proxy" (either mode) to run
    None        \* no session, no peer

ASSUME SessionsAssumption ==
    /\ None \notin Sessions
    /\ None \notin Peers
    /\ Kinds \subseteq {"forwarder", "proxy"}

VARIABLES
    kind,       \* the type and mode of the object
    shut,       \* shutdownChan is closed
    sock,       \* the listening socket is open
    table,      \* the sync.Map clients
    sess,       \* the Client objects
    recv,       \* the goroutine of Start
    janitor,    \* the goroutine of cleanupExpiredClients
    closer,     \* the goroutine in Close
    evicted,    \* history: sessions whose entry another one's close removed
    late        \* history: sessions stored after shutdownChan was closed

objVars  == <<kind, shut, sock, table, sess>>
histVars == <<evicted, late>>
vars     == <<objVars, recv, janitor, closer, histVars>>

-----------------------------------------------------------------------------
(* Types *)

ReturnSteps == {"none", "read", "delete", "close", "end"}

Clients == [st     : {"free", "open", "closed"},
            peer   : Peers \cup {None},
            idle   : BOOLEAN,        \* unused for longer than timeout
            ret    : ReturnSteps]

NoClient == [st |-> "free", peer |-> None, idle |-> FALSE, ret |-> "none"]

TypeOK ==
    /\ kind \in Kinds
    /\ shut \in BOOLEAN
    /\ sock \in BOOLEAN
    /\ table \in [Peers -> Sessions \cup {None}]
    /\ sess \in [Sessions -> Clients]
    /\ recv \in [pc   : {"read", "forward", "delete", "close", "end"},
                 peer : Peers \cup {None},
                 sess : Sessions \cup {None}]
    /\ janitor \in [pc   : {"wait", "load", "delete", "close", "end"},
                    keys : SUBSET Peers,
                    key  : Peers \cup {None},
                    sess : Sessions \cup {None}]
    /\ closer \in [pc   : {"none", "sockFirst", "range", "sockLast", "wait", "done"},
                   left : SUBSET Peers]
    /\ evicted \subseteq Sessions
    /\ late \subseteq Sessions

-----------------------------------------------------------------------------
(* Helpers *)

Open(s) == sess[s].st = "open"

(* An object nothing refers to any more.                                   *)
Fresh(s) ==
    /\ sess[s] = NoClient
    /\ \A p \in Peers : table[p] # s
    /\ recv.sess # s
    /\ janitor.sess # s

(* Mutants: closeClient without the delete, or without the close.          *)
DeleteNoKey(p, s) == UNCHANGED <<table, evicted>>
CloseNoSocket(s) == UNCHANGED <<sess, evicted, late>>

(* closeClient is two operations: delete the key, close the socket.  The   *)
(* key may by now lead to another session than the one being closed.       *)
DeleteKey(p, s) ==
    /\ table' = [table EXCEPT ![p] = None]
    /\ evicted' = evicted \cup ({table[p]} \ {s, None})

(* The socket is closed, and when the goroutine has ended too, nothing of  *)
(* the session is left.                                                    *)
Ended(c) == IF c.st = "closed" /\ c.ret \in {"none", "end"} THEN NoClient ELSE c

CloseSocket(s) ==
    /\ sess' = [sess EXCEPT ![s] = Ended([@ EXCEPT !.st = "closed"])]
    /\ evicted' = evicted \ {s}
    /\ late' = late \ {s}

(* The wait group: the janitor and every answering goroutine.  The         *)
(* receiver's loop is not counted.                                         *)
AllDone ==
    /\ janitor.pc = "end"
    /\ \A s \in Sessions : sess[s].ret \in {"none", "end"}

(* The top of the loops of Start and handleTargetReturn.                   *)
NextTurn == IF shut THEN "end" ELSE "read"

NoDatagram == [pc |-> NextTurn, peer |-> None, sess |-> None]

-----------------------------------------------------------------------------
(* Receiver: Start and handlePacket                                        *)

(* The read deadline of a second, an error, a datagram that server mode    *)
(* drops, or a Dial that fails.                                            *)
RecvNothing ==
    /\ recv.pc = "read"
    /\ recv' = NoDatagram
    /\ UNCHANGED <<objVars, janitor, closer, histVars>>

RecvKnown(p) ==
    /\ recv.pc = "read" /\ sock
    /\ table[p] # None
    /\ recv' = [pc |-> "forward", peer |-> p, sess |-> table[p]]
    /\ UNCHANGED <<objVars, janitor, closer, histVars>>

RecvNew(p) ==
    /\ recv.pc = "read" /\ sock
    /\ table[p] = None
    /\ \E s \in Sessions :
        /\ Fresh(s)
        /\ table' = [table EXCEPT ![p] = s]
        /\ sess' = [sess EXCEPT ![s] = [st |-> "open", peer |-> p, idle |-> FALSE, ret |-> NextTurn]]
        /\ recv' = [pc |-> "forward", peer |-> p, sess |-> s]
        /\ evicted' = evicted \ {s}
        /\ late' = IF shut THEN late \cup {s} ELSE late \ {s}
    /\ UNCHANGED <<kind, shut, sock, janitor, closer>>

(* lastActive is set, then the datagram written; a closed socket refuses   *)
(* it, and so may the network (an ICMP answer to an earlier one).          *)
Forward ==
    /\ recv.pc = "forward"
    /\ sess' = [sess EXCEPT ![recv.sess].idle = FALSE]
    /\ \/ Open(recv.sess) /\ recv' = NoDatagram
       \/ recv' = [recv EXCEPT !.pc = "delete"]
    /\ UNCHANGED <<kind, shut, sock, table, janitor, closer, histVars>>

RecvDelete ==
    /\ recv.pc = "delete"
    /\ DeleteKey(recv.peer, recv.sess)
    /\ recv' = [recv EXCEPT !.pc = "close"]
    /\ UNCHANGED <<kind, shut, sock, sess, janitor, closer, late>>

RecvClose ==
    /\ recv.pc = "close"
    /\ CloseSocket(recv.sess)
    /\ recv' = NoDatagram
    /\ UNCHANGED <<kind, shut, sock, table, janitor, closer>>

-----------------------------------------------------------------------------
(* Return(s): handleTargetReturn                                           *)

ReturnGoto(s, step) == sess' = [sess EXCEPT ![s] = Ended([@ EXCEPT !.ret = step])]

(* The deadline of a second, or the error of a closed socket.              *)
ReturnRead(s) ==
    /\ sess[s].ret = "read"
    /\ ReturnGoto(s, IF Open(s) THEN NextTurn ELSE "delete")
    /\ UNCHANGED <<kind, shut, sock, table, recv, janitor, closer, histVars>>

(* An answer of the target is sent on.                                     *)
ReturnAnswer(s) ==
    /\ sess[s].ret = "read" /\ Open(s) /\ sock
    /\ sess' = [sess EXCEPT ![s].idle = FALSE, ![s].ret = NextTurn]
    /\ UNCHANGED <<kind, shut, sock, table, recv, janitor, closer, histVars>>

(* Read or WriteToUDP fails.                                               *)
ReturnError(s) ==
    /\ sess[s].ret = "read"
    /\ ReturnGoto(s, "delete")
    /\ UNCHANGED <<kind, shut, sock, table, recv, janitor, closer, histVars>>

ReturnDelete(s) ==
    /\ sess[s].ret = "delete"
    /\ DeleteKey(sess[s].peer, s)
    /\ ReturnGoto(s, "close")
    /\ UNCHANGED <<kind, shut, sock, recv, janitor, closer, late>>

ReturnClose(s) ==
    /\ sess[s].ret = "close"
    /\ sess' = [sess EXCEPT ![s] = NoClient]
    /\ evicted' = evicted \ {s}
    /\ late' = late \ {s}
    /\ UNCHANGED <<kind, shut, sock, table, recv, janitor, closer>>

-----------------------------------------------------------------------------
(* Janitor: cleanupExpiredClients                                          *)

(* The ticker: collect the keys of idle sessions.                          *)
Tick ==
    LET expired == {p \in Peers : table[p] # None /\ sess[table[p]].idle}
    IN  /\ janitor.pc = "wait"
        /\ expired # {}
        /\ janitor' = [janitor EXCEPT !.pc = "load", !.keys = expired]
        /\ UNCHANGED <<objVars, recv, closer, histVars>>

(* Mutant: no end as long as there are sessions.                           *)
JanitorStopsLast ==
    /\ janitor.pc = "wait" /\ shut /\ table = [p \in Peers |-> None]
    /\ janitor' = [janitor EXCEPT !.pc = "end"]
    /\ UNCHANGED <<objVars, recv, closer, histVars>>

JanitorStops ==
    /\ janitor.pc = "wait" /\ shut
    /\ janitor' = [janitor EXCEPT !.pc = "end"]
    /\ UNCHANGED <<objVars, recv, closer, histVars>>

(* Mutant: the goroutine ends with its first sweep.                        *)
NextKeyEnds(keys) == [pc |-> IF keys = {} THEN "end" ELSE "load",
                      keys |-> keys, key |-> None, sess |-> None]

NextKey(keys) == [pc   |-> IF keys = {} THEN "wait" ELSE "load",
                  keys |-> keys, key |-> None, sess |-> None]

(* Load the next key again: whoever is there is closed.                    *)
JanitorLoad ==
    /\ janitor.pc = "load"
    /\ \E p \in janitor.keys :
         janitor' = IF table[p] = None
                    THEN NextKey(janitor.keys \ {p})
                    ELSE [pc   |-> "delete", keys |-> janitor.keys \ {p},
                          key  |-> p, sess |-> table[p]]
    /\ UNCHANGED <<objVars, recv, closer, histVars>>

JanitorDelete ==
    /\ janitor.pc = "delete"
    /\ DeleteKey(janitor.key, janitor.sess)
    /\ janitor' = [janitor EXCEPT !.pc = "close"]
    /\ UNCHANGED <<kind, shut, sock, sess, recv, closer, late>>

JanitorClose ==
    /\ janitor.pc = "close"
    /\ CloseSocket(janitor.sess)
    /\ janitor' = NextKey(janitor.keys)
    /\ UNCHANGED <<kind, shut, sock, table, recv, closer>>

-----------------------------------------------------------------------------
(* Closer: Close, called once by the DelPort that found the object         *)

(* UDPForwarder closes the sessions and then its socket, ProxyServer the   *)
(* other way round.                                                        *)
Close ==
    /\ closer.pc = "none"
    /\ shut' = TRUE
    /\ closer' = [pc |-> IF kind = "forwarder" THEN "range" ELSE "sockFirst", left |-> Peers]
    /\ UNCHANGED <<kind, sock, table, sess, recv, janitor, histVars>>

CloseListener ==
    /\ closer.pc \in {"sockFirst", "sockLast"}
    /\ sock' = FALSE
    /\ closer' = [closer EXCEPT !.pc = IF @ = "sockFirst" THEN "range" ELSE "wait"]
    /\ UNCHANGED <<kind, shut, table, sess, recv, janitor, histVars>>

(* Mutant: the entries are deleted and the sockets left.                   *)
CloseNextDeletes ==
    /\ closer.pc = "range"
    /\ table' = [p \in Peers |-> None]
    /\ closer' = [closer EXCEPT !.pc = IF kind = "forwarder" THEN "sockLast" ELSE "wait"]
    /\ UNCHANGED <<kind, shut, sock, sess, recv, janitor, histVars>>

(* clients.Range visits every key once, and closes without a delete.       *)
CloseNext ==
    /\ closer.pc = "range"
    /\ \/ /\ closer.left = {}
          /\ closer' = [closer EXCEPT !.pc = IF kind = "forwarder" THEN "sockLast" ELSE "wait"]
          /\ UNCHANGED <<sess, evicted, late>>
       \/ \E p \in closer.left :
            /\ closer' = [closer EXCEPT !.left = @ \ {p}]
            /\ IF table[p] = None THEN UNCHANGED <<sess, evicted, late>> ELSE CloseSocket(table[p])
    /\ UNCHANGED <<kind, shut, sock, table, recv, janitor>>

WaitAll ==
    /\ closer.pc = "wait" /\ AllDone
    /\ closer' = [closer EXCEPT !.pc = "done"]
    /\ UNCHANGED <<objVars, recv, janitor, histVars>>

-----------------------------------------------------------------------------
(* Environment *)

(* Time passes without a datagram of this session.                         *)
TurnIdle(s) ==
    /\ Open(s) /\ ~sess[s].idle
    /\ sess' = [sess EXCEPT ![s].idle = TRUE]
    /\ UNCHANGED <<kind, shut, sock, table, recv, janitor, closer, histVars>>

-----------------------------------------------------------------------------
Init ==
    /\ kind \in Kinds
    /\ shut = FALSE
    /\ sock = TRUE
    /\ table = [p \in Peers |-> None]
    /\ sess = [s \in Sessions |-> NoClient]
    /\ recv = [pc |-> "read", peer |-> None, sess |-> None]
    /\ janitor = NextKey({})
    /\ closer = [pc |-> "none", left |-> {}]
    /\ evicted = {} /\ late = {}

Receiver == RecvNothing \/ Forward \/ RecvDelete \/ RecvClose

Return(s) == ReturnRead(s) \/ ReturnDelete(s) \/ ReturnClose(s)

Janitor == Tick \/ JanitorStops \/ JanitorLoad \/ JanitorDelete \/ JanitorClose

Closing == CloseListener \/ CloseNext \/ WaitAll

(* What the network and the peers may do, and need not.                    *)
Environment ==
    \/ \E p \in Peers : RecvKnown(p) \/ RecvNew(p)
    \/ \E s \in Sessions : ReturnAnswer(s) \/ ReturnError(s) \/ TurnIdle(s)

Next ==
    \/ Receiver
    \/ \E s \in Sessions : Return(s)
    \/ Environment
    \/ Janitor
    \/ Close \/ Closing

Spec == Init /\ [][Next]_vars

(* Every goroutine runs; no datagram need come.  A select with two ready   *)
(* cases picks one at random, and ticks are a minute apart: the janitor    *)
(* sees the closed channel in the end.                                     *)
Fairness ==
    /\ WF_vars(Receiver)
    /\ \A s \in Sessions : WF_vars(Return(s))
    /\ WF_vars(Janitor) /\ SF_vars(JanitorStops)
    /\ WF_vars(Closing)

FairSpec == Spec /\ Fairness

-----------------------------------------------------------------------------
(* Properties *)

InTable(s) == \E p \in Peers : table[p] = s

(* Somebody is about to close the session's socket.                        *)
BeingClosed(s) ==
    \/ recv.pc \in {"delete", "close"} /\ recv.sess = s
    \/ janitor.pc \in {"delete", "close"} /\ janitor.sess = s
    \/ sess[s].ret = "close"

(* No session with an open socket is out of reach: it is in the table,     *)
(* where the janitor and Close look for it, or is being closed.  The one   *)
(* exception is a session whose entry was deleted by a slower close of the *)
(* peer's previous session (closeClient deletes by key): it stays open and *)
(* its goroutine runs until Close, however idle it is.                     *)
LostOnlyByEviction ==
    \A s \in Sessions : Open(s) => InTable(s) \/ BeingClosed(s) \/ s \in evicted

(* As long as nobody closes the object, a datagram never finds a session   *)
(* whose socket is already closed: the key is deleted first.               *)
EntriesOpen ==
    \A p \in Peers : ~shut /\ table[p] # None => Open(table[p])

(* When Close returns, no session is left open except one that was out of  *)
(* the table or that the receiver, which Close does not wait for, stored   *)
(* or is still closing.                                                    *)
CloseLeavesNone ==
    closer.pc = "done" =>
        \A s \in Sessions :
            Open(s) => s \in evicted \cup late \/ (recv.pc = "close" /\ recv.sess = s)

(* Close returns: every goroutine it waits for sees the closed channel.    *)
CloseReturns == shut ~> (closer.pc = "done")

(* The entry of a peer that stays silent is removed.                       *)
SilentPeersGo ==
    \A p \in Peers :
        (table[p] # None /\ sess[table[p]].idle /\ ~shut) ~>
            (table[p] = None \/ ~sess[table[p]].idle \/ shut)
=============================================================================
