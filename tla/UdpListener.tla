----------------------------- MODULE UdpListener -----------------------------
(***************************************************************************)
(* UDPConnector: one UDP socket whose datagrams are split into one         *)
(* connection per peer, and each connection is relayed by a goroutine of   *)
(* its own.                                                                *)
(*                                                                         *)
(* listen() reads the socket, finds or makes the peer's connection, offers *)
(* a new one to Serve over a channel that may be full, stores it in the    *)
(* map only after that, and queues the datagram.  Serve starts a Handle    *)
(* per connection.  Every connection has a goroutine that closes it when   *)
(* nothing was read or written for a while.  A connection is closed by     *)
(* that goroutine, by Handle, or by listen(); closing deletes the map's    *)
(* entry by its key, then closes a channel, under a lock.                  *)
(*                                                                         *)
(* A datagram is one unit of a queue; what it says is left out, and so is  *)
(* the time: a timer may fire whenever its goroutine waits for it.         *)
(***************************************************************************)
EXTENDS Integers, FiniteSets, Sequences, Functions

CONSTANTS
    Peers, Conns,  \* addresses of peers; connections, used again when spent
    Modes,         \* how Handle reaches its target, see Modes below
    Backlog,       \* connections Serve may be behind (128 in the code)
    QueueSize,     \* datagrams a connection may be behind (128)
    MaxRefused,    \* bound on the connections refused for a full backlog
    None

(* "chain": dial the chain's address and send it a header; "header": the   *)
(* other end, which reads the header first; "direct": dial the target.     *)
ASSUME ListenerAssumption ==
    /\ None \notin Conns \cup Peers
    /\ Modes \subseteq {"chain", "header", "direct"}
    /\ {Backlog, QueueSize} \subseteq Nat \ {0}
    /\ MaxRefused \in Nat

VARIABLES
    mode,      \* which of Modes InitConfig was called for
    ln,        \* the socket
    stored,    \* is the socket in the manager's table?
    server,    \* the goroutine in Listen and Serve
    reader,    \* the goroutine in listen()
    cur,       \* local variables of listen(): the peer and its connection
    backlog,   \* connChan
    conn,      \* the connections
    entries,   \* connMap.m
    refused,   \* history: how many connections a full backlog refused
    early      \* history: connections stored after they had been closed

listenerVars == <<mode, ln, stored, server, reader, cur, backlog, conn, entries,
                  refused, early>>

(* handler is where Handle(c) is, "none" before Serve accepts c; back says *)
(* that the copier from the target still runs; failed, that Handle left    *)
(* without a target.                                                       *)
ConnTypes ==
    [state : {"open", "removing", "closed"}, peer : Peers \cup {None},
     queue : 0..QueueSize, ttl : {"wait", "reset", "close", "done"},
     handler : {"none", "dial", "relay", "drain", "close", "gone"},
     back : BOOLEAN, failed : BOOLEAN]

ListenerTypeOK ==
    /\ mode \in Modes
    /\ ln \in {"nil", "open", "closed"}
    /\ stored \in BOOLEAN
    /\ server \in {"listen", "accept", "returned"}
    /\ reader \in {"none", "read", "offer", "store", "refuse", "enqueue", "fail", "done"}
    /\ cur \in [peer : Peers \cup {None}, conn : Conns \cup {None}]
    /\ backlog \in Seq(Conns) /\ Len(backlog) <= Backlog
    /\ conn \in [Conns -> ConnTypes]
    /\ entries \in [Peers -> Conns \cup {None}]
    /\ refused \in 0..MaxRefused
    /\ early \subseteq Conns

Spent == [state |-> "closed", peer |-> None, queue |-> 0, ttl |-> "done",
          handler |-> "none", back |-> FALSE, failed |-> FALSE]

Free(c) ==
    /\ conn[c].state = "closed" /\ conn[c].ttl = "done"
    /\ conn[c].handler \in {"none", "gone"}
    /\ c \notin Range(backlog) \cup Range(entries)

Set(c, f, v) == conn' = [conn EXCEPT ![c][f] = v]

-----------------------------------------------------------------------------
(* The listener *)

ListenerInit ==
    /\ mode \in Modes
    /\ ln = "nil" /\ stored = FALSE
    /\ server = "listen" /\ reader = "none"
    /\ cur = [peer |-> None, conn |-> None]
    /\ backlog = <<>>
    /\ conn = [c \in Conns |-> Spent]
    /\ entries = [p \in Peers |-> None]
    /\ refused = 0 /\ early = {}

(* The port may be taken: Listen returns and there never is a socket.      *)
Listen ==
    /\ server = "listen"
    /\ \/ ln' = "open" /\ reader' = "read" /\ server' = "accept"
       \/ server' = "returned" /\ UNCHANGED <<ln, reader>>
    /\ UNCHANGED <<mode, stored, cur, backlog, conn, entries, refused, early>>

(* StoreConn polls until there is a socket.                                *)
StoreConn ==
    /\ ~stored
    /\ ln # "nil"
    /\ stored' = TRUE
    /\ UNCHANGED <<mode, ln, server, reader, cur, backlog, conn, entries, refused, early>>

(* The port is deleted; the manager finds the socket in its table.         *)
Close ==
    /\ stored
    /\ ln = "open"
    /\ ln' = "closed"
    /\ UNCHANGED <<mode, stored, server, reader, cur, backlog, conn, entries, refused, early>>

(* Serve takes what is ready: a connection, or the error of listen().      *)
Accept ==
    /\ server = "accept"
    /\ backlog # <<>>
    /\ backlog' = Tail(backlog)
    /\ Set(Head(backlog), "handler", "dial")
    /\ UNCHANGED <<mode, ln, stored, server, reader, cur, entries, refused, early>>

(* Mutant: listen() returns without handing its error to Serve.            *)
AcceptNothing ==
    /\ reader = "fail"
    /\ reader' = "done"
    /\ UNCHANGED <<mode, ln, stored, server, cur, backlog, conn, entries, refused, early>>

AcceptError ==
    /\ server = "accept"
    /\ reader = "fail"
    /\ server' = "returned"
    /\ reader' = "done"
    /\ UNCHANGED <<mode, ln, stored, cur, backlog, conn, entries, refused, early>>

-----------------------------------------------------------------------------
(* listen() *)

ReadFails ==
    /\ reader = "read"
    /\ ln = "closed"
    /\ reader' = "fail"
    /\ UNCHANGED <<mode, ln, stored, server, cur, backlog, conn, entries, refused, early>>

(* A datagram of a peer that has an entry, whatever became of it.          *)
ReceiveKnown(p) ==
    /\ reader = "read" /\ ln = "open"
    /\ entries[p] # None
    /\ cur' = [peer |-> p, conn |-> entries[p]]
    /\ reader' = "enqueue"
    /\ UNCHANGED <<mode, ln, stored, server, backlog, conn, entries, refused, early>>

(* A datagram of another peer makes a connection and starts its timer.     *)
ReceiveNew(p, c) ==
    /\ reader = "read" /\ ln = "open"
    /\ entries[p] = None
    /\ Free(c)
    /\ Len(backlog) < Backlog \/ refused < MaxRefused
    /\ conn' = [conn EXCEPT ![c] = [Spent EXCEPT !.state = "open", !.peer = p,
                                                 !.ttl = "wait"]]
    /\ cur' = [peer |-> p, conn |-> c]
    /\ reader' = "offer"
    /\ early' = early \ {c}
    /\ UNCHANGED <<mode, ln, stored, server, backlog, entries, refused>>

Offer ==
    /\ reader = "offer"
    /\ IF Len(backlog) < Backlog
       THEN /\ backlog' = Append(backlog, cur.conn)
            /\ reader' = "store"
            /\ UNCHANGED refused
       ELSE /\ refused' = refused + 1
            /\ reader' = "refuse"
            /\ UNCHANGED backlog
    /\ UNCHANGED <<mode, ln, stored, server, cur, conn, entries, early>>

(* The connection may have been closed since it was offered.               *)
Store ==
    /\ reader = "store"
    /\ entries' = [entries EXCEPT ![cur.peer] = cur.conn]
    /\ early' = IF conn[cur.conn].state = "open" THEN early ELSE early \cup {cur.conn}
    /\ reader' = "enqueue"
    /\ UNCHANGED <<mode, ln, stored, server, cur, backlog, conn, refused>>

(* listen() has closed the connection it could not offer, and goes on.     *)
Refused ==
    /\ reader = "refuse"
    /\ conn[cur.conn].state = "closed"
    /\ reader' = "enqueue"
    /\ UNCHANGED <<mode, ln, stored, server, cur, backlog, conn, entries, refused, early>>

(* A datagram that does not fit is dropped.                                *)
Enqueue ==
    /\ reader = "enqueue"
    /\ Set(cur.conn, "queue", IF conn[cur.conn].queue < QueueSize
                              THEN conn[cur.conn].queue + 1 ELSE QueueSize)
    /\ reader' = "read"
    /\ UNCHANGED <<mode, ln, stored, server, cur, backlog, entries, refused, early>>

-----------------------------------------------------------------------------
(* udpServerConn: closing and the timer *)

Closing(c) ==
    \/ conn[c].ttl = "close"
    \/ conn[c].handler = "close"
    \/ reader = "refuse" /\ cur.conn = c

(* Mutant: the entry stays when a connection is closed.                    *)
OnCloseKeeps(c) ==
    /\ Closing(c)
    /\ conn[c].state = "open"
    /\ Set(c, "state", "removing")
    /\ UNCHANGED <<mode, ln, stored, server, reader, cur, backlog, entries, refused, early>>

(* Close, under its lock, for the first that calls it: onClose deletes     *)
(* the peer's entry, ...                                                   *)
OnClose(c) ==
    /\ Closing(c)
    /\ conn[c].state = "open"
    /\ entries' = [entries EXCEPT ![conn[c].peer] = None]
    /\ Set(c, "state", "removing")
    /\ UNCHANGED <<mode, ln, stored, server, reader, cur, backlog, refused, early>>

(* ... and then the channel closed is closed.                              *)
CloseChannel(c) ==
    /\ conn[c].state = "removing"
    /\ Set(c, "state", "closed")
    /\ UNCHANGED <<mode, ln, stored, server, reader, cur, backlog, entries, refused, early>>

(* Only conn changes, and only in c: the steps of c's own goroutines.      *)
Own(c, rec) ==
    /\ conn' = [conn EXCEPT ![c] = rec]
    /\ UNCHANGED <<mode, ln, stored, server, reader, cur, backlog, entries, refused, early>>

(* A read or a write tells the timer's goroutine, if that listens.         *)
Touched(rec) == [rec EXCEPT !.ttl = IF @ = "wait" THEN "reset" ELSE @]

TtlExpires(c) ==
    /\ conn[c].ttl = "wait"
    /\ Own(c, [conn[c] EXCEPT !.ttl = "close"])

(* Mutant: the goroutine ends with the first read or write.                *)
TtlOnce(c) ==
    /\ conn[c].ttl = "reset"
    /\ Own(c, [conn[c] EXCEPT !.ttl = "done"])

TtlReset(c) ==
    /\ conn[c].ttl = "reset"
    /\ Own(c, [conn[c] EXCEPT !.ttl = "wait"])

TtlEnds(c) ==
    /\ conn[c].ttl \in {"wait", "close"}
    /\ conn[c].state = "closed"
    /\ Own(c, [conn[c] EXCEPT !.ttl = "done"])

-----------------------------------------------------------------------------
(* Handle *)

(* Handle returns before it has a target: it does not close c.             *)
GivenUp(rec) == [rec EXCEPT !.handler = "gone", !.failed = TRUE]

Relaying(rec) == [rec EXCEPT !.handler = "relay", !.back = TRUE]

(* One copier has ended.  A header's reader is copied once more before the *)
(* connections are closed; what the other copier may still do while they   *)
(* are is left out.                                                        *)
Ended(rec) ==
    IF rec.handler = "relay" /\ mode = "header" THEN [rec EXCEPT !.handler = "drain"]
    ELSE [rec EXCEPT !.handler = "close", !.back = FALSE]

Taken(rec) == Touched([rec EXCEPT !.queue = @ - 1])

(* The target, or the chain, is dialled and the chain is sent its header.  *)
Dial(c) ==
    /\ conn[c].handler = "dial"
    /\ mode # "header"
    /\ \/ Own(c, Relaying(conn[c]))
       \/ Own(c, GivenUp(conn[c]))

(* estabFromHeader reads until there is a line, then dials what it names.  *)
ReadHeader(c) ==
    /\ conn[c].handler = "dial"
    /\ mode = "header"
    /\ conn[c].queue > 0
    /\ \/ Own(c, Taken(conn[c]))
       \/ Own(c, Relaying(Taken(conn[c])))
       \/ Own(c, GivenUp(Taken(conn[c])))

HeaderClosed(c) ==
    /\ conn[c].handler = "dial"
    /\ mode = "header"
    /\ conn[c].state = "closed"
    /\ Own(c, GivenUp(conn[c]))

(* From the peer to the target.  A closed connection may still be read;    *)
(* the write may fail.                                                     *)
Up(c) ==
    /\ conn[c].handler \in {"relay", "drain"}
    /\ conn[c].queue > 0
    /\ \/ Own(c, Taken(conn[c]))
       \/ Own(c, Ended(Taken(conn[c])))

UpClosed(c) ==
    /\ conn[c].handler \in {"relay", "drain"}
    /\ conn[c].state = "closed"
    /\ Own(c, Ended(conn[c]))

(* From the target to the peer, while the socket is open.                  *)
Down(c) ==
    /\ conn[c].handler \in {"relay", "drain"}
    /\ conn[c].back
    /\ ln = "open"
    /\ Own(c, Touched(conn[c]))

(* The target's socket, or the write to the peer, fails.                   *)
DownFails(c) ==
    /\ conn[c].handler \in {"relay", "drain"}
    /\ conn[c].back
    /\ LET rec == [conn[c] EXCEPT !.back = FALSE]
       IN  Own(c, IF rec.handler = "relay" THEN Ended(rec) ELSE rec)

(* Both connections are closed; what was queued is garbage.                *)
HandleEnds(c) ==
    /\ conn[c].handler = "close"
    /\ conn[c].state = "closed"
    /\ Own(c, [conn[c] EXCEPT !.handler = "gone", !.queue = 0])

-----------------------------------------------------------------------------
ListenSteps ==
    \/ Listen \/ StoreConn \/ Accept \/ AcceptError
    \/ ReadFails \/ Offer \/ Store \/ Refused \/ Enqueue

CloseSteps(c) == OnClose(c) \/ CloseChannel(c)

TtlSteps(c) == TtlExpires(c) \/ TtlReset(c) \/ TtlEnds(c)

HandleSteps(c) ==
    Dial(c) \/ ReadHeader(c) \/ HeaderClosed(c) \/ Up(c) \/ UpClosed(c) \/ HandleEnds(c)

ListenerNext ==
    \/ ListenSteps
    \/ Close
    \/ \E p \in Peers : ReceiveKnown(p) \/ \E c \in Conns : ReceiveNew(p, c)
    \/ \E c \in Conns : CloseSteps(c) \/ TtlSteps(c) \/ HandleSteps(c)
                        \/ Down(c) \/ DownFails(c)

(* Goroutines run, and the timers fire.  Peers, targets and the            *)
(* administrator owe nothing.                                              *)
ListenerFairness ==
    /\ WF_listenerVars(Accept) /\ WF_listenerVars(AcceptError)
    /\ WF_listenerVars(ReadFails \/ Offer \/ Store \/ Refused \/ Enqueue)
    /\ \A c \in Conns : WF_listenerVars(CloseSteps(c)) /\ WF_listenerVars(TtlSteps(c)) /\ WF_listenerVars(HandleSteps(c))

ListenerSpec == ListenerInit /\ [][ListenerNext]_listenerVars

FairListenerSpec == ListenerSpec /\ ListenerFairness

-----------------------------------------------------------------------------
(* Properties *)

Entries == { p \in Peers : entries[p] # None }

(* Between the offer and the store, Serve may accept the connection and    *)
(* Handle (or the timer) close it: the entry stored then is of a closed    *)
(* connection, its goroutines have ended, and nothing will ever delete it. *)
(* Every datagram of the peer is queued there.  There is no other way to   *)
(* an entry nobody closes: an entry's connection is open, and waits for    *)
(* Serve, or is being handled, or failed to reach its target.              *)
EntriesServed ==
    \A p \in Entries :
        LET c == entries[p] IN
        \/ c \in early
        \/ /\ conn[c].state = "open" /\ conn[c].peer = p
           /\ \/ c \in Range(backlog)
              \/ conn[c].handler \notin {"none", "gone"}
              \/ conn[c].failed

(* Every open connection is closed, or is read or written again.           *)
IdleConnsClose ==
    \A c \in Conns : []<>(conn[c].state # "open" \/ conn[c].ttl = "reset")

(* When the port is deleted, Serve and listen() return, and every          *)
(* connection is closed: those in the backlog that nobody accepts, and     *)
(* those Handle gave up, by their timers.                                  *)
ClosePortEnds ==
    (ln = "closed") ~> /\ server = "returned" /\ reader = "done"
                       /\ \A c \in Conns : conn[c].state = "closed"
=============================================================================
