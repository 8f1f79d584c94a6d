----------------------------- MODULE UdpExchange -----------------------------
(***************************************************************************)
(* UDPConnectorV2: one UDP socket; each datagram is sent to the target     *)
(* over a socket of its own, and the target's first answer is sent back.   *)
(*                                                                         *)
(* The loop reads every datagram into one buffer, and gives the goroutine  *)
(* that forwards it a slice of that buffer, not a copy: until it is sent,  *)
(* the next datagram overwrites it.  A datagram's content is named by the  *)
(* client that sent it, and an answer by the content it answers.           *)
(***************************************************************************)
CONSTANTS
    Clients,  \* addresses of clients
    Torn,     \* the content of a datagram sent while the buffer is written
    Calls,    \* goroutines, used again when they have ended
    Nobody

ASSUME ExchangeAssumption == Torn \notin Clients /\ Nobody \notin Clients \cup {Torn}

VARIABLES
    sock,      \* is the socket open?
    client,    \* clientAddr, of the datagram read last, whose content buffer holds
    call,      \* the goroutines
    answered,  \* history: the answers each client got
    raced      \* history: clients whose datagram was overwritten unsent

exchangeVars == <<sock, client, call, answered, raced>>

CallTypes ==
    [step : {"ended", "dial", "send", "await", "answer"}, client : Clients \cup {Nobody},
     data : Clients \cup {Torn, Nobody}, late : BOOLEAN]

ExchangeTypeOK ==
    /\ sock \in BOOLEAN
    /\ client \in Clients \cup {Nobody}
    /\ call \in [Calls -> CallTypes]
    /\ answered \in [Clients -> SUBSET (Clients \cup {Torn})]
    /\ raced \subseteq Clients

NoCall == [step |-> "ended", client |-> Nobody, data |-> Nobody, late |-> FALSE]

Unsent(g) == call[g].step \in {"dial", "send"}

(* InitConfig opens the socket, or the object is not used.                 *)
ExchangeInit ==
    /\ sock \in BOOLEAN
    /\ client = Nobody
    /\ call = [g \in Calls |-> NoCall]
    /\ answered = [c \in Clients |-> {}]
    /\ raced = {}

-----------------------------------------------------------------------------
(* The loop overwrites what is not sent yet.                               *)
ReadDatagram(c, g) ==
    /\ sock
    /\ call[g].step = "ended"
    /\ client' = c
    /\ call' = [x \in Calls |->
                  IF x = g THEN [NoCall EXCEPT !.step = "dial", !.client = c]
                  ELSE [call[x] EXCEPT !.late = @ \/ Unsent(x)]]
    /\ raced' = raced \cup { call[x].client : x \in { y \in Calls : Unsent(y) } }
    /\ UNCHANGED <<sock, answered>>

CallGoes(g, step) == call' = [call EXCEPT ![g].step = step]
CallEnds(g) == call' = [call EXCEPT ![g] = NoCall]

DialTarget(g) ==
    /\ call[g].step = "dial"
    /\ CallGoes(g, "send") \/ CallEnds(g)
    /\ UNCHANGED <<sock, client, answered, raced>>

(* What the buffer holds is sent, or a part of it and a part of an older   *)
(* content, if it is not the goroutine's own any more; or the write fails. *)
SendOn(g) ==
    /\ call[g].step = "send"
    /\ \/ \E data \in {client} \cup (IF call[g].late THEN {Torn} ELSE {}) :
            call' = [call EXCEPT ![g].step = "await", ![g].data = data]
       \/ CallEnds(g)
    /\ UNCHANGED <<sock, client, answered, raced>>

(* The target answers what it was sent, or the deadline passes.            *)
Await(g) ==
    /\ call[g].step = "await"
    /\ CallGoes(g, "answer") \/ CallEnds(g)
    /\ UNCHANGED <<sock, client, answered, raced>>

(* Mutant: the answer goes to whom the loop read from last.                *)
AnswerLast(g) ==
    /\ call[g].step = "answer"
    /\ answered' = IF sock THEN [answered EXCEPT ![client] = @ \cup {call[g].data}] ELSE answered
    /\ CallEnds(g)
    /\ UNCHANGED <<sock, client, raced>>

(* The answer goes to the goroutine's own client, while there is a socket. *)
Answer(g) ==
    /\ call[g].step = "answer"
    /\ answered' = IF sock THEN [answered EXCEPT ![call[g].client] = @ \cup {call[g].data}] ELSE answered
    /\ CallEnds(g)
    /\ UNCHANGED <<sock, client, raced>>

(* Listen goes on reading a closed socket, for ever: a step without effect.*)
CloseSocket ==
    /\ sock
    /\ sock' = FALSE
    /\ UNCHANGED <<client, call, answered, raced>>

CallSteps(g) == DialTarget(g) \/ SendOn(g) \/ Await(g) \/ Answer(g)

ExchangeNext ==
    \/ \E c \in Clients, g \in Calls : ReadDatagram(c, g)
    \/ \E g \in Calls : CallSteps(g)
    \/ CloseSocket

ExchangeSpec == ExchangeInit /\ [][ExchangeNext]_exchangeVars

-----------------------------------------------------------------------------
(* A client is sent the answer to its own datagram and no other, unless    *)
(* another datagram was read before its own was sent on: then the target   *)
(* gets the other one, or a mixture, and its answer goes to the first      *)
(* client.                                                                 *)
AnsweredOnlyByRace == \A c \in Clients \ raced : answered[c] \subseteq {c}
=============================================================================
