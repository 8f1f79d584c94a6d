----------------------------- MODULE UdpProofs -----------------------------
(***************************************************************************)
(* Theorems about UdpSessions, for every set of peers and sessions.        *)
(***************************************************************************)
EXTENDS UdpSessions, TLAPS

-----------------------------------------------------------------------------
(* The inductive invariant *)

(* The registers of each goroutine fit its step; an object that is not in  *)
(* use is NoClient.                                                        *)
Steps ==
    /\ IF recv.pc \in {"forward", "delete", "close"}
       THEN recv.sess \in Sessions /\ recv.peer \in Peers ELSE recv.sess = None
    /\ IF janitor.pc \in {"delete", "close"}
       THEN janitor.sess \in Sessions /\ janitor.key \in Peers ELSE janitor.sess = None
    /\ \A s \in Sessions :
        sess[s].st = "free" \/ sess[s].ret = "none" \/ sess[s].peer = None => sess[s] = NoClient
    /\ closer.pc # "none" => shut

(* A session is found under one key, which everybody who holds it knows.   *)
Keys ==
    /\ \A p, q \in Peers : table[p] = table[q] /\ table[p] # None => p = q
    /\ \A q \in Peers : table[q] # None =>
        /\ table[q] = recv.sess => q = recv.peer
        /\ table[q] = janitor.sess => q = janitor.key
        /\ sess[table[q]] # NoClient => q = sess[table[q]].peer

(* A socket is closed after its key has been deleted.                      *)
Deleted ==
    \A q \in Peers : table[q] # None =>
        /\ recv.pc = "close" => table[q] # recv.sess
        /\ janitor.pc = "close" => table[q] # janitor.sess
        /\ sess[table[q]].ret # "close"

(* A session whose key has been deleted and whose socket is next.          *)
AtClose(s) ==
    \/ recv.pc = "close" /\ recv.sess = s
    \/ janitor.pc = "close" /\ janitor.sess = s
    \/ sess[s].ret = "close"

(* An open session can be found, is about to be closed, or was evicted.    *)
Reach == \A s \in Sessions : Open(s) => InTable(s) \/ AtClose(s) \/ s \in evicted

(* What Close has seen, it has closed.                                     *)
Swept ==
    /\ closer.pc = "sockFirst" => closer.left = Peers
    /\ closer.pc \in {"sockLast", "wait", "done"} => closer.left = {}
    /\ closer.pc \in {"range", "sockLast", "wait", "done"} =>
        \A p \in Peers \ closer.left : table[p] # None /\ Open(table[p]) => table[p] \in late
    /\ closer.pc = "done" => AllDone

(* The inductive invariant.                                                *)
SessionsInv == TypeOK /\ Steps /\ Keys /\ EntriesOpen /\ Deleted /\ Reach /\ Swept

-----------------------------------------------------------------------------
(* Type correctness *)

(* What is written into a session's object is an object.                   *)
LEMMA ClientTypes ==
  ASSUME NEW k \in Clients
  PROVE  /\ NoClient \in Clients
         /\ [k EXCEPT !.idle = FALSE] \in Clients /\ [k EXCEPT !.idle = TRUE] \in Clients
         /\ Ended([k EXCEPT !.st = "closed"]) \in Clients
         /\ \A step \in ReturnSteps : Ended([k EXCEPT !.ret = step]) \in Clients
         /\ [k EXCEPT !.idle = FALSE, !.ret = NextTurn] \in Clients
BY DEF Clients, NoClient, ReturnSteps, Ended, NextTurn

(* An object that is not idle is not changed by setting lastActive.        *)
LEMMA IdleAlready ==
  ASSUME NEW k \in Clients, k.idle = FALSE
  PROVE  [k EXCEPT !.idle = FALSE] = k
BY DEF Clients

(* A step of an answering goroutine writes an object.                      *)
LEMMA ReturnTypes ==
  ASSUME TypeOK, NEW s \in Sessions, NEW step \in ReturnSteps, ReturnGoto(s, step)
  PROVE  sess' \in [Sessions -> Clients]
<1>1. sess \in [Sessions -> Clients] /\ sess[s] \in Clients
  BY DEF TypeOK
<1>2. sess' = [sess EXCEPT ![s] = Ended([sess[s] EXCEPT !.ret = step])]
  BY DEF ReturnGoto
<1>3. Ended([sess[s] EXCEPT !.ret = step]) \in Clients
  BY <1>1, ClientTypes
<1> QED
  BY <1>1, <1>2, <1>3

(* So does closing a socket.                                               *)
LEMMA CloseTypes ==
  ASSUME TypeOK, NEW s \in Sessions \cup {None}, CloseSocket(s)
  PROVE  sess' \in [Sessions -> Clients] /\ evicted' \subseteq Sessions /\ late' \subseteq Sessions
<1>1. sess \in [Sessions -> Clients] /\ \A t \in Sessions : sess[t] \in Clients
  BY DEF TypeOK
<1>2. sess' = [sess EXCEPT ![s] = Ended([sess[s] EXCEPT !.st = "closed"])]
  BY DEF CloseSocket
<1>3. s \in Sessions => Ended([sess[s] EXCEPT !.st = "closed"]) \in Clients
  BY <1>1, ClientTypes
<1>4. sess' \in [Sessions -> Clients]
  BY <1>1, <1>2, <1>3
<1> QED
  BY <1>4 DEF CloseSocket, TypeOK

(* Deleting a peer's key keeps the types of the table and the history.     *)
LEMMA DeleteTypes ==
  ASSUME TypeOK, NEW p \in Peers, NEW s \in Sessions \cup {None}, DeleteKey(p, s)
  PROVE  table' \in [Peers -> Sessions \cup {None}] /\ evicted' \subseteq Sessions
BY DEF DeleteKey, TypeOK

(* The object is started with its types in order.                          *)
LEMMA InitTypes == Init => TypeOK
<1> SUFFICES ASSUME Init PROVE TypeOK
  OBVIOUS
<1>1. sess \in [Sessions -> Clients]
  BY DEF Init, NoClient, Clients, ReturnSteps
<1>2. /\ recv \in [pc   : {"read", "forward", "delete", "close", "end"},
                  peer : Peers \cup {None}, sess : Sessions \cup {None}]
      /\ closer \in [pc   : {"none", "sockFirst", "range", "sockLast", "wait", "done"},
                    left : SUBSET Peers]
  BY DEF Init
<1>3. janitor \in [pc   : {"wait", "load", "delete", "close", "end"}, keys : SUBSET Peers,
                  key  : Peers \cup {None}, sess : Sessions \cup {None}]
  BY DEF Init, NextKey
<1> QED
  BY <1>1, <1>2, <1>3 DEF Init, TypeOK

(* Every step keeps the types, given that a goroutine that deletes a key   *)
(* holds one.                                                              *)
LEMMA NextTypes ==
  ASSUME TypeOK, Steps, [Next]_vars
  PROVE  TypeOK'
<1> USE DEF objVars, histVars
<1>1. /\ sess \in [Sessions -> Clients] /\ \A s \in Sessions : sess[s] \in Clients
      /\ recv.sess \in Sessions \cup {None} /\ recv.peer \in Peers \cup {None}
      /\ janitor.sess \in Sessions \cup {None} /\ janitor.key \in Peers \cup {None}
      /\ \A p \in Peers : table[p] \in Sessions \cup {None}
  BY DEF TypeOK
<1>2. NextTurn \in {"read", "end"}
  BY DEF NextTurn
<1>3. CASE RecvNothing
  BY <1>2, <1>3 DEF RecvNothing, NoDatagram, TypeOK
<1>4. CASE Forward
  <2>1. recv' \in [pc   : {"read", "forward", "delete", "close", "end"},
                   peer : Peers \cup {None}, sess : Sessions \cup {None}]
    BY <1>2, <1>4 DEF Forward, NoDatagram, TypeOK
  <2>2. sess' \in [Sessions -> Clients]
    BY <1>1, <1>4, ClientTypes DEF Forward
  <2> QED
    BY <1>4, <2>1, <2>2 DEF Forward, TypeOK
<1>5. CASE RecvDelete
  <2>1. table' \in [Peers -> Sessions \cup {None}] /\ evicted' \subseteq Sessions
    BY <1>1, <1>5, DeleteTypes DEF RecvDelete, Steps
  <2> QED
    BY <1>5, <2>1 DEF RecvDelete, TypeOK
<1>6. CASE RecvClose
  <2>1. sess' \in [Sessions -> Clients] /\ evicted' \subseteq Sessions /\ late' \subseteq Sessions
    BY <1>1, <1>6, CloseTypes DEF RecvClose
  <2> QED
    BY <1>2, <1>6, <2>1 DEF RecvClose, NoDatagram, TypeOK
<1>7. ASSUME NEW s \in Sessions, Return(s) PROVE TypeOK'
  <2>1. CASE ReturnRead(s)
    <3>1. sess' \in [Sessions -> Clients]
      BY <1>2, <2>1, ReturnTypes DEF ReturnRead, ReturnSteps
    <3> QED
      BY <2>1, <3>1 DEF ReturnRead, TypeOK
  <2>2. CASE ReturnDelete(s)
    <3>1. sess[s].peer \in Peers
      BY <1>1, <2>2 DEF Clients, ReturnDelete, Steps, NoClient
    <3>2. table' \in [Peers -> Sessions \cup {None}] /\ evicted' \subseteq Sessions
      BY <2>2, <3>1, DeleteTypes DEF ReturnDelete
    <3>3. sess' \in [Sessions -> Clients]
      BY <2>2, ReturnTypes DEF ReturnDelete, ReturnSteps
    <3> QED
      BY <2>2, <3>2, <3>3 DEF ReturnDelete, TypeOK
  <2>3. CASE ReturnClose(s)
    <3>1. sess' \in [Sessions -> Clients]
      BY <1>1, <2>3, ClientTypes DEF ReturnClose
    <3> QED
      BY <2>3, <3>1 DEF ReturnClose, TypeOK
  <2> QED
    BY <1>7, <2>1, <2>2, <2>3 DEF Return
<1>8. ASSUME NEW p \in Peers, RecvKnown(p) PROVE TypeOK'
  BY <1>1, <1>8 DEF RecvKnown, TypeOK
<1>9. ASSUME NEW p \in Peers, RecvNew(p) PROVE TypeOK'
  <2>1. PICK s \in Sessions :
          /\ table' = [table EXCEPT ![p] = s]
          /\ sess' = [sess EXCEPT ![s] = [st |-> "open", peer |-> p, idle |-> FALSE, ret |-> NextTurn]]
          /\ recv' = [pc |-> "forward", peer |-> p, sess |-> s]
          /\ evicted' = evicted \ {s}
          /\ late' = IF shut THEN late \cup {s} ELSE late \ {s}
    BY <1>9 DEF RecvNew
  <2>2. sess' \in [Sessions -> Clients]
    BY <1>1, <1>2, <2>1 DEF Clients, ReturnSteps
  <2> QED
    BY <1>9, <2>1, <2>2 DEF RecvNew, TypeOK
<1>10. ASSUME NEW s \in Sessions, ReturnAnswer(s) \/ ReturnError(s) \/ TurnIdle(s) PROVE TypeOK'
  <2>1. sess' \in [Sessions -> Clients]
    <3>1. CASE ReturnAnswer(s)
      <4>1. sess' = [sess EXCEPT ![s] = [sess[s] EXCEPT !.idle = FALSE, !.ret = NextTurn]]
        BY <1>1, <3>1 DEF ReturnAnswer
      <4> QED
        BY <1>1, <4>1, ClientTypes
    <3>2. CASE ReturnError(s)
      BY <3>2, ReturnTypes DEF ReturnError, ReturnSteps
    <3>3. CASE TurnIdle(s)
      BY <1>1, <3>3, ClientTypes DEF TurnIdle
    <3> QED
      BY <1>10, <3>1, <3>2, <3>3
  <2> QED
    BY <1>10, <2>1 DEF ReturnAnswer, ReturnError, TurnIdle, TypeOK
<1>11. CASE Tick \/ JanitorStops
  <2>1. janitor' \in [pc   : {"wait", "load", "delete", "close", "end"}, keys : SUBSET Peers,
                     key  : Peers \cup {None}, sess : Sessions \cup {None}]
    <3>1. CASE Tick
      <4>1. {p \in Peers : table[p] # None /\ sess[table[p]].idle} \in SUBSET Peers
        OBVIOUS
      <4> QED
        BY <3>1, <4>1 DEF Tick, TypeOK
    <3>2. CASE JanitorStops
      BY <3>2 DEF JanitorStops, TypeOK
    <3> QED
      BY <1>11, <3>1, <3>2
  <2> QED
    BY <1>11, <2>1 DEF Tick, JanitorStops, TypeOK
<1>12. CASE JanitorLoad
  BY <1>1, <1>12 DEF JanitorLoad, NextKey, TypeOK
<1>13. CASE JanitorDelete
  <2>1. table' \in [Peers -> Sessions \cup {None}] /\ evicted' \subseteq Sessions
    BY <1>1, <1>13, DeleteTypes DEF JanitorDelete, Steps
  <2> QED
    BY <1>13, <2>1 DEF JanitorDelete, TypeOK
<1>14. CASE JanitorClose
  <2>1. sess' \in [Sessions -> Clients] /\ evicted' \subseteq Sessions /\ late' \subseteq Sessions
    BY <1>1, <1>14, CloseTypes DEF JanitorClose
  <2> QED
    BY <1>14, <2>1 DEF JanitorClose, NextKey, TypeOK
<1>15. CASE Close \/ CloseListener \/ WaitAll
  <2>1. closer' \in [pc   : {"none", "sockFirst", "range", "sockLast", "wait", "done"},
                    left : SUBSET Peers]
    BY <1>15 DEF Close, CloseListener, WaitAll, TypeOK
  <2>2. shut' \in BOOLEAN /\ sock' \in BOOLEAN
    BY <1>15 DEF Close, CloseListener, WaitAll, TypeOK
  <2> QED
    BY <1>15, <2>1, <2>2 DEF Close, CloseListener, WaitAll, TypeOK
<1>16. CASE CloseNext
  <2>1. sess' \in [Sessions -> Clients] /\ evicted' \subseteq Sessions /\ late' \subseteq Sessions
    BY <1>1, <1>16, CloseTypes DEF CloseNext, TypeOK
  <2> QED
    BY <1>16, <2>1 DEF CloseNext, TypeOK
<1>17. CASE UNCHANGED vars
  BY <1>17 DEF vars, TypeOK
<1> QED
  BY <1>3, <1>4, <1>5, <1>6, <1>7, <1>8, <1>9, <1>10, <1>11, <1>12, <1>13, <1>14, <1>15,
     <1>16, <1>17 DEF Next, Receiver, Environment, Janitor, Closing

-----------------------------------------------------------------------------
(* The steps, by what they change *)

(* Steps that leave the table and the sessions alone.                      *)
LEMMA RecvQuiet ==
  ASSUME SessionsInv, TypeOK', RecvNothing \/ \E p \in Peers : RecvKnown(p)
  PROVE  SessionsInv'
<1> USE DEF objVars, histVars
<1>1. UNCHANGED <<shut, table, sess, janitor, closer, evicted, late>>
  BY DEF RecvNothing, RecvKnown
<1>2. Steps /\ Keys /\ EntriesOpen /\ Deleted /\ Reach /\ Swept
  BY DEF SessionsInv
<1>3. /\ recv.pc # "close" /\ recv'.pc # "close"
      /\ \/ recv'.pc \in {"read", "end"} /\ recv'.sess = None
         \/ /\ recv'.pc = "forward" /\ recv'.peer \in Peers
            /\ recv'.sess = table[recv'.peer] /\ recv'.sess \in Sessions
  BY DEF RecvNothing, NoDatagram, NextTurn, RecvKnown, SessionsInv, TypeOK
<1>4. Steps'
  BY <1>1, <1>2, <1>3 DEF Steps
<1>5. Keys'
  BY <1>1, <1>2, <1>3 DEF Keys
<1>6. EntriesOpen' /\ Deleted'
  BY <1>1, <1>2, <1>3 DEF EntriesOpen, Open, Deleted
<1>7. Reach'
  BY <1>1, <1>2, <1>3 DEF Reach, AtClose, InTable, Open
<1>8. Swept'
  BY <1>1, <1>2 DEF Swept, AllDone, Open
<1> QED
  BY <1>4, <1>5, <1>6, <1>7, <1>8 DEF SessionsInv

(* The janitor waits, collects keys, ends, or loads a key.                 *)
LEMMA JanitorQuiet ==
  ASSUME SessionsInv, TypeOK', Tick \/ JanitorStops \/ JanitorLoad
  PROVE  SessionsInv'
<1> USE DEF objVars, histVars
<1>1. UNCHANGED <<shut, table, sess, recv, closer, evicted, late>>
  BY DEF Tick, JanitorStops, JanitorLoad
<1>2. TypeOK /\ Steps /\ Keys /\ EntriesOpen /\ Deleted /\ Reach /\ Swept
  BY DEF SessionsInv
<1>3. /\ janitor.pc \in {"wait", "load"} /\ janitor'.pc # "close"
      /\ \/ janitor'.pc \in {"wait", "load", "end"} /\ janitor'.sess = None
         \/ /\ janitor'.pc = "delete" /\ janitor'.key \in Peers
            /\ janitor'.sess = table[janitor'.key] /\ janitor'.sess \in Sessions
  <2>1. CASE Tick \/ JanitorStops
    BY <1>2, <2>1 DEF Tick, JanitorStops, Steps, TypeOK
  <2>2. CASE JanitorLoad
    BY <1>2, <2>2 DEF JanitorLoad, NextKey, TypeOK
  <2> QED
    BY <2>1, <2>2
<1>4. Steps'
  BY <1>1, <1>2, <1>3 DEF Steps
<1>5. Keys'
  BY <1>1, <1>2, <1>3 DEF Keys
<1>6. EntriesOpen' /\ Deleted'
  BY <1>1, <1>2, <1>3 DEF EntriesOpen, Open, Deleted
<1>7. Reach'
  BY <1>1, <1>2, <1>3 DEF Reach, AtClose, InTable, Open
<1>8. Swept'
  BY <1>1, <1>2, <1>3 DEF Swept, AllDone, Open
<1> QED
  BY <1>4, <1>5, <1>6, <1>7, <1>8 DEF SessionsInv

(* Close begins, closes the listening socket, or returns.                  *)
LEMMA CloserQuiet ==
  ASSUME SessionsInv, TypeOK', Close \/ CloseListener \/ WaitAll
  PROVE  SessionsInv'
<1> USE DEF objVars, histVars
<1>1. UNCHANGED <<table, sess, recv, janitor, evicted, late>> /\ (shut => shut')
  BY DEF Close, CloseListener, WaitAll
<1>2. TypeOK /\ Steps /\ Keys /\ EntriesOpen /\ Deleted /\ Reach /\ Swept
  BY DEF SessionsInv
<1>3. Steps'
  BY <1>1, <1>2 DEF Steps, Close, CloseListener, WaitAll
<1>4. Keys' /\ Deleted'
  BY <1>1, <1>2 DEF Keys, Deleted
<1>5. EntriesOpen'
  BY <1>1, <1>2 DEF EntriesOpen, Open
<1>6. Reach'
  BY <1>1, <1>2 DEF Reach, AtClose, InTable, Open
<1>7. Swept'
  BY <1>1, <1>2 DEF Swept, AllDone, Open, Close, CloseListener, WaitAll, TypeOK
<1> QED
  BY <1>3, <1>4, <1>5, <1>6, <1>7 DEF SessionsInv

(* Steps that delete the key of a session whose socket is closed next.     *)
LEMMA DeleteSteps ==
  ASSUME SessionsInv, TypeOK', NEW s \in Sessions, NEW p \in Peers, DeleteKey(p, s),
         \A q \in Peers : table[q] = s => q = p,
         UNCHANGED <<shut, closer, late>>,
         recv'.sess = recv.sess /\ recv'.peer = recv.peer,
         recv'.pc = recv.pc \/ (recv.pc = "delete" /\ recv'.pc = "close" /\ recv.sess = s),
         janitor'.sess = janitor.sess /\ janitor'.key = janitor.key,
         janitor'.pc = janitor.pc
            \/ (janitor.pc = "delete" /\ janitor'.pc = "close" /\ janitor.sess = s),
         \A t \in Sessions : \/ sess'[t] = sess[t]
                             \/ t = s /\ sess[s].ret = "delete" /\ sess'[s] = [sess[s] EXCEPT !.ret = "close"],
         AtClose(s)'
  PROVE  SessionsInv'
<1>1. /\ TypeOK /\ Steps /\ Keys /\ EntriesOpen /\ Deleted /\ Reach /\ Swept
      /\ s # None
  BY SessionsAssumption DEF SessionsInv
<1>2. \A q \in Peers : /\ table'[q] = IF q = p THEN None ELSE table[q]
                       /\ table[q] \in Sessions \cup {None}
  BY <1>1 DEF DeleteKey, TypeOK
<1>3. ASSUME NEW t \in Sessions
      PROVE  /\ sess[t] \in Clients /\ sess'[t].st = sess[t].st /\ sess'[t].peer = sess[t].peer
             /\ \/ sess'[t].ret = sess[t].ret
                \/ t = s /\ sess[t].ret = "delete" /\ sess'[t].ret = "close"
             /\ sess'[t] = NoClient <=> sess[t] = NoClient
  <2>1. sess[t] \in Clients
    BY <1>1 DEF TypeOK
  <2>2. CASE sess'[t] = sess[t]
    BY <2>1, <2>2
  <2>3. CASE t = s /\ sess[s].ret = "delete" /\ sess'[s] = [sess[s] EXCEPT !.ret = "close"]
    BY <2>1, <2>3 DEF Clients, NoClient
  <2> QED
    BY <2>1, <2>2, <2>3
<1>4. Steps'
  BY <1>1, <1>3 DEF Steps
<1>5. Keys'
  BY <1>1, <1>2, <1>3 DEF Keys
<1>6. EntriesOpen' /\ Deleted'
  BY <1>1, <1>2, <1>3 DEF EntriesOpen, Open, Deleted
<1>7. Reach'
  <2> SUFFICES ASSUME NEW t \in Sessions, Open(t)'
               PROVE  (InTable(t) \/ AtClose(t) \/ t \in evicted)'
    BY DEF Reach
  <2>1. Open(t)
    BY <1>3 DEF Open
  <2>2. CASE t \in evicted
    BY <2>2 DEF DeleteKey
  <2>3. CASE AtClose(t)
    BY <1>3, <2>3 DEF AtClose
  <2>4. CASE InTable(t)
    <3>1. PICK q \in Peers : table[q] = t
      BY <2>4 DEF InTable
    <3>2. CASE q # p
      BY <1>2, <3>1, <3>2 DEF InTable
    <3>3. CASE q = p /\ t # s
      BY <3>1, <3>3, SessionsAssumption DEF DeleteKey
    <3> QED
      BY <3>2, <3>3
  <2> QED
    BY <1>1, <2>1, <2>2, <2>3, <2>4 DEF Reach
<1>8. Swept'
  BY <1>1, <1>2, <1>3 DEF Swept, AllDone, Open
<1> QED
  BY <1>4, <1>5, <1>6, <1>7, <1>8 DEF SessionsInv

(* Steps that close the socket of a session without a key, or, when Close  *)
(* ranges over the table, of one with a key.                               *)
LEMMA CloseSteps ==
  ASSUME SessionsInv, TypeOK', NEW s \in Sessions, UNCHANGED <<shut, table>>,
         evicted' = evicted \ {s}, late' = late \ {s},
         \A t \in Sessions \ {s} : sess'[t] = sess[t],
         sess'[s] = NoClient \/ (sess[s] # NoClient /\ sess'[s] = [sess[s] EXCEPT !.st = "closed"]),
         shut \/ \A q \in Peers : table[q] # s,
         recv' = recv \/ (recv.sess = s /\ recv'.pc \in {"read", "end"} /\ recv'.sess = None),
         janitor' = janitor
            \/ (janitor.pc = "close" /\ janitor.sess = s /\ janitor'.pc \in {"wait", "load"} /\ janitor'.sess = None),
         closer' = closer
            \/ \E p \in Peers : /\ closer.pc = "range" /\ closer'.pc = "range"
                                /\ closer'.left = closer.left \ {p} /\ table[p] = s
  PROVE  SessionsInv'
<1>1. /\ TypeOK /\ Steps /\ Keys /\ EntriesOpen /\ Deleted /\ Reach /\ Swept
      /\ s # None
  BY SessionsAssumption DEF SessionsInv
<1>2. /\ \A q \in Peers : table[q] \in Sessions \cup {None}
      /\ sess[s] \in Clients
  BY <1>1 DEF TypeOK
<1>3. /\ ~Open(s)'
      /\ sess'[s] = NoClient
           \/ (sess'[s].st = "closed" /\ sess'[s].peer = sess[s].peer /\ sess'[s].ret = sess[s].ret /\ sess[s] # NoClient)
  BY <1>2 DEF Open, Clients, NoClient
<1>4. Steps'
  BY <1>1, <1>3 DEF Steps
<1>5. Keys'
  BY <1>1, <1>2, <1>3 DEF Keys
<1>6. EntriesOpen'
  BY <1>1, <1>2 DEF EntriesOpen, Open
<1>7. Deleted'
  BY <1>1, <1>2, <1>3 DEF Deleted, NoClient
<1>8. Reach'
  BY <1>1, <1>3 DEF Reach, AtClose, InTable, Open
<1>9. Swept'
  <2>1. closer.pc = "done" => AllDone'
    BY <1>1, <1>3 DEF Swept, AllDone, NoClient
  <2>2. ASSUME NEW p \in Peers, table[p] # None, Open(table[p])' PROVE Open(table[p]) /\ table[p] # s
    BY <1>2, <1>3, <2>2 DEF Open
  <2> QED
    BY <1>1, <2>1, <2>2 DEF Swept
<1> QED
  BY <1>4, <1>5, <1>6, <1>7, <1>8, <1>9 DEF SessionsInv

(* Steps that only move a session's goroutine on, or touch its time.       *)
LEMMA SoftSteps ==
  ASSUME SessionsInv, TypeOK', NEW s \in Sessions,
         UNCHANGED <<shut, table, janitor, closer, evicted, late>>,
         \A t \in Sessions \ {s} : sess'[t] = sess[t],
         \/ sess'[s] = NoClient /\ sess[s] = NoClient
         \/ /\ sess[s] # NoClient /\ sess'[s].st = sess[s].st /\ sess'[s].peer = sess[s].peer
            /\ \/ sess'[s].ret = sess[s].ret
               \/ sess[s].ret = "read" /\ sess'[s].ret \in {"read", "delete", "end"},
         \/ recv' = recv
         \/ recv.pc = "forward" /\ recv'.pc \in {"read", "end"} /\ recv'.sess = None
         \/ recv.pc = "forward" /\ recv' = [recv EXCEPT !.pc = "delete"]
  PROVE  SessionsInv'
<1>1. TypeOK /\ Steps /\ Keys /\ EntriesOpen /\ Deleted /\ Reach /\ Swept
  BY DEF SessionsInv
<1>2. /\ \A q \in Peers : table[q] \in Sessions \cup {None}
      /\ \A t \in Sessions : sess[t] \in Clients
      /\ recv \in [pc   : {"read", "forward", "delete", "close", "end"},
                   peer : Peers \cup {None}, sess : Sessions \cup {None}]
  BY <1>1 DEF TypeOK
<1>3. /\ recv' = recv \/ (recv.pc = "forward" /\ recv'.pc \in {"read", "end"} /\ recv'.sess = None)
         \/ (recv.pc = "forward" /\ recv'.pc = "delete" /\ recv'.sess = recv.sess /\ recv'.peer = recv.peer)
  BY <1>2
<1>4. Steps'
  BY <1>1, <1>3 DEF Steps
<1>5. Keys'
  BY <1>1, <1>2, <1>3 DEF Keys
<1>6. EntriesOpen'
  BY <1>1, <1>2 DEF EntriesOpen, Open
<1>7. Deleted'
  BY <1>1, <1>2, <1>3 DEF Deleted
<1>8. Reach'
  BY <1>1, <1>3 DEF Reach, AtClose, InTable, Open
<1>9. Swept'
  BY <1>1, <1>2 DEF Swept, AllDone, Open
<1> QED
  BY <1>4, <1>5, <1>6, <1>7, <1>8, <1>9 DEF SessionsInv

(* What CloseSocket does to an object.                                     *)
LEMMA SocketCloses ==
  ASSUME TypeOK, Steps, NEW s \in Sessions, CloseSocket(s)
  PROVE  /\ evicted' = evicted \ {s} /\ late' = late \ {s}
         /\ \A t \in Sessions \ {s} : sess'[t] = sess[t]
         /\ sess'[s] = NoClient
              \/ (sess[s] # NoClient /\ sess'[s] = [sess[s] EXCEPT !.st = "closed"])
<1>1. sess \in [Sessions -> Clients] /\ sess[s] \in Clients
  BY DEF TypeOK
<1>2. sess' = [sess EXCEPT ![s] = Ended([sess[s] EXCEPT !.st = "closed"])]
  BY DEF CloseSocket
<1>3. CASE sess[s] = NoClient
  BY <1>1, <1>2, <1>3 DEF CloseSocket, Ended, NoClient
<1>4. CASE sess[s] # NoClient
  BY <1>1, <1>2, <1>4 DEF CloseSocket, Ended
<1> QED
  BY <1>3, <1>4

(* A new session is stored under a key that leads nowhere.                 *)
LEMMA NewStep ==
  ASSUME SessionsInv, TypeOK', NEW p \in Peers, RecvNew(p)
  PROVE  SessionsInv'
<1> USE DEF objVars, histVars
<1>1. TypeOK /\ Steps /\ Keys /\ EntriesOpen /\ Deleted /\ Reach /\ Swept
  BY DEF SessionsInv
<1>2. PICK s \in Sessions :
        /\ Fresh(s)
        /\ table' = [table EXCEPT ![p] = s]
        /\ sess' = [sess EXCEPT ![s] = [st |-> "open", peer |-> p, idle |-> FALSE, ret |-> NextTurn]]
        /\ recv' = [pc |-> "forward", peer |-> p, sess |-> s]
        /\ evicted' = evicted \ {s}
        /\ late' = IF shut THEN late \cup {s} ELSE late \ {s}
  BY DEF RecvNew
<1>3. /\ \A q \in Peers : /\ table[q] \in Sessions \cup {None}
                          /\ table'[q] = IF q = p THEN s ELSE table[q]
                          /\ table[q] # s
      /\ \A t \in Sessions \ {s} : sess'[t] = sess[t]
      /\ sess[s] = NoClient /\ recv.sess # s /\ janitor.sess # s
      /\ sess'[s].st = "open" /\ sess'[s].peer = p /\ sess'[s].ret = NextTurn
      /\ s # None /\ p # None
  BY <1>1, <1>2, SessionsAssumption DEF TypeOK, Fresh
<1>4. /\ UNCHANGED <<shut, janitor, closer>> /\ recv.pc = "read" /\ table[p] = None
      /\ recv'.pc = "forward" /\ recv'.peer = p /\ recv'.sess = s
  BY <1>2 DEF RecvNew
<1>5. NextTurn \in {"read", "end"} /\ (shut => NextTurn = "end")
  BY DEF NextTurn
<1>6. Steps'
  BY <1>1, <1>3, <1>4, <1>5 DEF Steps
<1>7. Keys'
  BY <1>1, <1>3, <1>4 DEF Keys
<1>8. EntriesOpen'
  BY <1>1, <1>3, <1>4 DEF EntriesOpen, Open
<1>9. Deleted'
  BY <1>1, <1>3, <1>4, <1>5 DEF Deleted
<1>10. Reach'
  <2>1. InTable(s)'
    BY <1>3 DEF InTable
  <2>2. ASSUME NEW t \in Sessions, t # s, Open(t)' PROVE (InTable(t) \/ AtClose(t) \/ t \in evicted)'
    <3>1. Open(t) /\ (t \in evicted => t \in evicted')
      BY <1>2, <1>3, <2>2 DEF Open
    <3>2. InTable(t) => InTable(t)'
      <4> SUFFICES ASSUME NEW q \in Peers, table[q] = t PROVE table'[q] = t
        BY DEF InTable
      <4>1. q # p
        BY <1>4, <2>2, SessionsAssumption
      <4> QED
        BY <1>3, <4>1
    <3>3. AtClose(t) => AtClose(t)'
      BY <1>3, <1>4, <2>2 DEF AtClose
    <3> QED
      BY <1>1, <3>1, <3>2, <3>3 DEF Reach
  <2> QED
    BY <2>1, <2>2 DEF Reach
<1>11. Swept'
  <2>1. closer.pc = "done" => AllDone'
    BY <1>1, <1>3, <1>4, <1>5 DEF Swept, AllDone, Steps
  <2>2. closer.pc # "none" => s \in late' /\ late \subseteq late'
    BY <1>1, <1>2 DEF Steps
  <2> QED
    BY <1>1, <1>3, <1>4, <2>1, <2>2 DEF Swept, Open
<1> QED
  BY <1>6, <1>7, <1>8, <1>9, <1>10, <1>11 DEF SessionsInv

-----------------------------------------------------------------------------
(* Every step is one of these *)

(* The loop of Start and handlePacket.                                     *)
LEMMA ReceiverSteps ==
  ASSUME SessionsInv, TypeOK', Receiver
  PROVE  SessionsInv'
<1> USE DEF objVars, histVars
<1> DEFINE s == recv.sess
<1>1. /\ sess \in [Sessions -> Clients] /\ Steps /\ Keys /\ Deleted
      /\ recv \in [pc   : {"read", "forward", "delete", "close", "end"},
                   peer : Peers \cup {None}, sess : Sessions \cup {None}]
      /\ NextTurn \in {"read", "end"}
  BY DEF SessionsInv, TypeOK, NextTurn
<1>2. CASE RecvNothing
  BY <1>2, RecvQuiet
<1>3. CASE Forward
  <2>1. s \in Sessions /\ sess[s] \in Clients
    BY <1>1, <1>3 DEF Forward, Steps
  <2>2. sess'[s] = [sess[s] EXCEPT !.idle = FALSE] /\ \A t \in Sessions \ {s} : sess'[t] = sess[t]
    BY <1>1, <1>3, <2>1 DEF Forward
  <2>3. \/ sess'[s] = NoClient /\ sess[s] = NoClient
        \/ /\ sess[s] # NoClient /\ sess'[s].st = sess[s].st /\ sess'[s].peer = sess[s].peer
           /\ sess'[s].ret = sess[s].ret
    <3>1. CASE sess[s] = NoClient
      <4>1. NoClient.idle = FALSE
        BY DEF NoClient
      <4> QED
        BY <2>1, <2>2, <3>1, <4>1, IdleAlready
    <3>2. CASE sess[s] # NoClient
      BY <2>1, <2>2, <3>2 DEF Clients
    <3> QED
      BY <3>1, <3>2
  <2>4. /\ UNCHANGED <<shut, table, janitor, closer, evicted, late>>
        /\ \/ recv.pc = "forward" /\ recv'.pc \in {"read", "end"} /\ recv'.sess = None
           \/ recv.pc = "forward" /\ recv' = [recv EXCEPT !.pc = "delete"]
    BY <1>1, <1>3 DEF Forward, NoDatagram
  <2> QED
    BY <2>1, <2>2, <2>3, <2>4, SoftSteps
<1>4. CASE RecvDelete
  <2>1. s \in Sessions /\ recv.peer \in Peers /\ s # None
    BY <1>1, <1>4, SessionsAssumption DEF RecvDelete, Steps
  <2>2. /\ DeleteKey(recv.peer, s) /\ UNCHANGED <<shut, closer, late, janitor, sess>>
        /\ recv.pc = "delete" /\ recv'.pc = "close" /\ recv'.sess = s /\ recv'.peer = recv.peer
    BY <1>1, <1>4 DEF RecvDelete
  <2>3. \A q \in Peers : table[q] = s => q = recv.peer
    BY <1>1, <2>1 DEF Keys
  <2>4. AtClose(s)'
    BY <2>2 DEF AtClose
  <2> QED
    BY <2>1, <2>2, <2>3, <2>4, DeleteSteps
<1>5. CASE RecvClose
  <2>1. s \in Sessions /\ sess[s] \in Clients /\ s # None
    BY <1>1, <1>5, SessionsAssumption DEF RecvClose, Steps
  <2>2. /\ CloseSocket(s) /\ UNCHANGED <<shut, table, janitor, closer>>
        /\ recv'.pc \in {"read", "end"} /\ recv'.sess = None
    BY <1>1, <1>5 DEF RecvClose, NoDatagram
  <2>3. \A q \in Peers : table[q] # s
    BY <1>1, <1>5, <2>1 DEF Deleted, RecvClose
  <2>4. /\ evicted' = evicted \ {s} /\ late' = late \ {s}
        /\ \A t \in Sessions \ {s} : sess'[t] = sess[t]
        /\ sess'[s] = NoClient
             \/ (sess[s] # NoClient /\ sess'[s] = [sess[s] EXCEPT !.st = "closed"])
    BY <1>1, <2>1, <2>2, SocketCloses DEF SessionsInv
  <2> QED
    BY <2>1, <2>2, <2>3, <2>4, CloseSteps
<1> QED
  BY <1>2, <1>3, <1>4, <1>5 DEF Receiver

(* handleTargetReturn, and the time of a session.                          *)
LEMMA ReturnKeeps ==
  ASSUME SessionsInv, TypeOK', NEW s \in Sessions,
         Return(s) \/ ReturnAnswer(s) \/ ReturnError(s) \/ TurnIdle(s)
  PROVE  SessionsInv'
<1> USE DEF objVars, histVars
<1>1. /\ sess \in [Sessions -> Clients] /\ sess[s] \in Clients /\ Steps /\ Keys /\ Deleted
      /\ NextTurn \in {"read", "end"} /\ s # None
  BY SessionsAssumption DEF SessionsInv, TypeOK, NextTurn
<1>2. CASE ReturnDelete(s)
  <2> DEFINE p == sess[s].peer
  <2>1. sess[s].ret = "delete" /\ DeleteKey(p, s) /\ UNCHANGED <<shut, recv, janitor, closer, late>>
    BY <1>2 DEF ReturnDelete
  <2>2. sess[s] # NoClient /\ p \in Peers
    BY <1>1, <2>1 DEF Steps, NoClient, Clients
  <2>3. sess'[s] = [sess[s] EXCEPT !.ret = "close"] /\ \A t \in Sessions \ {s} : sess'[t] = sess[t]
    BY <1>1, <1>2 DEF ReturnDelete, ReturnGoto, Ended, Clients
  <2>4. \A q \in Peers : table[q] = s => q = p
    BY <1>1, <2>2 DEF Keys
  <2>5. AtClose(s)'
    BY <1>1, <2>3 DEF AtClose, Clients
  <2> QED
    BY <2>1, <2>2, <2>3, <2>4, <2>5, DeleteSteps
<1>3. CASE ReturnClose(s)
  <2>1. \A q \in Peers : table[q] # s
    BY <1>1, <1>3 DEF ReturnClose, Deleted
  <2>2. sess'[s] = NoClient /\ \A t \in Sessions \ {s} : sess'[t] = sess[t]
    BY <1>1, <1>3 DEF ReturnClose
  <2> QED
    BY <1>3, <2>1, <2>2, CloseSteps DEF ReturnClose
<1>4. CASE ReturnRead(s) \/ ReturnAnswer(s) \/ ReturnError(s) \/ TurnIdle(s)
  <2>1. /\ UNCHANGED <<shut, table, recv, janitor, closer, evicted, late>>
        /\ \A t \in Sessions \ {s} : sess'[t] = sess[t]
    BY <1>1, <1>4 DEF ReturnRead, ReturnAnswer, ReturnError, TurnIdle, ReturnGoto
  <2>2. /\ sess[s] # NoClient /\ sess'[s].st = sess[s].st /\ sess'[s].peer = sess[s].peer
        /\ \/ sess'[s].ret = sess[s].ret
           \/ sess[s].ret = "read" /\ sess'[s].ret \in {"read", "delete", "end"}
    <3>1. CASE ReturnRead(s)
      BY <1>1, <3>1 DEF ReturnRead, ReturnGoto, Ended, Open, Clients, NoClient
    <3>2. CASE ReturnAnswer(s)
      BY <1>1, <3>2 DEF ReturnAnswer, Clients, NoClient
    <3>3. CASE ReturnError(s)
      BY <1>1, <3>3 DEF ReturnError, ReturnGoto, Ended, Clients, NoClient
    <3>4. CASE TurnIdle(s)
      BY <1>1, <3>4 DEF TurnIdle, Open, Clients, NoClient
    <3> QED
      BY <1>4, <3>1, <3>2, <3>3, <3>4
  <2> QED
    BY <2>1, <2>2, SoftSteps
<1> QED
  BY <1>2, <1>3, <1>4 DEF Return

(* cleanupExpiredClients.                                                  *)
LEMMA JanitorSteps ==
  ASSUME SessionsInv, TypeOK', Janitor
  PROVE  SessionsInv'
<1> USE DEF objVars, histVars
<1> DEFINE s == janitor.sess
<1>1. /\ sess \in [Sessions -> Clients] /\ Steps /\ Keys /\ Deleted
      /\ janitor \in [pc   : {"wait", "load", "delete", "close", "end"},
                      keys : SUBSET Peers, key : Peers \cup {None}, sess : Sessions \cup {None}]
  BY DEF SessionsInv, TypeOK
<1>2. CASE Tick \/ JanitorStops \/ JanitorLoad
  BY <1>2, JanitorQuiet
<1>3. CASE JanitorDelete
  <2>1. s \in Sessions /\ janitor.key \in Peers /\ s # None
    BY <1>1, <1>3, SessionsAssumption DEF JanitorDelete, Steps
  <2>2. /\ DeleteKey(janitor.key, s) /\ UNCHANGED <<shut, closer, late, recv, sess>>
        /\ janitor.pc = "delete" /\ janitor'.pc = "close" /\ janitor'.sess = s
        /\ janitor'.key = janitor.key
    BY <1>1, <1>3 DEF JanitorDelete
  <2>3. \A q \in Peers : table[q] = s => q = janitor.key
    BY <1>1, <2>1 DEF Keys
  <2>4. AtClose(s)'
    BY <2>2 DEF AtClose
  <2> QED
    BY <2>1, <2>2, <2>3, <2>4, DeleteSteps
<1>4. CASE JanitorClose
  <2>1. s \in Sessions /\ s # None
    BY <1>1, <1>4, SessionsAssumption DEF JanitorClose, Steps
  <2>2. /\ CloseSocket(s) /\ UNCHANGED <<shut, table, recv, closer>>
        /\ janitor.pc = "close" /\ janitor'.pc \in {"wait", "load"} /\ janitor'.sess = None
    BY <1>1, <1>4 DEF JanitorClose, NextKey
  <2>3. \A q \in Peers : table[q] # s
    BY <1>1, <1>4, <2>1 DEF Deleted, JanitorClose
  <2>4. /\ evicted' = evicted \ {s} /\ late' = late \ {s}
        /\ \A t \in Sessions \ {s} : sess'[t] = sess[t]
        /\ sess'[s] = NoClient
             \/ (sess[s] # NoClient /\ sess'[s] = [sess[s] EXCEPT !.st = "closed"])
    BY <1>1, <2>1, <2>2, SocketCloses DEF SessionsInv
  <2> QED
    BY <2>1, <2>2, <2>3, <2>4, CloseSteps
<1> QED
  BY <1>2, <1>3, <1>4 DEF Janitor

(* Close visits the next key.                                              *)
LEMMA RangeSteps ==
  ASSUME SessionsInv, TypeOK', CloseNext
  PROVE  SessionsInv'
<1> USE DEF objVars, histVars
<1>1. /\ TypeOK /\ Steps /\ Keys /\ EntriesOpen /\ Deleted /\ Reach /\ Swept
      /\ closer.pc = "range" /\ shut /\ UNCHANGED <<shut, table, recv, janitor>>
  BY DEF SessionsInv, CloseNext, Steps
<1>2. ASSUME NEW p \in closer.left, table[p] # None, CloseSocket(table[p]),
             closer' = [closer EXCEPT !.left = @ \ {p}]
      PROVE  SessionsInv'
  <2>1. p \in Peers /\ table[p] \in Sessions
    BY <1>1, <1>2 DEF TypeOK
  <2>2. closer'.pc = "range" /\ closer'.left = closer.left \ {p}
    BY <1>1, <1>2 DEF TypeOK
  <2> QED
    BY <1>1, <1>2, <2>1, <2>2, CloseSteps, SocketCloses
<1>3. CASE UNCHANGED <<sess, evicted, late>>
  <2>1. Steps' /\ Keys' /\ EntriesOpen' /\ Deleted' /\ Reach'
    BY <1>1, <1>3 DEF Steps, Keys, EntriesOpen, Deleted, Reach, AtClose, InTable, Open
  <2>2. \/ closer.left = {} /\ closer'.left = {} /\ closer'.pc \in {"sockLast", "wait"}
        \/ /\ closer'.pc = "range"
           /\ \E p \in closer.left : /\ closer'.left = closer.left \ {p}
                                     /\ table[p] = None \/ CloseSocket(table[p])
    BY <1>1, <1>3 DEF CloseNext, TypeOK
  <2>3. \A p \in Peers : table[p] # None /\ CloseSocket(table[p]) => ~Open(table[p])
    <3> SUFFICES ASSUME NEW p \in Peers, table[p] # None, CloseSocket(table[p]) PROVE ~Open(table[p])
      OBVIOUS
    <3>1. table[p] \in Sessions /\ sess[table[p]] \in Clients
      BY <1>1 DEF TypeOK
    <3>2. /\ sess'[table[p]] = sess[table[p]]
          /\ \/ sess'[table[p]] = NoClient
             \/ sess'[table[p]] = [sess[table[p]] EXCEPT !.st = "closed"]
      BY <1>1, <1>3, <3>1, SocketCloses
    <3> QED
      BY <3>1, <3>2 DEF Open, Clients, NoClient
  <2>4. Swept'
    BY <1>1, <1>3, <2>2, <2>3 DEF Swept, AllDone, Open
  <2> QED
    BY <2>1, <2>4 DEF SessionsInv
<1> QED
  BY <1>2, <1>3 DEF CloseNext

-----------------------------------------------------------------------------
(* Theorems *)

(* Every step preserves the invariant.                                     *)
LEMMA InvNext == SessionsInv /\ [Next]_vars => SessionsInv'
<1> SUFFICES ASSUME SessionsInv, [Next]_vars PROVE SessionsInv'
  OBVIOUS
<1>1. TypeOK'
  BY NextTypes DEF SessionsInv
<1>2. CASE Receiver
  BY <1>1, <1>2, ReceiverSteps
<1>3. ASSUME NEW s \in Sessions, Return(s) PROVE SessionsInv'
  BY <1>1, <1>3, ReturnKeeps
<1>4. CASE Environment
  BY <1>1, <1>4, RecvQuiet, NewStep, ReturnKeeps DEF Environment
<1>5. CASE Janitor
  BY <1>1, <1>5, JanitorSteps
<1>6. CASE Close \/ Closing
  BY <1>1, <1>6, CloserQuiet, RangeSteps DEF Closing
<1>7. CASE UNCHANGED vars
  <2>1. UNCHANGED <<shut, table, sess, recv, janitor, closer, evicted, late>>
    BY <1>7 DEF vars, objVars, histVars
  <2> QED
    BY <1>1, <2>1 DEF SessionsInv, Steps, Keys, EntriesOpen, Deleted, Reach, AtClose, InTable,
       Open, Swept, AllDone
<1> QED
  BY <1>2, <1>3, <1>4, <1>5, <1>6, <1>7 DEF Next

(* The table, the sessions and the goroutines stay in step.                *)
THEOREM Sound == Spec => []SessionsInv
<1>1. Init => SessionsInv
  <2> SUFFICES ASSUME Init PROVE SessionsInv
    OBVIOUS
  <2>1. TypeOK
    BY InitTypes
  <2>2. Steps /\ Keys /\ EntriesOpen /\ Deleted /\ Reach /\ Swept
    BY DEF Init, NextKey, NoClient, Steps, Keys, EntriesOpen, Deleted, Reach, Swept, Open
  <2> QED
    BY <2>1, <2>2 DEF SessionsInv
<1> QED
  BY <1>1, InvNext, PTL DEF Spec

(* The variables keep their types.                                         *)
THEOREM TypeCorrect == Spec => []TypeOK
BY Sound, PTL DEF SessionsInv

(* A datagram never finds a session whose socket is closed, as long as     *)
(* nobody closes the object.                                               *)
THEOREM EntriesStayOpen == Spec => []EntriesOpen
BY Sound, PTL DEF SessionsInv

(* A session out of reach is one whose entry another session's close took. *)
THEOREM LostByEviction == Spec => []LostOnlyByEviction
<1>1. SessionsInv => LostOnlyByEviction
  BY DEF SessionsInv, Reach, AtClose, LostOnlyByEviction, BeingClosed
<1> QED
  BY <1>1, Sound, PTL

(* After Close, what is open was evicted, or the receiver is at it.        *)
THEOREM CloseLeaves == Spec => []CloseLeavesNone
<1>1. SessionsInv => CloseLeavesNone
  <2> SUFFICES ASSUME SessionsInv, closer.pc = "done", NEW s \in Sessions, Open(s)
               PROVE  s \in evicted \cup late \/ (recv.pc = "close" /\ recv.sess = s)
    BY DEF CloseLeavesNone
  <2>1. closer.left = {} /\ AllDone /\ (\A p \in Peers : table[p] # None /\ Open(table[p]) => table[p] \in late)
    BY DEF SessionsInv, Swept
  <2>2. InTable(s) \/ AtClose(s) \/ s \in evicted
    BY DEF SessionsInv, Reach
  <2>3. InTable(s) => s \in late
    BY <2>1, SessionsAssumption DEF InTable
  <2>4. AtClose(s) => recv.pc = "close" /\ recv.sess = s
    BY <2>1 DEF AtClose, AllDone
  <2> QED
    BY <2>2, <2>3, <2>4
<1> QED
  BY <1>1, Sound, PTL
=============================================================================
