-------------------------- MODULE ControlPlaneProofs --------------------------
(***************************************************************************)
(* Theorems about ControlPlane, for every number of requests, ports, rows  *)
(* and crashes, with and without faults.                                   *)
(*                                                                         *)
(* The safety properties speak of ports that are quiet and not blamed.     *)
(* PlaneInv says what holds of such a port while a request is at work on   *)
(* it, too: how far the agent is ahead of the table (Stage).  Because      *)
(* contention is blamed when a request starts, at most one request is at   *)
(* work on an unblamed port (Lone), and its copies of the rows are the     *)
(* rows (Snap, ChainSnap).  A step then changes the ports of its request,  *)
(* which Stage covers, and leaves every other unblamed port alone.         *)
(***************************************************************************)
EXTENDS ControlPlane, FiniteSetTheorems, TLAPS

-----------------------------------------------------------------------------
(* The inductive invariant *)

(* Row id is in the table and on port p.                                   *)
RuleAt(id, p)  == rules[id] # None /\ rules[id].port = p
ChainAt(id, p) == chains[id] # None /\ chains[id].port = p

(* The rows of rules a request holds copies of.                            *)
Held(q) == IF q.op \in {"delRule", "modifyRule", "modifyRules"}
           THEN {[id |-> q.id, row |-> q.row]} \cup q.todo ELSE {}

(* What a request of each operation holds, and where it can be.            *)
IsAddRule(r) ==
    /\ req[r].op = "addRule" /\ pc[r] \in {"agentAdd", "write"}
    /\ req[r].row = None /\ req[r].set \in RuleRows /\ req[r].todo = {}

(* The row that delRule has read is the one it deletes.                    *)
IsDelRule(r) ==
    /\ req[r].op = "delRule" /\ pc[r] \in {"readNode", "agentDel", "write"}
    /\ req[r].id \in RuleIds /\ req[r].row \in RuleRows
    /\ req[r].set = NoSet /\ req[r].todo = {}

(* modifyRule, or modifyRules at one of its rows, is about to change a     *)
(* port.                                                                   *)
IsModify(r) ==
    /\ Modifies(req[r]) /\ pc[r] \in {"agentDel", "agentAdd", "write"}
    /\ req[r].id \in RuleIds /\ req[r].row \in RuleRows
    /\ req[r].set.port # req[r].row.port
    /\ req[r].op = "modifyRule" => req[r].todo = {}
    /\ req[r].op = "modifyRules" => req[r].set.port = None /\ req[r].set.via = None

(* addChain counts the chains on the port it is given.                     *)
IsAddChain(r) ==
    /\ req[r].op = "addChain" /\ pc[r] \in {"count", "agentAdd", "write", "map"}
    /\ req[r].row = None /\ req[r].set.port \in Ports
    /\ req[r].todo = {} /\ req[r].ip \in Ips

(* delChain has read its row, and counts unless the node is gone.          *)
IsDelChain(r) ==
    /\ req[r].op = "delChain" /\ pc[r] \in {"count", "agentDel", "write", "unmap"}
    /\ req[r].id \in ChainIds /\ req[r].row \in ChainRows
    /\ req[r].set = NoSet /\ req[r].todo = {}
    /\ ~req[r].seen => ~node

(* A request is idle or one of these.                                      *)
ShapeOf(r) ==
    \/ pc[r] = "idle" /\ req[r] = NoReq
    \/ IsAddRule(r) \/ IsDelRule(r) \/ IsModify(r) \/ IsAddChain(r) \/ IsDelChain(r)

Shape == \A r \in Requests : ShapeOf(r)

(* The rows modifyRules has left to do are different rows.                 *)
Distinct ==
    \A r \in Requests :
        /\ \A j \in req[r].todo : j.id # req[r].id
        /\ \A i, j \in req[r].todo : i.id = j.id => i = j

(* Requests that have a port or the row of a rule in common are blamed.    *)
Lone ==
    \A r, s \in Requests :
        /\ r # s
        /\ \/ ReqPorts(req[r]) \cap ReqPorts(req[s]) # {}
           \/ RuleKeys(req[r]) \cap RuleKeys(req[s]) # {}
        => ReqPorts(req[r]) \subseteq blame

(* The copy a request holds of a row is the row, unless the request and    *)
(* the port the row has meanwhile are blamed.                              *)
Snap ==
    \A r \in Requests : \A a \in Held(req[r]) :
        rules[a.id] # a.row =>
            /\ ReqPorts(req[r]) \subseteq blame
            /\ rules[a.id] # None => rules[a.id].port \in blame

(* The same for the row of a chain, which its delete may have removed.     *)
ChainSnap ==
    \A r \in Requests :
        /\ req[r].op = "delChain"
        /\ chains[req[r].id] # req[r].row
        => /\ req[r].row.port \in blame \/ pc[r] = "unmap"
           /\ chains[req[r].id] # None => chains[req[r].id].port \in blame

(* A request is blamed when the agent is not there for it.                 *)
Down == agent # "up" => \A r \in Requests : ReqPorts(req[r]) \subseteq blame

(* What a starting agent downloaded is what the tables hold.               *)
Cfg ==
    /\ agent \in {"registering", "booting"} =>
         \A id \in RuleIds :
             cfg.rules[id] # rules[id] =>
                 /\ cfg.rules[id] # None => cfg.rules[id].port \in blame
                 /\ rules[id] # None => rules[id].port \in blame
    /\ agent = "booting" =>
         \A p \in Ports \ blame : p \in cfg.chains <=> \E id \in ChainIds : ChainAt(id, p)

(* At most one rule, or else chains, have port p; it has no row.           *)
Single(p) ==
    /\ \A i, j \in RuleIds : RuleAt(i, p) /\ RuleAt(j, p) => i = j
    /\ \A i \in RuleIds, c \in ChainIds : ~(RuleAt(i, p) /\ ChainAt(c, p))

Bare(p) ==
    /\ \A i \in RuleIds : ~RuleAt(i, p)
    /\ \A c \in ChainIds : ~ChainAt(c, p)

(* The listener and the rows of p agree.                                   *)
Agree(p) ==
    /\ \A i \in RuleIds : RuleAt(i, p) =>
         /\ serve[p] # None
         /\ p \notin unchained => serve[p] = RuleService(rules[i])
    /\ \A c \in ChainIds : ChainAt(c, p) => serve[p] = ChainService
    /\ node /\ serve[p] # None => ~Bare(p)

(* The ports on which r has called the agent and not yet written the row.  *)
Touched(r) ==
    IF pc[r] = "write" THEN PortsNow(req[r])
    ELSE IF pc[r] = "agentAdd" /\ Modifies(req[r]) THEN {req[r].row.port} ELSE {}

(* How such a port differs from its rows until then.                       *)
Stage(r, p) ==
    LET q == req[r] IN
    IF pc[r] = "agentAdd" THEN serve[p] = None
    ELSE CASE q.op = "addRule" -> serve[p] = RuleService(q.set) /\ Bare(p)
           [] q.op = "delRule" -> node => serve[p] = None
           [] q.op = "addChain" -> serve[p] = ChainService /\ \A i \in RuleIds : ~RuleAt(i, p)
           [] q.op = "delChain" ->
                 \/ serve[p] = None /\ \A c \in ChainIds : ChainAt(c, p) => c = q.id
                 \/ /\ serve[p] = ChainService
                    /\ node => \E c \in ChainIds : ChainAt(c, p) /\ c # q.id
           [] OTHER -> IF p = AddedPort(q)
                       THEN /\ serve[p] # None
                            /\ p \notin unchained => serve[p] = RuleService(Merge(q.row, q.set))
                            /\ p # q.row.port => Bare(p)
                       ELSE serve[p] = None

(* A request about to close a chain's port deletes the last chain on it.   *)
LastChain(r) ==
    pc[r] = "agentDel" /\ req[r].op = "delChain" /\ req[r].row.port \notin blame =>
        \A c \in ChainIds : ChainAt(c, req[r].row.port) => c = req[r].id

(* Port p is in order, or a request is at work on it.                      *)
PortOK(p) ==
    /\ Single(p)
    /\ (\A r \in Requests : p \notin Touched(r)) => Agree(p)
    /\ \A r \in Requests : p \in Touched(r) => Stage(r, p)

(* Every port without blame is in order while the agent is up.             *)
Served == agent = "up" => \A p \in Ports \ blame : PortOK(p)

(* The inductive invariant.                                                *)
PlaneInv ==
    /\ TypeOK
    /\ Shape /\ Distinct             \* the requests by themselves
    /\ Lone /\ Snap /\ ChainSnap     \* requests, each other and the tables
    /\ Down /\ Cfg                   \* the agent while it is not up
    /\ Served                        \* the agent while it is
    /\ \A r \in Requests : LastChain(r)


-----------------------------------------------------------------------------
(* Types *)

Steps == {"idle", "readNode", "count", "agentDel", "agentAdd", "write", "map", "unmap"}

(* A request's ports are ports, and what it is at are among them.          *)
LEMMA PortTypes ==
  ASSUME NEW q \in ReqTypes
  PROVE  /\ PortsNow(q) \subseteq ReqPorts(q) /\ ReqPorts(q) \subseteq Ports
         /\ q.set.port \in Ports \cup {None}
         /\ q.row \in RuleRows \cup ChainRows => q.row.port \in PortsNow(q)
         /\ q.set.port # None => q.set.port \in PortsNow(q)
<1>1. q.set.port \in Ports \cup {None} /\ q.row \in RuleRows \cup ChainRows \cup {None}
  BY DEF ReqTypes, Sets
<1>2. q.row # None => q.row.port \in Ports
  BY <1>1 DEF RuleRows, ChainRows
<1>3. \A j \in q.todo : j.row.port \in Ports
  BY DEF ReqTypes, RuleRows
<1>4. None \notin Ports /\ None \notin RuleRows \cup ChainRows
  BY ConstantsAssumption
<1> QED
  BY <1>1, <1>2, <1>3, <1>4 DEF PortsNow, ReqPorts

(* A request that is not there holds nothing.                              *)
LEMMA NoReqTypes ==
  /\ NoReq \in ReqTypes /\ NoSet \in Sets
  /\ PortsNow(NoReq) = {} /\ ReqPorts(NoReq) = {} /\ RuleKeys(NoReq) = {} /\ Held(NoReq) = {}
BY DEF NoReq, NoSet, ReqTypes, Sets, PortsNow, ReqPorts, RuleKeys, Held

(* The ports that are blamed for contention are ports.                     *)
LEMMA ContendedTypes ==
  ASSUME TypeOK, NEW q \in ReqTypes
  PROVE  Contended(q) \subseteq Ports
<1>1. \A r \in Requests : ReqPorts(req[r]) \subseteq Ports
  BY PortTypes DEF TypeOK
<1>2. ReqPorts(q) \subseteq Ports
  BY PortTypes
<1> QED
  BY <1>1, <1>2 DEF Contended

(* A handler that starts with a well-formed request.                       *)
LEMMA BeginTypes ==
  ASSUME TypeOK, NEW r \in Requests, NEW q \in ReqTypes, NEW step \in Steps, Begin(r, q, step)
  PROVE  TypeOK'
<1>1. Contended(q) \subseteq Ports /\ ReqPorts(q) \subseteq Ports
  BY ContendedTypes, PortTypes
<1>2. blame' \subseteq Ports
  BY <1>1 DEF Begin, TypeOK
<1>3. pc' \in [Requests -> Steps] /\ req' \in [Requests -> ReqTypes]
  BY DEF Begin, Goto, TypeOK, Steps
<1> QED
  BY <1>2, <1>3 DEF Begin, TypeOK, Steps, dbVars, agentVars

(* One that returns, and whose ports may be blamed.                        *)
LEMMA FinishTypes ==
  ASSUME TypeOK, NEW r \in Requests, Finish(r)
  PROVE  pc' \in [Requests -> Steps] /\ req' \in [Requests -> ReqTypes]
BY NoReqTypes DEF Finish, Goto, TypeOK, Steps

(* One that goes on to its next step.                                      *)
LEMMA GotoTypes ==
  ASSUME TypeOK, NEW r \in Requests, NEW step \in Steps, Goto(r, step)
  PROVE  pc' \in [Requests -> Steps]
BY DEF Goto, TypeOK, Steps

(* Only ports are ever blamed.                                             *)
LEMMA BlameTypes ==
  ASSUME TypeOK, NEW r \in Requests
  PROVE  blame \cup PortsNow(req[r]) \subseteq Ports /\ BusyPorts \subseteq Ports
<1>1. \A s \in Requests : PortsNow(req[s]) \subseteq Ports /\ ReqPorts(req[s]) \subseteq Ports
  BY PortTypes DEF TypeOK
<1> QED
  BY <1>1 DEF TypeOK, BusyPorts

(* What the operation of a request says about the rest of it.              *)
LEMMA KindOf ==
  ASSUME Shape, NEW r \in Requests, pc[r] # "idle"
  PROVE  /\ req[r].op \in {"addRule", "delRule", "modifyRule", "modifyRules",
                           "addChain", "delChain"}
         /\ req[r].op = "addRule" => IsAddRule(r)
         /\ req[r].op = "delRule" => IsDelRule(r)
         /\ Modifies(req[r]) => IsModify(r)
         /\ req[r].op = "addChain" => IsAddChain(r)
         /\ req[r].op = "delChain" => IsDelChain(r)
BY DEF Shape, ShapeOf, IsAddRule, IsDelRule, IsModify, IsAddChain, IsDelChain, Modifies

(* A merged row is a row, and what the agent is asked to open a service.   *)
LEMMA MergeTypes ==
  ASSUME NEW row \in RuleRows, NEW set \in Sets
  PROVE  Merge(row, set) \in RuleRows
BY ConstantsAssumption DEF Merge, RuleRows, Sets

(* The agent is asked to open a port of the request, for a service.        *)
LEMMA AddedTypes ==
  ASSUME TypeOK, Shape, NEW r \in Requests, pc[r] = "agentAdd"
  PROVE  /\ AddedPort(req[r]) \in Ports /\ AddedPort(req[r]) \in PortsNow(req[r])
         /\ AddedService(req[r]) \in Services
<1> DEFINE q == req[r]
<1>1. q \in ReqTypes /\ q.set \in Sets /\ q.set.port \in Ports \cup {None}
  BY DEF TypeOK, ReqTypes, Sets
<1>2. \A row \in RuleRows : /\ RuleService(row) \in Services
                            /\ [RuleService(row) EXCEPT !.via = Direct] \in Services
  BY ConstantsAssumption DEF RuleService, RuleRows, Services
<1>3. ChainService \in Services
  BY DEF ChainService, Services
<1>4. CASE q.op = "addRule"
  <2>1. q.set \in RuleRows
    BY <1>4, KindOf DEF IsAddRule
  <2>2. q.set.port \in Ports /\ q.set.port # None
    BY <2>1, ConstantsAssumption DEF RuleRows
  <2> QED
    BY <1>1, <1>2, <1>4, <2>1, <2>2, PortTypes DEF AddedPort, AddedService
<1>5. CASE Modifies(q)
  <2>1. q.row \in RuleRows
    BY <1>5, KindOf DEF IsModify
  <2>2. Merge(q.row, q.set) \in RuleRows
    BY <1>1, <2>1, MergeTypes
  <2>3. AddedPort(q) \in PortsNow(q) /\ AddedPort(q) \in Ports
    BY <1>1, <2>1, PortTypes DEF AddedPort
  <2> QED
    BY <1>2, <1>5, <2>2, <2>3 DEF AddedService, Modifies
<1>6. CASE q.op = "addChain"
  <2>1. q.set.port \in Ports /\ q.set.port # None
    BY <1>6, KindOf, ConstantsAssumption DEF IsAddChain
  <2> QED
    BY <1>1, <1>3, <1>6, <2>1, PortTypes DEF AddedPort, AddedService
<1> QED
  BY <1>4, <1>5, <1>6, KindOf DEF Modifies, IsDelRule, IsDelChain

(* Every step of a request keeps the types.                                *)
LEMMA StepTypes ==
  ASSUME TypeOK, Shape, NEW r \in Requests, Step(r)
  PROVE  TypeOK'
<1> DEFINE q == req[r]
<1> USE DEF dbVars, agentVars, histVars
<1>1. /\ pc \in [Requests -> Steps] /\ req \in [Requests -> ReqTypes]
      /\ q.set \in Sets /\ blame \cup PortsNow(q) \subseteq Ports
      /\ \A id \in RuleIds : rules[id] \in RuleRows \cup {None}
  BY BlameTypes DEF TypeOK, Steps, ReqTypes
<1>2. CASE ReadNode(r)
  BY <1>2, GotoTypes DEF ReadNode, TypeOK, Steps
<1>3. CASE CountForAdd(r)
  BY <1>3, GotoTypes DEF CountForAdd, TypeOK, Steps
<1>4. CASE CountForDel(r)
  <2>1. pc' \in [Requests -> Steps] /\ req' \in [Requests -> ReqTypes]
    BY <1>1, <1>4, GotoTypes, FinishTypes DEF CountForDel, Steps
  <2> QED
    BY <1>4, <2>1 DEF CountForDel, TypeOK, Steps
<1>5. CASE AgentDel(r)
  <2>1. pc' \in [Requests -> Steps] /\ req' \in [Requests -> ReqTypes]
    BY <1>1, <1>5, GotoTypes, FinishTypes DEF AgentDel, Fault, Steps
  <2> QED
    BY <1>1, <1>5, <2>1 DEF AgentDel, TypeOK, Steps, Fault
<1>6. CASE AgentUnreached(r)
  BY <1>1, <1>6, FinishTypes DEF AgentUnreached, Fault, TypeOK, Steps
<1>7. CASE AgentRefused(r)
  <2>1. pc' \in [Requests -> Steps] /\ req' \in [Requests -> ReqTypes]
    BY <1>1, <1>7, GotoTypes, FinishTypes DEF AgentRefused, Steps
  <2> QED
    BY <1>7, <2>1 DEF AgentRefused, TypeOK, Steps
<1>8. CASE AgentAdd(r)
  <2>1. pc' \in [Requests -> Steps] /\ req' \in [Requests -> ReqTypes]
    BY <1>1, <1>8, GotoTypes, FinishTypes DEF AgentAdd, Fault, Steps
  <2>2. AddedPort(q) \in Ports /\ AddedService(q) \in Services
    BY <1>8, AddedTypes DEF AgentAdd
  <2>3. unchained' \subseteq Ports /\ blame' \subseteq Ports
    BY <1>1, <1>8, <2>2 DEF AgentAdd, Fault, TypeOK
  <2> QED
    BY <1>8, <2>1, <2>2, <2>3 DEF AgentAdd, TypeOK, Steps
<1>9. CASE AgentInUse(r)
  <2>1. Modifies(q) => q.row.port \in Ports
    BY <1>1, <1>9, KindOf, PortTypes DEF AgentInUse, IsModify
  <2> QED
    BY <1>9, <2>1, FinishTypes DEF AgentInUse, TypeOK, Steps
<1>10. CASE CreateRule(r)
  <2>1. q.set \in RuleRows
    BY <1>10, KindOf DEF CreateRule, IsAddRule
  <2>2. rules' \in [RuleIds -> RuleRows \cup {None}]
    BY <1>10, <2>1 DEF CreateRule, TypeOK
  <2> QED
    BY <1>10, <2>2, FinishTypes DEF CreateRule, TypeOK, Steps
<1>11. CASE DeleteRule(r)
  BY <1>11, FinishTypes DEF DeleteRule, TypeOK, Steps
<1>12. CASE UpdateRule(r)
  <2>1. rules' \in [RuleIds -> RuleRows \cup {None}]
    BY <1>1, <1>12, MergeTypes DEF UpdateRule, TypeOK
  <2>2. ASSUME NEW next \in q.todo,
               req' = [req EXCEPT ![r].id = next.id, ![r].row = next.row, ![r].todo = @ \ {next}]
        PROVE  req' \in [Requests -> ReqTypes]
    <3>1. next \in [id : RuleIds, row : RuleRows] /\ q \in ReqTypes
      BY <1>1 DEF ReqTypes
    <3>2. [q EXCEPT !.id = next.id, !.row = next.row, !.todo = q.todo \ {next}] \in ReqTypes
      BY <3>1 DEF ReqTypes
    <3>3. req' = [req EXCEPT ![r] =
                    [q EXCEPT !.id = next.id, !.row = next.row, !.todo = q.todo \ {next}]]
      BY <1>1, <2>2
    <3> QED
      BY <1>1, <3>2, <3>3
  <2>3. pc' \in [Requests -> Steps] /\ req' \in [Requests -> ReqTypes]
    BY <1>1, <1>12, <2>2, GotoTypes, FinishTypes DEF UpdateRule, Steps
  <2> QED
    BY <1>12, <2>1, <2>3 DEF UpdateRule, TypeOK, Steps
<1>13. CASE CreateChain(r)
  <2>1. [port |-> q.set.port, ip |-> q.ip] \in ChainRows
    BY <1>13, KindOf DEF CreateChain, IsAddChain, ChainRows
  <2>2. chains' \in [ChainIds -> ChainRows \cup {None}]
    BY <1>13, <2>1 DEF CreateChain, TypeOK
  <2> QED
    BY <1>13, <2>2, GotoTypes DEF CreateChain, TypeOK, Steps
<1>14. CASE MapChain(r)
  <2>1. mapping' \subseteq ChainIds
    BY <1>14 DEF MapChain, TypeOK, Rows
  <2> QED
    BY <1>14, <2>1, FinishTypes DEF MapChain, TypeOK, Steps
<1>15. CASE DeleteChain(r)
  BY <1>15, GotoTypes DEF DeleteChain, TypeOK, Steps
<1>16. CASE UnmapChain(r)
  BY <1>16, FinishTypes DEF UnmapChain, TypeOK, Steps
<1>17. CASE WriteFails(r)
  BY <1>1, <1>17, FinishTypes DEF WriteFails, Fault, TypeOK, Steps
<1> QED
  BY <1>2, <1>3, <1>4, <1>5, <1>6, <1>7, <1>8, <1>9, <1>10, <1>11, <1>12, <1>13, <1>14,
     <1>15, <1>16, <1>17 DEF Step

-----------------------------------------------------------------------------
(* What a step of a request leaves alone *)

(* A request goes on as it is, ends, or turns to its next row.             *)
Onward(r) ==
    \/ req' = req
    \/ Finish(r)
    \/ /\ Modifies(req[r])
       /\ \E next \in req[r].todo :
            req' = [req EXCEPT ![r].id = next.id, ![r].row = next.row, ![r].todo = @ \ {next}]

(* The other requests, the agent's process and the node stay, the history  *)
(* grows, and what r holds shrinks.                                        *)
Frame(r) ==
    /\ \A s \in Requests \ {r} : pc'[s] = pc[s] /\ req'[s] = req[s]
    /\ UNCHANGED <<node, agent, cfg, crashes>>
    /\ blame \subseteq blame' /\ unchained \subseteq unchained'
    /\ ReqPorts(req'[r]) \subseteq ReqPorts(req[r])
    /\ RuleKeys(req'[r]) \subseteq RuleKeys(req[r])
    /\ Held(req'[r]) \subseteq Held(req[r])

(* A request that goes on in these ways holds no more than before.         *)
LEMMA OnwardShrinks ==
  ASSUME TypeOK, Shape, NEW r \in Requests, Onward(r)
  PROVE  /\ \A s \in Requests \ {r} : req'[s] = req[s]
         /\ ReqPorts(req'[r]) \subseteq ReqPorts(req[r])
         /\ RuleKeys(req'[r]) \subseteq RuleKeys(req[r])
         /\ Held(req'[r]) \subseteq Held(req[r])
<1> DEFINE q == req[r]
<1>1. req \in [Requests -> ReqTypes] /\ q \in ReqTypes
  BY DEF TypeOK
<1>2. CASE req' = req
  BY <1>2
<1>3. CASE Finish(r)
  BY <1>1, <1>3, NoReqTypes DEF Finish
<1>4. ASSUME Modifies(q), NEW next \in q.todo,
             req' = [req EXCEPT ![r].id = next.id, ![r].row = next.row, ![r].todo = @ \ {next}]
      PROVE  /\ \A s \in Requests \ {r} : req'[s] = req[s]
             /\ ReqPorts(req'[r]) \subseteq ReqPorts(q)
             /\ RuleKeys(req'[r]) \subseteq RuleKeys(q)
             /\ Held(req'[r]) \subseteq Held(q)
  <2>1. /\ req'[r].set = q.set /\ req'[r].op = q.op /\ req'[r].id = next.id
        /\ req'[r].row = next.row /\ req'[r].todo = q.todo \ {next}
    BY <1>1, <1>4 DEF ReqTypes
  <2>2. next \in [id : RuleIds, row : RuleRows]
    BY <1>1 DEF ReqTypes
  <2>3. [id |-> next.id, row |-> next.row] = next
    BY <2>2
  <2>4. Held(req'[r]) \subseteq Held(q)
    BY <1>4, <2>1, <2>3 DEF Held, Modifies
  <2>5. RuleKeys(req'[r]) \subseteq RuleKeys(q)
    BY <1>4, <2>1 DEF RuleKeys, Modifies
  <2>6. ReqPorts(req'[r]) \subseteq ReqPorts(q)
    BY <2>1 DEF ReqPorts, PortsNow
  <2> QED
    BY <1>1, <1>4, <2>4, <2>5, <2>6
<1> QED
  BY <1>2, <1>3, <1>4 DEF Onward

(* Every step of a request is one of those.                                *)
LEMMA StepFrame ==
  ASSUME TypeOK, Shape, NEW r \in Requests, Step(r)
  PROVE  Frame(r)
<1> USE DEF dbVars, agentVars, histVars
<1>1. pc \in [Requests -> Steps] /\ req \in [Requests -> ReqTypes]
  BY DEF TypeOK, Steps
<1>2. Onward(r)
  BY DEF Step, Onward, ReadNode, CountForAdd, CountForDel, AgentDel, AgentUnreached,
         AgentRefused, AgentAdd, AgentInUse, CreateRule, DeleteRule, UpdateRule, CreateChain,
         MapChain, DeleteChain, UnmapChain, WriteFails, Fault
<1>3. \A s \in Requests \ {r} : pc'[s] = pc[s]
  BY <1>1 DEF Step, ReadNode, CountForAdd, CountForDel, AgentDel, AgentUnreached,
         AgentRefused, AgentAdd, AgentInUse, CreateRule, DeleteRule, UpdateRule, CreateChain,
         MapChain, DeleteChain, UnmapChain, WriteFails, Fault, Finish, Goto
<1>4. /\ UNCHANGED <<node, agent, cfg, crashes>>
      /\ blame \subseteq blame' /\ unchained \subseteq unchained'
  BY DEF Step, ReadNode, CountForAdd, CountForDel, AgentDel, AgentUnreached,
         AgentRefused, AgentAdd, AgentInUse, CreateRule, DeleteRule, UpdateRule, CreateChain,
         MapChain, DeleteChain, UnmapChain, WriteFails, Fault, Finish
<1> QED
  BY <1>2, <1>3, <1>4, OnwardShrinks DEF Frame

(* A request of a known kind that goes on to a step of that kind.          *)
LEMMA MoveShape ==
  ASSUME Shape, NEW r \in Requests, pc[r] # "idle", node' = node, req'[r] = req[r],
         req[r].op = "addRule" => pc'[r] \in {"agentAdd", "write"},
         req[r].op = "delRule" => pc'[r] \in {"agentDel", "write"},
         Modifies(req[r]) => pc'[r] \in {"agentDel", "agentAdd", "write"},
         req[r].op = "addChain" => pc'[r] \in {"agentAdd", "write", "map"},
         req[r].op = "delChain" => pc'[r] \in {"agentDel", "write", "unmap"}
  PROVE  ShapeOf(r)'
<1>1. CASE IsAddRule(r)
  BY <1>1 DEF ShapeOf, IsAddRule
<1>2. CASE IsDelRule(r)
  BY <1>2 DEF ShapeOf, IsDelRule
<1>3. CASE IsModify(r)
  BY <1>3 DEF ShapeOf, IsModify, Modifies
<1>4. CASE IsAddChain(r)
  BY <1>4 DEF ShapeOf, IsAddChain
<1>5. CASE IsDelChain(r)
  BY <1>5 DEF ShapeOf, IsDelChain
<1> QED
  BY <1>1, <1>2, <1>3, <1>4, <1>5 DEF Shape, ShapeOf

(* The request that took the step is still one of the known kinds.         *)
LEMMA StepShape ==
  ASSUME TypeOK, Shape, NEW r \in Requests, Step(r)
  PROVE  Shape'
<1> USE DEF dbVars, agentVars, histVars
<1> DEFINE q == req[r]
<1>1. pc \in [Requests -> Steps] /\ req \in [Requests -> ReqTypes] /\ q \in ReqTypes
  BY DEF TypeOK, Steps
<1>2. Frame(r) /\ node' = node
  BY StepFrame DEF Frame
<1>3. ASSUME NEW s \in Requests \ {r} PROVE ShapeOf(s)'
  BY <1>2 DEF Frame, Shape, ShapeOf, IsAddRule, IsDelRule, IsModify, IsAddChain, IsDelChain
<1>4. Finish(r) => ShapeOf(r)'
  BY <1>1 DEF Finish, Goto, ShapeOf
<1>5. ReadNode(r) => ShapeOf(r)'
  <2> SUFFICES ASSUME ReadNode(r) PROVE ShapeOf(r)'
    OBVIOUS
  <2>1. pc'[r] \in {"agentDel", "write"} /\ req'[r] = q /\ pc[r] = "readNode"
    BY <1>1 DEF ReadNode, Goto
  <2>2. IsDelRule(r)
    BY <2>1, KindOf DEF Modifies, IsAddRule, IsModify, IsAddChain, IsDelChain
  <2> QED
    BY <2>1, <2>2 DEF ShapeOf, IsDelRule
<1>6. CountForAdd(r) => ShapeOf(r)'
  <2> SUFFICES ASSUME CountForAdd(r) PROVE ShapeOf(r)'
    OBVIOUS
  <2>1. pc'[r] \in {"agentAdd", "write"} /\ req'[r] = q /\ pc[r] = "count" /\ q.op = "addChain"
    BY <1>1 DEF CountForAdd, Goto
  <2> QED
    BY <1>2, <2>1, MoveShape DEF Modifies
<1>7. CountForDel(r) => ShapeOf(r)'
  <2> SUFFICES ASSUME CountForDel(r), ~Finish(r) PROVE ShapeOf(r)'
    BY <1>4
  <2>1. pc'[r] \in {"agentDel", "write"} /\ req'[r] = q /\ pc[r] = "count" /\ q.op = "delChain"
    BY <1>1 DEF CountForDel, Goto
  <2> QED
    BY <1>2, <2>1, MoveShape DEF Modifies
<1>8. AgentDel(r) => ShapeOf(r)'
  <2> SUFFICES ASSUME AgentDel(r), ~Finish(r) PROVE ShapeOf(r)'
    BY <1>4
  <2>1. /\ pc'[r] = IF Modifies(q) THEN "agentAdd" ELSE "write"
        /\ req'[r] = q /\ pc[r] = "agentDel"
    BY <1>1 DEF AgentDel, Goto, Fault
  <2>2. q.op \notin {"addRule", "addChain"}
    BY <2>1, KindOf DEF IsAddRule, IsAddChain
  <2> QED
    BY <1>2, <2>1, <2>2, MoveShape DEF Modifies
<1>9. AgentRefused(r) => ShapeOf(r)'
  <2> SUFFICES ASSUME AgentRefused(r), ~Finish(r) PROVE ShapeOf(r)'
    BY <1>4
  <2>1. pc'[r] = "write" /\ req'[r] = q /\ pc[r] # "idle" /\ q.op = "delRule"
    BY <1>1 DEF AgentRefused, Goto
  <2> QED
    BY <1>2, <2>1, MoveShape DEF Modifies
<1>10. AgentAdd(r) => ShapeOf(r)'
  <2> SUFFICES ASSUME AgentAdd(r), ~Finish(r) PROVE ShapeOf(r)'
    BY <1>4
  <2>1. pc'[r] = "write" /\ req'[r] = q /\ pc[r] # "idle"
    BY <1>1 DEF AgentAdd, Goto, Fault
  <2> QED
    BY <1>2, <2>1, MoveShape
<1>11. CreateChain(r) \/ DeleteChain(r) => ShapeOf(r)'
  <2> SUFFICES ASSUME CreateChain(r) \/ DeleteChain(r) PROVE ShapeOf(r)'
    OBVIOUS
  <2>1. /\ pc'[r] = IF q.op = "addChain" THEN "map" ELSE "unmap"
        /\ q.op \in {"addChain", "delChain"}
        /\ req'[r] = q /\ pc[r] # "idle"
    BY <1>1 DEF CreateChain, DeleteChain, Goto
  <2> QED
    BY <1>2, <2>1, MoveShape DEF Modifies
<1>12. UpdateRule(r) => ShapeOf(r)'
  <2> SUFFICES ASSUME UpdateRule(r), ~Finish(r) PROVE ShapeOf(r)'
    BY <1>4
  <2>1. IsModify(r) /\ q.row \in RuleRows
    BY KindOf DEF UpdateRule, IsModify
  <2>2. PICK next \in q.todo :
          /\ Goto(r, "agentDel")
          /\ req' = [req EXCEPT ![r].id = next.id, ![r].row = next.row, ![r].todo = @ \ {next}]
    BY DEF UpdateRule
  <2>3. /\ req'[r].set = q.set /\ req'[r].op = q.op /\ req'[r].id = next.id
        /\ req'[r].row = next.row /\ req'[r].todo = q.todo \ {next} /\ pc'[r] = "agentDel"
    BY <1>1, <2>2 DEF ReqTypes, Goto
  <2>4. next \in [id : RuleIds, row : RuleRows] /\ next.row.port \in Ports
    BY <1>1 DEF ReqTypes, RuleRows
  <2>5. q.op = "modifyRules" /\ q.set.port = None /\ q.set.via = None
    BY <2>1, <2>2 DEF IsModify, Modifies
  <2>6. next.row.port # None
    BY <2>4, ConstantsAssumption
  <2> QED
    BY <2>3, <2>4, <2>5, <2>6 DEF ShapeOf, IsModify, Modifies
<1>13. AgentUnreached(r) \/ AgentInUse(r) \/ CreateRule(r) \/ DeleteRule(r) \/ MapChain(r)
          \/ UnmapChain(r) \/ WriteFails(r) => Finish(r)
  BY DEF AgentUnreached, AgentInUse, CreateRule, DeleteRule, MapChain, UnmapChain,
     WriteFails, Fault
<1>14. ShapeOf(r)'
  BY <1>4, <1>5, <1>6, <1>7, <1>8, <1>9, <1>10, <1>11, <1>12, <1>13 DEF Step
<1> QED
  BY <1>3, <1>14 DEF Shape

(* modifyRules takes each of its rows once.                                *)
LEMMA StepDistinct ==
  ASSUME TypeOK, Shape, Distinct, NEW r \in Requests, Step(r)
  PROVE  Distinct'
<1> USE DEF dbVars, agentVars, histVars
<1>1. Onward(r) /\ req \in [Requests -> ReqTypes]
  BY DEF Step, Onward, ReadNode, CountForAdd, CountForDel, AgentDel, AgentUnreached,
         AgentRefused, AgentAdd, AgentInUse, CreateRule, DeleteRule, UpdateRule, CreateChain,
         MapChain, DeleteChain, UnmapChain, WriteFails, Fault, TypeOK
<1>2. CASE req' = req
  BY <1>2 DEF Distinct
<1>3. CASE Finish(r)
  BY <1>1, <1>3 DEF Finish, Distinct, NoReq
<1>4. ASSUME NEW next \in req[r].todo,
             req' = [req EXCEPT ![r].id = next.id, ![r].row = next.row, ![r].todo = @ \ {next}]
      PROVE  Distinct'
  <2>1. req'[r].id = next.id /\ req'[r].todo = req[r].todo \ {next}
    BY <1>1, <1>4 DEF ReqTypes
  <2>2. \A s \in Requests \ {r} : req'[s] = req[s]
    BY <1>1, <1>4
  <2> QED
    BY <2>1, <2>2 DEF Distinct
<1> QED
  BY <1>1, <1>2, <1>3, <1>4 DEF Onward

(* Two requests that hold nothing in common still hold nothing in common.  *)
LEMMA StepLone ==
  ASSUME Lone, Down, NEW r \in Requests, Frame(r)
  PROVE  Lone' /\ Down'
<1>1. \A s \in Requests : /\ ReqPorts(req'[s]) \subseteq ReqPorts(req[s])
                           /\ RuleKeys(req'[s]) \subseteq RuleKeys(req[s])
  BY DEF Frame
<1>2. blame \subseteq blame' /\ agent' = agent
  BY DEF Frame
<1> QED
  BY <1>1, <1>2 DEF Lone, Down

-----------------------------------------------------------------------------
(* What a step of a request writes to the tables *)

(* The row of a rule changes when the request that creates, deletes or     *)
(* updates it is at its write.                                             *)
LEMMA RuleWrites ==
  ASSUME TypeOK, Shape, NEW r \in Requests, Step(r),
         NEW id \in RuleIds, rules'[id] # rules[id]
  PROVE  /\ pc[r] = "write"
         /\ \/ /\ req[r].op = "addRule" /\ rules[id] = None /\ rules'[id] = req[r].set
               /\ id \in Unheld(FreeRuleIds) /\ Finish(r)
            \/ /\ req[r].op = "delRule" /\ id = req[r].id /\ rules'[id] = None /\ Finish(r)
            \/ /\ Modifies(req[r]) /\ id = req[r].id /\ rules[id] # None
               /\ rules'[id] = Merge(rules[id], req[r].set) /\ UpdateRule(r)
<1> USE DEF dbVars, agentVars, histVars
<1>1. rules \in [RuleIds -> RuleRows \cup {None}]
  BY DEF TypeOK
<1>2. CreateRule(r) \/ DeleteRule(r) \/ UpdateRule(r)
  BY DEF Step, ReadNode, CountForAdd, CountForDel, AgentDel, AgentUnreached, AgentRefused,
         AgentAdd, AgentInUse, CreateChain, MapChain, DeleteChain, UnmapChain, WriteFails
<1>3. CASE CreateRule(r)
  <2>1. PICK i \in Unheld(FreeRuleIds) : rules' = [rules EXCEPT ![i] = req[r].set]
    BY <1>3 DEF CreateRule
  <2>2. i = id
    BY <1>1, <2>1
  <2>3. rules[i] = None
    BY DEF Unheld, FreeRuleIds
  <2> QED
    BY <1>1, <1>3, <2>1, <2>2, <2>3 DEF CreateRule
<1>4. CASE DeleteRule(r)
  BY <1>1, <1>4 DEF DeleteRule
<1>5. CASE UpdateRule(r)
  <2>1. id = req[r].id
    BY <1>1, <1>5 DEF UpdateRule
  <2>2. rules'[id] = IF rules[id] = None THEN None ELSE Merge(rules[id], req[r].set)
    BY <1>1, <1>5, <2>1 DEF UpdateRule
  <2> QED
    BY <1>5, <2>1, <2>2 DEF UpdateRule
<1> QED
  BY <1>2, <1>3, <1>4, <1>5

(* The ports of the row before and after are the request's or were blamed  *)
(* when its copy of the row became stale.                                  *)
LEMMA RuleWritePorts ==
  ASSUME TypeOK, Shape, Snap, NEW r \in Requests, Step(r),
         NEW id \in RuleIds, rules'[id] # rules[id]
  PROVE  /\ rules[id] # None => rules[id].port \in PortsNow(req[r]) \cup blame
         /\ rules'[id] # None => rules'[id].port \in PortsNow(req[r]) \cup blame
<1> DEFINE q == req[r]
<1>1. q \in ReqTypes /\ q.set \in Sets /\ rules[id] \in RuleRows \cup {None}
  BY DEF TypeOK, ReqTypes
<1>2. CASE q.op = "addRule" /\ rules[id] = None /\ rules'[id] = q.set
  <2>1. q.set \in RuleRows /\ pc[r] = "write"
    BY <1>2, KindOf, RuleWrites DEF IsAddRule
  <2>2. q.set.port # None
    BY <2>1, ConstantsAssumption DEF RuleRows
  <2> QED
    BY <1>1, <1>2, <2>2, PortTypes
<1>3. CASE q.op \in {"delRule", "modifyRule", "modifyRules"} /\ id = q.id
  <2>1. [id |-> q.id, row |-> q.row] \in Held(q)
    BY <1>3 DEF Held
  <2>2. rules[id] # None => rules[id].port \in blame \/ rules[id] = q.row
    BY <1>3, <2>1 DEF Snap
  <2>3. rules[id] # None => rules[id].port \in PortsNow(q) \cup blame
    BY <1>1, <2>2, PortTypes
  <2>4. rules'[id] # None => rules[id] # None /\ rules'[id] = Merge(rules[id], q.set)
    BY <1>3, RuleWrites DEF Modifies
  <2>5. q.set.port # None => q.set.port \in PortsNow(q)
    BY <1>1, PortTypes
  <2>6. rules[id] # None =>
          /\ Merge(rules[id], q.set).port \in {rules[id].port, q.set.port}
          /\ q.set.port = None => Merge(rules[id], q.set).port = rules[id].port
    BY DEF Merge
  <2> QED
    BY <2>3, <2>4, <2>5, <2>6
<1> QED
  BY <1>2, <1>3, RuleWrites DEF Modifies

(* A copy of a row that becomes stale is one of a contended request.       *)
LEMMA StepSnap ==
  ASSUME TypeOK, Shape, Distinct, Lone, Snap, NEW r \in Requests, Step(r)
  PROVE  Snap'
<1> DEFINE q == req[r]
<1>1. Frame(r) /\ req \in [Requests -> ReqTypes]
  BY StepFrame DEF TypeOK
<1> SUFFICES ASSUME NEW s \in Requests, NEW a \in Held(req'[s]), rules'[a.id] # a.row
             PROVE  /\ ReqPorts(req'[s]) \subseteq blame'
                    /\ rules'[a.id] # None => rules'[a.id].port \in blame'
  BY DEF Snap, Held
<1>2. a \in Held(req[s]) /\ ReqPorts(req'[s]) \subseteq ReqPorts(req[s]) /\ blame \subseteq blame'
  BY <1>1 DEF Frame
<1>3. CASE rules'[a.id] = rules[a.id]
  BY <1>2, <1>3 DEF Snap
<1>4. CASE rules'[a.id] # rules[a.id]
  <2>0. req[s] \in ReqTypes /\ Shape /\ pc[s] # "idle"
    BY <1>1, <1>2, NoReqTypes DEF Shape, ShapeOf, IsAddRule, IsDelRule, IsModify,
       IsAddChain, IsDelChain
  <2>1. a.id \in {req[s].id} \cup { j.id : j \in req[s].todo }
    BY <1>2 DEF Held
  <2>2. a.id \in RuleKeys(req[s])
    BY <1>2, <2>1 DEF Held, RuleKeys
  <2>3. a.id \in RuleIds
    <3>1. req[s].op \in {"delRule", "modifyRule", "modifyRules"}
      BY <1>2 DEF Held
    <3>2. req[s].id \in RuleIds
      BY <2>0, <3>1, KindOf DEF IsDelRule, IsModify, Modifies
    <3> QED
      BY <2>0, <2>1, <3>2 DEF ReqTypes
  <2>4. a.id \notin Unheld(FreeRuleIds)
    BY <2>1 DEF Unheld
  <2>5. /\ q.op \in {"delRule", "modifyRule", "modifyRules"} /\ a.id = q.id
        /\ Finish(r) \/ UpdateRule(r)
    BY <1>4, <2>3, <2>4, RuleWrites DEF Modifies
  <2>6. a.id \in RuleKeys(q)
    BY <2>5 DEF RuleKeys
  <2>7. s # r
    <3> SUFFICES ASSUME s = r PROVE FALSE
      OBVIOUS
    <3>1. ~Finish(r)
      BY <1>1, NoReqTypes DEF Finish
    <3>2. PICK next \in q.todo :
            req' = [req EXCEPT ![r].id = next.id, ![r].row = next.row, ![r].todo = @ \ {next}]
      BY <2>5, <3>1 DEF UpdateRule
    <3>3. /\ req'[r].op = q.op /\ req'[r].id = next.id
          /\ req'[r].row = next.row /\ req'[r].todo = q.todo \ {next}
      BY <1>1, <3>2 DEF ReqTypes
    <3>4. Held(req'[r]) = {[id |-> next.id, row |-> next.row]} \cup (q.todo \ {next})
      BY <2>5, <3>3 DEF Held
    <3>5. a.id \in { j.id : j \in q.todo }
      BY <3>4
    <3> QED
      BY <2>5, <3>5 DEF Distinct
  <2>8. ReqPorts(req[s]) \subseteq blame /\ ReqPorts(q) \subseteq blame
    BY <2>2, <2>6, <2>7 DEF Lone
  <2>9. PortsNow(q) \subseteq blame
    BY <1>1, <2>8, PortTypes
  <2> QED
    BY <1>2, <1>4, <2>3, <2>8, <2>9, RuleWritePorts
<1> QED
  BY <1>3, <1>4

(* The row of a chain changes when the request that creates or deletes it  *)
(* is at its write.                                                        *)
LEMMA ChainWrites ==
  ASSUME TypeOK, Shape, NEW r \in Requests, Step(r),
         NEW id \in ChainIds, chains'[id] # chains[id]
  PROVE  /\ pc[r] = "write" /\ req'[r] = req[r]
         /\ \/ /\ req[r].op = "addChain" /\ chains[id] = None /\ pc'[r] = "map"
               /\ chains'[id] = [port |-> req[r].set.port, ip |-> req[r].ip]
               /\ id \in Unheld(FreeChainIds)
            \/ /\ req[r].op = "delChain" /\ id = req[r].id /\ chains'[id] = None
               /\ pc'[r] = "unmap"
<1> USE DEF dbVars, agentVars, histVars
<1>1. chains \in [ChainIds -> ChainRows \cup {None}] /\ pc \in [Requests -> Steps]
  BY DEF TypeOK, Steps
<1>2. CreateChain(r) \/ DeleteChain(r)
  BY DEF Step, ReadNode, CountForAdd, CountForDel, AgentDel, AgentUnreached, AgentRefused,
         AgentAdd, AgentInUse, CreateRule, DeleteRule, UpdateRule, MapChain, UnmapChain, WriteFails
<1>3. CASE CreateChain(r)
  <2>1. PICK i \in Unheld(FreeChainIds) :
          chains' = [chains EXCEPT ![i] = [port |-> req[r].set.port, ip |-> req[r].ip]]
    BY <1>3 DEF CreateChain
  <2>2. i = id
    BY <1>1, <2>1
  <2>3. chains[i] = None
    BY DEF Unheld, FreeChainIds
  <2> QED
    BY <1>1, <1>3, <2>1, <2>2, <2>3 DEF CreateChain, Goto
<1>4. CASE DeleteChain(r)
  BY <1>1, <1>4 DEF DeleteChain, Goto
<1> QED
  BY <1>2, <1>3, <1>4

(* The ports of a chain's row before and after, likewise.                  *)
LEMMA ChainWritePorts ==
  ASSUME TypeOK, Shape, ChainSnap, NEW r \in Requests, Step(r),
         NEW id \in ChainIds, chains'[id] # chains[id]
  PROVE  /\ chains[id] # None => chains[id].port \in PortsNow(req[r]) \cup blame
         /\ chains'[id] # None => chains'[id].port \in PortsNow(req[r]) \cup blame
<1> DEFINE q == req[r]
<1>1. q \in ReqTypes /\ chains[id] \in ChainRows \cup {None} /\ pc[r] # "idle"
  BY ChainWrites DEF TypeOK
<1>2. CASE q.op = "addChain" /\ chains[id] = None
            /\ chains'[id] = [port |-> q.set.port, ip |-> q.ip]
  <2>1. q.set.port # None
    BY <1>1, <1>2, KindOf, ConstantsAssumption DEF IsAddChain
  <2> QED
    BY <1>1, <1>2, <2>1, PortTypes
<1>3. CASE q.op = "delChain" /\ id = q.id /\ chains'[id] = None
  <2>1. chains[id] # None => chains[id].port \in blame \/ chains[id] = q.row
    BY <1>3 DEF ChainSnap
  <2> QED
    BY <1>1, <1>3, <2>1, PortTypes
<1> QED
  BY <1>2, <1>3, ChainWrites

(* delChain's copy of a row likewise becomes stale only in contention.     *)
LEMMA StepChainSnap ==
  ASSUME TypeOK, Shape, Lone, ChainSnap, NEW r \in Requests, Step(r)
  PROVE  ChainSnap'
<1> DEFINE q == req[r]
<1>1. Frame(r) /\ req \in [Requests -> ReqTypes]
  BY StepFrame DEF TypeOK
<1> SUFFICES ASSUME NEW s \in Requests, req'[s].op = "delChain",
                    chains'[req'[s].id] # req'[s].row
             PROVE  /\ req'[s].row.port \in blame' \/ pc'[s] = "unmap"
                    /\ chains'[req'[s].id] # None => chains'[req'[s].id].port \in blame'
  BY DEF ChainSnap
<1>2. req'[s] = req[s] /\ blame \subseteq blame'
  <2>1. s # r => req'[s] = req[s]
    BY <1>1 DEF Frame
  <2>2. Onward(r)
    BY DEF Step, Onward, ReadNode, CountForAdd, CountForDel, AgentDel, AgentUnreached,
         AgentRefused, AgentAdd, AgentInUse, CreateRule, DeleteRule, UpdateRule, CreateChain,
         MapChain, DeleteChain, UnmapChain, WriteFails, Fault, dbVars, agentVars, histVars
  <2>3. s = r => ~Finish(r)
    BY <1>1 DEF Finish, NoReq
  <2>4. ASSUME s = r, Modifies(q), NEW next \in q.todo,
               req' = [req EXCEPT ![r].id = next.id, ![r].row = next.row, ![r].todo = @ \ {next}]
        PROVE  FALSE
    <3>1. req'[r].op = q.op
      BY <1>1, <2>4 DEF ReqTypes
    <3> QED
      BY <2>4, <3>1 DEF Modifies
  <2> QED
    BY <1>1, <2>1, <2>2, <2>3, <2>4 DEF Frame, Onward
<1>3. /\ req[s].op = "delChain" /\ req[s] \in ReqTypes /\ req[s].id \in ChainIds
      /\ req[s].row \in ChainRows /\ pc[s] # "idle" /\ req[s].row.port \in ReqPorts(req[s])
  <2>1. pc[s] # "idle"
    BY <1>2 DEF Shape, ShapeOf, NoReq, IsAddRule, IsDelRule, IsModify, IsAddChain, IsDelChain
  <2> QED
    BY <1>1, <1>2, <2>1, KindOf, PortTypes DEF IsDelChain
<1>4. pc[s] = "unmap" => pc'[s] = "unmap"
  <2>1. s # r => pc'[s] = pc[s]
    BY <1>1 DEF Frame
  <2>2. ASSUME s = r, pc[s] = "unmap" PROVE Finish(r)
    BY <1>3, <2>2 DEF Step, ReadNode, CountForAdd, CountForDel, AgentDel, AgentUnreached,
         AgentRefused, AgentAdd, AgentInUse, CreateRule, DeleteRule, UpdateRule, CreateChain,
         MapChain, DeleteChain, UnmapChain, WriteFails, Fault
  <2>3. s = r => ~Finish(r)
    BY <1>1, <1>2, <1>3 DEF Finish, NoReq
  <2> QED
    BY <2>1, <2>2, <2>3
<1>5. CASE chains'[req[s].id] = chains[req[s].id]
  BY <1>2, <1>3, <1>4, <1>5 DEF ChainSnap
<1>6. CASE chains'[req[s].id] # chains[req[s].id]
  <2>1. req[s].id \notin Unheld(FreeChainIds)
    BY DEF Unheld
  <2>2. /\ q.op = "delChain" /\ req[s].id = q.id /\ chains'[q.id] = None
        /\ pc'[r] = "unmap" /\ pc[r] = "write"
    <3>1. PICK id \in ChainIds : id = req[s].id
      BY <1>3
    <3>2. chains'[id] # chains[id] /\ id \notin Unheld(FreeChainIds)
      BY <1>6, <2>1, <3>1
    <3>3. pc[r] = "write" /\ q.op = "delChain" /\ id = q.id /\ chains'[id] = None /\ pc'[r] = "unmap"
      BY <3>2, ChainWrites
    <3> QED
      BY <3>1, <3>3
  <2>3. ASSUME s # r, pc[s] # "unmap" PROVE req[s].row.port \in blame
    <3>1. q.row \in ChainRows /\ q.row.port \in ReqPorts(q)
      BY <1>1, <2>2, KindOf, PortTypes DEF IsDelChain
    <3>2. CASE chains[q.id] # req[s].row
      BY <1>3, <2>2, <2>3, <3>2 DEF ChainSnap
    <3>3. CASE chains[q.id] = req[s].row /\ chains[q.id] # q.row
      <4>1. req[s].row # None
        BY <1>3, ConstantsAssumption
      <4> QED
        BY <2>2, <3>3, <4>1 DEF ChainSnap
    <3>4. CASE chains[q.id] = req[s].row /\ chains[q.id] = q.row
      BY <1>3, <2>3, <3>1, <3>4 DEF Lone
    <3> QED
      BY <3>2, <3>3, <3>4
  <2> QED
    BY <1>2, <1>4, <2>2, <2>3
<1> QED
  BY <1>2, <1>5, <1>6

(* What the agent downloaded differs from the tables only on blamed ports. *)
LEMMA StepCfg ==
  ASSUME TypeOK, Shape, Snap, ChainSnap, Down, Cfg, NEW r \in Requests, Step(r)
  PROVE  Cfg'
<1> DEFINE q == req[r]
<1>1. /\ agent' = agent /\ cfg' = cfg /\ blame \subseteq blame' /\ q \in ReqTypes
      /\ DOMAIN cfg.rules = RuleIds
  BY StepFrame DEF Frame, TypeOK
<1>2. agent # "up" => PortsNow(q) \subseteq blame
  BY <1>1, PortTypes DEF Down
<1>3. ASSUME agent \in {"registering", "booting"}, NEW id \in RuleIds, cfg'.rules[id] # rules'[id]
      PROVE  /\ cfg'.rules[id] # None => cfg'.rules[id].port \in blame'
             /\ rules'[id] # None => rules'[id].port \in blame'
  <2>1. CASE rules'[id] = rules[id]
    BY <1>1, <1>3, <2>1 DEF Cfg
  <2>2. CASE rules'[id] # rules[id]
    <3>1. /\ rules[id] # None => rules[id].port \in blame
          /\ rules'[id] # None => rules'[id].port \in blame
      BY <1>2, <1>3, <2>2, RuleWritePorts
    <3>2. cfg.rules[id] # None => cfg.rules[id].port \in blame
      BY <1>3, <3>1 DEF Cfg
    <3> QED
      BY <1>1, <3>1, <3>2
  <2> QED
    BY <2>1, <2>2
<1>4. ASSUME agent = "booting", NEW p \in Ports \ blame', NEW id \in ChainIds
      PROVE  ChainAt(id, p)' <=> ChainAt(id, p)
  BY <1>1, <1>2, <1>4, ChainWritePorts DEF ChainAt
<1> QED
  BY <1>1, <1>3, <1>4 DEF Cfg

-----------------------------------------------------------------------------
(* The ports a step of a request leaves alone *)

(* The rows at p, its listener and its history stay.                       *)
SamePort(p) ==
    /\ \A id \in RuleIds : /\ RuleAt(id, p)' <=> RuleAt(id, p)
                           /\ RuleAt(id, p) => rules'[id] = rules[id]
    /\ \A c \in ChainIds : ChainAt(c, p)' <=> ChainAt(c, p)
    /\ serve'[p] = serve[p] /\ node' = node
    /\ p \in unchained' <=> p \in unchained

(* Such a port is in order as it was before.                               *)
LEMMA SamePortAgrees ==
  ASSUME NEW p \in Ports, SamePort(p)
  PROVE  /\ Single(p)' <=> Single(p)
         /\ Bare(p)' <=> Bare(p)
         /\ Agree(p)' <=> Agree(p)
<1>1. Bare(p)' <=> Bare(p)
  BY DEF SamePort, Bare
<1>2. Single(p)' <=> Single(p)
  BY DEF SamePort, Single
<1>3. Agree(p)' <=> Agree(p)
  BY <1>1 DEF SamePort, Agree
<1> QED
  BY <1>1, <1>2, <1>3

(* And another request is as far with it as it was before.                 *)
LEMMA SamePortStage ==
  ASSUME NEW p \in Ports, SamePort(p), NEW s \in Requests, req'[s] = req[s], pc'[s] = pc[s]
  PROVE  /\ Touched(s)' = Touched(s)
         /\ Stage(s, p)' <=> Stage(s, p)
<1>1. Touched(s)' = Touched(s)
  BY DEF Touched, PortsNow, Modifies
<1>2. Bare(p)' <=> Bare(p)
  BY SamePortAgrees
<1>3. /\ \A id \in RuleIds : RuleAt(id, p)' <=> RuleAt(id, p)
      /\ \A c \in ChainIds : ChainAt(c, p)' <=> ChainAt(c, p)
      /\ serve'[p] = serve[p] /\ node' = node
      /\ p \in unchained' <=> p \in unchained
  BY DEF SamePort
<1> HIDE DEF SamePort
<1>4. Stage(s, p)' <=> Stage(s, p)
  BY <1>2, <1>3 DEF Stage, AddedPort, Merge, RuleService, ChainService
<1> QED
  BY <1>1, <1>4

(* What a request touches are ports it is at.                              *)
LEMMA TouchedTypes ==
  ASSUME TypeOK, Shape, NEW r \in Requests
  PROVE  Touched(r) \subseteq PortsNow(req[r]) /\ Touched(r) \subseteq ReqPorts(req[r])
<1>1. req[r] \in ReqTypes
  BY DEF TypeOK
<1>2. pc[r] = "agentAdd" /\ Modifies(req[r]) => req[r].row \in RuleRows
  BY KindOf DEF IsModify
<1>3. pc[r] = "agentAdd" /\ Modifies(req[r]) => req[r].row.port \in PortsNow(req[r])
  BY <1>1, <1>2, PortTypes
<1> QED
  BY <1>1, <1>3, PortTypes DEF Touched

(* A step leaves alone every unblamed port its request is not at.          *)
LEMMA StepElsewhere ==
  ASSUME TypeOK, Shape, Snap, ChainSnap, NEW r \in Requests, Step(r),
         NEW p \in Ports \ blame, p \notin PortsNow(req[r])
  PROVE  SamePort(p) /\ p \notin Touched(r) /\ p \notin Touched(r)'
<1> USE DEF dbVars, agentVars, histVars
<1> DEFINE q == req[r]
<1>1. /\ node' = node /\ q \in ReqTypes /\ pc \in [Requests -> Steps]
      /\ req \in [Requests -> ReqTypes] /\ serve \in [Ports -> Services \cup {None}]
  BY StepFrame DEF Frame, TypeOK, Steps
<1>2. \A id \in RuleIds : /\ RuleAt(id, p)' <=> RuleAt(id, p)
                          /\ RuleAt(id, p) => rules'[id] = rules[id]
  BY RuleWritePorts DEF RuleAt
<1>3. \A c \in ChainIds : ChainAt(c, p)' <=> ChainAt(c, p)
  BY ChainWritePorts DEF ChainAt
<1>4. serve'[p] = serve[p] /\ (p \in unchained' <=> p \in unchained)
  <2>1. CASE AgentDel(r)
    <3>1. q.row \in RuleRows \cup ChainRows
      BY <2>1, KindOf DEF AgentDel, IsAddRule, IsDelRule, IsModify, IsAddChain, IsDelChain,
         Modifies
    <3>2. q.row.port # p
      BY <1>1, <3>1, PortTypes
    <3> QED
      BY <1>1, <2>1, <3>2 DEF AgentDel, Fault
  <2>2. CASE AgentAdd(r)
    <3>1. AddedPort(q) # p
      BY <2>2, AddedTypes DEF AgentAdd
    <3> QED
      BY <1>1, <2>2, <3>1 DEF AgentAdd, Fault
  <2>3. CASE ~AgentDel(r) /\ ~AgentAdd(r)
    BY <2>3 DEF Step, ReadNode, CountForAdd, CountForDel, AgentUnreached, AgentRefused,
         AgentInUse, CreateRule, DeleteRule, UpdateRule, CreateChain, MapChain, DeleteChain,
         UnmapChain, WriteFails, Fault
  <2> QED
    BY <2>1, <2>2, <2>3
<1>5. p \notin Touched(r)
  BY TouchedTypes
<1>6. p \notin Touched(r)'
  <2>1. CASE req'[r] = q
    <3>1. PortsNow(req'[r]) = PortsNow(q)
      BY <2>1
    <3>2. pc'[r] = "agentAdd" /\ Modifies(q) => q.row \in RuleRows
      BY <2>1, StepShape, StepTypes DEF Shape, ShapeOf, IsAddRule, IsDelRule, IsModify,
         IsAddChain, IsDelChain, Modifies, NoReq
    <3>3. pc'[r] = "agentAdd" /\ Modifies(q) => q.row.port \in PortsNow(q)
      BY <1>1, <3>2, PortTypes
    <3> QED
      BY <2>1, <3>1, <3>3 DEF Touched, Modifies
  <2>2. CASE Finish(r)
    BY <1>1, <2>2 DEF Finish, Goto, Touched
  <2>3. CASE UpdateRule(r)
    <3>1. pc'[r] \in {"agentDel", "idle"}
      BY <1>1, <2>3 DEF UpdateRule, Goto, Finish
    <3> QED
      BY <3>1 DEF Touched
  <2> QED
    BY <2>1, <2>2, <2>3 DEF Step, ReadNode, CountForAdd, CountForDel, AgentDel, AgentUnreached,
         AgentRefused, AgentAdd, AgentInUse, CreateRule, DeleteRule, CreateChain, MapChain,
         DeleteChain, UnmapChain, WriteFails, Fault
<1> QED
  BY <1>1, <1>2, <1>3, <1>4, <1>5, <1>6 DEF SamePort

-----------------------------------------------------------------------------
(* The port a request is at *)

(* The port agrees with its rows, except where the request is at work.     *)
Owned(r, p) ==
    /\ Single(p)
    /\ p \in Touched(r) => Stage(r, p)
    /\ p \notin Touched(r) => Agree(p)

(* A port a request is at is the one it sets or the one of its row.        *)
LEMMA PortsNowAre ==
  ASSUME NEW q, NEW p \in PortsNow(q)
  PROVE  p = q.set.port \/ (q.row # None /\ p = q.row.port)
BY SMT DEF PortsNow

(* On a port that is not blamed the request's copies are current.          *)
LEMMA OwnedRows ==
  ASSUME TypeOK, Shape, Snap, ChainSnap, NEW r \in Requests, pc[r] # "idle",
         NEW p \in PortsNow(req[r]) \ blame
  PROVE  /\ req[r] \in ReqTypes /\ req[r].set \in Sets /\ p \in Ports /\ None \notin Ports
         /\ rules \in [RuleIds -> RuleRows \cup {None}]
         /\ chains \in [ChainIds -> ChainRows \cup {None}]
         /\ serve \in [Ports -> Services \cup {None}]
         /\ pc \in [Requests -> Steps] /\ req \in [Requests -> ReqTypes]
         /\ req[r].op = "addRule" => IsAddRule(r) /\ p = req[r].set.port
         /\ req[r].op = "addChain" => IsAddChain(r) /\ p = req[r].set.port
         /\ req[r].op = "delRule" => /\ IsDelRule(r) /\ p = req[r].row.port
                                     /\ rules[req[r].id] = req[r].row
         /\ Modifies(req[r]) => /\ IsModify(r) /\ p \in {req[r].row.port, req[r].set.port}
                                /\ rules[req[r].id] = req[r].row
         /\ req[r].op = "delChain" => /\ IsDelChain(r) /\ p = req[r].row.port
                                      /\ pc[r] # "unmap" => chains[req[r].id] = req[r].row
<1> DEFINE q == req[r]
<1>0. q \in ReqTypes
  BY DEF TypeOK
<1>1. /\ q \in ReqTypes /\ q.set \in Sets /\ p \in Ports /\ None \notin Ports
      /\ p = q.set.port \/ (q.row # None /\ p = q.row.port)
      /\ rules \in [RuleIds -> RuleRows \cup {None}]
      /\ chains \in [ChainIds -> ChainRows \cup {None}]
      /\ serve \in [Ports -> Services \cup {None}]
      /\ pc \in [Requests -> Steps] /\ req \in [Requests -> ReqTypes]
  <2>1. q.set \in Sets /\ p \in Ports /\ None \notin Ports
    BY <1>0, ConstantsAssumption, PortTypes DEF ReqTypes
  <2>2. p = q.set.port \/ (q.row # None /\ p = q.row.port)
    BY PortsNowAre
  <2> QED
    BY <1>0, <2>1, <2>2 DEF TypeOK, Steps
<1>2. ~(ReqPorts(q) \subseteq blame)
  BY <1>1, PortTypes
<1>3. q.op \in {"delRule", "modifyRule", "modifyRules"} => rules[q.id] = q.row
  <2> SUFFICES ASSUME q.op \in {"delRule", "modifyRule", "modifyRules"} PROVE rules[q.id] = q.row
    OBVIOUS
  <2>1. [id |-> q.id, row |-> q.row] \in Held(q)
    BY DEF Held
  <2> QED
    BY <1>2, <2>1 DEF Snap
<1>4. q.op = "delRule" => IsDelRule(r) /\ p = q.row.port
  BY <1>1, KindOf DEF IsDelRule, NoSet
<1>5. q.op = "delChain" => IsDelChain(r) /\ p = q.row.port
  BY <1>1, KindOf DEF IsDelChain, NoSet
<1>6. q.op = "delChain" /\ pc[r] # "unmap" => chains[q.id] = q.row
  BY <1>5 DEF ChainSnap
<1>7. q.op = "addRule" => IsAddRule(r) /\ p = q.set.port
  BY <1>1, KindOf DEF IsAddRule
<1>8. q.op = "addChain" => IsAddChain(r) /\ p = q.set.port
  BY <1>1, KindOf DEF IsAddChain
<1>9. Modifies(q) => IsModify(r) /\ p \in {q.row.port, q.set.port} /\ rules[q.id] = q.row
  BY <1>1, <1>3, KindOf DEF Modifies
<1> QED
  BY <1>1, <1>3, <1>4, <1>5, <1>6, <1>7, <1>8, <1>9

(* No row and no service is None.                                          *)
LEMMA NotNone ==
  /\ \A row \in RuleRows \cup ChainRows \cup Services : row # None
  /\ ChainService # None /\ \A row : RuleService(row) \in Services => RuleService(row) # None
  /\ \A row \in RuleRows : RuleService(row) \in Services
  /\ ChainService \in Services
  /\ \A row \in RuleRows : RuleService(row) # None /\ RuleService(row) # ChainService
<1>1. None \notin RuleRows \cup ChainRows \cup Services
  BY ConstantsAssumption
<1>2. ChainService \in Services
  BY DEF ChainService, Services
<1>3. \A row \in RuleRows : RuleService(row) \in Services
  BY DEF RuleService, RuleRows, Services
<1>4. \A row : RuleService(row).kind = "rule" /\ ChainService.kind = "chain"
  BY DEF RuleService, ChainService
<1> QED
  BY <1>1, <1>2, <1>3, <1>4

(* The rows of an unblamed port and what the handler reads of them.        *)
LEMMA OwnedReads ==
  ASSUME TypeOK, Shape, Snap, ChainSnap, NEW r \in Requests,
         ReadNode(r) \/ CountForAdd(r) \/ CountForDel(r),
         NEW p \in PortsNow(req[r]) \ blame, Owned(r, p)
  PROVE  Owned(r, p)'
<1> USE DEF dbVars, agentVars, histVars
<1> DEFINE q == req[r]
<1>1. /\ UNCHANGED <<node, rules, chains, serve, unchained>> /\ pc[r] \in {"readNode", "count"}
      /\ Touched(r) = {}
  BY DEF ReadNode, CountForAdd, CountForDel, Touched
<1>2. Single(p)' /\ Agree(p) /\ Agree(p)'
  BY <1>1 DEF Owned, Single, Agree, Bare, RuleAt, ChainAt
<1>3. /\ pc \in [Requests -> Steps] /\ req \in [Requests -> ReqTypes]
      /\ q.op = "delChain" => IsDelChain(r) /\ chains[q.id] = q.row /\ p = q.row.port
      /\ q.op = "addChain" => p = q.set.port
  BY <1>1, OwnedRows
<1> SUFFICES ASSUME p \in Touched(r)' PROVE Stage(r, p)'
  BY <1>2 DEF Owned
<1>4. ~Finish(r)
  BY <1>3 DEF Finish, Goto, Touched
<1>5. /\ pc'[r] \in {"agentDel", "agentAdd", "write"} /\ req'[r] = q
      /\ pc'[r] = "agentAdd" => q.op = "addChain"
  BY <1>3, <1>4 DEF ReadNode, CountForAdd, CountForDel, Goto
<1>6. pc'[r] = "write"
  BY <1>5 DEF Touched, Modifies
<1>7. CASE ReadNode(r)
  <2>1. q.op = "delRule"
    BY <1>7, KindOf DEF ReadNode, IsAddRule, IsModify, IsAddChain, IsDelChain, Modifies
  <2>2. ~node
    BY <1>3, <1>6, <1>7 DEF ReadNode, Goto
  <2> QED
    BY <1>1, <1>5, <1>6, <2>1, <2>2 DEF Stage
<1>8. CASE CountForAdd(r)
  <2>1. q.op = "addChain" /\ ChainsOn(p) # {}
    BY <1>3, <1>6, <1>8 DEF CountForAdd, Goto
  <2>2. PICK c \in ChainIds : ChainAt(c, p)
    BY <2>1 DEF ChainsOn, Rows, ChainAt, TypeOK
  <2>3. serve[p] = ChainService /\ \A i \in RuleIds : ~RuleAt(i, p)
    BY <1>2, <2>2 DEF Owned, Agree, Single
  <2> QED
    BY <1>1, <1>5, <1>6, <2>1, <2>3 DEF Stage, RuleAt
<1>9. CASE CountForDel(r)
  <2>1. q.op = "delChain" /\ q.admin /\ ~(Cardinality(ChainsOn(p)) = 1 /\ q.seen)
    BY <1>3, <1>4, <1>6, <1>9 DEF CountForDel, Goto
  <2>2. q.id \in ChainIds /\ ChainAt(q.id, p) /\ (~q.seen => ~node)
    BY <1>3, <2>1, NotNone DEF IsDelChain, ChainAt
  <2>3. serve[p] = ChainService
    BY <1>2, <2>2 DEF Agree
  <2>4. ASSUME node PROVE \E c \in ChainIds : ChainAt(c, p) /\ c # q.id
    <3> SUFFICES ASSUME \A c \in ChainIds : ChainAt(c, p) => c = q.id PROVE FALSE
      OBVIOUS
    <3>1. ChainsOn(p) = {q.id}
      BY <2>2 DEF ChainsOn, Rows, ChainAt, TypeOK
    <3> QED
      BY <2>1, <2>2, <2>4, <3>1, FS_Singleton
  <2> QED
    BY <1>1, <1>5, <1>6, <2>1, <2>3, <2>4 DEF Stage, ChainAt
<1> QED
  BY <1>7, <1>8, <1>9

(* The agent closes the port the request names.                            *)
LEMMA OwnedAgentDel ==
  ASSUME TypeOK, Shape, Snap, ChainSnap, NEW r \in Requests, LastChain(r), AgentDel(r),
         NEW p \in PortsNow(req[r]) \ blame', Owned(r, p)
  PROVE  Owned(r, p)'
<1> USE DEF dbVars, agentVars, histVars
<1> DEFINE q == req[r]
<1>0. pc[r] = "agentDel" /\ blame \subseteq blame' /\ p \notin blame
  BY DEF AgentDel, Fault
<1>1. /\ pc \in [Requests -> Steps] /\ req \in [Requests -> ReqTypes] /\ p \in Ports
      /\ serve \in [Ports -> Services \cup {None}]
      /\ q.op = "delRule" => p = q.row.port
      /\ q.op = "delChain" => p = q.row.port
      /\ Modifies(q) => p \in {q.row.port, q.set.port}
  BY <1>0, OwnedRows
<1>2. /\ UNCHANGED <<node, rules, chains, unchained, req, blame>>
      /\ pc'[r] = IF Modifies(q) THEN "agentAdd" ELSE "write"
      /\ serve' = [serve EXCEPT ![q.row.port] = None]
  BY <1>1 DEF AgentDel, Fault, Goto
<1>3. Touched(r) = {} /\ Agree(p) /\ Single(p)'
  BY <1>0, <1>2 DEF Touched, Owned, Single, RuleAt, ChainAt
<1>4. q.op \in {"delRule", "delChain", "modifyRule", "modifyRules"}
  BY <1>0, KindOf DEF IsAddRule, IsAddChain
<1>5. CASE Modifies(q) /\ p # q.row.port
  <2>1. serve'[p] = serve[p] /\ p \notin Touched(r)'
    BY <1>1, <1>2, <1>5 DEF Touched, Modifies
  <2>2. Agree(p)'
    BY <1>2, <1>3, <2>1 DEF Agree, Bare, RuleAt, ChainAt
  <2> QED
    BY <1>3, <2>1, <2>2 DEF Owned
<1>6. CASE p = q.row.port
  <2>1. serve'[p] = None /\ p \in Touched(r)'
    BY <1>1, <1>2, <1>6, KindOf, PortTypes, <1>0, <1>4 DEF Touched, Modifies, PortsNow,
       IsDelRule, IsDelChain
  <2>2. CASE Modifies(q)
    BY <1>2, <1>3, <2>1, <2>2 DEF Owned, Stage
  <2>3. CASE q.op = "delRule"
    BY <1>2, <1>3, <2>1, <2>3 DEF Owned, Stage, Modifies
  <2>4. CASE q.op = "delChain"
    <3>1. \A c \in ChainIds : ChainAt(c, p) => c = q.id
      BY <1>0, <1>6, <2>4 DEF LastChain
    <3>2. \A c \in ChainIds : ChainAt(c, p)' => c = q.id
      BY <1>2, <3>1 DEF ChainAt
    <3>3. Stage(r, p)'
      BY <1>2, <2>1, <2>4, <3>2 DEF Stage, Modifies
    <3> QED
      BY <1>3, <2>1, <3>3 DEF Owned
  <2> QED
    BY <1>4, <2>2, <2>3, <2>4 DEF Modifies
<1> QED
  BY <1>1, <1>4, <1>5, <1>6 DEF Modifies

(* A port on which nothing listens, and that agrees, has no row.           *)
LEMMA ClosedIsBare ==
  ASSUME NEW p \in Ports, Agree(p), serve[p] = None
  PROVE  Bare(p)
BY NotNone DEF Agree, Bare

(* The agent opens it.                                                     *)
LEMMA OwnedAgentAdd ==
  ASSUME TypeOK, Shape, Snap, ChainSnap, NEW r \in Requests, AgentAdd(r),
         NEW p \in PortsNow(req[r]) \ blame', Owned(r, p)
  PROVE  Owned(r, p)'
<1> USE DEF dbVars, agentVars, histVars
<1> DEFINE q == req[r]
<1>0. pc[r] = "agentAdd" /\ blame \subseteq blame' /\ p \notin blame
  BY DEF AgentAdd, Fault
<1>1. /\ pc \in [Requests -> Steps] /\ req \in [Requests -> ReqTypes] /\ p \in Ports
      /\ q.set \in Sets /\ None \notin Ports
      /\ serve \in [Ports -> Services \cup {None}]
      /\ q.op = "addRule" => IsAddRule(r) /\ p = q.set.port
      /\ q.op = "addChain" => IsAddChain(r) /\ p = q.set.port
      /\ Modifies(q) => IsModify(r) /\ p \in {q.row.port, q.set.port}
  BY <1>0, OwnedRows
<1>2. /\ UNCHANGED <<node, rules, chains, req, blame>> /\ pc'[r] = "write"
      /\ serve[AddedPort(q)] = None
      /\ serve' = [serve EXCEPT ![AddedPort(q)] = AddedService(q)]
      /\ unchained' = IF q.op = "modifyRules" /\ q.row.via # Direct
                      THEN unchained \cup {AddedPort(q)} ELSE unchained
  BY <1>1 DEF AgentAdd, Fault, Goto
<1>3. Single(p) /\ Single(p)'
  BY <1>2 DEF Owned, Single, RuleAt, ChainAt
<1>4. q.op \in {"addRule", "addChain", "modifyRule", "modifyRules"}
  BY <1>0, KindOf DEF IsDelRule, IsDelChain
<1>5. p \in Touched(r)'
  BY <1>2 DEF Touched
<1>6. AddedService(q) \in Services /\ AddedService(q) # None
  BY <1>0, AddedTypes, NotNone
<1>7. Bare(p)' <=> Bare(p)
  BY <1>2 DEF Bare, RuleAt, ChainAt
<1>8. CASE q.op = "addRule"
  <2>1. p = AddedPort(q)
    BY <1>1, <1>8 DEF AddedPort
  <2>2. Bare(p)
    BY <1>0, <1>1, <1>2, <1>8, <2>1, ClosedIsBare DEF Owned, Touched, Modifies
  <2>3. Stage(r, p)'
    BY <1>1, <1>2, <1>7, <1>8, <2>1, <2>2 DEF Stage, AddedService
  <2> QED
    BY <1>3, <1>5, <2>3 DEF Owned
<1>9. CASE q.op = "addChain"
  <2>1. p = AddedPort(q)
    BY <1>1, <1>9 DEF AddedPort
  <2>2. Bare(p)
    BY <1>0, <1>1, <1>2, <1>9, <2>1, ClosedIsBare DEF Owned, Touched, Modifies
  <2>3. \A i \in RuleIds : ~RuleAt(i, p)'
    BY <1>7, <2>2 DEF Bare
  <2>4. Stage(r, p)'
    BY <1>1, <1>2, <1>9, <2>1, <2>3 DEF Stage, AddedService
  <2> QED
    BY <1>3, <1>5, <2>4 DEF Owned
<1>10. CASE Modifies(q) /\ p = AddedPort(q)
  <2>1. serve'[p] = AddedService(q) /\ serve'[p] # None
    BY <1>1, <1>2, <1>6, <1>10
  <2>2. p \notin unchained' => serve'[p] = RuleService(Merge(q.row, q.set))
    <3>1. CASE q.op = "modifyRule"
      BY <2>1, <3>1 DEF AddedService
    <3>2. CASE q.op = "modifyRules" /\ q.row.via = Direct
      <4>1. Merge(q.row, q.set).via = Direct
        BY <1>1, <1>10, <3>2 DEF IsModify, Merge
      <4>2. [RuleService(Merge(q.row, q.set)) EXCEPT !.via = Direct]
              = RuleService(Merge(q.row, q.set))
        BY <4>1 DEF RuleService
      <4> QED
        BY <2>1, <3>2, <4>2 DEF AddedService
    <3>3. CASE q.op = "modifyRules" /\ q.row.via # Direct
      BY <1>2, <1>10, <3>3
    <3> QED
      BY <1>10, <3>1, <3>2, <3>3 DEF Modifies
  <2>3. p # q.row.port => Bare(p)'
    <3> SUFFICES ASSUME p # q.row.port PROVE Bare(p)
      BY <1>7
    <3>1. p \notin Touched(r)
      BY <1>0 DEF Touched
    <3> QED
      BY <1>2, <1>10, <3>1, ClosedIsBare, <1>1 DEF Owned
  <2>4. Stage(r, p)'
    BY <1>2, <1>10, <2>1, <2>2, <2>3 DEF Stage, Modifies
  <2> QED
    BY <1>3, <1>5, <2>4 DEF Owned
<1>11. CASE Modifies(q) /\ p # AddedPort(q)
  <2>1. p = q.row.port
    BY <1>1, <1>11 DEF AddedPort
  <2>2. serve[p] = None /\ serve'[p] = None
    BY <1>0, <1>1, <1>2, <1>11, <2>1 DEF Owned, Touched, Stage
  <2>3. Stage(r, p)'
    BY <1>2, <1>11, <2>2 DEF Stage, Modifies
  <2> QED
    BY <1>3, <1>5, <2>3 DEF Owned
<1> QED
  BY <1>4, <1>8, <1>9, <1>10, <1>11 DEF Modifies

(* The agent finds the port in use.                                        *)
LEMMA OwnedAgentInUse ==
  ASSUME TypeOK, Shape, Snap, ChainSnap, NEW r \in Requests, AgentInUse(r),
         NEW p \in PortsNow(req[r]) \ blame', Owned(r, p)
  PROVE  Owned(r, p)'
<1> USE DEF dbVars, agentVars, histVars
<1> DEFINE q == req[r]
<1>0. /\ pc[r] = "agentAdd" /\ p \notin blame /\ Finish(r)
      /\ Modifies(q) => p # q.row.port
  BY DEF AgentInUse
<1>1. /\ pc \in [Requests -> Steps] /\ req \in [Requests -> ReqTypes]
  BY DEF TypeOK, Steps
<1>2. UNCHANGED <<node, rules, chains, serve, unchained>> /\ pc'[r] = "idle"
  BY <1>1 DEF AgentInUse, Finish, Goto
<1>3. p \notin Touched(r) /\ p \notin Touched(r)'
  BY <1>0, <1>2 DEF Touched
<1>4. Single(p) /\ Agree(p)
  BY <1>3 DEF Owned
<1>5. Single(p)' /\ Agree(p)'
  BY <1>2, <1>4 DEF Single, Agree, Bare, RuleAt, ChainAt
<1> QED
  BY <1>3, <1>5 DEF Owned

(* The database writes on the port.                                        *)
LEMMA OwnedCreateRule ==
  ASSUME TypeOK, Shape, Snap, ChainSnap, NEW r \in Requests, CreateRule(r),
         NEW p \in PortsNow(req[r]) \ blame, Owned(r, p)
  PROVE  Owned(r, p)'
<1> USE DEF dbVars, agentVars, histVars
<1> DEFINE q == req[r]
<1>1. /\ pc[r] = "write" /\ q.op = "addRule" /\ Finish(r)
      /\ UNCHANGED <<node, chains, serve, unchained>>
  BY DEF CreateRule
<1>2. /\ pc \in [Requests -> Steps] /\ req \in [Requests -> ReqTypes]
      /\ rules \in [RuleIds -> RuleRows \cup {None}]
      /\ IsAddRule(r) /\ p = q.set.port /\ q.set \in RuleRows
  BY <1>1, OwnedRows DEF IsAddRule
<1>3. p \in Touched(r) /\ p \notin Touched(r)'
  BY <1>1, <1>2 DEF Touched, Finish, Goto
<1>4. Single(p) /\ serve[p] = RuleService(q.set) /\ Bare(p)
  BY <1>1, <1>3 DEF Owned, Stage
<1>5. PICK id \in RuleIds : rules' = [rules EXCEPT ![id] = q.set]
  BY DEF CreateRule, Unheld, FreeRuleIds
<1>6. /\ rules'[id] = q.set /\ RuleAt(id, p)'
      /\ \A i \in RuleIds : RuleAt(i, p)' => i = id
  BY <1>2, <1>4, <1>5, NotNone DEF RuleAt, Bare
<1>7. \A c \in ChainIds : ~ChainAt(c, p)'
  BY <1>1, <1>4 DEF Bare, ChainAt
<1>8. serve'[p] # None /\ serve'[p] = RuleService(rules'[id])
  BY <1>1, <1>2, <1>4, <1>6, NotNone
<1>9. ~Bare(p)'
  BY <1>6 DEF Bare
<1>10. Agree(p)'
  BY <1>6, <1>7, <1>8, <1>9 DEF Agree
<1>11. Single(p)'
  BY <1>6, <1>7 DEF Single
<1> QED
  BY <1>3, <1>10, <1>11 DEF Owned

(* delRule removes the only row of a port its agent has closed.            *)
LEMMA OwnedDeleteRule ==
  ASSUME TypeOK, Shape, Snap, ChainSnap, NEW r \in Requests, DeleteRule(r),
         NEW p \in PortsNow(req[r]) \ blame, Owned(r, p)
  PROVE  Owned(r, p)'
<1> USE DEF dbVars, agentVars, histVars
<1> DEFINE q == req[r]
<1>1. /\ pc[r] = "write" /\ q.op = "delRule" /\ Finish(r)
      /\ UNCHANGED <<node, chains, serve, unchained>>
      /\ rules' = [rules EXCEPT ![q.id] = None]
  BY DEF DeleteRule
<1>2. /\ pc \in [Requests -> Steps] /\ req \in [Requests -> ReqTypes]
      /\ rules \in [RuleIds -> RuleRows \cup {None}]
      /\ IsDelRule(r) /\ p = q.row.port /\ rules[q.id] = q.row
  BY <1>1, OwnedRows
<1>3. p \in Touched(r) /\ p \notin Touched(r)'
  BY <1>1, <1>2 DEF Touched, Finish, Goto
<1>4. Single(p) /\ (node => serve[p] = None)
  BY <1>1, <1>3 DEF Owned, Stage
<1>5. q.id \in RuleIds /\ RuleAt(q.id, p)
  BY <1>2, NotNone DEF RuleAt, IsDelRule
<1>6. Bare(p)'
  <2>1. \A i \in RuleIds : ~RuleAt(i, p)'
    BY <1>1, <1>2, <1>4, <1>5 DEF RuleAt, Single
  <2>2. \A c \in ChainIds : ~ChainAt(c, p)'
    BY <1>1, <1>4, <1>5 DEF ChainAt, Single
  <2> QED
    BY <2>1, <2>2 DEF Bare
<1>7. Single(p)' /\ Agree(p)'
  BY <1>1, <1>4, <1>6 DEF Single, Agree, Bare
<1> QED
  BY <1>3, <1>7 DEF Owned

(* modifyRule and modifyRules write the row of the port the agent reopened.*)
LEMMA OwnedUpdateRule ==
  ASSUME TypeOK, Shape, Snap, ChainSnap, NEW r \in Requests, UpdateRule(r),
         NEW p \in PortsNow(req[r]) \ blame, Owned(r, p)
  PROVE  Owned(r, p)'
<1> USE DEF dbVars, agentVars, histVars
<1> DEFINE q == req[r]
<1>1. /\ pc[r] = "write" /\ Modifies(q)
      /\ UNCHANGED <<node, chains, serve, unchained>>
  BY DEF UpdateRule
<1>2. /\ pc \in [Requests -> Steps] /\ req \in [Requests -> ReqTypes]
      /\ rules \in [RuleIds -> RuleRows \cup {None}] /\ q.set \in Sets
      /\ IsModify(r) /\ p \in {q.row.port, q.set.port} /\ rules[q.id] = q.row
      /\ p \in Ports /\ None \notin Ports
  BY <1>1, OwnedRows
<1>3. q.id \in RuleIds /\ q.row \in RuleRows /\ q.row # None /\ q.set.port # q.row.port
  BY <1>2, NotNone DEF IsModify
<1>4. rules' = [rules EXCEPT ![q.id] = Merge(q.row, q.set)]
  BY <1>2, <1>3 DEF UpdateRule
<1>5. Merge(q.row, q.set) \in RuleRows /\ Merge(q.row, q.set).port = AddedPort(q)
  BY <1>2, <1>3, MergeTypes DEF Merge, AddedPort
<1>6. p \in Touched(r) /\ p \notin Touched(r)'
  BY <1>1, <1>2 DEF Touched, Finish, Goto, UpdateRule
<1>7. Single(p) /\ Stage(r, p)
  BY <1>6 DEF Owned
<1>8. CASE p = AddedPort(q)
  <2>1. /\ serve[p] # None
        /\ p \notin unchained => serve[p] = RuleService(Merge(q.row, q.set))
        /\ p # q.row.port => Bare(p)
    BY <1>1, <1>7, <1>8 DEF Stage, Modifies
  <2>0. PICK id \in RuleIds : id = q.id
    BY <1>3
  <2>2. RuleAt(id, p)' /\ rules'[id] = Merge(q.row, q.set)
    BY <1>2, <1>3, <1>4, <1>5, <1>8, <2>0, NotNone DEF RuleAt
  <2>3. p = q.row.port => RuleAt(q.id, p)
    BY <1>2, <1>3 DEF RuleAt
  <2>4. \A i \in RuleIds : RuleAt(i, p)' => i = q.id
    <3> SUFFICES ASSUME NEW i \in RuleIds, RuleAt(i, p)', i # q.id PROVE FALSE
      OBVIOUS
    <3>1. RuleAt(i, p)
      BY <1>2, <1>3, <1>4 DEF RuleAt
    <3> QED
      BY <1>3, <1>7, <2>1, <2>3, <3>1 DEF Single, Bare
  <2>5. \A c \in ChainIds : ~ChainAt(c, p)'
    BY <1>1, <1>3, <1>7, <2>1, <2>3 DEF Single, Bare, ChainAt
  <2>6. ~Bare(p)'
    BY <2>2 DEF Bare
  <2>7. Agree(p)'
    BY <1>1, <2>0, <2>1, <2>2, <2>4, <2>5, <2>6 DEF Agree
  <2>8. Single(p)'
    BY <2>4, <2>5 DEF Single
  <2> QED
    BY <1>6, <2>7, <2>8 DEF Owned
<1>9. CASE p # AddedPort(q)
  <2>1. serve[p] = None
    BY <1>1, <1>7, <1>9 DEF Stage, Modifies
  <2>2. p = q.row.port
    BY <1>2, <1>9 DEF AddedPort
  <2>3. RuleAt(q.id, p)
    BY <1>2, <1>3, <2>2 DEF RuleAt
  <2>4. \A i \in RuleIds : ~RuleAt(i, p)'
    <3> SUFFICES ASSUME NEW i \in RuleIds, RuleAt(i, p)' PROVE FALSE
      OBVIOUS
    <3>1. i # q.id
      BY <1>2, <1>3, <1>4, <1>5, <1>9 DEF RuleAt
    <3>2. RuleAt(i, p)
      BY <1>2, <1>3, <1>4, <3>1 DEF RuleAt
    <3> QED
      BY <1>3, <1>7, <2>3, <3>1, <3>2 DEF Single
  <2>5. \A c \in ChainIds : ~ChainAt(c, p)'
    BY <1>1, <1>3, <1>7, <2>3 DEF Single, ChainAt
  <2>6. Bare(p)' /\ serve'[p] = None
    BY <1>1, <2>1, <2>4, <2>5 DEF Bare
  <2>7. Agree(p)' /\ Single(p)'
    BY <2>4, <2>5, <2>6 DEF Agree, Single
  <2> QED
    BY <1>6, <2>7 DEF Owned
<1> QED
  BY <1>8, <1>9

(* addChain writes a row of the chain its port already serves.             *)
LEMMA OwnedCreateChain ==
  ASSUME TypeOK, Shape, Snap, ChainSnap, NEW r \in Requests, CreateChain(r),
         NEW p \in PortsNow(req[r]) \ blame, Owned(r, p)
  PROVE  Owned(r, p)'
<1> USE DEF dbVars, agentVars, histVars
<1> DEFINE q == req[r]
<1>1. /\ pc[r] = "write" /\ q.op = "addChain"
      /\ UNCHANGED <<node, rules, serve, unchained>>
  BY DEF CreateChain
<1>2. /\ pc \in [Requests -> Steps] /\ req \in [Requests -> ReqTypes]
      /\ chains \in [ChainIds -> ChainRows \cup {None}]
      /\ IsAddChain(r) /\ p = q.set.port /\ p \in Ports
  BY <1>1, OwnedRows
<1>3. p \in Touched(r) /\ p \notin Touched(r)'
  BY <1>1, <1>2 DEF Touched, Goto, CreateChain, Modifies
<1>4. serve'[p] = ChainService /\ \A i \in RuleIds : ~RuleAt(i, p)'
  BY <1>1, <1>3 DEF Owned, Stage, RuleAt
<1>5. PICK id \in ChainIds : chains' = [chains EXCEPT ![id] = [port |-> q.set.port, ip |-> q.ip]]
  BY DEF CreateChain, Unheld, FreeChainIds
<1>6. [port |-> q.set.port, ip |-> q.ip] \in ChainRows
  BY <1>2 DEF IsAddChain, ChainRows
<1>7. ChainAt(id, p)'
  BY <1>2, <1>5, <1>6, NotNone DEF ChainAt
<1>8. ~Bare(p)'
  BY <1>7 DEF Bare
<1>9. Single(p)' /\ Agree(p)'
  BY <1>4, <1>8 DEF Single, Agree
<1> QED
  BY <1>3, <1>9 DEF Owned

(* delChain removes the last row of a closed port, or one of several.      *)
LEMMA OwnedDeleteChain ==
  ASSUME TypeOK, Shape, Snap, ChainSnap, NEW r \in Requests, DeleteChain(r),
         NEW p \in PortsNow(req[r]) \ blame, Owned(r, p)
  PROVE  Owned(r, p)'
<1> USE DEF dbVars, agentVars, histVars
<1> DEFINE q == req[r]
<1>1. /\ pc[r] = "write" /\ q.op = "delChain" /\ req' = req
      /\ UNCHANGED <<node, rules, serve, unchained>>
      /\ chains' = [chains EXCEPT ![q.id] = None]
  BY DEF DeleteChain
<1>2. /\ pc \in [Requests -> Steps] /\ req \in [Requests -> ReqTypes]
      /\ chains \in [ChainIds -> ChainRows \cup {None}]
      /\ IsDelChain(r) /\ p = q.row.port /\ p \in Ports /\ chains[q.id] = q.row
  BY <1>1, OwnedRows
<1>3. p \in Touched(r) /\ p \notin Touched(r)'
  BY <1>1, <1>2 DEF Touched, Goto, DeleteChain, Modifies
<1>4. q.id \in ChainIds /\ ChainAt(q.id, p) /\ Single(p)
  BY <1>2, <1>3, NotNone DEF ChainAt, IsDelChain, Owned
<1>5. \A i \in RuleIds : ~RuleAt(i, p)'
  BY <1>1, <1>4 DEF Single, RuleAt
<1>6. \A c \in ChainIds : ChainAt(c, p)' <=> ChainAt(c, p) /\ c # q.id
  BY <1>1, <1>2 DEF ChainAt
<1>7. \/ serve[p] = None /\ \A c \in ChainIds : ChainAt(c, p) => c = q.id
      \/ serve[p] = ChainService /\ (node => \E c \in ChainIds : ChainAt(c, p) /\ c # q.id)
  BY <1>1, <1>3 DEF Owned, Stage
<1>8. Agree(p)'
  BY <1>1, <1>5, <1>6, <1>7 DEF Agree, Bare
<1>9. Single(p)'
  BY <1>5 DEF Single
<1> QED
  BY <1>3, <1>8, <1>9 DEF Owned

(* The steps after the write.                                              *)
LEMMA OwnedMapping ==
  ASSUME TypeOK, Shape, NEW r \in Requests, MapChain(r) \/ UnmapChain(r), NEW p, Owned(r, p)
  PROVE  Owned(r, p)'
<1> USE DEF dbVars, agentVars, histVars
<1>1. /\ UNCHANGED <<node, rules, chains, serve, unchained>>
      /\ pc[r] \in {"map", "unmap"} /\ Finish(r)
  BY DEF MapChain, UnmapChain
<1>2. p \notin Touched(r) /\ p \notin Touched(r)'
  BY <1>1 DEF Touched, Finish, Goto, TypeOK
<1>3. Single(p) /\ Agree(p)
  BY <1>2 DEF Owned
<1>4. Single(p)' /\ Agree(p)'
  BY <1>1, <1>3 DEF Single, Agree, Bare, RuleAt, ChainAt
<1> QED
  BY <1>2, <1>4 DEF Owned

(* While the agent is up, any step of the request keeps its port in order. *)
LEMMA OwnedStep ==
  ASSUME TypeOK, Shape, Snap, ChainSnap, NEW r \in Requests, LastChain(r), Step(r), agent = "up",
         NEW p \in PortsNow(req[r]) \ blame', Owned(r, p)
  PROVE  Owned(r, p)'
<1>1. p \notin blame
  BY StepFrame DEF Frame
<1>2. ~AgentUnreached(r) /\ ~AgentRefused(r) /\ ~WriteFails(r)
  BY DEF AgentUnreached, AgentRefused, WriteFails
<1> QED
  BY <1>1, <1>2, OwnedReads, OwnedAgentDel, OwnedAgentAdd, OwnedAgentInUse, OwnedCreateRule,
     OwnedDeleteRule, OwnedUpdateRule, OwnedCreateChain, OwnedDeleteChain, OwnedMapping DEF Step

(* Two requests at one port blame it.                                      *)
LEMMA LoneAt ==
  ASSUME TypeOK, Shape, Lone, NEW r \in Requests, NEW s \in Requests \ {r},
         NEW p \in ReqPorts(req[r]), p \notin blame
  PROVE  p \notin ReqPorts(req[s]) /\ p \notin Touched(s)
<1>1. p \notin ReqPorts(req[s])
  BY DEF Lone
<1> QED
  BY <1>1, TouchedTypes

(* The ports of a running agent stay in order.                             *)
LEMMA StepServed ==
  ASSUME TypeOK, Shape, Lone, Snap, ChainSnap, Served, NEW r \in Requests, LastChain(r), Step(r)
  PROVE  Served'
<1>1. /\ agent' = agent /\ blame \subseteq blame' /\ req[r] \in ReqTypes
      /\ \A s \in Requests \ {r} : pc'[s] = pc[s] /\ req'[s] = req[s]
  BY StepFrame DEF Frame, TypeOK
<1> SUFFICES ASSUME agent = "up", NEW p \in Ports \ blame' PROVE PortOK(p)'
  BY <1>1 DEF Served
<1>2. PortOK(p) /\ p \notin blame
  BY <1>1 DEF Served
<1>3. CASE p \notin PortsNow(req[r])
  <2>1. SamePort(p) /\ p \notin Touched(r) /\ p \notin Touched(r)'
    BY <1>2, <1>3, StepElsewhere
  <2>2. \A s \in Requests \ {r} : Touched(s)' = Touched(s) /\ (Stage(s, p)' <=> Stage(s, p))
    BY <1>1, <2>1, SamePortStage
  <2>3. (Single(p)' <=> Single(p)) /\ (Agree(p)' <=> Agree(p))
    BY <2>1, SamePortAgrees
  <2> QED
    BY <1>2, <2>1, <2>2, <2>3 DEF PortOK
<1>4. CASE p \in PortsNow(req[r])
  <2>1. p \in ReqPorts(req[r])
    BY <1>1, <1>4, PortTypes
  <2>2. \A s \in Requests \ {r} : p \notin Touched(s)
    BY <1>2, <2>1, LoneAt
  <2>3. \A s \in Requests \ {r} : Touched(s)' = Touched(s)
    BY <1>1 DEF Touched, PortsNow, Modifies
  <2>4. Owned(r, p)
    BY <1>2, <2>2 DEF PortOK, Owned
  <2>5. Owned(r, p)'
    BY <1>4, <2>4, OwnedStep
  <2>6. \A s \in Requests \ {r} : p \notin Touched(s)'
    BY <2>2, <2>3
  <2> QED
    BY <2>5, <2>6 DEF PortOK, Owned
<1> QED
  BY <1>3, <1>4

(* The chain that is the last of its port when its request is about to     *)
(* close the port.                                                         *)
LEMMA StepLastChain ==
  ASSUME TypeOK, Shape, Lone, ChainSnap, NEW r \in Requests, Step(r),
         NEW s \in Requests, LastChain(s)
  PROVE  LastChain(s)'
<1> USE DEF dbVars, agentVars, histVars
<1>1. /\ pc \in [Requests -> Steps] /\ req \in [Requests -> ReqTypes]
      /\ blame \subseteq blame'
      /\ \A t \in Requests \ {r} : pc'[t] = pc[t] /\ req'[t] = req[t]
  BY StepFrame DEF Frame, TypeOK, Steps
<1>2. CASE s # r
  <2> SUFFICES ASSUME pc[s] = "agentDel", req[s].op = "delChain", req[s].row.port \notin blame',
                      NEW c \in ChainIds, ChainAt(c, req[s].row.port)'
               PROVE  c = req[s].id
    BY <1>1, <1>2 DEF LastChain
  <2> DEFINE p == req[s].row.port
  <2>1. p \in ReqPorts(req[s]) /\ p \notin blame
    BY <1>1, KindOf, PortTypes DEF IsDelChain
  <2>2. p \notin PortsNow(req[r])
    BY <1>1, <1>2, <2>1, LoneAt, PortTypes
  <2>3. ChainAt(c, p)
    <3>1. req'[s].row.port = p
      BY <1>1, <1>2
    <3>2. chains'[c] # None /\ chains'[c].port = p
      BY <3>1 DEF ChainAt
    <3>3. chains'[c] = chains[c]
      BY <2>1, <2>2, <3>2, ChainWritePorts
    <3> QED
      BY <3>2, <3>3 DEF ChainAt
  <2> QED
    BY <2>1, <2>3 DEF LastChain
<1>3. CASE s = r
  <2> SUFFICES ASSUME pc'[r] = "agentDel", req'[r].op = "delChain", req'[r].row.port \notin blame'
               PROVE  \A c \in ChainIds : ChainAt(c, req[r].row.port)' => c = req'[r].id
    BY <1>3 DEF LastChain
  <2> DEFINE q == req[r]
  <2>1. ~Finish(r)
    BY <1>1 DEF Finish, Goto
  <2>2. ~UpdateRule(r)
    <3> SUFFICES ASSUME UpdateRule(r) PROVE FALSE
      OBVIOUS
    <3>1. PICK next \in q.todo :
            req' = [req EXCEPT ![r].id = next.id, ![r].row = next.row, ![r].todo = @ \ {next}]
      BY <2>1 DEF UpdateRule
    <3>2. req'[r].op = q.op
      BY <1>1, <3>1 DEF ReqTypes
    <3> QED
      BY <3>2 DEF UpdateRule, Modifies
  <2>3. req'[r] = q /\ (ReadNode(r) \/ CountForDel(r))
    BY <1>1, <2>1, <2>2 DEF Step, ReadNode, CountForAdd, CountForDel, AgentDel, AgentUnreached,
         AgentRefused, AgentAdd, AgentInUse, CreateRule, DeleteRule, CreateChain, MapChain,
         DeleteChain, UnmapChain, WriteFails, Fault, Goto
  <2>4. ~ReadNode(r)
    BY <2>3, KindOf DEF ReadNode, IsDelChain
  <2>5. /\ Cardinality(ChainsOn(q.row.port)) = 1 /\ pc[r] = "count"
        /\ UNCHANGED <<chains, blame>> /\ q.op = "delChain"
    BY <1>1, <2>1, <2>3, <2>4 DEF CountForDel, Goto
  <2>6. q.id \in ChainIds /\ chains[q.id] = q.row /\ q.row \in ChainRows /\ q.row # None
    BY <2>3, <2>5, KindOf, NotNone DEF IsDelChain, ChainSnap
  <2>7. q.id \in ChainsOn(q.row.port) /\ IsFiniteSet(ChainsOn(q.row.port))
    <3>1. ChainsOn(q.row.port) \subseteq ChainIds
      BY DEF ChainsOn, Rows, TypeOK
    <3>2. q.id \in ChainsOn(q.row.port)
      BY <2>6 DEF ChainsOn, Rows, TypeOK
    <3> QED
      BY <3>1, <3>2, ConstantsAssumption, FS_Subset
  <2>8. ChainsOn(q.row.port) = {q.id}
    BY <2>5, <2>7, FS_Singleton
  <2>9. \A c \in ChainIds : ChainAt(c, q.row.port) => c = q.id
    BY <2>8 DEF ChainsOn, Rows, ChainAt, TypeOK
  <2>10. \A c \in ChainIds : ChainAt(c, req[r].row.port)' => ChainAt(c, q.row.port)
    BY <2>3, <2>5 DEF ChainAt
  <2> QED
    BY <2>3, <2>9, <2>10
<1> QED
  BY <1>2, <1>3

-----------------------------------------------------------------------------
(* The calls *)

(* A request that starts with q: its kind and first step, and the rows it  *)
(* has just read.                                                          *)
Started(q, step) ==
    /\ \/ /\ q.op = "addRule" /\ step = "agentAdd"
          /\ q.row = None /\ q.set \in RuleRows /\ q.todo = {}
       \/ /\ q.op = "delRule" /\ step = "readNode"
          /\ q.id \in RuleIds /\ q.row \in RuleRows /\ q.set = NoSet /\ q.todo = {}
       \/ /\ Modifies(q) /\ step = "agentDel"
          /\ q.id \in RuleIds /\ q.row \in RuleRows /\ q.set.port # q.row.port
          /\ q.op = "modifyRule" => q.todo = {}
          /\ q.op = "modifyRules" => q.set.port = None /\ q.set.via = None
       \/ /\ q.op = "addChain" /\ step = "count"
          /\ q.row = None /\ q.set.port \in Ports /\ q.todo = {} /\ q.ip \in Ips
       \/ /\ q.op = "delChain" /\ step = "count"
          /\ q.id \in ChainIds /\ q.row \in ChainRows /\ q.set = NoSet /\ q.todo = {}
          /\ ~q.seen => ~node
          /\ chains[q.id] = q.row
    /\ \A j \in q.todo : j.id # q.id
    /\ \A i, j \in q.todo : i.id = j.id => i = j
    /\ \A a \in Held(q) : rules[a.id] = a.row

(* Starting a request keeps the invariant: contention is blamed at once.   *)
LEMMA BeginInv ==
  ASSUME PlaneInv, NEW r \in Requests, NEW q \in ReqTypes, NEW step,
         Begin(r, q, step), Started(q, step)
  PROVE  PlaneInv'
<1> USE DEF dbVars, agentVars, histVars
<1>1. /\ pc \in [Requests -> Steps] /\ req \in [Requests -> ReqTypes]
      /\ step \in {"agentAdd", "readNode", "agentDel", "count"}
  BY DEF PlaneInv, TypeOK, Steps, Started
<1>2. /\ pc'[r] = step /\ req'[r] = q /\ pc[r] = "idle" /\ req[r] = NoReq
      /\ \A s \in Requests \ {r} : pc'[s] = pc[s] /\ req'[s] = req[s]
      /\ UNCHANGED <<dbVars, agentVars, unchained>>
      /\ blame' = blame \cup Contended(q) \cup (IF agent = "up" THEN {} ELSE ReqPorts(q))
  <2>1. req[r] = NoReq
    BY DEF Begin, Active, PlaneInv, Shape, ShapeOf, IsAddRule, IsDelRule, IsModify,
       IsAddChain, IsDelChain
  <2> QED
    BY <1>1, <2>1 DEF Begin, Goto, Active
<1>3. blame \subseteq blame' /\ (agent # "up" => ReqPorts(q) \subseteq blame')
  BY <1>2
<1>4. TypeOK'
  BY <1>1, BeginTypes DEF PlaneInv, Steps
<1>5. Shape'
  <2>1. \A s \in Requests \ {r} : ShapeOf(s)'
    BY <1>2 DEF PlaneInv, Shape, ShapeOf, IsAddRule, IsDelRule, IsModify, IsAddChain, IsDelChain
  <2>2. ShapeOf(r)'
    BY <1>2 DEF Started, ShapeOf, IsAddRule, IsDelRule, IsModify, IsAddChain, IsDelChain,
       Modifies
  <2> QED
    BY <2>1, <2>2 DEF Shape
<1>6. Distinct'
  BY <1>2 DEF PlaneInv, Distinct, Started
<1>7. Lone'
  <2>1. ASSUME NEW s \in Requests \ {r},
               ReqPorts(q) \cap ReqPorts(req[s]) # {} \/ RuleKeys(q) \cap RuleKeys(req[s]) # {}
        PROVE  ReqPorts(q) \subseteq blame' /\ ReqPorts(req[s]) \subseteq blame'
    <3>1. Active(s)
      BY <2>1, NoReqTypes DEF Active, PlaneInv, Shape, ShapeOf, IsAddRule, IsDelRule, IsModify,
            IsAddChain, IsDelChain
    <3>2. ReqPorts(q) \subseteq Contended(q) /\ ReqPorts(req[s]) \subseteq Contended(q)
      BY <2>1, <3>1 DEF Contended
    <3> QED
      BY <1>2, <3>2
  <2> SUFFICES ASSUME NEW s \in Requests, NEW t \in Requests, s # t,
                      \/ ReqPorts(req'[s]) \cap ReqPorts(req'[t]) # {}
                      \/ RuleKeys(req'[s]) \cap RuleKeys(req'[t]) # {}
               PROVE  ReqPorts(req'[s]) \subseteq blame'
    BY DEF Lone
  <2>2. CASE s = r
    BY <1>2, <2>1, <2>2
  <2>3. CASE t = r
    BY <1>2, <2>1, <2>3
  <2>4. CASE s # r /\ t # r
    BY <1>2, <1>3, <2>4 DEF PlaneInv, Lone
  <2> QED
    BY <2>2, <2>3, <2>4
<1>8. Snap'
  <2> SUFFICES ASSUME NEW s \in Requests, NEW a \in Held(req'[s]), rules[a.id] # a.row
               PROVE  /\ ReqPorts(req'[s]) \subseteq blame'
                      /\ rules[a.id] # None => rules[a.id].port \in blame'
    BY <1>2 DEF Snap, Held
  <2>1. s # r
    BY <1>2 DEF Started
  <2> QED
    BY <1>2, <1>3, <2>1 DEF PlaneInv, Snap
<1>9. ChainSnap'
  <2> SUFFICES ASSUME NEW s \in Requests, req'[s].op = "delChain",
                      chains[req'[s].id] # req'[s].row
               PROVE  /\ req'[s].row.port \in blame' \/ pc'[s] = "unmap"
                      /\ chains[req'[s].id] # None => chains[req'[s].id].port \in blame'
    BY <1>2 DEF ChainSnap
  <2>1. s # r
    BY <1>2 DEF Started, Modifies
  <2> QED
    BY <1>2, <1>3, <2>1 DEF PlaneInv, ChainSnap
<1>10. Down'
  BY <1>2, <1>3 DEF PlaneInv, Down
<1>11. Cfg'
  BY <1>2, <1>3 DEF PlaneInv, Cfg, ChainAt
<1>12. Served'
  <2> SUFFICES ASSUME agent = "up", NEW p \in Ports \ blame' PROVE PortOK(p)'
    BY <1>2 DEF Served
  <2>1. PortOK(p)
    BY <1>3 DEF PlaneInv, Served
  <2>2. SamePort(p)
    BY <1>2 DEF SamePort, RuleAt, ChainAt
  <2>3. \A s \in Requests \ {r} : Touched(s)' = Touched(s) /\ (Stage(s, p)' <=> Stage(s, p))
    BY <1>2, <2>2, SamePortStage
  <2>4. (Single(p)' <=> Single(p)) /\ (Agree(p)' <=> Agree(p))
    BY <2>2, SamePortAgrees
  <2>5. p \notin Touched(r) /\ p \notin Touched(r)'
    BY <1>2 DEF Touched, Started, Modifies
  <2> QED
    BY <2>1, <2>3, <2>4, <2>5 DEF PortOK
<1>13. ASSUME NEW s \in Requests PROVE LastChain(s)'
  <2>1. CASE s = r
    BY <1>2, <2>1 DEF LastChain, Started, Modifies
  <2>2. CASE s # r
    BY <1>2, <1>3, <2>2 DEF PlaneInv, LastChain, ChainAt
  <2> QED
    BY <2>1, <2>2
<1> QED
  BY <1>4, <1>5, <1>6, <1>7, <1>8, <1>9, <1>10, <1>11, <1>12, <1>13 DEF PlaneInv

(* Each call starts a request of a known kind with rows it has just read.  *)
LEMMA CallInv ==
  ASSUME PlaneInv, NEW r \in Requests, Call(r)
  PROVE  PlaneInv'
<1>1. /\ rules \in [RuleIds -> RuleRows \cup {None}]
      /\ chains \in [ChainIds -> ChainRows \cup {None}]
      /\ NoReq \in ReqTypes /\ NoSet \in Sets /\ None \notin Ports /\ node \in BOOLEAN
      /\ ~(None \in RuleRows) /\ ~(None \in ChainRows)
  BY NoReqTypes, ConstantsAssumption DEF PlaneInv, TypeOK
<1>2. ASSUME NEW set \in Sets, AddRule(r, set) PROVE PlaneInv'
  <2> DEFINE q == [NoReq EXCEPT !.op = "addRule", !.set = set]
  <2>1. Begin(r, q, "agentAdd") /\ "addRule" \in Ops /\ None \notin {set.port, set.via, set.dst}
    BY <1>2 DEF AddRule, Begin, NoReq
  <2>2. /\ q.op = "addRule" /\ q.row = None /\ q.set = set /\ q.todo = {} /\ q \in ReqTypes
    BY <1>1, <2>1 DEF NoReq, ReqTypes
  <2>3. set \in RuleRows
    BY <2>1 DEF Sets, RuleRows
  <2>4. Started(q, "agentAdd")
    BY <2>2, <2>3 DEF Started, Held
  <2> QED
    BY <2>1, <2>2, <2>4, BeginInv
<1>3. ASSUME NEW id \in RuleIds, DelRule(r, id) PROVE PlaneInv'
  <2> DEFINE q == [NoReq EXCEPT !.op = "delRule", !.id = id, !.row = rules[id]]
  <2>1. Begin(r, q, "readNode") /\ "delRule" \in Ops /\ rules[id] \in RuleRows
    BY <1>1, <1>3 DEF DelRule, Begin, NoReq
  <2>2. /\ q.op = "delRule" /\ q.id = id /\ q.row = rules[id] /\ q.set = NoSet /\ q.todo = {}
        /\ q \in ReqTypes
    BY <1>1, <2>1 DEF NoReq, ReqTypes
  <2>3. Started(q, "readNode")
    BY <2>1, <2>2 DEF Started, Held
  <2> QED
    BY <2>1, <2>2, <2>3, BeginInv
<1>4. ASSUME NEW id \in RuleIds, NEW set \in Sets, ModifyRule(r, id, set) PROVE PlaneInv'
  <2> DEFINE q == [NoReq EXCEPT !.op = "modifyRule", !.id = id, !.row = rules[id], !.set = set]
  <2>1. /\ Begin(r, q, "agentDel") /\ "modifyRule" \in Ops /\ rules[id] \in RuleRows
        /\ set.port # rules[id].port
    BY <1>1, <1>4 DEF ModifyRule, Begin, NoReq
  <2>2. /\ q.op = "modifyRule" /\ q.id = id /\ q.row = rules[id] /\ q.set = set /\ q.todo = {}
        /\ q \in ReqTypes
    BY <1>1, <2>1 DEF NoReq, ReqTypes
  <2>3. Started(q, "agentDel")
    BY <2>1, <2>2 DEF Started, Held, Modifies
  <2> QED
    BY <2>1, <2>2, <2>3, BeginInv
<1>5. ASSUME NEW ids \in SUBSET RuleIds, NEW dst \in Dsts \cup {None}, ModifyRules(r, ids, dst)
      PROVE  PlaneInv'
  <2>1. PICK first \in ids \cap Rows(rules) :
          Begin(r, [NoReq EXCEPT !.op = "modifyRules", !.id = first, !.row = rules[first],
                    !.set = [NoSet EXCEPT !.dst = dst],
                    !.todo = { [id |-> i, row |-> rules[i]] :
                               i \in (ids \cap Rows(rules)) \ {first} }], "agentDel")
    BY <1>5 DEF ModifyRules
  <2> DEFINE left == (ids \cap Rows(rules)) \ {first}
             todo == { [id |-> i, row |-> rules[i]] : i \in left }
             set == [NoSet EXCEPT !.dst = dst]
             q == [NoReq EXCEPT !.op = "modifyRules", !.id = first, !.row = rules[first],
                                !.set = set, !.todo = todo]
  <2>2. /\ first \in RuleIds /\ rules[first] \in RuleRows /\ rules[first].port \in Ports
        /\ \A i \in left : i \in RuleIds /\ rules[i] \in RuleRows /\ i # first
    BY <1>1 DEF Rows, RuleRows
  <2>3. set \in Sets /\ set.port = None /\ set.via = None
    BY ConstantsAssumption DEF NoSet, Sets
  <2>4. todo \in SUBSET [id : RuleIds, row : RuleRows]
    BY <2>2
  <2>5. Begin(r, q, "agentDel")
    BY <2>1
  <2> HIDE DEF todo, set
  <2>6. q.op = "modifyRules" /\ "modifyRules" \in Ops
    BY <2>5 DEF NoReq, Begin
  <2>7. /\ q.op = "modifyRules" /\ q.id = first /\ q.row = rules[first] /\ q.set = set
        /\ q.todo = todo /\ q \in ReqTypes
    BY <2>2, <2>3, <2>4, <2>6 DEF NoReq, ReqTypes
  <2> HIDE DEF q
  <2>8. \A j \in todo : j.id # first /\ rules[j.id] = j.row
    BY <2>2 DEF todo
  <2>9. \A i, j \in todo : i.id = j.id => i = j
    BY DEF todo
  <2>10. Started(q, "agentDel")
    BY <1>1, <2>2, <2>3, <2>7, <2>8, <2>9 DEF Started, Held, Modifies
  <2> QED
    BY <2>5, <2>7, <2>10, BeginInv
<1>6. ASSUME NEW p \in Ports, NEW ip \in Ips, AddChain(r, p, ip) PROVE PlaneInv'
  <2> DEFINE q == [NoReq EXCEPT !.op = "addChain", !.set.port = p, !.ip = ip]
  <2>1. Begin(r, q, "count")
    BY <1>6 DEF AddChain
  <2>2. q.op = "addChain" /\ "addChain" \in Ops /\ q.set = [NoSet EXCEPT !.port = p]
    BY <2>1 DEF NoReq, Begin
  <2>3. /\ q.row = None /\ q.set.port = p /\ q.todo = {} /\ q.ip = ip
        /\ q.set \in Sets /\ q \in ReqTypes
    <3>1. [NoSet EXCEPT !.port = p] \in Sets /\ [NoSet EXCEPT !.port = p].port = p
      BY DEF NoSet, Sets
    <3> QED
      BY <2>2, <3>1 DEF NoReq, ReqTypes
  <2>4. Started(q, "count")
    BY <2>2, <2>3 DEF Started, Held
  <2> QED
    BY <2>1, <2>3, <2>4, BeginInv
<1>7. ASSUME NEW id \in ChainIds, NEW admin \in BOOLEAN, DelChain(r, id, admin) PROVE PlaneInv'
  <2> DEFINE q == [NoReq EXCEPT !.op = "delChain", !.id = id, !.row = chains[id],
                                !.admin = admin, !.seen = node]
  <2>1. Begin(r, q, "count") /\ "delChain" \in Ops /\ chains[id] \in ChainRows
    BY <1>1, <1>7 DEF DelChain, Begin, NoReq
  <2>2. /\ q.op = "delChain" /\ q.id = id /\ q.row = chains[id] /\ q.set = NoSet /\ q.todo = {}
        /\ q.seen = node /\ q \in ReqTypes
    BY <1>1, <2>1 DEF NoReq, ReqTypes
  <2>3. Started(q, "count")
    BY <2>1, <2>2 DEF Started, Held
  <2> QED
    BY <2>1, <2>2, <2>3, BeginInv
<1> QED
  BY <1>2, <1>3, <1>4, <1>5, <1>6, <1>7 DEF Call

-----------------------------------------------------------------------------
(* The steps of the agent, and the node's                                  *)

(* An agent that has downloaded nothing has no rows.                       *)
LEMMA NoRowsTypes ==
  NoRows \in [rules : [RuleIds -> RuleRows \cup {None}], chains : SUBSET Ports]
BY DEF NoRows

(* The process dies, and requests inside it with it.                       *)
LEMMA CrashInv ==
  ASSUME PlaneInv, Crash
  PROVE  PlaneInv'
<1> USE DEF dbVars, agentVars, histVars
<1>1. /\ agent' = "down" /\ cfg' = NoRows /\ UNCHANGED <<dbVars, unchained>>
      /\ blame' = blame \cup BusyPorts /\ crashes' = crashes + 1 /\ crashes < MaxCrashes
      /\ serve' = [p \in Ports |-> None]
  BY DEF Crash
<1>2. /\ pc' \in [Requests -> Steps] /\ req' \in [Requests -> ReqTypes]
      /\ \A r \in Requests : \/ pc'[r] = pc[r] /\ req'[r] = req[r]
                             \/ pc'[r] = "idle" /\ req'[r] = NoReq
  <2> DEFINE cut == { r \in Requests : pc[r] = "agentAdd" /\ Modifies(req[r]) }
  <2>1. /\ pc' = [r \in Requests |-> IF r \in cut THEN "idle" ELSE pc[r]]
        /\ req' = [r \in Requests |-> IF r \in cut THEN NoReq ELSE req[r]]
    BY DEF Crash
  <2> HIDE DEF cut
  <2> QED
    BY <2>1, NoReqTypes DEF PlaneInv, TypeOK, Steps
<1>3. BusyPorts \subseteq Ports
  BY BlameTypes DEF PlaneInv, TypeOK, BusyPorts
<1>4. TypeOK'
  BY <1>1, <1>2, <1>3, NoRowsTypes, ConstantsAssumption DEF PlaneInv, TypeOK, Steps
<1>5. Shape'
  BY <1>1, <1>2 DEF PlaneInv, Shape, ShapeOf, IsAddRule, IsDelRule, IsModify, IsAddChain,
     IsDelChain
<1>6. Distinct'
  BY <1>2 DEF PlaneInv, Distinct, NoReq
<1>7. Lone'
  BY <1>1, <1>2, NoReqTypes DEF PlaneInv, Lone
<1>8. Snap'
  <2> SUFFICES ASSUME NEW s \in Requests, NEW a \in Held(req'[s]), rules[a.id] # a.row
               PROVE  /\ ReqPorts(req'[s]) \subseteq blame'
                      /\ rules[a.id] # None => rules[a.id].port \in blame'
    BY <1>1 DEF Snap, Held
  <2>1. req'[s] = req[s]
    BY <1>2, NoReqTypes
  <2> QED
    BY <1>1, <2>1 DEF PlaneInv, Snap
<1>9. ChainSnap'
  BY <1>1, <1>2 DEF PlaneInv, ChainSnap, NoReq
<1>10. Down'
  <2>1. ASSUME NEW r \in Requests PROVE ReqPorts(req'[r]) \subseteq blame'
    <3>1. pc[r] = "idle" => req[r] = NoReq
      BY DEF PlaneInv, Shape, ShapeOf, IsAddRule, IsDelRule, IsModify, IsAddChain, IsDelChain
    <3>2. pc[r] # "idle" => ReqPorts(req[r]) \subseteq BusyPorts
      BY DEF BusyPorts, Active
    <3> QED
      BY <1>1, <1>2, <3>1, <3>2, NoReqTypes
  <2> QED
    BY <2>1 DEF Down
<1>11. Cfg' /\ Served'
  BY <1>1 DEF Cfg, Served
<1>12. ASSUME NEW s \in Requests PROVE LastChain(s)'
  BY <1>1, <1>2 DEF PlaneInv, LastChain, ChainAt, NoReq
<1> QED
  BY <1>4, <1>5, <1>6, <1>7, <1>8, <1>9, <1>10, <1>11, <1>12 DEF PlaneInv

(* An active request has a port.                                           *)
LEMMA ActiveHasPorts ==
  ASSUME TypeOK, Shape, NEW r \in Requests, pc[r] # "idle"
  PROVE  ReqPorts(req[r]) # {}
<1>1. req[r] \in ReqTypes /\ None \notin Ports
  BY ConstantsAssumption DEF TypeOK
<1>2. req[r].row \in RuleRows \cup ChainRows \/ req[r].set.port \in Ports
  BY KindOf DEF IsAddRule, IsDelRule, IsModify, IsAddChain, IsDelChain, Modifies, RuleRows
<1> QED
  BY <1>1, <1>2, PortTypes

(* The agent downloads the rules; only without requests is blame dropped.  *)
LEMMA RegisterRulesInv ==
  ASSUME PlaneInv, RegisterRules
  PROVE  PlaneInv'
<1> USE DEF dbVars, agentVars, histVars
<1>1. /\ agent = "down" /\ agent' = "registering" /\ UNCHANGED <<dbVars, serve, crashes, pc, req>>
      /\ cfg' = [cfg EXCEPT !.rules = rules] /\ unchained' = {}
      /\ blame' = IF BusyPorts = {} THEN {} ELSE blame \cup BusyPorts
  BY DEF RegisterRules
<1>2. BusyPorts \subseteq Ports
  BY BlameTypes DEF PlaneInv, TypeOK, BusyPorts
<1>3. TypeOK'
  BY <1>1, <1>2 DEF PlaneInv, TypeOK
<1>4. Shape' /\ Distinct'
  BY <1>1 DEF PlaneInv, Shape, ShapeOf, IsAddRule, IsDelRule, IsModify, IsAddChain,
     IsDelChain, Distinct
<1>5. \/ blame \subseteq blame'
      \/ \A r \in Requests : pc[r] = "idle" /\ req[r] = NoReq
  <2> SUFFICES ASSUME BusyPorts = {}, NEW r \in Requests
               PROVE  pc[r] = "idle" /\ req[r] = NoReq
    BY <1>1
  <2>1. pc[r] = "idle"
    BY ActiveHasPorts DEF PlaneInv, BusyPorts, Active
  <2> QED
    BY <2>1 DEF PlaneInv, Shape, ShapeOf, IsAddRule, IsDelRule, IsModify, IsAddChain, IsDelChain
<1>6. CASE blame \subseteq blame'
  <2>1. Lone' /\ ChainSnap' /\ Down'
    BY <1>1, <1>6 DEF PlaneInv, Lone, ChainSnap, Down
  <2>2. Snap'
    BY <1>1, <1>6 DEF PlaneInv, Snap, Held
  <2>3. ASSUME NEW s \in Requests PROVE LastChain(s)'
    BY <1>1, <1>6 DEF PlaneInv, LastChain, ChainAt
  <2> QED
    BY <1>1, <1>3, <1>4, <2>1, <2>2, <2>3 DEF PlaneInv, Cfg, Served, TypeOK
<1>7. CASE \A r \in Requests : pc[r] = "idle" /\ req[r] = NoReq
  <2>0. \A r \in Requests : /\ req'[r] = NoReq /\ req'[r].op = "none"
                             /\ ReqPorts(req'[r]) = {} /\ RuleKeys(req'[r]) = {}
    <3>1. NoReq.op = "none"
      BY DEF NoReq
    <3> QED
      BY <1>1, <1>7, <3>1, NoReqTypes
  <2>1. Lone' /\ ChainSnap' /\ Down'
    BY <2>0 DEF Lone, ChainSnap, Down
  <2>2. Snap'
    BY <1>1, <1>7, NoReqTypes DEF Snap, Held
  <2>3. ASSUME NEW s \in Requests PROVE LastChain(s)'
    BY <1>1, <1>7 DEF LastChain
  <2> QED
    BY <1>1, <1>3, <1>4, <2>1, <2>2, <2>3 DEF PlaneInv, Cfg, Served, TypeOK
<1> QED
  BY <1>5, <1>6, <1>7

(* The invariants about requests, when only the agent moves.               *)
LEMMA AgentMoves ==
  ASSUME PlaneInv, UNCHANGED <<dbVars, pc, req, blame>>
  PROVE  /\ Shape' /\ Distinct' /\ Lone' /\ Snap' /\ ChainSnap'
         /\ \A s \in Requests : LastChain(s)'
<1> USE DEF dbVars
<1>1. Shape' /\ Distinct'
  BY DEF PlaneInv, Shape, ShapeOf, IsAddRule, IsDelRule, IsModify, IsAddChain, IsDelChain,
     Distinct
<1>2. Lone' /\ ChainSnap'
  BY DEF PlaneInv, Lone, ChainSnap
<1>3. Snap'
  BY DEF PlaneInv, Snap, Held
<1>4. \A s \in Requests : LastChain(s)'
  BY DEF PlaneInv, LastChain, ChainAt
<1> QED
  BY <1>1, <1>2, <1>3, <1>4

(* It downloads the chains.                                                *)
LEMMA RegisterChainsInv ==
  ASSUME PlaneInv, RegisterChains
  PROVE  PlaneInv'
<1> USE DEF dbVars, agentVars, histVars
<1>1. /\ agent = "registering" /\ agent' = "booting"
      /\ UNCHANGED <<dbVars, serve, crashes, pc, req, histVars>>
      /\ cfg' = [cfg EXCEPT !.chains = { chains[id].port : id \in Rows(chains) }]
  BY DEF RegisterChains
<1>2. { chains[id].port : id \in Rows(chains) } \subseteq Ports
  BY DEF PlaneInv, TypeOK, Rows, ChainRows
<1>3. TypeOK'
  BY <1>1, <1>2 DEF PlaneInv, TypeOK
<1>4. /\ cfg'.rules = cfg.rules
      /\ cfg'.chains = { chains[id].port : id \in Rows(chains) }
  BY <1>1 DEF PlaneInv, TypeOK
<1>5. \A p \in Ports : p \in cfg'.chains <=> \E id \in ChainIds : ChainAt(id, p)
  BY <1>4 DEF Rows, ChainAt, PlaneInv, TypeOK
<1>6. Cfg'
  BY <1>1, <1>4, <1>5 DEF PlaneInv, Cfg, ChainAt
<1>7. Down' /\ Served'
  BY <1>1 DEF PlaneInv, Down, Served
<1> QED
  BY <1>1, <1>3, <1>6, <1>7, AgentMoves DEF PlaneInv

(* It panics on rows that share a port.                                    *)
LEMMA InitAgentPanicsInv ==
  ASSUME PlaneInv, InitAgentPanics
  PROVE  PlaneInv'
<1> USE DEF dbVars, agentVars, histVars
<1>1. /\ agent = "booting" /\ agent' = "down" /\ cfg' = NoRows
      /\ UNCHANGED <<dbVars, serve, crashes, pc, req, histVars>>
  BY DEF InitAgentPanics
<1>2. TypeOK'
  BY <1>1, NoRowsTypes DEF PlaneInv, TypeOK
<1>3. Cfg' /\ Down' /\ Served'
  BY <1>1 DEF PlaneInv, Cfg, Down, Served
<1> QED
  BY <1>1, <1>2, <1>3, AgentMoves DEF PlaneInv

(* The agent opens what it downloaded: on a port that is not blamed that   *)
(* is what the tables hold.                                                *)
LEMMA InitAgentInv ==
  ASSUME PlaneInv, InitAgent
  PROVE  PlaneInv'
<1> USE DEF dbVars, agentVars, histVars
<1> DEFINE found(p) == CHOOSE i \in Rows(cfg.rules) : cfg.rules[i].port = p
<1>1. /\ agent = "booting" /\ agent' = "up" /\ cfg' = NoRows
      /\ UNCHANGED <<dbVars, crashes, pc, req, histVars>>
      /\ \A i, j \in Rows(cfg.rules) : i # j => cfg.rules[i].port # cfg.rules[j].port
      /\ \A i \in Rows(cfg.rules) : cfg.rules[i].port \notin cfg.chains
  BY DEF InitAgent, Opens
<1>2. serve' = [p \in Ports |->
                  IF p \in cfg.chains THEN ChainService
                  ELSE IF \E i \in Rows(cfg.rules) : cfg.rules[i].port = p
                       THEN RuleService(cfg.rules[found(p)])
                       ELSE None]
  BY DEF InitAgent
<1>3. /\ Rows(cfg.rules) = { i \in RuleIds : cfg.rules[i] # None }
      /\ \A i \in Rows(cfg.rules) : cfg.rules[i] \in RuleRows
  BY DEF PlaneInv, TypeOK, Rows
<1>4. \A p, i : i \in Rows(cfg.rules) /\ cfg.rules[i].port = p =>
                  found(p) \in Rows(cfg.rules) /\ cfg.rules[found(p)].port = p /\ found(p) = i
  BY <1>1
<1> HIDE DEF found
<1>5. \A p \in Ports : serve'[p] \in Services \cup {None}
  BY <1>2, <1>3, <1>4, NotNone
<1>6. TypeOK'
  <2>1. serve' \in [Ports -> Services \cup {None}]
    BY <1>2, <1>5
  <2> QED
    BY <1>1, <2>1, NoRowsTypes DEF PlaneInv, TypeOK
<1>7. ASSUME NEW p \in Ports \ blame PROVE PortOK(p)'
  <2>1. \A r \in Requests : p \notin Touched(r)'
    <3>1. \A r \in Requests : Touched(r)' = Touched(r)
      BY <1>1 DEF Touched, PortsNow, Modifies
    <3>2. \A r \in Requests : p \notin Touched(r)
      BY <1>1, TouchedTypes DEF PlaneInv, Down
    <3> QED
      BY <3>1, <3>2
  <2>2. \A i \in RuleIds : RuleAt(i, p) => /\ i \in Rows(cfg.rules) /\ cfg.rules[i] = rules[i]
                                           /\ cfg.rules[i].port = p
    BY <1>1, <1>3 DEF PlaneInv, Cfg, RuleAt
  <2>3. \A i \in Rows(cfg.rules) : cfg.rules[i].port = p => RuleAt(i, p)
    BY <1>1, <1>3 DEF PlaneInv, Cfg, RuleAt
  <2>4. p \in cfg.chains <=> \E c \in ChainIds : ChainAt(c, p)
    BY <1>1 DEF PlaneInv, Cfg
  <2>5. Single(p)
    BY <1>1, <2>2, <2>4 DEF Single
  <2>6. ASSUME NEW i \in RuleIds, RuleAt(i, p)
        PROVE  serve'[p] # None /\ serve'[p] = RuleService(rules[i])
    <3>1. p \notin cfg.chains /\ found(p) = i
      BY <1>1, <1>4, <2>2, <2>6
    <3>2. serve'[p] = RuleService(rules[i])
      BY <1>2, <2>2, <2>6, <3>1
    <3>3. rules[i] \in RuleRows
      BY <1>3, <2>2, <2>6
    <3> QED
      BY <3>2, <3>3, NotNone
  <2>7. \A c \in ChainIds : ChainAt(c, p) => serve'[p] = ChainService
    BY <1>2, <2>4
  <2>8. ASSUME serve'[p] # None PROVE ~Bare(p)
    BY <1>2, <1>3, <2>3, <2>4, <2>8 DEF Bare
  <2>9. /\ \A i \in RuleIds : RuleAt(i, p)' <=> RuleAt(i, p)
        /\ \A c \in ChainIds : ChainAt(c, p)' <=> ChainAt(c, p)
        /\ rules' = rules
    BY <1>1 DEF RuleAt, ChainAt
  <2>10. Single(p)'
    BY <2>5, <2>9 DEF Single
  <2>11. Bare(p)' <=> Bare(p)
    BY <2>9 DEF Bare
  <2>12. Agree(p)'
    BY <2>6, <2>7, <2>8, <2>9, <2>11 DEF Agree
  <2> QED
    BY <2>1, <2>10, <2>12 DEF PortOK
<1>8. Served' /\ Down' /\ Cfg'
  BY <1>1, <1>7 DEF Served, Down, Cfg
<1> QED
  BY <1>1, <1>6, <1>8, AgentMoves DEF PlaneInv

(* Deleting a node only frees the agent of promises.                       *)
LEMMA DelNodeInv ==
  ASSUME PlaneInv, DelNode
  PROVE  PlaneInv'
<1> USE DEF dbVars, agentVars, histVars
<1>1. node' = FALSE /\ UNCHANGED <<rules, chains, mapping, agentVars, pc, req, histVars>>
  BY DEF DelNode
<1>2. TypeOK' /\ Distinct' /\ Lone' /\ ChainSnap' /\ Down'
  BY <1>1 DEF PlaneInv, TypeOK, Distinct, Lone, ChainSnap, Down
<1>3. Shape'
  BY <1>1 DEF PlaneInv, Shape, ShapeOf, IsAddRule, IsDelRule, IsModify, IsAddChain, IsDelChain
<1>4. Snap'
  BY <1>1 DEF PlaneInv, Snap, Held
<1>5. Cfg'
  BY <1>1 DEF PlaneInv, Cfg, ChainAt
<1>6. \A s \in Requests : LastChain(s)'
  BY <1>1 DEF PlaneInv, LastChain, ChainAt
<1>7. ASSUME NEW p \in Ports, PortOK(p) PROVE PortOK(p)'
  <2>1. /\ \A i \in RuleIds : RuleAt(i, p)' <=> RuleAt(i, p)
        /\ \A c \in ChainIds : ChainAt(c, p)' <=> ChainAt(c, p)
    BY <1>1 DEF RuleAt, ChainAt
  <2>2. Single(p)'
    BY <1>7, <2>1 DEF PortOK, Single
  <2>3. \A r \in Requests : Touched(r)' = Touched(r)
    BY <1>1 DEF Touched, PortsNow, Modifies
  <2>4. Agree(p) => Agree(p)'
    BY <1>1, <2>1 DEF Agree
  <2>5. Bare(p)' <=> Bare(p)
    BY <2>1 DEF Bare
  <2>6. ASSUME NEW r \in Requests, Stage(r, p) PROVE Stage(r, p)'
    BY <1>1, <2>1, <2>5, <2>6 DEF Stage, AddedPort, Merge, RuleService, ChainService
  <2> QED
    BY <1>7, <2>2, <2>3, <2>4, <2>6 DEF PortOK
<1>8. Served'
  BY <1>1, <1>7 DEF PlaneInv, Served
<1> QED
  BY <1>2, <1>3, <1>4, <1>5, <1>6, <1>8 DEF PlaneInv

-----------------------------------------------------------------------------
(* The invariant holds                                                     *)

(* Any step of a request keeps the invariant.                              *)
LEMMA StepInv ==
  ASSUME PlaneInv, NEW r \in Requests, Step(r)
  PROVE  PlaneInv'
<1>1. /\ TypeOK /\ Shape /\ Distinct /\ Lone /\ Snap /\ ChainSnap /\ Down /\ Cfg /\ Served
      /\ \A s \in Requests : LastChain(s)
  BY DEF PlaneInv
<1>2. TypeOK' /\ Shape' /\ Distinct'
  BY <1>1, StepTypes, StepShape, StepDistinct
<1>3. Lone' /\ Down'
  BY <1>1, StepFrame, StepLone
<1>4. Snap' /\ ChainSnap' /\ Cfg'
  BY <1>1, StepSnap, StepChainSnap, StepCfg
<1>5. Served'
  BY <1>1, StepServed
<1>6. \A s \in Requests : LastChain(s)'
  BY <1>1, StepLastChain
<1> QED
  BY <1>2, <1>3, <1>4, <1>5, <1>6 DEF PlaneInv

(* The invariant holds initially.                                          *)
LEMMA InitInv ==
  ASSUME Init
  PROVE  PlaneInv
<1>1. /\ TypeOK /\ \A r \in Requests : req[r] = NoReq /\ pc[r] = "idle"
  <2>1. 0 \in 0..MaxCrashes
    BY ConstantsAssumption
  <2> QED
    BY <2>1, NoReqTypes, NoRowsTypes DEF Init, TypeOK
<1>2. Shape /\ Distinct /\ ChainSnap
  <2>1. NoReq.op = "none" /\ NoReq.todo = {}
    BY DEF NoReq
  <2> QED
    BY <1>1, <2>1 DEF Shape, ShapeOf, Distinct, ChainSnap
<1>3. Lone /\ Down /\ Snap
  BY <1>1, NoReqTypes DEF Lone, Down, Snap
<1>4. Cfg /\ Served /\ \A r \in Requests : LastChain(r)
  BY <1>1 DEF Init, Cfg, Served, LastChain
<1> QED
  BY <1>1, <1>2, <1>3, <1>4 DEF PlaneInv

(* A step that changes nothing keeps it.                                   *)
LEMMA StutterInv ==
  ASSUME PlaneInv, UNCHANGED vars
  PROVE  PlaneInv'
<1> USE DEF vars, dbVars, agentVars, histVars
<1>1. TypeOK' /\ Cfg' /\ Down'
  BY DEF PlaneInv, TypeOK, Cfg, ChainAt, Down
<1>2. ASSUME NEW p \in Ports, PortOK(p) PROVE PortOK(p)'
  <2>1. SamePort(p)
    BY DEF SamePort, RuleAt, ChainAt
  <2> QED
    BY <1>2, <2>1, SamePortAgrees, SamePortStage DEF PortOK
<1>3. Served'
  BY <1>2 DEF PlaneInv, Served
<1> QED
  BY <1>1, <1>3, AgentMoves DEF PlaneInv

(* The rows, the requests and the agent keep the shape PlaneInv describes. *)
THEOREM Sound == Spec => []PlaneInv
<1>1. Init => PlaneInv
  BY InitInv
<1>2. PlaneInv /\ [Next]_vars => PlaneInv'
  <2> SUFFICES ASSUME PlaneInv, [Next]_vars PROVE PlaneInv'
    OBVIOUS
  <2> QED
    BY CallInv, StepInv, DelNodeInv, CrashInv, RegisterRulesInv, RegisterChainsInv,
       InitAgentInv,
       InitAgentPanicsInv, StutterInv DEF Next, Boot
<1> QED
  BY <1>1, <1>2, PTL DEF Spec

(* Every variable keeps its type.                                          *)
THEOREM TypeCorrect == Spec => []TypeOK
BY Sound, PTL DEF PlaneInv

-----------------------------------------------------------------------------
(* What it says of a quiet port *)

(* A quiet, unblamed port has at most one rule, or chains, and agrees.     *)
LEMMA QuietAgrees ==
  ASSUME PlaneInv, NEW p \in Ports, agent = "up", p \notin blame
  PROVE  /\ \A i, j \in RulesOn(p) : i = j
         /\ RulesOn(p) = {} \/ ChainsOn(p) = {}
         /\ Quiet(p) => /\ \A i \in RulesOn(p) : serve[p] # None
                                   /\ (p \notin unchained => serve[p] = RuleService(rules[i]))
                        /\ ChainsOn(p) # {} => serve[p] = ChainService
                        /\ serve[p] # None => RulesOn(p) \cup ChainsOn(p) # {}
<1>1. /\ \A i : i \in RulesOn(p) <=> i \in RuleIds /\ RuleAt(i, p)
      /\ \A c : c \in ChainsOn(p) <=> c \in ChainIds /\ ChainAt(c, p)
  BY DEF PlaneInv, TypeOK, RulesOn, ChainsOn, Rows, RuleAt, ChainAt
<1>2. PortOK(p)
  BY DEF PlaneInv, Served
<1>3. /\ \A i, j \in RulesOn(p) : i = j
      /\ RulesOn(p) = {} \/ ChainsOn(p) = {}
  BY <1>1, <1>2 DEF PortOK, Single
<1>4. Quiet(p) => node /\ Agree(p)
  <2> SUFFICES ASSUME Quiet(p), NEW r \in Requests, p \in Touched(r) PROVE FALSE
    BY <1>2 DEF PortOK, Quiet
  <2>1. p \in ReqPorts(req[r])
    BY TouchedTypes DEF PlaneInv
  <2>2. Active(r)
    BY DEF Touched, Active
  <2> QED
    BY <2>1, <2>2 DEF Quiet, BusyPorts
<1> QED
  BY <1>1, <1>3, <1>4 DEF Agree, Bare

(* A listener has a row, after requests that did not contend for the port  *)
(* or its rows, lose an answer or straddle a restart: addRule, delRule,    *)
(* modifyRule, addChain and delChain leave none behind.                    *)
THEOREM NoStray == Spec => []NoStrayListener
<1>1. PlaneInv => NoStrayListener
  BY QuietAgrees DEF NoStrayListener, Quiet
<1> QED
  BY <1>1, Sound, PTL

(* And a row has its listener, whatever the order of the requests.         *)
THEOREM RowsServed == Spec => []EveryRowServed
<1>1. PlaneInv => EveryRowServed
  <2> SUFFICES ASSUME PlaneInv, NEW p \in Ports, Quiet(p), p \notin blame,
                      RulesOn(p) \cup ChainsOn(p) # {}
               PROVE  serve[p] # None
    BY DEF EveryRowServed
  <2> QED
    BY QuietAgrees, NotNone DEF Quiet
<1> QED
  BY <1>1, Sound, PTL

(* Which serves what the row says, but for the rules modifyRules stripped  *)
(* of their chain.                                                         *)
THEOREM Recorded == Spec => []ServedAsRecorded
<1>1. PlaneInv => ServedAsRecorded
  BY QuietAgrees DEF ServedAsRecorded, Quiet
<1> QED
  BY <1>1, Sound, PTL

(* The agent's bind keeps rows from sharing a port of a running agent.     *)
THEOREM Unshared == Spec => []SharedOnlyByFault
<1>1. PlaneInv => SharedOnlyByFault
  <2> SUFFICES ASSUME PlaneInv, NEW p \in Ports, agent = "up", p \notin blame
               PROVE  /\ Cardinality(RulesOn(p)) <= 1
                      /\ RulesOn(p) = {} \/ ChainsOn(p) = {}
    BY DEF SharedOnlyByFault
  <2>1. /\ \A i, j \in RulesOn(p) : i = j
        /\ RulesOn(p) = {} \/ ChainsOn(p) = {}
    BY QuietAgrees
  <2>2. CASE RulesOn(p) = {}
    BY <2>1, <2>2, FS_EmptySet
  <2>3. CASE RulesOn(p) # {}
    <3>1. PICK i : RulesOn(p) = {i}
      BY <2>1, <2>3
    <3>2. Cardinality({i}) = 1
      BY FS_Singleton
    <3> QED
      BY <2>1, <3>1, <3>2
  <2> QED
    BY <2>2, <2>3
<1> QED
  BY <1>1, Sound, PTL
=============================================================================
