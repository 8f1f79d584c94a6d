---------------------------- MODULE ControlPlane ----------------------------
(***************************************************************************)
(* The controller's rule and chain handlers, the rows they keep in the     *)
(* database, and the agent of one node, which they drive by requests that  *)
(* may be refused or whose answer may be lost.                             *)
(*                                                                         *)
(* Every handler reads the database, calls the agent, and then writes the  *)
(* database; there is no transaction and no lock, so each of these is a    *)
(* step, and requests interleave between them.  An agent request takes     *)
(* effect in one step (AgentPorts is the detail of that step); ModifyRule  *)
(* is a delete and an add on the agent too.  Everything a handler touches  *)
(* is keyed by the node, so one node is enough.                            *)
(*                                                                         *)
(* The agent registers when it starts: it downloads the node's rows and    *)
(* opens their ports (InitAgent) before its HTTP server listens.           *)
(***************************************************************************)
EXTENDS Naturals, FiniteSets

CONSTANTS
    Requests,    \* request goroutines of the controller
    Ports,       \* listen ports of the node
    Vias,        \* how a rule forwards: directly, or through a chain address
    Direct,      \* the member of Vias without a chain address
    Dsts,        \* remote addresses
    Ips,         \* addresses of the node a chain may be given (IPv4, IPv6)
    RuleIds, ChainIds,  \* primary keys
    None,
    Ops,         \* the operations that are called
    Lossy,       \* TRUE: answers of the agent and database writes may fail
    MaxCrashes   \* bound on the crashes of the agent

VARIABLES
    node,      \* does the node's row exist?
    rules,     \* table rules: primary key -> row
    chains,    \* table chains: primary key -> row
    mapping,   \* table user_role_chain_mappings: chains some user owns
    agent,     \* the agent process
    serve,     \* what listens on each port of the agent
    cfg,       \* the rows the agent downloaded when it registered
    pc, req,   \* the next step of each request, and its local variables
    crashes,   \* crashes of the agent so far
    blame,     \* history: ports on which an agreement may have been broken
    unchained  \* history: ports of chained rules that modifyRules re-created

dbVars    == <<node, rules, chains, mapping>>
agentVars == <<agent, serve, cfg, crashes>>
histVars  == <<blame, unchained>>
vars      == <<dbVars, agentVars, pc, req, histVars>>

-----------------------------------------------------------------------------
(* Rows, services and requests *)

RuleRows  == [port : Ports, via : Vias, dst : Dsts]
ChainRows == [port : Ports, ip : Ips]
Services  == [kind : {"rule"}, via : Vias, dst : Dsts] \cup [kind : {"chain"}]

(* The fields a request sets; None leaves a column as it is.               *)
Sets == [port : Ports \cup {None}, via : Vias \cup {None}, dst : Dsts \cup {None}]

(* No row is None, and the database holds finitely many.                   *)
ASSUME ConstantsAssumption ==
    /\ Direct \in Vias
    /\ None \notin Ports \cup Vias \cup Dsts \cup Ips \cup RuleIds \cup ChainIds
    /\ None \notin RuleRows \cup ChainRows \cup Services
    /\ IsFiniteSet(ChainIds)
    /\ Ops \subseteq {"addRule", "delRule", "modifyRule", "modifyRules",
                      "addChain", "delChain", "delNode"}
    /\ Lossy \in BOOLEAN
    /\ MaxCrashes \in Nat

NoSet == [port |-> None, via |-> None, dst |-> None]

NoReq == [op |-> "none", id |-> None, row |-> None, set |-> NoSet, ip |-> None,
          admin |-> FALSE, seen |-> FALSE, todo |-> {}]

Rows(table) == { id \in DOMAIN table : table[id] # None }

RulesOn(p)  == { id \in Rows(rules) : rules[id].port = p }
ChainsOn(p) == { id \in Rows(chains) : chains[id].port = p }

Merge(row, set) ==
    [port |-> IF set.port = None THEN row.port ELSE set.port,
     via  |-> IF set.via = None THEN row.via ELSE set.via,
     dst  |-> IF set.dst = None THEN row.dst ELSE set.dst]

RuleService(row) == [kind |-> "rule", via |-> row.via, dst |-> row.dst]
ChainService == [kind |-> "chain"]

Active(r) == pc[r] # "idle"

(* The ports a request deletes or adds now, and all that it will touch.    *)
PortsNow(q) == ({q.set.port} \cup (IF q.row = None THEN {} ELSE {q.row.port})) \ {None}

ReqPorts(q) == PortsNow(q) \cup { j.row.port : j \in q.todo }

BusyPorts == UNION { ReqPorts(req[r]) : r \in { x \in Requests : Active(x) } }

(* The rows of rules a request has read and will write: their keys.        *)
RuleKeys(q) ==
    IF q.op \in {"delRule", "modifyRule", "modifyRules"}
    THEN {q.id} \cup { j.id : j \in q.todo } ELSE {}

(* The ports of q and of the active requests that share a port or a rule   *)
(* with it, if there are such requests.                                    *)
Contended(q) ==
    LET rivals == { r \in Requests : /\ Active(r)
                                     /\ \/ ReqPorts(req[r]) \cap ReqPorts(q) # {}
                                        \/ RuleKeys(req[r]) \cap RuleKeys(q) # {} }
    IN  IF rivals = {} THEN {}
        ELSE ReqPorts(q) \cup UNION { ReqPorts(req[r]) : r \in rivals }

ReqTypes ==
    [op : {"none"} \cup Ops, id : RuleIds \cup ChainIds \cup {None},
     row : RuleRows \cup ChainRows \cup {None}, set : Sets, ip : Ips \cup {None},
     admin : BOOLEAN, seen : BOOLEAN,
     todo : SUBSET [id : RuleIds, row : RuleRows]]

TypeOK ==
    /\ node \in BOOLEAN
    /\ rules \in [RuleIds -> RuleRows \cup {None}]
    /\ chains \in [ChainIds -> ChainRows \cup {None}]
    /\ mapping \subseteq ChainIds
    /\ agent \in {"down", "registering", "booting", "up"}
    /\ serve \in [Ports -> Services \cup {None}]
    /\ cfg \in [rules : [RuleIds -> RuleRows \cup {None}], chains : SUBSET Ports]
    /\ pc \in [Requests -> {"idle", "readNode", "count", "agentDel", "agentAdd",
                            "write", "map", "unmap"}]
    /\ req \in [Requests -> ReqTypes]
    /\ crashes \in 0..MaxCrashes
    /\ blame \subseteq Ports
    /\ unchained \subseteq Ports

-----------------------------------------------------------------------------
(* Steps of a request *)

Goto(r, step) == pc' = [pc EXCEPT ![r] = step]

(* The handler returns, with or without an error.                          *)
Finish(r) ==
    /\ Goto(r, "idle")
    /\ req' = [req EXCEPT ![r] = NoReq]

(* The handler starts: it has read what q holds.  Its ports are blamed if  *)
(* another request contends for one, or if the agent is not there.         *)
Begin(r, q, step) ==
    /\ ~Active(r)
    /\ q.op \in Ops
    /\ Goto(r, step)
    /\ req' = [req EXCEPT ![r] = q]
    /\ blame' = blame \cup Contended(q) \cup (IF agent = "up" THEN {} ELSE ReqPorts(q))
    /\ UNCHANGED <<dbVars, agentVars, unchained>>

(* A step of a request goes wrong: an answer is lost, a write fails.       *)
Fault(r) ==
    /\ Lossy
    /\ Finish(r)
    /\ UNCHANGED unchained

(* Primary keys the model can still hand out (the database never runs out, *)
(* and never reuses one): a bound on the rows that exist at a time.        *)
FreeRuleIds  == { id \in RuleIds : rules[id] = None }
FreeChainIds == { id \in ChainIds \ mapping : chains[id] = None }

Adding(op) == Cardinality({ r \in Requests : req[r].op = op })

-----------------------------------------------------------------------------
(* The first reads of each handler *)

AddRule(r, set) ==
    /\ node
    /\ None \notin {set.port, set.via, set.dst}
    /\ Adding("addRule") < Cardinality(FreeRuleIds)
    /\ Begin(r, [NoReq EXCEPT !.op = "addRule", !.set = set], "agentAdd")

DelRule(r, id) ==
    /\ rules[id] # None
    /\ Begin(r, [NoReq EXCEPT !.op = "delRule", !.id = id, !.row = rules[id]], "readNode")

(* Mutant: delRule forgets the agent.                                      *)
ReadNodeOnly(r) ==
    /\ pc[r] = "readNode"
    /\ Goto(r, "write")
    /\ UNCHANGED <<dbVars, agentVars, req, histVars>>

(* The row of the node is read after the rule's; without it only the rule's*)
(* row is deleted.                                                         *)
ReadNode(r) ==
    /\ pc[r] = "readNode"
    /\ Goto(r, IF node THEN "agentDel" ELSE "write")
    /\ UNCHANGED <<dbVars, agentVars, req, histVars>>

(* Only the columns that change are set; without a change the agent is not *)
(* called.                                                                 *)
ModifyRule(r, id, set) ==
    /\ node
    /\ rules[id] # None
    /\ set # NoSet
    /\ \A f \in {"port", "via", "dst"} : set[f] # rules[id][f]
    /\ set.via # Direct
    /\ Begin(r, [NoReq EXCEPT !.op = "modifyRule", !.id = id, !.row = rules[id],
                              !.set = set], "agentDel")

(* ModifyRules walks over a snapshot of the rules it was given.  The       *)
(* request it sends to the agent never has a chain address.                *)
ModifyRules(r, ids, dst) ==
    /\ node
    /\ ids \cap Rows(rules) # {}
    /\ \E first \in ids \cap Rows(rules) :
         Begin(r, [NoReq EXCEPT !.op = "modifyRules", !.id = first, !.row = rules[first],
                   !.set = [NoSet EXCEPT !.dst = dst],
                   !.todo = { [id |-> i, row |-> rules[i]] :
                              i \in (ids \cap Rows(rules)) \ {first} }], "agentDel")

(* addChain refuses an address that has a chain on the port already        *)
(* ("chain port exist").                                                   *)
AddChain(r, p, ip) ==
    /\ node
    /\ ~\E id \in Rows(chains) : chains[id] = [port |-> p, ip |-> ip]
    /\ Adding("addChain") < Cardinality(FreeChainIds)
    /\ Begin(r, [NoReq EXCEPT !.op = "addChain", !.set.port = p, !.ip = ip], "count")

(* A chain is deleted by the administrator, whose query preloads the node, *)
(* or by a user with a mapping to it.                                      *)
DelChain(r, id, admin) ==
    /\ chains[id] # None
    /\ admin \/ id \in mapping
    /\ Begin(r, [NoReq EXCEPT !.op = "delChain", !.id = id, !.row = chains[id],
                              !.admin = admin, !.seen = node], "count")

(* How many chains (of the IPv4 and the IPv6 address) share the port       *)
(* decides whether the agent is called.                                    *)
CountForAdd(r) ==
    /\ pc[r] = "count" /\ req[r].op = "addChain"
    /\ Goto(r, IF ChainsOn(req[r].set.port) = {} THEN "agentAdd" ELSE "write")
    /\ UNCHANGED <<dbVars, agentVars, req, histVars>>

(* Mutant: every delete of a chain closes its port.                        *)
DelWithoutCount(r) ==
    /\ pc[r] = "count" /\ req[r].op = "delChain"
    /\ req[r].seen
    /\ Goto(r, "agentDel")
    /\ UNCHANGED <<dbVars, agentVars, req, histVars>>

CountForDel(r) ==
    LET last == Cardinality(ChainsOn(req[r].row.port)) = 1 IN
    /\ pc[r] = "count" /\ req[r].op = "delChain"
    /\ \/ req[r].admin /\ Goto(r, IF last /\ req[r].seen THEN "agentDel" ELSE "write")
          /\ UNCHANGED req
       \/ ~req[r].admin /\ last /\ node /\ Goto(r, "agentDel") /\ UNCHANGED req
       \/ ~req[r].admin /\ ~(last /\ node) /\ Finish(r)   \* denied, or a nil node
    /\ UNCHANGED <<dbVars, agentVars, histVars>>

(* Deleting a node deletes its row; its rules, chains and agent stay.      *)
DelNode ==
    /\ "delNode" \in Ops
    /\ node
    /\ node' = FALSE
    /\ UNCHANGED <<rules, chains, mapping, agentVars, pc, req, histVars>>

-----------------------------------------------------------------------------
(* Calling the agent *)

Modifies(q) == q.op \in {"modifyRule", "modifyRules"}

(* DelPort answers the same whether something listened or not.  A modify   *)
(* request goes on inside the agent.                                       *)
AgentDel(r) ==
    /\ pc[r] = "agentDel"
    /\ agent = "up"
    /\ serve' = [serve EXCEPT ![req[r].row.port] = None]
    /\ \/ Goto(r, IF Modifies(req[r]) THEN "agentAdd" ELSE "write")
          /\ UNCHANGED <<req, histVars>>
       \/ Fault(r) /\ blame' = blame \cup PortsNow(req[r])
    /\ UNCHANGED <<dbVars, agent, cfg, crashes>>

(* The request did not reach the agent's handler.                          *)
AgentUnreached(r) ==
    /\ pc[r] \in {"agentDel", "agentAdd"}
    /\ agent = "up"
    /\ ~(pc[r] = "agentAdd" /\ Modifies(req[r]))
    /\ Fault(r)
    /\ blame' = blame \cup PortsNow(req[r])
    /\ UNCHANGED <<dbVars, agentVars>>

(* "connection refused" is an error to every handler but delRule.          *)
AgentRefused(r) ==
    /\ pc[r] \in {"agentDel", "agentAdd"}
    /\ agent # "up"
    /\ \/ req[r].op = "delRule" /\ Goto(r, "write") /\ UNCHANGED req
       \/ req[r].op # "delRule" /\ Finish(r)
    /\ UNCHANGED <<dbVars, agentVars, histVars>>

(* Mutant: modifyRule opens the port only the direct way.                  *)
DirectService(q) ==
    IF q.op = "addChain" THEN ChainService
    ELSE [RuleService(IF q.op = "addRule" THEN q.set ELSE Merge(q.row, q.set))
            EXCEPT !.via = Direct]

(* The port and the service the agent is asked to open.                    *)
AddedPort(q) == IF q.set.port = None THEN q.row.port ELSE q.set.port

AddedService(q) ==
    CASE q.op = "addRule"     -> RuleService(q.set)
      [] q.op = "modifyRule"  -> RuleService(Merge(q.row, q.set))
      [] q.op = "modifyRules" -> [RuleService(Merge(q.row, q.set)) EXCEPT !.via = Direct]
      [] q.op = "addChain"    -> ChainService

AgentAdd(r) ==
    LET q == req[r]
        p == AddedPort(q)
    IN
    /\ pc[r] = "agentAdd"
    /\ agent = "up"
    /\ serve[p] = None
    /\ serve' = [serve EXCEPT ![p] = AddedService(q)]
    /\ \/ /\ Goto(r, "write")
          /\ unchained' = IF q.op = "modifyRules" /\ q.row.via # Direct
                          THEN unchained \cup {p} ELSE unchained
          /\ UNCHANGED <<req, blame>>
       \/ Fault(r) /\ blame' = blame \cup PortsNow(req[r])
    /\ UNCHANGED <<dbVars, agent, cfg, crashes>>

(* Mutant: the answer "in use" is taken for success.                       *)
InUseIgnored(r) ==
    /\ pc[r] = "agentAdd"
    /\ agent = "up"
    /\ serve[AddedPort(req[r])] # None
    /\ Goto(r, "write")
    /\ UNCHANGED <<dbVars, agentVars, req, histVars>>

(* The port is taken.  What a modify request deleted before stays deleted. *)
AgentInUse(r) ==
    LET q == req[r] IN
    /\ pc[r] = "agentAdd"
    /\ agent = "up"
    /\ serve[AddedPort(q)] # None
    /\ Finish(r)
    /\ blame' = blame \cup (IF Modifies(q) THEN {q.row.port} ELSE {})
    /\ UNCHANGED <<dbVars, agentVars, unchained>>

-----------------------------------------------------------------------------
(* Writing the database *)

Unheld(ids) == ids \ UNION { {req[r].id} \cup { j.id : j \in req[r].todo } : r \in Requests }

CreateRule(r) ==
    /\ pc[r] = "write" /\ req[r].op = "addRule"
    /\ \E id \in Unheld(FreeRuleIds) : rules' = [rules EXCEPT ![id] = req[r].set]
    /\ Finish(r)
    /\ UNCHANGED <<node, chains, mapping, agentVars, histVars>>

DeleteRule(r) ==
    /\ pc[r] = "write" /\ req[r].op = "delRule"
    /\ rules' = [rules EXCEPT ![req[r].id] = None]
    /\ Finish(r)
    /\ UNCHANGED <<node, chains, mapping, agentVars, histVars>>

(* The row may have been deleted meanwhile, and then nothing is updated.   *)
UpdateRule(r) ==
    LET q == req[r] IN
    /\ pc[r] = "write" /\ Modifies(q)
    /\ rules' = [rules EXCEPT ![q.id] = IF @ = None THEN None ELSE Merge(@, q.set)]
    /\ \/ /\ q.todo = {}
          /\ Finish(r)
       \/ \E next \in q.todo :
            /\ req' = [req EXCEPT ![r].id = next.id, ![r].row = next.row,
                                 ![r].todo = @ \ {next}]
            /\ Goto(r, "agentDel")
    /\ UNCHANGED <<node, chains, mapping, agentVars, histVars>>

CreateChain(r) ==
    /\ pc[r] = "write" /\ req[r].op = "addChain"
    /\ \E id \in Unheld(FreeChainIds) :
         chains' = [chains EXCEPT ![id] = [port |-> req[r].set.port, ip |-> req[r].ip]]
    /\ Goto(r, "map")
    /\ UNCHANGED <<node, rules, mapping, agentVars, req, histVars>>

(* The new row is looked up again to map it to the user; a nil row panics. *)
MapChain(r) ==
    /\ pc[r] = "map"
    /\ LET same == { id \in Rows(chains) :
                       chains[id] = [port |-> req[r].set.port, ip |-> req[r].ip] }
       IN  \/ same = {} /\ UNCHANGED mapping
           \/ \E id \in same : mapping' = mapping \cup {id}
    /\ Finish(r)
    /\ UNCHANGED <<node, rules, chains, agentVars, histVars>>

DeleteChain(r) ==
    /\ pc[r] = "write" /\ req[r].op = "delChain"
    /\ chains' = [chains EXCEPT ![req[r].id] = None]
    /\ Goto(r, "unmap")
    /\ UNCHANGED <<node, rules, mapping, agentVars, req, histVars>>

UnmapChain(r) ==
    /\ pc[r] = "unmap"
    /\ mapping' = mapping \ {req[r].id}
    /\ Finish(r)
    /\ UNCHANGED <<node, rules, chains, agentVars, histVars>>

WriteFails(r) ==
    /\ pc[r] \in {"write", "map", "unmap"}
    /\ Fault(r)
    /\ blame' = blame \cup PortsNow(req[r])
    /\ UNCHANGED <<dbVars, agentVars>>

-----------------------------------------------------------------------------
(* The agent *)

NoRows == [rules |-> [id \in RuleIds |-> None], chains |-> {}]

(* The process dies.  A modify request between its delete and its add dies *)
(* with it; the other requests learn of it at their next call.             *)
Crash ==
    /\ crashes < MaxCrashes
    /\ agent # "down"
    /\ crashes' = crashes + 1
    /\ agent' = "down"
    /\ serve' = [p \in Ports |-> None]
    /\ cfg' = NoRows
    /\ LET cut == { r \in Requests : pc[r] = "agentAdd" /\ Modifies(req[r]) }
       IN  /\ pc' = [r \in Requests |-> IF r \in cut THEN "idle" ELSE pc[r]]
           /\ req' = [r \in Requests |-> IF r \in cut THEN NoReq ELSE req[r]]
    /\ blame' = blame \cup BusyPorts
    /\ UNCHANGED <<dbVars, unchained>>

(* registerNode reads the node's rules, then its chains.  When no request  *)
(* is in progress, the rows are all that counts from here on.              *)
RegisterRules ==
    /\ agent = "down"
    /\ node
    /\ agent' = "registering"
    /\ cfg' = [cfg EXCEPT !.rules = rules]
    /\ blame' = IF BusyPorts = {} THEN {} ELSE blame \cup BusyPorts
    /\ unchained' = {}
    /\ UNCHANGED <<dbVars, serve, crashes, pc, req>>

RegisterChains ==
    /\ agent = "registering"
    /\ agent' = "booting"
    /\ cfg' = [cfg EXCEPT !.chains = { chains[id].port : id \in Rows(chains) }]
    /\ UNCHANGED <<dbVars, serve, crashes, pc, req, histVars>>

(* Mutant: closing a port that is not open is an error.                    *)
OpensWithoutChains(c) ==
    /\ \A i, j \in Rows(c.rules) : i # j => c.rules[i].port # c.rules[j].port
    /\ c.chains = {}

(* InitAgent opens the chains' ports (closing each first, because several  *)
(* chains may share one) and then the rules'.  AddRule on a port that is   *)
(* open is an error, and InitAgent panics on it.                           *)
Opens(c) ==
    /\ \A i, j \in Rows(c.rules) : i # j => c.rules[i].port # c.rules[j].port
    /\ \A i \in Rows(c.rules) : c.rules[i].port \notin c.chains

InitAgent ==
    /\ agent = "booting"
    /\ Opens(cfg)
    /\ agent' = "up"
    /\ serve' = [p \in Ports |->
                    IF p \in cfg.chains THEN ChainService
                    ELSE IF \E i \in Rows(cfg.rules) : cfg.rules[i].port = p
                         THEN RuleService(cfg.rules[CHOOSE i \in Rows(cfg.rules) :
                                                      cfg.rules[i].port = p])
                         ELSE None]
    /\ cfg' = NoRows
    /\ UNCHANGED <<dbVars, crashes, pc, req, histVars>>

InitAgentPanics ==
    /\ agent = "booting"
    /\ ~Opens(cfg)
    /\ agent' = "down"
    /\ cfg' = NoRows
    /\ UNCHANGED <<dbVars, serve, crashes, pc, req, histVars>>

-----------------------------------------------------------------------------
Init ==
    /\ node = TRUE
    /\ rules = [id \in RuleIds |-> None]
    /\ chains = [id \in ChainIds |-> None]
    /\ mapping = {}
    /\ agent = "down"
    /\ serve = [p \in Ports |-> None]
    /\ cfg = NoRows
    /\ pc = [r \in Requests |-> "idle"]
    /\ req = [r \in Requests |-> NoReq]
    /\ crashes = 0
    /\ blame = {}
    /\ unchained = {}

Call(r) ==
    \/ \E set \in Sets : AddRule(r, set)
    \/ \E id \in RuleIds : DelRule(r, id)
    \/ \E id \in RuleIds, set \in Sets : ModifyRule(r, id, set)
    \/ \E ids \in SUBSET RuleIds, dst \in Dsts \cup {None} : ModifyRules(r, ids, dst)
    \/ \E p \in Ports, ip \in Ips : AddChain(r, p, ip)
    \/ \E id \in ChainIds, admin \in BOOLEAN : DelChain(r, id, admin)

Step(r) ==
    \/ ReadNode(r) \/ CountForAdd(r) \/ CountForDel(r)
    \/ AgentDel(r) \/ AgentUnreached(r) \/ AgentRefused(r)
    \/ AgentAdd(r) \/ AgentInUse(r)
    \/ CreateRule(r) \/ DeleteRule(r) \/ UpdateRule(r)
    \/ CreateChain(r) \/ MapChain(r) \/ DeleteChain(r) \/ UnmapChain(r)
    \/ WriteFails(r)

Boot == RegisterRules \/ RegisterChains \/ InitAgent \/ InitAgentPanics

Next ==
    \/ \E r \in Requests : Call(r) \/ Step(r)
    \/ DelNode
    \/ Crash
    \/ Boot

Spec == Init /\ [][Next]_vars

(* The service manager restarts the agent (Restart=always in install.sh),  *)
(* and a started agent runs on.                                            *)
FairSpec == Spec /\ WF_vars(Boot)

-----------------------------------------------------------------------------
(* Properties *)

Quiet(p) == node /\ agent = "up" /\ p \notin BusyPorts

(* A port the agent serves has a row in the database that says so: after   *)
(* requests that did not overlap on the port, lose an answer or straddle a *)
(* restart of the agent.  A restart makes good what went wrong before it.  *)
NoStrayListener ==
    \A p \in Ports :
        Quiet(p) /\ p \notin blame /\ serve[p] # None => RulesOn(p) \cup ChainsOn(p) # {}

(* And the port of every row is served, the chain ports that several rows  *)
(* share until the last of them is deleted.                                *)
EveryRowServed ==
    \A p \in Ports :
        Quiet(p) /\ p \notin blame /\ RulesOn(p) \cup ChainsOn(p) # {} => serve[p] # None

(* It is served the way its row says.                                      *)
ServedAsRecorded ==
    \A p \in Ports :
        Quiet(p) /\ p \notin blame \cup unchained =>
            /\ \A id \in RulesOn(p) : serve[p] = RuleService(rules[id])
            /\ ChainsOn(p) # {} => serve[p] = ChainService

(* Two rules, or a rule and a chain, come to share a port of a running     *)
(* agent only when a request on it went wrong: the agent's bind is the     *)
(* only check there is.  Such rows keep the agent from starting.           *)
SharedOnlyByFault ==
    \A p \in Ports :
        agent = "up" /\ p \notin blame =>
            /\ Cardinality(RulesOn(p)) <= 1
            /\ RulesOn(p) = {} \/ ChainsOn(p) = {}

(* An agent starts again unless its rows share a port or its node was      *)
(* deleted.                                                                *)
Startable ==
    /\ node
    /\ \A p \in Ports : Cardinality(RulesOn(p)) <= 1 /\ (RulesOn(p) = {} \/ ChainsOn(p) = {})

RestartsUnlessShared == (<>[]Startable) => ([]<>(agent = "up"))

-----------------------------------------------------------------------------
(* What the code says of itself *)

(* addRule answers "the specified rule already exist" to a second rule on  *)
(* a port of the node.                                                     *)
RuleUnique == \A p \in Ports : Cardinality(RulesOn(p)) <= 1

(* "may ipv4 ipv6 all use one port, so only count == 1, delete port": the  *)
(* delete of the last chain on a port closes it.                           *)
LastChainClosesPort ==
    \A p \in Ports : Quiet(p) /\ ChainsOn(p) = {} => serve[p] # ChainService
=============================================================================
