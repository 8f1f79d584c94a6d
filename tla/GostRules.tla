----------------------------- MODULE GostRules -----------------------------
(***************************************************************************)
(* A node whose agent runs in gost mode, and the controller's handlers and *)
(* relay that drive it.  The agent keeps no listener for a rule: AddRule   *)
(* asks the gost process for a service tcp-<port> and a service            *)
(* udp-<port>, DelPort deletes them, each by requests of their own and     *)
(* without an undo; a TLS chain is one service, a TCP chain a listener of  *)
(* the agent as in native mode.  Gost refuses a name it has and one it     *)
(* lacks; it outlives the agent, and forgets all services when it stops.   *)
(*                                                                         *)
(* manager.Init is the relay of a controller that starts with EnableRelay: *)
(* a goroutine per chain, and when all have succeeded one per rule, sends  *)
(* the row to the agent; when the agent has the port already it asks it to *)
(* delete the port and sends the row again, until it is accepted.          *)
(*                                                                         *)
(* A call is a request of the controller with the agent's handler, which   *)
(* it waits for.  Each request to gost is a step, and each write of a row. *)
(* Reading the rows and starting the call is one step.  An agent that      *)
(* starts downloads the rules and then the chains, asks gost for them one  *)
(* by one, and serves requests only after that.  Rules and chains have     *)
(* their own ports here; ControlPlane has the conflicts of the two,        *)
(* several chains on a port, and permissions.                              *)
(***************************************************************************)
EXTENDS Naturals

CONSTANTS
    Requests,   \* request goroutines of the controller
    RuleIds,    \* primary keys; also the relay's goroutines for rules
    Ports,      \* listen ports of rules
    ChainPorts, \* ports of chains; also the relay's goroutines for chains
    Vias,       \* how a rule forwards: directly, or by a chain address
    Direct,
    TlsVias,    \* chains of protocol tls; gost mode ignores the others
    Dsts,       \* remote addresses
    None,
    Asked,      \* the rows that requests ask for
    Tables,     \* the initial values of rules
    Budgets     \* the initial values of left

Procs == Requests \cup RuleIds \cup ChainPorts

Rows       == [port : Ports, via : Vias, dst : Dsts]
Services   == [via : TlsVias \cup {Direct}, dst : Dsts]
Allowances == [ops : Nat, chains : Nat, faults : Nat, stops : Nat, relays : Nat]

ASSUME GostAssumption ==
    /\ Direct \in Vias
    /\ TlsVias \subseteq Vias \ {Direct}
    /\ None \notin Procs \cup Ports \cup Rows \cup Services
    /\ Requests \cap RuleIds = {} /\ Requests \cap ChainPorts = {} /\ RuleIds \cap ChainPorts = {}
    /\ Budgets \subseteq Allowances
    /\ Asked \subseteq Rows
    /\ Tables \subseteq [RuleIds -> Rows \cup {None}]
    /\ \A table \in Tables : \A i, j \in RuleIds :
        (i # j /\ table[i] # None /\ table[j] # None) => table[i].port # table[j].port

VARIABLES
    gost,       \* the gost process is up
    tcp, udp,   \* its services tcp-<port> and udp-<port>
    hops,       \* its chain objects
    tls,        \* its services chain-<port>
    native,     \* ports of TCP chains on which the agent listens
    agent,      \* the agent serves requests
    boot,       \* an agent that has registered and does not serve yet
    rules,      \* rows
    chains,     \* rows: the protocol of the chain on a port
    call,       \* what each goroutine is doing
    relay,      \* manager.Init
    left,       \* bounds: requests for rules and for chains, failing calls,
                \* stops of a process, relays
    \* history: ports ...
    broken,     \* ... with overlapping calls, or a call or a start of the
                \* agent that was cut short or is between its two services
    stale       \* ... whose row was left without services, or the reverse

gostVars  == <<gost, tcp, udp, hops, tls>>
agentVars == <<native, agent, boot>>
rowVars   == <<rules, chains>>
histVars  == <<broken, stale>>
vars      == <<gostVars, agentVars, rowVars, call, relay, left, histVars>>

-----------------------------------------------------------------------------
RuleOps  == {"addRule", "delRule", "modifyRule", "resendRule"}
ChainOps == {"addChain", "delChain", "resendChain"}

Calls ==
    [op    : RuleOps \cup ChainOps \cup {"none"},
     step  : {"hop", "tcp", "udp", "delTcp", "delUdp", "open", "shut", "write", "none"},
     id    : RuleIds \cup ChainPorts \cup {None},
     row   : Rows \cup {None},  \* the rule as it is to be ...
     old   : Rows \cup {None},  \* ... and as it was read
     typ   : {"tcp", "tls", "none"},    \* the protocol of a chain
     alone : BOOLEAN,           \* history: no other call has shared a port
     orphan : BOOLEAN]          \* the controller that waited is gone

NoCall == [op |-> "none", step |-> "none", id |-> None, row |-> None, old |-> None,
           typ |-> "none", alone |-> TRUE, orphan |-> FALSE]

(* RunAgent: what was downloaded and is still to be opened or added.       *)
Boots ==
    [step   : {"off", "register", "init", "open", "tcp", "udp"},
     at     : RuleIds \cup ChainPorts \cup {None},  \* the rule or chain it is at
     rules  : [RuleIds -> Rows \cup {None}],
     chains : [ChainPorts -> {"tcp", "tls", "none"}],
     whole  : BOOLEAN]  \* history: gost has not stopped since the rule's first request

NoBoot == [step |-> "off", at |-> None, rules |-> [id \in RuleIds |-> None],
           chains |-> [port \in ChainPorts |-> "none"], whole |-> FALSE]

TypeOK ==
    /\ gost \in BOOLEAN /\ agent \in BOOLEAN /\ boot \in Boots
    /\ tcp \in [Ports -> Services \cup {None}]
    /\ udp \in [Ports -> Services \cup {None}]
    /\ hops \subseteq TlsVias
    /\ tls \subseteq ChainPorts /\ native \subseteq ChainPorts
    /\ rules \in [RuleIds -> Rows \cup {None}]
    /\ chains \in [ChainPorts -> {"tcp", "tls", "none"}]
    /\ call \in [Procs -> Calls]
    /\ relay \in {"off", "chains", "rules"}
    /\ left \in Allowances
    /\ broken \subseteq Ports /\ stale \subseteq Ports

Spend(budget) == left[budget] > 0 /\ left' = [left EXCEPT ![budget] = @ - 1]

ServiceOf(row) == [via |-> IF row.via \in TlsVias THEN row.via ELSE Direct, dst |-> row.dst]

RulesOn(port) == {id \in RuleIds : rules[id] # None /\ rules[id].port = port}

Active(p) == call[p].op # "none"

(* The rule ports a call is about.                                         *)
PortsOf(c) == {row.port : row \in {c.row, c.old} \ {None}}

Quiet(port) == \A p \in Procs : port \notin PortsOf(call[p])

(* The ports of the rules that InitAgent has still to add.                 *)
DuePorts == {row.port : row \in {boot.rules[id] : id \in RuleIds} \ {None}}

-----------------------------------------------------------------------------
(* Calls: how they begin, go on after a request to gost, and end           *)

(* Mutant: a chain object for no rule.                                     *)
AddingTcp(c) == [c EXCEPT !.step = "tcp"]

Adding(c)   == [c EXCEPT !.step = IF c.row.via \in TlsVias THEN "hop" ELSE "tcp"]
Deleting(c) == [c EXCEPT !.step = "delTcp"]

(* The calls of new begin at once; whoever shares a port is not alone.     *)
Begin(new) ==
    LET all   == [p \in Procs |-> IF p \in DOMAIN new THEN new[p] ELSE call[p]]
        Meets(p) == \E q \in Procs \ {p} :
                        /\ PortsOf(all[p]) \cap PortsOf(all[q]) # {}
                        /\ {p, q} \cap DOMAIN new # {}
        meeting == {p \in Procs : Meets(p)}
    IN  /\ call' = [p \in Procs |-> IF p \in meeting THEN [all[p] EXCEPT !.alone = FALSE]
                                    ELSE all[p]]
        /\ broken' = broken \cup UNION {PortsOf(all[p]) : p \in meeting}

BeginOne(r, c) == Begin([p \in {r} |-> c])

Goto(p, step) == call' = [call EXCEPT ![p].step = step]

End(p) == call' = [call EXCEPT ![p] = NoCall]

(* The handler has done what was asked: the row is written, or the relay's *)
(* goroutine ends.  A row that was sent undisturbed is served as it is.    *)
Accepted(p) ==
    LET c == call[p]
    IN  IF c.op = "resendRule"
        THEN /\ End(p)
             /\ IF c.alone /\ RulesOn(c.row.port) = {p} /\ ~c.orphan
                THEN broken' = broken \ {c.row.port} /\ stale' = stale \ {c.row.port}
                ELSE UNCHANGED histVars
        ELSE /\ IF c.orphan \/ c.op = "resendChain" THEN End(p) ELSE Goto(p, "write")
             /\ UNCHANGED histVars

(* A mutant: the relay sends again without deleting.                       *)
AfterErrorAgain(c, err) ==
    CASE c.op = "modifyRule" /\ c.step \in {"delTcp", "delUdp"} -> Adding(c)
      [] c.op = "delRule" /\ err = "refused" /\ ~c.orphan -> [c EXCEPT !.step = "write"]
      [] c.op = "resendRule" /\ ~c.orphan -> Adding(c)
      [] c.op = "resendChain" /\ ~c.orphan -> [c EXCEPT !.step = "open"]
      [] OTHER -> NoCall

(* What becomes of a call after an error.  ModifyRule on the agent only    *)
(* logs an error of its DelPort; delRule takes "connection refused", which *)
(* may be gost's, for a success; the relay deletes or tries again.         *)
AfterError(c, err) ==
    CASE c.op = "modifyRule" /\ c.step \in {"delTcp", "delUdp"} -> Adding(c)
      [] c.op = "delRule" /\ err = "refused" /\ ~c.orphan -> [c EXCEPT !.step = "write"]
      [] c.op = "resendRule" /\ ~c.orphan ->
            IF err = "exists" THEN Deleting(c) ELSE Adding(c)
      [] c.op = "resendChain" /\ ~c.orphan ->
            [c EXCEPT !.step = IF err = "exists" THEN "shut" ELSE "open"]
      [] OTHER -> NoCall

(* A refused modifyRule has deleted what its row still asks for.           *)
Failed(p, err) ==
    LET c == call[p]
    IN  /\ call' = [call EXCEPT ![p] = AfterError(c, err)]
        /\ stale' = IF c.op = "modifyRule" /\ c.step \notin {"delTcp", "delUdp"}
                    THEN stale \cup {c.old.port} ELSE stale
        /\ UNCHANGED broken

-----------------------------------------------------------------------------
(* Requests to gost, by the agent's handler of call p                      *)

Asks(p, step) == call[p].step = step /\ agent /\ gost

(* An equal chain object is no error.                                      *)
AddHop(p) ==
    /\ Asks(p, "hop")
    /\ hops' = hops \cup {call[p].row.via}
    /\ Goto(p, "tcp")
    /\ UNCHANGED <<gost, tcp, udp, tls, agentVars, rowVars, relay, left, histVars>>

AddTcp(p) ==
    LET row == call[p].row
    IN  /\ Asks(p, "tcp")
        /\ IF tcp[row.port] = None
           THEN /\ tcp' = [tcp EXCEPT ![row.port] = ServiceOf(row)]
                /\ Goto(p, "udp")
                /\ UNCHANGED histVars
           ELSE Failed(p, "exists") /\ UNCHANGED tcp
        /\ UNCHANGED <<gost, udp, hops, tls, agentVars, rowVars, relay, left>>

AddUdp(p) ==
    LET row == call[p].row
    IN  /\ Asks(p, "udp")
        /\ IF udp[row.port] = None
           THEN udp' = [udp EXCEPT ![row.port] = ServiceOf(row)] /\ Accepted(p)
           ELSE Failed(p, "exists") /\ UNCHANGED udp
        /\ UNCHANGED <<gost, tcp, hops, tls, agentVars, rowVars, relay, left>>

(* The port to delete: the row as it was read.                             *)
DelTcp(p) ==
    LET port == call[p].old.port
    IN  /\ Asks(p, "delTcp")
        /\ IF tcp[port] # None
           THEN /\ tcp' = [tcp EXCEPT ![port] = None]
                /\ Goto(p, "delUdp")
                /\ UNCHANGED histVars
           ELSE Failed(p, "notFound") /\ UNCHANGED tcp
        /\ UNCHANGED <<gost, udp, hops, tls, agentVars, rowVars, relay, left>>

(* A mutant: the UDP service is forgotten.                                 *)
DelUdpNot(p) ==
    /\ Asks(p, "delUdp")
    /\ IF call[p].op = "delRule" THEN Accepted(p)
       ELSE call' = [call EXCEPT ![p] = Adding(@)] /\ UNCHANGED histVars
    /\ UNCHANGED <<gostVars, agentVars, rowVars, relay, left>>

(* After it a modified or sent row is added.                               *)
DelUdp(p) ==
    LET port == call[p].old.port
    IN  /\ Asks(p, "delUdp")
        /\ IF udp[port] = None THEN Failed(p, "notFound") /\ UNCHANGED udp
           ELSE /\ udp' = [udp EXCEPT ![port] = None]
                /\ IF call[p].op = "delRule" THEN Accepted(p)
                   ELSE call' = [call EXCEPT ![p] = Adding(@)] /\ UNCHANGED histVars
        /\ UNCHANGED <<gost, tcp, hops, tls, agentVars, rowVars, relay, left>>

(* AddChain: a service of gost, or a listener that gost knows nothing of.  *)
OpenChain(p) ==
    LET c == call[p]
    IN  /\ c.step = "open" /\ agent
        /\ c.typ = "tls" => gost
        /\ IF c.id \in tls \cup native THEN Failed(p, "exists") /\ UNCHANGED <<tls, native>>
           ELSE /\ IF c.typ = "tls" THEN tls' = tls \cup {c.id} /\ UNCHANGED native
                   ELSE native' = native \cup {c.id} /\ UNCHANGED tls
                /\ Accepted(p)
        /\ UNCHANGED <<gost, tcp, udp, hops, agent, boot, rowVars, relay, left>>

(* DelPort of a chain asks gost, whatever the protocol of the chain.       *)
ShutChain(p) ==
    LET c == call[p]
    IN  /\ Asks(p, "shut")
        /\ IF c.id \notin tls THEN Failed(p, "notFound") /\ UNCHANGED tls
           ELSE /\ tls' = tls \ {c.id}
                /\ IF c.op = "resendChain" THEN Goto(p, "open") /\ UNCHANGED histVars ELSE Accepted(p)
        /\ UNCHANGED <<gost, tcp, udp, hops, agentVars, rowVars, relay, left>>

(* The agent does not answer, or gost does not answer the agent.           *)
Unreached(p) ==
    /\ call[p].step \notin {"none", "write"}
    /\ ~agent \/ (~gost /\ ~(call[p].step = "open" /\ call[p].typ = "tcp"))
    /\ Failed(p, "refused")
    /\ UNCHANGED <<gostVars, agentVars, rowVars, relay, left>>

(* Something else has the address, or gost's answer is lost after it has   *)
(* done what it was asked.                                                 *)
AddFails(p) ==
    LET c == call[p]
    IN  /\ c.step \in {"tcp", "udp"} /\ agent /\ gost /\ Spend("faults")
        /\ \/ call' = [call EXCEPT ![p] = AfterError(c, "exists")] /\ UNCHANGED <<tcp, udp>>
           \/ /\ call' = [call EXCEPT ![p] = AfterError(c, "lost")]
              /\ c.step = "tcp" /\ tcp[c.row.port] = None /\ UNCHANGED udp
              /\ tcp' = [tcp EXCEPT ![c.row.port] = ServiceOf(c.row)]
        /\ broken' = broken \cup PortsOf(c)
        /\ UNCHANGED <<gost, hops, tls, agentVars, rowVars, relay, stale>>

-----------------------------------------------------------------------------
(* The controller's requests                                               *)

New(op, id, row, old, typ) ==
    [NoCall EXCEPT !.op = op, !.id = id, !.row = row, !.old = old, !.typ = typ]

AddRule(r, row) ==
    /\ ~Active(r) /\ agent /\ Spend("ops")
    /\ \E id \in RuleIds : rules[id] = None
    /\ BeginOne(r, Adding(New("addRule", None, row, None, "none")))
    /\ UNCHANGED <<gostVars, agentVars, rowVars, relay, stale>>

(* An agent that does not serve refuses the connection, which delRule      *)
(* takes for a success: the row is to be deleted all the same.             *)
DelRule(r, id) ==
    /\ ~Active(r) /\ Spend("ops")
    /\ rules[id] # None
    /\ LET c == New("delRule", id, None, rules[id], "none")
       IN  IF agent THEN BeginOne(r, Deleting(c)) /\ UNCHANGED stale
           ELSE BeginOne(r, [c EXCEPT !.step = "write"]) /\ stale' = stale \cup {rules[id].port}
    /\ UNCHANGED <<gostVars, agentVars, rowVars, relay>>

(* A chain cannot be taken off a rule.                                     *)
ModifyRule(r, id, row) ==
    /\ ~Active(r) /\ agent /\ Spend("ops")
    /\ rules[id] \notin {None, row}
    /\ row.via = Direct => rules[id].via = Direct
    /\ BeginOne(r, Deleting(New("modifyRule", id, row, rules[id], "none")))
    /\ UNCHANGED <<gostVars, agentVars, rowVars, relay, stale>>

AddChain(r, port, typ) ==
    /\ ~Active(r) /\ agent /\ Spend("chains")
    /\ chains[port] = "none"
    /\ BeginOne(r, [New("addChain", port, None, None, typ) EXCEPT !.step = "open"])
    /\ UNCHANGED <<gostVars, agentVars, rowVars, relay, stale>>

DelChain(r, port) ==
    /\ ~Active(r) /\ agent /\ Spend("chains")
    /\ chains[port] # "none"
    /\ BeginOne(r, [New("delChain", port, None, None, chains[port]) EXCEPT !.step = "shut"])
    /\ UNCHANGED <<gostVars, agentVars, rowVars, relay, stale>>

(* What another call has meanwhile left of the row that c was read from:   *)
(* one that it moved to a port c knows nothing of; or none, so that the    *)
(* services c has asked for have no row.                                   *)
Left(c) == IF rules[c.id] = None THEN c.row ELSE rules[c.id]

(* The row is created, updated or deleted.                                 *)
Write(r) ==
    LET c == call[r]
    IN  /\ c.step = "write"
        /\ End(r)
        /\ \/ /\ c.op = "addRule"
              /\ \E id \in RuleIds : rules[id] = None /\ rules' = [rules EXCEPT ![id] = c.row]
              /\ UNCHANGED <<chains, stale>>
           \/ /\ c.op \in {"modifyRule", "delRule"}
              /\ rules' = [rules EXCEPT ![c.id] = IF @ = None THEN None ELSE c.row]
              /\ stale' = stale \cup {row.port : row \in {Left(c)} \ {None, c.old}}
              /\ UNCHANGED chains
           \/ /\ c.op \in {"addChain", "delChain"}
              /\ chains' = [chains EXCEPT ![c.id] = IF c.op = "addChain" THEN c.typ ELSE "none"]
              /\ UNCHANGED <<rules, stale>>
        /\ UNCHANGED <<gostVars, agentVars, relay, left, broken>>

WriteFails(r) ==
    /\ call[r].step = "write" /\ Spend("faults")
    /\ End(r)
    /\ stale' = stale \cup PortsOf(call[r])
    /\ UNCHANGED <<gostVars, agentVars, rowVars, relay, broken>>

-----------------------------------------------------------------------------
(* The relay: manager.Init                                                 *)

(* The controller starts; the agent goes on with what the old one asked.   *)
ControllerRestarts ==
    LET sent == [port \in {c \in ChainPorts : chains[c] # "none"} |->
                    [New("resendChain", port, None, None, chains[port]) EXCEPT !.step = "open"]]
    IN  /\ relay = "off" /\ Spend("relays")
        /\ relay' = "chains"
        /\ call' = [p \in Procs |->
                      CASE p \in DOMAIN sent -> sent[p]
                        [] call[p].step = "write" -> NoCall
                        [] OTHER -> [call[p] EXCEPT !.orphan = Active(p)]]
        /\ stale' = stale \cup UNION {PortsOf(call[p]) : p \in Requests}
        /\ UNCHANGED <<gostVars, agentVars, rowVars, broken>>

(* Every chain has been accepted: the rules are read and sent.             *)
RelayRules ==
    LET sent == [id \in {i \in RuleIds : rules[i] # None} |->
                    Adding(New("resendRule", id, rules[id], rules[id], "none"))]
    IN  /\ relay = "chains"
        /\ \A port \in ChainPorts : ~Active(port)
        /\ relay' = "rules"
        /\ Begin(sent)
        /\ UNCHANGED <<gostVars, agentVars, rowVars, left, stale>>

-----------------------------------------------------------------------------
(* Processes stop and start                                                *)

(* Calls the agent was handling end with an error.                         *)
AgentStops ==
    LET cut == {p \in Procs : Active(p) /\ call[p].step # "write"}
        hit == UNION {PortsOf(call[p]) : p \in cut}
    IN  /\ agent /\ Spend("stops")
        /\ agent' = FALSE /\ native' = {}
        /\ call' = [p \in Procs |->
                      CASE p \notin cut -> call[p]
                        [] p \in cut /\ call[p].op = "resendRule" /\ ~call[p].orphan -> Adding(call[p])
                        [] p \in cut /\ call[p].op = "resendChain" -> [call[p] EXCEPT !.step = "open"]
                        [] OTHER -> NoCall]
        /\ broken' = broken \cup hit
        /\ stale' = stale \cup UNION {PortsOf(call[p]) : p \in Procs}
        /\ UNCHANGED <<gostVars, boot, rowVars, relay>>

(* All services of gost are gone; those an agent is about to add are not   *)
(* what they will be.                                                      *)
GostStops ==
    LET busy == DuePorts \cup UNION {PortsOf(call[p]) : p \in Procs}
        used == {port \in Ports : RulesOn(port) # {}}
    IN  /\ gost /\ Spend("stops")
        /\ gost' = FALSE
        /\ tcp' = [port \in Ports |-> None] /\ udp' = [port \in Ports |-> None]
        /\ hops' = {} /\ tls' = {}
        /\ broken' = busy /\ stale' = busy \cup used
        /\ call' = [p \in Procs |-> [call[p] EXCEPT !.alone = call[p].row = None]]
        /\ boot' = [boot EXCEPT !.whole = FALSE]
        /\ UNCHANGED <<native, agent, rowVars, relay>>

GostStarts ==
    /\ ~gost /\ gost' = TRUE
    /\ UNCHANGED <<tcp, udp, hops, tls, agentVars, rowVars, call, relay, left, histVars>>

-----------------------------------------------------------------------------
(* The agent starts: RunAgent, which the service manager runs again when   *)
(* it has ended or panicked                                                *)

(* registerNode reads the rules of the node ...                            *)
RegisterRules ==
    /\ ~agent /\ boot.step = "off"
    /\ boot' = [boot EXCEPT !.step = "register", !.rules = rules]
    /\ UNCHANGED <<gostVars, native, agent, rowVars, call, relay, left, histVars>>

(* ... and then its chains.                                                *)
RegisterChains ==
    /\ boot.step = "register"
    /\ boot' = [boot EXCEPT !.step = "init", !.chains = chains]
    /\ UNCHANGED <<gostVars, native, agent, rowVars, call, relay, left, histVars>>

(* InitAgent deletes the port of a chain first, whatever comes of it ...   *)
InitShut(port) ==
    /\ boot.step = "init" /\ boot.chains[port] # "none"
    /\ tls' = tls \ {port}
    /\ boot' = [boot EXCEPT !.step = "open", !.at = port]
    /\ UNCHANGED <<gost, tcp, udp, hops, native, agent, rowVars, call, relay, left, histVars>>

(* ... and adds it.  A port that exists would be passed over.              *)
InitOpen(port) ==
    /\ boot.step = "open" /\ boot.at = port
    /\ \/ boot.chains[port] = "tcp" /\ native' = native \cup {port} /\ UNCHANGED tls
       \/ boot.chains[port] = "tls" /\ gost /\ tls' = tls \cup {port} /\ UNCHANGED native
    /\ boot' = [boot EXCEPT !.step = "init", !.at = None, !.chains[port] = "none"]
    /\ UNCHANGED <<gost, tcp, udp, hops, agent, rowVars, call, relay, left, histVars>>

(* With all chains added, InitAgent takes a rule.                          *)
RulesNext == boot.step = "init" /\ boot.chains = NoBoot.chains

(* AddRule of InitAgent asks gost for the chain object of a TLS rule, ...  *)
InitHop(id) ==
    LET row == boot.rules[id]
    IN  /\ RulesNext /\ gost
        /\ row # None /\ row.via \in TlsVias
        /\ hops' = hops \cup {row.via}
        /\ boot' = [boot EXCEPT !.step = "tcp", !.at = id, !.whole = TRUE]
        /\ UNCHANGED <<gost, tcp, udp, tls, native, agent, rowVars, call, relay, left, histVars>>

(* The rule is done, or one of its services exists: the next one is taken. *)
NextRule(id) == [boot EXCEPT !.step = "init", !.at = None, !.rules[id] = None]

(* ... then for its TCP service ...                                        *)
InitTcp(id) ==
    LET row   == boot.rules[id]
        first == RulesNext /\ row # None /\ row.via \notin TlsVias
    IN  /\ gost
        /\ first \/ (boot.step = "tcp" /\ boot.at = id)
        /\ IF tcp[row.port] = None
           THEN /\ tcp' = [tcp EXCEPT ![row.port] = ServiceOf(row)]
                /\ boot' = [boot EXCEPT !.step = "udp", !.at = id, !.whole = first \/ @]
                /\ broken' = broken \cup {row.port}
           ELSE boot' = NextRule(id) /\ UNCHANGED <<tcp, broken>>
        /\ UNCHANGED <<gost, udp, hops, tls, native, agent, rowVars, call, relay, left, stale>>

(* ... and its UDP service.  With both, the port is whole again, and with  *)
(* the row that was downloaded it serves what the table says.              *)
InitUdp(id) ==
    LET row   == boot.rules[id]
        whole == boot.whole /\ udp[row.port] = None /\ Quiet(row.port)
        kept  == whole /\ RulesOn(row.port) = {id} /\ rules[id] = row
    IN  /\ gost
        /\ boot.step = "udp" /\ boot.at = id
        /\ udp' = [udp EXCEPT ![row.port] = IF @ = None THEN ServiceOf(row) ELSE @]
        /\ boot' = NextRule(id)
        /\ broken' = IF whole THEN broken \ {row.port} ELSE broken
        /\ stale' = IF kept THEN stale \ {row.port} ELSE stale \cup {row.port}
        /\ UNCHANGED <<gost, tcp, hops, tls, native, agent, rowVars, call, relay, left>>

(* A request to gost is refused, or something else has the address.  (An   *)
(* answer that is lost is a panic before the next request.)                *)
InitAgentPanics ==
    LET asks == boot.step \in {"open", "tcp", "udp"} \/ (RulesNext /\ DuePorts # {})
        own  == boot.step = "open" /\ boot.chains[boot.at] = "tcp"
    IN  /\ asks
        /\ (~gost /\ ~own /\ UNCHANGED left) \/ Spend("faults")
        /\ boot' = NoBoot /\ native' = {}
        /\ UNCHANGED <<gostVars, agent, rowVars, call, relay, histVars>>

(* The agent is stopped before it serves.                                  *)
BootStops ==
    /\ boot.step # "off" /\ Spend("stops")
    /\ boot' = NoBoot /\ native' = {}
    /\ UNCHANGED <<gostVars, agent, rowVars, call, relay, histVars>>

(* server.InitAgent: InitAgent has returned, and the agent serves.         *)
AgentServes ==
    /\ RulesNext /\ DuePorts = {}
    /\ agent' = TRUE /\ boot' = NoBoot
    /\ UNCHANGED <<gostVars, native, rowVars, call, relay, left, histVars>>

-----------------------------------------------------------------------------
Init ==
    /\ gost = TRUE /\ agent = TRUE /\ boot = NoBoot
    /\ rules \in Tables
    /\ tcp = [port \in Ports |-> IF RulesOn(port) = {} THEN None
                               ELSE ServiceOf(rules[CHOOSE id \in RulesOn(port) : TRUE])]
    /\ udp = tcp
    /\ hops = {rules[id].via : id \in {i \in RuleIds : rules[i] # None}} \cap TlsVias
    /\ tls = {} /\ native = {}
    /\ chains = [port \in ChainPorts |-> "none"]
    /\ call = [p \in Procs |-> NoCall]
    /\ relay = "off"
    /\ left \in Budgets
    /\ broken = {} /\ stale = {}

(* The next step of a call that has begun.                                 *)
Step(p) ==
    \/ AddHop(p) \/ AddTcp(p) \/ AddUdp(p) \/ DelTcp(p) \/ DelUdp(p)
    \/ OpenChain(p) \/ ShutChain(p) \/ Unreached(p) \/ Write(p)

Request(r) ==
    \/ \E row \in Asked : AddRule(r, row) \/ \E id \in RuleIds : ModifyRule(r, id, row)
    \/ \E id \in RuleIds : DelRule(r, id)
    \/ \E port \in ChainPorts : DelChain(r, port) \/ \E typ \in {"tcp", "tls"} : AddChain(r, port, typ)

(* The next step of an agent that starts.                                  *)
StartAgent ==
    \/ RegisterRules \/ RegisterChains \/ AgentServes
    \/ \E port \in ChainPorts : InitShut(port) \/ InitOpen(port)
    \/ \E id \in RuleIds : InitHop(id) \/ InitTcp(id) \/ InitUdp(id)

Next ==
    \/ \E p \in Procs : Step(p) \/ AddFails(p) \/ WriteFails(p)
    \/ \E r \in Requests : Request(r)
    \/ ControllerRestarts \/ RelayRules
    \/ AgentStops \/ StartAgent \/ InitAgentPanics \/ BootStops
    \/ GostStops \/ GostStarts

Spec == Init /\ [][Next]_vars

(* Handlers and goroutines run, and the service manager restarts both      *)
(* processes.                                                              *)
Fairness ==
    /\ \A p \in Procs : WF_call(Step(p))
    /\ WF_relay(RelayRules) /\ WF_boot(StartAgent) /\ WF_gost(GostStarts)

FairSpec == Spec /\ Fairness

-----------------------------------------------------------------------------
(* Properties *)

(* A port has both of its services or neither, and both for one row, as    *)
(* soon as no call is at it, unless two calls overlapped on it or one, or  *)
(* a start of the agent, was cut short between its requests.  Nothing      *)
(* undoes the first half: without a row nothing deletes it, and the next   *)
(* start of the agent passes it over, because its first service exists.    *)
HalvesOnlyByFault ==
    \A port \in Ports : Quiet(port) /\ port \notin broken => tcp[port] = udp[port]

(* A port without a call serves its row, and nothing when it has none,     *)
(* except after an overlap or a fault, a refused modifyRule, a delete that *)
(* did not find the agent, a start of the agent that was cut short or that *)
(* added a row changed since it was read, or a stop of gost.  What the     *)
(* relay has sent undisturbed is right again, half a rule included; so is, *)
(* once a start of the agent has added both services, a port that had none *)
(* and whose row is as it was read.                                        *)
ServedAsRecorded ==
    \A port \in Ports : Quiet(port) /\ port \notin broken \cup stale =>
        IF RulesOn(port) = {} THEN tcp[port] = None /\ udp[port] = None
        ELSE \A id \in RulesOn(port) :
                /\ tcp[port] = ServiceOf(rules[id])
                /\ udp[port] = ServiceOf(rules[id])
                /\ tcp[port].via \in hops \cup {Direct}

(* The relay gets every row accepted, with one exception: a TCP chain on   *)
(* which the agent listens is in use when it is added, cannot be deleted   *)
(* through gost, and so keeps the relay from all rules, for ever.          *)
RelayEnds ==
    relay # "off" ~>
        \/ relay = "rules" /\ \A id \in RuleIds : ~Active(id)
        \/ \E port \in ChainPorts : port \in native /\ call[port].op = "resendChain"
=============================================================================
