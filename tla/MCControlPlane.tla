--------------------------- MODULE MCControlPlane ---------------------------
(* Small instances of ControlPlane. *)
EXTENDS ControlPlane, TLC

(* Every property quantifies over the request goroutines, the ports and    *)
(* the primary keys alike.                                                 *)
Symmetry == Permutations(Requests) \cup Permutations(Ports)
            \cup Permutations(RuleIds) \cup Permutations(ChainIds)

RuleOps  == {"addRule", "delRule", "modifyRule", "modifyRules"}
ChainOps == {"addChain", "delChain"}
AllOps   == RuleOps \cup ChainOps \cup {"delNode"}
RowOps   == RuleOps \cup ChainOps

(* Two slices of one instance: rules without chains, on all ports; chains  *)
(* of both addresses and at most one rule, on one port.                    *)
CalledOps == { req[r].op : r \in Requests }

RulesSlice == Rows(chains) = {} /\ mapping = {} /\ CalledOps \cap ChainOps = {}

PortsUsed ==
    cfg.chains \cup UNION { ReqPorts(req[r]) : r \in Requests }
        \cup { p \in Ports : serve[p] # None \/ RulesOn(p) # {} \/ ChainsOn(p) # {} }

RulesUsed ==
    Rows(rules) \cup { req[r].id : r \in { x \in Requests : req[x].op = "delRule" } }

ChainsSlice ==
    /\ Cardinality(PortsUsed) <= 1
    /\ Cardinality(RulesUsed) + Adding("addRule") <= 1
    /\ CalledOps \cap {"modifyRule", "modifyRules"} = {}

InSlice == RulesSlice \/ ChainsSlice
=============================================================================
