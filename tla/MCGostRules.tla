---------------------------- MODULE MCGostRules ----------------------------
(***************************************************************************)
(* A node that serves one rule when requests come: with failing calls in   *)
(* one slice, with a stop of agent or gost in the others, for rules, for   *)
(* chains, and for a stop of each with a failing start of the agent; a     *)
(* start of the controller comes in all of them.                           *)
(***************************************************************************)
EXTENDS GostRules

CONSTANTS i1, p1, p2, chain, d1

Plain    == [port |-> p1, via |-> Direct, dst |-> d1]
Tunnel   == [port |-> p2, via |-> chain, dst |-> d1]
TwoRows  == {Plain, Tunnel}
OneRule  == {[id \in RuleIds |-> IF id = i1 THEN Plain ELSE None]}

Failing  == [ops |-> 2, chains |-> 0, faults |-> 1, stops |-> 0, relays |-> 1]
Stopping == [ops |-> 2, chains |-> 0, faults |-> 0, stops |-> 1, relays |-> 1]
Chained  == [ops |-> 0, chains |-> 2, faults |-> 0, stops |-> 1, relays |-> 1]
Booting  == [ops |-> 1, chains |-> 0, faults |-> 1, stops |-> 2, relays |-> 1]
Slices   == {Failing, Stopping, Chained, Booting}
=============================================================================
