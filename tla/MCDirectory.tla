---------------------------- MODULE MCDirectory ----------------------------
(* Small instances of Directory. *)
EXTENDS Directory, TLC

Symmetry == Permutations(People) \cup Permutations(Callers)

(* A user has added two nodes, one after the other, and will read the list.*)
Stocked ==
    \E u \in People :
        /\ row = [i \in 1..2 |-> [kind |-> "node", live |-> TRUE, by |-> u,
                                  site |-> NoSite, stamp |-> i - 1]]
        /\ grant = [who : {u}, id : 1..2]
        /\ clock = 1
        /\ task = [c \in Callers |-> NoTask]
        /\ view = [NoView EXCEPT !.who = u]
        /\ lapse = [why \in Lapses |-> {}]

(* Two slices.  Writing: any two requests, no reader, all at one moment.   *)
(* Reading: the user reads while one request of the user's changes nodes,  *)
(* and then reads everything at once.                                      *)
WriteSlice == view' = NoView /\ clock' = 0

ReadSlice ==
    /\ Cardinality({ c \in Callers : task'[c] # NoTask }) <= 1
    /\ \A c \in Callers : task'[c] # NoTask => task'[c].who = view.who /\ task'[c].kind = "node"
    /\ view'.who = view.who /\ view'.kind = "node"
    /\ view'.page = Everything <=> view.step = "done" \/ view.page = Everything
    /\ view'.page = Everything => UNCHANGED <<tables, task>>
    /\ lapse' = lapse

SliceSpec ==
    /\ DirInit \/ Stocked
    /\ [][DirNext /\ IF clock = 0 THEN WriteSlice ELSE ReadSlice]_dirVars
=============================================================================
