---------------------------- MODULE PortRegistry ----------------------------
(***************************************************************************)
(* What an agent promises to the controller about its TCP ports: a set of  *)
(* open ports that each request changes in one step, at some moment        *)
(* between its arrival and its answer.  AgentPorts implements it when the  *)
(* requests on a port come one at a time.                                  *)
(***************************************************************************)
CONSTANTS Threads, Ports, None

VARIABLES
    open,   \* the ports that are served
    phase,  \* what remains to be done for each request
    call,   \* the ports it adds and deletes
    res     \* how it was answered

vars == <<open, phase, call, res>>

Requests == [port : Ports \cup {None}, old : Ports \cup {None}]

NoRequest == [port |-> None, old |-> None]

Init ==
    /\ open = {}
    /\ phase = [t \in Threads |-> "idle"]
    /\ call = [t \in Threads |-> NoRequest]
    /\ res = [t \in Threads |-> "none"]

Become(t, ph) == phase' = [phase EXCEPT ![t] = ph]

Answer(t, r) ==
    /\ Become(t, "idle")
    /\ res' = [res EXCEPT ![t] = r]
    /\ call' = [call EXCEPT ![t] = NoRequest]

(* A request deletes a port, adds one, or deletes one and then adds one.   *)
Request(t, r) ==
    /\ phase[t] = "idle"
    /\ r # NoRequest
    /\ Become(t, IF r.old = None THEN "add" ELSE "delete")
    /\ call' = [call EXCEPT ![t] = r]
    /\ res' = [res EXCEPT ![t] = "none"]
    /\ UNCHANGED open

(* An add succeeds exactly on a closed port.                               *)
Open(t) ==
    /\ phase[t] = "add"
    /\ call[t].port \notin open
    /\ open' = open \cup {call[t].port}
    /\ Become(t, "done")
    /\ UNCHANGED <<call, res>>

RefuseInUse(t) ==
    /\ phase[t] = "add"
    /\ call[t].port \in open
    /\ Answer(t, "inUse")
    /\ UNCHANGED open

RefuseBadAddr(t) ==
    /\ phase[t] = "add"
    /\ Answer(t, "badAddr")
    /\ UNCHANGED open

AfterDelete(t) == IF call[t].port = None THEN "done" ELSE "add"

Close(t) ==
    /\ phase[t] = "delete"
    /\ call[t].old \in open
    /\ open' = open \ {call[t].old}
    /\ Become(t, AfterDelete(t))
    /\ UNCHANGED <<call, res>>

(* Deleting a closed port is no error.                                     *)
Miss(t) ==
    /\ phase[t] = "delete"
    /\ call[t].old \notin open
    /\ \/ /\ call[t].port # None
          /\ Become(t, "add")
          /\ UNCHANGED <<call, res>>
       \/ /\ call[t].port = None
          /\ Answer(t, "ok")
    /\ UNCHANGED open

Return(t) ==
    /\ phase[t] = "done"
    /\ Answer(t, "ok")
    /\ UNCHANGED open

(* A delete may panic after it closed the port, and then nothing is added. *)
Panic(t) ==
    /\ call[t].old # None
    /\ phase[t] \in {"done", "add"}
    /\ call[t].old \notin open
    /\ Answer(t, "panic")
    /\ UNCHANGED open

Crash ==
    /\ open' = {}
    /\ phase' = [t \in Threads |-> "idle"]
    /\ call' = [t \in Threads |-> NoRequest]
    /\ res' = [t \in Threads |-> "none"]

Next ==
    \/ \E t \in Threads, r \in Requests : Request(t, r)
    \/ \E t \in Threads :
         \/ Open(t) \/ RefuseInUse(t) \/ RefuseBadAddr(t)
         \/ Close(t) \/ Miss(t) \/ Return(t) \/ Panic(t)
    \/ Crash

Spec == Init /\ [][Next]_vars
=============================================================================
