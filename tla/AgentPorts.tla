----------------------------- MODULE AgentPorts -----------------------------
(***************************************************************************)
(* The port table of one agent in native mode (EnableGost = FALSE):        *)
(* manager.AddRule, manager.AddChain and manager.DelPort, the TCP / TLS    *)
(* connectors and UDP forwarders they create, and the shared sync.Map      *)
(* srcConnMap that is the only way back to a listener once it serves.      *)
(*                                                                         *)
(* Every HTTP request runs in a goroutine of its own and takes no lock, so *)
(* each access to the map and each system call is a step.  The goroutines  *)
(* a request spawns (go ctr.Listen(), go forwarder.Start()) are the actors *)
(* Listen and StartUdp.  srcConnMap holds two families of keys, "<port>"   *)
(* and "udp#<port>": they are the variables srcConn and srcUdp.            *)
(*                                                                         *)
(* Conns and Udps are the identities of the objects a request allocates.   *)
(* An identity is reused when nothing refers to it any more (the collector *)
(* of the language), so the number of requests is not bounded.             *)
(***************************************************************************)
CONSTANTS
    Threads,    \* request goroutines of the agent's HTTP server
    Ports,      \* listen ports
    Conns,      \* identities of TCPConnector / TLSConnector listeners
    Udps,       \* identities of UDPForwarder / ProxyServer objects
    None,       \* a nil pointer, an absent map entry, a free port
    EnableUdp,  \* config.GetAgentConfig().EnableUdp
    Serial      \* TRUE: the callers never overlap two calls on one port

ASSUME ConstantsAssumption ==
    /\ None \notin Conns
    /\ None \notin Udps
    /\ None \notin Ports
    /\ EnableUdp \in BOOLEAN
    /\ Serial \in BOOLEAN

VARIABLES
    tcpSock,   \* the operating system's TCP sockets: the owner of each port
    udpSock,   \* the same for UDP
    lst,       \* where the listener of a connector is in its life
    udp,       \* the UDP objects: kind, port, socket state, closed channel
    srcConn,   \* srcConnMap["<port>"]
    srcUdp,    \* srcConnMap["udp#<port>"]
    pc,        \* the next step of each request
    call,      \* the request a goroutine serves (or served last)
    res,       \* how its last request ended
    conn,      \* its local variable: the connector it adds or closes
    fwd,       \* its local variable: the UDP object it adds or closes
    overlap,   \* history: ports on which two requests were ever in progress
    twin,      \* history: ports whose map entry two DelPorts held at once
    early      \* history: ports whose UDP object was closed before its Start

osVars   == <<tcpSock, udpSock, lst, udp>>
mapVars  == <<srcConn, srcUdp>>
reqVars  == <<pc, call, res, conn, fwd>>
histVars == <<overlap, twin, early>>
vars     == <<osVars, mapVars, reqVars, histVars>>

-----------------------------------------------------------------------------
(* Types *)

(* `old' is the port a request deletes, `port' the port it adds; AddRule   *)
(* and AddChain delete nothing and DelPort adds nothing, so for them both  *)
(* fields are the request's only port.  The connector type changes what    *)
(* AddRule does; AddChain does the same for both.                          *)
Calls ==
    { c \in [op   : {"AddRule", "AddChain", "DelPort", "ModifyRule"},
             typ  : {"tcp", "tls"},
             port : Ports,
             old  : Ports] :
        /\ c.op # "ModifyRule" => c.old = c.port
        /\ c.op \in {"AddChain", "DelPort"} => c.typ = "tcp" }

(* What a goroutine that serves nothing holds.                             *)
NoCall == [op |-> "none", typ |-> "tcp", port |-> None, old |-> None]

Results == {"none", "ok", "inUse", "badAddr", "panic"}

AddSteps == {"probe", "probeClose", "storeConn", "newUdp", "storeUdp"}
DelSteps == {"loadConn", "deleteConn", "closeConn",
             "loadUdp", "deleteUdp", "shutUdp", "closeUdp"}

ListenerStates == {"none", "probing", "starting", "listening", "failed", "closed"}

UdpObjects == [kind : {"fwd", "proxy", "nil"},
               port : Ports \cup {None},
               st   : {"none", "new", "open", "failed", "closed"},
               shut : BOOLEAN]

NoUdp == [kind |-> "nil", port |-> None, st |-> "none", shut |-> FALSE]

OsTypes ==
    /\ tcpSock \in [Ports -> Conns \cup {None}]
    /\ udpSock \in [Ports -> Udps \cup {None}]
    /\ lst \in [Conns -> ListenerStates]
    /\ udp \in [Udps -> UdpObjects]

MapTypes ==
    /\ srcConn \in [Ports -> Conns \cup {None}]
    /\ srcUdp \in [Ports -> Udps \cup {None}]

ReqTypes ==
    /\ pc \in [Threads -> {"idle"} \cup AddSteps \cup DelSteps]
    /\ call \in [Threads -> Calls \cup {NoCall}]
    /\ \A t \in Threads : pc[t] # "idle" => call[t] \in Calls
    /\ res \in [Threads -> Results]
    /\ conn \in [Threads -> Conns \cup {None}]
    /\ fwd \in [Threads -> Udps \cup {None}]

HistTypes ==
    /\ overlap \subseteq Ports
    /\ twin \subseteq Ports
    /\ early \subseteq Ports

TypeOK == OsTypes /\ MapTypes /\ ReqTypes /\ HistTypes

-----------------------------------------------------------------------------
(* Helpers *)

CallPorts(c) == {c.port, c.old}

Active(t) == pc[t] # "idle"

FreshConn(c) ==
    /\ \A p \in Ports : tcpSock[p] # c /\ srcConn[p] # c
    /\ \A t \in Threads : conn[t] # c

FreshUdp(u) ==
    /\ udp[u].st # "new"
    /\ \A p \in Ports : udpSock[p] # u /\ srcUdp[p] # u
    /\ \A t \in Threads : fwd[t] # u

Goto(t, step) == pc' = [pc EXCEPT ![t] = step]

DropLocals(t) ==
    /\ conn' = [conn EXCEPT ![t] = None]
    /\ fwd' = [fwd EXCEPT ![t] = None]

Return(t, r) ==
    /\ Goto(t, "idle")
    /\ res' = [res EXCEPT ![t] = r]
    /\ call' = [call EXCEPT ![t] = NoCall]
    /\ DropLocals(t)

(* DelPort returned nil: a delete request is answered, ModifyRule goes on  *)
(* to AddRule.                                                             *)
DelPortReturns(t) ==
    \/ /\ call[t].op = "ModifyRule"
       /\ Goto(t, "probe")
       /\ DropLocals(t)
       /\ UNCHANGED <<res, call>>
    \/ /\ call[t].op # "ModifyRule"
       /\ Return(t, "ok")

(* The UDP objects an added port may get: a plain TCP rule a UDPForwarder, *)
(* nil when the target does not resolve (AddRule logs that and goes on), a *)
(* chain port a ProxyServer, a TLS rule none (its UDP part is commented    *)
(* out in the code).                                                       *)
UdpKinds(c) ==
    { k \in {"fwd", "nil"} : EnableUdp /\ c.op # "AddChain" /\ c.typ = "tcp" }
    \cup { k \in {"proxy"} : EnableUdp /\ c.op = "AddChain" }

-----------------------------------------------------------------------------
(* A request arrives *)

Invoke(t, c) ==
    /\ ~Active(t)
    /\ LET shared == { p \in CallPorts(c) :
                         \E u \in Threads : Active(u) /\ p \in CallPorts(call[u]) }
       IN  /\ Serial => shared = {}
           /\ overlap' = overlap \cup shared
    /\ Goto(t, IF c.op \in {"DelPort", "ModifyRule"} THEN "loadConn" ELSE "probe")
    /\ call' = [call EXCEPT ![t] = c]
    /\ res' = [res EXCEPT ![t] = "none"]
    /\ UNCHANGED <<osVars, mapVars, conn, fwd, twin, early>>

-----------------------------------------------------------------------------
(* AddRule and AddChain *)

(* InitConfig opens a listener only to learn whether the port is free.     *)
ProbeBind(t) ==
    LET p == call[t].port IN
    /\ pc[t] = "probe"
    /\ tcpSock[p] = None
    /\ \E c \in Conns :
         /\ FreshConn(c)
         /\ conn' = [conn EXCEPT ![t] = c]
         /\ tcpSock' = [tcpSock EXCEPT ![p] = c]
         /\ lst' = [lst EXCEPT ![c] = "probing"]
    /\ Goto(t, "probeClose")
    /\ UNCHANGED <<udpSock, udp, mapVars, call, res, fwd, histVars>>

ProbeInUse(t) ==
    /\ pc[t] = "probe"
    /\ tcpSock[call[t].port] # None
    /\ Return(t, "inUse")
    /\ UNCHANGED <<osVars, mapVars, histVars>>

(* Mutant: InitConfig leaves its probe open.                               *)
ProbeLeftOpen(t) ==
    /\ pc[t] = "probeClose"
    /\ lst' = [lst EXCEPT ![conn[t]] = "starting"]
    /\ Goto(t, "storeConn")
    /\ UNCHANGED <<tcpSock, udpSock, udp, mapVars, call, res, conn, fwd, histVars>>

(* The probe is closed; go ctr.Listen() is spawned.                        *)
ProbeClose(t) ==
    /\ pc[t] = "probeClose"
    /\ tcpSock' = [tcpSock EXCEPT ![call[t].port] = None]
    /\ lst' = [lst EXCEPT ![conn[t]] = "starting"]
    /\ Goto(t, "storeConn")
    /\ UNCHANGED <<udpSock, udp, mapVars, call, res, conn, fwd, histVars>>

(* A TCP rule's chain address does not resolve.                            *)
ProbeBadChain(t) ==
    /\ pc[t] = "probeClose"
    /\ call[t].op # "AddChain" /\ call[t].typ = "tcp"
    /\ tcpSock' = [tcpSock EXCEPT ![call[t].port] = None]
    /\ lst' = [lst EXCEPT ![conn[t]] = "none"]
    /\ Return(t, "badAddr")
    /\ UNCHANGED <<udpSock, udp, mapVars, histVars>>

(* The goroutine of ctr.Listen(): the port is bound a second time, and an  *)
(* error is returned to nobody.                                            *)
Listen(t) ==
    LET p == call[t].port
        c == conn[t]
    IN
    /\ pc[t] = "storeConn"
    /\ lst[c] = "starting"
    /\ \/ /\ tcpSock[p] = None
          /\ tcpSock' = [tcpSock EXCEPT ![p] = c]
          /\ lst' = [lst EXCEPT ![c] = "listening"]
       \/ /\ tcpSock[p] # None
          /\ lst' = [lst EXCEPT ![c] = "failed"]
          /\ UNCHANGED tcpSock
    /\ UNCHANGED <<udpSock, udp, mapVars, reqVars, histVars>>

(* Mutant: StoreConn stores the connector without waiting for Listen.      *)
StoreConnAtOnce(t) ==
    /\ pc[t] = "storeConn"
    /\ srcConn' = [srcConn EXCEPT ![call[t].port] = conn[t]]
    /\ Return(t, "ok")
    /\ UNCHANGED <<osVars, srcUdp, histVars>>

(* StoreConn spins until ctr.listener is set; when Listen failed it never  *)
(* is.                                                                     *)
StoreConn(t) ==
    /\ pc[t] = "storeConn"
    /\ lst[conn[t]] = "listening"
    /\ srcConn' = [srcConn EXCEPT ![call[t].port] = conn[t]]
    /\ \/ /\ UdpKinds(call[t]) = {}
          /\ Return(t, "ok")
       \/ /\ UdpKinds(call[t]) # {}
          /\ Goto(t, "newUdp")
          /\ UNCHANGED <<call, res, conn, fwd>>
    /\ UNCHANGED <<osVars, srcUdp, histVars>>

(* NewUDPForwarder / NewProxyServer, and go Start().                       *)
NewUdp(t) ==
    /\ pc[t] = "newUdp"
    /\ \E u \in Udps, k \in UdpKinds(call[t]) :
         /\ FreshUdp(u)
         /\ udp' = [udp EXCEPT ![u] = [kind |-> k, port |-> call[t].port,
                                      st |-> "new", shut |-> FALSE]]
         /\ fwd' = [fwd EXCEPT ![t] = u]
    /\ Goto(t, "storeUdp")
    /\ UNCHANGED <<tcpSock, udpSock, lst, mapVars, call, res, conn, histVars>>

StoreUdp(t) ==
    /\ pc[t] = "storeUdp"
    /\ srcUdp' = [srcUdp EXCEPT ![call[t].port] = fwd[t]]
    /\ Return(t, "ok")
    /\ UNCHANGED <<osVars, srcConn, histVars>>

(* The goroutine of Start(): it binds without looking at shutdownChan, and *)
(* an error leaves the object in the map without a socket.                 *)
StartUdp(u) ==
    LET p == udp[u].port IN
    /\ udp[u].st = "new"
    /\ udp[u].kind # "nil"
    /\ \/ /\ udpSock[p] = None
          /\ udpSock' = [udpSock EXCEPT ![p] = u]
          /\ udp' = [udp EXCEPT ![u].st = "open"]
       \/ /\ udpSock[p] # None
          /\ udp' = [udp EXCEPT ![u].st = "failed"]
          /\ UNCHANGED udpSock
    /\ UNCHANGED <<tcpSock, lst, mapVars, reqVars, histVars>>

(* Start returns when shutdownChan is closed, but leaves its socket open:  *)
(* once nothing leads to the object, the garbage collector closes it.      *)
CollectUdp(u) ==
    /\ udp[u].st = "open" /\ udp[u].shut
    /\ \A p \in Ports : srcUdp[p] # u
    /\ \A t \in Threads : fwd[t] # u
    /\ udpSock' = [udpSock EXCEPT ![udp[u].port] = None]
    /\ udp' = [udp EXCEPT ![u].st = "closed"]
    /\ UNCHANGED <<tcpSock, lst, mapVars, reqVars, histVars>>

-----------------------------------------------------------------------------
(* DelPort *)

LoadConn(t) ==
    LET p == call[t].old IN
    /\ pc[t] = "loadConn"
    /\ \/ /\ srcConn[p] = None
          /\ DelPortReturns(t)
          /\ UNCHANGED twin
       \/ /\ srcConn[p] # None
          /\ conn' = [conn EXCEPT ![t] = srcConn[p]]
          /\ Goto(t, "deleteConn")
          /\ twin' = twin \cup { q \in {p} :
                       \E s \in Threads : pc[s] = "deleteConn" /\ call[s].old = q }
          /\ UNCHANGED <<call, res, fwd>>
    /\ UNCHANGED <<osVars, mapVars, overlap, early>>

(* Mutant: DelPort forgets to close the listener.                          *)
DeleteConnOnly(t) ==
    /\ pc[t] = "deleteConn"
    /\ srcConn' = [srcConn EXCEPT ![call[t].old] = None]
    /\ conn' = [conn EXCEPT ![t] = None]
    /\ Goto(t, "loadUdp")
    /\ UNCHANGED <<osVars, srcUdp, call, res, fwd, histVars>>

DeleteConn(t) ==
    /\ pc[t] = "deleteConn"
    /\ srcConn' = [srcConn EXCEPT ![call[t].old] = None]
    /\ Goto(t, "closeConn")
    /\ UNCHANGED <<osVars, srcUdp, call, res, conn, fwd, histVars>>

(* Closing a listener that another DelPort closed is only logged.          *)
CloseConn(t) ==
    LET p == call[t].old IN
    /\ pc[t] = "closeConn"
    /\ tcpSock' = [tcpSock EXCEPT ![p] = IF @ = conn[t] THEN None ELSE @]
    /\ lst' = [lst EXCEPT ![conn[t]] = "closed"]
    /\ conn' = [conn EXCEPT ![t] = None]
    /\ Goto(t, "loadUdp")
    /\ UNCHANGED <<udpSock, udp, mapVars, call, res, fwd, histVars>>

LoadUdp(t) ==
    LET p == call[t].old IN
    /\ pc[t] = "loadUdp"
    /\ \/ /\ srcUdp[p] = None
          /\ DelPortReturns(t)
          /\ UNCHANGED early
       \/ /\ srcUdp[p] # None
          /\ fwd' = [fwd EXCEPT ![t] = srcUdp[p]]
          /\ Goto(t, "deleteUdp")
          /\ early' = early \cup { q \in {p} : udp[srcUdp[p]].st = "new" }
          /\ UNCHANGED <<call, res, conn>>
    /\ UNCHANGED <<osVars, mapVars, overlap, twin>>

DeleteUdp(t) ==
    /\ pc[t] = "deleteUdp"
    /\ srcUdp' = [srcUdp EXCEPT ![call[t].old] = None]
    /\ Goto(t, "shutUdp")
    /\ UNCHANGED <<osVars, srcConn, call, res, conn, fwd, histVars>>

(* Close() of the UDP object closes shutdownChan first.  Closing a closed  *)
(* channel, or a field of a nil forwarder, panics; the HTTP server's       *)
(* recovery answers 500 and the agent lives on.                            *)
ShutUdp(t) ==
    LET u == fwd[t] IN
    /\ pc[t] = "shutUdp"
    /\ \/ /\ udp[u].shut \/ udp[u].kind = "nil"
          /\ Return(t, "panic")
          /\ UNCHANGED udp
       \/ /\ ~udp[u].shut /\ udp[u].kind # "nil"
          /\ udp' = [udp EXCEPT ![u].shut = TRUE]
          /\ Goto(t, "closeUdp")
          /\ UNCHANGED <<call, res, conn, fwd>>
    /\ UNCHANGED <<tcpSock, udpSock, lst, mapVars, histVars>>

(* Mutant: Close() only closes shutdownChan.                               *)
CloseUdpOnlyShuts(t) ==
    /\ pc[t] = "closeUdp"
    /\ DelPortReturns(t)
    /\ UNCHANGED <<osVars, mapVars, histVars>>

(* Then the socket.  Before Start has set it, or after Start failed, conn  *)
(* is nil: ProxyServer tests for that, UDPForwarder panics.                *)
CloseUdp(t) ==
    LET u == fwd[t] IN
    /\ pc[t] = "closeUdp"
    /\ \/ /\ udp[u].st \in {"new", "failed"} /\ udp[u].kind = "fwd"
          /\ Return(t, "panic")
          /\ UNCHANGED <<udpSock, udp>>
       \/ /\ udp[u].st \in {"new", "failed"} /\ udp[u].kind = "proxy"
          /\ DelPortReturns(t)
          /\ UNCHANGED <<udpSock, udp>>
       \/ /\ udp[u].st = "open"
          /\ udpSock' = [udpSock EXCEPT ![udp[u].port] = None]
          /\ udp' = [udp EXCEPT ![u].st = "closed"]
          /\ DelPortReturns(t)
    /\ UNCHANGED <<tcpSock, lst, mapVars, histVars>>

-----------------------------------------------------------------------------
(* The process dies and starts again: sockets, map and goroutines are gone.*)
Crash ==
    /\ tcpSock' = [p \in Ports |-> None]
    /\ udpSock' = [p \in Ports |-> None]
    /\ lst' = [c \in Conns |-> "none"]
    /\ udp' = [u \in Udps |-> NoUdp]
    /\ srcConn' = [p \in Ports |-> None]
    /\ srcUdp' = [p \in Ports |-> None]
    /\ pc' = [t \in Threads |-> "idle"]
    /\ call' = [t \in Threads |-> NoCall]
    /\ res' = [t \in Threads |-> "none"]
    /\ conn' = [t \in Threads |-> None]
    /\ fwd' = [t \in Threads |-> None]
    /\ overlap' = {}
    /\ twin' = {}
    /\ early' = {}

(* So it does when the goroutine of a nil forwarder's Start panics, which  *)
(* nothing recovers.                                                       *)
NilStart(u) ==
    /\ udp[u].st = "new" /\ udp[u].kind = "nil"
    /\ Crash

-----------------------------------------------------------------------------
Init ==
    /\ tcpSock = [p \in Ports |-> None]
    /\ udpSock = [p \in Ports |-> None]
    /\ lst = [c \in Conns |-> "none"]
    /\ udp = [u \in Udps |-> NoUdp]
    /\ srcConn = [p \in Ports |-> None]
    /\ srcUdp = [p \in Ports |-> None]
    /\ pc = [t \in Threads |-> "idle"]
    /\ call = [t \in Threads |-> NoCall]
    /\ res = [t \in Threads |-> "none"]
    /\ conn = [t \in Threads |-> None]
    /\ fwd = [t \in Threads |-> None]
    /\ overlap = {}
    /\ twin = {}
    /\ early = {}

AddStep(t) ==
    \/ ProbeBind(t) \/ ProbeInUse(t) \/ ProbeClose(t) \/ ProbeBadChain(t)
    \/ StoreConn(t) \/ NewUdp(t) \/ StoreUdp(t)

DelStep(t) ==
    \/ LoadConn(t) \/ DeleteConn(t) \/ CloseConn(t)
    \/ LoadUdp(t) \/ DeleteUdp(t) \/ ShutUdp(t) \/ CloseUdp(t)

Next ==
    \/ \E t \in Threads, c \in Calls : Invoke(t, c)
    \/ \E t \in Threads : AddStep(t) \/ DelStep(t) \/ Listen(t)
    \/ \E u \in Udps : StartUdp(u) \/ NilStart(u) \/ CollectUdp(u)
    \/ Crash

Spec == Init /\ [][Next]_vars

(* The scheduler runs every goroutine that can take a step; nothing makes  *)
(* a caller call or the process die.                                       *)
Fairness ==
    /\ \A t \in Threads : WF_vars(AddStep(t)) /\ WF_vars(DelStep(t)) /\ WF_vars(Listen(t))
    /\ \A u \in Udps : WF_vars(StartUdp(u) \/ NilStart(u))

FairSpec == Spec /\ Fairness

-----------------------------------------------------------------------------
(* Properties *)

(* What srcConnMap records under "<port>" is a listener that serves the    *)
(* port: DelPort never finds a dead one.                                   *)
MapEntriesListen ==
    \A p \in Ports : srcConn[p] # None =>
        tcpSock[p] = srcConn[p] /\ lst[srcConn[p]] = "listening"

(* sync.Map.Store in StoreConn never replaces a listener, which would then *)
(* keep its port for ever: there is no check in the code, the failing      *)
(* second bind is what prevents it.                                        *)
StoreNeverReplaces ==
    [][\A p \in Ports :
         srcConn'[p] \notin {None, srcConn[p]} => srcConn[p] = None]_vars

(* A TCP listener that the map does not lead to and no request holds: no   *)
(* later request can close it.                                             *)
TcpOrphan(p) ==
    /\ tcpSock[p] # None
    /\ srcConn[p] # tcpSock[p]
    /\ \A t \in Threads : conn[t] # tcpSock[p]

(* The one way to lose a TCP listener is DelPort's Load and Delete being   *)
(* two operations: two DelPorts loaded one entry, and the slower Delete    *)
(* removed the entry of the listener added in between.                     *)
TcpOrphanOnlyByTwinDelete == \A p \in Ports : TcpOrphan(p) => p \in twin

UdpOrphan(p) ==
    /\ udpSock[p] # None
    /\ srcUdp[p] # udpSock[p]
    /\ \A t \in Threads : fwd[t] # udpSock[p]

(* A UDP socket is lost only when requests on the port overlapped or when  *)
(* a DelPort reached the object before the goroutine that runs its Start.  *)
UdpOrphanOnlyByRace ==
    \A p \in Ports : UdpOrphan(p) => p \in overlap \cup early

(* A request that spins in StoreConn for ever, its Listen having failed,   *)
(* overlapped another request on the port: the probe in InitConfig is      *)
(* enough when requests on a port come one at a time.                      *)
Spins(t) == pc[t] = "storeConn" /\ lst[conn[t]] = "failed"

SpinOnlyByOverlap ==
    \A t \in Threads : Spins(t) => call[t].port \in overlap

(* When requests on a port did not overlap and its Start was not           *)
(* overtaken, the DelPort part of a request that ends without a panic      *)
(* leaves both sockets of the port free, for the AddRule that follows it.  *)
DeletedPortIsFree ==
    [][\A t \in Threads :
         LET p == call[t].old IN
         /\ pc[t] \in DelSteps
         /\ pc'[t] \notin DelSteps
         /\ res'[t] # "panic"
         /\ p \notin overlap \cup early
         => tcpSock'[p] = None /\ udpSock'[p] = None]_vars

(* When requests on a port come one at a time, every request is answered:  *)
(* the busy wait of StoreConn ends.                                        *)
RequestsReturn == \A t \in Threads : Active(t) ~> ~Active(t)

-----------------------------------------------------------------------------
(* The inductive invariant behind the TCP half of these properties         *)

Makes(t)  == pc[t] \in {"probeClose", "storeConn"}
Closes(t) == pc[t] \in {"deleteConn", "closeConn"}

(* A listener owns one port.                                               *)
OwnerInjective ==
    \A p, q \in Ports : tcpSock[p] # None /\ tcpSock[p] = tcpSock[q] => p = q

(* A connector being added belongs to its request alone.                   *)
MakerOwns ==
    \A t \in Threads : Makes(t) =>
        /\ conn[t] # None
        /\ \A s \in Threads \ {t} : conn[s] # conn[t]
        /\ \A q \in Ports : srcConn[q] # conn[t]

MakerState ==
    \A t \in Threads :
        /\ pc[t] = "probeClose" => tcpSock[call[t].port] = conn[t] /\ lst[conn[t]] = "probing"
        /\ pc[t] = "storeConn" =>
             /\ lst[conn[t]] \in {"starting", "listening", "failed"}
             /\ lst[conn[t]] = "listening" => tcpSock[call[t].port] = conn[t]
             /\ lst[conn[t]] # "listening" => \A q \in Ports : tcpSock[q] # conn[t]

(* A connector a DelPort loaded can only be bound at the port it deletes,  *)
(* and once the entry is deleted no key leads to it.                       *)
CloserState ==
    \A t \in Threads : Closes(t) =>
        /\ conn[t] # None
        /\ \A q \in Ports : tcpSock[q] = conn[t] => q = call[t].old
        /\ pc[t] = "closeConn" => \A q \in Ports : srcConn[q] # conn[t]

(* Until two DelPorts held one entry, a loaded entry stays in the map and  *)
(* every bound listener is in the map or in the hands of the request that  *)
(* makes or closes it.                                                     *)
TwinHistory ==
    /\ \A t \in Threads : pc[t] = "deleteConn" /\ call[t].old \notin twin
                            => srcConn[call[t].old] = conn[t]
    /\ \A s, t \in Threads : s # t /\ pc[s] = "deleteConn" /\ pc[t] = "deleteConn"
                               /\ call[s].old = call[t].old => call[t].old \in twin
    /\ \A p \in Ports : tcpSock[p] # None /\ p \notin twin =>
          \/ srcConn[p] = tcpSock[p]
          \/ \E t \in Threads : conn[t] = tcpSock[p] /\ (Makes(t) \/ pc[t] = "closeConn")

TcpInv ==
    /\ MapEntriesListen
    /\ OwnerInjective
    /\ MakerOwns
    /\ MakerState
    /\ CloserState
    /\ TwinHistory

-----------------------------------------------------------------------------
(* The inductive invariant behind the UDP half and the serial callers      *)

(* Two requests in progress at once share only ports on which that is      *)
(* recorded, and two DelPorts hold one entry only there.                   *)
OneAtATime ==
    /\ \A s, t \in Threads : s # t /\ Active(s) /\ Active(t)
         => CallPorts(call[s]) \cap CallPorts(call[t]) \subseteq overlap
    /\ twin \subseteq overlap
    /\ Serial => overlap = {}

(* A request takes the steps of its operation only.                        *)
RightSteps ==
    \A t \in Threads :
        /\ pc[t] \in AddSteps => call[t].op # "DelPort"
        /\ pc[t] \in DelSteps => call[t].op \in {"DelPort", "ModifyRule"}

(* A bound UDP socket belongs to an open object of that port; a nil        *)
(* forwarder never gets that far.                                          *)
UdpOwner ==
    /\ \A u \in Udps :
         /\ udp[u].st # "none" => udp[u].port \in Ports
         /\ udp[u].kind = "nil" => udp[u].st \in {"none", "new"}
    /\ \A p \in Ports : udpSock[p] # None =>
         udp[udpSock[p]].port = p /\ udp[udpSock[p]].st = "open"

(* The map and the requests hold a UDP object under its own port, and a    *)
(* DelPort that holds one not yet started has that recorded.               *)
UdpHeld ==
    /\ \A p \in Ports : srcUdp[p] # None => udp[srcUdp[p]].port = p
    /\ \A t \in Threads : pc[t] = "storeUdp" =>
         fwd[t] # None /\ udp[fwd[t]].port = call[t].port
    /\ \A t \in Threads : pc[t] \in {"deleteUdp", "shutUdp", "closeUdp"} =>
         /\ fwd[t] # None
         /\ udp[fwd[t]].port = call[t].old
         /\ call[t].old \notin early => udp[fwd[t]].st # "new"

(* A request alone on its port finds the port free when it binds again,    *)
(* no UDP object of an earlier request left in the map, and its listener   *)
(* there when it stores its own.                                           *)
AddAlone ==
    \A t \in Threads : call[t].port \notin overlap =>
        /\ pc[t] \in {"probeClose", "storeConn", "newUdp", "storeUdp"} =>
             srcUdp[call[t].port] = None
        /\ pc[t] \in {"newUdp", "storeUdp"} => srcConn[call[t].port] # None
        /\ pc[t] = "storeConn" =>
             /\ lst[conn[t]] # "failed"
             /\ lst[conn[t]] = "starting" => tcpSock[call[t].port] = None

(* A DelPort alone on its port closes the listener that serves it, and     *)
(* what it has deleted and closed stays so while it goes on.               *)
DelAlone ==
    \A t \in Threads : call[t].old \notin overlap =>
        /\ Closes(t) => tcpSock[call[t].old] = conn[t] /\ lst[conn[t]] = "listening"
        /\ pc[t] \in {"closeConn", "loadUdp", "deleteUdp", "shutUdp", "closeUdp"} =>
             srcConn[call[t].old] = None
        /\ pc[t] \in {"loadUdp", "deleteUdp", "shutUdp", "closeUdp"} =>
             tcpSock[call[t].old] = None
        /\ pc[t] = "deleteUdp" => srcUdp[call[t].old] = fwd[t]
        /\ pc[t] \in {"shutUdp", "closeUdp"} => srcUdp[call[t].old] = None

(* A UDP entry has a TCP entry beside it until the DelPort that removed    *)
(* that one has come to it.                                                *)
UdpBesideTcp ==
    \A p \in Ports : p \notin overlap /\ srcUdp[p] # None =>
        \/ srcConn[p] # None
        \/ \E t \in Threads :
             call[t].old = p /\ pc[t] \in {"closeConn", "loadUdp", "deleteUdp"}

Holds(t, u) ==
    fwd[t] = u /\ pc[t] \in {"storeUdp", "deleteUdp", "shutUdp", "closeUdp"}

(* Until a race on the port, an object that is or may still be bound is in *)
(* the map or held by a request, and has its channel closed only by a      *)
(* request that goes on to close its socket.                               *)
UdpAccounted ==
    \A u \in Udps :
        udp[u].st \in {"new", "open"} /\ udp[u].port \notin overlap \cup early =>
            /\ srcUdp[udp[u].port] = u \/ \E t \in Threads : Holds(t, u)
            /\ udp[u].shut => \E t \in Threads : pc[t] = "closeUdp" /\ fwd[t] = u

UdpInv ==
    /\ OneAtATime
    /\ UdpOwner
    /\ UdpHeld
    /\ AddAlone
    /\ DelAlone
    /\ UdpBesideTcp
    /\ UdpAccounted

-----------------------------------------------------------------------------
(* The abstract registry this table implements when callers are serial     *)

ServesPort(p) == tcpSock[p] # None /\ lst[tcpSock[p]] = "listening"

(* A request takes effect when Listen binds and when DelPort closes the    *)
(* listener (or finds none); the UDP half comes after it.                  *)
PhaseOf(t) ==
    CASE pc[t] = "idle" -> "idle"
      [] pc[t] \in {"probe", "probeClose"} -> "add"
      [] pc[t] = "storeConn" -> IF lst[conn[t]] = "listening" THEN "done" ELSE "add"
      [] pc[t] \in {"newUdp", "storeUdp"} -> "done"
      [] pc[t] \in {"loadConn", "deleteConn", "closeConn"} -> "delete"
      [] OTHER -> IF call[t].op = "ModifyRule" THEN "add" ELSE "done"

RequestOf(c) ==
    [port |-> IF c.op = "DelPort" THEN None ELSE c.port,
     old  |-> IF c.op \in {"DelPort", "ModifyRule"} THEN c.old ELSE None]

Registry == INSTANCE PortRegistry WITH
    open  <- { p \in Ports : ServesPort(p) },
    phase <- [t \in Threads |-> PhaseOf(t)],
    call  <- [t \in Threads |-> RequestOf(call[t])]

(* Serial callers see the abstract registry: an answer "in use" is given   *)
(* only for a port that is served, an answered add leaves its port open,   *)
(* an answered delete leaves its port closed.                              *)
ImplementsRegistry == Registry!Spec
=============================================================================
