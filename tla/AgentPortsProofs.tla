-------------------------- MODULE AgentPortsProofs --------------------------
(***************************************************************************)
(* Theorems about AgentPorts for every set of threads, ports and objects.  *)
(***************************************************************************)
EXTENDS AgentPorts, TLAPS

USE DEF AddSteps, DelSteps, Active

-----------------------------------------------------------------------------
(* Type correctness *)

(* Calls is a set of records whose port fields are ports.                  *)
LEMMA CallFields ==
  ASSUME NEW c \in Calls
  PROVE  c.port \in Ports /\ c.old \in Ports
BY DEF Calls

(* Moving a request that has a call to another step keeps the types.       *)
LEMMA GotoTypes ==
  ASSUME ReqTypes, NEW t \in Threads, pc[t] # "idle",
         NEW step \in AddSteps \cup DelSteps, Goto(t, step), call' = call, res' = res,
         conn' \in [Threads -> Conns \cup {None}], fwd' \in [Threads -> Udps \cup {None}]
  PROVE  ReqTypes'
BY DEF ReqTypes, Goto

(* Answering a request keeps the types.                                    *)
LEMMA ReturnTypes ==
  ASSUME ReqTypes, NEW t \in Threads, NEW r \in Results, Return(t, r)
  PROVE  ReqTypes'
BY DEF ReqTypes, Return, Goto, DropLocals

(* So does the end of a DelPort.                                           *)
LEMMA DelPortReturnsTypes ==
  ASSUME ReqTypes, NEW t \in Threads, pc[t] # "idle", DelPortReturns(t)
  PROVE  ReqTypes'
<1>1. CASE call[t].op = "ModifyRule"
  <2>1. Goto(t, "probe") /\ DropLocals(t) /\ UNCHANGED <<res, call>>
    BY <1>1 DEF DelPortReturns
  <2>2. conn' \in [Threads -> Conns \cup {None}] /\ fwd' \in [Threads -> Udps \cup {None}]
    BY <2>1 DEF DropLocals, ReqTypes
  <2> QED
    BY <2>1, <2>2, GotoTypes
<1>2. CASE call[t].op # "ModifyRule"
  BY <1>2, ReturnTypes DEF DelPortReturns, Results
<1> QED
  BY <1>1, <1>2

(* The variables keep their types whatever requests arrive and wherever    *)
(* the agent crashes.                                                      *)
THEOREM TypeCorrect == Spec => []TypeOK
<1> USE DEF TypeOK, osVars, mapVars, reqVars, histVars
<1>1. Init => TypeOK
  BY DEF Init, OsTypes, MapTypes, ReqTypes, HistTypes, ListenerStates, UdpObjects,
         NoUdp, NoCall, Results
<1>2. TypeOK /\ [Next]_vars => TypeOK'
  <2> SUFFICES ASSUME TypeOK, [Next]_vars PROVE TypeOK'
    OBVIOUS
  <2>1. ASSUME NEW t \in Threads, NEW c \in Calls, Invoke(t, c) PROVE TypeOK'
    <3>1. OsTypes' /\ MapTypes'
      BY <2>1 DEF Invoke, OsTypes, MapTypes
    <3>2. ReqTypes'
      <4>1. PICK step \in {"loadConn", "probe"} : pc' = [pc EXCEPT ![t] = step]
        BY <2>1 DEF Invoke, Goto
      <4> QED
        BY <2>1, <4>1 DEF Invoke, ReqTypes, Results
    <3>3. HistTypes'
      BY <2>1, CallFields DEF Invoke, HistTypes, CallPorts
    <3> QED
      BY <3>1, <3>2, <3>3
  <2>2. ASSUME NEW t \in Threads, AddStep(t) PROVE TypeOK'
    <3>1. CASE ProbeBind(t)
      <4>1. PICK c \in Conns :
              /\ conn' = [conn EXCEPT ![t] = c]
              /\ tcpSock' = [tcpSock EXCEPT ![call[t].port] = c]
              /\ lst' = [lst EXCEPT ![c] = "probing"]
        BY <3>1 DEF ProbeBind
      <4>2. OsTypes' /\ MapTypes' /\ HistTypes'
        BY <3>1, <4>1 DEF ProbeBind, OsTypes, MapTypes, HistTypes, ListenerStates
      <4>3. ReqTypes'
        BY <3>1, <4>1 DEF ProbeBind, ReqTypes, Goto
      <4> QED
        BY <4>2, <4>3
    <3>2. CASE ProbeInUse(t)
      BY <3>2, ReturnTypes DEF ProbeInUse, OsTypes, MapTypes, HistTypes, Results
    <3>3. CASE ProbeClose(t)
      BY <3>3 DEF ProbeClose, OsTypes, MapTypes, ReqTypes, HistTypes, Goto, ListenerStates
    <3>4. CASE ProbeBadChain(t)
      BY <3>4, ReturnTypes
         DEF ProbeBadChain, OsTypes, MapTypes, HistTypes, Results, ListenerStates
    <3>5. CASE StoreConn(t)
      <4>1. OsTypes' /\ MapTypes' /\ HistTypes'
        BY <3>5 DEF StoreConn, OsTypes, MapTypes, ReqTypes, HistTypes
      <4>2. ReqTypes'
        <5>1. CASE UdpKinds(call[t]) = {}
          BY <3>5, <5>1, ReturnTypes DEF StoreConn, Results
        <5>2. CASE UdpKinds(call[t]) # {}
          BY <3>5, <5>2 DEF StoreConn, ReqTypes, Goto
        <5> QED
          BY <5>1, <5>2
      <4> QED
        BY <4>1, <4>2
    <3>6. CASE NewUdp(t)
      <4>1. PICK u \in Udps, k \in UdpKinds(call[t]) :
              /\ udp' = [udp EXCEPT ![u] = [kind |-> k, port |-> call[t].port,
                                          st |-> "new", shut |-> FALSE]]
              /\ fwd' = [fwd EXCEPT ![t] = u]
        BY <3>6 DEF NewUdp
      <4>2. call[t].port \in Ports /\ k \in {"fwd", "nil", "proxy"}
        BY <3>6, CallFields DEF NewUdp, ReqTypes, UdpKinds
      <4>3. OsTypes' /\ MapTypes' /\ HistTypes'
        BY <3>6, <4>1, <4>2 DEF NewUdp, OsTypes, MapTypes, HistTypes, UdpObjects
      <4>4. ReqTypes'
        BY <3>6, <4>1 DEF NewUdp, ReqTypes, Goto
      <4> QED
        BY <4>3, <4>4
    <3>7. CASE StoreUdp(t)
      BY <3>7, ReturnTypes DEF StoreUdp, OsTypes, MapTypes, ReqTypes, HistTypes, Results
    <3> QED
      BY <2>2, <3>1, <3>2, <3>3, <3>4, <3>5, <3>6, <3>7 DEF AddStep
  <2>3. ASSUME NEW t \in Threads, DelStep(t) PROVE TypeOK'
    <3>1. CASE LoadConn(t)
      <4>1. call[t].old \in Ports
        BY <3>1, CallFields DEF LoadConn, ReqTypes
      <4>2. OsTypes' /\ MapTypes' /\ HistTypes'
        BY <3>1, <4>1 DEF LoadConn, OsTypes, MapTypes, HistTypes
      <4>3. ReqTypes'
        <5>1. CASE srcConn[call[t].old] = None
          BY <3>1, <5>1, DelPortReturnsTypes DEF LoadConn
        <5>2. CASE srcConn[call[t].old] # None
          BY <3>1, <4>1, <5>2 DEF LoadConn, MapTypes, ReqTypes, Goto
        <5> QED
          BY <5>1, <5>2
      <4> QED
        BY <4>2, <4>3
    <3>2. CASE DeleteConn(t)
      BY <3>2 DEF DeleteConn, OsTypes, MapTypes, ReqTypes, HistTypes, Goto
    <3>3. CASE CloseConn(t)
      BY <3>3 DEF CloseConn, OsTypes, MapTypes, ReqTypes, HistTypes, Goto, ListenerStates
    <3>4. CASE LoadUdp(t)
      <4>1. call[t].old \in Ports
        BY <3>4, CallFields DEF LoadUdp, ReqTypes
      <4>2. OsTypes' /\ MapTypes' /\ HistTypes'
        BY <3>4, <4>1 DEF LoadUdp, OsTypes, MapTypes, HistTypes
      <4>3. ReqTypes'
        <5>1. CASE srcUdp[call[t].old] = None
          BY <3>4, <5>1, DelPortReturnsTypes DEF LoadUdp
        <5>2. CASE srcUdp[call[t].old] # None
          BY <3>4, <4>1, <5>2 DEF LoadUdp, MapTypes, ReqTypes, Goto
        <5> QED
          BY <5>1, <5>2
      <4> QED
        BY <4>2, <4>3
    <3>5. CASE DeleteUdp(t)
      BY <3>5 DEF DeleteUdp, OsTypes, MapTypes, ReqTypes, HistTypes, Goto
    <3>6. CASE ShutUdp(t)
      <4>1. MapTypes' /\ HistTypes'
        BY <3>6 DEF ShutUdp, MapTypes, HistTypes
      <4>2. OsTypes'
        <5>1. CASE udp' = udp
          BY <3>6, <5>1 DEF ShutUdp, OsTypes
        <5>2. CASE udp' = [udp EXCEPT ![fwd[t]].shut = TRUE]
          BY ZenonT(40), <3>6, <5>2 DEF ShutUdp, OsTypes, UdpObjects
        <5> QED
          BY <3>6, <5>1, <5>2, Zenon DEF ShutUdp
      <4>3. ReqTypes'
        <5>1. CASE Return(t, "panic")
          BY <5>1, ReturnTypes DEF Results
        <5>2. CASE Goto(t, "closeUdp") /\ UNCHANGED <<call, res, conn, fwd>>
          BY <3>6, <5>2 DEF ShutUdp, ReqTypes, Goto
        <5> QED
          BY <3>6, <5>1, <5>2, Zenon DEF ShutUdp
      <4> QED
        BY <4>1, <4>2, <4>3
    <3>7. CASE CloseUdp(t)
      <4>1. MapTypes' /\ HistTypes'
        BY <3>7 DEF CloseUdp, MapTypes, HistTypes
      <4>2. OsTypes'
        <5>1. CASE UNCHANGED <<udpSock, udp>>
          BY <3>7, <5>1 DEF CloseUdp, OsTypes
        <5>2. CASE udpSock' = [udpSock EXCEPT ![udp[fwd[t]].port] = None]
                   /\ udp' = [udp EXCEPT ![fwd[t]].st = "closed"]
          BY ZenonT(40), <3>7, <5>2 DEF CloseUdp, OsTypes, UdpObjects
        <5> QED
          BY <3>7, <5>1, <5>2, Zenon DEF CloseUdp
      <4>3. ReqTypes'
        <5>1. CASE Return(t, "panic")
          BY <5>1, ReturnTypes DEF Results
        <5>2. CASE DelPortReturns(t)
          BY <3>7, <5>2, DelPortReturnsTypes DEF CloseUdp
        <5> QED
          BY <3>7, <5>1, <5>2, Zenon DEF CloseUdp
      <4> QED
        BY <4>1, <4>2, <4>3
    <3> QED
      BY <2>3, <3>1, <3>2, <3>3, <3>4, <3>5, <3>6, <3>7 DEF DelStep
  <2>4. ASSUME NEW t \in Threads, Listen(t) PROVE TypeOK'
    BY <2>4 DEF Listen, OsTypes, MapTypes, ReqTypes, HistTypes, ListenerStates
  <2>5. ASSUME NEW u \in Udps, StartUdp(u) PROVE TypeOK'
    <3>1. MapTypes' /\ ReqTypes' /\ HistTypes'
      BY <2>5 DEF StartUdp, MapTypes, ReqTypes, HistTypes
    <3>2. OsTypes'
      <4>1. CASE udpSock' = udpSock /\ udp' = [udp EXCEPT ![u].st = "failed"]
        BY <2>5, <4>1 DEF StartUdp, OsTypes, UdpObjects
      <4>2. CASE udpSock' = [udpSock EXCEPT ![udp[u].port] = u]
                 /\ udp' = [udp EXCEPT ![u].st = "open"]
        BY ZenonT(40), <2>5, <4>2 DEF StartUdp, OsTypes, UdpObjects
      <4> QED
        BY <2>5, <4>1, <4>2, Zenon DEF StartUdp
    <3> QED
      BY <3>1, <3>2
  <2>6. ASSUME Crash PROVE TypeOK'
    BY <2>6 DEF Crash, OsTypes, MapTypes, ReqTypes, HistTypes, ListenerStates, UdpObjects,
                NoUdp, NoCall, Results
  <2>7. ASSUME NEW u \in Udps, CollectUdp(u) PROVE TypeOK'
    <3>1. MapTypes' /\ ReqTypes' /\ HistTypes'
      BY <2>7 DEF CollectUdp, MapTypes, ReqTypes, HistTypes
    <3>2. OsTypes'
      BY <2>7 DEF CollectUdp, OsTypes, UdpObjects
    <3> QED
      BY <3>1, <3>2
  <2>8. CASE UNCHANGED vars
    BY <2>8 DEF vars, OsTypes, MapTypes, ReqTypes, HistTypes
  <2> QED
    BY <2>1, <2>2, <2>3, <2>4, <2>5, <2>6, <2>7, <2>8 DEF Next, NilStart
<1> QED
  BY <1>1, <1>2, PTL DEF Spec

-----------------------------------------------------------------------------
(* The TCP half of the table *)

(* A step of a request that is neither making nor closing a connector,     *)
(* before or after, and that touches no TCP state, preserves the invariant.*)
LEMMA QuietStep ==
  ASSUME TcpInv, NEW t \in Threads,
         ~Makes(t), ~Closes(t), ~Makes(t)', ~Closes(t)',
         UNCHANGED <<tcpSock, lst, srcConn, twin>>,
         \A s \in Threads \ {t} : pc'[s] = pc[s] /\ call'[s] = call[s] /\ conn'[s] = conn[s],
         conn'[t] \in {conn[t], None}
  PROVE  TcpInv'
<1> USE DEF TcpInv, Makes, Closes
<1>1. MapEntriesListen' /\ OwnerInjective'
  BY DEF MapEntriesListen, OwnerInjective
<1>2. MakerOwns'
  BY DEF MakerOwns
<1>3. MakerState'
  BY DEF MakerState
<1>4. CloserState'
  BY DEF CloserState
<1>5. TwinHistory'
  BY DEF TwinHistory
<1> QED
  BY <1>1, <1>2, <1>3, <1>4, <1>5

(* The listener table is sound wherever requests interleave.               *)
THEOREM TcpTable == Spec => []TcpInv
<1>1. Init => TcpInv
  BY DEF Init, TcpInv, MapEntriesListen, OwnerInjective, MakerOwns, MakerState, CloserState,
         TwinHistory, Makes, Closes
<1>2. TypeOK /\ TcpInv /\ [Next]_vars => TcpInv'
  <2> SUFFICES ASSUME TypeOK, TcpInv, [Next]_vars PROVE TcpInv'
    OBVIOUS
  <2> USE DEF osVars, mapVars, reqVars, histVars, Goto
  <2>1. ASSUME NEW t \in Threads, NEW c \in Calls, Invoke(t, c) PROVE TcpInv'
    <3>1. ~Makes(t) /\ ~Closes(t) /\ ~Makes(t)' /\ ~Closes(t)'
      BY <2>1 DEF Invoke, Makes, Closes, TypeOK, ReqTypes
    <3> QED
      BY <2>1, <3>1, QuietStep DEF Invoke, TypeOK, ReqTypes
  <2>2. ASSUME NEW t \in Threads, ProbeBind(t) PROVE TcpInv'
    <3> DEFINE p == call[t].port
    <3>1. PICK c \in Conns :
            /\ FreshConn(c)
            /\ conn' = [conn EXCEPT ![t] = c]
            /\ tcpSock' = [tcpSock EXCEPT ![p] = c]
            /\ lst' = [lst EXCEPT ![c] = "probing"]
      BY <2>2 DEF ProbeBind
    <3>2. p \in Ports /\ tcpSock[p] = None /\ srcConn[p] = None
      BY <2>2, CallFields DEF ProbeBind, TypeOK, ReqTypes, TcpInv, MapEntriesListen
    <3>3. /\ pc[t] = "probe" /\ pc' = [pc EXCEPT ![t] = "probeClose"]
          /\ UNCHANGED <<srcConn, call, twin>>
      BY <2>2 DEF ProbeBind
    <3>4. /\ tcpSock \in [Ports -> Conns \cup {None}] /\ lst \in [Conns -> ListenerStates]
          /\ conn \in [Threads -> Conns \cup {None}]
          /\ pc \in [Threads -> {"idle"} \cup AddSteps \cup DelSteps]
          /\ srcConn \in [Ports -> Conns \cup {None}]
      BY DEF TypeOK, OsTypes, MapTypes, ReqTypes
    <3>5. /\ \A q \in Ports : tcpSock[q] # c /\ srcConn[q] # c
          /\ \A s \in Threads : conn[s] # c
          /\ c # None
      BY <3>1, ConstantsAssumption DEF FreshConn
    <3>6. MapEntriesListen'
      BY <3>1, <3>2, <3>3, <3>4, <3>5
         DEF MapEntriesListen, TcpInv, OwnerInjective, MakerOwns, MakerState,
         CloserState, TwinHistory, Makes, Closes
    <3>7. OwnerInjective'
      BY <3>1, <3>2, <3>3, <3>4, <3>5
         DEF OwnerInjective, TcpInv, MapEntriesListen, MakerOwns, MakerState,
         CloserState, TwinHistory, Makes, Closes
    <3>8. MakerOwns'
      BY <3>1, <3>2, <3>3, <3>4, <3>5
         DEF MakerOwns, TcpInv, MapEntriesListen, OwnerInjective, MakerState,
         CloserState, TwinHistory, Makes, Closes
    <3>9. MakerState'
      BY <3>1, <3>2, <3>3, <3>4, <3>5
         DEF MakerState, TcpInv, MapEntriesListen, OwnerInjective, MakerOwns,
         CloserState, TwinHistory, Makes, Closes
    <3>10. CloserState'
      BY <3>1, <3>2, <3>3, <3>4, <3>5
         DEF CloserState, TcpInv, MapEntriesListen, OwnerInjective, MakerOwns,
         MakerState, TwinHistory, Makes, Closes
    <3>11. TwinHistory'
      BY <3>1, <3>2, <3>3, <3>4, <3>5
         DEF TwinHistory, TcpInv, MapEntriesListen, OwnerInjective, MakerOwns,
         MakerState, CloserState, Makes, Closes
    <3> QED
      BY <3>6, <3>7, <3>8, <3>9, <3>10, <3>11 DEF TcpInv
  <2>3. ASSUME NEW t \in Threads, ProbeInUse(t) \/ NewUdp(t) \/ StoreUdp(t) PROVE TcpInv'
    <3>1. ~Makes(t) /\ ~Closes(t) /\ ~Makes(t)' /\ ~Closes(t)'
      BY <2>3 DEF ProbeInUse, NewUdp, StoreUdp, Return, Makes, Closes, TypeOK, ReqTypes
    <3>2. UNCHANGED <<tcpSock, lst, srcConn, twin>>
      BY <2>3 DEF ProbeInUse, NewUdp, StoreUdp
    <3>3. /\ \A s \in Threads \ {t} : pc'[s] = pc[s] /\ call'[s] = call[s] /\ conn'[s] = conn[s]
          /\ conn'[t] \in {conn[t], None}
      BY <2>3 DEF ProbeInUse, NewUdp, StoreUdp, Return, DropLocals, TypeOK, ReqTypes
    <3> QED
      BY <3>1, <3>2, <3>3, QuietStep
  <2>4. ASSUME NEW t \in Threads, ProbeClose(t) PROVE TcpInv'
    <3> DEFINE p == call[t].port
               c == conn[t]
    <3>1. /\ pc[t] = "probeClose" /\ pc' = [pc EXCEPT ![t] = "storeConn"]
          /\ tcpSock' = [tcpSock EXCEPT ![p] = None]
          /\ lst' = [lst EXCEPT ![c] = "starting"]
          /\ UNCHANGED <<srcConn, call, conn, twin>>
      BY <2>4 DEF ProbeClose
    <3>2. p \in Ports
      BY <2>4, CallFields DEF ProbeClose, TypeOK, ReqTypes
    <3>3. /\ TcpInv
          /\ tcpSock \in [Ports -> Conns \cup {None}] /\ lst \in [Conns -> ListenerStates]
          /\ conn \in [Threads -> Conns \cup {None}]
          /\ pc \in [Threads -> {"idle"} \cup AddSteps \cup DelSteps]
          /\ srcConn \in [Ports -> Conns \cup {None}] /\ call \in [Threads -> Calls \cup {NoCall}]
      BY DEF TypeOK, OsTypes, MapTypes, ReqTypes
    <3>4. c \in Conns /\ tcpSock[p] = c /\ lst[c] = "probing" /\ c # None
      BY <3>1, <3>3 DEF TcpInv, MakerOwns, MakerState, Makes
    <3>5. MapEntriesListen'
      BY <3>1, <3>2, <3>3, <3>4
         DEF MapEntriesListen, TcpInv, OwnerInjective, MakerOwns, MakerState,
         CloserState, TwinHistory, Makes, Closes
    <3>6. OwnerInjective'
      BY <3>1, <3>2, <3>3, <3>4
         DEF OwnerInjective, TcpInv, MapEntriesListen, MakerOwns, MakerState,
         CloserState, TwinHistory, Makes, Closes
    <3>7. MakerOwns'
      BY <3>1, <3>2, <3>3, <3>4
         DEF MakerOwns, TcpInv, MapEntriesListen, OwnerInjective, MakerState,
         CloserState, TwinHistory, Makes, Closes
    <3>8. MakerState'
      BY <3>1, <3>2, <3>3, <3>4
         DEF MakerState, TcpInv, MapEntriesListen, OwnerInjective, MakerOwns,
         CloserState, TwinHistory, Makes, Closes
    <3>9. CloserState'
      BY <3>1, <3>2, <3>3, <3>4
         DEF CloserState, TcpInv, MapEntriesListen, OwnerInjective, MakerOwns,
         MakerState, TwinHistory, Makes, Closes
    <3>10. TwinHistory'
      BY <3>1, <3>2, <3>3, <3>4
         DEF TwinHistory, TcpInv, MapEntriesListen, OwnerInjective, MakerOwns,
         MakerState, CloserState, Makes, Closes
    <3> QED
      BY <3>5, <3>6, <3>7, <3>8, <3>9, <3>10 DEF TcpInv
  <2>5. ASSUME NEW t \in Threads, ProbeBadChain(t) PROVE TcpInv'
    <3> DEFINE p == call[t].port
               c == conn[t]
    <3>1. /\ pc[t] = "probeClose" /\ pc' = [pc EXCEPT ![t] = "idle"]
          /\ tcpSock' = [tcpSock EXCEPT ![p] = None]
          /\ lst' = [lst EXCEPT ![c] = "none"]
          /\ conn' = [conn EXCEPT ![t] = None] /\ call' = [call EXCEPT ![t] = NoCall]
          /\ UNCHANGED <<srcConn, twin>>
      BY <2>5 DEF ProbeBadChain, Return, DropLocals
    <3>2. p \in Ports
      BY <2>5, CallFields DEF ProbeBadChain, TypeOK, ReqTypes
    <3>3. /\ TcpInv
          /\ tcpSock \in [Ports -> Conns \cup {None}] /\ lst \in [Conns -> ListenerStates]
          /\ conn \in [Threads -> Conns \cup {None}]
          /\ pc \in [Threads -> {"idle"} \cup AddSteps \cup DelSteps]
          /\ srcConn \in [Ports -> Conns \cup {None}] /\ call \in [Threads -> Calls \cup {NoCall}]
      BY DEF TypeOK, OsTypes, MapTypes, ReqTypes
    <3>4. c \in Conns /\ tcpSock[p] = c /\ lst[c] = "probing" /\ c # None
      BY <3>1, <3>3 DEF TcpInv, MakerOwns, MakerState, Makes
    <3>5. MapEntriesListen'
      BY <3>1, <3>2, <3>3, <3>4
         DEF MapEntriesListen, TcpInv, OwnerInjective, MakerOwns, MakerState,
         CloserState, TwinHistory, Makes, Closes
    <3>6. OwnerInjective'
      BY <3>1, <3>2, <3>3, <3>4
         DEF OwnerInjective, TcpInv, MapEntriesListen, MakerOwns, MakerState,
         CloserState, TwinHistory, Makes, Closes
    <3>7. MakerOwns'
      BY <3>1, <3>2, <3>3, <3>4
         DEF MakerOwns, TcpInv, MapEntriesListen, OwnerInjective, MakerState,
         CloserState, TwinHistory, Makes, Closes
    <3>8. MakerState'
      BY <3>1, <3>2, <3>3, <3>4
         DEF MakerState, TcpInv, MapEntriesListen, OwnerInjective, MakerOwns,
         CloserState, TwinHistory, Makes, Closes
    <3>9. CloserState'
      BY <3>1, <3>2, <3>3, <3>4
         DEF CloserState, TcpInv, MapEntriesListen, OwnerInjective, MakerOwns,
         MakerState, TwinHistory, Makes, Closes
    <3>10. TwinHistory'
      BY <3>1, <3>2, <3>3, <3>4
         DEF TwinHistory, TcpInv, MapEntriesListen, OwnerInjective, MakerOwns,
         MakerState, CloserState, Makes, Closes
    <3> QED
      BY <3>5, <3>6, <3>7, <3>8, <3>9, <3>10 DEF TcpInv
  <2>6. ASSUME NEW t \in Threads, Listen(t) PROVE TcpInv'
    <3> DEFINE p == call[t].port
               c == conn[t]
    <3>1. /\ pc[t] = "storeConn" /\ lst[c] = "starting"
          /\ \/ /\ tcpSock[p] = None
                /\ tcpSock' = [tcpSock EXCEPT ![p] = c]
                /\ lst' = [lst EXCEPT ![c] = "listening"]
             \/ /\ lst' = [lst EXCEPT ![c] = "failed"]
                /\ tcpSock' = tcpSock
          /\ UNCHANGED <<srcConn, pc, call, conn, twin>>
      BY <2>6 DEF Listen
    <3>2. p \in Ports
      BY <2>6, CallFields DEF Listen, TypeOK, ReqTypes
    <3>3. /\ TcpInv
          /\ tcpSock \in [Ports -> Conns \cup {None}] /\ lst \in [Conns -> ListenerStates]
          /\ conn \in [Threads -> Conns \cup {None}]
          /\ pc \in [Threads -> {"idle"} \cup AddSteps \cup DelSteps]
          /\ srcConn \in [Ports -> Conns \cup {None}] /\ call \in [Threads -> Calls \cup {NoCall}]
      BY DEF TypeOK, OsTypes, MapTypes, ReqTypes
    <3>4. c \in Conns /\ c # None /\ \A q \in Ports : tcpSock[q] # c
      BY <3>1, <3>3 DEF TcpInv, MakerOwns, MakerState, Makes
    <3>5. MapEntriesListen'
      BY <3>1, <3>2, <3>3, <3>4
         DEF MapEntriesListen, TcpInv, OwnerInjective, MakerOwns, MakerState,
         CloserState, TwinHistory, Makes, Closes
    <3>6. OwnerInjective'
      BY <3>1, <3>2, <3>3, <3>4
         DEF OwnerInjective, TcpInv, MapEntriesListen, MakerOwns, MakerState,
         CloserState, TwinHistory, Makes, Closes
    <3>7. MakerOwns'
      BY <3>1, <3>2, <3>3, <3>4
         DEF MakerOwns, TcpInv, MapEntriesListen, OwnerInjective, MakerState,
         CloserState, TwinHistory, Makes, Closes
    <3>8. MakerState'
      <4>1. \A s \in Threads \ {t} : Makes(s) =>
              conn[s] \in Conns /\ conn[s] # None /\ conn[s] # c /\ call[s].port \in Ports
        BY <3>1, <3>3, <3>4, CallFields DEF TcpInv, MakerOwns, Makes, TypeOK, ReqTypes
      <4>2. CASE tcpSock[p] = None /\ tcpSock' = [tcpSock EXCEPT ![p] = c]
                 /\ lst' = [lst EXCEPT ![c] = "listening"]
        <5>1. \A q \in Ports : tcpSock'[q] = IF q = p THEN c ELSE tcpSock[q]
          BY <3>3, <4>2
        <5>2. \A s \in Threads \ {t} : Makes(s) => lst'[conn[s]] = lst[conn[s]]
          BY <3>3, <4>1, <4>2
        <5>3. lst'[c] = "listening" /\ tcpSock'[p] = c
          BY <3>2, <3>3, <3>4, <4>2
        <5> QED
          BY <3>1, <3>2, <3>3, <4>1, <4>2, <5>1, <5>2, <5>3 DEF TcpInv, MakerState, Makes
      <4>3. CASE lst' = [lst EXCEPT ![c] = "failed"] /\ tcpSock' = tcpSock
        BY <3>1, <3>2, <3>3, <3>4, <4>1, <4>3 DEF TcpInv, MakerState, Makes
      <4> QED
        BY <3>1, <4>2, <4>3
    <3>9. CloserState'
      BY <3>1, <3>2, <3>3, <3>4
         DEF CloserState, TcpInv, MapEntriesListen, OwnerInjective, MakerOwns,
         MakerState, TwinHistory, Makes, Closes
    <3>10. TwinHistory'
      BY <3>1, <3>2, <3>3, <3>4
         DEF TwinHistory, TcpInv, MapEntriesListen, OwnerInjective, MakerOwns,
         MakerState, CloserState, Makes, Closes
    <3> QED
      BY <3>5, <3>6, <3>7, <3>8, <3>9, <3>10 DEF TcpInv
  <2>7. ASSUME NEW t \in Threads, StoreConn(t) PROVE TcpInv'
    <3> DEFINE p == call[t].port
               c == conn[t]
    <3>1. /\ pc[t] = "storeConn" /\ lst[c] = "listening"
          /\ srcConn' = [srcConn EXCEPT ![p] = c]
          /\ UNCHANGED <<tcpSock, lst, twin>>
      BY <2>7 DEF StoreConn
    <3>2. p \in Ports
      BY <2>7, CallFields DEF StoreConn, TypeOK, ReqTypes
    <3>3. /\ TcpInv
          /\ tcpSock \in [Ports -> Conns \cup {None}] /\ lst \in [Conns -> ListenerStates]
          /\ conn \in [Threads -> Conns \cup {None}]
          /\ pc \in [Threads -> {"idle"} \cup AddSteps \cup DelSteps]
          /\ srcConn \in [Ports -> Conns \cup {None}] /\ call \in [Threads -> Calls \cup {NoCall}]
      BY DEF TypeOK, OsTypes, MapTypes, ReqTypes
    <3>4. c \in Conns /\ c # None /\ tcpSock[p] = c /\ srcConn[p] = None
      BY <3>1, <3>2, <3>3 DEF TcpInv, MakerOwns, MakerState, Makes, MapEntriesListen
    <3>5. /\ pc'[t] \in {"idle", "newUdp"} /\ conn'[t] \in {c, None}
          /\ \A s \in Threads \ {t} : pc'[s] = pc[s] /\ conn'[s] = conn[s] /\ call'[s] = call[s]
      BY <2>7, <3>3 DEF StoreConn, Return, DropLocals
    <3>6. MapEntriesListen'
      BY <3>1, <3>2, <3>3, <3>4, <3>5
         DEF MapEntriesListen, TcpInv, OwnerInjective, MakerOwns, MakerState,
         CloserState, TwinHistory, Makes, Closes
    <3>7. OwnerInjective'
      BY <3>1, <3>2, <3>3, <3>4, <3>5
         DEF OwnerInjective, TcpInv, MapEntriesListen, MakerOwns, MakerState,
         CloserState, TwinHistory, Makes, Closes
    <3>8. MakerOwns'
      BY <3>1, <3>2, <3>3, <3>4, <3>5
         DEF MakerOwns, TcpInv, MapEntriesListen, OwnerInjective, MakerState,
         CloserState, TwinHistory, Makes, Closes
    <3>9. MakerState'
      BY <3>1, <3>2, <3>3, <3>4, <3>5
         DEF MakerState, TcpInv, MapEntriesListen, OwnerInjective, MakerOwns,
         CloserState, TwinHistory, Makes, Closes
    <3>10. CloserState'
      BY <3>1, <3>2, <3>3, <3>4, <3>5
         DEF CloserState, TcpInv, MapEntriesListen, OwnerInjective, MakerOwns,
         MakerState, TwinHistory, Makes, Closes
    <3>11. TwinHistory'
      BY <3>1, <3>2, <3>3, <3>4, <3>5
         DEF TwinHistory, TcpInv, MapEntriesListen, OwnerInjective, MakerOwns,
         MakerState, CloserState, Makes, Closes
    <3> QED
      BY <3>6, <3>7, <3>8, <3>9, <3>10, <3>11 DEF TcpInv
  <2>8. ASSUME NEW t \in Threads, LoadConn(t) PROVE TcpInv'
    <3> DEFINE p == call[t].old
    <3>1. p \in Ports
      BY <2>8, CallFields DEF LoadConn, TypeOK, ReqTypes
    <3>2. CASE srcConn[p] = None
      <4>1. ~Makes(t) /\ ~Closes(t) /\ ~Makes(t)' /\ ~Closes(t)'
        BY <2>8, <3>2 DEF LoadConn, DelPortReturns, Return, Makes, Closes, TypeOK, ReqTypes
      <4>2. UNCHANGED <<tcpSock, lst, srcConn, twin>>
        BY <2>8, <3>2 DEF LoadConn
      <4>3. /\ \A s \in Threads \ {t} : pc'[s] = pc[s] /\ call'[s] = call[s] /\ conn'[s] = conn[s]
            /\ conn'[t] \in {conn[t], None}
        BY <2>8, <3>2 DEF LoadConn, DelPortReturns, Return, DropLocals, TypeOK, ReqTypes
      <4> QED
        BY <4>1, <4>2, <4>3, QuietStep
    <3>3. CASE srcConn[p] # None
      <4> DEFINE c == srcConn[p]
      <4>1. /\ pc[t] = "loadConn" /\ pc' = [pc EXCEPT ![t] = "deleteConn"]
            /\ conn' = [conn EXCEPT ![t] = c]
            /\ twin' = twin \cup { q \in {p} :
                         \E s \in Threads : pc[s] = "deleteConn" /\ call[s].old = q }
            /\ UNCHANGED <<tcpSock, lst, srcConn, call>>
        BY <2>8, <3>3 DEF LoadConn
      <4>2. /\ TcpInv
            /\ tcpSock \in [Ports -> Conns \cup {None}] /\ lst \in [Conns -> ListenerStates]
            /\ conn \in [Threads -> Conns \cup {None}]
            /\ pc \in [Threads -> {"idle"} \cup AddSteps \cup DelSteps]
            /\ srcConn \in [Ports -> Conns \cup {None}] /\ call \in [Threads -> Calls \cup {NoCall}]
        BY DEF TypeOK, OsTypes, MapTypes, ReqTypes
      <4>3. c \in Conns /\ tcpSock[p] = c /\ lst[c] = "listening"
        BY <3>1, <3>3, <4>2 DEF TcpInv, MapEntriesListen
      <4>4. MapEntriesListen'
        BY <3>1, <3>3, <4>1, <4>2, <4>3
           DEF MapEntriesListen, TcpInv, OwnerInjective, MakerOwns, MakerState,
           CloserState, TwinHistory, Makes, Closes
      <4>5. OwnerInjective'
        BY <3>1, <3>3, <4>1, <4>2, <4>3
           DEF OwnerInjective, TcpInv, MapEntriesListen, MakerOwns, MakerState,
           CloserState, TwinHistory, Makes, Closes
      <4>6. MakerOwns'
        BY <3>1, <3>3, <4>1, <4>2, <4>3
           DEF MakerOwns, TcpInv, MapEntriesListen, OwnerInjective, MakerState,
           CloserState, TwinHistory, Makes, Closes
      <4>7. MakerState'
        BY <3>1, <3>3, <4>1, <4>2, <4>3
           DEF MakerState, TcpInv, MapEntriesListen, OwnerInjective, MakerOwns,
           CloserState, TwinHistory, Makes, Closes
      <4>8. CloserState'
        BY <3>1, <3>3, <4>1, <4>2, <4>3
           DEF CloserState, TcpInv, MapEntriesListen, OwnerInjective, MakerOwns,
           MakerState, TwinHistory, Makes, Closes
      <4>9. TwinHistory'
        BY <3>1, <3>3, <4>1, <4>2, <4>3
           DEF TwinHistory, TcpInv, MapEntriesListen, OwnerInjective, MakerOwns,
           MakerState, CloserState, Makes, Closes
      <4> QED
        BY <4>4, <4>5, <4>6, <4>7, <4>8, <4>9 DEF TcpInv
    <3> QED
      BY <3>2, <3>3
  <2>9. ASSUME NEW t \in Threads, DeleteConn(t) PROVE TcpInv'
    <3> DEFINE p == call[t].old
               c == conn[t]
    <3>1. /\ pc[t] = "deleteConn" /\ pc' = [pc EXCEPT ![t] = "closeConn"]
          /\ srcConn' = [srcConn EXCEPT ![p] = None]
          /\ UNCHANGED <<tcpSock, lst, conn, call, twin>>
      BY <2>9 DEF DeleteConn
    <3>2. p \in Ports
      BY <2>9, CallFields DEF DeleteConn, TypeOK, ReqTypes
    <3>3. /\ TcpInv
          /\ tcpSock \in [Ports -> Conns \cup {None}] /\ lst \in [Conns -> ListenerStates]
          /\ conn \in [Threads -> Conns \cup {None}]
          /\ pc \in [Threads -> {"idle"} \cup AddSteps \cup DelSteps]
          /\ srcConn \in [Ports -> Conns \cup {None}] /\ call \in [Threads -> Calls \cup {NoCall}]
      BY DEF TypeOK, OsTypes, MapTypes, ReqTypes
    <3>4. MapEntriesListen'
      BY <3>1, <3>2, <3>3
         DEF MapEntriesListen, TcpInv, OwnerInjective, MakerOwns, MakerState,
         CloserState, TwinHistory, Makes, Closes
    <3>5. OwnerInjective'
      BY <3>1, <3>2, <3>3
         DEF OwnerInjective, TcpInv, MapEntriesListen, MakerOwns, MakerState,
         CloserState, TwinHistory, Makes, Closes
    <3>6. MakerOwns'
      BY <3>1, <3>2, <3>3
         DEF MakerOwns, TcpInv, MapEntriesListen, OwnerInjective, MakerState,
         CloserState, TwinHistory, Makes, Closes
    <3>7. MakerState'
      BY <3>1, <3>2, <3>3
         DEF MakerState, TcpInv, MapEntriesListen, OwnerInjective, MakerOwns,
         CloserState, TwinHistory, Makes, Closes
    <3>8. CloserState'
      BY <3>1, <3>2, <3>3
         DEF CloserState, TcpInv, MapEntriesListen, OwnerInjective, MakerOwns,
         MakerState, TwinHistory, Makes, Closes
    <3>9. TwinHistory'
      BY <3>1, <3>2, <3>3
         DEF TwinHistory, TcpInv, MapEntriesListen, OwnerInjective, MakerOwns,
         MakerState, CloserState, Makes, Closes
    <3> QED
      BY <3>4, <3>5, <3>6, <3>7, <3>8, <3>9 DEF TcpInv
  <2>10. ASSUME NEW t \in Threads, CloseConn(t) PROVE TcpInv'
    <3> DEFINE p == call[t].old
               c == conn[t]
    <3>1. /\ pc[t] = "closeConn" /\ pc' = [pc EXCEPT ![t] = "loadUdp"]
          /\ tcpSock' = [tcpSock EXCEPT ![p] = IF @ = c THEN None ELSE @]
          /\ lst' = [lst EXCEPT ![c] = "closed"]
          /\ conn' = [conn EXCEPT ![t] = None]
          /\ UNCHANGED <<srcConn, call, twin>>
      BY <2>10 DEF CloseConn
    <3>2. p \in Ports
      BY <2>10, CallFields DEF CloseConn, TypeOK, ReqTypes
    <3>3. /\ TcpInv
          /\ tcpSock \in [Ports -> Conns \cup {None}] /\ lst \in [Conns -> ListenerStates]
          /\ conn \in [Threads -> Conns \cup {None}]
          /\ pc \in [Threads -> {"idle"} \cup AddSteps \cup DelSteps]
          /\ srcConn \in [Ports -> Conns \cup {None}] /\ call \in [Threads -> Calls \cup {NoCall}]
      BY DEF TypeOK, OsTypes, MapTypes, ReqTypes
    <3>4. /\ c \in Conns /\ c # None
          /\ \A q \in Ports : srcConn[q] # c /\ (tcpSock[q] = c => q = p)
          /\ \A q \in Ports : tcpSock'[q] = IF tcpSock[q] = c THEN None ELSE tcpSock[q]
      BY <3>1, <3>2, <3>3 DEF TcpInv, CloserState, Closes
    <3>5. MapEntriesListen'
      BY <3>1, <3>2, <3>3, <3>4
         DEF MapEntriesListen, TcpInv, OwnerInjective, MakerOwns, MakerState,
         CloserState, TwinHistory, Makes, Closes
    <3>6. OwnerInjective'
      BY <3>1, <3>2, <3>3, <3>4
         DEF OwnerInjective, TcpInv, MapEntriesListen, MakerOwns, MakerState,
         CloserState, TwinHistory, Makes, Closes
    <3>7. MakerOwns'
      BY <3>1, <3>2, <3>3, <3>4
         DEF MakerOwns, TcpInv, MapEntriesListen, OwnerInjective, MakerState,
         CloserState, TwinHistory, Makes, Closes
    <3>8. MakerState'
      BY <3>1, <3>2, <3>3, <3>4
         DEF MakerState, TcpInv, MapEntriesListen, OwnerInjective, MakerOwns,
         CloserState, TwinHistory, Makes, Closes
    <3>9. CloserState'
      BY <3>1, <3>2, <3>3, <3>4
         DEF CloserState, TcpInv, MapEntriesListen, OwnerInjective, MakerOwns,
         MakerState, TwinHistory, Makes, Closes
    <3>10. TwinHistory'
      BY <3>1, <3>2, <3>3, <3>4
         DEF TwinHistory, TcpInv, MapEntriesListen, OwnerInjective, MakerOwns,
         MakerState, CloserState, Makes, Closes
    <3> QED
      BY <3>5, <3>6, <3>7, <3>8, <3>9, <3>10 DEF TcpInv
  <2>11. ASSUME NEW t \in Threads, LoadUdp(t) \/ DeleteUdp(t) \/ ShutUdp(t) \/ CloseUdp(t)
         PROVE  TcpInv'
    <3>1. UNCHANGED <<tcpSock, lst, srcConn, twin>>
      BY <2>11 DEF LoadUdp, DeleteUdp, ShutUdp, CloseUdp
    <3>2. pc[t] \in {"loadUdp", "deleteUdp", "shutUdp", "closeUdp"}
      BY <2>11 DEF LoadUdp, DeleteUdp, ShutUdp, CloseUdp
    <3>3. \/ \E step \in {"deleteUdp", "shutUdp", "closeUdp"} : Goto(t, step) /\ UNCHANGED <<call, conn>>
          \/ DelPortReturns(t)
          \/ Return(t, "panic")
      BY <2>11, Zenon DEF LoadUdp, DeleteUdp, ShutUdp, CloseUdp
    <3>4. ~Makes(t) /\ ~Closes(t) /\ ~Makes(t)' /\ ~Closes(t)'
      BY <3>2, <3>3 DEF DelPortReturns, Return, Makes, Closes, TypeOK, ReqTypes
    <3>5. /\ \A s \in Threads \ {t} : pc'[s] = pc[s] /\ call'[s] = call[s] /\ conn'[s] = conn[s]
          /\ conn'[t] \in {conn[t], None}
      BY <3>2, <3>3 DEF DelPortReturns, Return, DropLocals, TypeOK, ReqTypes
    <3> QED
      BY <3>1, <3>4, <3>5, QuietStep
  <2>12. ASSUME NEW u \in Udps, StartUdp(u) \/ CollectUdp(u) PROVE TcpInv'
    BY <2>12
       DEF StartUdp, CollectUdp, TcpInv, MapEntriesListen, OwnerInjective, MakerOwns,
       MakerState,
                 CloserState, TwinHistory, Makes, Closes
  <2>13. ASSUME Crash PROVE TcpInv'
    BY <2>13 DEF Crash, TcpInv, MapEntriesListen, OwnerInjective, MakerOwns, MakerState,
                 CloserState, TwinHistory, Makes, Closes
  <2>14. CASE UNCHANGED vars
    BY <2>14 DEF vars, TcpInv, MapEntriesListen, OwnerInjective, MakerOwns, MakerState,
                 CloserState, TwinHistory, Makes, Closes
  <2> QED
    BY <2>1, <2>2, <2>3, <2>4, <2>5, <2>6, <2>7, <2>8, <2>9, <2>10, <2>11, <2>12, <2>13, <2>14
       DEF Next, AddStep, DelStep, NilStart
<1> QED
  BY <1>1, <1>2, TypeCorrect, PTL DEF Spec

(* DelPort never finds a dead listener: what the map records serves.       *)
THEOREM MapEntriesAlwaysListen == Spec => []MapEntriesListen
BY TcpTable, PTL DEF TcpInv

(* A TCP listener is lost only when two DelPorts held its entry at once.   *)
THEOREM OrphanOnlyByTwinDelete == Spec => []TcpOrphanOnlyByTwinDelete
<1>1. TcpInv => TcpOrphanOnlyByTwinDelete
  BY DEF TcpInv, TwinHistory, TcpOrphanOnlyByTwinDelete, TcpOrphan
<1> QED
  BY <1>1, TcpTable, PTL

(* Storing a listener never replaces another one.                          *)
THEOREM NeverReplaces == Spec => StoreNeverReplaces
<1> DEFINE Keeps == \A p \in Ports : srcConn'[p] \notin {None, srcConn[p]} => srcConn[p] = None
<1>1. TypeOK /\ TcpInv /\ [Next]_vars => [Keeps]_vars
  <2> SUFFICES ASSUME TypeOK, TcpInv, Next, NEW p \in Ports, srcConn[p] # None,
                      srcConn'[p] # srcConn[p]
               PROVE  srcConn'[p] = None
    BY DEF vars, mapVars
  <2> USE DEF osVars, mapVars, reqVars, histVars
  <2>1. ASSUME NEW t \in Threads, StoreConn(t) PROVE srcConn'[p] = None
    <3>1. call[t].port = p /\ conn[t] # srcConn[p] /\ tcpSock[p] = conn[t]
      BY <2>1 DEF StoreConn, TypeOK, MapTypes, TcpInv, MakerOwns, MakerState, Makes
    <3> QED
      BY <3>1 DEF TcpInv, MapEntriesListen
  <2>2. ASSUME NEW t \in Threads, DeleteConn(t) PROVE srcConn'[p] = None
    BY <2>2 DEF DeleteConn, TypeOK, MapTypes
  <2>3. ASSUME Crash PROVE srcConn'[p] = None
    BY <2>3 DEF Crash
  <2>4. ASSUME NEW t \in Threads,
               \/ ProbeBind(t) \/ ProbeInUse(t) \/ ProbeClose(t) \/ ProbeBadChain(t)
               \/ NewUdp(t) \/ StoreUdp(t) \/ Listen(t)
        PROVE  FALSE
    BY <2>4 DEF ProbeBind, ProbeInUse, ProbeClose, ProbeBadChain, NewUdp, StoreUdp, Listen
  <2>5. ASSUME NEW t \in Threads,
               LoadConn(t) \/ CloseConn(t) \/ LoadUdp(t) \/ DeleteUdp(t) \/ ShutUdp(t) \/ CloseUdp(t)
        PROVE  FALSE
    BY <2>5, Zenon DEF LoadConn, CloseConn, LoadUdp, DeleteUdp, ShutUdp, CloseUdp
  <2>6. ASSUME NEW u \in Udps, StartUdp(u) \/ CollectUdp(u) PROVE FALSE
    BY <2>6 DEF StartUdp, CollectUdp
  <2>7. ASSUME NEW t \in Threads, NEW c \in Calls, Invoke(t, c) PROVE FALSE
    BY <2>7 DEF Invoke
  <2> QED
    BY <2>1, <2>2, <2>3, <2>4, <2>5, <2>6, <2>7 DEF Next, AddStep, DelStep, NilStart
<1> QED
  BY <1>1, TypeCorrect, TcpTable, PTL DEF Spec, StoreNeverReplaces

-----------------------------------------------------------------------------
(* The UDP half of the table, and requests alone on their port *)

(* Two requests in progress share a port only where that is recorded.      *)
LEMMA Alone ==
  ASSUME OneAtATime, NEW t \in Threads, pc[t] # "idle",
         NEW p, p = call[t].port \/ p = call[t].old
  PROVE  \A s \in Threads \ {t} :
           pc[s] # "idle" /\ (call[s].port = p \/ call[s].old = p) => p \in overlap
BY DEF OneAtATime, CallPorts

(* A step of one request that starts no call and records no overlap keeps  *)
(* that.                                                                   *)
LEMMA OneKeeps ==
  ASSUME OneAtATime, NEW t \in Threads,
         pc'[t] = "idle" \/ (pc[t] # "idle" /\ call'[t] = call[t]),
         \A s \in Threads \ {t} : pc'[s] = pc[s] /\ call'[s] = call[s],
         overlap' = overlap, twin' \subseteq overlap
  PROVE  OneAtATime'
BY DEF OneAtATime, CallPorts

(* What the end of a DelPort and an answer do to the requests.             *)
LEMMA ReturnFrame ==
  ASSUME TypeOK, NEW t \in Threads, NEW r, Return(t, r)
  PROVE  /\ pc'[t] = "idle" /\ conn'[t] = None /\ fwd'[t] = None
         /\ \A s \in Threads \ {t} : /\ pc'[s] = pc[s] /\ call'[s] = call[s]
                                     /\ conn'[s] = conn[s] /\ fwd'[s] = fwd[s]
BY DEF Return, Goto, DropLocals, TypeOK, ReqTypes

(* A DelPort that is done is answered or goes on to bind the new port.     *)
LEMMA DelPortReturnsFrame ==
  ASSUME TypeOK, NEW t \in Threads, DelPortReturns(t)
  PROVE  /\ pc'[t] = "idle" \/ (pc'[t] = "probe" /\ call'[t] = call[t])
         /\ conn'[t] = None /\ fwd'[t] = None
         /\ \A s \in Threads \ {t} : /\ pc'[s] = pc[s] /\ call'[s] = call[s]
                                     /\ conn'[s] = conn[s] /\ fwd'[s] = fwd[s]
<1>1. CASE call[t].op = "ModifyRule"
  BY <1>1 DEF DelPortReturns, Goto, DropLocals, TypeOK, ReqTypes
<1>2. CASE call[t].op # "ModifyRule"
  BY <1>2, ReturnFrame DEF DelPortReturns
<1> QED
  BY <1>1, <1>2

(* A step of one request that leaves every socket, object and map entry    *)
(* alone and takes or leaves nothing the invariant speaks of.              *)
LEMMA QuietUdpStep ==
  ASSUME UdpInv, NEW t \in Threads,
         UNCHANGED <<tcpSock, udpSock, lst, udp, srcConn, srcUdp, overlap, early>>,
         twin' \subseteq overlap,
         pc'[t] \in {"idle", "probe", "loadConn"},
         pc'[t] = "idle" \/ (pc[t] # "idle" /\ call'[t] = call[t]),
         pc[t] \notin {"closeConn", "loadUdp", "deleteUdp", "shutUdp", "closeUdp", "storeUdp"},
         \A s \in Threads \ {t} : /\ pc'[s] = pc[s] /\ call'[s] = call[s]
                                  /\ conn'[s] = conn[s] /\ fwd'[s] = fwd[s]
  PROVE  UdpInv'
<1> USE DEF UdpInv
<1>1. OneAtATime'
  BY OneKeeps
<1>2. UdpOwner'
  BY DEF UdpOwner
<1>3. UdpHeld'
  BY DEF UdpHeld
<1>4. AddAlone'
  BY DEF AddAlone
<1>5. DelAlone'
  BY DEF DelAlone, Closes
<1>6. UdpBesideTcp'
  BY DEF UdpBesideTcp
<1>7. UdpAccounted'
  BY DEF UdpAccounted, Holds
<1> QED
  BY <1>1, <1>2, <1>3, <1>4, <1>5, <1>6, <1>7

(* A step of an AddRule or AddChain that leaves the UDP sockets, objects   *)
(* and entries alone.                                                      *)
LEMMA TcpStepKeepsUdp ==
  ASSUME UdpInv, NEW t \in Threads,
         UNCHANGED <<udpSock, udp, srcUdp, overlap, early, fwd, call>>,
         pc[t] \notin {"deleteUdp", "shutUdp", "closeUdp", "storeUdp"},
         pc'[t] \notin {"deleteUdp", "shutUdp", "closeUdp", "storeUdp"},
         \A s \in Threads \ {t} : pc'[s] = pc[s]
  PROVE  UdpOwner' /\ UdpHeld' /\ UdpAccounted'
<1> USE DEF UdpInv
<1>1. UdpOwner'
  BY DEF UdpOwner
<1>2. UdpHeld'
  BY DEF UdpHeld
<1>3. UdpAccounted'
  BY DEF UdpAccounted, Holds
<1> QED
  BY <1>1, <1>2, <1>3

(* A request arrives: the ports it shares are recorded.                    *)
LEMMA UdpInvoke ==
  ASSUME TypeOK, UdpInv, NEW t \in Threads, NEW c \in Calls, Invoke(t, c)
  PROVE  UdpInv'
<1> USE DEF UdpInv
<1>1. /\ UNCHANGED <<tcpSock, udpSock, lst, udp, srcConn, srcUdp, conn, fwd, twin, early>>
      /\ overlap \subseteq overlap'
      /\ pc[t] = "idle" /\ pc'[t] \in {"probe", "loadConn"} /\ call'[t] = c
      /\ \A s \in Threads \ {t} : pc'[s] = pc[s] /\ call'[s] = call[s]
  BY DEF Invoke, Goto, osVars, mapVars, TypeOK, ReqTypes
<1>2. OneAtATime'
  <2>1. overlap' = overlap \cup { p \in CallPorts(c) :
              \E u \in Threads : Active(u) /\ p \in CallPorts(call[u]) }
    BY DEF Invoke
  <2>2. Serial => overlap' = overlap
    BY DEF Invoke
  <2>3. twin' \subseteq overlap'
    BY <1>1 DEF OneAtATime
  <2>4. ASSUME NEW s1 \in Threads, NEW s2 \in Threads, s1 # s2, Active(s1)', Active(s2)'
        PROVE  CallPorts(call'[s1]) \cap CallPorts(call'[s2]) \subseteq overlap'
    <3>1. CASE s1 # t /\ s2 # t
      BY <1>1, <2>4, <3>1 DEF OneAtATime
    <3>2. CASE s1 = t
      BY <1>1, <2>1, <2>4, <3>2
    <3>3. CASE s2 = t
      BY <1>1, <2>1, <2>4, <3>3
    <3> QED
      BY <3>1, <3>2, <3>3
  <2> QED
    BY <2>2, <2>3, <2>4 DEF OneAtATime, CallPorts
<1>3. UdpOwner' /\ UdpHeld'
  BY <1>1 DEF UdpOwner, UdpHeld
<1>4. AddAlone'
  BY <1>1 DEF AddAlone
<1>5. DelAlone'
  BY <1>1 DEF DelAlone, Closes
<1>6. UdpBesideTcp'
  BY <1>1 DEF UdpBesideTcp
<1>7. UdpAccounted'
  BY <1>1 DEF UdpAccounted, Holds
<1> QED
  BY <1>2, <1>3, <1>4, <1>5, <1>6, <1>7

(* The probe finds the port free: no listener and no UDP object is left.   *)
LEMMA UdpProbeBind ==
  ASSUME TypeOK, TcpInv, UdpInv, NEW t \in Threads, ProbeBind(t)
  PROVE  UdpInv'
<1> DEFINE p == call[t].port
<1> USE DEF UdpInv
<1>1. PICK c \in Conns :
        /\ FreshConn(c)
        /\ conn' = [conn EXCEPT ![t] = c]
        /\ tcpSock' = [tcpSock EXCEPT ![p] = c]
        /\ lst' = [lst EXCEPT ![c] = "probing"]
  BY DEF ProbeBind
<1>2. /\ pc[t] = "probe" /\ pc' = [pc EXCEPT ![t] = "probeClose"]
      /\ UNCHANGED <<udpSock, udp, srcConn, srcUdp, call, fwd, overlap, twin, early>>
      /\ tcpSock[p] = None
  BY DEF ProbeBind, Goto, mapVars, histVars
<1>3. /\ tcpSock \in [Ports -> Conns \cup {None}] /\ lst \in [Conns -> ListenerStates]
      /\ conn \in [Threads -> Conns \cup {None}] /\ p \in Ports
      /\ pc \in [Threads -> {"idle"} \cup AddSteps \cup DelSteps]
  BY <1>2, CallFields DEF TypeOK, OsTypes, ReqTypes
<1>4. /\ \A s \in Threads \ {t} :
           pc[s] # "idle" /\ (call[s].port = p \/ call[s].old = p) => p \in overlap
      /\ \A s \in Threads : conn[s] # c
      /\ \A s \in Threads \ {t} : pc'[s] = pc[s] /\ conn'[s] = conn[s]
      /\ pc'[t] = "probeClose"
      /\ \A q \in Ports : q # p => tcpSock'[q] = tcpSock[q]
      /\ \A d \in Conns : d # c => lst'[d] = lst[d]
  BY <1>1, <1>2, <1>3, Alone DEF FreshConn
<1>5. srcConn[p] = None
  BY <1>2, <1>3 DEF TcpInv, MapEntriesListen
<1>6. OneAtATime'
  BY <1>2, <1>3, OneKeeps DEF OneAtATime
<1>7. UdpOwner' /\ UdpHeld' /\ UdpAccounted'
  BY <1>2, <1>3, TcpStepKeepsUdp
<1>8. AddAlone'
  <2>1. p \notin overlap => srcUdp[p] = None
    BY <1>2, <1>3, <1>4, <1>5 DEF UdpBesideTcp
  <2>2. ASSUME NEW s \in Threads \ {t}, pc[s] = "storeConn", call[s].port \notin overlap
        PROVE  tcpSock'[call[s].port] = tcpSock[call[s].port] /\ lst'[conn[s]] = lst[conn[s]]
    BY <1>3, <1>4, <2>2, CallFields DEF TypeOK, ReqTypes, TcpInv, MakerOwns, Makes
  <2> QED
    BY <1>2, <1>4, <2>1, <2>2 DEF AddAlone
<1>9. DelAlone'
  <2>1. ASSUME NEW s \in Threads \ {t}, pc[s] # "idle", call[s].old \notin overlap
        PROVE  /\ tcpSock'[call[s].old] = tcpSock[call[s].old]
               /\ Closes(s) => lst'[conn[s]] = lst[conn[s]]
    BY <1>3, <1>4, <2>1, CallFields DEF TypeOK, ReqTypes, TcpInv, CloserState
  <2> QED
    BY <1>2, <1>4, <2>1 DEF DelAlone, Closes
<1>10. UdpBesideTcp'
  BY <1>2, <1>4 DEF UdpBesideTcp
<1> QED
  BY <1>6, <1>7, <1>8, <1>9, <1>10

(* The probe is closed, by a request that goes on or that ends.            *)
LEMMA UdpProbeClose ==
  ASSUME TypeOK, TcpInv, UdpInv, NEW t \in Threads, ProbeClose(t) \/ ProbeBadChain(t)
  PROVE  UdpInv'
<1> DEFINE p == call[t].port
           c == conn[t]
<1> USE DEF UdpInv
<1>1. /\ pc[t] = "probeClose"
      /\ tcpSock' = [tcpSock EXCEPT ![p] = None]
      /\ UNCHANGED <<udpSock, udp, srcConn, srcUdp, overlap, twin, early>>
  BY DEF ProbeClose, ProbeBadChain, mapVars, histVars
<1>2. /\ lst' = [lst EXCEPT ![c] = "starting"] \/ lst' = [lst EXCEPT ![c] = "none"]
      /\ \/ pc'[t] = "idle"
         \/ pc'[t] = "storeConn" /\ lst'[c] = "starting" /\ call'[t] = call[t] /\ conn'[t] = c
      /\ \A s \in Threads \ {t} : /\ pc'[s] = pc[s] /\ call'[s] = call[s]
                                  /\ conn'[s] = conn[s] /\ fwd'[s] = fwd[s]
  <2>1. c \in Conns
    BY <1>1, ConstantsAssumption DEF TypeOK, ReqTypes, TcpInv, MakerOwns, Makes
  <2>2. CASE ProbeClose(t)
    BY <2>1, <2>2 DEF ProbeClose, Goto, TypeOK, ReqTypes, OsTypes
  <2>3. CASE ProbeBadChain(t)
    BY <2>3, ReturnFrame DEF ProbeBadChain
  <2> QED
    BY <2>2, <2>3
<1>3. /\ tcpSock \in [Ports -> Conns \cup {None}] /\ lst \in [Conns -> ListenerStates]
      /\ p \in Ports
  BY <1>1, CallFields DEF TypeOK, OsTypes, ReqTypes
<1>4. /\ \A s \in Threads \ {t} :
           pc[s] # "idle" /\ (call[s].port = p \/ call[s].old = p) => p \in overlap
      /\ \A s \in Threads \ {t} : conn[s] # c
      /\ \A q \in Ports : q # p => tcpSock'[q] = tcpSock[q]
      /\ \A d \in Conns : d # c => lst'[d] = lst[d]
  BY <1>1, <1>2, <1>3, Alone DEF TcpInv, MakerOwns, Makes
<1>5. OneAtATime'
  BY <1>1, <1>2, OneKeeps DEF OneAtATime
<1>6. UdpOwner' /\ UdpHeld' /\ UdpAccounted'
  <2>1. UdpOwner'
    BY <1>1 DEF UdpOwner
  <2>2. UdpHeld'
    BY <1>1, <1>2 DEF UdpHeld
  <2>3. UdpAccounted'
    BY <1>1, <1>2 DEF UdpAccounted, Holds
  <2> QED
    BY <2>1, <2>2, <2>3
<1>7. AddAlone'
  <2>1. ASSUME NEW s \in Threads \ {t}, pc[s] = "storeConn", call[s].port \notin overlap
        PROVE  tcpSock'[call[s].port] = tcpSock[call[s].port] /\ lst'[conn[s]] = lst[conn[s]]
    BY <1>3, <1>4, <2>1, CallFields DEF TypeOK, ReqTypes, TcpInv, MakerOwns, Makes
  <2>2. p \notin overlap => srcUdp[p] = None
    BY <1>1 DEF AddAlone
  <2> QED
    BY <1>1, <1>2, <1>3, <2>1, <2>2 DEF AddAlone
<1>8. DelAlone'
  <2>1. ASSUME NEW s \in Threads \ {t}, pc[s] # "idle", call[s].old \notin overlap
        PROVE  /\ tcpSock'[call[s].old] = tcpSock[call[s].old]
               /\ Closes(s) => lst'[conn[s]] = lst[conn[s]]
    BY <1>3, <1>4, <2>1, CallFields DEF TypeOK, ReqTypes, TcpInv, CloserState
  <2> QED
    BY <1>1, <1>2, <2>1 DEF DelAlone, Closes
<1>9. UdpBesideTcp'
  BY <1>1, <1>2 DEF UdpBesideTcp
<1> QED
  BY <1>5, <1>6, <1>7, <1>8, <1>9

(* Listen finds the port still free for a request that is alone on it.     *)
LEMMA UdpListen ==
  ASSUME TypeOK, TcpInv, UdpInv, NEW t \in Threads, Listen(t)
  PROVE  UdpInv'
<1> DEFINE p == call[t].port
           c == conn[t]
<1> USE DEF UdpInv
<1>1. /\ pc[t] = "storeConn" /\ lst[c] = "starting"
      /\ \/ tcpSock[p] = None /\ lst' = [lst EXCEPT ![c] = "listening"]
                              /\ tcpSock' = [tcpSock EXCEPT ![p] = c]
         \/ tcpSock[p] # None /\ lst' = [lst EXCEPT ![c] = "failed"] /\ tcpSock' = tcpSock
      /\ UNCHANGED <<udpSock, udp, srcConn, srcUdp, pc, call, conn, fwd, overlap, twin, early>>
  BY DEF Listen, mapVars, reqVars, histVars
<1>2. /\ tcpSock \in [Ports -> Conns \cup {None}] /\ lst \in [Conns -> ListenerStates]
      /\ p \in Ports
  BY <1>1, CallFields DEF TypeOK, OsTypes, ReqTypes
<1>3. /\ \A s \in Threads \ {t} :
           pc[s] # "idle" /\ (call[s].port = p \/ call[s].old = p) => p \in overlap
      /\ \A s \in Threads \ {t} : conn[s] # c
      /\ \A q \in Ports : q # p => tcpSock'[q] = tcpSock[q]
      /\ \A d \in Conns : d # c => lst'[d] = lst[d]
  BY <1>1, <1>2, Alone DEF TcpInv, MakerOwns, Makes
<1>4. p \notin overlap => lst'[c] = "listening"
  <2>1. c \in Conns
    BY <1>1, ConstantsAssumption DEF TypeOK, ReqTypes, TcpInv, MakerOwns, Makes
  <2> QED
    BY <1>1, <1>2, <2>1 DEF AddAlone
<1>5. OneAtATime'
  BY <1>1, OneKeeps DEF OneAtATime
<1>6. UdpOwner' /\ UdpHeld' /\ UdpAccounted'
  BY <1>1, TcpStepKeepsUdp
<1>7. AddAlone'
  <2>1. ASSUME NEW s \in Threads \ {t}, pc[s] = "storeConn", call[s].port \notin overlap
        PROVE  tcpSock'[call[s].port] = tcpSock[call[s].port] /\ lst'[conn[s]] = lst[conn[s]]
    BY <1>2, <1>3, <2>1, CallFields DEF TypeOK, ReqTypes, TcpInv, MakerOwns, Makes
  <2> QED
    BY <1>1, <1>4, <2>1 DEF AddAlone
<1>8. DelAlone'
  <2>1. ASSUME NEW s \in Threads \ {t}, pc[s] # "idle", call[s].old \notin overlap
        PROVE  /\ tcpSock'[call[s].old] = tcpSock[call[s].old]
               /\ Closes(s) => lst'[conn[s]] = lst[conn[s]]
    BY <1>2, <1>3, <2>1, CallFields DEF TypeOK, ReqTypes, TcpInv, CloserState
  <2> QED
    BY <1>1, <2>1 DEF DelAlone, Closes
<1>9. UdpBesideTcp'
  BY <1>1 DEF UdpBesideTcp
<1> QED
  BY <1>5, <1>6, <1>7, <1>8, <1>9

(* The listener is stored under the port.                                  *)
LEMMA UdpStoreConn ==
  ASSUME TypeOK, TcpInv, UdpInv, NEW t \in Threads, StoreConn(t)
  PROVE  UdpInv'
<1> DEFINE p == call[t].port
           c == conn[t]
<1> USE DEF UdpInv
<1>1. /\ pc[t] = "storeConn"
      /\ srcConn' = [srcConn EXCEPT ![p] = c]
      /\ UNCHANGED <<tcpSock, lst, udpSock, udp, srcUdp, overlap, twin, early>>
  BY DEF StoreConn, osVars, histVars
<1>2. /\ pc'[t] = "idle" \/ (pc'[t] = "newUdp" /\ call'[t] = call[t])
      /\ \A s \in Threads \ {t} : /\ pc'[s] = pc[s] /\ call'[s] = call[s]
                                  /\ conn'[s] = conn[s] /\ fwd'[s] = fwd[s]
  <2>1. CASE UdpKinds(call[t]) = {}
    BY <2>1, ReturnFrame DEF StoreConn
  <2>2. CASE UdpKinds(call[t]) # {}
    BY <2>2 DEF StoreConn, Goto, TypeOK, ReqTypes
  <2> QED
    BY <2>1, <2>2
<1>3. srcConn \in [Ports -> Conns \cup {None}] /\ p \in Ports /\ c # None
  BY <1>1, CallFields DEF TypeOK, MapTypes, ReqTypes, TcpInv, MakerOwns, Makes
<1>4. \A s \in Threads \ {t} :
        pc[s] # "idle" /\ (call[s].port = p \/ call[s].old = p) => p \in overlap
  BY <1>1, Alone
<1>5. OneAtATime'
  BY <1>1, <1>2, OneKeeps DEF OneAtATime
<1>6. UdpOwner'
  BY <1>1 DEF UdpOwner
<1>7. UdpHeld'
  BY <1>1, <1>2 DEF UdpHeld
<1>8. AddAlone'
  BY <1>1, <1>2, <1>3 DEF AddAlone
<1>9. DelAlone'
  <2>1. ASSUME NEW s \in Threads \ {t}, pc[s] # "idle", call[s].old \notin overlap
        PROVE  srcConn'[call[s].old] = srcConn[call[s].old]
    BY <1>1, <1>3, <1>4, <2>1, CallFields DEF TypeOK, ReqTypes
  <2> QED
    BY <1>1, <1>2, <2>1 DEF DelAlone, Closes
<1>10. UdpBesideTcp'
  BY <1>1, <1>2, <1>3 DEF UdpBesideTcp
<1>11. UdpAccounted'
  BY <1>1, <1>2 DEF UdpAccounted, Holds
<1> QED
  BY <1>5, <1>6, <1>7, <1>8, <1>9, <1>10, <1>11

(* A new UDP object is held by the request that made it.                   *)
LEMMA UdpNewUdp ==
  ASSUME TypeOK, TcpInv, UdpInv, NEW t \in Threads, NewUdp(t)
  PROVE  UdpInv'
<1> DEFINE p == call[t].port
<1> USE DEF UdpInv
<1>1. PICK u \in Udps, k \in UdpKinds(call[t]) :
        /\ FreshUdp(u)
        /\ udp' = [udp EXCEPT ![u] = [kind |-> k, port |-> p, st |-> "new", shut |-> FALSE]]
        /\ fwd' = [fwd EXCEPT ![t] = u]
  BY DEF NewUdp
<1>2. /\ pc[t] = "newUdp" /\ pc' = [pc EXCEPT ![t] = "storeUdp"]
      /\ UNCHANGED <<tcpSock, lst, udpSock, srcConn, srcUdp, call, conn, overlap, twin, early>>
  BY DEF NewUdp, Goto, mapVars, histVars
<1>3. /\ udp \in [Udps -> UdpObjects] /\ p \in Ports
      /\ fwd \in [Threads -> Udps \cup {None}]
      /\ pc \in [Threads -> {"idle"} \cup AddSteps \cup DelSteps]
      /\ udpSock \in [Ports -> Udps \cup {None}] /\ srcUdp \in [Ports -> Udps \cup {None}]
  BY <1>2, CallFields DEF TypeOK, OsTypes, MapTypes, ReqTypes
<1>4. /\ \A q \in Ports : udpSock[q] # u /\ srcUdp[q] # u
      /\ \A s \in Threads : fwd[s] # u
      /\ u # None
      /\ \A w \in Udps : w # u => udp'[w] = udp[w]
      /\ udp'[u].port = p /\ udp'[u].st = "new" /\ ~udp'[u].shut
      /\ pc'[t] = "storeUdp" /\ fwd'[t] = u
      /\ \A s \in Threads \ {t} : pc'[s] = pc[s] /\ fwd'[s] = fwd[s]
  BY <1>1, <1>2, <1>3, ConstantsAssumption DEF FreshUdp
<1>5. OneAtATime'
  BY <1>2, <1>4, OneKeeps DEF OneAtATime
<1>6. UdpOwner'
  BY <1>2, <1>3, <1>4 DEF UdpOwner
<1>7. UdpHeld'
  BY <1>2, <1>3, <1>4 DEF UdpHeld
<1>8. AddAlone'
  BY <1>2, <1>4 DEF AddAlone
<1>9. DelAlone'
  BY <1>2, <1>4 DEF DelAlone, Closes
<1>10. UdpBesideTcp'
  BY <1>2, <1>4 DEF UdpBesideTcp
<1>11. UdpAccounted'
  BY <1>2, <1>3, <1>4 DEF UdpAccounted, Holds
<1> QED
  BY <1>5, <1>6, <1>7, <1>8, <1>9, <1>10, <1>11

(* The object is stored where no other one is.                             *)
LEMMA UdpStoreUdp ==
  ASSUME TypeOK, TcpInv, UdpInv, NEW t \in Threads, StoreUdp(t)
  PROVE  UdpInv'
<1> DEFINE p == call[t].port
           u == fwd[t]
<1> USE DEF UdpInv
<1>1. /\ pc[t] = "storeUdp"
      /\ srcUdp' = [srcUdp EXCEPT ![p] = u]
      /\ UNCHANGED <<tcpSock, lst, udpSock, udp, srcConn, overlap, twin, early>>
  BY DEF StoreUdp, osVars, histVars
<1>2. /\ pc'[t] = "idle"
      /\ \A s \in Threads \ {t} : /\ pc'[s] = pc[s] /\ call'[s] = call[s]
                                  /\ conn'[s] = conn[s] /\ fwd'[s] = fwd[s]
  BY ReturnFrame DEF StoreUdp
<1>3. /\ srcUdp \in [Ports -> Udps \cup {None}] /\ p \in Ports
      /\ u # None /\ udp[u].port = p
      /\ udp \in [Udps -> UdpObjects]
  BY <1>1, CallFields DEF TypeOK, OsTypes, MapTypes, ReqTypes, UdpHeld
<1>4. /\ \A s \in Threads \ {t} :
           pc[s] # "idle" /\ (call[s].port = p \/ call[s].old = p) => p \in overlap
      /\ \A q \in Ports : q # p => srcUdp'[q] = srcUdp[q]
      /\ srcUdp'[p] = u
      /\ p \notin overlap => srcUdp[p] = None /\ srcConn[p] # None
  BY <1>1, <1>3, Alone DEF AddAlone
<1>5. OneAtATime'
  BY <1>1, <1>2, OneKeeps DEF OneAtATime
<1>6. UdpOwner'
  BY <1>1 DEF UdpOwner
<1>7. UdpHeld'
  BY <1>1, <1>2, <1>3 DEF UdpHeld
<1>8. AddAlone'
  <2>1. ASSUME NEW s \in Threads \ {t}, pc[s] # "idle", call[s].port \notin overlap
        PROVE  srcUdp'[call[s].port] = srcUdp[call[s].port]
    BY <1>3, <1>4, <2>1, CallFields DEF TypeOK, ReqTypes
  <2> QED
    BY <1>1, <1>2, <2>1 DEF AddAlone
<1>9. DelAlone'
  <2>1. ASSUME NEW s \in Threads \ {t}, pc[s] # "idle", call[s].old \notin overlap
        PROVE  srcUdp'[call[s].old] = srcUdp[call[s].old]
    BY <1>3, <1>4, <2>1, CallFields DEF TypeOK, ReqTypes
  <2> QED
    BY <1>1, <1>2, <2>1 DEF DelAlone, Closes
<1>10. UdpBesideTcp'
  BY <1>1, <1>2, <1>3, <1>4 DEF UdpBesideTcp
<1>11. UdpAccounted'
  <2>1. ASSUME NEW w \in Udps, udp[w].st \in {"new", "open"},
               udp[w].port \notin overlap \cup early
        PROVE  /\ srcUdp'[udp[w].port] = w \/ \E s \in Threads : Holds(s, w)'
               /\ udp[w].shut => \E s \in Threads : pc'[s] = "closeUdp" /\ fwd'[s] = w
    <3>1. udp[w].port \in Ports
      BY <2>1 DEF UdpOwner
    <3>2. udp[w].shut => \E s \in Threads : pc'[s] = "closeUdp" /\ fwd'[s] = w
      BY <1>1, <1>2, <2>1 DEF UdpAccounted
    <3>3. CASE w = u
      BY <1>3, <1>4, <3>2, <3>3
    <3>4. CASE w # u /\ srcUdp[udp[w].port] = w
      <4>1. w # None
        BY ConstantsAssumption
      <4> QED
        BY <1>4, <2>1, <3>1, <3>2, <3>4, <4>1
    <3>5. CASE w # u /\ \E s \in Threads : Holds(s, w)
      BY <1>2, <3>2, <3>5 DEF Holds
    <3> QED
      BY <2>1, <3>3, <3>4, <3>5 DEF UdpAccounted
  <2> QED
    BY <1>1, <2>1 DEF UdpAccounted
<1> QED
  BY <1>5, <1>6, <1>7, <1>8, <1>9, <1>10, <1>11

(* A DelPort loads the listener that serves its port.                      *)
LEMMA UdpLoadConn ==
  ASSUME TypeOK, TcpInv, UdpInv, NEW t \in Threads, LoadConn(t)
  PROVE  UdpInv'
<1> DEFINE p == call[t].old
<1> USE DEF UdpInv
<1>1. /\ pc[t] = "loadConn"
      /\ UNCHANGED <<tcpSock, lst, udpSock, udp, srcConn, srcUdp, overlap, early>>
  BY DEF LoadConn, osVars, mapVars
<1>2. p \in Ports
  BY <1>1, CallFields DEF TypeOK, ReqTypes
<1>3. CASE srcConn[p] = None
  <2>1. twin' = twin /\ DelPortReturns(t)
    BY <1>3 DEF LoadConn
  <2> QED
    BY <1>1, <2>1, DelPortReturnsFrame, QuietUdpStep DEF OneAtATime
<1>4. CASE srcConn[p] # None
  <2>1. /\ pc' = [pc EXCEPT ![t] = "deleteConn"]
        /\ conn' = [conn EXCEPT ![t] = srcConn[p]]
        /\ twin' = twin \cup { q \in {p} :
                     \E s \in Threads : pc[s] = "deleteConn" /\ call[s].old = q }
        /\ UNCHANGED <<call, fwd>>
    BY <1>4 DEF LoadConn, Goto
  <2>2. /\ pc'[t] = "deleteConn" /\ conn'[t] = srcConn[p]
        /\ \A s \in Threads \ {t} : pc'[s] = pc[s] /\ conn'[s] = conn[s]
    BY <2>1 DEF TypeOK, ReqTypes
  <2>3. \A s \in Threads \ {t} :
          pc[s] # "idle" /\ (call[s].port = p \/ call[s].old = p) => p \in overlap
    BY <1>1, Alone
  <2>4. OneAtATime'
    <3>1. twin' \subseteq overlap
      BY <1>1, <2>1, <2>3 DEF OneAtATime
    <3> QED
      BY <1>1, <2>1, <2>2, <3>1, OneKeeps
  <2>5. UdpOwner'
    BY <1>1 DEF UdpOwner
  <2>6. UdpHeld'
    BY <1>1, <2>1, <2>2 DEF UdpHeld
  <2>7. AddAlone'
    BY <1>1, <2>1, <2>2 DEF AddAlone
  <2>8. DelAlone'
    <3>1. tcpSock[p] = srcConn[p] /\ lst[srcConn[p]] = "listening"
      BY <1>2, <1>4 DEF TcpInv, MapEntriesListen
    <3> QED
      BY <1>1, <2>1, <2>2, <3>1 DEF DelAlone, Closes
  <2>9. UdpBesideTcp'
    BY <1>1, <2>1, <2>2 DEF UdpBesideTcp
  <2>10. UdpAccounted'
    BY <1>1, <2>1, <2>2 DEF UdpAccounted, Holds
  <2> QED
    BY <2>4, <2>5, <2>6, <2>7, <2>8, <2>9, <2>10
<1> QED
  BY <1>3, <1>4

(* The TCP entry is removed.                                               *)
LEMMA UdpDeleteConn ==
  ASSUME TypeOK, TcpInv, UdpInv, NEW t \in Threads, DeleteConn(t)
  PROVE  UdpInv'
<1> DEFINE p == call[t].old
<1> USE DEF UdpInv
<1>1. /\ pc[t] = "deleteConn" /\ pc' = [pc EXCEPT ![t] = "closeConn"]
      /\ srcConn' = [srcConn EXCEPT ![p] = None]
      /\ UNCHANGED <<tcpSock, lst, udpSock, udp, srcUdp, call, conn, fwd, overlap, twin, early>>
  BY DEF DeleteConn, Goto, osVars, histVars
<1>2. /\ p \in Ports /\ srcConn \in [Ports -> Conns \cup {None}]
      /\ pc'[t] = "closeConn" /\ \A s \in Threads \ {t} : pc'[s] = pc[s]
  BY <1>1, CallFields DEF TypeOK, MapTypes, ReqTypes
<1>3. \A s \in Threads \ {t} :
        pc[s] # "idle" /\ (call[s].port = p \/ call[s].old = p) => p \in overlap
  BY <1>1, Alone
<1>4. OneAtATime'
  BY <1>1, <1>2, OneKeeps DEF OneAtATime
<1>5. UdpOwner' /\ UdpHeld' /\ UdpAccounted'
  BY <1>1, <1>2, TcpStepKeepsUdp
<1>6. AddAlone'
  <2>1. ASSUME NEW s \in Threads \ {t}, pc[s] # "idle", call[s].port \notin overlap
        PROVE  srcConn'[call[s].port] = srcConn[call[s].port]
    BY <1>1, <1>2, <1>3, <2>1, CallFields DEF TypeOK, ReqTypes
  <2> QED
    BY <1>1, <1>2, <2>1 DEF AddAlone
<1>7. DelAlone'
  <2>1. ASSUME NEW s \in Threads \ {t}, pc[s] # "idle", call[s].old \notin overlap
        PROVE  srcConn'[call[s].old] = srcConn[call[s].old]
    BY <1>1, <1>2, <1>3, <2>1, CallFields DEF TypeOK, ReqTypes
  <2> QED
    BY <1>1, <1>2, <2>1 DEF DelAlone, Closes
<1>8. UdpBesideTcp'
  BY <1>1, <1>2 DEF UdpBesideTcp
<1> QED
  BY <1>4, <1>5, <1>6, <1>7, <1>8

(* The listener is closed; alone on the port, no other one is bound.       *)
LEMMA UdpCloseConn ==
  ASSUME TypeOK, TcpInv, UdpInv, NEW t \in Threads, CloseConn(t)
  PROVE  UdpInv'
<1> DEFINE p == call[t].old
           c == conn[t]
<1> USE DEF UdpInv
<1>1. /\ pc[t] = "closeConn" /\ pc' = [pc EXCEPT ![t] = "loadUdp"]
      /\ tcpSock' = [tcpSock EXCEPT ![p] = IF @ = c THEN None ELSE @]
      /\ lst' = [lst EXCEPT ![c] = "closed"]
      /\ conn' = [conn EXCEPT ![t] = None]
      /\ UNCHANGED <<udpSock, udp, srcConn, srcUdp, call, fwd, overlap, twin, early>>
  BY DEF CloseConn, Goto, mapVars, histVars
<1>2. /\ p \in Ports /\ tcpSock \in [Ports -> Conns \cup {None}]
      /\ lst \in [Conns -> ListenerStates]
      /\ pc'[t] = "loadUdp" /\ \A s \in Threads \ {t} : pc'[s] = pc[s] /\ conn'[s] = conn[s]
      /\ \A q \in Ports : q # p => tcpSock'[q] = tcpSock[q]
      /\ \A d \in Conns : d # c => lst'[d] = lst[d]
  BY <1>1, CallFields DEF TypeOK, OsTypes, ReqTypes
<1>3. \A s \in Threads \ {t} :
        pc[s] # "idle" /\ (call[s].port = p \/ call[s].old = p) => p \in overlap
  BY <1>1, Alone
<1>4. OneAtATime'
  BY <1>1, <1>2, OneKeeps DEF OneAtATime
<1>5. UdpOwner' /\ UdpHeld' /\ UdpAccounted'
  BY <1>1, <1>2, TcpStepKeepsUdp
<1>6. AddAlone'
  <2>1. ASSUME NEW s \in Threads \ {t}, pc[s] = "storeConn", call[s].port \notin overlap
        PROVE  tcpSock'[call[s].port] = tcpSock[call[s].port] /\ lst'[conn[s]] = lst[conn[s]]
    BY <1>1, <1>2, <1>3, <2>1, CallFields DEF TypeOK, ReqTypes, TcpInv, MakerOwns, Makes
  <2> QED
    BY <1>1, <1>2, <2>1 DEF AddAlone
<1>7. DelAlone'
  <2>1. ASSUME NEW s \in Threads \ {t}, pc[s] # "idle", call[s].old \notin overlap
        PROVE  /\ tcpSock'[call[s].old] = tcpSock[call[s].old]
               /\ Closes(s) => lst'[conn[s]] = lst[conn[s]]
    <3>1. call[s].old \in Ports /\ call[s].old # p
      BY <1>3, <2>1, CallFields DEF TypeOK, ReqTypes
    <3>2. Closes(s) => conn[s] # c /\ conn[s] \in Conns
      BY <1>1, <2>1, <3>1 DEF DelAlone, TcpInv, CloserState, Closes, TypeOK, ReqTypes
    <3> QED
      BY <1>2, <3>1, <3>2
  <2>2. p \notin overlap => tcpSock'[p] = None /\ srcConn[p] = None
    BY <1>1, <1>2 DEF DelAlone, Closes
  <2> QED
    BY <1>1, <1>2, <2>1, <2>2 DEF DelAlone, Closes
<1>8. UdpBesideTcp'
  BY <1>1, <1>2 DEF UdpBesideTcp
<1> QED
  BY <1>4, <1>5, <1>6, <1>7, <1>8

(* A DelPort loads the UDP object, or finds none and is done.              *)
LEMMA UdpLoadUdp ==
  ASSUME TypeOK, TcpInv, UdpInv, NEW t \in Threads, LoadUdp(t)
  PROVE  UdpInv'
<1> DEFINE p == call[t].old
<1> USE DEF UdpInv
<1>1. /\ pc[t] = "loadUdp"
      /\ UNCHANGED <<tcpSock, lst, udpSock, udp, srcConn, srcUdp, overlap, twin>>
  BY DEF LoadUdp, osVars, mapVars
<1>2. /\ \/ pc'[t] = "idle"
         \/ pc'[t] = "probe" /\ call'[t] = call[t]
         \/ /\ pc'[t] = "deleteUdp" /\ call'[t] = call[t] /\ fwd'[t] = srcUdp[p]
            /\ p \notin early' => udp[srcUdp[p]].st # "new"
      /\ pc'[t] # "deleteUdp" <=> srcUdp[p] = None
      /\ early \subseteq early'
      /\ \A s \in Threads \ {t} : /\ pc'[s] = pc[s] /\ call'[s] = call[s]
                                  /\ conn'[s] = conn[s] /\ fwd'[s] = fwd[s]
  <2>1. CASE srcUdp[p] = None
    <3>1. DelPortReturns(t) /\ early' = early
      BY <2>1 DEF LoadUdp
    <3> QED
      BY <2>1, <3>1, DelPortReturnsFrame
  <2>2. CASE srcUdp[p] # None
    BY <2>2 DEF LoadUdp, Goto, TypeOK, ReqTypes
  <2> QED
    BY <2>1, <2>2
<1>3. p \in Ports
  BY <1>1, CallFields DEF TypeOK, ReqTypes
<1>4. OneAtATime'
  BY <1>1, <1>2, OneKeeps DEF OneAtATime
<1>5. UdpOwner'
  BY <1>1 DEF UdpOwner
<1>6. UdpHeld'
  BY <1>1, <1>2, <1>3 DEF UdpHeld
<1>7. AddAlone'
  BY <1>1, <1>2 DEF AddAlone
<1>8. DelAlone'
  BY <1>1, <1>2 DEF DelAlone, Closes
<1>9. UdpBesideTcp'
  BY <1>1, <1>2 DEF UdpBesideTcp
<1>10. UdpAccounted'
  BY <1>1, <1>2 DEF UdpAccounted, Holds
<1> QED
  BY <1>4, <1>5, <1>6, <1>7, <1>8, <1>9, <1>10

(* The UDP entry is removed; the request holds what it led to.             *)
LEMMA UdpDeleteUdp ==
  ASSUME TypeOK, TcpInv, UdpInv, NEW t \in Threads, DeleteUdp(t)
  PROVE  UdpInv'
<1> DEFINE p == call[t].old
           u == fwd[t]
<1> USE DEF UdpInv
<1>1. /\ pc[t] = "deleteUdp" /\ pc' = [pc EXCEPT ![t] = "shutUdp"]
      /\ srcUdp' = [srcUdp EXCEPT ![p] = None]
      /\ UNCHANGED <<tcpSock, lst, udpSock, udp, srcConn, call, conn, fwd, overlap, twin, early>>
  BY DEF DeleteUdp, Goto, osVars, histVars
<1>2. /\ p \in Ports /\ srcUdp \in [Ports -> Udps \cup {None}]
      /\ pc'[t] = "shutUdp" /\ \A s \in Threads \ {t} : pc'[s] = pc[s]
      /\ \A q \in Ports : srcUdp'[q] = IF q = p THEN None ELSE srcUdp[q]
  BY <1>1, CallFields DEF TypeOK, MapTypes, ReqTypes
<1>3. \A s \in Threads \ {t} :
        pc[s] # "idle" /\ (call[s].port = p \/ call[s].old = p) => p \in overlap
  BY <1>1, Alone
<1>4. OneAtATime'
  BY <1>1, <1>2, OneKeeps DEF OneAtATime
<1>5. UdpOwner'
  BY <1>1 DEF UdpOwner
<1>6. UdpHeld'
  BY <1>1, <1>2 DEF UdpHeld
<1>7. AddAlone'
  <2>1. ASSUME NEW s \in Threads \ {t}, pc[s] # "idle", call[s].port \notin overlap
        PROVE  srcUdp'[call[s].port] = srcUdp[call[s].port]
    BY <1>2, <1>3, <2>1, CallFields DEF TypeOK, ReqTypes
  <2> QED
    BY <1>1, <1>2, <2>1 DEF AddAlone
<1>8. DelAlone'
  <2>1. ASSUME NEW s \in Threads \ {t}, pc[s] # "idle", call[s].old \notin overlap
        PROVE  srcUdp'[call[s].old] = srcUdp[call[s].old]
    BY <1>2, <1>3, <2>1, CallFields DEF TypeOK, ReqTypes
  <2> QED
    BY <1>1, <1>2, <2>1 DEF DelAlone, Closes
<1>9. UdpBesideTcp'
  BY <1>1, <1>2 DEF UdpBesideTcp
<1>10. UdpAccounted'
  <2>1. ASSUME NEW w \in Udps, udp[w].st \in {"new", "open"},
               udp[w].port \notin overlap \cup early
        PROVE  /\ srcUdp'[udp[w].port] = w \/ \E s \in Threads : Holds(s, w)'
               /\ udp[w].shut => \E s \in Threads : pc'[s] = "closeUdp" /\ fwd'[s] = w
    <3>1. udp[w].port \in Ports
      BY <2>1 DEF UdpOwner
    <3>2. udp[w].shut => \E s \in Threads : pc'[s] = "closeUdp" /\ fwd'[s] = w
      BY <1>1, <1>2, <2>1 DEF UdpAccounted
    <3>3. CASE srcUdp[udp[w].port] = w /\ udp[w].port = p
      <4>1. srcUdp[p] = u
        BY <1>1, <2>1, <3>3 DEF DelAlone
      <4>2. Holds(t, w)'
        BY <1>1, <1>2, <3>3, <4>1 DEF Holds
      <4> QED
        BY <3>2, <4>2
    <3>4. CASE srcUdp[udp[w].port] = w /\ udp[w].port # p
      BY <1>2, <3>1, <3>2, <3>4
    <3>5. CASE \E s \in Threads : Holds(s, w)
      BY <1>1, <1>2, <3>2, <3>5 DEF Holds
    <3> QED
      BY <2>1, <3>3, <3>4, <3>5 DEF UdpAccounted
  <2> QED
    BY <1>1, <2>1 DEF UdpAccounted
<1> QED
  BY <1>4, <1>5, <1>6, <1>7, <1>8, <1>9, <1>10

(* Close() shuts the channel; it panics only where a race was recorded or  *)
(* the socket is closed already.                                           *)
LEMMA UdpShutUdp ==
  ASSUME TypeOK, TcpInv, UdpInv, NEW t \in Threads, ShutUdp(t)
  PROVE  UdpInv'
<1> DEFINE p == call[t].old
           u == fwd[t]
<1> USE DEF UdpInv
<1>1. /\ pc[t] = "shutUdp"
      /\ UNCHANGED <<tcpSock, lst, udpSock, srcConn, srcUdp, overlap, twin, early>>
  BY DEF ShutUdp, mapVars, histVars
<1>2. /\ p \in Ports /\ u \in Udps /\ udp[u].port = p
      /\ p \notin early => udp[u].st # "new"
      /\ udp \in [Udps -> UdpObjects]
  BY <1>1, CallFields DEF UdpHeld, TypeOK, OsTypes, ReqTypes
<1>3. \A s \in Threads \ {t} :
        pc[s] # "idle" /\ (call[s].port = p \/ call[s].old = p) => p \in overlap
  BY <1>1, Alone
<1>4. CASE udp[u].shut \/ udp[u].kind = "nil"
  <2>1. udp' = udp /\ Return(t, "panic")
    BY <1>4, Zenon DEF ShutUdp
  <2>2. /\ pc'[t] = "idle"
        /\ \A s \in Threads \ {t} : /\ pc'[s] = pc[s] /\ call'[s] = call[s]
                                    /\ conn'[s] = conn[s] /\ fwd'[s] = fwd[s]
    BY <2>1, ReturnFrame
  <2>3. OneAtATime'
    BY <1>1, <2>2, OneKeeps DEF OneAtATime
  <2>4. UdpOwner'
    BY <1>1, <2>1 DEF UdpOwner
  <2>5. UdpHeld'
    BY <1>1, <2>1, <2>2 DEF UdpHeld
  <2>6. AddAlone'
    BY <1>1, <2>2 DEF AddAlone
  <2>7. DelAlone'
    BY <1>1, <2>2 DEF DelAlone, Closes
  <2>8. UdpBesideTcp'
    BY <1>1, <2>2 DEF UdpBesideTcp
  <2>9. UdpAccounted'
    <3>1. ~ (udp[u].st \in {"new", "open"} /\ p \notin overlap \cup early)
      <4>1. SUFFICES ASSUME udp[u].st \in {"new", "open"}, p \notin overlap \cup early
                     PROVE  FALSE
        OBVIOUS
      <4>2. udp[u].shut
        BY <1>2, <1>4, <4>1 DEF UdpOwner
      <4>3. PICK s \in Threads : pc[s] = "closeUdp" /\ fwd[s] = u
        BY <1>2, <4>1, <4>2 DEF UdpAccounted
      <4>4. call[s].old = p
        BY <1>2, <4>3 DEF UdpHeld
      <4> QED
        BY <1>1, <1>3, <4>1, <4>3, <4>4
    <3> QED
      BY <1>1, <1>2, <2>1, <2>2, <3>1 DEF UdpAccounted, Holds
  <2> QED
    BY <2>3, <2>4, <2>5, <2>6, <2>7, <2>8, <2>9
<1>5. CASE ~udp[u].shut /\ udp[u].kind # "nil"
  <2>1. /\ udp' = [udp EXCEPT ![u].shut = TRUE]
        /\ pc' = [pc EXCEPT ![t] = "closeUdp"]
        /\ UNCHANGED <<call, conn, fwd>>
    BY <1>5, Zenon DEF ShutUdp, Goto
  <2>2. /\ pc'[t] = "closeUdp" /\ \A s \in Threads \ {t} : pc'[s] = pc[s]
        /\ \A w \in Udps : w # u => udp'[w] = udp[w]
        /\ udp'[u].port = p /\ udp'[u].st = udp[u].st /\ udp'[u].kind = udp[u].kind
    BY <1>2, <2>1 DEF TypeOK, ReqTypes, UdpObjects
  <2>3. OneAtATime'
    BY <1>1, <2>1, <2>2, OneKeeps DEF OneAtATime
  <2>4. UdpOwner'
    BY <1>1, <1>2, <2>1, <2>2 DEF UdpOwner, TypeOK, OsTypes
  <2>5. UdpHeld'
    BY <1>1, <1>2, <2>1, <2>2 DEF UdpHeld, TypeOK, MapTypes, ReqTypes
  <2>6. AddAlone'
    BY <1>1, <2>1, <2>2 DEF AddAlone
  <2>7. DelAlone'
    BY <1>1, <2>1, <2>2 DEF DelAlone, Closes
  <2>8. UdpBesideTcp'
    BY <1>1, <2>1, <2>2 DEF UdpBesideTcp
  <2>9. UdpAccounted'
    <3>1. ASSUME NEW w \in Udps, w # u, udp[w].st \in {"new", "open"},
                 udp[w].port \notin overlap \cup early
          PROVE  /\ srcUdp'[udp[w].port] = w \/ \E s \in Threads : Holds(s, w)'
                 /\ udp[w].shut => \E s \in Threads : pc'[s] = "closeUdp" /\ fwd'[s] = w
      BY <1>1, <2>1, <2>2, <3>1 DEF UdpAccounted, Holds
    <3>2. pc'[t] = "closeUdp" /\ fwd'[t] = u
      BY <2>1, <2>2
    <3>3. \E s \in Threads : Holds(s, u)'
      BY <3>2 DEF Holds
    <3>4. ASSUME NEW w \in Udps, udp'[w].st \in {"new", "open"},
                 udp'[w].port \notin overlap \cup early
          PROVE  /\ srcUdp'[udp'[w].port] = w \/ \E s \in Threads : Holds(s, w)'
                 /\ udp'[w].shut => \E s \in Threads : pc'[s] = "closeUdp" /\ fwd'[s] = w
      <4>1. CASE w = u
        BY <3>2, <3>3, <4>1
      <4>2. CASE w # u
        BY <2>2, <3>1, <3>4, <4>2
      <4> QED
        BY <4>1, <4>2
    <3> QED
      BY <1>1, <3>4 DEF UdpAccounted
  <2> QED
    BY <2>3, <2>4, <2>5, <2>6, <2>7, <2>8, <2>9
<1> QED
  BY <1>4, <1>5

(* Close() closes the socket, unless Start has not opened it.              *)
LEMMA UdpCloseUdp ==
  ASSUME TypeOK, TcpInv, UdpInv, NEW t \in Threads, CloseUdp(t)
  PROVE  UdpInv'
<1> DEFINE p == call[t].old
           u == fwd[t]
<1> USE DEF UdpInv
<1>1. /\ pc[t] = "closeUdp"
      /\ UNCHANGED <<tcpSock, lst, srcConn, srcUdp, overlap, twin, early>>
  BY DEF CloseUdp, mapVars, histVars
<1>2. /\ p \in Ports /\ u \in Udps /\ udp[u].port = p
      /\ p \notin early => udp[u].st # "new"
      /\ udp \in [Udps -> UdpObjects] /\ udpSock \in [Ports -> Udps \cup {None}]
  BY <1>1, CallFields DEF UdpHeld, TypeOK, OsTypes, ReqTypes
<1>3. /\ pc'[t] = "idle" \/ (pc'[t] = "probe" /\ call'[t] = call[t])
      /\ \A s \in Threads \ {t} : /\ pc'[s] = pc[s] /\ call'[s] = call[s]
                                  /\ conn'[s] = conn[s] /\ fwd'[s] = fwd[s]
  <2>1. Return(t, "panic") \/ DelPortReturns(t)
    BY Zenon DEF CloseUdp
  <2> QED
    BY <2>1, ReturnFrame, DelPortReturnsFrame
<1>4. OneAtATime'
  BY <1>1, <1>3, OneKeeps DEF OneAtATime
<1>5. /\ \/ udp[u].st \in {"new", "failed"} /\ udp' = udp /\ udpSock' = udpSock
         \/ /\ udp[u].st = "open" /\ udpSock' = [udpSock EXCEPT ![p] = None]
            /\ udp' = [udp EXCEPT ![u].st = "closed"]
      /\ \A w \in Udps : w # u => udp'[w] = udp[w]
      /\ udp'[u].port = p /\ udp'[u].kind = udp[u].kind /\ udp'[u].st # "open"
      /\ udp'[u].st = "new" => udp[u].st = "new"
  <2>1. \/ udp[u].st \in {"new", "failed"} /\ udp' = udp /\ udpSock' = udpSock
        \/ /\ udp[u].st = "open" /\ udpSock' = [udpSock EXCEPT ![udp[u].port] = None]
           /\ udp' = [udp EXCEPT ![u].st = "closed"]
    BY Zenon DEF CloseUdp
  <2> QED
    BY <1>2, <2>1 DEF UdpObjects
<1>6. UdpOwner'
  <2>1. \A w \in Udps : /\ udp'[w].st # "none" => udp'[w].port \in Ports
                        /\ udp'[w].kind = "nil" => udp'[w].st \in {"none", "new"}
    BY <1>2, <1>5 DEF UdpOwner
  <2>2. ASSUME NEW q \in Ports, udpSock'[q] # None
        PROVE  udp'[udpSock'[q]].port = q /\ udp'[udpSock'[q]].st = "open"
    <3>1. udpSock'[q] = udpSock[q] /\ udpSock[q] \in Udps
      BY <1>2, <1>5, <2>2
    <3>2. udpSock[q] # u
      BY <1>2, <1>5, <2>2, <3>1 DEF UdpOwner
    <3> QED
      BY <1>5, <2>2, <3>1, <3>2 DEF UdpOwner
  <2> QED
    BY <2>1, <2>2 DEF UdpOwner
<1>7. UdpHeld'
  BY <1>1, <1>2, <1>3, <1>5 DEF UdpHeld, TypeOK, MapTypes, ReqTypes
<1>8. AddAlone'
  BY <1>1, <1>3 DEF AddAlone
<1>9. DelAlone'
  BY <1>1, <1>3 DEF DelAlone, Closes
<1>10. UdpBesideTcp'
  BY <1>1, <1>3 DEF UdpBesideTcp
<1>11. UdpAccounted'
  <2>1. ASSUME NEW w \in Udps, w # u, udp[w].st \in {"new", "open"},
               udp[w].port \notin overlap \cup early
        PROVE  /\ srcUdp'[udp[w].port] = w \/ \E s \in Threads : Holds(s, w)'
               /\ udp[w].shut => \E s \in Threads : pc'[s] = "closeUdp" /\ fwd'[s] = w
    BY <1>1, <1>3, <2>1 DEF UdpAccounted, Holds
  <2> QED
    BY <1>1, <1>2, <1>5, <2>1 DEF UdpAccounted
<1> QED
  BY <1>4, <1>6, <1>7, <1>8, <1>9, <1>10, <1>11

(* An object is started, or collected once nothing leads to it.            *)
LEMMA UdpObjectStep ==
  ASSUME TypeOK, TcpInv, UdpInv, NEW u \in Udps, StartUdp(u) \/ CollectUdp(u)
  PROVE  UdpInv'
<1> USE DEF UdpInv
<1>1. /\ UNCHANGED <<tcpSock, lst, srcConn, srcUdp, overlap, twin, early>>
      /\ UNCHANGED <<pc, call, conn, fwd>>
  BY Zenon DEF StartUdp, CollectUdp, mapVars, reqVars, histVars
<1>2. /\ udp \in [Udps -> UdpObjects] /\ udpSock \in [Ports -> Udps \cup {None}]
      /\ u # None
  BY ConstantsAssumption DEF TypeOK, OsTypes
<1>3. /\ udp[u].st \in {"new", "open"} /\ udp[u].port \in Ports
      /\ \/ udp' = [udp EXCEPT ![u].st = "open"] /\ udp[u].kind # "nil"
            /\ udp[u].st = "new" /\ udpSock' = [udpSock EXCEPT ![udp[u].port] = u]
         \/ udp' = [udp EXCEPT ![u].st = "failed"] /\ udp[u].kind # "nil"
            /\ udp[u].st = "new" /\ udpSock' = udpSock
         \/ udp' = [udp EXCEPT ![u].st = "closed"] /\ udp[u].st = "open"
            /\ udpSock' = [udpSock EXCEPT ![udp[u].port] = None]
  <2>1. CASE StartUdp(u)
    <3>1. udp[u].st = "new" /\ udp[u].kind # "nil"
      BY <2>1 DEF StartUdp
    <3>2. \/ /\ udpSock' = [udpSock EXCEPT ![udp[u].port] = u]
             /\ udp' = [udp EXCEPT ![u].st = "open"]
          \/ udp' = [udp EXCEPT ![u].st = "failed"] /\ udpSock' = udpSock
      BY <2>1, Zenon DEF StartUdp
    <3> QED
      BY <3>1, <3>2 DEF UdpOwner
  <2>2. CASE CollectUdp(u)
    BY <2>2 DEF CollectUdp, UdpOwner
  <2> QED
    BY <2>1, <2>2
<1>4. /\ \A w \in Udps : w # u => udp'[w] = udp[w]
      /\ udp'[u].port = udp[u].port /\ udp'[u].kind = udp[u].kind
      /\ udp'[u].shut = udp[u].shut /\ udp'[u].st \in {"open", "failed", "closed"}
      /\ udp[u].st = "open" => udp'[u].st = "closed"
  BY <1>2, <1>3 DEF UdpObjects
<1>5. OneAtATime'
  BY <1>1 DEF OneAtATime
<1>6. UdpOwner'
  <2>1. \A w \in Udps : /\ udp'[w].st # "none" => udp'[w].port \in Ports
                        /\ udp'[w].kind = "nil" => udp'[w].st \in {"none", "new"}
    BY <1>3, <1>4 DEF UdpOwner
  <2>2. ASSUME NEW q \in Ports, udpSock'[q] # None
        PROVE  udp'[udpSock'[q]].port = q /\ udp'[udpSock'[q]].st = "open"
    <3>1. CASE udpSock'[q] = u
      <4>1. udpSock[q] = u => q = udp[u].port /\ udp[u].st = "open"
        BY <1>2 DEF UdpOwner
      <4> QED
        BY <1>2, <1>3, <1>4, <2>2, <3>1, <4>1 DEF UdpObjects
    <3>2. CASE udpSock'[q] # u
      <4>1. udpSock'[q] = udpSock[q] /\ udpSock[q] \in Udps
        BY <1>2, <1>3, <2>2, <3>2
      <4> QED
        BY <1>4, <2>2, <3>2, <4>1 DEF UdpOwner
    <3> QED
      BY <3>1, <3>2
  <2> QED
    BY <2>1, <2>2 DEF UdpOwner
<1>7. UdpHeld'
  BY <1>1, <1>2, <1>4 DEF UdpHeld, TypeOK, MapTypes, ReqTypes
<1>8. AddAlone' /\ DelAlone' /\ UdpBesideTcp'
  BY <1>1 DEF AddAlone, DelAlone, Closes, UdpBesideTcp
<1>9. UdpAccounted'
  BY <1>1, <1>3, <1>4 DEF UdpAccounted, Holds
<1> QED
  BY <1>5, <1>6, <1>7, <1>8, <1>9

(* The UDP half of the table is sound, and a request alone on its port     *)
(* meets nothing of others, wherever requests interleave.                  *)
THEOREM UdpTable == Spec => []UdpInv
<1> USE DEF UdpInv
<1>1. Init => UdpInv
  BY DEF Init, OneAtATime, UdpOwner, UdpHeld, AddAlone, DelAlone, UdpBesideTcp, UdpAccounted,
         Closes, NoUdp
<1>2. TypeOK /\ TcpInv /\ UdpInv /\ [Next]_vars => UdpInv'
  <2> SUFFICES ASSUME TypeOK, TcpInv, UdpInv, [Next]_vars PROVE UdpInv'
    OBVIOUS
  <2>1. ASSUME NEW t \in Threads, ProbeInUse(t) PROVE UdpInv'
    <3>1. /\ UNCHANGED <<tcpSock, udpSock, lst, udp, srcConn, srcUdp, overlap, twin, early>>
          /\ pc[t] = "probe" /\ Return(t, "inUse")
      BY <2>1 DEF ProbeInUse, osVars, mapVars, histVars
    <3> QED
      BY <3>1, ReturnFrame, QuietUdpStep DEF OneAtATime
  <2>2. ASSUME Crash PROVE UdpInv'
    BY <2>2 DEF Crash, OneAtATime, UdpOwner, UdpHeld, AddAlone, DelAlone, UdpBesideTcp,
                UdpAccounted, Closes, NoUdp
  <2>3. CASE UNCHANGED vars
    BY <2>3 DEF vars, osVars, mapVars, reqVars, histVars, OneAtATime, CallPorts, UdpOwner,
                UdpHeld, AddAlone, DelAlone, UdpBesideTcp, UdpAccounted, Closes, Holds
  <2>4. ASSUME NEW t \in Threads, AddStep(t) PROVE UdpInv'
    BY <2>1, <2>4, UdpProbeBind, UdpProbeClose, UdpStoreConn, UdpNewUdp, UdpStoreUdp, Zenon
       DEF AddStep
  <2>5. ASSUME NEW t \in Threads, DelStep(t) PROVE UdpInv'
    BY <2>5, UdpLoadConn, UdpDeleteConn, UdpCloseConn, UdpLoadUdp, UdpDeleteUdp, UdpShutUdp,
       UdpCloseUdp, Zenon DEF DelStep
  <2>6. ASSUME NEW u \in Udps, StartUdp(u) \/ NilStart(u) \/ CollectUdp(u) PROVE UdpInv'
    BY <2>2, <2>6, UdpObjectStep, Zenon DEF NilStart
  <2> QED
    BY <2>2, <2>3, <2>4, <2>5, <2>6, UdpInvoke, UdpListen, Zenon DEF Next
<1> QED
  BY <1>1, <1>2, TypeCorrect, TcpTable, PTL DEF Spec

(* A UDP socket is lost only by an overlap, or by a DelPort that reached   *)
(* the object before its Start.                                            *)
THEOREM UdpLostOnlyByRace == Spec => []UdpOrphanOnlyByRace
<1>1. TypeOK /\ UdpInv => UdpOrphanOnlyByRace
  BY DEF TypeOK, OsTypes, UdpInv, UdpOwner, UdpAccounted, Holds, UdpOrphanOnlyByRace, UdpOrphan
<1> QED
  BY <1>1, TypeCorrect, UdpTable, PTL

(* A request spins in StoreConn only on a port where requests overlapped.  *)
THEOREM NoSpinAlone == Spec => []SpinOnlyByOverlap
<1>1. UdpInv => SpinOnlyByOverlap
  BY DEF UdpInv, AddAlone, SpinOnlyByOverlap, Spins
<1> QED
  BY <1>1, UdpTable, PTL

(* A TCP socket of a port on which one request is alone, and makes         *)
(* nothing, is the one the map leads to, or the one it closes.             *)
LEMMA SocketAlone ==
  ASSUME TypeOK, TcpInv, UdpInv, NEW t \in Threads, pc[t] # "idle", ~Makes(t),
         NEW p \in Ports, p = call[t].port \/ p = call[t].old, p \notin overlap,
         tcpSock[p] # None
  PROVE  \/ srcConn[p] = tcpSock[p]
         \/ pc[t] = "closeConn" /\ conn[t] = tcpSock[p]
<1> USE DEF UdpInv, TcpInv
<1>1. \A s \in Threads \ {t} :
        pc[s] # "idle" /\ (call[s].port = p \/ call[s].old = p) => p \in overlap
  BY Alone
<1>2. p \notin twin
  BY DEF OneAtATime
<1>3. SUFFICES ASSUME NEW s \in Threads, conn[s] = tcpSock[p], Makes(s) \/ pc[s] = "closeConn"
               PROVE  s = t
  BY <1>2 DEF TwinHistory
<1>4. CASE Makes(s)
  <2>1. tcpSock[call[s].port] = conn[s]
    BY <1>3, <1>4 DEF MakerState, Makes
  <2>2. call[s].port \in Ports
    BY <1>4, CallFields DEF Makes, TypeOK, ReqTypes
  <2>3. call[s].port = p
    BY <1>3, <2>1, <2>2 DEF OwnerInjective
  <2> QED
    BY <1>1, <1>4, <2>3 DEF Makes
<1>5. CASE pc[s] = "closeConn"
  <2>1. call[s].old = p
    BY <1>3, <1>5 DEF CloserState, Closes
  <2> QED
    BY <1>1, <1>5, <2>1
<1> QED
  BY <1>3, <1>4, <1>5

(* A UDP socket of a port on which one request is alone is the one the map *)
(* leads to, or the one it holds.                                          *)
LEMMA UdpSocketAlone ==
  ASSUME TypeOK, UdpInv, NEW t \in Threads, pc[t] # "idle",
         NEW p \in Ports, p = call[t].port \/ p = call[t].old, p \notin overlap \cup early,
         udpSock[p] # None
  PROVE  srcUdp[p] = udpSock[p] \/ Holds(t, udpSock[p])
<1> USE DEF UdpInv
<1>1. \A s \in Threads \ {t} :
        pc[s] # "idle" /\ (call[s].port = p \/ call[s].old = p) => p \in overlap
  BY Alone
<1>2. udpSock[p] \in Udps /\ udp[udpSock[p]].port = p /\ udp[udpSock[p]].st = "open"
  BY DEF TypeOK, OsTypes, UdpOwner
<1>3. SUFFICES ASSUME NEW s \in Threads, Holds(s, udpSock[p])
               PROVE  s = t
  BY <1>2 DEF UdpAccounted
<1>4. call[s].port = p \/ call[s].old = p
  BY <1>2, <1>3 DEF UdpHeld, Holds
<1> QED
  BY <1>1, <1>3, <1>4 DEF Holds

(* A DelPort that was alone on its port and ends without a panic leaves    *)
(* both sockets of the port free.                                          *)
THEOREM DeletedFree == Spec => DeletedPortIsFree
<1> DEFINE Frees ==
      \A t \in Threads :
         LET p == call[t].old IN
         /\ pc[t] \in DelSteps
         /\ pc'[t] \notin DelSteps
         /\ res'[t] # "panic"
         /\ p \notin overlap \cup early
         => tcpSock'[p] = None /\ udpSock'[p] = None
<1>1. TypeOK /\ TcpInv /\ UdpInv /\ [Next]_vars => [Frees]_vars
  <2> SUFFICES ASSUME TypeOK, TcpInv, UdpInv, Next, NEW t \in Threads,
                      pc[t] \in DelSteps, pc'[t] \notin DelSteps, res'[t] # "panic",
                      call[t].old \notin overlap \cup early
               PROVE  tcpSock'[call[t].old] = None /\ udpSock'[call[t].old] = None
    BY DEF vars
  <2> DEFINE p == call[t].old
  <2> USE DEF UdpInv
  <2>1. p \in Ports
    BY CallFields DEF TypeOK, ReqTypes
  <2>2. ASSUME Crash PROVE tcpSock'[p] = None /\ udpSock'[p] = None
    BY <2>1, <2>2 DEF Crash
  <2>3. CASE LoadConn(t)
    <3>1. /\ pc[t] = "loadConn" /\ srcConn[p] = None
          /\ UNCHANGED <<tcpSock, udpSock>>
      BY <2>3 DEF LoadConn, Goto, TypeOK, ReqTypes, osVars
    <3>2. tcpSock[p] = None
      BY <2>1, <3>1, SocketAlone DEF Makes
    <3>3. srcUdp[p] = None
      <4>1. \A s \in Threads \ {t} :
              pc[s] # "idle" /\ (call[s].port = p \/ call[s].old = p) => p \in overlap
        BY <3>1, Alone
      <4> QED
        BY <2>1, <3>1, <4>1 DEF UdpBesideTcp
    <3>4. udpSock[p] = None
      BY <2>1, <3>1, <3>3, UdpSocketAlone DEF Holds
    <3> QED
      BY <3>1, <3>2, <3>4
  <2>4. CASE LoadUdp(t)
    <3>1. /\ pc[t] = "loadUdp" /\ srcUdp[p] = None
          /\ UNCHANGED <<tcpSock, udpSock>>
      BY <2>4 DEF LoadUdp, Goto, TypeOK, ReqTypes, osVars
    <3>2. udpSock[p] = None
      BY <2>1, <3>1, UdpSocketAlone DEF Holds
    <3> QED
      BY <3>1, <3>2 DEF DelAlone
  <2>5. CASE CloseUdp(t)
    <3> DEFINE u == fwd[t]
    <3>1. pc[t] = "closeUdp" /\ tcpSock' = tcpSock
      BY <2>5 DEF CloseUdp
    <3>2. tcpSock[p] = None /\ srcUdp[p] = None
      BY <3>1 DEF DelAlone
    <3>3. u # None /\ udp[u].port = p /\ udpSock \in [Ports -> Udps \cup {None}]
      BY <3>1 DEF UdpHeld, TypeOK, OsTypes
    <3>4. \/ udp[u].st \in {"new", "failed"} /\ udpSock' = udpSock
          \/ udp[u].st = "open" /\ udpSock' = [udpSock EXCEPT ![udp[u].port] = None]
      BY <2>5, Zenon DEF CloseUdp
    <3>5. udpSock[p] # None => udp[u].st = "open"
      BY <2>1, <3>1, <3>2, UdpSocketAlone DEF Holds, UdpOwner
    <3> QED
      BY <2>1, <3>1, <3>2, <3>3, <3>4, <3>5
  <2>6. ASSUME DeleteConn(t) \/ CloseConn(t) \/ DeleteUdp(t) PROVE FALSE
    BY <2>6 DEF DeleteConn, CloseConn, DeleteUdp, Goto, TypeOK, ReqTypes
  <2>7. ASSUME ShutUdp(t) PROVE FALSE
    <3>1. Return(t, "panic") \/ Goto(t, "closeUdp")
      BY <2>7, Zenon DEF ShutUdp
    <3> QED
      BY <3>1 DEF Return, Goto, TypeOK, ReqTypes
  <2>8. ASSUME \/ AddStep(t) \/ Listen(t)
               \/ \E c \in Calls : Invoke(t, c)
               \/ \E u \in Udps : StartUdp(u) \/ CollectUdp(u)
        PROVE  FALSE
    <3>1. CASE AddStep(t)
      BY <3>1 DEF AddStep, ProbeBind, ProbeInUse, ProbeClose, ProbeBadChain, StoreConn, NewUdp,
                  StoreUdp
    <3>2. CASE Listen(t) \/ \E c \in Calls : Invoke(t, c)
      BY <3>2 DEF Listen, Invoke
    <3>3. CASE \E u \in Udps : StartUdp(u) \/ CollectUdp(u)
      <4>1. UNCHANGED pc
        BY <3>3, Zenon DEF StartUdp, CollectUdp, reqVars
      <4> QED
        BY <4>1
    <3> QED
      BY <2>8, <3>1, <3>2, <3>3
  <2>9. ASSUME NEW s \in Threads \ {t},
               \/ AddStep(s) \/ DelStep(s) \/ Listen(s)
               \/ \E c \in Calls : Invoke(s, c)
        PROVE  pc'[t] = pc[t]
    <3>1. \/ pc' = pc
          \/ \E step \in {"idle"} \cup AddSteps \cup DelSteps : Goto(s, step)
          \/ \E r \in Results : Return(s, r)
          \/ DelPortReturns(s)
      <4>1. CASE AddStep(s)
        BY <4>1
           DEF AddStep, ProbeBind, ProbeInUse, ProbeClose, ProbeBadChain, StoreConn, NewUdp,
                    StoreUdp, Results
      <4>2. CASE DelStep(s)
        <5>1. CASE LoadConn(s) \/ DeleteConn(s) \/ CloseConn(s)
          BY <5>1 DEF LoadConn, DeleteConn, CloseConn
        <5>2. CASE LoadUdp(s) \/ DeleteUdp(s)
          BY <5>2 DEF LoadUdp, DeleteUdp
        <5>3. CASE ShutUdp(s) \/ CloseUdp(s)
          <6>1. Return(s, "panic") \/ Goto(s, "closeUdp") \/ DelPortReturns(s)
            BY <5>3, Zenon DEF ShutUdp, CloseUdp
          <6> QED
            BY <6>1 DEF Results
        <5> QED
          BY <4>2, <5>1, <5>2, <5>3 DEF DelStep
      <4>3. CASE Listen(s)
        BY <4>3 DEF Listen, reqVars
      <4>4. CASE \E c \in Calls : Invoke(s, c)
        BY <4>4 DEF Invoke
      <4> QED
        BY <2>9, <4>1, <4>2, <4>3, <4>4
    <3> QED
      BY <3>1, ReturnFrame, DelPortReturnsFrame DEF Goto, TypeOK, ReqTypes
  <2>10. (\E u \in Udps : StartUdp(u) \/ NilStart(u) \/ CollectUdp(u)) \/ Crash \/
         \E s \in Threads : AddStep(s) \/ DelStep(s) \/ Listen(s) \/ \E c \in Calls : Invoke(s, c)
    BY Zenon DEF Next
  <2> QED
    BY <2>2, <2>3, <2>4, <2>5, <2>6, <2>7, <2>8, <2>9, <2>10 DEF DelStep, NilStart
<1> QED
  BY <1>1, TypeCorrect, TcpTable, UdpTable, PTL DEF Spec, DeletedPortIsFree

(* No request takes a step that is not of its operation.                   *)
THEOREM StepsFit == Spec => []RightSteps
<1>1. Init => RightSteps
  BY DEF Init, RightSteps
<1>2. TypeOK /\ RightSteps /\ [Next]_vars => RightSteps'
  <2> SUFFICES ASSUME TypeOK, RightSteps, [Next]_vars PROVE RightSteps'
    OBVIOUS
  <2>1. ASSUME NEW t \in Threads, call' = call,
               NEW step \in AddSteps \cup DelSteps, Goto(t, step),
               \/ pc[t] \in AddSteps /\ step \in AddSteps
               \/ pc[t] \in DelSteps /\ step \in DelSteps
        PROVE  RightSteps'
    BY <2>1 DEF RightSteps, Goto, TypeOK, ReqTypes
  <2>2. ASSUME NEW t \in Threads, NEW r, Return(t, r) PROVE RightSteps'
    BY <2>2, ReturnFrame DEF RightSteps
  <2>3. ASSUME NEW t \in Threads, DelPortReturns(t) PROVE RightSteps'
    <3>1. CASE call[t].op = "ModifyRule"
      BY <2>3, <3>1 DEF DelPortReturns, RightSteps, Goto, TypeOK, ReqTypes
    <3>2. CASE call[t].op # "ModifyRule"
      BY <2>2, <2>3, <3>2 DEF DelPortReturns
    <3> QED
      BY <3>1, <3>2
  <2>4. ASSUME NEW t \in Threads, NEW c \in Calls, Invoke(t, c) PROVE RightSteps'
    <3>1. c.op \in {"AddRule", "AddChain", "DelPort", "ModifyRule"}
      BY DEF Calls
    <3> QED
      BY <2>4, <3>1 DEF Invoke, RightSteps, Goto, TypeOK, ReqTypes
  <2>5. ASSUME NEW t \in Threads, AddStep(t) PROVE RightSteps'
    <3>1. CASE ProbeBind(t) \/ ProbeClose(t) \/ NewUdp(t)
      BY <2>1, <3>1 DEF ProbeBind, ProbeClose, NewUdp
    <3>2. CASE ProbeInUse(t) \/ ProbeBadChain(t) \/ StoreUdp(t)
      BY <2>2, <3>2 DEF ProbeInUse, ProbeBadChain, StoreUdp
    <3>3. CASE StoreConn(t)
      BY <2>1, <2>2, <3>3 DEF StoreConn
    <3> QED
      BY <2>5, <3>1, <3>2, <3>3 DEF AddStep
  <2>6. ASSUME NEW t \in Threads, DelStep(t) PROVE RightSteps'
    <3>1. CASE LoadConn(t) \/ DeleteConn(t) \/ CloseConn(t)
      BY <2>1, <2>3, <3>1 DEF LoadConn, DeleteConn, CloseConn
    <3>2. CASE LoadUdp(t) \/ DeleteUdp(t)
      BY <2>1, <2>3, <3>2 DEF LoadUdp, DeleteUdp
    <3>3. CASE ShutUdp(t)
      <4>1. \/ Return(t, "panic")
            \/ pc[t] = "shutUdp" /\ Goto(t, "closeUdp") /\ call' = call
        BY <3>3, Zenon DEF ShutUdp
      <4> QED
        BY <2>1, <2>2, <4>1
    <3>4. CASE CloseUdp(t)
      <4>1. Return(t, "panic") \/ DelPortReturns(t)
        BY <3>4, Zenon DEF CloseUdp
      <4> QED
        BY <2>2, <2>3, <4>1
    <3> QED
      BY <2>6, <3>1, <3>2, <3>3, <3>4 DEF DelStep
  <2>7. ASSUME NEW t \in Threads, Listen(t) PROVE RightSteps'
    BY <2>7 DEF Listen, reqVars, RightSteps
  <2>8. ASSUME NEW u \in Udps, StartUdp(u) \/ CollectUdp(u) PROVE RightSteps'
    <3>1. pc' = pc /\ call' = call
      BY <2>8, Zenon DEF StartUdp, CollectUdp, reqVars
    <3> QED
      BY <3>1 DEF RightSteps
  <2>9. ASSUME Crash PROVE RightSteps'
    BY <2>9 DEF Crash, RightSteps
  <2>10. CASE UNCHANGED vars
    BY <2>10 DEF vars, reqVars, RightSteps
  <2> QED
    BY <2>4, <2>5, <2>6, <2>7, <2>8, <2>9, <2>10, Zenon DEF Next, NilStart
<1> QED
  BY <1>1, <1>2, TypeCorrect, PTL DEF Spec

-----------------------------------------------------------------------------
(* The table implements the abstract registry for serial callers           *)

(* What the refinement maps the registry's variables to.                   *)
OpenPorts == { p \in Ports : ServesPort(p) }
Phases    == [t \in Threads |-> PhaseOf(t)]
Asked     == [t \in Threads |-> RequestOf(call[t])]

(* The phase of a request at each of its steps, and after a step.          *)
LEMMA PhaseAt ==
  ASSUME NEW t \in Threads
  PROVE  /\ pc[t] = "idle" => PhaseOf(t) = "idle"
         /\ pc[t] \in {"probe", "probeClose"} => PhaseOf(t) = "add"
         /\ pc[t] = "storeConn" =>
              PhaseOf(t) = IF lst[conn[t]] = "listening" THEN "done" ELSE "add"
         /\ pc[t] \in {"newUdp", "storeUdp"} => PhaseOf(t) = "done"
         /\ pc[t] \in {"loadConn", "deleteConn", "closeConn"} => PhaseOf(t) = "delete"
         /\ pc[t] \in {"loadUdp", "deleteUdp", "shutUdp", "closeUdp"} =>
              PhaseOf(t) = IF call[t].op = "ModifyRule" THEN "add" ELSE "done"
BY DEF PhaseOf

(* The same after a step.                                                  *)
LEMMA PhaseNext ==
  ASSUME NEW t \in Threads
  PROVE  /\ pc'[t] = "idle" => PhaseOf(t)' = "idle"
         /\ pc'[t] \in {"probe", "probeClose"} => PhaseOf(t)' = "add"
         /\ pc'[t] = "storeConn" =>
              PhaseOf(t)' = IF lst'[conn'[t]] = "listening" THEN "done" ELSE "add"
         /\ pc'[t] \in {"newUdp", "storeUdp"} => PhaseOf(t)' = "done"
         /\ pc'[t] \in {"loadConn", "deleteConn", "closeConn"} => PhaseOf(t)' = "delete"
         /\ pc'[t] \in {"loadUdp", "deleteUdp", "shutUdp", "closeUdp"} =>
              PhaseOf(t)' = IF call'[t].op = "ModifyRule" THEN "add" ELSE "done"
BY DEF PhaseOf

(* A request that a step leaves where it is keeps its phase.               *)
LEMMA PhaseKept ==
  ASSUME TypeOK, NEW s \in Threads, pc'[s] = pc[s], call'[s] = call[s],
         pc[s] = "storeConn" => conn'[s] = conn[s] /\ lst'[conn[s]] = lst[conn[s]]
  PROVE  PhaseOf(s)' = PhaseOf(s)
<1>1. pc[s] \in {"idle"} \cup AddSteps \cup DelSteps
  BY DEF TypeOK, ReqTypes
<1> QED
  BY <1>1, PhaseAt, PhaseNext

(* A step of one request moves only its phase.                             *)
LEMMA PhasesMove ==
  ASSUME NEW t \in Threads, NEW ph, PhaseOf(t)' = ph,
         \A s \in Threads \ {t} : PhaseOf(s)' = PhaseOf(s)
  PROVE  Phases' = [Phases EXCEPT ![t] = ph]
BY DEF Phases

(* A call has a port, to add or to delete.                                 *)
LEMMA RequestFields ==
  ASSUME NEW c \in Calls
  PROVE  /\ RequestOf(c) \in [port : Ports \cup {None}, old : Ports \cup {None}]
         /\ RequestOf(c) # [port |-> None, old |-> None]
         /\ c.op \in {"AddRule", "AddChain", "DelPort", "ModifyRule"}
         /\ RequestOf(c).port = IF c.op = "DelPort" THEN None ELSE c.port
         /\ RequestOf(c).old = IF c.op \in {"DelPort", "ModifyRule"} THEN c.old ELSE None
         /\ c.port \in Ports /\ c.old \in Ports
BY ConstantsAssumption DEF RequestOf, Calls

(* What an answer does to the abstract request.                            *)
LEMMA AnswerMaps ==
  ASSUME TypeOK, NEW t \in Threads, NEW r, Return(t, r),
         \A s \in Threads \ {t} : pc[s] = "storeConn" => lst'[conn[s]] = lst[conn[s]]
  PROVE  /\ Phases' = [Phases EXCEPT ![t] = "idle"]
         /\ res' = [res EXCEPT ![t] = r]
         /\ Asked' = [Asked EXCEPT ![t] = [port |-> None, old |-> None]]
<1>1. /\ pc'[t] = "idle"
      /\ \A s \in Threads \ {t} : pc'[s] = pc[s] /\ call'[s] = call[s] /\ conn'[s] = conn[s]
  BY ReturnFrame
<1>2. \A s \in Threads \ {t} : PhaseOf(s)' = PhaseOf(s)
  BY <1>1, PhaseKept
<1>3. Phases' = [Phases EXCEPT ![t] = "idle"]
  BY <1>1, <1>2, PhaseNext, PhasesMove
<1>4. RequestOf(NoCall) = [port |-> None, old |-> None]
  BY DEF RequestOf, NoCall
<1>5. Asked' = [Asked EXCEPT ![t] = [port |-> None, old |-> None]]
  BY <1>4 DEF Asked, Return, TypeOK, ReqTypes
<1> QED
  BY <1>3, <1>5 DEF Return

(* What a step from one place of a request to another does.                *)
LEMMA GotoMaps ==
  ASSUME TypeOK, NEW t \in Threads, call' = call, res' = res, NEW ph, PhaseOf(t)' = ph,
         \A s \in Threads \ {t} : pc'[s] = pc[s] /\ conn'[s] = conn[s],
         \A s \in Threads \ {t} : pc[s] = "storeConn" => lst'[conn[s]] = lst[conn[s]]
  PROVE  /\ Phases' = [Phases EXCEPT ![t] = ph]
         /\ PhaseOf(t) = ph => Phases' = Phases
         /\ Asked' = Asked
<1>1. \A s \in Threads \ {t} : PhaseOf(s)' = PhaseOf(s)
  BY PhaseKept
<1>2. Phases' = [Phases EXCEPT ![t] = ph]
  BY <1>1, PhasesMove
<1> QED
  BY <1>2 DEF Phases, Asked

(* The actions of the registry in the terms of the table.                  *)
LEMMA AbstractStutter ==
  ASSUME OpenPorts' = OpenPorts, Phases' = Phases, Asked' = Asked, res' = res
  PROVE  UNCHANGED Registry!vars
BY DEF Registry!vars, OpenPorts, Phases, Asked

(* A request arrives.                                                      *)
LEMMA AbstractRequest ==
  ASSUME NEW t \in Threads, NEW r \in [port : Ports \cup {None}, old : Ports \cup {None}],
         PhaseOf(t) = "idle", r # [port |-> None, old |-> None],
         Phases' = [Phases EXCEPT ![t] = IF r.old = None THEN "add" ELSE "delete"],
         Asked' = [Asked EXCEPT ![t] = r], res' = [res EXCEPT ![t] = "none"],
         OpenPorts' = OpenPorts
  PROVE  Registry!Next
<1>1. Registry!Request(t, r)
  BY DEF Registry!Request, Registry!Become, Registry!NoRequest, OpenPorts, Phases, Asked
<1> QED
  BY <1>1 DEF Registry!Next, Registry!Requests

(* An add opens its port.                                                  *)
LEMMA AbstractOpen ==
  ASSUME NEW t \in Threads, PhaseOf(t) = "add", RequestOf(call[t]).port \notin OpenPorts,
         OpenPorts' = OpenPorts \cup {RequestOf(call[t]).port},
         Phases' = [Phases EXCEPT ![t] = "done"], Asked' = Asked, res' = res
  PROVE  Registry!Next
<1>1. Registry!Open(t)
  BY DEF Registry!Open, Registry!Become, OpenPorts, Phases, Asked
<1> QED
  BY <1>1 DEF Registry!Next

(* An add is refused.                                                      *)
LEMMA AbstractRefuse ==
  ASSUME NEW t \in Threads, PhaseOf(t) = "add", NEW r \in {"inUse", "badAddr"},
         r = "inUse" => RequestOf(call[t]).port \in OpenPorts,
         OpenPorts' = OpenPorts, Phases' = [Phases EXCEPT ![t] = "idle"],
         res' = [res EXCEPT ![t] = r],
         Asked' = [Asked EXCEPT ![t] = [port |-> None, old |-> None]]
  PROVE  Registry!Next
<1>1. CASE r = "inUse"
  <2>1. Registry!RefuseInUse(t)
    BY <1>1 DEF Registry!RefuseInUse, Registry!Answer, Registry!Become, Registry!NoRequest,
                OpenPorts, Phases, Asked
  <2> QED
    BY <2>1 DEF Registry!Next
<1>2. CASE r = "badAddr"
  <2>1. Registry!RefuseBadAddr(t)
    BY <1>2 DEF Registry!RefuseBadAddr, Registry!Answer, Registry!Become, Registry!NoRequest,
                OpenPorts, Phases, Asked
  <2> QED
    BY <2>1 DEF Registry!Next
<1> QED
  BY <1>1, <1>2

(* A delete closes its port.                                               *)
LEMMA AbstractClose ==
  ASSUME NEW t \in Threads, PhaseOf(t) = "delete", RequestOf(call[t]).old \in OpenPorts,
         OpenPorts' = OpenPorts \ {RequestOf(call[t]).old},
         Phases' = [Phases EXCEPT ![t] = IF RequestOf(call[t]).port = None THEN "done" ELSE "add"],
         Asked' = Asked, res' = res
  PROVE  Registry!Next
<1>1. Registry!Close(t)
  BY DEF Registry!Close, Registry!AfterDelete, Registry!Become, OpenPorts, Phases, Asked
<1> QED
  BY <1>1 DEF Registry!Next

(* A delete finds its port closed, and goes on to add or is answered.      *)
LEMMA AbstractMissThenAdd ==
  ASSUME NEW t \in Threads, PhaseOf(t) = "delete", RequestOf(call[t]).old \notin OpenPorts,
         RequestOf(call[t]).port # None, OpenPorts' = OpenPorts,
         Phases' = [Phases EXCEPT ![t] = "add"], Asked' = Asked, res' = res
  PROVE  Registry!Next
<1>1. Registry!Miss(t)
  BY DEF Registry!Miss, Registry!Become, OpenPorts, Phases, Asked
<1> QED
  BY <1>1 DEF Registry!Next

(* The same when nothing is to be added.                                   *)
LEMMA AbstractMiss ==
  ASSUME NEW t \in Threads, PhaseOf(t) = "delete", RequestOf(call[t]).old \notin OpenPorts,
         RequestOf(call[t]).port = None, OpenPorts' = OpenPorts,
         Phases' = [Phases EXCEPT ![t] = "idle"], res' = [res EXCEPT ![t] = "ok"],
         Asked' = [Asked EXCEPT ![t] = [port |-> None, old |-> None]]
  PROVE  Registry!Next
<1>1. Registry!Miss(t)
  BY DEF Registry!Miss, Registry!Answer, Registry!Become, Registry!NoRequest, OpenPorts, Phases,
         Asked
<1> QED
  BY <1>1 DEF Registry!Next

(* A request is answered.                                                  *)
LEMMA AbstractReturn ==
  ASSUME NEW t \in Threads, PhaseOf(t) = "done", OpenPorts' = OpenPorts,
         Phases' = [Phases EXCEPT ![t] = "idle"], res' = [res EXCEPT ![t] = "ok"],
         Asked' = [Asked EXCEPT ![t] = [port |-> None, old |-> None]]
  PROVE  Registry!Next
<1>1. Registry!Return(t)
  BY DEF Registry!Return, Registry!Answer, Registry!Become, Registry!NoRequest, OpenPorts,
         Phases, Asked
<1> QED
  BY <1>1 DEF Registry!Next

(* A delete panics after its port was closed.                              *)
LEMMA AbstractPanic ==
  ASSUME NEW t \in Threads, PhaseOf(t) \in {"done", "add"}, OpenPorts' = OpenPorts,
         RequestOf(call[t]).old # None, RequestOf(call[t]).old \notin OpenPorts,
         Phases' = [Phases EXCEPT ![t] = "idle"], res' = [res EXCEPT ![t] = "panic"],
         Asked' = [Asked EXCEPT ![t] = [port |-> None, old |-> None]]
  PROVE  Registry!Next
<1>1. Registry!Panic(t)
  BY DEF Registry!Panic, Registry!Answer, Registry!Become, Registry!NoRequest, OpenPorts,
         Phases, Asked
<1> QED
  BY <1>1 DEF Registry!Next

(* A socket that the probe of a request alone on the port finds there is   *)
(* that of a listener that serves it.                                      *)
LEMMA FoundServes ==
  ASSUME TypeOK, TcpInv, UdpInv, Serial, NEW t \in Threads, pc[t] = "probe",
         tcpSock[call[t].port] # None
  PROVE  call[t].port \in OpenPorts
<1>1. call[t].port \in Ports /\ overlap = {}
  BY CallFields DEF TypeOK, ReqTypes, UdpInv, OneAtATime
<1>2. srcConn[call[t].port] = tcpSock[call[t].port]
  BY <1>1, SocketAlone DEF Makes
<1> QED
  BY <1>1, <1>2 DEF OpenPorts, ServesPort, TcpInv, MapEntriesListen

(* A port a DelPort finds no entry for is closed.                          *)
LEMMA MissedClosed ==
  ASSUME TypeOK, TcpInv, UdpInv, Serial, NEW t \in Threads,
         \/ pc[t] = "loadConn" /\ srcConn[call[t].old] = None
         \/ pc[t] \in {"loadUdp", "deleteUdp", "shutUdp", "closeUdp"}
  PROVE  tcpSock[call[t].old] = None /\ call[t].old \notin OpenPorts
<1>1. call[t].old \in Ports /\ overlap = {}
  BY CallFields DEF TypeOK, ReqTypes, UdpInv, OneAtATime
<1>2. tcpSock[call[t].old] = None
  BY <1>1, SocketAlone DEF Makes, UdpInv, DelAlone
<1> QED
  BY <1>2 DEF OpenPorts, ServesPort

(* The end of a DelPort: a deletion is answered, ModifyRule goes on to add.*)
LEMMA DelPortReturnsMaps ==
  ASSUME TypeOK, NEW t \in Threads, DelPortReturns(t), lst' = lst, call[t] \in Calls
  PROVE  \/ /\ call[t].op = "ModifyRule" /\ PhaseOf(t)' = "add"
            /\ Phases' = [Phases EXCEPT ![t] = "add"]
            /\ PhaseOf(t) = "add" => Phases' = Phases
            /\ Asked' = Asked /\ res' = res
         \/ /\ call[t].op # "ModifyRule"
            /\ Phases' = [Phases EXCEPT ![t] = "idle"]
            /\ res' = [res EXCEPT ![t] = "ok"]
            /\ Asked' = [Asked EXCEPT ![t] = [port |-> None, old |-> None]]
<1>1. CASE call[t].op = "ModifyRule"
  <2>1. pc'[t] = "probe" /\ call' = call /\ res' = res
    BY <1>1 DEF DelPortReturns, Goto, TypeOK, ReqTypes
  <2>2. \A s \in Threads \ {t} : pc'[s] = pc[s] /\ conn'[s] = conn[s]
    BY DelPortReturnsFrame
  <2>3. PhaseOf(t)' = "add"
    BY <2>1, PhaseNext
  <2> QED
    BY <1>1, <2>1, <2>2, <2>3, GotoMaps
<1>2. CASE call[t].op # "ModifyRule"
  BY <1>2, AnswerMaps DEF DelPortReturns
<1> QED
  BY <1>1, <1>2

(* Steps that change no listener leave the open ports as they are.         *)
LEMMA OpenPortsKept ==
  ASSUME UNCHANGED <<tcpSock, lst>>
  PROVE  OpenPorts' = OpenPorts
BY DEF OpenPorts, ServesPort

(* Every step of an AddRule or AddChain is one of the registry or none.    *)
LEMMA AddStepMaps ==
  ASSUME TypeOK, TcpInv, UdpInv, RightSteps, Serial, NEW t \in Threads, AddStep(t)
  PROVE  Registry!Next \/ UNCHANGED Registry!vars
<1> DEFINE p == call[t].port
           c == conn[t]
<1>1. /\ pc[t] \in AddSteps /\ p \in Ports /\ RequestOf(call[t]).port = p
      /\ tcpSock \in [Ports -> Conns \cup {None}] /\ lst \in [Conns -> ListenerStates]
  <2>1. pc[t] \in AddSteps
    BY
       DEF AddStep, ProbeBind, ProbeInUse, ProbeClose, ProbeBadChain, StoreConn, NewUdp,
       StoreUdp
  <2>2. call[t].op # "DelPort"
    BY <2>1 DEF RightSteps
  <2> QED
    BY <2>1, <2>2, CallFields DEF RequestOf, TypeOK, OsTypes, ReqTypes
<1>2. CASE ProbeBind(t)
  <2>1. PICK d \in Conns :
          /\ FreshConn(d)
          /\ conn' = [conn EXCEPT ![t] = d]
          /\ tcpSock' = [tcpSock EXCEPT ![p] = d]
          /\ lst' = [lst EXCEPT ![d] = "probing"]
    BY <1>2 DEF ProbeBind
  <2>2. /\ pc[t] = "probe" /\ pc' = [pc EXCEPT ![t] = "probeClose"] /\ call' = call /\ res' = res
        /\ tcpSock[p] = None
    BY <1>2 DEF ProbeBind, Goto
  <2>3. /\ pc'[t] = "probeClose" /\ lst'[d] = "probing"
        /\ \A e \in Conns : e # d => lst'[e] = lst[e]
        /\ \A s \in Threads : conn[s] # d
        /\ \A s \in Threads \ {t} : pc'[s] = pc[s] /\ conn'[s] = conn[s]
    BY <2>1, <2>2 DEF TypeOK, OsTypes, ReqTypes, FreshConn
  <2>4. \A s \in Threads \ {t} : pc[s] = "storeConn" => lst'[conn[s]] = lst[conn[s]]
    BY <2>3 DEF TypeOK, ReqTypes, TcpInv, MakerOwns, Makes
  <2>5. PhaseOf(t) = "add" /\ PhaseOf(t)' = "add"
    BY <2>2, <2>3, PhaseAt, PhaseNext
  <2>6. Phases' = Phases /\ Asked' = Asked
    BY <2>2, <2>3, <2>4, <2>5, GotoMaps
  <2>7. OpenPorts' = OpenPorts
    BY <1>1, <2>1, <2>2, <2>3, ConstantsAssumption DEF FreshConn, OpenPorts, ServesPort
  <2> QED
    BY <2>2, <2>6, <2>7, AbstractStutter
<1>3. CASE ProbeInUse(t)
  <2>1. /\ pc[t] = "probe" /\ tcpSock[p] # None
        /\ Return(t, "inUse") /\ UNCHANGED <<tcpSock, lst>>
    BY <1>3 DEF ProbeInUse, osVars
  <2>2. PhaseOf(t) = "add" /\ OpenPorts' = OpenPorts /\ p \in OpenPorts
    BY <2>1, PhaseAt, OpenPortsKept, FoundServes
  <2>3. /\ Phases' = [Phases EXCEPT ![t] = "idle"] /\ res' = [res EXCEPT ![t] = "inUse"]
        /\ Asked' = [Asked EXCEPT ![t] = [port |-> None, old |-> None]]
    BY <2>1, AnswerMaps
  <2> QED
    BY <1>1, <2>2, <2>3, AbstractRefuse
<1>4. ASSUME pc[t] = "probeClose", tcpSock' = [tcpSock EXCEPT ![p] = None],
             NEW st \in {"starting", "none"}, lst' = [lst EXCEPT ![c] = st]
      PROVE  /\ OpenPorts' = OpenPorts
             /\ \A s \in Threads \ {t} : pc[s] = "storeConn" => lst'[conn[s]] = lst[conn[s]]
             /\ c \in Conns /\ lst'[c] = st
  <2>1. c \in Conns /\ c # None /\ tcpSock[p] = c /\ lst[c] = "probing"
    BY <1>4 DEF TcpInv, MakerOwns, MakerState, Makes, TypeOK, ReqTypes
  <2>2. \A q \in Ports : q # p => tcpSock'[q] = tcpSock[q] /\ tcpSock[q] # c
    BY <1>1, <1>4, <2>1 DEF TcpInv, OwnerInjective
  <2>3. \A d \in Conns : d # c => lst'[d] = lst[d]
    BY <1>1, <1>4
  <2>4. \A q \in Ports : ServesPort(q)' <=> ServesPort(q)
    BY <1>1, <1>4, <2>1, <2>2, <2>3 DEF ServesPort
  <2>5. \A s \in Threads \ {t} : pc[s] = "storeConn" => lst'[conn[s]] = lst[conn[s]]
    BY <1>4, <2>3 DEF TypeOK, ReqTypes, TcpInv, MakerOwns, Makes
  <2> QED
    BY <1>1, <1>4, <2>1, <2>4, <2>5 DEF OpenPorts
<1>5. CASE ProbeClose(t)
  <2>1. /\ pc[t] = "probeClose" /\ pc' = [pc EXCEPT ![t] = "storeConn"]
        /\ tcpSock' = [tcpSock EXCEPT ![p] = None] /\ lst' = [lst EXCEPT ![c] = "starting"]
        /\ UNCHANGED <<call, res, conn>>
    BY <1>5 DEF ProbeClose, Goto
  <2>2. /\ OpenPorts' = OpenPorts /\ lst'[c] = "starting"
        /\ \A s \in Threads \ {t} : pc[s] = "storeConn" => lst'[conn[s]] = lst[conn[s]]
    BY <1>4, <2>1
  <2>3. pc'[t] = "storeConn" /\ \A s \in Threads \ {t} : pc'[s] = pc[s]
    BY <2>1 DEF TypeOK, ReqTypes
  <2>4. PhaseOf(t) = "add" /\ PhaseOf(t)' = "add"
    BY <2>1, <2>2, <2>3, PhaseAt, PhaseNext
  <2>5. Phases' = Phases /\ Asked' = Asked
    BY <2>1, <2>2, <2>3, <2>4, GotoMaps
  <2> QED
    BY <2>1, <2>2, <2>5, AbstractStutter
<1>6. CASE ProbeBadChain(t)
  <2>1. /\ pc[t] = "probeClose" /\ Return(t, "badAddr")
        /\ tcpSock' = [tcpSock EXCEPT ![p] = None] /\ lst' = [lst EXCEPT ![c] = "none"]
    BY <1>6 DEF ProbeBadChain
  <2>2. /\ OpenPorts' = OpenPorts
        /\ \A s \in Threads \ {t} : pc[s] = "storeConn" => lst'[conn[s]] = lst[conn[s]]
    BY <1>4, <2>1
  <2>3. PhaseOf(t) = "add"
    BY <2>1, PhaseAt
  <2>4. /\ Phases' = [Phases EXCEPT ![t] = "idle"] /\ res' = [res EXCEPT ![t] = "badAddr"]
        /\ Asked' = [Asked EXCEPT ![t] = [port |-> None, old |-> None]]
    BY <2>1, <2>2, AnswerMaps
  <2> QED
    BY <2>2, <2>3, <2>4, AbstractRefuse
<1>7. CASE StoreConn(t)
  <2>1. pc[t] = "storeConn" /\ lst[c] = "listening" /\ UNCHANGED <<tcpSock, lst>>
    BY <1>7 DEF StoreConn, osVars
  <2>2. PhaseOf(t) = "done" /\ OpenPorts' = OpenPorts
    BY <2>1, PhaseAt, OpenPortsKept
  <2>3. CASE UdpKinds(call[t]) = {}
    <3>1. Return(t, "ok")
      BY <1>7, <2>3 DEF StoreConn
    <3> QED
      BY <2>1, <2>2, <3>1, AnswerMaps, AbstractReturn
  <2>4. CASE UdpKinds(call[t]) # {}
    <3>1. Goto(t, "newUdp") /\ UNCHANGED <<call, res, conn>>
      BY <1>7, <2>4 DEF StoreConn
    <3>2. pc'[t] = "newUdp" /\ \A s \in Threads \ {t} : pc'[s] = pc[s]
      BY <3>1 DEF Goto, TypeOK, ReqTypes
    <3>3. PhaseOf(t)' = "done"
      BY <3>2, PhaseNext
    <3>4. Phases' = Phases /\ Asked' = Asked
      BY <2>1, <2>2, <3>1, <3>2, <3>3, GotoMaps
    <3> QED
      BY <2>2, <3>1, <3>4, AbstractStutter
  <2> QED
    BY <2>3, <2>4
<1>8. CASE NewUdp(t)
  <2>1. /\ pc[t] = "newUdp" /\ Goto(t, "storeUdp") /\ UNCHANGED <<tcpSock, lst, call, res, conn>>
    BY <1>8 DEF NewUdp
  <2>2. pc'[t] = "storeUdp" /\ \A s \in Threads \ {t} : pc'[s] = pc[s]
    BY <2>1 DEF Goto, TypeOK, ReqTypes
  <2>3. PhaseOf(t) = "done" /\ PhaseOf(t)' = "done"
    BY <2>1, <2>2, PhaseAt, PhaseNext
  <2>4. Phases' = Phases /\ Asked' = Asked
    BY <2>1, <2>2, <2>3, GotoMaps
  <2> QED
    BY <2>1, <2>4, OpenPortsKept, AbstractStutter
<1>9. CASE StoreUdp(t)
  <2>1. pc[t] = "storeUdp" /\ Return(t, "ok") /\ UNCHANGED <<tcpSock, lst>>
    BY <1>9 DEF StoreUdp, osVars
  <2>2. PhaseOf(t) = "done" /\ OpenPorts' = OpenPorts
    BY <2>1, PhaseAt, OpenPortsKept
  <2> QED
    BY <2>1, <2>2, AnswerMaps, AbstractReturn
<1> QED
  BY <1>2, <1>3, <1>5, <1>6, <1>7, <1>8, <1>9 DEF AddStep

(* Every step of a DelPort is one of the registry or none.                 *)
LEMMA DelStepMaps ==
  ASSUME TypeOK, TcpInv, UdpInv, RightSteps, Serial, NEW t \in Threads, DelStep(t)
  PROVE  Registry!Next \/ UNCHANGED Registry!vars
<1> DEFINE p == call[t].old
           c == conn[t]
<1>1. /\ pc[t] \in DelSteps /\ p \in Ports /\ RequestOf(call[t]).old = p
      /\ call[t] \in Calls /\ overlap = {}
      /\ call[t].op \in {"DelPort", "ModifyRule"}
      /\ RequestOf(call[t]).port = None <=> call[t].op = "DelPort"
      /\ tcpSock \in [Ports -> Conns \cup {None}] /\ lst \in [Conns -> ListenerStates]
  <2>1. pc[t] \in DelSteps
    <3>1. CASE LoadConn(t) \/ DeleteConn(t) \/ CloseConn(t)
      BY <3>1 DEF LoadConn, DeleteConn, CloseConn
    <3>2. CASE LoadUdp(t) \/ DeleteUdp(t)
      BY <3>2 DEF LoadUdp, DeleteUdp
    <3>3. CASE ShutUdp(t) \/ CloseUdp(t)
      <4>1. pc[t] \in {"shutUdp", "closeUdp"}
        BY <3>3, Zenon DEF ShutUdp, CloseUdp
      <4> QED
        BY <4>1
    <3> QED
      BY <3>1, <3>2, <3>3 DEF DelStep
  <2>2. call[t].op \in {"DelPort", "ModifyRule"} /\ call[t] \in Calls
    BY <2>1 DEF RightSteps, TypeOK, ReqTypes
  <2> QED
    BY <2>1, <2>2, RequestFields, ConstantsAssumption DEF TypeOK, OsTypes, UdpInv, OneAtATime
<1>2. ASSUME UNCHANGED <<tcpSock, lst>>, DelPortReturns(t),
             pc[t] \in {"loadUdp", "deleteUdp", "shutUdp", "closeUdp"}
      PROVE  Registry!Next \/ UNCHANGED Registry!vars
  <2>1. /\ OpenPorts' = OpenPorts
        /\ PhaseOf(t) = IF call[t].op = "ModifyRule" THEN "add" ELSE "done"
    BY <1>2, PhaseAt, OpenPortsKept
  <2> QED
    BY <1>1, <1>2, <2>1, DelPortReturnsMaps, AbstractStutter, AbstractReturn
<1>3. ASSUME UNCHANGED <<tcpSock, lst>>, Return(t, "panic"),
             pc[t] \in {"loadUdp", "deleteUdp", "shutUdp", "closeUdp"}
      PROVE  Registry!Next
  <2>1. OpenPorts' = OpenPorts /\ PhaseOf(t) \in {"done", "add"} /\ p \notin OpenPorts
    BY <1>3, PhaseAt, OpenPortsKept, MissedClosed
  <2>2. p # None
    BY <1>1, ConstantsAssumption
  <2> QED
    BY <1>1, <1>3, <2>1, <2>2, AnswerMaps, AbstractPanic
<1>4. ASSUME UNCHANGED <<tcpSock, lst, call, res>>, NEW step, Goto(t, step),
             \A s \in Threads \ {t} : conn'[s] = conn[s],
             \/ pc[t] \in {"loadConn", "deleteConn"} /\ step \in {"deleteConn", "closeConn"}
             \/ /\ pc[t] \in {"loadUdp", "deleteUdp", "shutUdp"}
                /\ step \in {"deleteUdp", "shutUdp", "closeUdp"}
      PROVE  UNCHANGED Registry!vars
  <2>1. pc'[t] = step /\ \A s \in Threads \ {t} : pc'[s] = pc[s]
    BY <1>4 DEF Goto, TypeOK, ReqTypes
  <2>2. PhaseOf(t)' = PhaseOf(t)
    BY <1>4, <2>1, PhaseAt, PhaseNext
  <2>3. Phases' = Phases /\ Asked' = Asked
    BY <1>4, <2>1, <2>2, GotoMaps
  <2> QED
    BY <1>4, <2>3, OpenPortsKept, AbstractStutter
<1>5. CASE LoadConn(t)
  <2>1. pc[t] = "loadConn" /\ UNCHANGED <<tcpSock, lst>>
    BY <1>5 DEF LoadConn, osVars
  <2>2. CASE srcConn[p] = None
    <3>1. DelPortReturns(t)
      BY <1>5, <2>2 DEF LoadConn
    <3>2. PhaseOf(t) = "delete" /\ OpenPorts' = OpenPorts /\ p \notin OpenPorts
      BY <2>1, <2>2, PhaseAt, OpenPortsKept, MissedClosed
    <3> QED
      BY <1>1, <2>1, <3>1, <3>2, DelPortReturnsMaps, AbstractMiss, AbstractMissThenAdd
  <2>3. CASE srcConn[p] # None
    <3>1. Goto(t, "deleteConn") /\ UNCHANGED <<call, res>>
      BY <1>5, <2>3 DEF LoadConn
    <3>2. \A s \in Threads \ {t} : conn'[s] = conn[s]
      BY <1>5, <2>3 DEF LoadConn, TypeOK, ReqTypes
    <3> QED
      BY <1>4, <2>1, <3>1, <3>2
  <2> QED
    BY <2>2, <2>3
<1>6. CASE DeleteConn(t)
  BY <1>4, <1>6 DEF DeleteConn, osVars
<1>7. CASE CloseConn(t)
  <2>1. /\ pc[t] = "closeConn" /\ Goto(t, "loadUdp") /\ UNCHANGED <<call, res>>
        /\ tcpSock' = [tcpSock EXCEPT ![p] = IF @ = c THEN None ELSE @]
        /\ lst' = [lst EXCEPT ![c] = "closed"]
        /\ conn' = [conn EXCEPT ![t] = None]
    BY <1>7 DEF CloseConn
  <2>2. /\ pc'[t] = "loadUdp"
        /\ \A s \in Threads \ {t} : pc'[s] = pc[s] /\ conn'[s] = conn[s]
    BY <2>1 DEF Goto, TypeOK, ReqTypes
  <2>3. c \in Conns /\ c # None /\ tcpSock[p] = c /\ lst[c] = "listening"
    BY <1>1, <2>1 DEF UdpInv, DelAlone, Closes, TcpInv, CloserState, TypeOK, ReqTypes
  <2>4. \A d \in Conns : d # c => lst'[d] = lst[d]
    BY <1>1, <2>1
  <2>5. \A s \in Threads \ {t} : pc[s] = "storeConn" => lst'[conn[s]] = lst[conn[s]]
    <3>1. \A s \in Threads \ {t} : pc[s] = "storeConn" => conn[s] # c /\ conn[s] \in Conns
      BY DEF TypeOK, ReqTypes, TcpInv, MakerOwns, Makes
    <3> QED
      BY <2>4, <3>1
  <2>6. p \in OpenPorts
    BY <1>1, <2>3 DEF OpenPorts, ServesPort
  <2>7. OpenPorts' = OpenPorts \ {p}
    <3>1. tcpSock'[p] = None /\ \A q \in Ports : q # p => tcpSock'[q] = tcpSock[q] /\ tcpSock[q] # c
      BY <1>1, <2>1, <2>3 DEF TcpInv, OwnerInjective
    <3>2. \A q \in Ports : q = p => ~ServesPort(q)'
      BY <3>1 DEF ServesPort
    <3>3. ASSUME NEW q \in Ports, q # p PROVE ServesPort(q)' <=> ServesPort(q)
      <4>1. tcpSock'[q] = tcpSock[q] /\ tcpSock[q] # c
        BY <3>1, <3>3
      <4>2. tcpSock[q] # None => lst'[tcpSock[q]] = lst[tcpSock[q]]
        BY <1>1, <2>4, <4>1
      <4> QED
        BY <4>1, <4>2 DEF ServesPort
    <3> QED
      BY <1>1, <3>2, <3>3 DEF OpenPorts
  <2>8. /\ PhaseOf(t) = "delete"
        /\ PhaseOf(t)' = IF RequestOf(call[t]).port = None THEN "done" ELSE "add"
    BY <1>1, <2>1, <2>2, PhaseAt, PhaseNext
  <2>9. /\ Phases' = [Phases EXCEPT ![t] =
                        IF RequestOf(call[t]).port = None THEN "done" ELSE "add"]
        /\ Asked' = Asked
    BY <2>1, <2>2, <2>5, <2>8, GotoMaps
  <2> QED
    BY <1>1, <2>1, <2>6, <2>7, <2>8, <2>9, AbstractClose
<1>8. CASE LoadUdp(t)
  <2>1. pc[t] = "loadUdp" /\ UNCHANGED <<tcpSock, lst>>
    BY <1>8 DEF LoadUdp, osVars
  <2>2. CASE srcUdp[p] = None
    BY <1>2, <1>8, <2>1, <2>2 DEF LoadUdp
  <2>3. CASE srcUdp[p] # None
    BY <1>4, <1>8, <2>1, <2>3 DEF LoadUdp
  <2> QED
    BY <2>2, <2>3
<1>9. CASE DeleteUdp(t)
  BY <1>4, <1>9 DEF DeleteUdp, osVars
<1>10. CASE ShutUdp(t)
  <2>1. /\ pc[t] = "shutUdp" /\ UNCHANGED <<tcpSock, lst>>
        /\ \/ Return(t, "panic")
           \/ Goto(t, "closeUdp") /\ UNCHANGED <<call, res, conn>>
    BY <1>10, Zenon DEF ShutUdp
  <2> QED
    BY <1>3, <1>4, <2>1
<1>11. CASE CloseUdp(t)
  <2>1. /\ pc[t] = "closeUdp" /\ UNCHANGED <<tcpSock, lst>>
        /\ Return(t, "panic") \/ DelPortReturns(t)
    BY <1>11, Zenon DEF CloseUdp
  <2> QED
    BY <1>2, <1>3, <2>1
<1> QED
  BY <1>5, <1>6, <1>7, <1>8, <1>9, <1>10, <1>11, Zenon DEF DelStep

(* Listen opens the port: a serial request has found it free again.        *)
LEMMA ListenMaps ==
  ASSUME TypeOK, TcpInv, UdpInv, RightSteps, Serial, NEW t \in Threads, Listen(t)
  PROVE  Registry!Next
<1> DEFINE p == call[t].port
           c == conn[t]
<1>1. pc[t] = "storeConn" /\ lst[c] = "starting" /\ UNCHANGED <<pc, call, res, conn>>
  BY DEF Listen, reqVars
<1>2. /\ p \in Ports /\ RequestOf(call[t]).port = p /\ overlap = {}
      /\ tcpSock \in [Ports -> Conns \cup {None}] /\ lst \in [Conns -> ListenerStates]
      /\ c \in Conns /\ c # None
  <2>1. call[t].op # "DelPort"
    BY <1>1 DEF RightSteps
  <2> QED
    BY <1>1, <2>1, CallFields
       DEF RequestOf, TypeOK, OsTypes, ReqTypes, UdpInv, OneAtATime, TcpInv, MakerOwns, Makes
<1>3. tcpSock[p] = None
  BY <1>1, <1>2 DEF UdpInv, AddAlone
<1>4. tcpSock' = [tcpSock EXCEPT ![p] = c] /\ lst' = [lst EXCEPT ![c] = "listening"]
  BY <1>3 DEF Listen
<1>5. \A d \in Conns : d # c => lst'[d] = lst[d]
  BY <1>2, <1>4
<1>6. \A s \in Threads \ {t} : pc[s] = "storeConn" => lst'[conn[s]] = lst[conn[s]]
  <2>1. \A s \in Threads \ {t} : pc[s] = "storeConn" => conn[s] # c /\ conn[s] \in Conns
    BY DEF TypeOK, ReqTypes, TcpInv, MakerOwns, Makes
  <2> QED
    BY <1>5, <2>1
<1>7. p \notin OpenPorts /\ OpenPorts' = OpenPorts \cup {p}
  <2>1. \A q \in Ports : q # p => tcpSock'[q] = tcpSock[q] /\ tcpSock[q] # c
    BY <1>1, <1>2, <1>4 DEF TcpInv, MakerState
  <2>2. \A q \in Ports : q = p => ServesPort(q)' /\ ~ServesPort(q)
    BY <1>2, <1>3, <1>4 DEF ServesPort
  <2>3. ASSUME NEW q \in Ports, q # p PROVE ServesPort(q)' <=> ServesPort(q)
    <3>1. tcpSock'[q] = tcpSock[q] /\ tcpSock[q] # c
      BY <2>1, <2>3
    <3>2. tcpSock[q] # None => lst'[tcpSock[q]] = lst[tcpSock[q]]
      BY <1>2, <1>5, <3>1
    <3> QED
      BY <3>1, <3>2 DEF ServesPort
  <2> QED
    BY <1>2, <2>2, <2>3 DEF OpenPorts
<1>8. PhaseOf(t) = "add" /\ PhaseOf(t)' = "done"
  BY <1>1, <1>2, <1>4, PhaseAt, PhaseNext
<1>9. Phases' = [Phases EXCEPT ![t] = "done"] /\ Asked' = Asked
  BY <1>1, <1>6, <1>8, GotoMaps
<1> QED
  BY <1>1, <1>2, <1>7, <1>8, <1>9, AbstractOpen

(* The arrival of a request is that of the registry.                       *)
LEMMA InvokeMaps ==
  ASSUME TypeOK, NEW t \in Threads, NEW c \in Calls, Invoke(t, c)
  PROVE  Registry!Next
<1>1. /\ pc[t] = "idle" /\ UNCHANGED <<tcpSock, lst, conn>>
      /\ pc' = [pc EXCEPT ![t] = IF c.op \in {"DelPort", "ModifyRule"} THEN "loadConn" ELSE "probe"]
      /\ call' = [call EXCEPT ![t] = c] /\ res' = [res EXCEPT ![t] = "none"]
  BY DEF Invoke, Goto, osVars
<1>2. /\ pc'[t] = IF c.op \in {"DelPort", "ModifyRule"} THEN "loadConn" ELSE "probe"
      /\ \A s \in Threads \ {t} : pc'[s] = pc[s] /\ call'[s] = call[s]
  BY <1>1 DEF TypeOK, ReqTypes
<1>3. /\ PhaseOf(t) = "idle"
      /\ PhaseOf(t)' = IF c.op \in {"DelPort", "ModifyRule"} THEN "delete" ELSE "add"
  BY <1>1, <1>2, PhaseAt, PhaseNext
<1>4. /\ RequestOf(c) \in [port : Ports \cup {None}, old : Ports \cup {None}]
      /\ RequestOf(c) # [port |-> None, old |-> None]
      /\ RequestOf(c).old = None <=> c.op \notin {"DelPort", "ModifyRule"}
  BY RequestFields, ConstantsAssumption
<1>5. \A s \in Threads \ {t} : PhaseOf(s)' = PhaseOf(s)
  BY <1>1, <1>2, PhaseKept
<1>6. Phases' = [Phases EXCEPT ![t] = IF RequestOf(c).old = None THEN "add" ELSE "delete"]
  BY <1>3, <1>4, <1>5, PhasesMove
<1>7. Asked' = [Asked EXCEPT ![t] = RequestOf(c)]
  BY <1>1 DEF Asked, TypeOK, ReqTypes
<1> QED
  BY <1>1, <1>3, <1>4, <1>6, <1>7, OpenPortsKept, AbstractRequest

(* A crash of the agent is one of the registry.                            *)
LEMMA CrashMaps ==
  ASSUME Crash
  PROVE  Registry!Next
<1>1. OpenPorts' = {}
  BY DEF Crash, OpenPorts, ServesPort
<1>2. Phases' = [t \in Threads |-> "idle"]
  <2>1. \A t \in Threads : pc'[t] = "idle"
    BY DEF Crash
  <2> QED
    BY <2>1, PhaseNext DEF Phases
<1>3. Asked' = [t \in Threads |-> [port |-> None, old |-> None]]
  BY DEF Crash, Asked, RequestOf, NoCall
<1>4. Registry!Crash
  BY <1>1, <1>2, <1>3
     DEF Crash, Registry!Crash, Registry!NoRequest, OpenPorts, Phases, Asked
<1> QED
  BY <1>4 DEF Registry!Next

(* Callers that never overlap on a port see the abstract registry: an      *)
(* answer "in use" is given only for a port that is served, an answered    *)
(* add has opened its port, an answered delete has closed it.              *)
THEOREM TableImplementsRegistry ==
  ASSUME Serial
  PROVE  Spec => ImplementsRegistry
<1>1. Init => Registry!Init
  <2> SUFFICES ASSUME Init PROVE Registry!Init
    OBVIOUS
  <2>1. OpenPorts = {} /\ Asked = [t \in Threads |-> [port |-> None, old |-> None]]
    BY DEF Init, OpenPorts, ServesPort, Asked, RequestOf, NoCall
  <2>2. Phases = [t \in Threads |-> "idle"]
    <3>1. \A t \in Threads : pc[t] = "idle"
      BY DEF Init
    <3> QED
      BY <3>1, PhaseAt DEF Phases
  <2> QED
    BY <2>1, <2>2 DEF Init, Registry!Init, Registry!NoRequest, OpenPorts, Phases, Asked
<1>2. TypeOK /\ TcpInv /\ UdpInv /\ RightSteps /\ [Next]_vars => [Registry!Next]_(Registry!vars)
  <2> SUFFICES ASSUME TypeOK, TcpInv, UdpInv, RightSteps, [Next]_vars
               PROVE  Registry!Next \/ UNCHANGED Registry!vars
    OBVIOUS
  <2>1. ASSUME NEW u \in Udps, StartUdp(u) \/ CollectUdp(u)
        PROVE  UNCHANGED Registry!vars
    <3>1. UNCHANGED <<tcpSock, lst, pc, call, res, conn>>
      BY <2>1, Zenon DEF StartUdp, CollectUdp, reqVars
    <3>2. OpenPorts' = OpenPorts /\ Asked' = Asked
      BY <3>1, OpenPortsKept DEF Asked
    <3>3. \A s \in Threads : PhaseOf(s)' = PhaseOf(s)
      BY <3>1, PhaseKept
    <3>4. Phases' = Phases
      BY <3>3 DEF Phases
    <3> QED
      BY <3>1, <3>2, <3>4, AbstractStutter
  <2>2. CASE UNCHANGED vars
    <3>1. UNCHANGED <<tcpSock, lst, pc, call, res, conn>>
      BY <2>2 DEF vars, osVars, reqVars
    <3>2. OpenPorts' = OpenPorts /\ Asked' = Asked
      BY <3>1, OpenPortsKept DEF Asked
    <3>3. \A s \in Threads : PhaseOf(s)' = PhaseOf(s)
      BY <3>1, PhaseKept
    <3>4. Phases' = Phases
      BY <3>3 DEF Phases
    <3> QED
      BY <3>1, <3>2, <3>4, AbstractStutter
  <2> QED
    BY <2>1, <2>2, InvokeMaps, AddStepMaps, DelStepMaps, ListenMaps, CrashMaps, Zenon
       DEF Next, NilStart
<1> QED
  BY <1>1, <1>2, TypeCorrect, TcpTable, UdpTable, StepsFit, PTL
     DEF Spec, ImplementsRegistry, Registry!Spec
=============================================================================
