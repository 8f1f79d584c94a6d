----------------------------- MODULE GostProofs -----------------------------
(***************************************************************************)
(* Theorems about GostRules, for all constants: any number of requests,    *)
(* rules, chains and ports, and any number of faults, stops and relays;    *)
(* and about GostObserver, for any number of services, bytes and stops.    *)
(***************************************************************************)
EXTENDS GostRules, GostObserver, FiniteSetTheorems, TLAPS

-----------------------------------------------------------------------------
(* The inductive invariant *)

(* What the fields of a call are while it is at something.                 *)
ShapeOf(p, c) ==
    /\ c.step = "hop" => c.row.via \in TlsVias
    /\ \/ c.op = "none" /\ c.step = "none" /\ c.row = None /\ c.old = None
       \/ /\ c.op = "addRule" /\ p \in Requests
          /\ c.row \in Rows /\ c.old = None /\ c.step \in {"hop", "tcp", "udp", "write"}
       \/ /\ c.op = "delRule" /\ p \in Requests /\ c.id \in RuleIds
          /\ c.row = None /\ c.old \in Rows /\ c.step \in {"delTcp", "delUdp", "write"}
       \/ /\ c.op = "modifyRule" /\ p \in Requests /\ c.id \in RuleIds
          /\ c.row \in Rows /\ c.old \in Rows /\ c.row # c.old
          /\ c.step \in {"hop", "tcp", "udp", "delTcp", "delUdp", "write"}
       \/ /\ c.op = "resendRule" /\ p \in RuleIds /\ c.id = p
          /\ c.row \in Rows /\ c.old = c.row /\ c.step \in {"hop", "tcp", "udp", "delTcp", "delUdp"}
       \/ /\ c.op \in {"addChain", "delChain"} /\ p \in Requests /\ c.id \in ChainPorts
          /\ c.row = None /\ c.old = None /\ c.typ \in {"tcp", "tls"}
          /\ c.step \in {"open", "shut", "write"}
       \/ /\ c.op = "resendChain" /\ p \in ChainPorts /\ c.id = p
          /\ c.row = None /\ c.old = None /\ c.typ \in {"tcp", "tls"}
          /\ c.step \in {"open", "shut"}

(* Every call has the shape of its operation.                              *)
Shapes == \A p \in Procs : ShapeOf(p, call[p])

(* The call p is about the port.                                           *)
At(p, port) == port \in PortsOf(call[p])

(* The goroutines of the relay begin one after the other, and there is no  *)
(* controller after the one that they belong to.                           *)
Relayed ==
    /\ \A p \in RuleIds \cup ChainPorts : ~call[p].orphan
    /\ \A p \in RuleIds : Active(p) => relay = "rules"
    /\ \A p \in ChainPorts : Active(p) => relay # "off"

(* Nobody writes what an orphan has done.                                  *)
Orphaned ==
    \A p \in Requests : call[p].orphan =>
        call[p].step # "write" /\ PortsOf(call[p]) \subseteq stale

(* Calls that share a port know, and so does the history.                  *)
Lone ==
    \A p, q \in Procs : p # q =>
        \A port \in Ports : (At(p, port) /\ At(q, port)) =>
            /\ port \in broken
            /\ call[p].op = "resendRule" => ~call[p].alone

(* Gost has no service for the port.                                       *)
Empty(port) == tcp[port] = None /\ udp[port] = None

(* A stopped gost has no services; a stopped agent handles nothing, and    *)
(* what requests it handled is history.                                    *)
Down ==
    /\ ~gost => \A port \in Ports : Empty(port)
    /\ ~agent => \A p \in Procs :
        /\ call[p].step \notin {"udp", "delTcp", "delUdp"}
        /\ call[p].op # "resendRule" => PortsOf(call[p]) \subseteq broken \cup stale

(* Gost has the chain object that a service names.                         *)
HasHop(svc) == svc.via \in hops \cup {Direct}

(* What the relay sends undisturbed is what the row says, whatever there   *)
(* was before: it is why the history may be forgotten then.                *)
ResentAt(p) ==
    LET c == call[p]
    IN  (c.op = "resendRule" /\ c.alone) =>
            /\ p \in RulesOn(c.row.port) => rules[p] = c.row
            /\ c.step \in {"tcp", "udp"} => HasHop(ServiceOf(c.row))
            /\ c.step = "udp" => tcp[c.row.port] = ServiceOf(c.row)

(* It holds of every row the relay sends.                                  *)
Resent == \A p \in RuleIds : ResentAt(p)

(* A port at which the call p is: one of the two services is there only    *)
(* while p is between its two requests.                                    *)
HalfKept(p, port) ==
    LET c      == call[p]
        adding == c.step = "udp" /\ c.row.port = port
        ending == c.step = "delUdp" /\ c.old.port = port
    IN  /\ adding => tcp[port] = ServiceOf(c.row) /\ udp[port] = None
        /\ ending => tcp[port] = None
        /\ (~adding /\ ~ending) => tcp[port] = udp[port]

(* Without a fault, both services are there or none, but for a call at     *)
(* work.                                                                   *)
HalvesAt(port) ==
    /\ Quiet(port) => tcp[port] = udp[port]
    /\ \A p \in Procs : At(p, port) => HalfKept(p, port)

(* It holds of every port whose calls neither overlapped nor failed.       *)
Halves == \A port \in Ports \ broken : HalvesAt(port)

(* Gost has both services of the port.                                     *)
Serves(port, svc) == tcp[port] = svc /\ udp[port] = svc /\ HasHop(svc)

(* A port serves the one row that it has, and nothing without a row.       *)
Fits(port) ==
    \/ RulesOn(port) = {} /\ Empty(port)
    \/ \E id \in RuleIds : RulesOn(port) = {id} /\ Serves(port, ServiceOf(rules[id]))

(* The port that p deletes: its row is still the one that p has read, and  *)
(* its services are there until p deletes them.                            *)
OldKept(p, port) ==
    LET c      == call[p]
        served == Serves(port, ServiceOf(c.old))
        again  == c.op = "resendRule"
    IN  (c.old # None /\ c.old.port = port) =>
            /\ rules[c.id] = c.old
            /\ RulesOn(port) = {c.id}
            /\ c.step = "delTcp" => served \/ (again /\ Empty(port))
            /\ c.step = "delUdp" => tcp[port] = None /\ (again \/ udp[port] = ServiceOf(c.old))
            /\ c.step \in {"hop", "tcp"} => Empty(port) \/ (again /\ served)
            /\ (c.step \in {"udp", "write"} /\ (c.row = None \/ c.row.port # port)) => Empty(port)

(* The port that p adds: without a row until p has written it.             *)
NewKept(p, port) ==
    LET c     == call[p]
        other == c.old = None \/ c.old.port # port
    IN  (c.row # None /\ c.row.port = port) =>
            /\ c.step \in {"tcp", "udp"} => HasHop(ServiceOf(c.row))
            /\ c.step = "udp" => tcp[port] = ServiceOf(c.row) /\ udp[port] = None
            /\ c.step = "write" => Serves(port, ServiceOf(c.row))
            /\ (other /\ c.step \in {"udp", "write"}) => RulesOn(port) = {}
            /\ (other /\ c.step \notin {"udp", "write"}) => Fits(port)

(* A port that no history excuses.                                         *)
ServedAt(port) ==
    /\ Quiet(port) => Fits(port)
    /\ \A p \in Procs : At(p, port) => OldKept(p, port) /\ NewKept(p, port)

(* It holds of every port that has no history at all.                      *)
Served == \A port \in Ports \ (broken \cup stale) : ServedAt(port)

(* What calls, services, rows and history have to do with each other.      *)
CallInv ==
    /\ TypeOK /\ Shapes /\ Relayed /\ Orphaned /\ Lone /\ Down
    /\ Resent /\ Halves /\ Served

(* While no agent serves, a port without history serves its row: calls     *)
(* that could be at work there are history.                                *)
Asleep == ~agent => \A port \in Ports \ (broken \cup stale) : Fits(port)

(* InitAgent passes over the rules of such ports, since their services     *)
(* exist: what it adds is at ports with a history, and a half of a rule is *)
(* marked as broken from its first service on.                             *)
PassedOver ==
    \A id \in RuleIds : LET row == boot.rules[id] IN
        (row # None /\ row.port \notin broken \cup stale) => tcp[row.port] # None

(* The rule at which InitAgent is, between two requests to gost.           *)
Adds ==
    LET row == boot.rules[boot.at]
    IN  boot.step \in {"tcp", "udp"} =>
            /\ boot.at \in RuleIds /\ row # None
            /\ boot.step = "udp" => row.port \in broken
            /\ boot.whole => HasHop(ServiceOf(row))
            /\ (boot.whole /\ boot.step = "udp") => tcp[row.port] = ServiceOf(row)

(* What an agent that starts has to do with the rest.                      *)
StartInv == (agent => boot = NoBoot) /\ Asleep /\ PassedOver /\ Adds

(* The inductive invariant.                                                *)
GostInv == CallInv /\ StartInv

-----------------------------------------------------------------------------
(* Calls *)

(* A row is not None, nor is a service.                                    *)
LEMMA RowFacts ==
    /\ \A row \in Rows : row # None /\ row.port \in Ports /\ row.via \in Vias /\ row.dst \in Dsts
    /\ \A row \in Rows : ServiceOf(row) \in Services
    /\ \A svc \in Services : svc # None
    /\ \A row \in Rows : row.via \notin TlsVias => ServiceOf(row).via = Direct
    /\ \A row \in Rows : row.via \in TlsVias => ServiceOf(row).via = row.via
  BY GostAssumption DEF Rows, Services, ServiceOf

(* The ports of a call.                                                    *)
LEMMA PortsFacts ==
    /\ PortsOf(NoCall) = {}
    /\ \A c : \A port : port \in PortsOf(c) <=> \/ c.row # None /\ c.row.port = port
                                                \/ c.old # None /\ c.old.port = port
  BY DEF PortsOf, NoCall

(* A call that begins has its fields.                                      *)
LEMMA NoCallType == NoCall \in Calls /\ \A p \in Procs : ShapeOf(p, NoCall)
  BY DEF NoCall, Calls, ShapeOf

(* A call keeps its ports while it goes on.                                *)
LEMMA StepFacts ==
  ASSUME NEW c \in Calls, NEW step \in {"hop", "tcp", "udp", "delTcp", "delUdp", "open", "shut", "write"}
  PROVE  LET d == [c EXCEPT !.step = step]
         IN  /\ d \in Calls /\ d.step = step /\ d.op = c.op /\ d.id = c.id
             /\ d.row = c.row /\ d.old = c.old /\ d.typ = c.typ
             /\ d.alone = c.alone /\ d.orphan = c.orphan
             /\ PortsOf(d) = PortsOf(c)
  BY DEF Calls, PortsOf

(* After an error a call has ended, or is at another step.                 *)
LEMMA AfterErrorFacts ==
  ASSUME NEW c \in Calls, NEW err, AfterError(c, err) # NoCall
  PROVE  \/ c.op = "modifyRule" /\ c.step \in {"delTcp", "delUdp"} /\ AfterError(c, err) = Adding(c)
         \/ /\ c.op = "delRule" /\ err = "refused" /\ ~c.orphan
            /\ AfterError(c, err) = [c EXCEPT !.step = "write"]
         \/ /\ c.op = "resendRule" /\ ~c.orphan
            /\ AfterError(c, err) = IF err = "exists" THEN Deleting(c) ELSE Adding(c)
         \/ /\ c.op = "resendChain" /\ ~c.orphan
            /\ AfterError(c, err) = [c EXCEPT !.step = IF err = "exists" THEN "shut" ELSE "open"]
  BY DEF AfterError

(* Both services or neither, where the calls and the services stay.        *)
LEMMA ElsewhereHalves ==
  ASSUME NEW port \in Ports,
         \A q \in Procs : At(q, port)' <=> At(q, port),
         \A q \in Procs : At(q, port) =>
            /\ call'[q].op = call[q].op /\ call'[q].step = call[q].step
            /\ call'[q].row = call[q].row /\ call'[q].old = call[q].old,
         tcp'[port] = tcp[port], udp'[port] = udp[port]
  PROVE  HalvesAt(port) => HalvesAt(port)'
<1>1. Quiet(port)' = Quiet(port)
  BY DEF Quiet, At
<1> QED
  BY <1>1 DEF HalvesAt, HalfKept

(* A port at which the calls, the services and the rows stay as they were  *)
(* serves what it did.                                                     *)
LEMMA Elsewhere ==
  ASSUME NEW port \in Ports,
         \A q \in Procs : At(q, port)' <=> At(q, port),
         \A q \in Procs : At(q, port) =>
            /\ call'[q].op = call[q].op /\ call'[q].step = call[q].step /\ call'[q].id = call[q].id
            /\ call'[q].row = call[q].row /\ call'[q].old = call[q].old,
         tcp'[port] = tcp[port], udp'[port] = udp[port], hops \subseteq hops',
         RulesOn(port)' = RulesOn(port),
         \A id \in RulesOn(port) : rules'[id] = rules[id]
  PROVE  /\ Fits(port) => Fits(port)'
         /\ ServedAt(port) => ServedAt(port)'
<1>1. Quiet(port)' = Quiet(port)
  BY DEF Quiet, At
<1>3. \A svc : Serves(port, svc) => Serves(port, svc)'
  BY DEF Serves, HasHop
<1>4. Empty(port)' = Empty(port)
  BY DEF Empty
<1>5. Fits(port) => Fits(port)'
  <2>1. CASE RulesOn(port) = {}
    BY <2>1, <1>4 DEF Fits
  <2>2. ASSUME NEW id \in RuleIds, RulesOn(port) = {id}, Serves(port, ServiceOf(rules[id]))
        PROVE  Fits(port)'
    BY <2>2, <1>3 DEF Fits
  <2> QED
    BY <2>1, <2>2 DEF Fits
<1>6. ASSUME NEW q \in Procs, At(q, port), OldKept(q, port)
      PROVE  OldKept(q, port)'
  <2>1. SUFFICES ASSUME call'[q].old # None, call'[q].old.port = port
                 PROVE  /\ rules'[call'[q].id] = call'[q].old
                        /\ RulesOn(port)' = {call'[q].id}
                        /\ call'[q].step = "delTcp" => Serves(port, ServiceOf(call[q].old))'
                                \/ (call'[q].op = "resendRule" /\ Empty(port)')
                        /\ call'[q].step = "delUdp" => tcp'[port] = None
                                /\ (call'[q].op = "resendRule" \/ udp'[port] = ServiceOf(call'[q].old))
                        /\ call'[q].step \in {"hop", "tcp"} => Empty(port)'
                                \/ (call'[q].op = "resendRule" /\ Serves(port, ServiceOf(call[q].old))')
                        /\ (call'[q].step \in {"udp", "write"} /\ (call'[q].row = None \/ call'[q].row.port # port))
                                => Empty(port)'
    BY <2>1, Zenon DEF OldKept
  <2>2. Serves(port, ServiceOf(call[q].old)) => Serves(port, ServiceOf(call[q].old))'
    BY <1>6 DEF Serves, HasHop
  <2> QED
    BY <1>6, <2>1, <2>2, <1>4 DEF OldKept
<1>7. ASSUME NEW q \in Procs, At(q, port), NewKept(q, port)
      PROVE  NewKept(q, port)'
  <2>1. Serves(port, ServiceOf(call[q].row)) => Serves(port, ServiceOf(call[q].row))'
    BY <1>7 DEF Serves, HasHop
  <2>2. HasHop(ServiceOf(call[q].row)) => HasHop(ServiceOf(call[q].row))'
    BY <1>7 DEF HasHop
  <2> QED
    BY <1>7, <2>1, <2>2, <1>5 DEF NewKept
<1>8. ServedAt(port) => ServedAt(port)'
  BY <1>1, <1>5, <1>6, <1>7 DEF ServedAt
<1> QED
  BY <1>5, <1>8

(* Where a call is.                                                        *)
LEMMA AtFacts ==
  ASSUME Shapes
  PROVE  /\ \A q \in Procs : PortsOf(call[q]) \subseteq Ports
         /\ \A q \in Procs : \A port : At(q, port) <=> \/ call[q].row # None /\ call[q].row.port = port
                                                       \/ call[q].old # None /\ call[q].old.port = port
         /\ \A q \in Procs : \A port : At(q, port) => port \in Ports
<1>1. ASSUME NEW q \in Procs, NEW port, port \in PortsOf(call[q])
      PROVE  port \in Ports
  BY <1>1, PortsFacts, RowFacts DEF Shapes, ShapeOf
<1> QED
  BY <1>1, PortsFacts DEF At

-----------------------------------------------------------------------------
(* The steps of a call that has begun                                      *)

(* p has ended, or has gone on; the others have not.                       *)
Moved(p) ==
    /\ \A q \in Procs : q # p => call'[q] = call[q]
    /\ \/ call'[p] = NoCall
       \/ /\ call'[p].op = call[p].op /\ call'[p].id = call[p].id
          /\ call'[p].row = call[p].row /\ call'[p].old = call[p].old
          /\ call'[p].typ = call[p].typ
          /\ call'[p].alone = call[p].alone /\ call'[p].orphan = call[p].orphan

(* What a step of p must see to, so that the rest of the invariant stays:  *)
(* it is at its own ports, and nobody else is there unless that is history.*)
LEMMA OwnStep ==
  ASSUME CallInv, NEW p \in Procs, TypeOK', Moved(p), ShapeOf(p, call'[p]),
         call'[p].orphan => call'[p].step # "write",
         relay' = relay, hops \subseteq hops',
         \A port \in Ports : (\E q \in Procs : At(q, port)') =>
            (port \in broken => port \in broken') /\ (port \in stale => port \in stale'),
         \A port \in Ports \ PortsOf(call[p]) :
            /\ tcp'[port] = tcp[port] /\ udp'[port] = udp[port]
            /\ port \in broken => port \in broken'
            /\ port \in stale => port \in stale'
            /\ port \notin broken' \cup stale' =>
                RulesOn(port)' = RulesOn(port) /\ \A id \in RulesOn(port) : rules'[id] = rules[id],
         \A q \in RuleIds :
            (q # p /\ call[q].op = "resendRule" /\ call[q].alone /\ q \in RulesOn(call[q].row.port))'
                => rules'[q] = call[q].row,
         Down', p \in RuleIds => ResentAt(p)',
         \A port \in PortsOf(call[p]) \ broken' :
            IF At(p, port)' THEN HalfKept(p, port)' ELSE tcp'[port] = udp'[port],
         \A port \in PortsOf(call[p]) \ (broken' \cup stale') :
            IF At(p, port)' THEN OldKept(p, port)' /\ NewKept(p, port)' ELSE Fits(port)'
  PROVE  CallInv'
<1>1. \A q \in Procs : PortsOf(call'[q]) \subseteq PortsOf(call[q])
  BY PortsFacts DEF Moved, CallInv
<1>2. \A q \in Procs : \A port : At(q, port)' => At(q, port)
  BY <1>1 DEF At
<1>3. \A q \in Procs \ {p} : \A port : At(q, port)' = At(q, port)
  BY DEF At, Moved
<1>4. \A q \in Procs : call'[q] = NoCall \/ (call'[q].op = call[q].op /\ call'[q].alone = call[q].alone
                                               /\ call'[q].orphan = call[q].orphan)
  BY DEF Moved
<1>5. Shapes'
  BY DEF Shapes, Moved, CallInv
<1>6. Relayed'
  <2>1. NoCall.op = "none" /\ NoCall.orphan = FALSE
    BY DEF NoCall
  <2>2. \A q \in Procs : Active(q)' => Active(q)
    BY <1>4, <2>1 DEF Active
  <2>3. RuleIds \subseteq Procs /\ ChainPorts \subseteq Procs
    BY DEF Procs
  <2> QED
    BY <1>4, <2>1, <2>2, <2>3 DEF Relayed, CallInv
<1>7. Orphaned'
  <2>1. SUFFICES ASSUME NEW q \in Requests, call'[q].orphan
                 PROVE  call'[q].step # "write" /\ PortsOf(call'[q]) \subseteq stale'
    BY <2>1 DEF Orphaned
  <2>2. q \in Procs
    BY DEF Procs
  <2>3. NoCall.orphan = FALSE
    BY DEF NoCall
  <2>4. call[q].orphan
    BY <1>4, <2>1, <2>2, <2>3
  <2>5. call[q].step # "write" /\ PortsOf(call[q]) \subseteq stale
    BY <2>4 DEF CallInv, Orphaned
  <2>6. PortsOf(call'[q]) \subseteq stale'
    BY <2>2, <2>5, <1>1, AtFacts DEF At, CallInv
  <2> QED
    BY <2>1, <2>2, <2>5, <2>6 DEF Moved
<1>8. Lone'
  <2>1. SUFFICES ASSUME NEW q \in Procs, NEW r \in Procs, q # r, NEW port \in Ports,
                        At(q, port)', At(r, port)'
                 PROVE  port \in broken' /\ (call'[q].op = "resendRule" => ~call'[q].alone)
    BY <2>1 DEF Lone
  <2>2. port \in broken /\ (call[q].op = "resendRule" => ~call[q].alone)
    BY <2>1, <1>2 DEF CallInv, Lone
  <2>3. NoCall.op = "none"
    BY DEF NoCall
  <2> QED
    BY <2>1, <2>2, <2>3, <1>4
<1>9. Resent'
  <2>1. SUFFICES ASSUME NEW q \in RuleIds, q # p
                 PROVE  ResentAt(q)'
    BY <2>1 DEF Resent
  <2>2. q \in Procs /\ call'[q] = call[q]
    BY <2>1 DEF Procs, Moved
  <2>3. SUFFICES ASSUME call[q].op = "resendRule", call[q].alone
                 PROVE  /\ q \in RulesOn(call[q].row.port)' => rules'[q] = call[q].row
                        /\ call[q].step \in {"tcp", "udp"} => HasHop(ServiceOf(call[q].row))'
                        /\ call[q].step = "udp" => tcp'[call[q].row.port] = ServiceOf(call[q].row)
    BY <2>2, <2>3 DEF ResentAt, HasHop
  <2>4. ResentAt(q)
    BY DEF CallInv, Resent
  <2>5. call[q].row.port \in Ports /\ At(q, call[q].row.port)
    BY <2>2, <2>3, RowFacts, AtFacts DEF CallInv, Shapes, ShapeOf
  <2>6. ~At(p, call[q].row.port)
    BY <2>1, <2>2, <2>3, <2>5 DEF CallInv, Lone
  <2>7. tcp'[call[q].row.port] = tcp[call[q].row.port]
    BY <2>5, <2>6 DEF At
  <2>8. HasHop(ServiceOf(call[q].row)) => HasHop(ServiceOf(call[q].row))'
    BY <2>2 DEF HasHop
  <2> QED
    BY <2>1, <2>2, <2>3, <2>4, <2>7, <2>8 DEF ResentAt
<1>10. ASSUME NEW port \in Ports, port \notin PortsOf(call[p])
       PROVE  /\ \A q \in Procs : At(q, port)' <=> At(q, port)
              /\ \A q \in Procs : At(q, port) => call'[q] = call[q]
  BY <1>2, <1>3, <1>10 DEF At, Moved
<1>11. ASSUME NEW port \in Ports, At(p, port), port \notin broken'
       PROVE  \A q \in Procs : At(q, port)' => q = p
  BY <1>3, <1>11 DEF CallInv, Lone
<1>12. Halves'
  <2>1. SUFFICES ASSUME NEW port \in Ports, port \notin broken'
                 PROVE  HalvesAt(port)'
    BY <2>1 DEF Halves
  <2>2. CASE port \notin PortsOf(call[p])
    <3>1. HalvesAt(port)
      BY <2>1, <2>2 DEF CallInv, Halves
    <3> QED
      BY <3>1, <2>2, <1>10, ElsewhereHalves
  <2>3. CASE port \in PortsOf(call[p])
    <3>1. \A q \in Procs : At(q, port)' => q = p
      BY <2>1, <2>3, <1>11 DEF At
    <3>2. IF At(p, port)' THEN HalfKept(p, port)' ELSE tcp'[port] = udp'[port]
      BY <2>1, <2>3
    <3>3. Quiet(port)' <=> ~At(p, port)'
      BY <3>1 DEF Quiet, At
    <3> QED
      BY <3>1, <3>2, <3>3 DEF HalvesAt
  <2> QED
    BY <2>2, <2>3
<1>13. Served'
  <2>1. SUFFICES ASSUME NEW port \in Ports, port \notin broken', port \notin stale'
                 PROVE  ServedAt(port)'
    BY <2>1 DEF Served
  <2>2. CASE port \notin PortsOf(call[p])
    <3>1. ServedAt(port)
      BY <2>1, <2>2 DEF CallInv, Served
    <3>2. RulesOn(port)' = RulesOn(port) /\ \A id \in RulesOn(port) : rules'[id] = rules[id]
      BY <2>1, <2>2
    <3> QED
      BY <3>1, <3>2, <2>2, <1>10, Elsewhere
  <2>3. CASE port \in PortsOf(call[p])
    <3>1. \A q \in Procs : At(q, port)' => q = p
      BY <2>1, <2>3, <1>11 DEF At
    <3>2. IF At(p, port)' THEN OldKept(p, port)' /\ NewKept(p, port)' ELSE Fits(port)'
      BY <2>1, <2>3
    <3>3. Quiet(port)' <=> ~At(p, port)'
      BY <3>1 DEF Quiet, At
    <3> QED
      BY <3>1, <3>2, <3>3 DEF ServedAt
  <2> QED
    BY <2>2, <2>3
<1> QED
  BY <1>5, <1>6, <1>7, <1>8, <1>9, <1>12, <1>13 DEF CallInv

(* Where a call can be.                                                    *)
Steps == {"hop", "tcp", "udp", "delTcp", "delUdp", "open", "shut", "write"}

(* A call that goes on to another step.                                    *)
LEMMA GotoFacts ==
  ASSUME TypeOK, NEW p \in Procs, NEW step \in Steps, call' = [call EXCEPT ![p] = [@ EXCEPT !.step = step]]
  PROVE  /\ call' \in [Procs -> Calls]
         /\ Moved(p)
         /\ call'[p].step = step /\ call'[p].op = call[p].op /\ call'[p].id = call[p].id
         /\ call'[p].row = call[p].row /\ call'[p].old = call[p].old /\ call'[p].typ = call[p].typ
         /\ call'[p].alone = call[p].alone /\ call'[p].orphan = call[p].orphan
         /\ PortsOf(call'[p]) = PortsOf(call[p])
<1>1. call \in [Procs -> Calls] /\ call[p] \in Calls
  BY DEF TypeOK
<1>2. call'[p] = [call[p] EXCEPT !.step = step] /\ \A q \in Procs : q # p => call'[q] = call[q]
  BY <1>1
<1>3. [call[p] EXCEPT !.step = step] \in Calls
  BY ZenonT(40), <1>1, StepFacts DEF Steps
<1>4. call' \in [Procs -> Calls]
  BY <1>1, <1>3
<1>5. /\ call'[p].step = step /\ call'[p].op = call[p].op /\ call'[p].id = call[p].id
      /\ call'[p].row = call[p].row /\ call'[p].old = call[p].old /\ call'[p].typ = call[p].typ
      /\ call'[p].alone = call[p].alone /\ call'[p].orphan = call[p].orphan
      /\ PortsOf(call'[p]) = PortsOf(call[p])
  BY <1>1, <1>2 DEF Steps, Calls, PortsOf
<1> QED
  BY <1>2, <1>4, <1>5 DEF Moved

(* A call that ends.                                                       *)
LEMMA EndFacts ==
  ASSUME TypeOK, NEW p \in Procs, End(p)
  PROVE  /\ call' \in [Procs -> Calls]
         /\ Moved(p)
         /\ call'[p] = NoCall
         /\ \A port : ~At(p, port)'
         /\ ShapeOf(p, call'[p])
         /\ p \in RuleIds => ResentAt(p)'
<1>1. call'[p] = NoCall /\ \A q \in Procs : q # p => call'[q] = call[q]
  BY DEF End, TypeOK
<1>2. call' \in [Procs -> Calls]
  BY NoCallType DEF End, TypeOK
<1>3. \A port : ~At(p, port)'
  BY <1>1, PortsFacts DEF At
<1>4. ResentAt(p)'
  BY <1>1 DEF ResentAt, NoCall
<1> QED
  BY <1>1, <1>2, <1>3, <1>4, NoCallType DEF Moved

(* Adding and deleting are steps.                                          *)
LEMMA AddingFacts ==
  ASSUME TypeOK, NEW p \in Procs, call[p].row \in Rows
  PROVE  \E step \in {"hop", "tcp"} :
            /\ Adding(call[p]) = [call[p] EXCEPT !.step = step]
            /\ step = "hop" => call[p].row.via \in TlsVias
            /\ step = "tcp" => HasHop(ServiceOf(call[p].row))
<1>1. CASE call[p].row.via \in TlsVias
  <2>1. Adding(call[p]) = [call[p] EXCEPT !.step = "hop"]
    BY <1>1 DEF Adding
  <2> QED
    BY <2>1, <1>1
<1>2. CASE call[p].row.via \notin TlsVias
  <2>1. Adding(call[p]) = [call[p] EXCEPT !.step = "tcp"]
    BY <1>2 DEF Adding
  <2>2. HasHop(ServiceOf(call[p].row))
    BY <1>2, RowFacts DEF HasHop
  <2> QED
    BY <2>1, <2>2
<1> QED
  BY <1>1, <1>2

(* A port fits its row still when gost has got another chain object.       *)
LEMMA FitsMore ==
  ASSUME NEW port, tcp'[port] = tcp[port], udp'[port] = udp[port], rules' = rules, hops \subseteq hops'
  PROVE  /\ Fits(port) => Fits(port)'
         /\ \A svc : Serves(port, svc) => Serves(port, svc)'
         /\ Empty(port)' = Empty(port)
         /\ RulesOn(port)' = RulesOn(port)
<1>1. \A svc : Serves(port, svc) => Serves(port, svc)'
  BY DEF Serves, HasHop
<1>2. Empty(port)' = Empty(port) /\ RulesOn(port)' = RulesOn(port)
  BY DEF Empty, RulesOn
<1>3. ASSUME NEW id \in RuleIds, RulesOn(port) = {id}, Serves(port, ServiceOf(rules[id]))
      PROVE  Fits(port)'
  BY <1>1, <1>2, <1>3 DEF Fits
<1> QED
  BY <1>1, <1>2, <1>3 DEF Fits

(* At a port of its own that is not history, a call finds what it left.    *)
LEMMA OwnPort ==
  ASSUME CallInv, NEW p \in Procs, NEW port, port \in PortsOf(call[p])
  PROVE  /\ port \in Ports
         /\ port \notin broken => HalfKept(p, port)
         /\ port \notin broken \cup stale => OldKept(p, port) /\ NewKept(p, port)
         /\ \/ call[p].row \in Rows /\ call[p].row.port = port
            \/ call[p].old \in Rows /\ call[p].old.port = port
<1>1. port \in Ports /\ At(p, port)
  BY AtFacts DEF At, CallInv
<1>2. call[p].row \in Rows \cup {None} /\ call[p].old \in Rows \cup {None}
  BY DEF CallInv, Shapes, ShapeOf
<1>3. \/ call[p].row # None /\ call[p].row.port = port
      \/ call[p].old # None /\ call[p].old.port = port
  BY PortsFacts
<1> QED
  BY <1>1, <1>2, <1>3 DEF CallInv, Halves, HalvesAt, Served, ServedAt

(* A step of p that writes no row and forgets no history.                  *)
LEMMA PlainStep ==
  ASSUME CallInv, NEW p \in Procs, TypeOK', Moved(p), ShapeOf(p, call'[p]),
         call'[p].orphan => call'[p].step # "write",
         relay' = relay, rules' = rules, hops \subseteq hops',
         broken \subseteq broken', stale \subseteq stale',
         \A port \in Ports \ PortsOf(call[p]) : tcp'[port] = tcp[port] /\ udp'[port] = udp[port],
         Down', p \in RuleIds => ResentAt(p)',
         \A port \in PortsOf(call[p]) \ broken' :
            IF At(p, port)' THEN HalfKept(p, port)' ELSE tcp'[port] = udp'[port],
         \A port \in PortsOf(call[p]) \ (broken' \cup stale') :
            IF At(p, port)' THEN OldKept(p, port)' /\ NewKept(p, port)' ELSE Fits(port)'
  PROVE  CallInv'
<1>1. \A q \in RuleIds :
        (q # p /\ call[q].op = "resendRule" /\ call[q].alone /\ q \in RulesOn(call[q].row.port))'
            => rules'[q] = call[q].row
  <2>1. SUFFICES ASSUME NEW q \in RuleIds, q # p, call'[q].op = "resendRule", call'[q].alone,
                        q \in RulesOn(call[q].row.port)'
                 PROVE  rules'[q] = call[q].row
    BY <2>1
  <2>2. call'[q] = call[q]
    BY <2>1 DEF Moved, Procs
  <2>3. q \in RulesOn(call[q].row.port)
    BY <2>1, <2>2 DEF RulesOn
  <2> QED
    BY <2>1, <2>2, <2>3 DEF CallInv, Resent, ResentAt
<1>2. \A port : RulesOn(port)' = RulesOn(port)
  BY DEF RulesOn
<1> QED
  BY <1>1, <1>2, OwnStep

(* Gost has the chain object that the service will name.                   *)
LEMMA AddHopStep ==
  ASSUME CallInv, NEW p \in Procs, AddHop(p)
  PROVE  CallInv'
<1>1. /\ call' = [call EXCEPT ![p] = [@ EXCEPT !.step = "tcp"]] /\ call[p].step = "hop"
      /\ hops' = hops \cup {call[p].row.via} /\ agent /\ gost
      /\ UNCHANGED <<gost, tcp, udp, tls, native, agent, boot, rules, chains, relay, left, broken, stale>>
  BY DEF AddHop, Asks, Goto, agentVars, rowVars, histVars
<1>2. ShapeOf(p, call[p]) /\ TypeOK
  BY DEF CallInv, Shapes
<1>3. /\ call[p].op \in {"addRule", "modifyRule", "resendRule"} /\ call[p].row \in Rows
      /\ call[p].row.via \in TlsVias
  BY <1>1, <1>2 DEF ShapeOf
<1>4. /\ call' \in [Procs -> Calls] /\ Moved(p) /\ call'[p].step = "tcp"
      /\ call'[p].op = call[p].op /\ call'[p].id = call[p].id
      /\ call'[p].row = call[p].row /\ call'[p].old = call[p].old /\ call'[p].typ = call[p].typ
      /\ call'[p].alone = call[p].alone /\ call'[p].orphan = call[p].orphan
      /\ PortsOf(call'[p]) = PortsOf(call[p])
  BY <1>1, <1>2, GotoFacts DEF Steps
<1>5. TypeOK'
  BY <1>1, <1>2, <1>3, <1>4 DEF TypeOK
<1>6. ShapeOf(p, call'[p])
  BY <1>1, <1>2, <1>4 DEF ShapeOf
<1>7. HasHop(ServiceOf(call[p].row))'
  <2>1. ServiceOf(call[p].row).via = call[p].row.via
    BY <1>3, RowFacts
  <2> QED
    BY <2>1, <1>1, <1>4 DEF HasHop
<1>8. Down'
  BY <1>1 DEF Down
<1>9. p \in RuleIds => ResentAt(p)'
  <2>1. p \in RuleIds => ResentAt(p)
    BY DEF CallInv, Resent
  <2> QED
    BY <2>1, <1>1, <1>4, <1>7 DEF ResentAt, RulesOn
<1>10. ASSUME NEW port \in PortsOf(call[p]), port \notin broken
       PROVE  HalfKept(p, port)'
  BY <1>10, <1>1, <1>4, OwnPort DEF HalfKept
<1>11. ASSUME NEW port \in PortsOf(call[p]), port \notin broken \cup stale
       PROVE  OldKept(p, port)' /\ NewKept(p, port)'
  <2>1. OldKept(p, port) /\ NewKept(p, port)
    BY <1>11, OwnPort
  <2>2. /\ Fits(port) => Fits(port)'
        /\ \A svc : Serves(port, svc) => Serves(port, svc)'
        /\ Empty(port)' = Empty(port)
        /\ RulesOn(port)' = RulesOn(port)
    BY <1>1, FitsMore
  <2>3. Serves(port, ServiceOf(call[p].old)) => Serves(port, ServiceOf(call[p].old))'
    BY <1>1, <1>4 DEF Serves, HasHop
  <2>4. OldKept(p, port)'
    BY <2>1, <2>2, <2>3, <1>1, <1>4 DEF OldKept
  <2>5. NewKept(p, port)'
    BY <2>1, <2>2, <1>1, <1>4, <1>7 DEF NewKept
  <2> QED
    BY <2>4, <2>5
<1>12. \A port \in PortsOf(call[p]) : At(p, port)'
  BY <1>4 DEF At
<1>13. call'[p].orphan => call'[p].step # "write"
  BY <1>4
<1> QED
  BY <1>1, <1>4, <1>5, <1>6, <1>8, <1>9, <1>10, <1>11, <1>12, <1>13, PlainStep

(* What gost may answer to the request that p is at.                       *)
Answer(p, err) ==
    \/ err = "exists" /\ agent /\ gost /\ call[p].step = "tcp" /\ tcp[call[p].row.port] # None
    \/ err = "exists" /\ agent /\ gost /\ call[p].step = "udp" /\ udp[call[p].row.port] # None
    \/ err = "notFound" /\ agent /\ gost /\ call[p].step = "delTcp" /\ tcp[call[p].old.port] = None
    \/ err = "notFound" /\ agent /\ gost /\ call[p].step = "delUdp" /\ udp[call[p].old.port] = None
    \/ err \in {"exists", "notFound"} /\ agent /\ call[p].step \in {"open", "shut"}
    \/ err = "refused" /\ ~(agent /\ gost) /\ call[p].step \in {"hop", "tcp", "udp", "delTcp", "delUdp"}
    \/ err = "refused" /\ call[p].step \in {"open", "shut"}

(* What becomes of the call: nobody is left between two requests.          *)
LEMMA AfterFacts ==
  ASSUME CallInv, NEW p \in Procs, NEW err, call' = [call EXCEPT ![p] = AfterError(@, err)]
  PROVE  /\ call' \in [Procs -> Calls] /\ Moved(p) /\ ShapeOf(p, call'[p])
         /\ call'[p].orphan => call'[p].step # "write"
         /\ \/ /\ call'[p] = NoCall
               /\ call[p].op = "modifyRule" => call[p].step \notin {"delTcp", "delUdp"}
               /\ call[p].op # "resendRule"
               /\ call[p].op = "delRule" => err # "refused" \/ call[p].orphan
            \/ /\ call'[p].step \in {"hop", "tcp"}
               /\ call'[p].step = "tcp" => HasHop(ServiceOf(call[p].row))
               /\ \/ call[p].op = "modifyRule" /\ call[p].step \in {"delTcp", "delUdp"}
                  \/ call[p].op = "resendRule" /\ err # "exists"
            \/ call'[p].step = "write" /\ call[p].op = "delRule" /\ err = "refused"
            \/ call'[p].step = "delTcp" /\ call[p].op = "resendRule" /\ err = "exists"
            \/ call'[p].step \in {"open", "shut"} /\ call[p].op = "resendChain"
         /\ call'[p] # NoCall =>
                /\ call'[p].op = call[p].op /\ call'[p].id = call[p].id
                /\ call'[p].row = call[p].row /\ call'[p].old = call[p].old
                /\ call'[p].alone = call[p].alone
                /\ PortsOf(call'[p]) = PortsOf(call[p])
<1>1. call' = [call EXCEPT ![p] = AfterError(call[p], err)]
  BY DEF CallInv, TypeOK
<1>2. /\ ShapeOf(p, call[p]) /\ TypeOK /\ call \in [Procs -> Calls] /\ call[p] \in Calls
      /\ call'[p] = AfterError(call[p], err) /\ \A q \in Procs : q # p => call'[q] = call[q]
  BY <1>1 DEF CallInv, Shapes, TypeOK
<1>4. call[p].op = "resendRule" => ~call[p].orphan
  BY <1>2 DEF CallInv, Relayed, ShapeOf
<1>5. call[p].op = "resendChain" => ~call[p].orphan
  BY <1>2 DEF CallInv, Relayed, ShapeOf
<1>6. CASE call'[p] = NoCall
  <2>1. call' \in [Procs -> Calls] /\ Moved(p) /\ ShapeOf(p, call'[p])
    BY <1>1, <1>2, <1>6, NoCallType DEF Moved
  <2>2. call[p].op = "modifyRule" => call[p].step \notin {"delTcp", "delUdp"}
    <3>1. SUFFICES ASSUME call[p].op = "modifyRule", call[p].step \in {"delTcp", "delUdp"}
                   PROVE  FALSE
      OBVIOUS
    <3>2. AfterError(call[p], err) = Adding(call[p])
      BY <3>1 DEF AfterError
    <3>3. Adding(call[p]).op = "modifyRule"
      BY <3>1, <1>2 DEF Adding, Calls
    <3> QED
      BY <3>2, <3>3, <1>2, <1>6 DEF NoCall
  <2>3. call[p].op # "resendRule"
    <3>1. SUFFICES ASSUME call[p].op = "resendRule"
                   PROVE  FALSE
      OBVIOUS
    <3>2. AfterError(call[p], err) = IF err = "exists" THEN Deleting(call[p]) ELSE Adding(call[p])
      BY <3>1, <1>4 DEF AfterError
    <3>3. Adding(call[p]).op = "resendRule" /\ Deleting(call[p]).op = "resendRule"
      BY <3>1, <1>2 DEF Adding, Deleting, Calls
    <3> QED
      BY <3>2, <3>3, <1>2, <1>6 DEF NoCall
  <2>4. call[p].op = "delRule" => err # "refused" \/ call[p].orphan
    <3>1. SUFFICES ASSUME call[p].op = "delRule", err = "refused", ~call[p].orphan
                   PROVE  FALSE
      OBVIOUS
    <3>2. AfterError(call[p], err) = [call[p] EXCEPT !.step = "write"]
      BY <3>1 DEF AfterError
    <3>3. [call[p] EXCEPT !.step = "write"].op = "delRule"
      BY <3>1, <1>2 DEF Calls
    <3> QED
      BY <3>2, <3>3, <1>2, <1>6 DEF NoCall
  <2>5. call'[p].step = "none"
    BY <1>6 DEF NoCall
  <2> QED
    BY <1>1, <1>6, <2>1, <2>2, <2>3, <2>4, <2>5
<1>7. CASE call'[p] # NoCall
  <2>1. PICK step \in Steps :
          /\ call'[p] = [call[p] EXCEPT !.step = step]
          /\ \/ /\ step \in {"hop", "tcp"}
                /\ step = "hop" => call[p].row.via \in TlsVias
                /\ step = "tcp" => HasHop(ServiceOf(call[p].row))
                /\ \/ call[p].op = "modifyRule" /\ call[p].step \in {"delTcp", "delUdp"}
                   \/ call[p].op = "resendRule" /\ err # "exists"
             \/ step = "write" /\ call[p].op = "delRule" /\ err = "refused" /\ ~call[p].orphan
             \/ step = "delTcp" /\ call[p].op = "resendRule" /\ err = "exists"
             \/ step \in {"open", "shut"} /\ call[p].op = "resendChain"
    <3>1. CASE /\ call[p].op = "modifyRule" /\ call[p].step \in {"delTcp", "delUdp"}
               /\ call'[p] = Adding(call[p])
      <4>1. call[p].row \in Rows
        BY <3>1, <1>2 DEF ShapeOf
      <4>2. PICK step \in {"hop", "tcp"} : Adding(call[p]) = [call[p] EXCEPT !.step = step]
                                             /\ (step = "hop" => call[p].row.via \in TlsVias)
                                             /\ (step = "tcp" => HasHop(ServiceOf(call[p].row)))
        BY <4>1, <1>2, AddingFacts
      <4> QED
        BY <3>1, <4>2 DEF Steps
    <3>2. CASE /\ call[p].op = "delRule" /\ err = "refused" /\ ~call[p].orphan
               /\ call'[p] = [call[p] EXCEPT !.step = "write"]
      BY <3>2 DEF Steps
    <3>3. CASE /\ call[p].op = "resendRule" /\ err = "exists" /\ call'[p] = Deleting(call[p])
      BY <3>3 DEF Steps, Deleting
    <3>4. CASE /\ call[p].op = "resendRule" /\ err # "exists" /\ call'[p] = Adding(call[p])
      <4>1. call[p].row \in Rows
        BY <3>4, <1>2 DEF ShapeOf
      <4>2. PICK step \in {"hop", "tcp"} : Adding(call[p]) = [call[p] EXCEPT !.step = step]
                                             /\ (step = "hop" => call[p].row.via \in TlsVias)
                                             /\ (step = "tcp" => HasHop(ServiceOf(call[p].row)))
        BY <4>1, <1>2, AddingFacts
      <4> QED
        BY <3>4, <4>2 DEF Steps
    <3>5. CASE /\ call[p].op = "resendChain"
               /\ call'[p] = [call[p] EXCEPT !.step = IF err = "exists" THEN "shut" ELSE "open"]
      BY <3>5 DEF Steps
    <3> QED
      BY <3>1, <3>2, <3>3, <3>4, <3>5, <1>2, <1>7, AfterErrorFacts
  <2>2. call' = [call EXCEPT ![p] = [@ EXCEPT !.step = step]]
    BY <1>1, <1>2, <2>1
  <2>3. /\ call' \in [Procs -> Calls] /\ Moved(p) /\ call'[p].step = step
        /\ call'[p].op = call[p].op /\ call'[p].id = call[p].id
        /\ call'[p].row = call[p].row /\ call'[p].old = call[p].old /\ call'[p].typ = call[p].typ
        /\ call'[p].alone = call[p].alone /\ call'[p].orphan = call[p].orphan
        /\ PortsOf(call'[p]) = PortsOf(call[p])
    BY ZenonT(40), <2>2, <1>2, GotoFacts
  <2>4. ShapeOf(p, call'[p])
    BY <1>2, <2>1, <2>3 DEF ShapeOf
  <2> QED
    BY <1>1, <1>7, <2>1, <2>3, <2>4
<1> QED
  BY <1>6, <1>7

(* The answer of gost tells what p has left at its ports.                  *)
LEMMA FailedHalf ==
  ASSUME CallInv, NEW p \in Procs, NEW err, Answer(p, err),
         NEW port \in PortsOf(call[p]), port \notin broken
  PROVE  /\ tcp[port] = udp[port]
         /\ call[p].step = "udp" => call[p].row.port # port
         /\ (call[p].step = "delUdp" /\ call[p].old.port = port) => Empty(port)
<1>1. HalfKept(p, port) /\ port \in Ports /\ ShapeOf(p, call[p])
  BY OwnPort DEF CallInv, Shapes
<1>2. ~gost => Empty(port)
  BY <1>1 DEF CallInv, Down
<1>3. ~agent => call[p].step \notin {"udp", "delTcp", "delUdp"}
  BY DEF CallInv, Down
<1>4. call[p].step = "udp" => call[p].row.port # port
  <2>1. SUFFICES ASSUME call[p].step = "udp", call[p].row.port = port
                 PROVE  FALSE
    OBVIOUS
  <2>2. call[p].row \in Rows
    BY <2>1, <1>1 DEF ShapeOf
  <2>3. ServiceOf(call[p].row) # None
    BY <2>2, RowFacts
  <2>4. tcp[port] = ServiceOf(call[p].row) /\ udp[port] = None
    BY <2>1, <1>1 DEF HalfKept
  <2> QED
    BY <2>1, <2>3, <2>4, <1>2, <1>3 DEF Answer, Empty
<1>5. (call[p].step = "delUdp" /\ call[p].old.port = port) => Empty(port)
  BY <1>1, <1>2, <1>3 DEF Answer, Empty, HalfKept
<1> QED
  BY <1>1, <1>4, <1>5 DEF HalfKept, Empty

(* A request to gost that fails, as the call it is of takes it.            *)
LEMMA FailedStep ==
  ASSUME CallInv, NEW p \in Procs, NEW err, Failed(p, err), Answer(p, err),
         UNCHANGED <<gostVars, native, agent, boot, rowVars, relay>>, left' \in Allowances
  PROVE  CallInv'
<1>1. UNCHANGED <<gost, tcp, udp, hops, tls, native, agent, boot, rules, chains, relay>>
  BY DEF gostVars, agentVars, rowVars
<1>2. /\ call' \in [Procs -> Calls] /\ Moved(p) /\ ShapeOf(p, call'[p])
      /\ call'[p].orphan => call'[p].step # "write"
      /\ broken' = broken /\ stale \subseteq stale' /\ stale' \subseteq Ports
      /\ \/ /\ call'[p] = NoCall
            /\ call[p].op = "modifyRule" => /\ call[p].step \notin {"delTcp", "delUdp"}
                                            /\ call[p].old.port \in stale'
            /\ call[p].op # "resendRule"
            /\ call[p].op = "delRule" => err # "refused" \/ call[p].orphan
         \/ /\ call'[p].step \in {"hop", "tcp"}
            /\ call'[p].step = "tcp" => HasHop(ServiceOf(call[p].row))
            /\ \/ call[p].op = "modifyRule" /\ call[p].step \in {"delTcp", "delUdp"}
               \/ call[p].op = "resendRule" /\ err # "exists"
         \/ call'[p].step = "write" /\ call[p].op = "delRule" /\ err = "refused"
         \/ call'[p].step = "delTcp" /\ call[p].op = "resendRule" /\ err = "exists"
         \/ call'[p].step \in {"open", "shut"} /\ call[p].op = "resendChain"
      /\ call'[p] # NoCall =>
             /\ call'[p].op = call[p].op /\ call'[p].id = call[p].id
             /\ call'[p].row = call[p].row /\ call'[p].old = call[p].old
             /\ call'[p].alone = call[p].alone
             /\ PortsOf(call'[p]) = PortsOf(call[p])
  <2>1. ShapeOf(p, call[p]) /\ TypeOK
    BY DEF CallInv, Shapes
  <2>2. /\ call' = [call EXCEPT ![p] = AfterError(@, err)] /\ broken' = broken
        /\ stale' = IF call[p].op = "modifyRule" /\ call[p].step \notin {"delTcp", "delUdp"}
                    THEN stale \cup {call[p].old.port} ELSE stale
    BY <2>1 DEF Failed, TypeOK
  <2>3. stale \subseteq stale' /\ stale' \subseteq Ports
    BY <2>1, <2>2, RowFacts DEF ShapeOf, TypeOK
  <2> QED
    BY ZenonT(40), <2>2, <2>3, AfterFacts
<1>3. ShapeOf(p, call[p]) /\ TypeOK
  BY DEF CallInv, Shapes
<1>4. TypeOK'
  BY <1>1, <1>2, <1>3 DEF TypeOK
<1>5. Down'
  <2>1. \A port : Empty(port)' = Empty(port)
    BY <1>1 DEF Empty
  <2>2. \A q \in Procs \ {p} : call'[q] = call[q]
    BY <1>2 DEF Moved
  <2>3. PortsOf(call'[p]) \subseteq PortsOf(call[p])
    BY <1>2, PortsFacts
  <2>4. NoCall.step = "none" /\ NoCall.op = "none"
    BY DEF NoCall
  <2>5. ~agent => err # "exists" \/ call[p].op = "resendChain"
    BY <1>3 DEF Answer, ShapeOf
  <2>6. ~agent => call'[p].step \notin {"udp", "delTcp", "delUdp"}
    BY <1>2, <1>3, <2>4, <2>5 DEF ShapeOf
  <2>7. ~agent /\ call'[p].op # "resendRule" => PortsOf(call'[p]) \subseteq broken' \cup stale'
    BY <1>2, <2>3, <2>4, PortsFacts DEF CallInv, Down
  <2> QED
    BY <1>1, <1>2, <2>1, <2>2, <2>6, <2>7 DEF CallInv, Down
<1>6. p \in RuleIds => ResentAt(p)'
  <2>1. CASE call'[p] = NoCall
    BY <2>1 DEF ResentAt, NoCall
  <2>2. CASE call'[p] # NoCall
    <3>1. p \in RuleIds => ResentAt(p)
      BY DEF CallInv, Resent
    <3>2. HasHop(ServiceOf(call[p].row)) => HasHop(ServiceOf(call[p].row))'
      BY <1>1, <1>2, <2>2 DEF HasHop
    <3> QED
      BY <1>1, <1>2, <2>2, <3>1, <3>2 DEF ResentAt, RulesOn
  <2> QED
    BY <2>1, <2>2
<1>7. ASSUME NEW port \in PortsOf(call[p]), port \notin broken'
      PROVE  IF At(p, port)' THEN HalfKept(p, port)' ELSE tcp'[port] = udp'[port]
  <2>1. tcp[port] = udp[port]
    BY <1>2, <1>7, FailedHalf
  <2>2. call'[p].step \notin {"udp", "delUdp"}
    BY <1>2 DEF NoCall
  <2> QED
    BY <1>1, <2>1, <2>2 DEF HalfKept
<1>8. ASSUME NEW port \in PortsOf(call[p]), port \notin broken' \cup stale'
      PROVE  IF At(p, port)' THEN OldKept(p, port)' /\ NewKept(p, port)' ELSE Fits(port)'
  <2>1. /\ port \in Ports /\ OldKept(p, port) /\ NewKept(p, port)
        /\ \/ call[p].row \in Rows /\ call[p].row.port = port
           \/ call[p].old \in Rows /\ call[p].old.port = port
    BY <1>2, <1>8, OwnPort
  <2>2. /\ Fits(port) => Fits(port)'
        /\ \A svc : Serves(port, svc) => Serves(port, svc)'
        /\ Empty(port)' = Empty(port)
        /\ RulesOn(port)' = RulesOn(port)
    BY <1>1, FitsMore
  <2>3. /\ tcp[port] = udp[port]
        /\ call[p].step = "udp" => call[p].row.port # port
        /\ (call[p].step = "delUdp" /\ call[p].old.port = port) => Empty(port)
    BY <1>2, <1>8, FailedHalf
  <2>4. call[p].orphan => p \notin Requests
    BY <1>2, <1>8 DEF CallInv, Orphaned
  <2>5. call[p].old \in Rows => ServiceOf(call[p].old) # None
    BY RowFacts
  <2>6. ~gost => Empty(port)
    BY <2>1 DEF CallInv, Down
  <2>7. ~agent => call[p].step \notin {"udp", "delTcp", "delUdp"}
    BY DEF CallInv, Down
  (* A service that is there is found, and gost answers who asks it.       *)
  <2>8. (call[p].op \in {"delRule", "modifyRule"} /\ call[p].step \in {"delTcp", "delUdp"})
            => call[p].old.port # port
    <3>1. SUFFICES ASSUME call[p].op \in {"delRule", "modifyRule"}, call[p].step \in {"delTcp", "delUdp"},
                          call[p].old.port = port
                   PROVE  FALSE
      OBVIOUS
    <3>2. call[p].old \in Rows /\ call[p].old # None
      BY <1>3, <3>1, RowFacts DEF ShapeOf
    <3>3. udp[port] = ServiceOf(call[p].old)
      BY <2>1, <3>1, <3>2 DEF OldKept, Serves
    <3>4. call[p].step = "delTcp" => tcp[port] = ServiceOf(call[p].old)
      BY <2>1, <3>1, <3>2 DEF OldKept, Serves
    <3> QED
      BY <3>1, <3>2, <3>3, <3>4, <2>3, <2>5, <2>6, <2>7 DEF Answer, Empty
  <2>9. CASE call'[p] = NoCall
    <3>1. ~At(p, port)'
      BY <2>9, PortsFacts DEF At
    <3>2. Fits(port)
      <4> NoCall.step = "none"
        BY DEF NoCall
      <4>5. /\ call[p].op = "modifyRule" => call[p].old.port \in stale'
            /\ call[p].op # "resendRule"
        BY <1>2, <2>9
      <4>1. CASE call[p].op \in {"addRule", "modifyRule"}
        <5>1. /\ call[p].row.port = port /\ call[p].row # None
              /\ call[p].old = None \/ call[p].old.port # port
          <6>1. CASE call[p].op = "addRule"
            BY <6>1, <2>1, <1>3, RowFacts DEF ShapeOf
          <6>2. CASE call[p].op = "modifyRule"
            BY <6>2, <2>1, <1>3, <1>8, <4>5, RowFacts DEF ShapeOf
          <6> QED
            BY <4>1, <6>1, <6>2
        <5>2. call[p].step \notin {"udp", "write"}
          BY <5>1, <2>3 DEF Answer
        <5> QED
          BY <5>1, <5>2, <2>1 DEF NewKept
      <4>2. CASE call[p].op = "delRule"
        <5>1. call[p].old.port = port /\ call[p].step \in {"delTcp", "delUdp"}
          BY <4>2, <2>1, <1>3, RowFacts DEF ShapeOf, Answer
        <5> QED
          BY <4>2, <5>1, <2>8
      <4>3. call[p].op \in {"addRule", "modifyRule", "delRule"}
        BY <1>3, <2>1, <4>5, RowFacts DEF ShapeOf
      <4> QED
        BY <4>1, <4>2, <4>3
    <3> QED
      BY <3>1, <3>2, <2>2
  <2>10. CASE call'[p] # NoCall
    <3>1. At(p, port)'
      BY <1>2, <1>8, <2>10 DEF At
    <3>2. /\ HasHop(ServiceOf(call[p].row)) => HasHop(ServiceOf(call[p].row))'
          /\ Serves(port, ServiceOf(call[p].old)) => Serves(port, ServiceOf(call[p].old))'
      BY <1>1, <1>2, <2>10 DEF HasHop, Serves
    <3>3. OldKept(p, port)' /\ NewKept(p, port)'
      <4>1. CASE call[p].op = "modifyRule" /\ call'[p].step \in {"hop", "tcp"}
        <5>1. call[p].old.port # port /\ call[p].step \in {"delTcp", "delUdp"}
          BY <1>2, <2>8, <2>10, <4>1
        <5>2. call'[p].old.port # port
          BY <5>1, <1>2, <2>10
        <5>3. OldKept(p, port)'
          BY <5>2 DEF OldKept
        <5>4. Fits(port)'
          BY <5>1, <2>1, <2>2, RowFacts DEF NewKept
        <5> QED
          BY <4>1, <5>3, <5>4, <3>2, <1>2, <2>10 DEF NewKept
      <4>2. CASE call[p].op = "resendRule"
        <5>1. call[p].old = call[p].row /\ call[p].old \in Rows /\ call[p].old.port = port /\ call[p].old # None
          BY <4>2, <1>3, <2>1, RowFacts DEF ShapeOf
        <5>2. Empty(port) \/ Serves(port, ServiceOf(call[p].old))
          BY <4>2, <5>1, <1>3, <2>1, <2>3 DEF OldKept, ShapeOf
        <5>3. call'[p].step \in {"hop", "tcp", "delTcp"}
          BY <4>2, <1>2, <2>10
        <5>4. OldKept(p, port)'
          BY <4>2, <5>1, <5>2, <5>3, <1>1, <1>2, <2>1, <2>2, <3>2, <2>10 DEF OldKept
        <5>5. NewKept(p, port)'
          BY <4>2, <5>1, <5>3, <1>2, <3>2, <2>10 DEF NewKept
        <5> QED
          BY <5>4, <5>5
      <4>3. CASE call[p].op = "delRule"
        <5>1. call[p].old.port = port /\ call[p].step \in {"delTcp", "delUdp"}
          BY <4>3, <2>1, <1>3, RowFacts DEF ShapeOf, Answer
        <5> QED
          BY <4>3, <5>1, <2>8
      <4>4. call[p].op # "resendChain"
        BY <2>1, <1>3, RowFacts DEF ShapeOf
      <4> QED
        BY <4>1, <4>2, <4>3, <4>4, <1>2, <2>10
    <3> QED
      BY <3>1, <3>3
  <2> QED
    BY <2>9, <2>10
<1> QED
  BY <1>1, <1>2, <1>4, <1>5, <1>6, <1>7, <1>8, PlainStep

(* Half of the rule is added, or gost has the name already.                *)
LEMMA AddTcpStep ==
  ASSUME CallInv, NEW p \in Procs, AddTcp(p)
  PROVE  CallInv'
<1>1. ShapeOf(p, call[p]) /\ TypeOK
  BY DEF CallInv, Shapes
<1>2. /\ call[p].step = "tcp" /\ agent /\ gost /\ left' = left
      /\ call[p].op \in {"addRule", "modifyRule", "resendRule"}
      /\ call[p].row \in Rows /\ call[p].row # None /\ call[p].row.port \in Ports
      /\ ServiceOf(call[p].row) \in Services /\ ServiceOf(call[p].row) # None
  BY <1>1, RowFacts DEF AddTcp, Asks, ShapeOf
<1>3. CASE tcp[call[p].row.port] # None
  <2>1. Failed(p, "exists") /\ Answer(p, "exists")
        /\ UNCHANGED <<gostVars, native, agent, boot, rowVars, relay>>
    BY <1>2, <1>3 DEF AddTcp, Answer, gostVars, agentVars
  <2> QED
    BY <1>1, <1>2, <2>1, FailedStep DEF TypeOK
<1>4. CASE tcp[call[p].row.port] = None
  <2> DEFINE mine == call[p].row.port
  <2>1. /\ call' = [call EXCEPT ![p] = [@ EXCEPT !.step = "udp"]]
        /\ tcp' = [tcp EXCEPT ![mine] = ServiceOf(call[p].row)]
        /\ UNCHANGED <<gost, udp, hops, tls, native, agent, boot, rules, chains, relay, left, broken, stale>>
    BY <1>4 DEF AddTcp, Goto, agentVars, rowVars, histVars
  <2>2. /\ call' \in [Procs -> Calls] /\ Moved(p) /\ call'[p].step = "udp"
        /\ call'[p].op = call[p].op /\ call'[p].id = call[p].id
        /\ call'[p].row = call[p].row /\ call'[p].old = call[p].old /\ call'[p].typ = call[p].typ
        /\ call'[p].alone = call[p].alone /\ call'[p].orphan = call[p].orphan
        /\ PortsOf(call'[p]) = PortsOf(call[p])
    BY <2>1, <1>1, GotoFacts DEF Steps
  <2>3. /\ tcp' \in [Ports -> Services \cup {None}] /\ tcp'[mine] = ServiceOf(call[p].row)
        /\ \A port \in Ports : port # mine => tcp'[port] = tcp[port]
    BY <2>1, <1>1, <1>2 DEF TypeOK
  <2>4. TypeOK'
    BY <1>1, <2>1, <2>2, <2>3 DEF TypeOK
  <2>5. ShapeOf(p, call'[p])
    BY <1>1, <1>2, <2>2 DEF ShapeOf
  <2>6. Down'
    BY <1>2, <2>1 DEF Down
  <2>7. p \in RuleIds => ResentAt(p)'
    <3>1. p \in RuleIds => ResentAt(p)
      BY DEF CallInv, Resent
    <3>2. HasHop(ServiceOf(call[p].row)) => HasHop(ServiceOf(call[p].row))'
      BY <2>1, <2>2 DEF HasHop
    <3> QED
      BY <3>1, <3>2, <1>2, <2>1, <2>2, <2>3 DEF ResentAt, RulesOn
  <2>8. ASSUME NEW port \in PortsOf(call[p]), port \notin broken
        PROVE  HalfKept(p, port)'
    BY <2>8, <1>2, <1>4, <2>1, <2>2, <2>3, OwnPort DEF HalfKept
  <2>9. ASSUME NEW port \in PortsOf(call[p]), port \notin broken \cup stale
        PROVE  OldKept(p, port)' /\ NewKept(p, port)'
    <3>1. OldKept(p, port) /\ NewKept(p, port) /\ HalfKept(p, port) /\ port \in Ports
      BY <2>9, OwnPort
    <3>2. RulesOn(port)' = RulesOn(port)
      BY <2>1 DEF RulesOn
    <3>3. HasHop(ServiceOf(call[p].row)) => HasHop(ServiceOf(call[p].row))'
      BY <2>1, <2>2 DEF HasHop
    <3>4. CASE port = mine
      <4>1. OldKept(p, port)'
        BY <3>1, <3>2, <3>4, <1>2, <2>1, <2>2 DEF OldKept
      <4>2. Fits(port) => RulesOn(port) = {}
        BY <3>4, <1>4, <1>1, RowFacts DEF Fits, Serves, TypeOK, RulesOn
      <4>3. udp[port] = None
        BY <3>1, <3>4, <1>2, <1>4 DEF HalfKept
      <4>4. NewKept(p, port)'
        BY <3>1, <3>2, <3>3, <3>4, <4>2, <4>3, <1>2, <2>1, <2>2, <2>3 DEF NewKept
      <4> QED
        BY <4>1, <4>4
    <3>5. CASE port # mine
      <4>1. Empty(port)' = Empty(port)
        BY <3>1, <3>5, <2>1, <2>3 DEF Empty
      <4>2. call[p].op # "resendRule"
        BY <3>5, <2>9, <1>1, <1>2, PortsFacts DEF ShapeOf
      <4>3. OldKept(p, port)'
        BY <3>1, <3>2, <3>5, <4>1, <4>2, <1>2, <2>1, <2>2 DEF OldKept
      <4>4. NewKept(p, port)'
        BY <3>5, <2>2 DEF NewKept
      <4> QED
        BY <4>3, <4>4
    <3> QED
      BY <3>4, <3>5
  <2>10. \A port \in PortsOf(call[p]) : At(p, port)'
    BY <2>2 DEF At
  <2>11. mine \in PortsOf(call[p])
    BY <1>2, PortsFacts
  <2>12. \A port \in Ports \ PortsOf(call[p]) : tcp'[port] = tcp[port] /\ udp'[port] = udp[port]
    BY <2>1, <2>3, <2>11
  <2>13. relay' = relay /\ rules' = rules /\ hops \subseteq hops' /\ broken' = broken /\ stale' = stale
         /\ call'[p].step # "write"
    BY <2>1, <2>2
  <2> HIDE DEF mine
  <2> QED
    BY <2>2, <2>4, <2>5, <2>6, <2>7, <2>8, <2>9, <2>10, <2>12, <2>13, PlainStep
<1> QED
  BY <1>3, <1>4

(* The other half: the handler answers, and the row may be written.        *)
LEMMA AddUdpStep ==
  ASSUME CallInv, NEW p \in Procs, AddUdp(p)
  PROVE  CallInv'
<1>1. ShapeOf(p, call[p]) /\ TypeOK
  BY DEF CallInv, Shapes
<1>2. /\ call[p].step = "udp" /\ agent /\ gost /\ left' = left
      /\ call[p].op \in {"addRule", "modifyRule", "resendRule"}
      /\ call[p].row \in Rows /\ call[p].row # None /\ call[p].row.port \in Ports
      /\ ServiceOf(call[p].row) \in Services /\ ServiceOf(call[p].row) # None
  BY <1>1, RowFacts DEF AddUdp, Asks, ShapeOf
<1>3. CASE udp[call[p].row.port] # None
  <2>1. Failed(p, "exists") /\ Answer(p, "exists")
        /\ UNCHANGED <<gostVars, native, agent, boot, rowVars, relay>>
    BY <1>2, <1>3 DEF AddUdp, Answer, gostVars, agentVars
  <2> QED
    BY <1>1, <1>2, <2>1, FailedStep DEF TypeOK
<1>4. CASE udp[call[p].row.port] = None
  <2>0. PICK mine \in Ports, svc \in Services : mine = call[p].row.port /\ svc = ServiceOf(call[p].row)
    BY <1>2
  <2> USE <2>0
  <2>1. /\ udp' = [udp EXCEPT ![mine] = svc] /\ Accepted(p)
        /\ UNCHANGED <<gost, tcp, hops, tls, native, agent, boot, rules, chains, relay, left>>
    BY <1>4 DEF AddUdp, agentVars, rowVars
  <2>2. /\ udp' \in [Ports -> Services \cup {None}] /\ udp'[mine] = svc
        /\ \A port \in Ports : port # mine => udp'[port] = udp[port]
    BY <2>1, <1>1, <1>2 DEF TypeOK
  <2>3. mine \in PortsOf(call[p])
    BY <1>2, PortsFacts
  <2>4. \A port \in Ports \ PortsOf(call[p]) : tcp'[port] = tcp[port] /\ udp'[port] = udp[port]
    BY <2>1, <2>2, <2>3
  <2>5. Down'
    BY <1>2, <2>1 DEF Down
  <2>6. relay' = relay /\ rules' = rules /\ hops \subseteq hops'
    BY <2>1
  <2>7. \A port : RulesOn(port)' = RulesOn(port)
    BY <2>1 DEF RulesOn
  (* Both services are there now.                                          *)
  <2>8. ASSUME NEW port \in PortsOf(call[p]), port \notin broken
        PROVE  tcp'[port] = udp'[port]
    BY <2>8, <1>2, <2>1, <2>2, OwnPort DEF HalfKept
  <2>9. HasHop(svc) => HasHop(ServiceOf(call[p].row)) /\ svc.via \in hops' \cup {Direct}
    BY <2>1 DEF HasHop
  <2>10. CASE call[p].op = "resendRule"
    <3>1. End(p)
      BY <2>1, <2>10 DEF Accepted
    <3>2. /\ call' \in [Procs -> Calls] /\ Moved(p) /\ call'[p] = NoCall
          /\ ShapeOf(p, call'[p]) /\ (p \in RuleIds => ResentAt(p)')
          /\ \A port : ~At(p, port)'
      BY <3>1, <1>1, EndFacts
    <3>3. call'[p].orphan => call'[p].step # "write"
      BY <3>2 DEF NoCall
    <3>4. /\ call[p].old = call[p].row /\ call[p].id = p /\ p \in RuleIds
          /\ \A port \in PortsOf(call[p]) : port = mine
      BY <2>10, <1>1, PortsFacts DEF ShapeOf
    <3>5. CASE call[p].alone /\ RulesOn(mine) = {p} /\ ~call[p].orphan
      <4>1. broken' = broken \ {mine} /\ stale' = stale \ {mine}
        BY <2>1, <2>10, <3>5 DEF Accepted
      <4>2. TypeOK'
        BY <1>1, <2>1, <2>2, <3>2, <4>1 DEF TypeOK
      <4>3. \A q \in Procs : ~At(q, mine)'
        <5>1. SUFFICES ASSUME NEW q \in Procs, q # p, At(q, mine)
                       PROVE  FALSE
          BY <3>2 DEF Moved, At
        <5> QED
          BY <5>1, <1>2, <2>3, <2>10, <3>5 DEF CallInv, Lone, At
      <4>4. rules[p] = call[p].row /\ HasHop(svc) /\ tcp[mine] = svc
        BY <2>10, <3>4, <3>5, <1>2 DEF CallInv, Resent, ResentAt
      <4>5. Serves(mine, ServiceOf(rules[p]))'
        <5>1. ServiceOf(rules'[p]) = svc
          BY <4>4, <2>1
        <5> QED
          BY <5>1, <4>4, <2>1, <2>2, <2>9 DEF Serves, HasHop
      <4>6. Fits(mine)'
        BY <4>5, <2>7, <3>4, <3>5 DEF Fits
      <4>7. tcp'[mine] = udp'[mine]
        BY <4>4, <2>1, <2>2
      <4>8. \A q \in RuleIds :
              (q # p /\ call[q].op = "resendRule" /\ call[q].alone /\ q \in RulesOn(call[q].row.port))'
                  => rules'[q] = call[q].row
        <5>1. SUFFICES ASSUME NEW q \in RuleIds, q # p, call'[q].op = "resendRule", call'[q].alone,
                              q \in RulesOn(call[q].row.port)'
                       PROVE  rules'[q] = call[q].row
          BY <5>1
        <5>2. call'[q] = call[q]
          BY <5>1, <3>2 DEF Moved, Procs
        <5>3. q \in RulesOn(call[q].row.port)
          BY <5>1, <5>2, <2>1 DEF RulesOn
        <5> QED
          BY <5>1, <5>2, <5>3, <2>1 DEF CallInv, Resent, ResentAt
      <4>9. \A port \in Ports : (\E q \in Procs : At(q, port)') =>
              (port \in broken => port \in broken') /\ (port \in stale => port \in stale')
        BY <4>1, <4>3
      <4>10. \A port \in Ports \ PortsOf(call[p]) :
              /\ tcp'[port] = tcp[port] /\ udp'[port] = udp[port]
              /\ port \in broken => port \in broken'
              /\ port \in stale => port \in stale'
              /\ port \notin broken' \cup stale' =>
                  RulesOn(port)' = RulesOn(port) /\ \A id \in RulesOn(port) : rules'[id] = rules[id]
        BY <2>3, <2>4, <2>6, <2>7, <4>1
      <4>11. \A port \in PortsOf(call[p]) \ broken' :
              IF At(p, port)' THEN HalfKept(p, port)' ELSE tcp'[port] = udp'[port]
        BY <3>2, <3>4, <4>7
      <4>12. \A port \in PortsOf(call[p]) \ (broken' \cup stale') :
              IF At(p, port)' THEN OldKept(p, port)' /\ NewKept(p, port)' ELSE Fits(port)'
        <5>1. SUFFICES ASSUME NEW port \in PortsOf(call[p])
                       PROVE  ~At(p, port)' /\ Fits(port)'
          BY <5>1
        <5>2. \A x : x = mine => Fits(x)'
          BY <4>6
        <5> QED
          BY <5>2, <3>2, <3>4
      <4> QED
        BY <2>5, <2>6, <3>2, <3>3, <4>2, <4>8, <4>9, <4>10, <4>11, <4>12, OwnStep
    <3>6. CASE ~(call[p].alone /\ RulesOn(mine) = {p} /\ ~call[p].orphan)
      <4>1. broken' = broken /\ stale' = stale
        BY <2>1, <2>10, <3>6 DEF Accepted, histVars
      <4>2. TypeOK'
        BY <1>1, <2>1, <2>2, <3>2, <4>1 DEF TypeOK
      <4>3. ASSUME NEW port \in PortsOf(call[p]), port \notin broken \cup stale
            PROVE  Fits(port)'
        <5>1. OldKept(p, port) /\ NewKept(p, port) /\ port = mine
          BY <4>3, <3>4, OwnPort
        <5>2. rules[p] = call[p].row /\ RulesOn(port) = {p}
          BY <5>1, <3>4, <1>2 DEF OldKept
        <5>3. tcp[port] = svc /\ HasHop(svc)
          BY <5>1, <1>2 DEF NewKept
        <5>4. Serves(port, ServiceOf(rules[p]))'
          <6>1. ServiceOf(rules'[p]) = svc
            BY <5>2, <2>1
          <6> QED
            BY <5>1, <5>3, <6>1, <2>1, <2>2, <2>9 DEF Serves, HasHop
        <5> QED
          BY <5>2, <5>4, <2>7, <3>4 DEF Fits
      <4> QED
        BY <2>4, <2>5, <2>6, <2>8, <3>2, <3>3, <4>1, <4>2, <4>3, PlainStep
    <3> QED
      BY <3>5, <3>6
  <2>11. CASE call[p].op # "resendRule" /\ call[p].orphan
    <3>1. End(p) /\ broken' = broken /\ stale' = stale
      BY <2>1, <2>11 DEF Accepted, histVars
    <3>2. /\ call' \in [Procs -> Calls] /\ Moved(p) /\ call'[p] = NoCall
          /\ ShapeOf(p, call'[p]) /\ (p \in RuleIds => ResentAt(p)')
          /\ \A port : ~At(p, port)'
      BY <3>1, <1>1, EndFacts
    <3>3. call'[p].orphan => call'[p].step # "write"
      BY <3>2 DEF NoCall
    <3>4. TypeOK'
      BY <1>1, <2>1, <2>2, <3>1, <3>2 DEF TypeOK
    <3>5. PortsOf(call[p]) \subseteq stale
      BY <2>11, <1>1, <1>2 DEF CallInv, Orphaned, ShapeOf
    <3> QED
      BY <2>4, <2>5, <2>6, <2>8, <3>1, <3>2, <3>3, <3>4, <3>5, PlainStep
  <2>12. CASE call[p].op # "resendRule" /\ ~call[p].orphan
    <3>1. call' = [call EXCEPT ![p] = [@ EXCEPT !.step = "write"]] /\ broken' = broken /\ stale' = stale
      BY <2>1, <2>12, <1>2 DEF Accepted, histVars, Goto
    <3>2. /\ call' \in [Procs -> Calls] /\ Moved(p) /\ call'[p].step = "write"
          /\ call'[p].op = call[p].op /\ call'[p].id = call[p].id
          /\ call'[p].row = call[p].row /\ call'[p].old = call[p].old /\ call'[p].typ = call[p].typ
          /\ call'[p].alone = call[p].alone /\ call'[p].orphan = call[p].orphan
          /\ PortsOf(call'[p]) = PortsOf(call[p])
      BY <3>1, <1>1, GotoFacts DEF Steps
    <3>3. TypeOK' /\ ShapeOf(p, call'[p])
      BY <1>1, <1>2, <2>1, <2>2, <2>12, <3>1, <3>2 DEF TypeOK, ShapeOf
    <3>4. p \in RuleIds => ResentAt(p)'
      BY <2>12, <3>2 DEF ResentAt
    <3>5. \A port \in PortsOf(call[p]) : At(p, port)'
      BY <3>2 DEF At
    <3>6. ASSUME NEW port \in PortsOf(call[p]), port \notin broken
          PROVE  HalfKept(p, port)'
      BY <3>6, <2>8, <3>2 DEF HalfKept
    <3>7. ASSUME NEW port \in PortsOf(call[p]), port \notin broken \cup stale
          PROVE  OldKept(p, port)' /\ NewKept(p, port)'
      <4>1. OldKept(p, port) /\ NewKept(p, port) /\ port \in Ports
        BY <3>7, OwnPort
      <4>2. HasHop(ServiceOf(call[p].row)) => HasHop(ServiceOf(call[p].row))'
        BY <2>1, <3>2 DEF HasHop
      <4>3. CASE port = mine
        <5>1. OldKept(p, port)'
          BY <4>1, <4>3, <2>1, <2>7, <3>2, <1>2 DEF OldKept
        <5>2. Serves(port, ServiceOf(call[p].row))'
          BY <4>1, <4>2, <4>3, <2>1, <2>2, <3>2, <1>2 DEF Serves, NewKept
        <5>3. NewKept(p, port)'
          BY <4>1, <4>2, <4>3, <5>2, <2>7, <3>2, <1>2 DEF NewKept
        <5> QED
          BY <5>1, <5>3
      <4>4. CASE port # mine
        <5>1. Empty(port)' = Empty(port)
          BY <4>1, <4>4, <2>1, <2>2 DEF Empty
        <5>2. OldKept(p, port)'
          BY <4>1, <4>4, <5>1, <2>1, <2>7, <3>2, <1>2 DEF OldKept
        <5>3. NewKept(p, port)'
          BY <4>4, <3>2 DEF NewKept
        <5> QED
          BY <5>2, <5>3
      <4> QED
        BY <4>3, <4>4
    <3>8. call'[p].orphan => call'[p].step # "write"
      BY <2>12, <3>2
    <3> QED
      BY <2>4, <2>5, <2>6, <3>1, <3>2, <3>3, <3>4, <3>5, <3>6, <3>7, <3>8, PlainStep
  <2> QED
    BY <2>10, <2>11, <2>12
<1> QED
  BY <1>3, <1>4

(* Half of the rule is deleted, or gost does not know the name.            *)
LEMMA DelTcpStep ==
  ASSUME CallInv, NEW p \in Procs, DelTcp(p)
  PROVE  CallInv'
<1>1. ShapeOf(p, call[p]) /\ TypeOK
  BY DEF CallInv, Shapes
<1>2. /\ call[p].step = "delTcp" /\ agent /\ gost /\ left' = left
      /\ call[p].op \in {"delRule", "modifyRule", "resendRule"}
      /\ call[p].old \in Rows /\ call[p].old # None /\ call[p].old.port \in Ports
  BY <1>1, RowFacts DEF DelTcp, Asks, ShapeOf
<1>3. CASE tcp[call[p].old.port] = None
  <2>1. Failed(p, "notFound") /\ Answer(p, "notFound")
        /\ UNCHANGED <<gostVars, native, agent, boot, rowVars, relay>>
    BY <1>2, <1>3 DEF DelTcp, Answer, gostVars, agentVars
  <2> QED
    BY <1>1, <1>2, <2>1, FailedStep DEF TypeOK
<1>4. CASE tcp[call[p].old.port] # None
  <2>0. PICK mine \in Ports : mine = call[p].old.port
    BY <1>2
  <2> USE <2>0
  <2>1. /\ call' = [call EXCEPT ![p] = [@ EXCEPT !.step = "delUdp"]]
        /\ tcp' = [tcp EXCEPT ![mine] = None]
        /\ UNCHANGED <<gost, udp, hops, tls, native, agent, boot, rules, chains, relay, left, broken, stale>>
    BY <1>4 DEF DelTcp, Goto, agentVars, rowVars, histVars
  <2>2. /\ call' \in [Procs -> Calls] /\ Moved(p) /\ call'[p].step = "delUdp"
        /\ call'[p].op = call[p].op /\ call'[p].id = call[p].id
        /\ call'[p].row = call[p].row /\ call'[p].old = call[p].old /\ call'[p].typ = call[p].typ
        /\ call'[p].alone = call[p].alone /\ call'[p].orphan = call[p].orphan
        /\ PortsOf(call'[p]) = PortsOf(call[p])
    BY <2>1, <1>1, GotoFacts DEF Steps
  <2>3. /\ tcp' \in [Ports -> Services \cup {None}] /\ tcp'[mine] = None
        /\ \A port \in Ports : port # mine => tcp'[port] = tcp[port]
    BY <2>1, <1>1, <1>2 DEF TypeOK
  <2>4. TypeOK'
    BY <1>1, <2>1, <2>2, <2>3 DEF TypeOK
  <2>5. ShapeOf(p, call'[p])
    BY <1>1, <1>2, <2>2 DEF ShapeOf
  <2>6. Down'
    BY <1>2, <2>1 DEF Down
  <2>7. p \in RuleIds => ResentAt(p)'
    BY <1>2, <2>1, <2>2 DEF CallInv, Resent, ResentAt, RulesOn
  <2>8. ASSUME NEW port \in PortsOf(call[p]), port \notin broken
        PROVE  HalfKept(p, port)'
    BY <2>8, <1>2, <2>1, <2>2, <2>3, OwnPort DEF HalfKept
  <2>9. ASSUME NEW port \in PortsOf(call[p]), port \notin broken \cup stale
        PROVE  OldKept(p, port)' /\ NewKept(p, port)'
    <3>1. OldKept(p, port) /\ NewKept(p, port) /\ port \in Ports
      BY <2>9, OwnPort
    <3>2. RulesOn(port)' = RulesOn(port)
      BY <2>1 DEF RulesOn
    <3>3. CASE port = mine
      <4>1. OldKept(p, port)'
        BY <3>1, <3>2, <3>3, <1>2, <2>1, <2>2, <2>3 DEF OldKept, Serves
      <4>2. NewKept(p, port)'
        BY <3>3, <1>2, <2>2 DEF NewKept
      <4> QED
        BY <4>1, <4>2
    <3>4. CASE port # mine
      <4>1. OldKept(p, port)'
        BY <3>4, <2>2 DEF OldKept
      <4>2. tcp'[port] = tcp[port] /\ udp'[port] = udp[port]
        BY <2>1, <2>3, <3>1, <3>4
      <4>3. Fits(port) => Fits(port)'
        BY <2>1, <4>2, FitsMore
      <4>4. NewKept(p, port)'
        BY <3>1, <3>4, <4>3, <1>2, <2>2 DEF NewKept
      <4> QED
        BY <4>1, <4>4
    <3> QED
      BY <3>3, <3>4
  <2>10. \A port \in PortsOf(call[p]) : At(p, port)'
    BY <2>2 DEF At
  <2>11. mine \in PortsOf(call[p])
    BY <1>2, PortsFacts
  <2>12. \A port \in Ports \ PortsOf(call[p]) : tcp'[port] = tcp[port] /\ udp'[port] = udp[port]
    BY <2>1, <2>3, <2>11
  <2>13. relay' = relay /\ rules' = rules /\ hops \subseteq hops' /\ broken' = broken /\ stale' = stale
         /\ call'[p].step # "write"
    BY <2>1, <2>2
  <2> QED
    BY <2>2, <2>4, <2>5, <2>6, <2>7, <2>8, <2>9, <2>10, <2>12, <2>13, PlainStep
<1> QED
  BY <1>3, <1>4

(* The other half: the port is empty, or added anew.                       *)
LEMMA DelUdpStep ==
  ASSUME CallInv, NEW p \in Procs, DelUdp(p)
  PROVE  CallInv'
<1>1. ShapeOf(p, call[p]) /\ TypeOK
  BY DEF CallInv, Shapes
<1>2. /\ call[p].step = "delUdp" /\ agent /\ gost /\ left' = left
      /\ call[p].op \in {"delRule", "modifyRule", "resendRule"}
      /\ call[p].old \in Rows /\ call[p].old # None /\ call[p].old.port \in Ports
  BY <1>1, RowFacts DEF DelUdp, Asks, ShapeOf
<1>3. CASE udp[call[p].old.port] = None
  <2>1. Failed(p, "notFound") /\ Answer(p, "notFound")
        /\ UNCHANGED <<gostVars, native, agent, boot, rowVars, relay>>
    BY <1>2, <1>3 DEF DelUdp, Answer, gostVars, agentVars
  <2> QED
    BY <1>1, <1>2, <2>1, FailedStep DEF TypeOK
<1>4. CASE udp[call[p].old.port] # None
  <2>0. PICK mine \in Ports : mine = call[p].old.port
    BY <1>2
  <2> USE <2>0
  <2>1. /\ udp' = [udp EXCEPT ![mine] = None]
        /\ IF call[p].op = "delRule" THEN Accepted(p)
           ELSE call' = [call EXCEPT ![p] = Adding(@)] /\ UNCHANGED histVars
        /\ UNCHANGED <<gost, tcp, hops, tls, native, agent, boot, rules, chains, relay, left>>
    BY <1>4 DEF DelUdp, agentVars, rowVars
  <2>2. /\ udp' \in [Ports -> Services \cup {None}] /\ udp'[mine] = None
        /\ \A port \in Ports : port # mine => udp'[port] = udp[port]
    BY <2>1, <1>1 DEF TypeOK
  <2>3. mine \in PortsOf(call[p])
    BY <1>2, PortsFacts
  <2>4. \A port \in Ports \ PortsOf(call[p]) : tcp'[port] = tcp[port] /\ udp'[port] = udp[port]
    BY <2>1, <2>2, <2>3
  <2>5. Down'
    BY <1>2, <2>1 DEF Down
  <2>6. relay' = relay /\ rules' = rules /\ hops \subseteq hops'
    BY <2>1
  <2>7. \A port : RulesOn(port)' = RulesOn(port)
    BY <2>1 DEF RulesOn
  <2>8. ASSUME NEW port \in PortsOf(call[p]), port \notin broken
        PROVE  tcp'[port] = udp'[port]
    BY <2>8, <1>2, <2>1, <2>2, OwnPort DEF HalfKept
  <2>9. ASSUME NEW port \in PortsOf(call[p]), port \notin broken \cup stale
        PROVE  OldKept(p, port) /\ NewKept(p, port) /\ (port = mine => Empty(port)')
    <3>1. OldKept(p, port) /\ NewKept(p, port)
      BY <2>9, OwnPort
    <3> QED
      BY <3>1, <1>2, <2>1, <2>2 DEF OldKept, Empty
  <2>10. CASE call[p].op = "delRule" /\ call[p].orphan
    <3>1. End(p) /\ broken' = broken /\ stale' = stale
      BY <2>1, <2>10 DEF Accepted, histVars
    <3>2. /\ call' \in [Procs -> Calls] /\ Moved(p) /\ call'[p] = NoCall
          /\ ShapeOf(p, call'[p]) /\ (p \in RuleIds => ResentAt(p)')
          /\ \A port : ~At(p, port)'
      BY <3>1, <1>1, EndFacts
    <3>3. call'[p].orphan => call'[p].step # "write"
      BY <3>2 DEF NoCall
    <3>4. TypeOK'
      BY <1>1, <2>1, <2>2, <3>1, <3>2 DEF TypeOK
    <3>5. PortsOf(call[p]) \subseteq stale
      BY <2>10, <1>1 DEF CallInv, Orphaned, ShapeOf
    <3> QED
      BY <2>4, <2>5, <2>6, <2>8, <3>1, <3>2, <3>3, <3>4, <3>5, PlainStep
  <2>11. CASE ~(call[p].op = "delRule" /\ call[p].orphan)
    <3>1. PICK step \in {"hop", "tcp", "write"} :
            /\ call' = [call EXCEPT ![p] = [@ EXCEPT !.step = step]] /\ broken' = broken /\ stale' = stale
            /\ step = "write" => call[p].op = "delRule" /\ ~call[p].orphan
            /\ step \in {"hop", "tcp"} => call[p].op # "delRule"
            /\ step = "hop" => call[p].row.via \in TlsVias
            /\ step = "tcp" => HasHop(ServiceOf(call[p].row))
      <4>1. CASE call[p].op = "delRule"
        <5>1. call' = [call EXCEPT ![p] = [@ EXCEPT !.step = "write"]] /\ broken' = broken /\ stale' = stale
          BY <2>1, <2>11, <4>1 DEF Accepted, histVars, Goto
        <5> QED
          BY <4>1, <5>1, <2>11
      <4>2. CASE call[p].op # "delRule"
        <5>1. call[p].row \in Rows
          BY <4>2, <1>1, <1>2 DEF ShapeOf
        <5>2. PICK step \in {"hop", "tcp"} :
                /\ Adding(call[p]) = [call[p] EXCEPT !.step = step]
                /\ step = "hop" => call[p].row.via \in TlsVias
                /\ step = "tcp" => HasHop(ServiceOf(call[p].row))
          BY <5>1, <1>1, AddingFacts
        <5>3. call' = [call EXCEPT ![p] = Adding(call[p])] /\ broken' = broken /\ stale' = stale
          BY <2>1, <4>2, <1>1 DEF histVars, TypeOK
        <5>4. call' = [call EXCEPT ![p] = [@ EXCEPT !.step = step]]
          BY <5>2, <5>3, <1>1 DEF TypeOK
        <5> QED
          BY <4>2, <5>2, <5>3, <5>4
      <4> QED
        BY <4>1, <4>2
    <3>2. /\ call' \in [Procs -> Calls] /\ Moved(p) /\ call'[p].step = step
          /\ call'[p].op = call[p].op /\ call'[p].id = call[p].id
          /\ call'[p].row = call[p].row /\ call'[p].old = call[p].old /\ call'[p].typ = call[p].typ
          /\ call'[p].alone = call[p].alone /\ call'[p].orphan = call[p].orphan
          /\ PortsOf(call'[p]) = PortsOf(call[p])
      BY <3>1, <1>1, GotoFacts DEF Steps
    <3>3. ShapeOf(p, call'[p])
      BY <1>1, <1>2, <3>1, <3>2 DEF ShapeOf
    <3>4. TypeOK'
      BY <1>1, <2>1, <2>2, <3>1, <3>2 DEF TypeOK
    <3>5. HasHop(ServiceOf(call[p].row)) => HasHop(ServiceOf(call[p].row))'
      BY <2>1, <3>2 DEF HasHop
    <3>6. p \in RuleIds => ResentAt(p)'
      BY <1>2, <2>1, <3>1, <3>2, <3>5 DEF CallInv, Resent, ResentAt, RulesOn
    <3>7. \A port \in PortsOf(call[p]) : At(p, port)'
      BY <3>2 DEF At
    <3>8. ASSUME NEW port \in PortsOf(call[p]), port \notin broken
          PROVE  HalfKept(p, port)'
      BY <3>8, <2>8, <3>1, <3>2 DEF HalfKept
    <3>9. ASSUME NEW port \in PortsOf(call[p]), port \notin broken \cup stale
          PROVE  OldKept(p, port)' /\ NewKept(p, port)'
      <4>1. OldKept(p, port) /\ NewKept(p, port) /\ (port = mine => Empty(port)') /\ port \in Ports
        BY <3>9, <2>9, OwnPort
      <4>2. OldKept(p, port)'
        BY <4>1, <1>2, <2>1, <2>7, <3>1, <3>2 DEF OldKept
      <4>3. port # mine => (Fits(port) => Fits(port)')
        BY <4>1, <2>1, <2>2, FitsMore
      <4>4. NewKept(p, port)'
        BY <4>1, <4>3, <1>1, <1>2, <3>1, <3>2, <3>5 DEF NewKept, ShapeOf
      <4> QED
        BY <4>2, <4>4
    <3>10. call'[p].orphan => call'[p].step # "write"
      BY <3>1, <3>2
    <3> QED
      BY <2>4, <2>5, <2>6, <3>1, <3>2, <3>3, <3>4, <3>6, <3>7, <3>8, <3>9, <3>10, PlainStep
  <2> QED
    BY <2>10, <2>11
<1> QED
  BY <1>3, <1>4

(* The request of a chain has been done: rules have nothing to do with it. *)
LEMMA ChainStep ==
  ASSUME CallInv, NEW p \in Procs, call[p].op \in {"addChain", "delChain", "resendChain"}, agent,
         UNCHANGED <<gost, tcp, udp, hops, agent, boot, rules, chains, relay, left, broken, stale>>,
         tls' \subseteq ChainPorts, native' \subseteq ChainPorts,
         \/ End(p)
         \/ \E step \in {"open", "write"} :
                /\ call' = [call EXCEPT ![p] = [@ EXCEPT !.step = step]]
                /\ step = "write" => ~call[p].orphan /\ call[p].op # "resendChain"
  PROVE  CallInv'
<1>1. ShapeOf(p, call[p]) /\ TypeOK
  BY DEF CallInv, Shapes
<1>2. PortsOf(call[p]) = {}
  BY <1>1, PortsFacts DEF ShapeOf
<1>3. Down'
  BY DEF CallInv, Down, Empty
<1>4. CASE End(p)
  <2>1. /\ call' \in [Procs -> Calls] /\ Moved(p) /\ call'[p] = NoCall
        /\ ShapeOf(p, call'[p]) /\ (p \in RuleIds => ResentAt(p)')
    BY <1>1, <1>4, EndFacts
  <2>2. call'[p].orphan => call'[p].step # "write"
    BY <2>1 DEF NoCall
  <2>3. TypeOK'
    BY <1>1, <2>1 DEF TypeOK
  <2> QED
    BY <1>2, <1>3, <2>1, <2>2, <2>3, PlainStep
<1>5. ASSUME NEW step \in {"open", "write"},
             call' = [call EXCEPT ![p] = [@ EXCEPT !.step = step]],
             step = "write" => ~call[p].orphan /\ call[p].op # "resendChain"
      PROVE  CallInv'
  <2>1. /\ call' \in [Procs -> Calls] /\ Moved(p) /\ call'[p].step = step
        /\ call'[p].op = call[p].op /\ call'[p].id = call[p].id
        /\ call'[p].row = call[p].row /\ call'[p].old = call[p].old /\ call'[p].typ = call[p].typ
        /\ call'[p].alone = call[p].alone /\ call'[p].orphan = call[p].orphan
    BY <1>1, <1>5, GotoFacts DEF Steps
  <2>2. ShapeOf(p, call'[p]) /\ TypeOK' /\ (call'[p].orphan => call'[p].step # "write")
    BY <1>1, <1>5, <2>1 DEF ShapeOf, TypeOK
  <2>3. p \in RuleIds => ResentAt(p)'
    BY <2>1 DEF ResentAt
  <2> QED
    BY <1>2, <1>3, <2>1, <2>2, <2>3, PlainStep
<1> QED
  BY <1>4, <1>5

(* A chain is opened.                                                      *)
LEMMA OpenChainStep ==
  ASSUME CallInv, NEW p \in Procs, OpenChain(p)
  PROVE  CallInv'
<1>1. ShapeOf(p, call[p]) /\ TypeOK
  BY DEF CallInv, Shapes
<1>2. /\ call[p].step = "open" /\ agent /\ left' = left
      /\ call[p].op \in {"addChain", "delChain", "resendChain"} /\ call[p].id \in ChainPorts
      /\ UNCHANGED <<gost, tcp, udp, hops, agent, boot, rules, chains, relay, left>>
  BY <1>1 DEF OpenChain, ShapeOf, agentVars, rowVars
<1>3. CASE call[p].id \in tls \cup native
  <2>1. Failed(p, "exists") /\ UNCHANGED <<tls, native>>
    BY <1>3 DEF OpenChain
  <2>2. Answer(p, "exists") /\ UNCHANGED <<gostVars, native, agent, boot, rowVars, relay>>
    BY <1>2, <2>1 DEF Answer, gostVars, agentVars, rowVars
  <2> QED
    BY <1>1, <1>2, <2>1, <2>2, FailedStep DEF TypeOK
<1>4. CASE call[p].id \notin tls \cup native
  <2>1. /\ IF call[p].typ = "tls" THEN tls' = tls \cup {call[p].id} /\ UNCHANGED native
           ELSE native' = native \cup {call[p].id} /\ UNCHANGED tls
        /\ Accepted(p)
    BY <1>4 DEF OpenChain
  <2>2. tls' \subseteq ChainPorts /\ native' \subseteq ChainPorts
    BY <1>1, <1>2, <2>1 DEF TypeOK
  <2>3. /\ broken' = broken /\ stale' = stale
        /\ \/ End(p)
           \/ Goto(p, "write") /\ ~call[p].orphan /\ call[p].op # "resendChain"
    BY <1>2, <2>1 DEF Accepted, histVars
  <2>4. \/ End(p)
        \/ \E step \in {"open", "write"} :
                /\ call' = [call EXCEPT ![p] = [@ EXCEPT !.step = step]]
                /\ step = "write" => ~call[p].orphan /\ call[p].op # "resendChain"
    BY <2>3 DEF Goto
  <2> QED
    BY <1>2, <2>2, <2>3, <2>4, ChainStep
<1> QED
  BY <1>3, <1>4

(* A chain is shut.                                                        *)
LEMMA ShutChainStep ==
  ASSUME CallInv, NEW p \in Procs, ShutChain(p)
  PROVE  CallInv'
<1>1. ShapeOf(p, call[p]) /\ TypeOK
  BY DEF CallInv, Shapes
<1>2. /\ call[p].step = "shut" /\ agent /\ left' = left
      /\ call[p].op \in {"addChain", "delChain", "resendChain"} /\ call[p].id \in ChainPorts
      /\ UNCHANGED <<gost, tcp, udp, hops, native, agent, boot, rules, chains, relay, left>>
  BY <1>1 DEF ShutChain, Asks, ShapeOf, agentVars, rowVars
<1>3. CASE call[p].id \notin tls
  <2>1. Failed(p, "notFound") /\ UNCHANGED tls
    BY <1>3 DEF ShutChain
  <2>2. Answer(p, "notFound") /\ UNCHANGED <<gostVars, native, agent, boot, rowVars, relay>>
    BY <1>2, <2>1 DEF Answer, gostVars, agentVars, rowVars
  <2> QED
    BY <1>1, <1>2, <2>1, <2>2, FailedStep DEF TypeOK
<1>4. CASE call[p].id \in tls
  <2>1. /\ tls' = tls \ {call[p].id}
        /\ IF call[p].op = "resendChain" THEN Goto(p, "open") /\ UNCHANGED histVars ELSE Accepted(p)
    BY <1>4 DEF ShutChain
  <2>2. tls' \subseteq ChainPorts /\ native' \subseteq ChainPorts
    BY <1>1, <1>2, <2>1 DEF TypeOK
  <2>3. /\ broken' = broken /\ stale' = stale
        /\ \/ End(p)
           \/ Goto(p, "open")
           \/ Goto(p, "write") /\ ~call[p].orphan /\ call[p].op # "resendChain"
    BY <1>2, <2>1 DEF Accepted, histVars
  <2>4. \/ End(p)
        \/ \E step \in {"open", "write"} :
                /\ call' = [call EXCEPT ![p] = [@ EXCEPT !.step = step]]
                /\ step = "write" => ~call[p].orphan /\ call[p].op # "resendChain"
    BY <2>3 DEF Goto
  <2> QED
    BY <1>2, <2>2, <2>3, <2>4, ChainStep
<1> QED
  BY <1>3, <1>4

(* Nobody has answered.                                                    *)
LEMMA UnreachedStep ==
  ASSUME CallInv, NEW p \in Procs, Unreached(p)
  PROVE  CallInv'
<1>1. ShapeOf(p, call[p]) /\ TypeOK
  BY DEF CallInv, Shapes
<1>2. call[p].step \in Steps \ {"write"}
  BY <1>1 DEF Unreached, ShapeOf, Steps
<1>3. Answer(p, "refused")
  BY <1>2 DEF Unreached, Answer, Steps, agentVars
<1> QED
  BY <1>1, <1>3, FailedStep DEF Unreached, TypeOK, agentVars

(* What an addition that fails leaves is history.                          *)
LEMMA AddFailsStep ==
  ASSUME CallInv, NEW p \in Procs, AddFails(p)
  PROVE  CallInv'
<1>1. ShapeOf(p, call[p]) /\ TypeOK /\ PortsOf(call[p]) \subseteq Ports
  BY AtFacts DEF CallInv, Shapes
<1>2. /\ call[p].step \in {"tcp", "udp"} /\ agent /\ gost
      /\ call[p].row \in Rows /\ call[p].row # None /\ call[p].row.port \in Ports
      /\ ServiceOf(call[p].row) \in Services
      /\ broken' = broken \cup PortsOf(call[p])
      /\ UNCHANGED <<gost, hops, tls, native, agent, boot, rules, chains, relay, stale>>
  BY <1>1, RowFacts DEF AddFails, ShapeOf, agentVars, rowVars
<1>3. left' \in Allowances
  BY <1>1 DEF AddFails, Spend, TypeOK, Allowances
<1>4. PICK err \in {"exists", "lost"} : call' = [call EXCEPT ![p] = AfterError(@, err)]
  BY <1>1 DEF AddFails, TypeOK
<1>5. /\ call' \in [Procs -> Calls] /\ Moved(p) /\ ShapeOf(p, call'[p])
      /\ call'[p].orphan => call'[p].step # "write"
      /\ \/ call'[p] = NoCall
         \/ /\ call'[p].step \in {"hop", "tcp"}
            /\ call'[p].step = "tcp" => HasHop(ServiceOf(call[p].row))
         \/ call'[p].step \in {"write", "delTcp", "open", "shut"}
      /\ call'[p] # NoCall =>
             /\ call'[p].op = call[p].op /\ call'[p].id = call[p].id
             /\ call'[p].row = call[p].row /\ call'[p].old = call[p].old
             /\ call'[p].alone = call[p].alone
             /\ PortsOf(call'[p]) = PortsOf(call[p])
  BY <1>4, AfterFacts
<1>6. udp' = udp /\ tcp' \in [Ports -> Services \cup {None}]
      /\ \A port \in Ports : port # call[p].row.port => tcp'[port] = tcp[port]
  BY <1>1, <1>2 DEF AddFails, TypeOK
<1>7. TypeOK'
  BY <1>1, <1>2, <1>3, <1>5, <1>6 DEF TypeOK
<1>8. Down'
  BY <1>2 DEF Down
<1>9. p \in RuleIds => ResentAt(p)'
  <2>1. CASE call'[p] = NoCall
    BY <2>1 DEF ResentAt, NoCall
  <2>2. CASE call'[p] # NoCall
    <3>1. p \in RuleIds => ResentAt(p)
      BY DEF CallInv, Resent
    <3>2. HasHop(ServiceOf(call[p].row)) => HasHop(ServiceOf(call[p].row))'
      BY <1>2, <1>5, <2>2 DEF HasHop
    <3> QED
      BY <1>2, <1>5, <2>2, <3>1, <3>2 DEF ResentAt, RulesOn
  <2> QED
    BY <2>1, <2>2
<1>10. call[p].row.port \in PortsOf(call[p])
  BY <1>2, PortsFacts
<1>11. \A port \in Ports \ PortsOf(call[p]) : tcp'[port] = tcp[port] /\ udp'[port] = udp[port]
  BY <1>6, <1>10
<1> QED
  BY <1>2, <1>5, <1>7, <1>8, <1>9, <1>11, PlainStep

(* A row that could not be written is history.                             *)
LEMMA WriteFailsStep ==
  ASSUME CallInv, NEW p \in Procs, WriteFails(p)
  PROVE  CallInv'
<1>1. ShapeOf(p, call[p]) /\ TypeOK /\ PortsOf(call[p]) \subseteq Ports
  BY AtFacts DEF CallInv, Shapes
<1>2. /\ call[p].step = "write" /\ End(p) /\ stale' = stale \cup PortsOf(call[p])
      /\ UNCHANGED <<gost, tcp, udp, hops, tls, native, agent, boot, rules, chains, relay, broken>>
      /\ left' \in Allowances
  BY <1>1 DEF WriteFails, gostVars, agentVars, rowVars, Spend, TypeOK, Allowances
<1>3. /\ call' \in [Procs -> Calls] /\ Moved(p) /\ call'[p] = NoCall
      /\ ShapeOf(p, call'[p]) /\ (p \in RuleIds => ResentAt(p)')
      /\ \A port : ~At(p, port)'
  BY <1>1, <1>2, EndFacts
<1>4. call'[p].orphan => call'[p].step # "write"
  BY <1>3 DEF NoCall
<1>5. TypeOK'
  BY <1>1, <1>2, <1>3 DEF TypeOK
<1>6. Down'
  <2>1. \A q \in Procs : call'[q] = call[q] \/ (call'[q] = NoCall /\ q = p)
    BY <1>3 DEF Moved
  <2>2. NoCall.step = "none" /\ PortsOf(NoCall) = {}
    BY PortsFacts DEF NoCall
  <2>3. \A port : Empty(port)' = Empty(port)
    BY <1>2 DEF Empty
  <2> QED
    BY <1>2, <2>1, <2>2, <2>3 DEF CallInv, Down
<1>7. ASSUME NEW port \in PortsOf(call[p]), port \notin broken
      PROVE  tcp'[port] = udp'[port]
  BY <1>2, <1>7, OwnPort DEF HalfKept
<1> QED
  BY <1>2, <1>3, <1>4, <1>5, <1>6, <1>7, PlainStep

(* A call ends, and what it was about is right or history.                 *)
LEMMA WriteStep ==
  ASSUME CallInv, NEW p \in Procs, Write(p)
  PROVE  CallInv'
<1>1. ShapeOf(p, call[p]) /\ TypeOK /\ PortsOf(call[p]) \subseteq Ports
  BY AtFacts DEF CallInv, Shapes
<1>2. /\ call[p].step = "write" /\ End(p) /\ p \in Requests
      /\ UNCHANGED <<gost, tcp, udp, hops, tls, native, agent, boot, relay, left, broken>>
  BY <1>1 DEF Write, gostVars, agentVars, ShapeOf
<1>3. /\ call' \in [Procs -> Calls] /\ Moved(p) /\ call'[p] = NoCall
      /\ ShapeOf(p, call'[p]) /\ (p \in RuleIds => ResentAt(p)')
      /\ \A port : ~At(p, port)'
  BY <1>1, <1>2, EndFacts
<1>4. call'[p].orphan => call'[p].step # "write"
  BY <1>3 DEF NoCall
<1>5. ASSUME stale \subseteq stale'
      PROVE  Down'
  <2>1. \A q \in Procs : call'[q] = call[q] \/ (call'[q] = NoCall /\ q = p)
    BY <1>3 DEF Moved
  <2>2. NoCall.step = "none" /\ PortsOf(NoCall) = {}
    BY PortsFacts DEF NoCall
  <2>3. \A port : Empty(port)' = Empty(port)
    BY <1>2 DEF Empty
  <2> QED
    BY <1>2, <1>5, <2>1, <2>2, <2>3 DEF CallInv, Down
<1>6. ASSUME NEW port \in PortsOf(call[p]), port \notin broken
      PROVE  tcp'[port] = udp'[port]
  BY <1>2, <1>6, OwnPort DEF HalfKept
<1>7. \A port : \A svc : Serves(port, svc) => Serves(port, svc)'
  BY <1>2 DEF Serves, HasHop
<1>8. \A port : Empty(port)' = Empty(port)
  BY <1>2 DEF Empty
(* A row that p writes to is at a port of p afterwards.                    *)
<1>9. ASSUME NEW id \in RuleIds, NEW row \in Rows \cup {None},
             rules' = [rules EXCEPT ![id] = row],
             row # None => row.port \in PortsOf(call[p]),
             rules[id] = None \/ rules[id].port \in PortsOf(call[p]) \cup stale',
             stale \subseteq stale', stale' \subseteq Ports, chains' = chains,
             \A port \in PortsOf(call[p]) \ (broken \cup stale') : Fits(port)'
      PROVE  CallInv'
  <2>1. /\ rules' \in [RuleIds -> Rows \cup {None}] /\ rules'[id] = row
        /\ \A i \in RuleIds : i # id => rules'[i] = rules[i]
    BY <1>1, <1>9 DEF TypeOK
  <2>2. TypeOK'
    BY <1>1, <1>2, <1>3, <1>9, <2>1 DEF TypeOK
  <2>3. ASSUME NEW port \in Ports \ PortsOf(call[p]), port \notin broken \cup stale'
        PROVE  RulesOn(port)' = RulesOn(port) /\ \A i \in RulesOn(port) : rules'[i] = rules[i]
    BY <1>9, <2>1, <2>3 DEF RulesOn
  <2>4. ASSUME NEW q \in RuleIds, q # p, call'[q].op = "resendRule", call'[q].alone,
               q \in RulesOn(call[q].row.port)'
        PROVE  rules'[q] = call[q].row
    <3>1. call'[q] = call[q] /\ q \in Procs
      BY <2>4, <1>3 DEF Moved, Procs
    <3>2. At(q, call[q].row.port) /\ call[q].row.port \in Ports
      BY <2>4, <3>1, AtFacts, RowFacts DEF CallInv, Shapes, ShapeOf
    <3>3. ~At(p, call[q].row.port)
      BY <2>4, <3>1, <3>2 DEF CallInv, Lone
    <3>4. rules'[q] # None /\ rules'[q].port = call[q].row.port
      BY <2>4, <3>1 DEF RulesOn
    <3>5. q # id
      BY <3>3, <3>4, <2>1, <1>9 DEF At
    <3>6. rules'[q] = rules[q]
      BY <3>5, <2>1
    <3>7. q \in RulesOn(call[q].row.port)
      BY <3>4, <3>6 DEF RulesOn
    <3> QED
      BY <2>4, <3>1, <3>6, <3>7 DEF CallInv, Resent, ResentAt
  <2>5. \A port \in Ports \ PortsOf(call[p]) : tcp'[port] = tcp[port] /\ udp'[port] = udp[port]
    BY <1>2
  <2>6. Down'
    BY <1>5, <1>9
  <2> QED
    BY <1>2, <1>3, <1>4, <1>6, <1>9, <2>2, <2>3, <2>4, <2>5, <2>6, OwnStep
<1>10. CASE call[p].op = "addRule"
  <2>1. PICK id \in RuleIds : rules[id] = None /\ rules' = [rules EXCEPT ![id] = call[p].row]
    BY <1>10 DEF Write
  <2>2. stale' = stale /\ chains' = chains
    BY <1>10 DEF Write
  <2>3. call[p].row \in Rows /\ call[p].row # None /\ call[p].old = None
    BY <1>1, <1>10, RowFacts DEF ShapeOf
  <2>4. \A port : port \in PortsOf(call[p]) <=> port = call[p].row.port
    BY <2>3, PortsFacts
  <2>5. ASSUME NEW port \in PortsOf(call[p]), port \notin broken \cup stale
        PROVE  Fits(port)'
    <3>1. NewKept(p, port) /\ port = call[p].row.port
      BY <2>4, <2>5, OwnPort
    <3>2. RulesOn(port) = {} /\ Serves(port, ServiceOf(call[p].row))
      BY <3>1, <2>3, <1>2 DEF NewKept
    <3>3. rules' \in [RuleIds -> Rows \cup {None}] /\ rules'[id] = call[p].row
          /\ \A i \in RuleIds : i # id => rules'[i] = rules[i]
      BY <1>1, <2>1, <2>3 DEF TypeOK
    <3>4. RulesOn(port)' = {id}
      BY <3>1, <3>2, <3>3, <2>3 DEF RulesOn
    <3>5. Serves(port, ServiceOf(rules[id]))'
      BY <3>2, <3>3, <1>2 DEF Serves, HasHop
    <3> QED
      BY <3>4, <3>5 DEF Fits
  <2> QED
    BY <1>1, <1>9, <2>1, <2>2, <2>3, <2>4, <2>5 DEF TypeOK
<1>11. CASE call[p].op \in {"modifyRule", "delRule"}
  <2>1. PICK id \in RuleIds : id = call[p].id
    BY <1>1, <1>11 DEF ShapeOf
  <2>2. /\ rules' = [rules EXCEPT ![id] = IF rules[id] = None THEN None ELSE call[p].row]
        /\ stale' = stale \cup {row.port : row \in {Left(call[p])} \ {None, call[p].old}}
        /\ chains' = chains
    BY <1>1, <1>11, <2>1 DEF Write, TypeOK
  <2>3. /\ call[p].old \in Rows /\ call[p].old # None /\ call[p].row # call[p].old
        /\ call[p].row \in Rows \cup {None}
        /\ call[p].op = "delRule" => call[p].row = None
        /\ call[p].op = "modifyRule" => call[p].row \in Rows /\ call[p].row # None
    BY <1>1, <1>11, RowFacts DEF ShapeOf
  <2>4. rules[id] \in Rows \cup {None} /\ rules \in [RuleIds -> Rows \cup {None}]
    BY <1>1 DEF TypeOK
  <2>5. /\ (rules[id] # None /\ rules[id] # call[p].old) => rules[id].port \in stale'
        /\ (rules[id] = None /\ call[p].row # None) => call[p].row.port \in stale'
        /\ stale \subseteq stale' /\ stale' \subseteq Ports
    <3>1. Left(call[p]) \in Rows \cup {None}
      BY <2>1, <2>3, <2>4 DEF Left
    <3> QED
      BY <1>1, <2>1, <2>2, <2>3, <3>1, RowFacts DEF Left, TypeOK
  <2>6. PICK row \in Rows \cup {None} : row = IF rules[id] = None THEN None ELSE call[p].row
    BY <2>3
  <2>7. /\ rules' = [rules EXCEPT ![id] = row]
        /\ row # None => row.port \in PortsOf(call[p])
        /\ rules[id] = None \/ rules[id].port \in PortsOf(call[p]) \cup stale'
    BY <2>2, <2>3, <2>5, <2>6, PortsFacts
  <2>8. ASSUME NEW port \in PortsOf(call[p]), port \notin broken \cup stale'
        PROVE  Fits(port)'
    <3>1. OldKept(p, port) /\ NewKept(p, port)
      BY <2>5, <2>8, OwnPort
    <3>2. /\ rules'[id] = row
          /\ \A i \in RuleIds : i # id => rules'[i] = rules[i]
      BY <2>4, <2>6, <2>7
    <3>3. CASE call[p].row # None /\ call[p].row.port = port
      <4>1. Serves(port, ServiceOf(call[p].row))
        BY <3>1, <3>3, <1>2 DEF NewKept
      <4>2. rules[id] # None
        BY <2>5, <2>8, <3>3
      <4>3. row = call[p].row
        BY <4>2, <2>6
      <4>4. RulesOn(port) \subseteq {id}
        BY <3>1, <3>3, <1>2, <2>1, <2>3 DEF OldKept, NewKept
      <4>5. RulesOn(port)' = {id}
        BY <4>3, <4>4, <3>2, <3>3 DEF RulesOn
      <4>6. Serves(port, ServiceOf(rules[id]))'
        BY <4>1, <4>3, <3>2, <1>2 DEF Serves, HasHop
      <4> QED
        BY <4>5, <4>6 DEF Fits
    <3>4. CASE ~(call[p].row # None /\ call[p].row.port = port)
      <4>1. call[p].old.port = port
        BY <2>8, <3>4, PortsFacts
      <4>2. Empty(port) /\ RulesOn(port) = {id}
        BY <3>1, <3>4, <4>1, <1>2, <2>1, <2>3 DEF OldKept
      <4>3. RulesOn(port)' = {}
        BY <4>2, <3>2, <3>4, <2>6 DEF RulesOn
      <4> QED
        BY <4>2, <4>3, <1>8 DEF Fits
    <3> QED
      BY <3>3, <3>4
  <2> QED
    BY <1>9, <2>2, <2>5, <2>7, <2>8
<1>12. CASE call[p].op \in {"addChain", "delChain"}
  <2>1. /\ chains' = [chains EXCEPT ![call[p].id] = IF call[p].op = "addChain" THEN call[p].typ ELSE "none"]
        /\ rules' = rules /\ stale' = stale
    BY <1>12 DEF Write
  <2>2. chains' \in [ChainPorts -> {"tcp", "tls", "none"}] /\ PortsOf(call[p]) = {}
    BY <1>1, <1>12, <2>1, PortsFacts DEF TypeOK, ShapeOf
  <2>3. TypeOK'
    BY <1>1, <1>2, <1>3, <2>1, <2>2 DEF TypeOK
  <2>4. Down'
    BY <1>5, <2>1
  <2> QED
    BY <1>2, <1>3, <1>4, <2>1, <2>2, <2>3, <2>4, PlainStep
<1> QED
  BY <1>1, <1>2, <1>10, <1>11, <1>12 DEF ShapeOf

-----------------------------------------------------------------------------
(* Calls that begin                                                        *)

(* The calls all, of which those of D begin now, with the history of whom  *)
(* they meet.                                                              *)
Begun(D, all) ==
    /\ call' \in [Procs -> Calls] /\ all \in [Procs -> Calls]
    /\ \A p \in Procs :
           /\ call'[p].op = all[p].op /\ call'[p].step = all[p].step /\ call'[p].id = all[p].id
           /\ call'[p].row = all[p].row /\ call'[p].old = all[p].old /\ call'[p].typ = all[p].typ
           /\ call'[p].orphan = all[p].orphan
           /\ PortsOf(call'[p]) = PortsOf(all[p])
           /\ call'[p].alone => all[p].alone
    /\ broken \subseteq broken' /\ broken' \subseteq Ports
    /\ \A p, q \in Procs : \A port :
           (p # q /\ (p \in D \/ q \in D) /\ port \in PortsOf(all[p]) /\ port \in PortsOf(all[q])) =>
               port \in broken' /\ ~call'[p].alone

(* What Begin says of each call.                                           *)
LEMMA BeginFacts ==
  ASSUME TypeOK, NEW D \in SUBSET Procs, NEW new, DOMAIN new = D, Begin(new),
         NEW all, all = [p \in Procs |-> IF p \in D THEN new[p] ELSE call[p]],
         \A p \in D : new[p] \in Calls,
         \A p \in Procs : PortsOf(all[p]) \subseteq Ports
  PROVE  Begun(D, all)
<1> DEFINE Meets(p) == \E q \in Procs \ {p} :
                        /\ PortsOf(all[p]) \cap PortsOf(all[q]) # {}
                        /\ {p, q} \cap D # {}
           meeting == {p \in Procs : Meets(p)}
<1>1. /\ call' = [p \in Procs |-> IF p \in meeting THEN [all[p] EXCEPT !.alone = FALSE] ELSE all[p]]
      /\ broken' = broken \cup UNION {PortsOf(all[p]) : p \in meeting}
  BY Zenon DEF Begin
<1>2. all \in [Procs -> Calls]
  BY DEF TypeOK
<1>3. ASSUME NEW c \in Calls
      PROVE  LET d == [c EXCEPT !.alone = FALSE]
             IN  /\ d \in Calls /\ d.op = c.op /\ d.step = c.step /\ d.id = c.id
                 /\ d.row = c.row /\ d.old = c.old /\ d.typ = c.typ /\ d.orphan = c.orphan
                 /\ PortsOf(d) = PortsOf(c) /\ d.alone = FALSE
  BY DEF Calls, PortsOf
<1>4. \A p \in Procs : call'[p] = all[p] \/ call'[p] = [all[p] EXCEPT !.alone = FALSE]
  BY <1>1
<1>5. \A p \in Procs : all[p] \in Calls
  BY <1>2
<1>6. \A p \in Procs :
        /\ call'[p] \in Calls
        /\ call'[p].op = all[p].op /\ call'[p].step = all[p].step /\ call'[p].id = all[p].id
        /\ call'[p].row = all[p].row /\ call'[p].old = all[p].old /\ call'[p].typ = all[p].typ
        /\ call'[p].orphan = all[p].orphan
        /\ PortsOf(call'[p]) = PortsOf(all[p])
        /\ call'[p].alone => all[p].alone
  <2>1. SUFFICES ASSUME NEW p \in Procs
                 PROVE  /\ call'[p] \in Calls
                        /\ call'[p].op = all[p].op /\ call'[p].step = all[p].step /\ call'[p].id = all[p].id
                        /\ call'[p].row = all[p].row /\ call'[p].old = all[p].old /\ call'[p].typ = all[p].typ
                        /\ call'[p].orphan = all[p].orphan
                        /\ PortsOf(call'[p]) = PortsOf(all[p])
                        /\ call'[p].alone => all[p].alone
    OBVIOUS
  <2>2. CASE call'[p] = all[p]
    BY <1>5, <2>2
  <2>3. CASE call'[p] = [all[p] EXCEPT !.alone = FALSE]
    <3>1. PICK c \in Calls : c = all[p]
      BY <1>5
    <3>2. call'[p] = [c EXCEPT !.alone = FALSE]
      BY <2>3, <3>1
    <3> QED
      BY <3>1, <3>2, <1>3
  <2> QED
    BY <1>4, <2>2, <2>3
<1>7. call' \in [Procs -> Calls]
  BY <1>1, <1>6
<1>8. broken \subseteq broken' /\ broken' \subseteq Ports
  BY <1>1 DEF TypeOK
<1>9. ASSUME NEW p \in Procs, NEW q \in Procs, NEW port,
             p # q, p \in D \/ q \in D, port \in PortsOf(all[p]), port \in PortsOf(all[q])
      PROVE  port \in broken' /\ ~call'[p].alone
  <2>1. Meets(p)
    BY <1>9
  <2>2. p \in meeting
    BY <2>1
  <2>3. call'[p] = [all[p] EXCEPT !.alone = FALSE] /\ PortsOf(all[p]) \subseteq broken'
    BY <1>1, <2>2
  <2> QED
    BY <1>3, <1>5, <1>9, <2>3
<1> HIDE DEF Meets, meeting
<1> QED
  BY <1>2, <1>6, <1>7, <1>8, <1>9 DEF Begun

(* Calls that begin find their ports as they should be, or meet a call or  *)
(* history there.                                                          *)
LEMMA BeginStep ==
  ASSUME CallInv, NEW D \in SUBSET Procs, NEW new, DOMAIN new = D, Begin(new),
         \A p \in D : /\ ~Active(p)
                      /\ new[p] \in Calls /\ ShapeOf(p, new[p]) /\ ~new[p].orphan
                      /\ new[p].step = "write" => new[p].op = "delRule" /\ PortsOf(new[p]) \subseteq stale'
                      /\ new[p].old # None => rules[new[p].id] = new[p].old
                      /\ new[p].old # None => new[p].step \in {"delTcp", "write"} \/
                            (new[p].op = "resendRule" /\ new[p].step \in {"hop", "tcp"})
                      /\ new[p].old = None => new[p].step \in {"hop", "tcp", "open", "shut"}
                      /\ new[p].step = "tcp" => HasHop(ServiceOf(new[p].row))
                      /\ ~agent => \/ new[p].op = "resendRule" /\ new[p].step # "delTcp"
                                   \/ new[p].step = "write",
         \/ D \subseteq Requests /\ relay' = relay
         \/ D \subseteq RuleIds /\ relay = "chains" /\ relay' = "rules",
         UNCHANGED <<gost, tcp, udp, hops, tls, native, agent, boot, rules, chains>>,
         stale \subseteq stale', stale' \subseteq Ports,
         left' \in Allowances
  PROVE  CallInv'
<1>0. PICK all : all = [p \in Procs |-> IF p \in D THEN new[p] ELSE call[p]]
  OBVIOUS
<1>1. TypeOK /\ Shapes
  BY DEF CallInv
<1>4. \A p \in Procs \ D : all[p] = call[p]
  BY <1>0
<1>5. \A p \in D : all[p] = new[p]
  BY <1>0
<1>2. \A p \in Procs : ShapeOf(p, all[p]) /\ PortsOf(all[p]) \subseteq Ports
  <2>1. \A p \in Procs : ShapeOf(p, all[p])
    BY <1>1, <1>4, <1>5 DEF Shapes
  <2>2. ASSUME NEW p \in Procs, NEW port \in PortsOf(all[p])
        PROVE  port \in Ports
    BY <2>1, <2>2, PortsFacts, RowFacts DEF ShapeOf
  <2> QED
    BY <2>1, <2>2
<1>3. /\ call' \in [Procs -> Calls] /\ all \in [Procs -> Calls]
      /\ \A p \in Procs :
             /\ call'[p].op = all[p].op /\ call'[p].step = all[p].step /\ call'[p].id = all[p].id
             /\ call'[p].row = all[p].row /\ call'[p].old = all[p].old /\ call'[p].typ = all[p].typ
             /\ call'[p].orphan = all[p].orphan
             /\ PortsOf(call'[p]) = PortsOf(all[p])
             /\ call'[p].alone => all[p].alone
      /\ broken \subseteq broken' /\ broken' \subseteq Ports
      /\ \A p, q \in Procs : \A port :
             (p # q /\ (p \in D \/ q \in D) /\ port \in PortsOf(all[p]) /\ port \in PortsOf(all[q])) =>
                 port \in broken' /\ ~call'[p].alone
  <2>1. TypeOK
    BY <1>1
  <2>2. \A p \in D : new[p] \in Calls
    OBVIOUS
  <2>3. \A p \in Procs : PortsOf(all[p]) \subseteq Ports
    BY <1>2
  <2>4. Begun(D, all)
    BY <1>0, <2>1, <2>2, <2>3, BeginFacts
  <2> QED
    BY <2>4 DEF Begun
<1>6. \A p \in D : \A port : ~At(p, port)
  <2>1. SUFFICES ASSUME NEW p \in D
                 PROVE  \A port : ~At(p, port)
    OBVIOUS
  <2>2. ShapeOf(p, call[p]) /\ call[p].op = "none"
    BY <1>1 DEF Shapes, Active
  <2> QED
    BY <2>2, PortsFacts DEF At, ShapeOf
<1>7. \A q \in Procs : \A port : At(q, port)' <=> port \in PortsOf(all[q])
  BY <1>3 DEF At
<1>8. \A q \in Procs \ D : \A port : At(q, port)' <=> At(q, port)
  BY <1>4, <1>7 DEF At
<1>9. TypeOK'
  <2>1. relay' \in {"off", "chains", "rules"}
    BY <1>1 DEF TypeOK
  <2> QED
    BY <1>1, <1>3, <2>1 DEF TypeOK
<1>10. Shapes'
  BY <1>2, <1>3 DEF Shapes, ShapeOf
<1>11. Relayed'
  <2>1. \A p \in RuleIds \cup ChainPorts : ~call'[p].orphan
    BY <1>3, <1>4, <1>5 DEF CallInv, Relayed, Procs
  <2>2. \A p \in Procs \ D : Active(p)' <=> Active(p)
    BY <1>3, <1>4 DEF Active
  <2>3. CASE D \subseteq Requests /\ relay' = relay
    <3>1. D \cap (RuleIds \cup ChainPorts) = {}
      BY <2>3, GostAssumption
    <3> QED
      BY <2>1, <2>2, <2>3, <3>1 DEF CallInv, Relayed, Procs
  <2>4. CASE D \subseteq RuleIds /\ relay = "chains" /\ relay' = "rules"
    BY <2>1, <2>2, <2>4 DEF CallInv, Relayed, Procs
  <2> QED
    BY <2>3, <2>4
<1>12. Orphaned'
  BY <1>3, <1>4, <1>5 DEF CallInv, Orphaned, Procs
<1>13. Lone'
  <2>1. SUFFICES ASSUME NEW p \in Procs, NEW q \in Procs, p # q, NEW port \in Ports,
                        At(p, port)', At(q, port)'
                 PROVE  port \in broken' /\ (call'[p].op = "resendRule" => ~call'[p].alone)
    BY <2>1 DEF Lone
  <2>2. CASE p \in D \/ q \in D
    BY <2>1, <2>2, <1>3, <1>7
  <2>3. CASE ~(p \in D \/ q \in D)
    <3>1. port \in broken /\ (call[p].op = "resendRule" => ~call[p].alone)
      BY <2>1, <2>3, <1>8 DEF CallInv, Lone
    <3> QED
      BY <2>3, <3>1, <1>3, <1>4
  <2> QED
    BY <2>2, <2>3
<1>14. Down'
  <2>1. ~gost => \A port \in Ports : Empty(port)'
    BY DEF CallInv, Down, Empty
  <2>2. ASSUME ~agent, NEW p \in Procs
        PROVE  /\ call'[p].step \notin {"udp", "delTcp", "delUdp"}
               /\ call'[p].op # "resendRule" => PortsOf(call'[p]) \subseteq broken' \cup stale'
    <3>1. CASE p \in D
      <4>1. /\ call'[p].step = new[p].step /\ call'[p].op = new[p].op
            /\ PortsOf(call'[p]) = PortsOf(new[p])
        BY <3>1, <1>3, <1>5
      <4> QED
        BY <2>2, <3>1, <4>1
    <3>2. CASE p \notin D
      BY <2>2, <3>2, <1>3, <1>4 DEF CallInv, Down
    <3> QED
      BY <3>1, <3>2
  <2> QED
    BY <2>1, <2>2 DEF Down
<1>15. Resent'
  <2>1. SUFFICES ASSUME NEW p \in RuleIds
                 PROVE  ResentAt(p)'
    BY DEF Resent
  <2>2. p \in Procs
    BY DEF Procs
  <2>3. HasHop(ServiceOf(all[p].row)) => HasHop(ServiceOf(call[p].row))'
    BY <1>3, <2>2 DEF HasHop
  <2>4. CASE p \in D
    <3>1. all[p].op = "resendRule" => all[p].old # None /\ all[p].old = all[p].row /\ all[p].id = p
      BY <1>2, <2>2, RowFacts DEF ShapeOf
    <3> QED
      BY <2>2, <2>3, <2>4, <3>1, <1>3, <1>5 DEF ResentAt
  <2>5. CASE p \notin D
    <3>1. ResentAt(p)
      BY DEF CallInv, Resent
    <3> QED
      BY <2>2, <2>3, <2>5, <3>1, <1>3, <1>4 DEF ResentAt, RulesOn
  <2> QED
    BY <2>4, <2>5
<1>16. ASSUME NEW port \in Ports, \A p \in D : ~At(p, port)'
       PROVE  /\ HalvesAt(port) => HalvesAt(port)'
              /\ ServedAt(port) => ServedAt(port)'
  <2>1. \A q \in Procs : At(q, port)' <=> At(q, port)
    BY <1>6, <1>8, <1>16
  <2>2. \A q \in Procs : At(q, port) =>
            /\ call'[q].op = call[q].op /\ call'[q].step = call[q].step /\ call'[q].id = call[q].id
            /\ call'[q].row = call[q].row /\ call'[q].old = call[q].old
    BY <1>3, <1>4, <1>6
  <2>3. RulesOn(port)' = RulesOn(port)
    BY DEF RulesOn
  <2>4. HalvesAt(port) => HalvesAt(port)'
    BY <2>1, <2>2, ElsewhereHalves
  <2>5. ServedAt(port) => ServedAt(port)'
    BY <2>1, <2>2, <2>3, Elsewhere
  <2> QED
    BY <2>4, <2>5
<1>17. ASSUME NEW port \in Ports, NEW p \in D, At(p, port)', port \notin broken'
       PROVE  Quiet(port) /\ (\A q \in Procs : At(q, port)' => q = p) /\ ~Quiet(port)'
  <2>1. \A q \in Procs : At(q, port)' => q = p
    BY <1>3, <1>7, <1>17
  <2>2. \A q \in Procs : ~At(q, port)
    BY <2>1, <1>6, <1>8
  <2> QED
    BY <2>1, <2>2, <1>17 DEF Quiet, At
<1>18. Halves'
  <2>1. SUFFICES ASSUME NEW port \in Ports, port \notin broken'
                 PROVE  HalvesAt(port)'
    BY DEF Halves
  <2>2. HalvesAt(port)
    BY <1>3, <2>1 DEF CallInv, Halves
  <2>3. CASE \A p \in D : ~At(p, port)'
    BY <2>2, <2>3, <1>16
  <2>4. ASSUME NEW p \in D, At(p, port)'
        PROVE  HalvesAt(port)'
    <3>1. Quiet(port) /\ (\A q \in Procs : At(q, port)' => q = p) /\ ~Quiet(port)'
      BY <2>1, <2>4, <1>17
    <3>2. call'[p].step \notin {"udp", "delUdp"}
      BY <1>3, <1>5
    <3>3. HalfKept(p, port)'
      BY <2>2, <3>1, <3>2 DEF HalvesAt, HalfKept
    <3> QED
      BY <3>1, <3>3 DEF HalvesAt
  <2> QED
    BY <2>3, <2>4
<1>19. Served'
  <2>1. SUFFICES ASSUME NEW port \in Ports, port \notin broken', port \notin stale'
                 PROVE  ServedAt(port)'
    BY DEF Served
  <2>2. ServedAt(port)
    BY <1>3, <2>1 DEF CallInv, Served
  <2>3. CASE \A p \in D : ~At(p, port)'
    BY <2>2, <2>3, <1>16
  <2>4. ASSUME NEW p \in D, At(p, port)'
        PROVE  ServedAt(port)'
    <3>1. Quiet(port) /\ (\A q \in Procs : At(q, port)' => q = p) /\ ~Quiet(port)'
      BY <2>1, <2>4, <1>17
    <3>2. Fits(port)
      BY <2>2, <3>1 DEF ServedAt
    <3>3. /\ Fits(port)'
          /\ \A svc : Serves(port, svc) => Serves(port, svc)'
          /\ RulesOn(port)' = RulesOn(port)
      BY <3>2, FitsMore
    <3>4. /\ call'[p].op = new[p].op /\ call'[p].step = new[p].step /\ call'[p].id = new[p].id
          /\ call'[p].row = new[p].row /\ call'[p].old = new[p].old
      BY <1>3, <1>5
    <3>7. new[p].step # "write"
      BY <2>1, <2>4, <1>3, <1>5 DEF At
    <3>5. OldKept(p, port)'
      <4>1. SUFFICES ASSUME new[p].old # None, new[p].old.port = port
                     PROVE  OldKept(p, port)'
        BY <3>4, <4>1 DEF OldKept
      <4>2. new[p].id \in RuleIds
        BY <4>1 DEF ShapeOf
      <4>3. new[p].id \in RulesOn(port)
        BY <4>1, <4>2 DEF RulesOn
      <4>4. RulesOn(port) = {new[p].id} /\ Serves(port, ServiceOf(rules[new[p].id]))
        BY <4>3, <3>2 DEF Fits
      <4>5. Serves(port, ServiceOf(call[p].old))'
        BY <4>1, <4>4, <3>3, <3>4 DEF Serves, HasHop
      <4> QED
        BY <4>1, <4>4, <4>5, <3>3, <3>4, <3>7 DEF OldKept
    <3>6. NewKept(p, port)'
      <4>1. HasHop(ServiceOf(new[p].row)) => HasHop(ServiceOf(call[p].row))'
        BY <3>4 DEF HasHop
      <4> QED
        BY <4>1, <3>3, <3>4, <3>7 DEF NewKept
    <3> QED
      BY <3>1, <3>5, <3>6 DEF ServedAt
  <2> QED
    BY <2>3, <2>4
<1> QED
  BY <1>9, <1>10, <1>11, <1>12, <1>13, <1>14, <1>15, <1>18, <1>19 DEF CallInv

-----------------------------------------------------------------------------
(* Requests                                                                *)

(* What is spent is left over.                                             *)
LEMMA SpendFacts ==
  ASSUME TypeOK, NEW budget \in {"ops", "chains", "faults", "stops", "relays"}, Spend(budget)
  PROVE  left' \in Allowances
  BY DEF Spend, TypeOK, Allowances

(* A request that begins a call.                                           *)
LEMMA BeginOneStep ==
  ASSUME CallInv, NEW r \in Requests, NEW c \in Calls, ~Active(r), BeginOne(r, c),
         ShapeOf(r, c), ~c.orphan,
         IF c.old = None THEN c.step \in {"hop", "tcp", "open", "shut"}
                         ELSE c.step \in {"delTcp", "write"} /\ rules[c.id] = c.old,
         c.step = "write" => c.op = "delRule" /\ PortsOf(c) \subseteq stale',
         agent \/ c.step = "write",
         c.step = "tcp" => HasHop(ServiceOf(c.row)),
         UNCHANGED <<gost, tcp, udp, hops, tls, native, agent, boot, rules, chains, relay>>,
         stale \subseteq stale', stale' \subseteq Ports,
         left' \in Allowances
  PROVE  CallInv'
<1>1. PICK new : new = [p \in {r} |-> c]
  OBVIOUS
<1>2. DOMAIN new = {r} /\ \A p \in {r} : new[p] = c
  BY <1>1
<1>3. Begin(new)
  BY <1>1 DEF BeginOne
<1>4. {r} \in SUBSET Procs /\ {r} \subseteq Requests
  BY DEF Procs
<1>5. \A p \in {r} : /\ ~Active(p)
                     /\ new[p] \in Calls /\ ShapeOf(p, new[p]) /\ ~new[p].orphan
                     /\ new[p].step = "write" => new[p].op = "delRule" /\ PortsOf(new[p]) \subseteq stale'
                     /\ new[p].old # None => rules[new[p].id] = new[p].old
                     /\ new[p].old # None => new[p].step \in {"delTcp", "write"} \/
                           (new[p].op = "resendRule" /\ new[p].step \in {"hop", "tcp"})
                     /\ new[p].old = None => new[p].step \in {"hop", "tcp", "open", "shut"}
                     /\ new[p].step = "tcp" => HasHop(ServiceOf(new[p].row))
                     /\ ~agent => \/ new[p].op = "resendRule" /\ new[p].step # "delTcp"
                                  \/ new[p].step = "write"
  BY <1>2
<1> HIDE <1>1
<1> QED
  BY <1>2, <1>3, <1>4, <1>5, BeginStep

(* The calls that requests begin.                                          *)
LEMMA NewFacts ==
  ASSUME NEW op \in {"addRule", "delRule", "modifyRule", "resendRule", "addChain", "delChain", "resendChain"},
         NEW id \in RuleIds \cup ChainPorts \cup {None},
         NEW row \in Rows \cup {None}, NEW old \in Rows \cup {None}, NEW typ \in {"tcp", "tls", "none"}
  PROVE  LET c == New(op, id, row, old, typ)
         IN  /\ c \in Calls /\ c.op = op /\ c.id = id /\ c.row = row /\ c.old = old /\ c.typ = typ
             /\ ~c.orphan /\ c.alone
  BY ZenonT(40) DEF New, NoCall, Calls, RuleOps, ChainOps

(* A call that begins to add a row.                                        *)
LEMMA AddingNew ==
  ASSUME NEW c \in Calls, c.row \in Rows
  PROVE  /\ Adding(c) \in Calls /\ Adding(c).step \in {"hop", "tcp"}
         /\ Adding(c).op = c.op /\ Adding(c).id = c.id /\ Adding(c).row = c.row /\ Adding(c).old = c.old
         /\ Adding(c).typ = c.typ /\ Adding(c).orphan = c.orphan /\ Adding(c).alone = c.alone
         /\ Adding(c).step = "hop" => c.row.via \in TlsVias
         /\ Adding(c).step = "tcp" => HasHop(ServiceOf(c.row))
<1>1. CASE c.row.via \in TlsVias
  <2>1. Adding(c) = [c EXCEPT !.step = "hop"]
    BY <1>1 DEF Adding
  <2> QED
    BY <2>1, <1>1 DEF Calls
<1>2. CASE c.row.via \notin TlsVias
  <2>1. Adding(c) = [c EXCEPT !.step = "tcp"]
    BY <1>2 DEF Adding
  <2>2. HasHop(ServiceOf(c.row))
    BY <1>2, RowFacts DEF HasHop
  <2> QED
    BY <2>1, <2>2, <1>2 DEF Calls
<1> QED
  BY <1>1, <1>2

(* AddRule begins with a row that is asked for.                            *)
LEMMA AddRuleStep ==
  ASSUME CallInv, NEW r \in Requests, NEW row \in Asked, AddRule(r, row)
  PROVE  CallInv'
<1>1. /\ ~Active(r) /\ agent /\ Spend("ops")
      /\ BeginOne(r, Adding(New("addRule", None, row, None, "none")))
      /\ UNCHANGED <<gost, tcp, udp, hops, tls, native, agent, boot, rules, chains, relay, stale>>
  BY DEF AddRule, gostVars, agentVars, rowVars
<1>2. row \in Rows /\ row # None
  BY GostAssumption, RowFacts
<1>3. PICK c \in Calls : /\ c = New("addRule", None, row, None, "none")
                         /\ c.op = "addRule" /\ c.row = row /\ c.old = None /\ ~c.orphan
  BY <1>2, NewFacts
<1>4. PICK d \in Calls : /\ d = Adding(c) /\ d.step \in {"hop", "tcp"}
                         /\ d.op = c.op /\ d.row = c.row /\ d.old = c.old /\ d.orphan = c.orphan
                         /\ d.step = "hop" => c.row.via \in TlsVias
                         /\ d.step = "tcp" => HasHop(ServiceOf(d.row))
  BY <1>2, <1>3, AddingNew
<1>5. ShapeOf(r, d)
  BY <1>2, <1>3, <1>4 DEF ShapeOf
<1>6. left' \in Allowances
  BY <1>1, SpendFacts DEF CallInv
<1>7. BeginOne(r, d)
  BY <1>1, <1>3, <1>4
<1>8. stale \subseteq stale' /\ stale' \subseteq Ports
  BY <1>1 DEF CallInv, TypeOK
<1> QED
  BY <1>1, <1>3, <1>4, <1>5, <1>6, <1>7, <1>8, BeginOneStep

(* A call that begins to delete what it has read.                          *)
LEMMA DeletingNew ==
  ASSUME CallInv, NEW op \in {"delRule", "modifyRule"}, NEW r \in Requests, NEW id \in RuleIds,
         NEW row \in Rows \cup {None}, rules[id] # None, row # rules[id],
         IF op = "delRule" THEN row = None ELSE row # None,
         ~Active(r), agent, BeginOne(r, Deleting(New(op, id, row, rules[id], "none"))),
         UNCHANGED <<gost, tcp, udp, hops, tls, native, agent, boot, rules, chains, relay, stale>>,
         left' \in Allowances
  PROVE  CallInv'
<1>1. rules[id] \in Rows
  BY DEF CallInv, TypeOK
<1>2. PICK c \in Calls : /\ c = New(op, id, row, rules[id], "none")
                         /\ c.op = op /\ c.id = id /\ c.row = row /\ c.old = rules[id] /\ ~c.orphan
  BY <1>1, NewFacts
<1>3. PICK d \in Calls : /\ d = Deleting(c) /\ d.step = "delTcp"
                         /\ d.op = c.op /\ d.id = c.id /\ d.row = c.row /\ d.old = c.old
                         /\ d.orphan = c.orphan
  BY <1>2 DEF Deleting, Calls
<1>4. ShapeOf(r, d)
  BY <1>1, <1>2, <1>3 DEF ShapeOf
<1>5. BeginOne(r, d)
  BY <1>2, <1>3
<1>6. stale \subseteq stale' /\ stale' \subseteq Ports
  BY DEF CallInv, TypeOK
<1> QED
  BY <1>2, <1>3, <1>4, <1>5, <1>6, BeginOneStep

(* ModifyRule begins to delete the row that it will replace.               *)
LEMMA ModifyRuleStep ==
  ASSUME CallInv, NEW r \in Requests, NEW id \in RuleIds, NEW row \in Asked, ModifyRule(r, id, row)
  PROVE  CallInv'
<1>1. /\ ~Active(r) /\ agent /\ Spend("ops") /\ rules[id] # None /\ row # rules[id]
      /\ BeginOne(r, Deleting(New("modifyRule", id, row, rules[id], "none")))
      /\ UNCHANGED <<gost, tcp, udp, hops, tls, native, agent, boot, rules, chains, relay, stale>>
  BY DEF ModifyRule, gostVars, agentVars, rowVars
<1>2. row \in Rows /\ row # None
  BY GostAssumption, RowFacts
<1>3. left' \in Allowances
  BY <1>1, SpendFacts DEF CallInv
<1> QED
  BY <1>1, <1>2, <1>3, DeletingNew

(* AddChain and DelChain have no rule ports.                               *)
LEMMA ChainRequestStep ==
  ASSUME CallInv, NEW r \in Requests, NEW port \in ChainPorts, NEW typ \in {"tcp", "tls"},
         AddChain(r, port, typ) \/ DelChain(r, port)
  PROVE  CallInv'
<1>1. PICK op \in {"addChain", "delChain"}, step \in {"open", "shut"}, t \in {"tcp", "tls"} :
        /\ ~Active(r) /\ agent /\ Spend("chains")
        /\ BeginOne(r, [New(op, port, None, None, t) EXCEPT !.step = step])
        /\ UNCHANGED <<gost, tcp, udp, hops, tls, native, agent, boot, rules, chains, relay, stale>>
  <2>1. CASE AddChain(r, port, typ)
    BY <2>1 DEF AddChain, gostVars, agentVars, rowVars
  <2>2. CASE DelChain(r, port)
    <3>1. chains[port] \in {"tcp", "tls"}
      BY <2>2 DEF DelChain, CallInv, TypeOK
    <3> QED
      BY <2>2, <3>1 DEF DelChain, gostVars, agentVars, rowVars
  <2> QED
    BY <2>1, <2>2
<1>2. PICK c \in Calls : /\ c = New(op, port, None, None, t)
                         /\ c.op = op /\ c.id = port /\ c.row = None /\ c.old = None /\ c.typ = t /\ ~c.orphan
  BY NewFacts
<1>3. PICK d \in Calls : /\ d = [c EXCEPT !.step = step] /\ d.step = step
                         /\ d.op = c.op /\ d.id = c.id /\ d.row = c.row /\ d.old = c.old /\ d.typ = c.typ
                         /\ d.orphan = c.orphan
  <2>1. [c EXCEPT !.step = step] \in Calls
    BY DEF Calls
  <2>2. LET e == [c EXCEPT !.step = step]
        IN  /\ e.step = step /\ e.op = c.op /\ e.id = c.id /\ e.row = c.row /\ e.old = c.old
            /\ e.typ = c.typ /\ e.orphan = c.orphan
    BY DEF Calls
  <2> QED
    BY <2>1, <2>2
<1>4. ShapeOf(r, d)
  BY <1>2, <1>3 DEF ShapeOf
<1>5. left' \in Allowances
  BY <1>1, SpendFacts DEF CallInv
<1>6. BeginOne(r, d)
  BY <1>1, <1>2, <1>3
<1>7. stale \subseteq stale' /\ stale' \subseteq Ports
  BY <1>1 DEF CallInv, TypeOK
<1> QED
  BY <1>1, <1>2, <1>3, <1>4, <1>5, <1>6, <1>7, BeginOneStep

(* DelRule begins to delete the row that it has read; when the agent does  *)
(* not serve, the port is history.                                         *)
LEMMA DelRuleStep ==
  ASSUME CallInv, NEW r \in Requests, NEW id \in RuleIds, DelRule(r, id)
  PROVE  CallInv'
<1>1. TypeOK /\ Shapes /\ left' \in Allowances /\ rules[id] \in Rows /\ rules[id] # None
      /\ UNCHANGED <<gost, tcp, udp, hops, tls, native, agent, boot, rules, chains, relay>>
      /\ ~Active(r)
  BY SpendFacts DEF CallInv, DelRule, gostVars, agentVars, rowVars, TypeOK
<1>2. CASE agent
  <2>1. BeginOne(r, Deleting(New("delRule", id, None, rules[id], "none"))) /\ UNCHANGED stale
    BY <1>2 DEF DelRule
  <2> QED
    BY <1>1, <1>2, <2>1, DeletingNew
<1>3. CASE ~agent
  <2>1. PICK c \in Calls : /\ c = New("delRule", id, None, rules[id], "none")
                           /\ c.op = "delRule" /\ c.id = id /\ c.row = None /\ c.old = rules[id]
                           /\ ~c.orphan
    BY <1>1, NewFacts
  <2>2. PICK d \in Calls : /\ d = [c EXCEPT !.step = "write"] /\ d.step = "write"
                           /\ d.op = c.op /\ d.id = c.id /\ d.row = c.row /\ d.old = c.old
                           /\ d.orphan = c.orphan
    <3>1. [c EXCEPT !.step = "write"] \in Calls
      BY DEF Calls
    <3>2. LET e == [c EXCEPT !.step = "write"]
          IN  /\ e.step = "write" /\ e.op = c.op /\ e.id = c.id /\ e.row = c.row /\ e.old = c.old
              /\ e.orphan = c.orphan
      BY DEF Calls
    <3> QED
      BY <3>1, <3>2
  <2>3. BeginOne(r, d) /\ stale' = stale \cup {rules[id].port}
    <3>1. /\ BeginOne(r, [New("delRule", id, None, rules[id], "none") EXCEPT !.step = "write"])
          /\ stale' = stale \cup {rules[id].port}
      BY <1>3, Zenon DEF DelRule
    <3> QED
      BY <2>1, <2>2, <3>1
  <2>4. ShapeOf(r, d)
    BY <1>1, <2>1, <2>2 DEF ShapeOf
  <2>5. PortsOf(d) = {rules[id].port}
    <3>1. d.row = None /\ d.old = rules[id]
      BY <2>1, <2>2
    <3> QED
      BY <1>1, <3>1 DEF PortsOf
  <2>6. stale \subseteq stale' /\ stale' \subseteq Ports /\ PortsOf(d) \subseteq stale'
    BY <1>1, <2>3, <2>5, RowFacts DEF TypeOK
  <2> QED
    BY <1>1, <2>1, <2>2, <2>3, <2>4, <2>6, BeginOneStep
<1> QED
  BY <1>2, <1>3

-----------------------------------------------------------------------------
(* The relay                                                               *)

(* The ports of the requests that have lost their controller are history.  *)
LEMMA ControllerRestartsStep ==
  ASSUME CallInv, ControllerRestarts
  PROVE  CallInv'
<1>1. /\ relay = "off" /\ relay' = "chains" /\ left' \in Allowances /\ TypeOK /\ Shapes
      /\ stale' = stale \cup UNION {PortsOf(call[p]) : p \in Requests}
      /\ UNCHANGED <<gost, tcp, udp, hops, tls, native, agent, boot, rules, chains, broken>>
  BY SpendFacts DEF CallInv, ControllerRestarts, gostVars, agentVars, rowVars
<1>2. \A p \in RuleIds \cup ChainPorts : call[p].op = "none" /\ p \in Procs
  BY <1>1 DEF CallInv, Relayed, Active, Procs
<1>3. \A p \in Procs : call[p] \in Calls /\ ShapeOf(p, call[p])
  BY <1>1 DEF TypeOK, Shapes
<1>4. ASSUME NEW p \in Procs
      PROVE  \/ /\ p \in ChainPorts /\ chains[p] \in {"tcp", "tls"}
                /\ call'[p] = [New("resendChain", p, None, None, chains[p]) EXCEPT !.step = "open"]
             \/ call[p].step = "write" /\ call'[p] = NoCall
             \/ call[p].step # "write" /\ call'[p] = [call[p] EXCEPT !.orphan = Active(p)]
  <2> DEFINE sent == [port \in {c \in ChainPorts : chains[c] # "none"} |->
                       [New("resendChain", port, None, None, chains[port]) EXCEPT !.step = "open"]]
  <2>1. call' = [q \in Procs |-> CASE q \in DOMAIN sent -> sent[q]
                                   [] call[q].step = "write" -> NoCall
                                   [] OTHER -> [call[q] EXCEPT !.orphan = Active(q)]]
    BY Zenon DEF ControllerRestarts
  <2>2. p \in DOMAIN sent => /\ p \in ChainPorts /\ chains[p] # "none"
                             /\ sent[p] = [New("resendChain", p, None, None, chains[p]) EXCEPT !.step = "open"]
    OBVIOUS
  <2> HIDE DEF sent
  <2>3. CASE p \in DOMAIN sent
    <3>0. call[p].step # "write"
      BY <1>2, <1>3, <2>2, <2>3 DEF ShapeOf
    <3>1. call'[p] = sent[p]
      BY <2>1, <2>3, <3>0
    <3>2. chains[p] \in {"tcp", "tls"}
      BY <1>1, <2>2, <2>3 DEF TypeOK
    <3> QED
      BY <2>2, <2>3, <3>1, <3>2
  <2>4. CASE p \notin DOMAIN sent /\ call[p].step = "write"
    BY <2>1, <2>4
  <2>5. CASE p \notin DOMAIN sent /\ call[p].step # "write"
    BY <2>1, <2>5
  <2> QED
    BY <2>3, <2>4, <2>5
<1>5. ASSUME NEW p \in Procs
      PROVE  /\ call'[p] \in Calls /\ ShapeOf(p, call'[p])
             /\ call'[p].op # "resendRule"
             /\ p \in RuleIds \cup ChainPorts => ~call'[p].orphan
             /\ p \in RuleIds => call'[p].op = "none"
             /\ call'[p].step # "write"
             /\ \A port : At(p, port)' => At(p, port)
             /\ (\A port : ~At(p, port)')
                \/ /\ call'[p].op = call[p].op /\ call'[p].step = call[p].step
                   /\ call'[p].id = call[p].id
                   /\ call'[p].row = call[p].row /\ call'[p].old = call[p].old
             /\ call'[p].step \in {"udp", "delTcp", "delUdp"} => call[p].step = call'[p].step
             /\ \A port : (At(p, port) /\ ~At(p, port)') => call[p].step = "write"
  <2>1. CASE /\ p \in ChainPorts /\ chains[p] \in {"tcp", "tls"}
             /\ call'[p] = [New("resendChain", p, None, None, chains[p]) EXCEPT !.step = "open"]
    <3>1. PICK t \in {"tcp", "tls"} : t = chains[p]
      BY <2>1
    <3>2. PICK c \in Calls : /\ c = New("resendChain", p, None, None, t)
                             /\ c.op = "resendChain" /\ c.id = p /\ c.row = None /\ c.old = None
                             /\ c.typ = t /\ ~c.orphan
      BY <2>1, NewFacts
    <3>3. PICK d \in Calls : /\ d = [c EXCEPT !.step = "open"] /\ d.step = "open"
                             /\ d.op = c.op /\ d.id = c.id /\ d.row = c.row /\ d.old = c.old
                             /\ d.typ = c.typ /\ d.orphan = c.orphan /\ PortsOf(d) = {}
      <4>1. [c EXCEPT !.step = "open"] \in Calls
        BY DEF Calls
      <4>2. LET e == [c EXCEPT !.step = "open"]
            IN  /\ e.step = "open" /\ e.op = c.op /\ e.id = c.id /\ e.row = c.row /\ e.old = c.old
                /\ e.typ = c.typ /\ e.orphan = c.orphan
        BY DEF Calls
      <4>3. PortsOf([c EXCEPT !.step = "open"]) = {}
        BY <3>2, <4>2 DEF PortsOf
      <4> QED
        BY <4>1, <4>2, <4>3
    <3>4. call'[p] = d
      BY <2>1, <3>1, <3>2, <3>3
    <3>5. ShapeOf(p, d)
      BY <2>1, <3>2, <3>3 DEF ShapeOf
    <3>6. \A port : ~At(p, port)'
      BY <3>3, <3>4 DEF At
    <3>7. \A port : ~At(p, port)
      BY <1>2, <1>3, <2>1, PortsFacts DEF At, ShapeOf
    <3>8. p \notin RuleIds
      BY <2>1, GostAssumption
    <3> QED
      BY <3>2, <3>3, <3>4, <3>5, <3>6, <3>7, <3>8
  <2>2. CASE call[p].step = "write" /\ call'[p] = NoCall
    <3>1. \A port : ~At(p, port)'
      BY <2>2, PortsFacts DEF At
    <3>2. NoCall.op = "none" /\ NoCall.orphan = FALSE /\ NoCall.step = "none"
      BY DEF NoCall
    <3> QED
      BY <2>2, <3>1, <3>2, NoCallType
  <2>3. CASE call[p].step # "write" /\ call'[p] = [call[p] EXCEPT !.orphan = Active(p)]
    <3>1. PICK c \in Calls : c = call[p]
      BY <1>3
    <3>2. PICK o \in BOOLEAN : o = Active(p)
      BY DEF Active
    <3>3. PICK d \in Calls : /\ d = [c EXCEPT !.orphan = o] /\ d.orphan = o /\ d.step = c.step
                             /\ d.op = c.op /\ d.id = c.id /\ d.row = c.row /\ d.old = c.old
                             /\ d.typ = c.typ /\ PortsOf(d) = PortsOf(c)
      <4>1. [c EXCEPT !.orphan = o] \in Calls
        BY DEF Calls
      <4>2. LET e == [c EXCEPT !.orphan = o]
            IN  /\ e.orphan = o /\ e.step = c.step /\ e.op = c.op /\ e.id = c.id /\ e.row = c.row
                /\ e.old = c.old /\ e.typ = c.typ
        BY DEF Calls
      <4>3. PortsOf([c EXCEPT !.orphan = o]) = PortsOf(c)
        BY <4>2 DEF PortsOf
      <4> QED
        BY <4>1, <4>2, <4>3
    <3>4. call'[p] = d
      BY <2>3, <3>1, <3>2, <3>3
    <3>5. ShapeOf(p, d)
      BY <1>3, <3>1, <3>3 DEF ShapeOf
    <3>6. \A port : At(p, port)' <=> At(p, port)
      BY <3>1, <3>3, <3>4 DEF At
    <3>7. d.op # "resendRule"
      BY <1>2, <3>1, <3>3, <3>5, RowFacts DEF ShapeOf
    <3>8. p \in RuleIds \cup ChainPorts => ~o
      BY <1>2, <3>2 DEF Active
    <3> QED
      BY <1>2, <2>3, <3>1, <3>3, <3>4, <3>5, <3>6, <3>7, <3>8
  <2> QED
    BY <1>4, <2>1, <2>2, <2>3
<1>6. call' = [p \in Procs |-> call'[p]]
  BY DEF ControllerRestarts
<1>7. TypeOK'
  <2>1. \A p \in Requests : PortsOf(call[p]) \subseteq Ports
    BY <1>1, AtFacts DEF Procs
  <2>2. stale' \subseteq Ports
    BY <1>1, <2>1 DEF TypeOK
  <2>3. call' \in [Procs -> Calls]
    BY <1>5, <1>6
  <2> QED
    BY <1>1, <2>2, <2>3 DEF TypeOK
<1>8. Shapes'
  BY <1>5 DEF Shapes
<1>9. Relayed'
  BY <1>1, <1>2, <1>5 DEF Relayed, Active
<1>10. Orphaned'
  <2>1. ASSUME NEW p \in Requests, NEW port \in PortsOf(call'[p])
        PROVE  port \in stale'
    <3>1. p \in Procs
      BY DEF Procs
    <3>2. port \in PortsOf(call[p])
      BY <2>1, <3>1, <1>5 DEF At
    <3> QED
      BY <1>1, <3>2
  <2> QED
    BY <1>5, <2>1 DEF Orphaned, Procs
<1>11. Lone'
  BY <1>1, <1>5 DEF CallInv, Lone
<1>12. Down'
  <2>1. ASSUME ~agent, NEW p \in Procs
        PROVE  /\ call'[p].step \notin {"udp", "delTcp", "delUdp"}
               /\ call'[p].op # "resendRule" => PortsOf(call'[p]) \subseteq broken \cup stale'
    <3>1. call[p].op # "resendRule"
      BY <1>2, <1>3 DEF ShapeOf
    <3>2. PortsOf(call[p]) \subseteq broken \cup stale /\ call[p].step \notin {"udp", "delTcp", "delUdp"}
      BY <2>1, <3>1 DEF CallInv, Down
    <3> QED
      BY <3>2, <1>1, <1>5 DEF At
  <2>2. \A port : Empty(port)' = Empty(port)
    BY <1>1 DEF Empty
  <2> QED
    BY <1>1, <2>1, <2>2 DEF CallInv, Down
<1>13. Resent'
  BY <1>2, <1>5 DEF Resent, ResentAt
<1>14. Halves'
  <2>1. SUFFICES ASSUME NEW port \in Ports, port \notin broken
                 PROVE  HalvesAt(port)'
    BY <1>1 DEF Halves
  <2>2. HalvesAt(port)
    BY <2>1 DEF CallInv, Halves
  <2>3. ASSUME NEW p \in Procs, At(p, port)'
        PROVE  HalfKept(p, port)'
    BY <2>2, <2>3, <1>1, <1>5 DEF HalvesAt, HalfKept
  <2>4. ASSUME Quiet(port)'
        PROVE  tcp'[port] = udp'[port]
    <3>1. CASE Quiet(port)
      BY <2>2, <3>1, <1>1 DEF HalvesAt
    <3>2. CASE ~Quiet(port)
      <4>1. PICK p \in Procs : At(p, port)
        BY <3>2 DEF Quiet, At
      <4>2. ~At(p, port)'
        BY <2>4 DEF Quiet, At
      <4>3. call[p].step = "write"
        BY <4>1, <4>2, <1>5
      <4> QED
        BY <4>1, <4>3, <2>2, <1>1 DEF HalvesAt, HalfKept
    <3> QED
      BY <3>1, <3>2
  <2> QED
    BY <2>3, <2>4 DEF HalvesAt
<1>15. Served'
  <2>1. SUFFICES ASSUME NEW port \in Ports, port \notin broken, port \notin stale'
                 PROVE  ServedAt(port)'
    BY <1>1 DEF Served
  <2>2. ASSUME NEW p \in Procs
        PROVE  ~At(p, port)
    <3>1. CASE p \in Requests
      BY <2>1, <3>1, <1>1 DEF At
    <3>2. CASE p \in RuleIds \cup ChainPorts
      BY <3>2, <1>2, <1>3, PortsFacts DEF At, ShapeOf
    <3> QED
      BY <3>1, <3>2 DEF Procs
  <2>3. \A p \in Procs : ~At(p, port)'
    BY <2>2, <1>5
  <2>4. Fits(port)
    BY <2>1, <2>2, <1>1 DEF CallInv, Served, ServedAt, Quiet, At
  <2>5. RulesOn(port)' = RulesOn(port)
    BY <1>1 DEF RulesOn
  <2>6. Fits(port)'
    BY <2>2, <2>3, <2>4, <2>5, <1>1, Elsewhere
  <2> QED
    BY <2>3, <2>6 DEF ServedAt
<1> QED
  BY <1>7, <1>8, <1>9, <1>10, <1>11, <1>12, <1>13, <1>14, <1>15 DEF CallInv

(* The relay sends every row as it reads it.                               *)
LEMMA RelayRulesStep ==
  ASSUME CallInv, RelayRules
  PROVE  CallInv'
<1>1. PICK D \in SUBSET RuleIds : D = {i \in RuleIds : rules[i] # None}
  OBVIOUS
<1>2. PICK new : new = [id \in D |-> Adding(New("resendRule", id, rules[id], rules[id], "none"))]
  OBVIOUS
<1>3. /\ relay = "chains" /\ relay' = "rules" /\ Begin(new)
      /\ UNCHANGED <<gost, tcp, udp, hops, tls, native, agent, boot, rules, chains, left, stale>>
  BY <1>1, <1>2 DEF RelayRules, gostVars, agentVars, rowVars
<1>4. DOMAIN new = D /\ \A id \in D : new[id] = Adding(New("resendRule", id, rules[id], rules[id], "none"))
  BY <1>2
<1>5. D \in SUBSET Procs
  BY DEF Procs
<1>6. ASSUME NEW p \in D
      PROVE  /\ ~Active(p)
             /\ new[p] \in Calls /\ ShapeOf(p, new[p]) /\ ~new[p].orphan
             /\ new[p].step = "write" => new[p].op = "delRule" /\ PortsOf(new[p]) \subseteq stale'
             /\ new[p].old # None => rules[new[p].id] = new[p].old
             /\ new[p].old # None => new[p].step \in {"delTcp", "write"} \/
                   (new[p].op = "resendRule" /\ new[p].step \in {"hop", "tcp"})
             /\ new[p].old = None => new[p].step \in {"hop", "tcp", "open", "shut"}
             /\ new[p].step = "tcp" => HasHop(ServiceOf(new[p].row))
             /\ ~agent => \/ new[p].op = "resendRule" /\ new[p].step # "delTcp"
                          \/ new[p].step = "write"
  <2>1. p \in RuleIds /\ rules[p] \in Rows /\ rules[p] # None
    BY <1>1 DEF CallInv, TypeOK
  <2>2. PICK c \in Calls : /\ c = New("resendRule", p, rules[p], rules[p], "none")
                           /\ c.op = "resendRule" /\ c.id = p /\ c.row = rules[p] /\ c.old = rules[p]
                           /\ ~c.orphan
    BY <2>1, NewFacts
  <2>3. PICK d \in Calls : /\ d = Adding(c) /\ d.step \in {"hop", "tcp"}
                           /\ d.op = c.op /\ d.id = c.id /\ d.row = c.row /\ d.old = c.old
                           /\ d.orphan = c.orphan
                           /\ d.step = "hop" => c.row.via \in TlsVias
                           /\ d.step = "tcp" => HasHop(ServiceOf(d.row))
    BY <2>1, <2>2, AddingNew
  <2>4. new[p] = d
    BY <1>4, <2>2, <2>3
  <2>5. ShapeOf(p, d)
    BY <2>1, <2>2, <2>3 DEF ShapeOf
  <2>6. ~Active(p)
    BY <2>1, <1>3 DEF CallInv, Relayed
  <2> QED
    BY <2>1, <2>2, <2>3, <2>4, <2>5, <2>6
<1>7. left' \in Allowances /\ stale \subseteq stale' /\ stale' \subseteq Ports
  BY <1>3 DEF CallInv, TypeOK
<1> HIDE <1>1, <1>2
<1> QED
  BY <1>3, <1>4, <1>5, <1>6, <1>7, BeginStep

-----------------------------------------------------------------------------
(* Processes                                                               *)

(* The ports of the calls that the agent handled are history.              *)
LEMMA AgentStopsStep ==
  ASSUME CallInv, AgentStops
  PROVE  CallInv'
<1> DEFINE cut(p) == Active(p) /\ call[p].step # "write"
<1>1. /\ agent /\ agent' = FALSE /\ native' = {} /\ left' \in Allowances /\ TypeOK /\ Shapes
      /\ stale' = stale \cup UNION {PortsOf(call[p]) : p \in Procs}
      /\ UNCHANGED <<gost, tcp, udp, hops, tls, boot, rules, chains, relay>>
  BY SpendFacts DEF CallInv, AgentStops, gostVars, agentVars, rowVars
<1>2. broken' = broken \cup UNION {PortsOf(call[p]) : p \in {q \in Procs : cut(q)}}
  BY DEF AgentStops
<1>3. \A p \in Procs : call[p] \in Calls /\ ShapeOf(p, call[p])
  BY <1>1 DEF TypeOK, Shapes
<1>4. ASSUME NEW p \in Procs
      PROVE  \/ ~cut(p) /\ call'[p] = call[p]
             \/ cut(p) /\ call[p].op = "resendRule" /\ call'[p] = Adding(call[p])
             \/ cut(p) /\ call[p].op = "resendChain" /\ call'[p] = [call[p] EXCEPT !.step = "open"]
             \/ cut(p) /\ call'[p] = NoCall
  <2>1. PICK C \in SUBSET Procs : C = {q \in Procs : cut(q)}
    OBVIOUS
  <2>2. call' = [q \in Procs |->
                   CASE q \notin C -> call[q]
                     [] q \in C /\ call[q].op = "resendRule" /\ ~call[q].orphan -> Adding(call[q])
                     [] q \in C /\ call[q].op = "resendChain" -> [call[q] EXCEPT !.step = "open"]
                     [] OTHER -> NoCall]
    BY <2>1 DEF AgentStops
  <2>3. p \in C <=> cut(p)
    BY <2>1
  <2> HIDE DEF cut
  <2>4. CASE p \notin C
    BY <2>2, <2>3, <2>4
  <2>5. CASE p \in C /\ call[p].op = "resendRule" /\ ~call[p].orphan
    BY <2>2, <2>3, <2>5
  <2>6. CASE p \in C /\ call[p].op = "resendChain"
    BY <2>2, <2>3, <2>6
  <2>7. CASE p \in C /\ call[p].op # "resendChain" /\ ~(call[p].op = "resendRule" /\ ~call[p].orphan)
    BY <2>2, <2>3, <2>7
  <2> QED
    BY <2>4, <2>5, <2>6, <2>7
<1>5. ASSUME NEW p \in Procs
      PROVE  /\ call'[p] \in Calls /\ ShapeOf(p, call'[p])
             /\ call'[p].step \notin {"udp", "delTcp", "delUdp"}
             /\ call'[p].step = "write" => call'[p] = call[p]
             /\ call'[p].orphan => call[p].orphan
             /\ Active(p)' => Active(p)
             /\ \A port : At(p, port)' => At(p, port)
             /\ ~cut(p) => call'[p] = call[p]
             /\ call'[p].op = "resendRule" =>
                   /\ call[p].op = "resendRule" /\ call'[p].row = call[p].row
                   /\ call'[p].alone = call[p].alone
                   /\ call'[p].step = "tcp" => HasHop(ServiceOf(call[p].row))
  <2>1. CASE ~cut(p) /\ call'[p] = call[p]
    <3>1. call[p].step \in {"none", "write"} /\ call[p].op # "resendRule"
      BY <1>3, <2>1, RowFacts DEF ShapeOf, Active
    <3> QED
      BY <1>3, <2>1, <3>1 DEF Active, At
  <2>2. CASE cut(p) /\ call[p].op = "resendRule" /\ call'[p] = Adding(call[p])
    <3>1. PICK c \in Calls : c = call[p]
      BY <1>3
    <3>2. c.row \in Rows
      BY <1>3, <2>2, <3>1 DEF ShapeOf
    <3>3. PICK d \in Calls : /\ d = Adding(c) /\ d.step \in {"hop", "tcp"}
                             /\ d.op = c.op /\ d.id = c.id /\ d.row = c.row /\ d.old = c.old
                             /\ d.orphan = c.orphan /\ d.alone = c.alone
                             /\ d.step = "hop" => c.row.via \in TlsVias
                             /\ d.step = "tcp" => HasHop(ServiceOf(c.row))
      BY <3>2, AddingNew
    <3>4. ShapeOf(p, d)
      BY <1>3, <2>2, <3>1, <3>2, <3>3 DEF ShapeOf
    <3>5. PortsOf(d) = PortsOf(c)
      BY <3>3 DEF PortsOf
    <3> QED
      BY <2>2, <3>1, <3>3, <3>4, <3>5 DEF Active, At
  <2>3. CASE cut(p) /\ call[p].op = "resendChain" /\ call'[p] = [call[p] EXCEPT !.step = "open"]
    <3>1. PICK c \in Calls : c = call[p]
      BY <1>3
    <3>2. PICK d \in Calls : /\ d = [c EXCEPT !.step = "open"] /\ d.step = "open"
                             /\ d.op = c.op /\ d.id = c.id /\ d.row = c.row /\ d.old = c.old
                             /\ d.typ = c.typ /\ d.orphan = c.orphan
      <4>1. [c EXCEPT !.step = "open"] \in Calls
        BY DEF Calls
      <4>2. LET e == [c EXCEPT !.step = "open"]
            IN  /\ e.step = "open" /\ e.op = c.op /\ e.id = c.id /\ e.row = c.row /\ e.old = c.old
                /\ e.typ = c.typ /\ e.orphan = c.orphan
        BY DEF Calls
      <4> QED
        BY <4>1, <4>2
    <3>3. ShapeOf(p, d)
      BY <1>3, <2>3, <3>1, <3>2 DEF ShapeOf
    <3>4. PortsOf(d) = PortsOf(c)
      BY <3>2 DEF PortsOf
    <3> QED
      BY <2>3, <3>1, <3>2, <3>3, <3>4 DEF Active, At
  <2>4. CASE cut(p) /\ call'[p] = NoCall
    <3>1. NoCall.op = "none" /\ NoCall.step = "none" /\ ~NoCall.orphan
      BY DEF NoCall
    <3>2. \A port : ~At(p, port)'
      BY <2>4, PortsFacts DEF At
    <3> QED
      BY <2>4, <3>1, <3>2, NoCallType DEF Active
  <2> QED
    BY <1>4, <2>1, <2>2, <2>3, <2>4
<1>6. \A p \in Procs : PortsOf(call[p]) \subseteq Ports
  BY <1>1, AtFacts
<1>7. \A p \in Procs : \A port : /\ At(p, port) => port \in stale'
                                 /\ (At(p, port) /\ cut(p)) => port \in broken'
  BY <1>1, <1>2 DEF At
<1>8. broken \subseteq broken' /\ stale \subseteq stale'
  BY <1>1, <1>2
<1>9. TypeOK'
  <2>1. call' = [p \in Procs |-> call'[p]]
    BY DEF AgentStops
  <2>2. call' \in [Procs -> Calls]
    BY <1>5, <2>1
  <2>3. broken' \subseteq Ports /\ stale' \subseteq Ports
    BY <1>1, <1>2, <1>6 DEF TypeOK
  <2> QED
    BY <1>1, <2>2, <2>3 DEF TypeOK
<1> HIDE DEF cut
<1>10. Shapes'
  BY <1>5 DEF Shapes
<1>11. Relayed'
  BY <1>1, <1>5 DEF CallInv, Relayed, Procs
<1>12. Orphaned'
  <2>1. ASSUME NEW p \in Requests, call'[p].orphan
        PROVE  call'[p].step # "write" /\ PortsOf(call'[p]) \subseteq stale'
    <3>1. p \in Procs /\ call[p].orphan
      BY <2>1, <1>5 DEF Procs
    <3>2. call[p].step # "write"
      BY <3>1, <2>1 DEF CallInv, Orphaned
    <3>3. PortsOf(call'[p]) \subseteq stale'
      BY <3>1, <1>5, <1>7 DEF At
    <3> QED
      BY <3>1, <3>2, <3>3, <1>5
  <2> QED
    BY <2>1 DEF Orphaned
<1>13. Lone'
  BY <1>5, <1>8 DEF CallInv, Lone
<1>14. Down'
  <2>1. \A p \in Procs : PortsOf(call'[p]) \subseteq stale'
    BY <1>5, <1>7 DEF At
  <2>2. \A port : Empty(port)' = Empty(port)
    BY <1>1 DEF Empty
  <2> QED
    BY <1>1, <1>5, <2>1, <2>2 DEF CallInv, Down
<1>15. Resent'
  <2>1. SUFFICES ASSUME NEW p \in RuleIds
                 PROVE  ResentAt(p)'
    BY DEF Resent
  <2>2. p \in Procs /\ ResentAt(p)
    BY DEF Procs, CallInv, Resent
  <2>3. SUFFICES ASSUME call'[p].op = "resendRule", call'[p].alone
                 PROVE  /\ p \in RulesOn(call[p].row.port)' => rules'[p] = call[p].row
                        /\ call'[p].step \in {"tcp", "udp"} => HasHop(ServiceOf(call[p].row))'
                        /\ call'[p].step # "udp"
    BY <2>2, <2>3, <1>5 DEF ResentAt, HasHop
  <2>4. /\ call[p].op = "resendRule" /\ call[p].alone
        /\ call'[p].step = "tcp" => HasHop(ServiceOf(call[p].row))
        /\ call'[p].step # "udp" /\ call'[p].row = call[p].row
    BY <2>2, <2>3, <1>5
  <2>5. p \in RulesOn(call[p].row.port)' => rules'[p] = call[p].row
    BY <2>2, <2>4, <1>1 DEF ResentAt, RulesOn
  <2>6. HasHop(ServiceOf(call[p].row)) => HasHop(ServiceOf(call[p].row))'
    BY <1>1, <2>4 DEF HasHop
  <2> QED
    BY <2>4, <2>5, <2>6
<1>16. Halves'
  <2>1. SUFFICES ASSUME NEW port \in Ports, port \notin broken'
                 PROVE  HalvesAt(port)'
    BY DEF Halves
  <2>2. HalvesAt(port)
    BY <1>8, <2>1 DEF CallInv, Halves
  <2>3. \A p \in Procs : At(p, port) => call'[p] = call[p]
    BY <1>5, <1>7, <2>1
  <2>4. \A p \in Procs : At(p, port)' <=> At(p, port)
    BY <1>5, <2>3 DEF At
  <2> QED
    BY <1>1, <2>2, <2>3, <2>4, ElsewhereHalves
<1>17. Served'
  <2>1. SUFFICES ASSUME NEW port \in Ports, port \notin broken', port \notin stale'
                 PROVE  ServedAt(port)'
    BY DEF Served
  <2>2. ServedAt(port)
    BY <1>8, <2>1 DEF CallInv, Served
  <2>3. \A p \in Procs : ~At(p, port) /\ ~At(p, port)'
    BY <1>5, <1>7, <2>1
  <2>4. RulesOn(port)' = RulesOn(port) /\ \A id \in RulesOn(port) : rules'[id] = rules[id]
    BY <1>1 DEF RulesOn
  <2> QED
    BY <1>1, <2>2, <2>3, <2>4, Elsewhere
<1> QED
  BY <1>9, <1>10, <1>11, <1>12, <1>13, <1>14, <1>15, <1>16, <1>17 DEF CallInv

(* The record of an agent that starts.                                     *)
LEMMA BootFacts ==
  /\ NoBoot \in Boots /\ NoBoot.step = "off" /\ ~NoBoot.whole
  /\ \A id \in RuleIds : NoBoot.rules[id] = None
  /\ [NoBoot EXCEPT !.whole = FALSE] = NoBoot
  /\ boot \in Boots =>
        /\ DuePorts \subseteq Ports
        /\ \A id \in RuleIds : boot.rules[id] # None => boot.rules[id] \in Rows /\ boot.rules[id].port \in DuePorts
        /\ [boot EXCEPT !.whole = FALSE] \in Boots
<1>1. /\ NoBoot \in Boots /\ NoBoot.step = "off" /\ ~NoBoot.whole
      /\ \A id \in RuleIds : NoBoot.rules[id] = None
  <2>1. /\ [id \in RuleIds |-> None] \in [RuleIds -> Rows \cup {None}]
        /\ [port \in ChainPorts |-> "none"] \in [ChainPorts -> {"tcp", "tls", "none"}]
    OBVIOUS
  <2>2. NoBoot \in Boots
    BY <2>1 DEF NoBoot, Boots
  <2> QED
    BY <2>2 DEF NoBoot
<1>2. [NoBoot EXCEPT !.whole = FALSE] = NoBoot
  <2>1. PICK b \in Boots : b = NoBoot
    BY <1>1
  <2>2. b.whole = FALSE
    BY <2>1 DEF NoBoot
  <2>3. [b EXCEPT !.whole = FALSE] = b
    BY <2>2 DEF Boots
  <2> QED
    BY <2>1, <2>3
<1>3. ASSUME boot \in Boots, NEW id \in RuleIds, boot.rules[id] # None
      PROVE  boot.rules[id] \in Rows
  BY <1>3 DEF Boots
<1>4. ASSUME boot \in Boots, NEW id \in RuleIds, boot.rules[id] # None
      PROVE  boot.rules[id].port \in DuePorts
  BY <1>4 DEF DuePorts
<1>5. ASSUME boot \in Boots
      PROVE  DuePorts \subseteq Ports
  BY <1>5, <1>3, RowFacts DEF DuePorts
<1>6. boot \in Boots => [boot EXCEPT !.whole = FALSE] \in Boots
  BY DEF Boots
<1> QED
  BY <1>1, <1>2, <1>3, <1>4, <1>5, <1>6, Zenon

(* All ports of calls, and all rows, are history.                          *)
LEMMA GostStopsStep ==
  ASSUME CallInv, GostStops
  PROVE  CallInv'
<1>1. /\ gost' = FALSE /\ left' \in Allowances /\ TypeOK /\ Shapes
      /\ tcp' = [port \in Ports |-> None] /\ udp' = [port \in Ports |-> None]
      /\ hops' = {} /\ tls' = {}
      /\ broken' = DuePorts \cup UNION {PortsOf(call[p]) : p \in Procs}
      /\ stale' = broken' \cup {port \in Ports : RulesOn(port) # {}}
      /\ call' = [p \in Procs |-> [call[p] EXCEPT !.alone = call[p].row = None]]
      /\ boot' = [boot EXCEPT !.whole = FALSE]
      /\ UNCHANGED <<native, agent, rules, chains, relay>>
  BY SpendFacts DEF CallInv, GostStops, agentVars, rowVars
<1>2. \A p \in Procs : call[p] \in Calls /\ ShapeOf(p, call[p]) /\ PortsOf(call[p]) \subseteq Ports
  BY <1>1, AtFacts DEF TypeOK, Shapes
<1>3. ASSUME NEW p \in Procs
      PROVE  /\ call'[p] \in Calls
             /\ call'[p].op = call[p].op /\ call'[p].step = call[p].step /\ call'[p].id = call[p].id
             /\ call'[p].row = call[p].row /\ call'[p].old = call[p].old /\ call'[p].typ = call[p].typ
             /\ call'[p].orphan = call[p].orphan
             /\ PortsOf(call'[p]) = PortsOf(call[p])
             /\ call'[p].alone => call[p].row = None
  <2>1. PICK c \in Calls : c = call[p]
    BY <1>2
  <2>2. PICK a \in BOOLEAN : a <=> c.row = None
    OBVIOUS
  <2>3. a = (c.row = None)
    BY <2>2
  <2>4. call'[p] = [c EXCEPT !.alone = a]
    BY <1>1, <2>1, <2>3
  <2>5. [c EXCEPT !.alone = a] \in Calls
    BY DEF Calls
  <2>6. LET e == [c EXCEPT !.alone = a]
        IN  /\ e.alone = a /\ e.step = c.step /\ e.op = c.op /\ e.id = c.id /\ e.row = c.row
            /\ e.old = c.old /\ e.typ = c.typ /\ e.orphan = c.orphan
    BY DEF Calls
  <2>7. PortsOf([c EXCEPT !.alone = a]) = PortsOf(c)
    BY <2>6 DEF PortsOf
  <2> QED
    BY <2>1, <2>2, <2>4, <2>5, <2>6, <2>7
<1>4. \A p \in Procs : \A port : /\ At(p, port)' <=> At(p, port)
                                 /\ At(p, port) => port \in broken' /\ port \in stale'
  BY <1>1, <1>3 DEF At
<1>5. broken' \subseteq Ports /\ stale' \subseteq Ports /\ boot' \in Boots
  <2>0. boot \in Boots
    BY <1>1 DEF TypeOK
  <2>1. DuePorts \subseteq Ports /\ boot' \in Boots
    <3>1. DuePorts \subseteq Ports /\ [boot EXCEPT !.whole = FALSE] \in Boots
      BY <2>0, BootFacts, Zenon
    <3> QED
      BY <1>1, <3>1
  <2>2. UNION {PortsOf(call[p]) : p \in Procs} \subseteq Ports
    BY <1>2
  <2>3. broken' \subseteq Ports
    BY <1>1, <2>1, <2>2
  <2>4. stale' \subseteq Ports
    BY <1>1, <2>3
  <2> QED
    BY <2>1, <2>3, <2>4
<1>6. \A port \in Ports : Empty(port)'
  BY <1>1 DEF Empty
<1>7. TypeOK'
  <2>1. call' \in [Procs -> Calls]
    BY <1>1, <1>3
  <2> QED
    BY <1>1, <1>5, <2>1 DEF TypeOK
<1>8. Shapes'
  BY <1>2, <1>3 DEF Shapes, ShapeOf
<1>9. Relayed'
  BY <1>1, <1>3 DEF CallInv, Relayed, Active, Procs
<1>10. Orphaned'
  <2>1. \A p \in Procs : PortsOf(call'[p]) \subseteq stale'
    BY <1>3, <1>4 DEF At
  <2> QED
    BY <1>3, <2>1 DEF CallInv, Orphaned, Procs
<1>11. \A p \in Procs : call'[p].op = "resendRule" => ~call'[p].alone
  BY <1>2, <1>3, RowFacts DEF ShapeOf
<1>12. Lone'
  BY <1>4, <1>11 DEF Lone
<1>13. Down'
  <2>1. \A p \in Procs : PortsOf(call'[p]) \subseteq stale'
    BY <1>3, <1>4 DEF At
  <2> QED
    BY <1>1, <1>3, <1>6, <2>1 DEF CallInv, Down
<1>14. Resent'
  BY <1>11 DEF Resent, ResentAt, Procs
<1>15. Halves'
  BY <1>1, <1>4, <1>6 DEF Halves, HalvesAt, Empty
<1>16. Served'
  <2>1. SUFFICES ASSUME NEW port \in Ports, port \notin broken', port \notin stale'
                 PROVE  ServedAt(port)'
    BY DEF Served
  <2>2. RulesOn(port)' = {}
    BY <1>1, <2>1 DEF RulesOn
  <2>3. \A p \in Procs : ~At(p, port)'
    BY <1>4, <2>1
  <2> QED
    BY <1>6, <2>2, <2>3 DEF ServedAt, Fits
<1> QED
  BY <1>7, <1>8, <1>9, <1>10, <1>12, <1>13, <1>14, <1>15, <1>16 DEF CallInv

(* A gost that starts has no services, and a step that does nothing ...    *)
LEMMA SameStep ==
  ASSUME CallInv, gost' = gost \/ gost' = TRUE,
         UNCHANGED <<tcp, udp, hops, tls, native, agent, boot, rules, chains, call, relay, left, broken, stale>>
  PROVE  CallInv'
<1>1. TypeOK /\ TypeOK'
  BY DEF CallInv, TypeOK
<1>2. Shapes' /\ Relayed' /\ Orphaned'
  BY DEF CallInv, Shapes, ShapeOf, Relayed, Orphaned, Active
<1>3. \A p \in Procs : \A port : At(p, port)' <=> At(p, port)
  BY DEF At
<1>4. Lone'
  BY <1>3 DEF CallInv, Lone
<1>5. Down'
  BY DEF CallInv, Down, Empty
<1>6. Resent'
  BY DEF CallInv, Resent, ResentAt, RulesOn, HasHop
<1>7. Halves'
  BY <1>3, ElsewhereHalves DEF CallInv, Halves
<1>8. \A port : RulesOn(port)' = RulesOn(port)
  BY DEF RulesOn
<1>9. Served'
  BY <1>3, <1>8, Elsewhere DEF CallInv, Served
<1> QED
  BY <1>1, <1>2, <1>4, <1>5, <1>6, <1>7, <1>9 DEF CallInv

-----------------------------------------------------------------------------
(* The invariant                                                           *)

(* The table that the node starts with has one row on a port.              *)
LEMMA InitCallInv ==
  ASSUME Init
  PROVE  CallInv
<1>1. /\ rules \in Tables /\ udp = tcp
      /\ tcp = [port \in Ports |-> IF RulesOn(port) = {} THEN None
                                  ELSE ServiceOf(rules[CHOOSE id \in RulesOn(port) : TRUE])]
      /\ hops = {rules[id].via : id \in {i \in RuleIds : rules[i] # None}} \cap TlsVias
      /\ call = [p \in Procs |-> NoCall] /\ gost = TRUE /\ agent = TRUE /\ relay = "off"
      /\ broken = {} /\ stale = {}
  BY DEF Init
<1>2. rules \in [RuleIds -> Rows \cup {None}]
  BY <1>1, GostAssumption
<1>3. \A i, j \in RuleIds : (i # j /\ rules[i] # None /\ rules[j] # None) => rules[i].port # rules[j].port
  BY <1>1, GostAssumption
<1>4. ASSUME NEW port \in Ports
      PROVE  /\ tcp[port] \in Services \cup {None}
             /\ Fits(port)
  <2>1. CASE RulesOn(port) = {}
    BY <1>1, <2>1 DEF Fits, Empty
  <2>2. CASE RulesOn(port) # {}
    <3>1. PICK id \in RuleIds : id = CHOOSE i \in RulesOn(port) : TRUE
      BY <2>2 DEF RulesOn
    <3>2. id \in RulesOn(port)
      BY <2>2, <3>1
    <3>3. RulesOn(port) = {id} /\ rules[id] \in Rows /\ rules[id] # None
      BY <1>2, <1>3, <3>2 DEF RulesOn
    <3>4. tcp[port] = ServiceOf(rules[id])
      BY <1>1, <2>2, <3>1
    <3>5. HasHop(ServiceOf(rules[id]))
      <4>1. CASE rules[id].via \in TlsVias
        BY <1>1, <3>3, <4>1, RowFacts DEF HasHop
      <4>2. CASE rules[id].via \notin TlsVias
        BY <3>3, <4>2, RowFacts DEF HasHop
      <4> QED
        BY <4>1, <4>2
    <3> QED
      BY <1>1, <3>3, <3>4, <3>5, RowFacts DEF Fits, Serves
  <2> QED
    BY <2>1, <2>2
<1>5. TypeOK
  <2>1. tcp \in [Ports -> Services \cup {None}]
    BY <1>1, <1>4
  <2> QED
    BY <1>1, <1>2, <2>1, NoCallType, BootFacts, GostAssumption DEF Init, TypeOK
<1>6. \A p \in Procs : call[p] = NoCall /\ ShapeOf(p, call[p]) /\ \A port : ~At(p, port)
  BY <1>1, NoCallType, PortsFacts DEF At
<1>7. Shapes
  BY <1>6 DEF Shapes
<1>8. NoCall.op = "none" /\ ~NoCall.orphan /\ NoCall.step = "none"
  BY DEF NoCall
<1>9. Relayed /\ Orphaned /\ Lone /\ Resent
  BY <1>6, <1>8 DEF Relayed, Orphaned, Lone, Resent, ResentAt, Active, Procs
<1>10. Down
  BY <1>1 DEF Down
<1>11. Halves
  BY <1>1, <1>6 DEF Halves, HalvesAt
<1>12. Served
  BY <1>4, <1>6 DEF Served, ServedAt
<1> QED
  BY <1>5, <1>7, <1>9, <1>10, <1>11, <1>12 DEF CallInv

-----------------------------------------------------------------------------
(* The agent starts                                                        *)

(* The rule that is done, or passed over, is no longer due.                *)
LEMMA NextRuleFacts ==
  ASSUME boot \in Boots, NEW id \in RuleIds
  PROVE  /\ NextRule(id) \in Boots /\ NextRule(id).step = "init"
         /\ \A i \in RuleIds : NextRule(id).rules[i] \in {None, boot.rules[i]}
         /\ \A i \in RuleIds : i # id => NextRule(id).rules[i] = boot.rules[i]
         /\ NextRule(id).rules[id] = None
<1>1. PICK rest : rest = [boot.rules EXCEPT ![id] = None]
  OBVIOUS
<1>2. boot.rules \in [RuleIds -> Rows \cup {None}]
  BY DEF Boots
<1>3. /\ rest \in [RuleIds -> Rows \cup {None}] /\ rest[id] = None
      /\ \A i \in RuleIds : i # id => rest[i] = boot.rules[i]
  BY <1>1, <1>2
<1>4. NextRule(id) = [boot EXCEPT !.step = "init", !.at = None, !.rules = rest]
  BY <1>1 DEF NextRule, Boots
<1>5. NextRule(id) \in Boots /\ NextRule(id).step = "init" /\ NextRule(id).rules = rest
  BY <1>3, <1>4 DEF Boots
<1> QED
  BY <1>3, <1>5

(* No handler is at work when an agent starts: it may change the services  *)
(* of ports without calls, and it owes the others their history.           *)
LEMMA BootStep ==
  ASSUME CallInv, ~agent, agent' \in BOOLEAN, boot' \in Boots,
         UNCHANGED <<gost, rules, chains, call, relay>>,
         tcp' \in [Ports -> Services \cup {None}], udp' \in [Ports -> Services \cup {None}],
         hops \subseteq hops', hops' \subseteq TlsVias,
         tls' \subseteq ChainPorts, native' \subseteq ChainPorts, left' \in Allowances,
         broken' \subseteq Ports, stale' \subseteq Ports,
         gost \/ (tcp' = tcp /\ udp' = udp),
         \A port \in Ports : \/ Quiet(port)
                             \/ (port \in broken => port \in broken') /\ (port \in stale => port \in stale'),
         \A port \in Ports : \/ port \in broken'
                             \/ Quiet(port) /\ tcp'[port] = udp'[port]
                             \/ port \notin broken /\ tcp'[port] = tcp[port] /\ udp'[port] = udp[port],
         \A port \in Ports : \/ port \in broken' \cup stale'
                             \/ Quiet(port) /\ Fits(port)'
                             \/ /\ port \notin broken \cup stale
                                /\ tcp'[port] = tcp[port] /\ udp'[port] = udp[port]
  PROVE  CallInv'
<1>1. TypeOK /\ TypeOK'
  BY DEF CallInv, TypeOK
<1>2. Shapes' /\ Relayed'
  BY DEF CallInv, Shapes, ShapeOf, Relayed, Active
<1>3. \A p \in Procs : \A port : At(p, port)' <=> At(p, port)
  BY DEF At
<1>4. \A p \in Procs : \A port : At(p, port) =>
        /\ port \in Ports
        /\ port \in broken => port \in broken'
        /\ port \in stale => port \in stale'
  BY AtFacts DEF CallInv, Quiet, At
<1>5. \A port : Quiet(port)' = Quiet(port)
  BY DEF Quiet
<1>6. Orphaned'
  <2>1. ASSUME NEW p \in Requests, call'[p].orphan
        PROVE  call'[p].step # "write" /\ PortsOf(call'[p]) \subseteq stale'
    BY <2>1, <1>4 DEF CallInv, Orphaned, At, Procs
  <2> QED
    BY <2>1 DEF Orphaned
<1>7. Lone'
  BY <1>3, <1>4 DEF CallInv, Lone
<1>8. Down'
  <2>1. ~gost' => \A port \in Ports : Empty(port)'
    BY DEF CallInv, Down, Empty
  <2>2. ASSUME NEW p \in Procs
        PROVE  /\ call'[p].step \notin {"udp", "delTcp", "delUdp"}
               /\ call'[p].op # "resendRule" => PortsOf(call'[p]) \subseteq broken' \cup stale'
    BY <1>4 DEF CallInv, Down, At
  <2> QED
    BY <2>1, <2>2 DEF Down
<1>9. Resent'
  <2>1. SUFFICES ASSUME NEW p \in RuleIds
                 PROVE  ResentAt(p)'
    BY DEF Resent
  <2>2. ResentAt(p) /\ call[p].step # "udp"
    BY DEF CallInv, Resent, Down, Procs
  <2>3. \A svc : HasHop(svc) => HasHop(svc)'
    BY DEF HasHop
  <2>4. \A port : RulesOn(port)' = RulesOn(port)
    BY DEF RulesOn
  <2>5. ServiceOf(call[p].row)' = ServiceOf(call[p].row)
    BY DEF ServiceOf
  <2> QED
    BY <2>2, <2>3, <2>4, <2>5 DEF ResentAt
<1>10. Halves'
  <2>1. SUFFICES ASSUME NEW port \in Ports, port \notin broken'
                 PROVE  HalvesAt(port)'
    BY DEF Halves
  <2>2. CASE Quiet(port) /\ tcp'[port] = udp'[port]
    BY <2>2, <1>3 DEF HalvesAt, Quiet, At
  <2>3. CASE port \notin broken /\ tcp'[port] = tcp[port] /\ udp'[port] = udp[port]
    BY <2>3, <1>3, ElsewhereHalves DEF CallInv, Halves
  <2> QED
    BY <2>1, <2>2, <2>3
<1>11. Served'
  <2>1. SUFFICES ASSUME NEW port \in Ports, port \notin broken' \cup stale'
                 PROVE  ServedAt(port)'
    BY DEF Served
  <2>2. CASE Quiet(port) /\ Fits(port)'
    BY <2>2, <1>3 DEF ServedAt, Quiet, At
  <2>3. CASE port \notin broken \cup stale /\ tcp'[port] = tcp[port] /\ udp'[port] = udp[port]
    <3>1. RulesOn(port)' = RulesOn(port) /\ \A id \in RulesOn(port) : rules'[id] = rules[id]
      BY DEF RulesOn
    <3>2. ServedAt(port)
      BY <2>3 DEF CallInv, Served
    <3> QED
      BY <2>3, <3>1, <3>2, <1>3, Elsewhere
  <2> QED
    BY <2>1, <2>2, <2>3
<1> QED
  BY <1>1, <1>2, <1>6, <1>7, <1>8, <1>9, <1>10, <1>11 DEF CallInv

(* A step of an agent that starts which leaves the services of rules.      *)
LEMMA BootAsks ==
  ASSUME GostInv, ~agent, agent' \in BOOLEAN, boot' \in Boots,
         UNCHANGED <<gost, tcp, udp, rules, chains, call, relay, broken, stale>>,
         hops \subseteq hops', hops' \subseteq TlsVias,
         tls' \subseteq ChainPorts, native' \subseteq ChainPorts, left' \in Allowances,
         agent' => boot' = NoBoot,
         \A id \in RuleIds : boot'.rules[id] \in {None, boot.rules[id], rules[id]},
         Adds'
  PROVE  GostInv'
<1>1. CallInv /\ StartInv /\ TypeOK
  BY DEF GostInv, CallInv
<1>2. CallInv'
  <2>1. ASSUME NEW port \in Ports, port \notin broken
        PROVE  \/ Quiet(port) /\ tcp'[port] = udp'[port]
               \/ port \notin broken /\ tcp'[port] = tcp[port] /\ udp'[port] = udp[port]
    BY <2>1
  <2>2. /\ tcp' \in [Ports -> Services \cup {None}] /\ udp' \in [Ports -> Services \cup {None}]
        /\ broken' \subseteq Ports /\ stale' \subseteq Ports
    BY <1>1 DEF TypeOK
  <2> QED
    BY <1>1, <2>1, <2>2, BootStep
<1>3. \A port \in Ports : Fits(port) => Fits(port)'
  BY FitsMore
<1>4. Asleep'
  BY <1>1, <1>3 DEF StartInv, Asleep
<1>5. PassedOver'
  <2>1. SUFFICES ASSUME NEW id \in RuleIds, boot'.rules[id] # None,
                        boot'.rules[id].port \notin broken \cup stale
                 PROVE  tcp[boot'.rules[id].port] # None
    BY DEF PassedOver
  <2>2. CASE boot'.rules[id] = boot.rules[id]
    BY <1>1, <2>1, <2>2 DEF StartInv, PassedOver
  <2>3. CASE boot'.rules[id] = rules[id]
    <3>1. rules[id] \in Rows /\ rules[id].port \in Ports
      BY <1>1, <2>1, <2>3, RowFacts DEF TypeOK
    <3>2. Fits(rules[id].port) /\ id \in RulesOn(rules[id].port)
      BY <1>1, <2>1, <2>3, <3>1 DEF StartInv, Asleep, RulesOn
    <3>3. tcp[rules[id].port] = ServiceOf(rules[id])
      BY <3>2 DEF Fits, Serves
    <3> QED
      BY <2>3, <3>1, <3>3, RowFacts
  <2> QED
    BY <2>1, <2>2, <2>3
<1> QED
  BY <1>2, <1>4, <1>5 DEF GostInv, StartInv

(* The agent has not served yet at a step of its start.                    *)
LEMMA NotYet ==
  ASSUME GostInv
  PROVE  /\ TypeOK /\ boot \in Boots
         /\ boot.step # "off" => ~agent
         /\ ~agent \/ boot = NoBoot
  BY BootFacts DEF GostInv, CallInv, StartInv, TypeOK

(* registerNode has read the rules, or the chains.                         *)
LEMMA RegisterStep ==
  ASSUME GostInv, RegisterRules \/ RegisterChains
  PROVE  GostInv'
<1>1. TypeOK /\ boot \in Boots /\ ~agent
  BY NotYet DEF RegisterRules, RegisterChains
<1>2. UNCHANGED <<gost, tcp, udp, hops, tls, native, agent, rules, chains, call, relay, left, broken, stale>>
  BY DEF RegisterRules, RegisterChains, gostVars, rowVars, histVars
<1>3. /\ boot' \in Boots /\ boot'.step \in {"register", "init"}
      /\ boot'.rules = rules \/ boot'.rules = boot.rules
  <2>1. CASE RegisterRules
    BY <1>1, <2>1 DEF RegisterRules, Boots, TypeOK
  <2>2. CASE RegisterChains
    BY <1>1, <2>2 DEF RegisterChains, Boots, TypeOK
  <2> QED
    BY <2>1, <2>2
<1>4. Adds'
  BY <1>3 DEF Adds
<1>5. \A id \in RuleIds : boot'.rules[id] \in {None, boot.rules[id], rules[id]}
  BY <1>3
<1> QED
  BY <1>1, <1>2, <1>3, <1>4, <1>5, BootAsks DEF TypeOK

(* InitAgent has asked for a chain.                                        *)
LEMMA InitChainStep ==
  ASSUME GostInv, NEW port \in ChainPorts, InitShut(port) \/ InitOpen(port)
  PROVE  GostInv'
<1>1. TypeOK /\ boot \in Boots /\ ~agent
  BY NotYet DEF InitShut, InitOpen
<1>2. UNCHANGED <<gost, tcp, udp, hops, agent, rules, chains, call, relay, left, broken, stale>>
  BY DEF InitShut, InitOpen, rowVars, histVars
<1>3. /\ boot' \in Boots /\ boot'.step \in {"init", "open"} /\ boot'.rules = boot.rules
  <2>1. CASE InitShut(port)
    BY <1>1, <2>1 DEF InitShut, Boots
  <2>2. CASE InitOpen(port)
    <3>1. PICK rest : rest = [boot.chains EXCEPT ![port] = "none"]
      OBVIOUS
    <3>2. rest \in [ChainPorts -> {"tcp", "tls", "none"}]
      BY <1>1, <3>1 DEF Boots
    <3>3. boot' = [boot EXCEPT !.step = "init", !.at = None, !.chains = rest]
      BY <1>1, <2>2, <3>1 DEF InitOpen, Boots
    <3> QED
      BY <1>1, <3>2, <3>3 DEF Boots
  <2> QED
    BY <2>1, <2>2
<1>4. tls' \subseteq ChainPorts /\ native' \subseteq ChainPorts
  BY <1>1 DEF InitShut, InitOpen, TypeOK
<1>5. Adds'
  BY <1>3 DEF Adds
<1>6. \A id \in RuleIds : boot'.rules[id] \in {None, boot.rules[id], rules[id]}
  BY <1>3
<1> QED
  BY <1>1, <1>2, <1>3, <1>4, <1>5, <1>6, BootAsks DEF TypeOK

(* InitAgent has added the chain object of a rule.                         *)
LEMMA InitHopStep ==
  ASSUME GostInv, NEW id \in RuleIds, InitHop(id)
  PROVE  GostInv'
<1>1. TypeOK /\ boot \in Boots /\ ~agent
  BY NotYet DEF InitHop, RulesNext
<1>2. PICK row \in Rows : row = boot.rules[id] /\ row.via \in TlsVias
  BY <1>1 DEF InitHop, Boots
<1>3. /\ UNCHANGED <<gost, tcp, udp, tls, native, agent, rules, chains, call, relay, left, broken, stale>>
      /\ hops' = hops \cup {row.via}
  BY <1>2 DEF InitHop, rowVars, histVars
<1>4. /\ boot' \in Boots /\ boot'.step = "tcp" /\ boot'.at = id /\ boot'.rules = boot.rules
  BY <1>1 DEF InitHop, Boots
<1>5. Adds'
  <2>1. HasHop(ServiceOf(row))'
    BY <1>2, <1>3, RowFacts DEF HasHop, ServiceOf
  <2> QED
    BY <1>2, <1>4, <2>1, RowFacts DEF Adds
<1>6. \A i \in RuleIds : boot'.rules[i] \in {None, boot.rules[i], rules[i]}
  BY <1>4
<1> QED
  BY <1>1, <1>2, <1>3, <1>4, <1>5, <1>6, BootAsks DEF TypeOK

(* The first service of a rule marks its port; a rule whose first service  *)
(* exists is passed over.                                                  *)
LEMMA InitTcpStep ==
  ASSUME GostInv, NEW id \in RuleIds, InitTcp(id)
  PROVE  GostInv'
<1>1. TypeOK /\ boot \in Boots /\ ~agent /\ CallInv /\ StartInv
  BY NotYet DEF InitTcp, RulesNext, GostInv
<1>2. gost /\ UNCHANGED <<gost, udp, hops, tls, native, agent, rules, chains, call, relay, left, stale>>
  BY DEF InitTcp, rowVars
<1>3. PICK row \in Rows : row = boot.rules[id]
  <2>1. boot.rules[id] # None
    BY <1>1 DEF InitTcp, StartInv, Adds
  <2> QED
    BY <1>1, <2>1 DEF Boots
<1>4. row # None /\ row.port \in Ports /\ ServiceOf(row) \in Services /\ ServiceOf(row) # None
  BY <1>3, RowFacts
<1>5. CASE tcp[row.port] # None
  <2>1. boot' = NextRule(id) /\ UNCHANGED <<tcp, broken>>
    BY <1>3, <1>5 DEF InitTcp
  <2>2. boot' \in Boots /\ boot'.step = "init" /\ \A i \in RuleIds : boot'.rules[i] \in {None, boot.rules[i]}
    BY <1>1, <2>1, NextRuleFacts
  <2>3. Adds'
    BY <2>2 DEF Adds
  <2>4. \A i \in RuleIds : boot'.rules[i] \in {None, boot.rules[i], rules[i]}
    BY <2>2
  <2> QED
    BY <1>1, <1>2, <2>1, <2>2, <2>3, <2>4, BootAsks DEF TypeOK
<1>6. CASE tcp[row.port] = None
  <2>1. PICK whole \in BOOLEAN :
            /\ boot' = [boot EXCEPT !.step = "udp", !.at = id, !.whole = whole]
            /\ whole => HasHop(ServiceOf(row))
    <3>1. CASE RulesNext /\ row.via \notin TlsVias
      <4>1. boot' = [boot EXCEPT !.step = "udp", !.at = id, !.whole = TRUE]
        BY <1>1, <1>3, <1>4, <1>6, <3>1 DEF InitTcp, Boots
      <4>2. HasHop(ServiceOf(row))
        BY <3>1, RowFacts DEF HasHop
      <4> QED
        BY <4>1, <4>2
    <3>2. CASE ~(RulesNext /\ row.via \notin TlsVias)
      <4>1. /\ boot' = [boot EXCEPT !.step = "udp", !.at = id, !.whole = boot.whole]
            /\ boot.step = "tcp" /\ boot.at = id
        BY <1>1, <1>3, <1>4, <1>6, <3>2 DEF InitTcp, Boots
      <4>2. boot.whole \in BOOLEAN /\ (boot.whole => HasHop(ServiceOf(row)))
        BY <1>1, <1>3, <4>1 DEF Boots, StartInv, Adds
      <4> QED
        BY <4>1, <4>2
    <3> QED
      BY <3>1, <3>2
  <2>2. /\ boot' \in Boots /\ boot'.step = "udp" /\ boot'.at = id /\ boot'.whole = whole
        /\ boot'.rules = boot.rules
    BY <1>1, <2>1 DEF Boots
  <2>3. tcp' = [tcp EXCEPT ![row.port] = ServiceOf(row)] /\ broken' = broken \cup {row.port}
    BY <1>3, <1>6 DEF InitTcp
  <2>4. /\ tcp' \in [Ports -> Services \cup {None}] /\ tcp'[row.port] = ServiceOf(row)
        /\ \A port \in Ports : port # row.port => tcp'[port] = tcp[port]
        /\ udp' \in [Ports -> Services \cup {None}]
        /\ broken' \subseteq Ports /\ stale' \subseteq Ports
    BY <1>1, <1>2, <1>4, <2>3 DEF TypeOK
  <2>5. CallInv'
    BY <1>1, <1>2, <2>2, <2>3, <2>4, BootStep DEF TypeOK
  <2>6. Asleep'
    <3>1. \A port \in Ports : (port # row.port /\ Fits(port)) => Fits(port)'
      BY <1>2, <2>4, FitsMore
    <3> QED
      BY <1>1, <1>2, <2>3, <3>1 DEF StartInv, Asleep
  <2>7. PassedOver'
    <3>1. \A i \in RuleIds : boot.rules[i] # None => boot.rules[i].port \in Ports
      BY <1>1, RowFacts DEF Boots
    <3> QED
      BY <1>1, <1>2, <1>4, <2>2, <2>3, <2>4, <3>1 DEF StartInv, PassedOver
  <2>8. Adds'
    <3>1. whole => HasHop(ServiceOf(row))'
      BY <1>2, <2>1 DEF HasHop, ServiceOf
    <3> QED
      BY <1>3, <1>4, <2>2, <2>3, <2>4, <3>1 DEF Adds, ServiceOf
  <2> QED
    BY <1>1, <1>2, <2>5, <2>6, <2>7, <2>8 DEF GostInv, StartInv
<1> QED
  BY <1>5, <1>6

(* With its second service a rule has been added: its port is whole, and   *)
(* without history if its row is still what was downloaded.                *)
LEMMA InitUdpStep ==
  ASSUME GostInv, NEW id \in RuleIds, InitUdp(id)
  PROVE  GostInv'
<1>1. TypeOK /\ boot \in Boots /\ ~agent /\ CallInv /\ StartInv
  BY NotYet DEF InitUdp, GostInv
<1>2. gost /\ UNCHANGED <<gost, tcp, hops, tls, native, agent, rules, chains, call, relay, left>>
  BY DEF InitUdp, rowVars
<1>3. PICK row \in Rows : row = boot.rules[id] /\ row.port \in broken
  <2>1. boot.rules[id] # None /\ boot.rules[id].port \in broken
    BY <1>1 DEF InitUdp, StartInv, Adds
  <2> QED
    BY <1>1, <2>1 DEF Boots
<1>4. row # None /\ row.port \in Ports /\ ServiceOf(row) \in Services /\ ServiceOf(row) # None
  BY <1>3, RowFacts
<1> DEFINE whole == boot.whole /\ udp[row.port] = None /\ Quiet(row.port)
           kept  == whole /\ RulesOn(row.port) = {id} /\ rules[id] = row
<1>5. /\ boot' = NextRule(id)
      /\ udp' = [udp EXCEPT ![row.port] = IF udp[row.port] = None THEN ServiceOf(row) ELSE udp[row.port]]
      /\ broken' = IF whole THEN broken \ {row.port} ELSE broken
      /\ stale' = IF kept THEN stale \ {row.port} ELSE stale \cup {row.port}
  BY <1>1, <1>3, <1>4 DEF InitUdp, TypeOK
<1>6. /\ boot' \in Boots /\ boot'.step = "init"
      /\ \A i \in RuleIds : boot'.rules[i] \in {None, boot.rules[i]}
  BY <1>1, <1>5, NextRuleFacts
<1>7. /\ udp' \in [Ports -> Services \cup {None}] /\ tcp' \in [Ports -> Services \cup {None}]
      /\ \A port \in Ports : port # row.port => udp'[port] = udp[port]
      /\ udp[row.port] = None => udp'[row.port] = ServiceOf(row)
      /\ broken' \subseteq Ports /\ stale' \subseteq Ports
  BY <1>1, <1>2, <1>4, <1>5 DEF TypeOK
<1>8. ASSUME whole
      PROVE  Quiet(row.port) /\ tcp'[row.port] = ServiceOf(row) /\ udp'[row.port] = ServiceOf(row)
             /\ HasHop(ServiceOf(row))
  BY <1>1, <1>2, <1>3, <1>7, <1>8 DEF InitUdp, StartInv, Adds
<1>9. ASSUME kept
      PROVE  Fits(row.port)'
  <2>1. RulesOn(row.port)' = {id} /\ rules'[id] = row
    BY <1>2, <1>9 DEF RulesOn
  <2>2. HasHop(ServiceOf(row))'
    BY <1>2, <1>8, <1>9 DEF HasHop
  <2> QED
    BY <1>8, <1>9, <2>1, <2>2 DEF Fits, Serves
<1>10. \A port \in Ports : port # row.port =>
         (port \in broken' <=> port \in broken) /\ (port \in stale' <=> port \in stale)
  BY <1>5
<1>11. ~whole => row.port \in broken'
  BY <1>3, <1>5
<1>12. ~kept => row.port \in stale'
  BY <1>5
<1>13. kept => whole
  OBVIOUS
<1>14. whole => Quiet(row.port)
  OBVIOUS
<1>15. ~whole => stale \subseteq stale'
  BY <1>5
<1> HIDE DEF whole, kept
<1>16. CallInv'
  <2>1. ASSUME NEW port \in Ports
        PROVE  \/ Quiet(port)
               \/ (port \in broken => port \in broken') /\ (port \in stale => port \in stale')
    BY <1>10, <1>11, <1>14, <1>15
  <2>2. ASSUME NEW port \in Ports
        PROVE  \/ port \in broken'
               \/ Quiet(port) /\ tcp'[port] = udp'[port]
               \/ port \notin broken /\ tcp'[port] = tcp[port] /\ udp'[port] = udp[port]
    BY <1>2, <1>7, <1>8, <1>10, <1>11
  <2>3. ASSUME NEW port \in Ports
        PROVE  \/ port \in broken' \cup stale'
               \/ Quiet(port) /\ Fits(port)'
               \/ /\ port \notin broken \cup stale
                  /\ tcp'[port] = tcp[port] /\ udp'[port] = udp[port]
    BY <1>2, <1>7, <1>9, <1>10, <1>12, <1>13, <1>14
  <2> QED
    BY <1>1, <1>2, <1>6, <1>7, <2>1, <2>2, <2>3, BootStep DEF TypeOK
<1>17. Asleep'
  <2>1. \A port \in Ports : (port # row.port /\ Fits(port)) => Fits(port)'
    BY <1>2, <1>7, FitsMore
  <2> QED
    BY <1>1, <1>2, <1>9, <1>10, <1>12, <2>1 DEF StartInv, Asleep
<1>18. PassedOver'
  <2>1. SUFFICES ASSUME NEW i \in RuleIds, boot'.rules[i] # None,
                        boot'.rules[i].port \notin broken' \cup stale'
                 PROVE  tcp'[boot'.rules[i].port] # None
    BY DEF PassedOver
  <2>2. boot'.rules[i] = boot.rules[i] /\ boot.rules[i].port \in Ports
    BY <1>1, <1>6, <2>1, RowFacts DEF Boots
  <2>3. CASE boot.rules[i].port = row.port
    BY <1>4, <1>8, <1>11, <2>1, <2>2, <2>3
  <2>4. CASE boot.rules[i].port # row.port
    BY <1>1, <1>2, <1>10, <2>1, <2>2, <2>4 DEF StartInv, PassedOver
  <2> QED
    BY <2>3, <2>4
<1>19. Adds'
  BY <1>6 DEF Adds
<1> QED
  BY <1>1, <1>2, <1>16, <1>17, <1>18, <1>19 DEF GostInv, StartInv

(* The start is over: with a panic, a stop, or an agent that serves.       *)
LEMMA StartEnds ==
  ASSUME GostInv, InitAgentPanics \/ BootStops \/ AgentServes
  PROVE  GostInv'
<1>1. TypeOK /\ ~agent
  BY NotYet DEF InitAgentPanics, BootStops, AgentServes, RulesNext
<1>2. /\ UNCHANGED <<gost, tcp, udp, hops, tls, rules, chains, call, relay, broken, stale>>
      /\ boot' = NoBoot /\ agent' \in BOOLEAN
      /\ native' \subseteq ChainPorts
  BY <1>1 DEF InitAgentPanics, BootStops, AgentServes, gostVars, rowVars, histVars, TypeOK
<1>3. left' \in Allowances
  BY <1>1, SpendFacts DEF InitAgentPanics, BootStops, AgentServes, TypeOK
<1>4. boot' \in Boots /\ boot'.step = "off" /\ \A id \in RuleIds : boot'.rules[id] = None
  BY <1>2, BootFacts
<1>5. Adds'
  BY <1>4 DEF Adds
<1>6. \A id \in RuleIds : boot'.rules[id] \in {None, boot.rules[id], rules[id]}
  BY <1>4
<1> QED
  BY <1>1, <1>2, <1>3, <1>4, <1>5, <1>6, BootAsks DEF TypeOK

-----------------------------------------------------------------------------
(* What an agent that starts has to do with the other steps                *)

(* An agent that serves has started.                                       *)
LEMMA Awake ==
  ASSUME agent', boot' = NoBoot
  PROVE  StartInv'
<1>1. boot'.step = "off" /\ \A id \in RuleIds : boot'.rules[id] = None
  BY BootFacts
<1> QED
  BY <1>1 DEF StartInv, Asleep, PassedOver, Adds

(* A handler is at work only on an agent that serves.                      *)
LEMMA HandlerStart ==
  ASSUME GostInv,
         \/ \E p \in Procs : \/ AddHop(p) \/ AddTcp(p) \/ AddUdp(p) \/ DelTcp(p) \/ DelUdp(p)
                             \/ OpenChain(p) \/ ShutChain(p) \/ AddFails(p)
         \/ \E r \in Requests : \/ \E row \in Asked : AddRule(r, row)
                                \/ \E row \in Asked : \E id \in RuleIds : ModifyRule(r, id, row)
                                \/ \E port \in ChainPorts : DelChain(r, port)
                                \/ \E port \in ChainPorts : \E typ \in {"tcp", "tls"} : AddChain(r, port, typ)
  PROVE  StartInv'
<1>1. agent /\ agent' = agent /\ boot' = boot
  <2>1. ASSUME NEW p \in Procs, AddHop(p) \/ AddTcp(p) \/ AddUdp(p) \/ DelTcp(p) \/ DelUdp(p)
        PROVE  agent /\ agent' = agent /\ boot' = boot
    BY <2>1 DEF AddHop, AddTcp, AddUdp, DelTcp, DelUdp, Asks, agentVars
  <2>2. ASSUME NEW p \in Procs, OpenChain(p) \/ ShutChain(p) \/ AddFails(p)
        PROVE  agent /\ agent' = agent /\ boot' = boot
    BY <2>2 DEF OpenChain, ShutChain, AddFails, Asks, agentVars
  <2>3. ASSUME NEW r \in Requests, NEW row, AddRule(r, row) \/ \E id \in RuleIds : ModifyRule(r, id, row)
        PROVE  agent /\ agent' = agent /\ boot' = boot
    BY <2>3 DEF AddRule, ModifyRule, agentVars
  <2>4. ASSUME NEW r \in Requests, NEW port, DelChain(r, port) \/ \E typ \in {"tcp", "tls"} : AddChain(r, port, typ)
        PROVE  agent /\ agent' = agent /\ boot' = boot
    BY <2>4 DEF AddChain, DelChain, agentVars
  <2> QED
    BY <2>1, <2>2, <2>3, <2>4
<1>2. boot' = NoBoot
  BY <1>1 DEF GostInv, StartInv
<1> QED
  BY <1>1, <1>2, Awake

(* A step that leaves the services, and adds to the history.               *)
LEMMA AsleepStep ==
  ASSUME StartInv, UNCHANGED <<tcp, udp, hops, agent, boot>>,
         broken \subseteq broken', stale \subseteq stale',
         \A port \in Ports \ (broken' \cup stale') :
            agent \/ (RulesOn(port)' = RulesOn(port) /\ \A id \in RulesOn(port) : rules'[id] = rules[id])
  PROVE  StartInv'
<1>1. ASSUME NEW port \in Ports, port \notin broken' \cup stale', ~agent
      PROVE  Fits(port)'
  <2>1. /\ Fits(port)
        /\ RulesOn(port)' = RulesOn(port) /\ \A id \in RulesOn(port) : rules'[id] = rules[id]
    BY <1>1 DEF StartInv, Asleep
  <2>2. Empty(port)' = Empty(port) /\ \A svc : Serves(port, svc) => Serves(port, svc)'
    BY DEF Empty, Serves, HasHop
  <2>3. ASSUME NEW id \in RuleIds, RulesOn(port) = {id}, Serves(port, ServiceOf(rules[id]))
        PROVE  Fits(port)'
    BY <2>1, <2>2, <2>3 DEF Fits
  <2> QED
    BY <2>1, <2>2, <2>3 DEF Fits
<1>2. Asleep'
  BY <1>1 DEF Asleep
<1>3. PassedOver'
  BY DEF StartInv, PassedOver
<1>4. Adds'
  BY DEF StartInv, Adds, HasHop, ServiceOf
<1> QED
  BY <1>2, <1>3, <1>4 DEF StartInv

(* The row of a call that writes is at ports with a history, unless the    *)
(* agent serves.                                                           *)
LEMMA WriteStart ==
  ASSUME GostInv, NEW p \in Procs, Write(p)
  PROVE  StartInv'
<1>1. TypeOK /\ ShapeOf(p, call[p]) /\ StartInv /\ Down
  BY DEF GostInv, CallInv, Shapes
<1>2. /\ call[p].step = "write"
      /\ UNCHANGED <<tcp, udp, hops, agent, boot, broken>>
  BY DEF Write, gostVars, agentVars
<1>3. ~agent => PortsOf(call[p]) \subseteq broken \cup stale
  BY <1>1, <1>2 DEF Down, ShapeOf
<1>4. stale \subseteq stale'
  BY DEF Write
<1>5. rules \in [RuleIds -> Rows \cup {None}]
  BY <1>1 DEF TypeOK
<1>6. ASSUME NEW port \in Ports, port \notin stale', port \notin PortsOf(call[p])
      PROVE  RulesOn(port)' = RulesOn(port) /\ \A id \in RulesOn(port) : rules'[id] = rules[id]
  <2>1. CASE call[p].op = "addRule"
    <3>1. PICK id \in RuleIds : rules[id] = None /\ rules' = [rules EXCEPT ![id] = call[p].row]
      BY <2>1 DEF Write
    <3>2. call[p].row # None => call[p].row.port # port
      BY <1>6, PortsFacts
    <3> QED
      BY <1>5, <3>1, <3>2 DEF RulesOn
  <2>2. CASE call[p].op \in {"modifyRule", "delRule"}
    <3>1. PICK id \in RuleIds : id = call[p].id
      BY <1>1, <2>2 DEF ShapeOf
    <3>2. /\ rules' = [rules EXCEPT ![id] = IF rules[id] = None THEN None ELSE call[p].row]
          /\ stale' = stale \cup {row.port : row \in {Left(call[p])} \ {None, call[p].old}}
      BY <1>1, <2>2, <3>1 DEF Write, TypeOK
    <3>3. rules[id] # None => rules[id].port # port
      <4>1. rules[id] # None => Left(call[p]) = rules[id]
        BY <3>1 DEF Left
      <4>2. (rules[id] # None /\ rules[id] # call[p].old) => rules[id].port \in stale'
        BY <3>2, <4>1
      <4>3. (rules[id] # None /\ rules[id] = call[p].old) => rules[id].port # port
        BY <1>6, PortsFacts
      <4> QED
        BY <1>6, <4>2, <4>3
    <3>4. call[p].row # None => call[p].row.port # port
      BY <1>6, PortsFacts
    <3> QED
      BY <1>5, <3>2, <3>3, <3>4 DEF RulesOn
  <2>3. CASE call[p].op \in {"addChain", "delChain"}
    BY <2>3 DEF Write, RulesOn
  <2> QED
    BY <1>1, <1>2, <2>1, <2>2, <2>3 DEF ShapeOf
<1> QED
  BY <1>1, <1>2, <1>3, <1>4, <1>6, AsleepStep

(* Steps that write no row and only add to the history.                    *)
LEMMA RequestStart ==
  ASSUME GostInv,
         \/ \E p \in Procs : Unreached(p) \/ WriteFails(p)
         \/ \E r \in Requests : \E id \in RuleIds : DelRule(r, id)
         \/ ControllerRestarts \/ RelayRules \/ GostStarts \/ UNCHANGED vars
  PROVE  StartInv'
<1>1. /\ UNCHANGED <<tcp, udp, hops, agent, boot, rules>>
      /\ broken \subseteq broken' /\ stale \subseteq stale'
  <2>1. ASSUME NEW p \in Procs, Unreached(p)
        PROVE  /\ UNCHANGED <<tcp, udp, hops, agent, boot, rules>>
               /\ broken \subseteq broken' /\ stale \subseteq stale'
    BY <2>1 DEF Unreached, Failed, gostVars, agentVars, rowVars
  <2>2. ASSUME NEW p \in Procs, WriteFails(p)
        PROVE  /\ UNCHANGED <<tcp, udp, hops, agent, boot, rules>>
               /\ broken \subseteq broken' /\ stale \subseteq stale'
    BY <2>2 DEF WriteFails, gostVars, agentVars, rowVars
  <2>3. ASSUME NEW r \in Requests, NEW id \in RuleIds, DelRule(r, id)
        PROVE  /\ UNCHANGED <<tcp, udp, hops, agent, boot, rules>>
               /\ broken \subseteq broken' /\ stale \subseteq stale'
    BY <2>3 DEF DelRule, BeginOne, Begin, gostVars, agentVars, rowVars
  <2>4. CASE ControllerRestarts
    BY <2>4 DEF ControllerRestarts, gostVars, agentVars, rowVars
  <2>5. CASE RelayRules
    BY <2>5 DEF RelayRules, Begin, gostVars, agentVars, rowVars
  <2>6. CASE GostStarts \/ UNCHANGED vars
    BY <2>6 DEF GostStarts, vars, gostVars, agentVars, rowVars, histVars
  <2> QED
    BY <2>1, <2>2, <2>3, <2>4, <2>5, <2>6
<1>2. \A port : RulesOn(port)' = RulesOn(port)
  BY <1>1 DEF RulesOn
<1> QED
  BY <1>1, <1>2, AsleepStep DEF GostInv

(* An agent stops: where it was at work is history.                        *)
LEMMA AgentStopsStart ==
  ASSUME GostInv, AgentStops
  PROVE  StartInv'
<1>1. /\ UNCHANGED <<tcp, udp, hops, boot, rules>> /\ boot = NoBoot /\ agent' = FALSE
      /\ broken \subseteq broken'
      /\ stale' = stale \cup UNION {PortsOf(call[p]) : p \in Procs}
  BY DEF AgentStops, GostInv, StartInv, gostVars, rowVars
<1>2. boot'.step = "off" /\ \A id \in RuleIds : boot'.rules[id] = None
  BY <1>1, BootFacts
<1>3. ASSUME NEW port \in Ports, port \notin broken' \cup stale'
      PROVE  Fits(port)'
  <2>1. Quiet(port)
    BY <1>1, <1>3 DEF Quiet
  <2>2. Fits(port)
    BY <1>1, <1>3, <2>1 DEF GostInv, CallInv, Served, ServedAt
  <2> QED
    BY <1>1, <2>2, FitsMore
<1> QED
  BY <1>1, <1>2, <1>3 DEF StartInv, Asleep, PassedOver, Adds

(* Gost stops: what InitAgent has still to add is history.                 *)
LEMMA GostStopsStart ==
  ASSUME GostInv, GostStops
  PROVE  StartInv'
<1>1. /\ tcp' = [port \in Ports |-> None] /\ udp' = [port \in Ports |-> None]
      /\ DuePorts \subseteq broken'
      /\ {port \in Ports : RulesOn(port) # {}} \subseteq stale'
      /\ boot' = [boot EXCEPT !.whole = FALSE]
      /\ UNCHANGED <<agent, rules>>
  <2>1. /\ broken' = DuePorts \cup UNION {PortsOf(call[p]) : p \in Procs}
        /\ stale' = broken' \cup {port \in Ports : RulesOn(port) # {}}
    BY Zenon DEF GostStops
  <2>2. DuePorts \subseteq broken' /\ {port \in Ports : RulesOn(port) # {}} \subseteq stale'
    BY <2>1
  <2> QED
    BY <2>2 DEF GostStops, rowVars
<1>2. StartInv /\ boot \in Boots
  BY NotYet DEF GostInv
<1>3. CASE agent
  <2>1. boot' = NoBoot
    BY <1>1, <1>2, <1>3, BootFacts DEF StartInv
  <2> QED
    BY <1>1, <1>3, <2>1, Awake
<1>4. CASE ~agent
  <2>1. /\ boot'.rules = boot.rules /\ boot'.step = boot.step /\ boot'.at = boot.at
        /\ boot'.whole = FALSE
    BY <1>1, <1>2 DEF Boots
  <2>2. \A id \in RuleIds : boot.rules[id] # None => boot.rules[id].port \in DuePorts
    BY <1>2, BootFacts, Zenon
  <2>3. Asleep'
    <3>1. ASSUME NEW port \in Ports, port \notin broken' \cup stale'
          PROVE  Fits(port)'
      <4>1. RulesOn(port)' = {}
        BY <1>1, <3>1 DEF RulesOn
      <4>2. Empty(port)'
        BY <1>1 DEF Empty
      <4> QED
        BY <4>1, <4>2 DEF Fits
    <3> QED
      BY <3>1 DEF Asleep
  <2>4. PassedOver'
    BY <1>1, <2>1, <2>2 DEF PassedOver
  <2>5. Adds'
    BY <1>1, <1>2, <2>1, <2>2 DEF StartInv, Adds
  <2> QED
    BY <1>1, <1>4, <2>3, <2>4, <2>5 DEF StartInv
<1> QED
  BY <1>3, <1>4

-----------------------------------------------------------------------------
(* The invariant                                                           *)

(* At first an agent serves that has started.                              *)
LEMMA InitGostInv ==
  ASSUME Init
  PROVE  GostInv
<1>1. agent /\ boot = NoBoot
  BY DEF Init
<1>2. boot.step = "off" /\ \A id \in RuleIds : boot.rules[id] = None
  BY <1>1, BootFacts
<1> QED
  BY <1>1, <1>2, InitCallInv DEF GostInv, StartInv, Asleep, PassedOver, Adds

(* Every step of the node and the controller keeps the invariant.          *)
LEMMA NextGostInv ==
  ASSUME GostInv, [Next]_vars
  PROVE  GostInv'
<1>0. CallInv
  BY DEF GostInv
<1>1. ASSUME NEW p \in Procs, Step(p)
      PROVE  GostInv'
  <2>1. CASE AddHop(p) \/ AddTcp(p) \/ AddUdp(p) \/ DelTcp(p) \/ DelUdp(p) \/ OpenChain(p) \/ ShutChain(p)
    <3>1. CallInv'
      BY <1>0, <2>1, AddHopStep, AddTcpStep, AddUdpStep, DelTcpStep, DelUdpStep, OpenChainStep, ShutChainStep
    <3> QED
      BY <2>1, <3>1, HandlerStart DEF GostInv
  <2>2. CASE Unreached(p)
    BY <1>0, <2>2, UnreachedStep, RequestStart DEF GostInv
  <2>3. CASE Write(p)
    BY <1>0, <2>3, WriteStep, WriteStart DEF GostInv
  <2> QED
    BY <1>1, <2>1, <2>2, <2>3 DEF Step
<1>2. ASSUME NEW p \in Procs, AddFails(p) \/ WriteFails(p)
      PROVE  GostInv'
  BY <1>0, <1>2, AddFailsStep, WriteFailsStep, HandlerStart, RequestStart DEF GostInv
<1>3. ASSUME NEW r \in Requests, Request(r)
      PROVE  GostInv'
  <2>1. ASSUME NEW row \in Asked, AddRule(r, row)
        PROVE  GostInv'
    BY <1>0, <2>1, AddRuleStep, HandlerStart DEF GostInv
  <2>2. ASSUME NEW row \in Asked, NEW id \in RuleIds, ModifyRule(r, id, row)
        PROVE  GostInv'
    BY <1>0, <2>2, ModifyRuleStep, HandlerStart DEF GostInv
  <2>3. ASSUME NEW id \in RuleIds, DelRule(r, id)
        PROVE  GostInv'
    BY <1>0, <2>3, DelRuleStep, RequestStart DEF GostInv
  <2>4. ASSUME NEW port \in ChainPorts, NEW typ \in {"tcp", "tls"},
               AddChain(r, port, typ) \/ DelChain(r, port)
        PROVE  GostInv'
    BY <1>0, <2>4, ChainRequestStep, HandlerStart DEF GostInv
  <2>5. ASSUME NEW port \in ChainPorts, DelChain(r, port)
        PROVE  GostInv'
    <3>1. "tcp" \in {"tcp", "tls"}
      OBVIOUS
    <3> QED
      BY <2>4, <2>5, <3>1
  <2> QED
    BY <1>3, <2>1, <2>2, <2>3, <2>4, <2>5, Zenon DEF Request
<1>4. CASE ControllerRestarts \/ RelayRules
  BY <1>0, <1>4, ControllerRestartsStep, RelayRulesStep, RequestStart DEF GostInv
<1>5. CASE AgentStops
  BY <1>0, <1>5, AgentStopsStep, AgentStopsStart DEF GostInv
<1>6. CASE GostStops
  BY <1>0, <1>6, GostStopsStep, GostStopsStart DEF GostInv
<1>7. CASE StartAgent
  BY <1>7, RegisterStep, StartEnds, InitChainStep, InitHopStep, InitTcpStep, InitUdpStep DEF StartAgent
<1>8. CASE InitAgentPanics \/ BootStops
  BY <1>8, StartEnds
<1>9. CASE GostStarts \/ UNCHANGED vars
  <2>1. /\ gost' = gost \/ gost' = TRUE
        /\ UNCHANGED <<tcp, udp, hops, tls, native, agent, boot, rules, chains, call, relay, left, broken, stale>>
    BY <1>9 DEF GostStarts, vars, gostVars, agentVars, rowVars, histVars
  <2>2. CallInv'
    BY <1>0, <2>1, SameStep
  <2> QED
    BY <1>9, <2>2, RequestStart DEF GostInv
<1> QED
  BY <1>1, <1>2, <1>3, <1>4, <1>5, <1>6, <1>7, <1>8, <1>9 DEF Next

(* The invariant holds in every state of the node and its controller, also *)
(* while an agent starts whose rules are no longer what it has downloaded. *)
THEOREM GostSound == Spec => []GostInv
<1>1. Init => GostInv
  BY InitGostInv
<1>2. GostInv /\ [Next]_vars => GostInv'
  BY NextGostInv
<1> QED
  BY <1>1, <1>2, PTL DEF Spec

(* Calls, rows and services are what they are declared to be.              *)
THEOREM TypeCorrect == Spec => []TypeOK
<1>1. GostInv => TypeOK
  BY DEF GostInv, CallInv
<1> QED
  BY <1>1, GostSound, PTL

(* AddRule and DelPort of a gost node make two requests each, and nothing  *)
(* undoes the first when the second fails: a port is left with one of its  *)
(* two services only by an overlap of calls, a fault, or a start of the    *)
(* agent that is between its two requests or was cut short there.          *)
THEOREM HalvesByFault == Spec => []HalvesOnlyByFault
<1>1. GostInv => HalvesOnlyByFault
  BY DEF GostInv, CallInv, Halves, HalvesAt, HalvesOnlyByFault
<1> QED
  BY <1>1, GostSound, PTL

(* What gost serves is what the rows say, on every port whose history has  *)
(* neither an overlap, nor a call or a start of the agent that was cut     *)
(* short, nor a row that changed between its download and its services.    *)
THEOREM Recorded == Spec => []ServedAsRecorded
<1>1. ASSUME GostInv
      PROVE  ServedAsRecorded
  <2>1. SUFFICES ASSUME NEW port \in Ports, Quiet(port), port \notin broken \cup stale
                 PROVE  IF RulesOn(port) = {} THEN tcp[port] = None /\ udp[port] = None
                        ELSE \A id \in RulesOn(port) :
                                /\ tcp[port] = ServiceOf(rules[id])
                                /\ udp[port] = ServiceOf(rules[id])
                                /\ tcp[port].via \in hops \cup {Direct}
    BY <2>1, Zenon DEF ServedAsRecorded
  <2>2. Fits(port)
    BY <1>1, <2>1 DEF GostInv, CallInv, Served, ServedAt
  <2> QED
    BY <2>2 DEF Fits, Empty, Serves, HasHop
<1> QED
  BY <1>1, GostSound, PTL

-----------------------------------------------------------------------------
(* Gost's observer: the bytes of a service in a batch *)

(* Events of services.                                                     *)
Events == [service : Metered, bytes : 1..MaxBytes]

(* A batch has no two events of a service.                                 *)
OneEach(b) == \A i, j \in 1..Len(b) : b[i].service = b[j].service => i = j

(* Where the events of a service are, from the i-th on.                    *)
PlacesFrom(b, i, s) == {j \in i..Len(b) : b[j].service = s}

(* Without an event there are no bytes.                                    *)
LEMMA NoBytes ==
  ASSUME NEW b, NEW i, NEW s, PlacesFrom(b, i, s) = {}
  PROVE  BytesFrom(b, i, s) = 0
<1> DEFINE iter == CHOOSE f : f = [p \in SUBSET {} |-> IF p = {} THEN 0
                                     ELSE b[CHOOSE x \in p : TRUE].bytes + f[p \ {CHOOSE x \in p : TRUE}]]
<1>1. BytesFrom(b, i, s) = iter[{}]
  BY DEF BytesFrom, MapThenSumSet, MapThenFoldSet, PlacesFrom
<1>2. \E f : f = [p \in SUBSET {} |-> IF p = {} THEN 0
                     ELSE b[CHOOSE x \in p : TRUE].bytes + f[p \ {CHOOSE x \in p : TRUE}]]
  <2>1. PICK f : f = [p \in SUBSET {} |-> 0]
    OBVIOUS
  <2> QED
    BY <2>1
<1>3. iter[{}] = 0
  BY <1>2
<1> QED
  BY <1>1, <1>3

(* Of one event there are its bytes.                                       *)
LEMMA BytesOfOne ==
  ASSUME NEW b, NEW i, NEW s, NEW k, PlacesFrom(b, i, s) = {k}, b[k].bytes \in Nat
  PROVE  BytesFrom(b, i, s) = b[k].bytes
<1> DEFINE P == {k}
           body(f, p) == IF p = {} THEN 0
                         ELSE b[CHOOSE x \in p : TRUE].bytes + f[p \ {CHOOSE x \in p : TRUE}]
           iter == CHOOSE f : f = [p \in SUBSET P |-> body(f, p)]
<1>1. BytesFrom(b, i, s) = iter[P]
  BY DEF BytesFrom, MapThenSumSet, MapThenFoldSet, PlacesFrom
<1>2. \A p \in SUBSET P : p # {} => (CHOOSE x \in p : TRUE) = k /\ p \ {k} = {}
  <2>1. ASSUME NEW p \in SUBSET P, p # {} PROVE p = {k} /\ (CHOOSE x \in p : TRUE) \in p
    BY <2>1
  <2> QED
    BY <2>1
<1>3. \E f : f = [p \in SUBSET P |-> body(f, p)]
  <2>1. PICK g : g = [p \in SUBSET P |-> IF p = {} THEN 0 ELSE b[k].bytes]
    OBVIOUS
  <2>2. g[{}] = 0
    BY <2>1
  <2>3. \A p \in SUBSET P : body(g, p) = IF p = {} THEN 0 ELSE b[k].bytes
    BY <1>2, <2>2
  <2>4. g = [p \in SUBSET P |-> body(g, p)]
    BY <2>1, <2>3
  <2> QED
    BY <2>4
<1>4. iter = [p \in SUBSET P |-> body(iter, p)]
  BY <1>3
<1>5. iter[{}] = 0
  BY <1>4
<1>6. iter[P] = b[k].bytes
  <2>1. iter[P] = body(iter, P)
    BY <1>4
  <2>2. P # {} /\ (CHOOSE x \in P : TRUE) = k /\ P \ {k} = {}
    OBVIOUS
  <2>3. iter[P] = b[k].bytes + iter[{}]
    BY <2>1, <2>2, Zenon
  <2> QED
    BY <1>5, <2>3
<1> QED
  BY <1>1, <1>6

(* So what is left of a batch is what is left without its first event, and *)
(* that event.                                                             *)
LEMMA BytesStep ==
  ASSUME NEW b \in Seq(Events), OneEach(b), NEW i \in 1..Len(b), NEW s
  PROVE  /\ BytesFrom(b, i, s) \in Nat
         /\ b[i].service = s => BytesFrom(b, i, s) = b[i].bytes /\ BytesFrom(b, i + 1, s) = 0
         /\ b[i].service # s => BytesFrom(b, i, s) = BytesFrom(b, i + 1, s)
<1>1. \A j \in 1..Len(b) : b[j] \in Events /\ b[j].bytes \in Nat
  <2>1. MaxBytes \in Nat
    BY ObserverAssumption
  <2>2. \A e \in Events : e.bytes \in Nat
    BY <2>1 DEF Events
  <2>3. \A j \in 1..Len(b) : b[j] \in Events
    OBVIOUS
  <2> QED
    BY <2>2, <2>3
<1>2. CASE b[i].service = s
  <2>1. PlacesFrom(b, i, s) = {i} /\ PlacesFrom(b, i + 1, s) = {}
    BY <1>2 DEF PlacesFrom, OneEach
  <2> QED
    BY <1>1, <1>2, <2>1, NoBytes, BytesOfOne
<1>3. CASE b[i].service # s
  <2>1. PlacesFrom(b, i, s) = PlacesFrom(b, i + 1, s)
    BY <1>3 DEF PlacesFrom
  <2>2. BytesFrom(b, i, s) = BytesFrom(b, i + 1, s)
    BY <2>1 DEF BytesFrom, PlacesFrom
  <2>3. BytesFrom(b, i, s) \in Nat
    <3>1. CASE PlacesFrom(b, i, s) = {}
      BY <3>1, NoBytes
    <3>2. CASE PlacesFrom(b, i, s) # {}
      <4>1. PICK k : k \in PlacesFrom(b, i, s)
        BY <3>2
      <4>2. k \in 1..Len(b) /\ PlacesFrom(b, i, s) = {k}
        BY <4>1 DEF PlacesFrom, OneEach
      <4> QED
        BY <1>1, <4>2, BytesOfOne
    <3> QED
      BY <3>1, <3>2
  <2> QED
    BY <1>3, <2>2, <2>3
<1> QED
  BY <1>2, <1>3

-----------------------------------------------------------------------------
(* Gost's observer: what is charged *)

(* The inductive invariant: besides the types, a batch has an event of a   *)
(* service at most once; there is no handler without a batch; what an      *)
(* error kept from being reported is known to be dropped.                  *)
ObserverInv ==
    /\ ObserverTypeOK
    /\ \A s \in Metered : counted[s] <= carried[s]
    /\ OneEach(batch) /\ Len(batch) <= Cardinality(Metered)
    /\ batch = <<>> => observer.step = "idle"
    /\ observer.step = "idle" => observer.next = 1
    /\ observer.next <= Len(batch) + 1
    /\ observer.step = "answer" => ServicesFrom(observer.next) \subseteq dropped
    /\ ObservedUnlessFault

(* What is due of a service is a number.                                   *)
LEMMA DueIsNat ==
  ASSUME ObserverInv, NEW s \in Metered
  PROVE  Due(s) \in Nat /\ BytesFrom(batch, observer.next, s) \in Nat
<1>1. batch \in Seq(Events) /\ OneEach(batch) /\ counted[s] \in Nat
  BY ObserverAssumption DEF ObserverInv, ObserverTypeOK, Events
<1>2. PICK n : n = observer.next
  OBVIOUS
<1>3. n \in 1..Len(batch) \/ n = Len(batch) + 1
  <2>1. PICK m \in Nat : m = Len(batch)
    BY <1>1
  <2>2. n \in Nat /\ n >= 1 /\ n <= m + 1
    BY <1>2, <2>1, FS_CardinalityType, ObserverAssumption DEF ObserverInv, ObserverTypeOK
  <2> QED
    BY <2>1, <2>2
<1>4. CASE n \in 1..Len(batch)
  BY <1>1, <1>2, <1>4, BytesStep DEF Due
<1>5. CASE n = Len(batch) + 1
  <2>1. PlacesFrom(batch, n, s) = {}
    BY <1>1, <1>5 DEF PlacesFrom
  <2> QED
    BY <1>1, <1>2, <2>1, NoBytes DEF Due
<1> QED
  BY <1>3, <1>4, <1>5

(* A service carries a byte.                                               *)
LEMMA CarryKeeps ==
  ASSUME ObserverInv, NEW s \in Metered, Carry(s)
  PROVE  ObserverInv'
<1>1. batch' = batch /\ observer' = observer /\ added' = added /\ dropped' = dropped /\ repeated' = repeated /\ stops' = stops
  BY DEF Carry
<1>2. \A r \in Metered : counted[r] \in 0..MaxBytes /\ carried[r] \in 0..MaxBytes /\ counted[r] <= carried[r]
  BY DEF ObserverInv, ObserverTypeOK
<1>3. MaxBytes \in Nat
  BY ObserverAssumption
<1>4. PICK u, v : u = counted[s] + 1 /\ v = carried[s] + 1
  OBVIOUS
<1>5. u \in 0..MaxBytes /\ v \in 0..MaxBytes /\ u <= v
  BY <1>2, <1>3, <1>4 DEF Carry
<1>6. /\ counted' \in [Metered -> 0..MaxBytes] /\ carried' \in [Metered -> 0..MaxBytes]
      /\ \A r \in Metered : counted'[r] = IF r = s THEN u ELSE counted[r]
      /\ \A r \in Metered : carried'[r] = IF r = s THEN v ELSE carried[r]
  BY <1>4, <1>5 DEF Carry, ObserverInv, ObserverTypeOK
<1>7. ObserverTypeOK'
  BY <1>1, <1>6 DEF ObserverInv, ObserverTypeOK
<1>8. ASSUME NEW r \in Metered, r[1] = "tcp"
      PROVE  LET known == added'[r[2]] + Due(r)'
             IN  (known < carried'[r] => r \in dropped') /\ (known > carried'[r] => r \in repeated')
  <2>1. PICK a, w : a = added[r[2]] /\ w = BytesFrom(batch, observer.next, r)
    OBVIOUS
  <2>2. a \in Nat /\ w \in Nat
    BY <1>8, <2>1, DueIsNat, ObserverAssumption DEF ObserverInv, ObserverTypeOK
  <2>3. Due(r) = counted[r] + w /\ Due(r)' = counted'[r] + w
    BY <1>1, <2>1 DEF Due
  <2>4. /\ a + (counted[r] + w) < carried[r] => r \in dropped
        /\ a + (counted[r] + w) > carried[r] => r \in repeated
    BY <1>8, <2>1, <2>3 DEF ObserverInv, ObservedUnlessFault
  <2>5. PICK c, k, c1, k1 : c = counted[r] /\ k = carried[r] /\ c1 = counted'[r] /\ k1 = carried'[r]
    OBVIOUS
  <2>6. c \in Nat /\ k \in Nat /\ ((c1 = c /\ k1 = k) \/ (c1 = c + 1 /\ k1 = k + 1))
    BY <1>2, <1>3, <1>4, <1>6, <2>5
  <2>7. /\ a + (c1 + w) < k1 => a + (c + w) < k
        /\ a + (c1 + w) > k1 => a + (c + w) > k
    BY <2>1, <2>2, <2>6
  <2> QED
    BY <1>1, <2>1, <2>3, <2>4, <2>5, <2>7
<1>9. ObservedUnlessFault'
  BY <1>8 DEF ObservedUnlessFault
<1>10. \A r \in Metered : counted'[r] <= carried'[r]
  BY <1>2, <1>5, <1>6
<1>11. OneEach(batch)' /\ ServicesFrom(observer.next)' = ServicesFrom(observer.next)
  BY <1>1 DEF OneEach, ServicesFrom, ObserverInv
<1> QED
  BY <1>1, <1>7, <1>9, <1>10, <1>11 DEF ObserverInv

(* A batch has one event of every service that has bytes, in some order.   *)
LEMMA BatchFacts ==
  ASSUME ObserverInv, NEW order \in SetToSeqs(Busy), NEW b, b = BatchOf(order)
  PROVE  /\ b \in Seq(Events) /\ OneEach(b) /\ Len(b) <= Cardinality(Metered)
         /\ \A s \in Metered : BytesFrom(b, 1, s) = counted[s]
<1>1. PICK n : n = Cardinality(Busy)
  OBVIOUS
<1>2. IsFiniteSet(Busy) /\ n \in Nat /\ n <= Cardinality(Metered)
  <2>1. Busy \in SUBSET Metered /\ IsFiniteSet(Metered)
    BY ObserverAssumption DEF Busy
  <2> QED
    BY <1>1, <2>1, FS_Subset, FS_CardinalityType
<1>3. order \in [1..n -> Busy] /\ \A i, j \in 1..n : i # j => order[i] # order[j]
  BY <1>1 DEF SetToSeqs
<1>4. \A s \in Busy : \E i \in 1..n : order[i] = s
  <2>1. order \in Injection(1..n, Busy)
    BY <1>3 DEF Injection, IsInjective
  <2>2. Cardinality(1..n) = n
    BY <1>2, FS_Interval
  <2>3. order \in Surjection(1..n, Busy)
    BY <1>1, <1>2, <2>1, <2>2, FS_Injection
  <2> QED
    BY <2>3 DEF Surjection
<1>5. \A s \in Busy : s \in Metered /\ counted[s] \in 1..MaxBytes
  <2>1. \A s \in Metered : counted[s] \in 0..MaxBytes
    BY DEF ObserverInv, ObserverTypeOK
  <2>2. MaxBytes \in Nat
    BY ObserverAssumption
  <2> QED
    BY <2>1, <2>2 DEF Busy
<1>6. b = [i \in 1..n |-> [service |-> order[i], bytes |-> counted[order[i]]]]
  BY <1>3 DEF BatchOf
<1>7. \A i \in 1..n : [service |-> order[i], bytes |-> counted[order[i]]] \in Events
  BY <1>3, <1>5 DEF Events
<1>8. b \in Seq(Events) /\ Len(b) = n
  BY <1>2, <1>6, <1>7
<1>9. \A i \in 1..n : b[i].service = order[i] /\ b[i].bytes = counted[order[i]]
  BY <1>6
<1>10. OneEach(b)
  BY <1>3, <1>8, <1>9 DEF OneEach
<1>11. ASSUME NEW s \in Metered PROVE BytesFrom(b, 1, s) = counted[s]
  <2>1. CASE s \in Busy
    <3>1. PICK i \in 1..n : order[i] = s
      BY <1>4, <2>1
    <3>2. PICK o : o = 1
      OBVIOUS
    <3>4. PlacesFrom(b, o, s) = {i}
      BY <1>3, <1>8, <1>9, <3>1, <3>2 DEF PlacesFrom
    <3>3. b[i].bytes = counted[s] /\ b[i].bytes \in Nat
      BY <1>5, <1>9, <2>1, <3>1
    <3>5. BytesFrom(b, o, s) = b[i].bytes
      BY <3>3, <3>4, BytesOfOne, SMT
    <3> QED
      BY <3>2, <3>3, <3>5
  <2>2. CASE s \notin Busy
    <3>1. PlacesFrom(b, 1, s) = {}
      BY <1>3, <1>8, <1>9, <2>2 DEF PlacesFrom
    <3>2. counted[s] = 0
      <4>1. counted[s] \in Nat /\ ~(counted[s] > 0)
        BY <2>2, ObserverAssumption DEF Busy, ObserverInv, ObserverTypeOK
      <4> QED
        BY <4>1
    <3> QED
      BY <3>1, <3>2, NoBytes
  <2> QED
    BY <2>1, <2>2
<1> QED
  BY <1>2, <1>8, <1>10, <1>11

(* Gost makes a batch of what it counted.                                  *)
LEMMA ObserveKeeps ==
  ASSUME ObserverInv, Observe
  PROVE  ObserverInv'
<1>1. /\ observer' = observer /\ added' = added /\ dropped' = dropped /\ repeated' = repeated
      /\ stops' = stops /\ carried' = carried /\ counted' = [s \in Metered |-> 0]
      /\ batch = <<>> /\ observer.step = "idle" /\ observer.next = 1
  BY DEF Observe, ObserverInv
<1>2. PICK order \in SetToSeqs(Busy) : batch' = BatchOf(order)
  BY DEF Observe
<1>3. /\ batch' \in Seq(Events) /\ OneEach(batch') /\ Len(batch') <= Cardinality(Metered)
      /\ \A s \in Metered : BytesFrom(batch', 1, s) = counted[s]
  BY <1>2, BatchFacts
<1>4. ObserverTypeOK'
  <2>1. \A s \in Metered : 0 \in 0..MaxBytes
    BY ObserverAssumption
  <2>2. counted' \in [Metered -> 0..MaxBytes]
    BY <1>1, <2>1
  <2> QED
    BY <1>1, <1>3, <2>2 DEF ObserverInv, ObserverTypeOK, Events
<1>5. ASSUME NEW r \in Metered PROVE Due(r)' = Due(r)
  <2>1. PlacesFrom(batch, 1, r) = {}
    BY <1>1 DEF PlacesFrom
  <2>2. BytesFrom(batch, 1, r) = 0
    BY <2>1, NoBytes
  <2>3. Due(r) = counted[r] + 0 /\ Due(r)' = 0 + counted[r]
    BY <1>1, <1>3, <2>2 DEF Due
  <2>4. counted[r] \in Nat
    BY ObserverAssumption DEF ObserverInv, ObserverTypeOK
  <2> QED
    BY <2>3, <2>4
<1>6. ObservedUnlessFault'
  BY <1>1, <1>5 DEF ObserverInv, ObservedUnlessFault
<1>7. \A s \in Metered : counted'[s] <= carried'[s]
  BY <1>1, ObserverAssumption DEF ObserverInv, ObserverTypeOK
<1>8. observer'.next <= Len(batch') + 1
  <2>1. Len(batch') \in Nat
    BY <1>3
  <2> QED
    BY <1>1, <2>1
<1>9. OneEach(batch)'
  BY <1>3 DEF OneEach
<1> QED
  BY <1>1, <1>3, <1>4, <1>6, <1>7, <1>8, <1>9 DEF ObserverInv

(* It sends the batch.                                                     *)
LEMMA SendKeeps ==
  ASSUME ObserverInv, SendBatch
  PROVE  ObserverInv'
<1>1. /\ counted' = counted /\ batch' = batch /\ added' = added /\ dropped' = dropped
      /\ repeated' = repeated /\ stops' = stops /\ carried' = carried
      /\ batch # <<>> /\ observer.step = "idle" /\ observer.next = 1
      /\ observer'.step = "loop" /\ observer'.next = 1 /\ observer' = [step |-> "loop", next |-> 1]
  BY DEF SendBatch, ObserverInv
<1>2. 1 \in 1..Cardinality(Metered) + 1
  BY FS_CardinalityType, ObserverAssumption
<1>3. ObserverTypeOK'
  BY <1>1, <1>2 DEF ObserverInv, ObserverTypeOK
<1>4. \A r \in Metered : Due(r)' = Due(r)
  BY <1>1 DEF Due
<1>5. ObservedUnlessFault'
  BY <1>1, <1>4 DEF ObserverInv, ObservedUnlessFault
<1>6. OneEach(batch)'
  BY <1>1 DEF OneEach, ObserverInv
<1> QED
  BY <1>1, <1>3, <1>5, <1>6 DEF ObserverInv

(* The event the handler is at, and what is left of the batch behind it.   *)
LEMMA EventFacts ==
  ASSUME ObserverInv, Looping, NEW n, n = observer.next
  PROVE  /\ n \in 1..Len(batch) /\ n \in Nat /\ batch[n] \in Events /\ batch[n].bytes \in Nat
         /\ n + 1 \in 1..Cardinality(Metered) + 1 /\ n + 1 <= Len(batch) + 1
         /\ \A r \in Metered :
              /\ BytesFrom(batch, n, r) \in Nat /\ BytesFrom(batch, n + 1, r) \in Nat
              /\ batch[n].service = r => BytesFrom(batch, n, r) = batch[n].bytes /\ BytesFrom(batch, n + 1, r) = 0
              /\ batch[n].service # r => BytesFrom(batch, n, r) = BytesFrom(batch, n + 1, r)
<1>1. batch \in Seq(Events) /\ OneEach(batch) /\ Len(batch) <= Cardinality(Metered)
  BY DEF ObserverInv, ObserverTypeOK, Events
<1>2. PICK m \in Nat, k \in Nat : m = Len(batch) /\ k = Cardinality(Metered)
  BY <1>1, FS_CardinalityType, ObserverAssumption
<1>3. n \in 1..k + 1 /\ n <= m /\ m <= k
  BY <1>1, <1>2 DEF ObserverInv, ObserverTypeOK, Looping
<1>4. n \in 1..Len(batch) /\ n \in Nat /\ n + 1 \in 1..k + 1 /\ n + 1 <= m + 1
  BY <1>2, <1>3
<1>5. batch[n] \in Events
  BY <1>1, <1>4
<1>6. batch[n].bytes \in Nat
  BY <1>5, ObserverAssumption DEF Events
<1>7. ASSUME NEW r \in Metered
      PROVE  /\ BytesFrom(batch, n, r) \in Nat
             /\ batch[n].service = r => BytesFrom(batch, n, r) = batch[n].bytes /\ BytesFrom(batch, n + 1, r) = 0
             /\ batch[n].service # r => BytesFrom(batch, n, r) = BytesFrom(batch, n + 1, r)
  BY <1>1, <1>4, BytesStep
<1> QED
  BY <1>2, <1>4, <1>5, <1>6, <1>7

(* The handler goes past an event: one it ignores, or one whose bytes were *)
(* added.                                                                  *)
LEMMA PassKeeps ==
  ASSUME ObserverInv, Looping, NEW st \in {"loop", "answer"}, observer' = [step |-> st, next |-> observer.next + 1],
         counted' = counted, batch' = batch, carried' = carried, repeated' = repeated, stops' = stops,
         dropped \subseteq dropped', dropped' \subseteq Metered,
         st = "answer" => ServicesFrom(observer.next + 1) \subseteq dropped',
         (Ignored /\ added' = added) \/ (~Ignored /\ Charge)
  PROVE  ObserverInv'
<1>1. PICK n : n = observer.next
  OBVIOUS
<1>2. /\ n \in 1..Len(batch) /\ n \in Nat /\ batch[n] \in Events /\ batch[n].bytes \in Nat
      /\ n + 1 \in 1..Cardinality(Metered) + 1 /\ n + 1 <= Len(batch) + 1
      /\ \A r \in Metered :
           /\ BytesFrom(batch, n, r) \in Nat /\ BytesFrom(batch, n + 1, r) \in Nat
           /\ batch[n].service = r => BytesFrom(batch, n, r) = batch[n].bytes /\ BytesFrom(batch, n + 1, r) = 0
           /\ batch[n].service # r => BytesFrom(batch, n, r) = BytesFrom(batch, n + 1, r)
  BY <1>1, EventFacts
<1>3. observer'.next = n + 1 /\ observer'.step = st
  BY <1>1
<1>4. PICK s : s = batch[n].service
  OBVIOUS
<1>5. s \in Metered /\ s \in {"tcp", "udp", "chain"} \X RulePorts
  BY <1>2, <1>4, ObserverAssumption DEF Events
<1>6. Event = batch[n] /\ (Ignored <=> s[1] \in {"udp", "chain"})
  BY <1>1, <1>4 DEF Event, Ignored
<1>7. \A p \in RulePorts : added[p] \in Nat
  BY DEF ObserverInv, ObserverTypeOK
<1>8. ASSUME ~Ignored, Charge
      PROVE  /\ added' \in [RulePorts -> Nat]
             /\ \A r \in Metered : r[1] = "tcp" => added'[r[2]] + Due(r)' = added[r[2]] + Due(r)
  <2>1. s[1] = "tcp" /\ s[2] \in RulePorts
    BY <1>5, <1>6, <1>8
  <2>2. PICK x \in Nat : x = batch[n].bytes
    BY <1>2
  <2>3. PICK z : z = added[s[2]] + x
    OBVIOUS
  <2>4. z \in Nat
    BY <1>7, <2>1, <2>2, <2>3
  <2>5. added' = [added EXCEPT ![s[2]] = z]
    BY <1>4, <1>6, <1>8, <2>1, <2>2, <2>3 DEF Charge, ObserverInv, ObserverTypeOK
  <2>6. added' \in [RulePorts -> Nat] /\ \A p \in RulePorts : added'[p] = IF p = s[2] THEN z ELSE added[p]
    BY <2>4, <2>5 DEF ObserverInv, ObserverTypeOK
  <2>7. ASSUME NEW r \in Metered, r[1] = "tcp" PROVE added'[r[2]] + Due(r)' = added[r[2]] + Due(r)
    <3>1. PICK a, c, w, u : a = added[r[2]] /\ c = counted[r] /\ w = BytesFrom(batch, n, r) /\ u = BytesFrom(batch, n + 1, r)
      OBVIOUS
    <3>2. a \in Nat /\ c \in Nat /\ w \in Nat /\ u \in Nat /\ r[2] \in RulePorts
      <4>1. r \in {"tcp", "udp", "chain"} \X RulePorts
        BY ObserverAssumption
      <4>2. r[2] \in RulePorts
        BY <4>1
      <4>3. c \in 0..MaxBytes /\ MaxBytes \in Nat
        BY <3>1, ObserverAssumption DEF ObserverInv, ObserverTypeOK
      <4>4. w \in Nat /\ u \in Nat
        BY <1>2, <3>1
      <4> QED
        BY <1>7, <3>1, <4>2, <4>3, <4>4
    <3>3. Due(r) = c + w /\ Due(r)' = c + u
      BY <1>1, <1>3, <3>1 DEF Due
    <3>4. CASE r = s
      <4>1. w = x /\ u = 0 /\ z = a + x
        BY <1>2, <1>4, <2>2, <2>3, <3>1, <3>4
      <4>2. added'[r[2]] = z
        BY <2>1, <2>6, <3>4
      <4> QED
        BY <2>2, <3>1, <3>2, <3>3, <4>1, <4>2
    <3>5. CASE r # s
      <4>1. r[2] # s[2]
        <5>1. r \in {"tcp", "udp", "chain"} \X RulePorts
          BY ObserverAssumption
        <5> QED
          BY <1>5, <2>1, <2>7, <3>5, <5>1
      <4>2. added'[r[2]] = a /\ u = w
        BY <1>2, <1>4, <2>6, <3>1, <3>2, <3>5, <4>1
      <4> QED
        BY <3>1, <3>3, <4>2
    <3> QED
      BY <3>4, <3>5
  <2> QED
    BY <2>6, <2>7
<1>9. ASSUME Ignored, added' = added
      PROVE  /\ added' \in [RulePorts -> Nat]
             /\ \A r \in Metered : r[1] = "tcp" => added'[r[2]] + Due(r)' = added[r[2]] + Due(r)
  <2>1. s[1] # "tcp"
    BY <1>6, <1>9
  <2>2. ASSUME NEW r \in Metered, r[1] = "tcp" PROVE added'[r[2]] + Due(r)' = added[r[2]] + Due(r)
    <3>1. BytesFrom(batch, n, r) = BytesFrom(batch, n + 1, r)
      BY <1>2, <1>4, <2>1, <2>2
    <3> QED
      BY <1>1, <1>3, <1>9, <3>1 DEF Due
  <2>3. added' \in [RulePorts -> Nat]
    BY <1>9 DEF ObserverInv, ObserverTypeOK
  <2> QED
    BY <2>2, <2>3
<1>10. /\ added' \in [RulePorts -> Nat]
       /\ \A r \in Metered : r[1] = "tcp" => added'[r[2]] + Due(r)' = added[r[2]] + Due(r)
  BY <1>8, <1>9
<1>11. ObserverTypeOK'
  BY <1>1, <1>2, <1>10 DEF ObserverInv, ObserverTypeOK
<1>12. ObservedUnlessFault'
  BY <1>10 DEF ObserverInv, ObservedUnlessFault
<1>13. OneEach(batch)'
  BY DEF ObserverInv, OneEach
<1>14. observer'.step = "answer" => ServicesFrom(observer.next)' \subseteq dropped'
  BY <1>1, <1>3 DEF ServicesFrom
<1>15. batch # <<>>
  BY <1>2
<1> QED
  BY <1>2, <1>3, <1>11, <1>12, <1>13, <1>14, <1>15 DEF ObserverInv

(* The services of the rest of a batch are services.                       *)
LEMMA ServicesAre ==
  ASSUME ObserverInv, NEW i \in Nat, i >= 1
  PROVE  ServicesFrom(i) \subseteq Metered
<1>1. batch \in Seq(Events)
  BY DEF ObserverInv, ObserverTypeOK, Events
<1>2. \A j \in i..Len(batch) : j \in 1..Len(batch)
  BY <1>1
<1>3. \A j \in 1..Len(batch) : batch[j].service \in Metered
  <2>1. \A e \in Events : e.service \in Metered
    BY DEF Events
  <2> QED
    BY <1>1, <2>1
<1> QED
  BY <1>2, <1>3 DEF ServicesFrom

(* The three steps past an event.                                          *)
LEMMA EventKeeps ==
  ASSUME ObserverInv, SkipEvent \/ ReportEvent \/ EventUnanswered
  PROVE  ObserverInv'
<1>1. Looping /\ observer.step = "loop" /\ observer \in [step : {"idle", "loop", "answer"}, next : 1..Cardinality(Metered) + 1]
  BY DEF SkipEvent, ReportEvent, EventUnanswered, ObserverInv, ObserverTypeOK, Looping
<1>2. /\ Passed = [step |-> "loop", next |-> observer.next + 1]
      /\ [Passed EXCEPT !.step = "answer"] = [step |-> "answer", next |-> observer.next + 1]
  <2>1. PICK r, n : r = observer /\ n = observer.next + 1
    OBVIOUS
  <2>2. Passed = [r EXCEPT !.next = n]
    BY <2>1 DEF Passed
  <2>3. r \in [step : {"idle", "loop", "answer"}, next : 1..Cardinality(Metered) + 1] /\ r.step = "loop"
    BY <1>1, <2>1
  <2>4. [r EXCEPT !.next = n] = [step |-> "loop", next |-> n]
    BY <2>3
  <2>5. [[step |-> "loop", next |-> n] EXCEPT !.step = "answer"] = [step |-> "answer", next |-> n]
    OBVIOUS
  <2> QED
    BY <2>1, <2>2, <2>4, <2>5
<1>3. dropped \subseteq Metered /\ ServicesFrom(observer.next + 1) \subseteq Metered
  <2>1. PICK n : n = observer.next
    OBVIOUS
  <2>2. n \in Nat /\ n >= 1
    BY <1>1, <2>1, EventFacts
  <2> QED
    BY <2>1, <2>2, ServicesAre DEF ObserverInv, ObserverTypeOK
<1>4. CASE SkipEvent
  BY <1>1, <1>2, <1>3, <1>4, PassKeeps DEF SkipEvent
<1>5. CASE ReportEvent
  BY <1>1, <1>2, <1>3, <1>5, PassKeeps DEF ReportEvent
<1>6. CASE EventUnanswered
  BY <1>1, <1>2, <1>3, <1>6, PassKeeps DEF EventUnanswered
<1> QED
  BY <1>4, <1>5, <1>6

(* An event fails: it and what is behind it will be dropped.               *)
LEMMA RefusedKeeps ==
  ASSUME ObserverInv, EventRefused
  PROVE  ObserverInv'
<1>1. /\ counted' = counted /\ batch' = batch /\ added' = added /\ carried' = carried
      /\ repeated' = repeated /\ stops' = stops
      /\ dropped' = dropped \cup ServicesFrom(observer.next)
      /\ observer' = [observer EXCEPT !.step = "answer"] /\ Looping
  BY DEF EventRefused
<1>2. PICK n : n = observer.next
  OBVIOUS
<1>3. n \in Nat /\ n >= 1 /\ n \in 1..Cardinality(Metered) + 1 /\ batch # <<>>
  <2>1. n \in 1..Len(batch) /\ n \in Nat
    BY <1>1, <1>2, EventFacts
  <2> QED
    BY <1>2, <2>1 DEF ObserverInv, ObserverTypeOK
<1>4. ServicesFrom(n) \subseteq Metered
  BY <1>3, ServicesAre
<1>5. observer' = [step |-> "answer", next |-> n]
  BY <1>1, <1>2 DEF ObserverInv, ObserverTypeOK
<1>6. observer'.next = n /\ observer'.step = "answer"
  BY <1>5
<1>7. ObserverTypeOK'
  BY <1>1, <1>2, <1>3, <1>4, <1>5 DEF ObserverInv, ObserverTypeOK
<1>8. \A r \in Metered : Due(r)' = Due(r)
  BY <1>1, <1>2, <1>6 DEF Due
<1>9. ObservedUnlessFault'
  BY <1>1, <1>8 DEF ObserverInv, ObservedUnlessFault
<1>10. OneEach(batch)' /\ ServicesFrom(observer.next)' = ServicesFrom(n)
  BY <1>1, <1>2, <1>6 DEF OneEach, ObserverInv, ServicesFrom
<1> QED
  BY <1>1, <1>2, <1>3, <1>6, <1>7, <1>9, <1>10 DEF ObserverInv

(* What a service is due of a batch it is in.                              *)
LEMMA DueIsSome ==
  ASSUME ObserverInv, NEW n, n = observer.next, NEW s \in Metered, s \notin ServicesFrom(n)
  PROVE  BytesFrom(batch, n, s) = 0
<1>1. PlacesFrom(batch, n, s) = {}
  BY DEF PlacesFrom, ServicesFrom
<1> QED
  BY <1>1, NoBytes

(* Gost is answered, and forgets the batch.                                *)
LEMMA AnswerKeeps ==
  ASSUME ObserverInv, AnswerOk
  PROVE  ObserverInv'
<1>1. /\ counted' = counted /\ added' = added /\ carried' = carried /\ dropped' = dropped
      /\ repeated' = repeated /\ stops' = stops
      /\ batch' = <<>> /\ observer' = [step |-> "idle", next |-> 1]
  BY DEF AnswerOk, NoObserver
<1>2. observer'.step = "idle" /\ observer'.next = 1
  BY <1>1
<1>3. PICK n : n = observer.next
  OBVIOUS
<1>4. ServicesFrom(n) \subseteq dropped
  <2>1. CASE observer.step = "answer"
    BY <1>3, <2>1 DEF ObserverInv
  <2>2. CASE observer.next > Len(batch)
    <3>1. PICK m \in Nat : m = Len(batch)
      BY DEF ObserverInv, ObserverTypeOK
    <3>2. n \in Nat
      BY <1>3, FS_CardinalityType, ObserverAssumption DEF ObserverInv, ObserverTypeOK
    <3>3. n..m = {}
      BY <1>3, <2>2, <3>1, <3>2
    <3> QED
      BY <3>1, <3>3 DEF ServicesFrom
  <2> QED
    BY <2>1, <2>2 DEF AnswerOk
<1>5. 1 \in 1..Cardinality(Metered) + 1 /\ Cardinality(Metered) \in Nat
  BY FS_CardinalityType, ObserverAssumption
<1>6. ObserverTypeOK'
  BY <1>1, <1>5 DEF ObserverInv, ObserverTypeOK
<1>7. ASSUME NEW r \in Metered, r[1] = "tcp"
      PROVE  LET known == added'[r[2]] + Due(r)'
             IN  (known < carried'[r] => r \in dropped') /\ (known > carried'[r] => r \in repeated')
  <2>1. PICK a, c, w, k : a = added[r[2]] /\ c = counted[r] /\ w = BytesFrom(batch, n, r) /\ k = carried[r]
    OBVIOUS
  <2>2. a \in Nat /\ c \in Nat /\ w \in Nat /\ k \in Nat
    <3>1. r \in {"tcp", "udp", "chain"} \X RulePorts
      BY ObserverAssumption
    <3>2. r[2] \in RulePorts
      BY <3>1
    <3>3. c \in 0..MaxBytes /\ k \in 0..MaxBytes /\ MaxBytes \in Nat
      BY <2>1, ObserverAssumption DEF ObserverInv, ObserverTypeOK
    <3>4. w \in Nat
      BY <1>3, <2>1, DueIsNat
    <3>5. a \in Nat
      BY <2>1, <3>2 DEF ObserverInv, ObserverTypeOK
    <3> QED
      BY <3>3, <3>4, <3>5
  <2>3. Due(r) = c + w /\ Due(r)' = c + BytesFrom(<<>>, 1, r)
    BY <1>1, <1>2, <1>3, <2>1 DEF Due
  <2>4. BytesFrom(<<>>, 1, r) = 0
    <3>1. PlacesFrom(<<>>, 1, r) = {}
      BY DEF PlacesFrom
    <3> QED
      BY <3>1, NoBytes
  <2>5. (a + (c + w) < k => r \in dropped) /\ (a + (c + w) > k => r \in repeated)
    BY <1>7, <2>1, <2>3 DEF ObserverInv, ObservedUnlessFault
  <2>6. r \notin dropped => w = 0
    BY <1>3, <1>4, <2>1, DueIsSome
  <2>7. (a + (c + 0) < k => r \in dropped) /\ (a + (c + 0) > k => r \in repeated)
    BY <2>2, <2>5, <2>6
  <2> QED
    BY <1>1, <2>1, <2>3, <2>4, <2>7
<1>8. ObservedUnlessFault'
  BY <1>7 DEF ObservedUnlessFault
<1>9. OneEach(batch)' /\ Len(batch') = 0
  BY <1>1 DEF OneEach
<1> QED
  BY <1>1, <1>2, <1>5, <1>6, <1>8, <1>9 DEF ObserverInv

(* The agent stops: what was passed will be passed again.                  *)
LEMMA DiesKeeps ==
  ASSUME ObserverInv, ObserverDies
  PROVE  ObserverInv'
<1>1. PICK n : n = observer.next
  OBVIOUS
<1>2. /\ counted' = counted /\ added' = added /\ carried' = carried /\ dropped' = dropped
      /\ batch' = batch /\ observer' = [step |-> "idle", next |-> 1]
      /\ repeated' = repeated \cup { batch[i].service : i \in 1..n - 1 }
      /\ stops' = stops + 1 /\ stops < MaxStops
  BY <1>1 DEF ObserverDies, NoObserver
<1>3. observer'.step = "idle" /\ observer'.next = 1
  BY <1>2
<1>4. PICK m \in Nat, k \in Nat : m = Len(batch) /\ k = Cardinality(Metered)
  BY FS_CardinalityType, ObserverAssumption DEF ObserverInv, ObserverTypeOK
<1>5. n \in 1..m + 1 /\ n \in Nat /\ batch \in Seq(Events) /\ OneEach(batch)
  BY <1>1, <1>4 DEF ObserverInv, ObserverTypeOK, Events
<1>6. \A i \in 1..n - 1 : i \in 1..Len(batch)
  BY <1>4, <1>5
<1>7. \A i \in 1..n - 1 : batch[i].service \in Metered
  <2>1. \A e \in Events : e.service \in Metered
    BY DEF Events
  <2> QED
    BY <1>5, <1>6, <2>1
<1>8. 1 \in 1..Cardinality(Metered) + 1 /\ stops' \in 0..MaxStops
  BY <1>2, <1>4, ObserverAssumption DEF ObserverInv, ObserverTypeOK
<1>9. ObserverTypeOK'
  BY <1>2, <1>7, <1>8 DEF ObserverInv, ObserverTypeOK
<1>10. ASSUME NEW r \in Metered
       PROVE  /\ BytesFrom(batch, 1, r) \in Nat /\ BytesFrom(batch, 1, r) >= BytesFrom(batch, n, r)
              /\ r \notin repeated' => BytesFrom(batch, 1, r) = BytesFrom(batch, n, r)
  <2>1. BytesFrom(batch, n, r) \in Nat
    BY <1>1, DueIsNat
  <2>2. CASE \E i \in 1..n - 1 : batch[i].service = r
    <3>1. PICK i \in 1..n - 1 : batch[i].service = r
      BY <2>2
    <3>2. PICK o : o = 1
      OBVIOUS
    <3>3. PlacesFrom(batch, o, r) = {i} /\ PlacesFrom(batch, n, r) = {}
      BY <1>5, <1>6, <3>1, <3>2 DEF PlacesFrom, OneEach
    <3>4. batch[i].bytes \in Nat
      <4>1. \A e \in Events : e.bytes \in Nat
        BY ObserverAssumption DEF Events
      <4> QED
        BY <1>5, <1>6, <4>1
    <3>5. BytesFrom(batch, o, r) = batch[i].bytes /\ BytesFrom(batch, n, r) = 0
      BY <3>3, <3>4, BytesOfOne, NoBytes, SMT
    <3>6. r \in repeated'
      BY <1>2, <3>1
    <3> QED
      BY <3>2, <3>4, <3>5, <3>6
  <2>3. CASE ~\E i \in 1..n - 1 : batch[i].service = r
    <3>1. PICK o : o = 1
      OBVIOUS
    <3>2. PlacesFrom(batch, o, r) = PlacesFrom(batch, n, r)
      <4>1. \A j \in o..Len(batch) : j \in 1..n - 1 \/ j \in n..Len(batch)
        BY <1>4, <1>5, <3>1
      <4>2. \A j \in n..Len(batch) : j \in o..Len(batch)
        BY <1>4, <1>5, <3>1
      <4> QED
        BY <2>3, <4>1, <4>2 DEF PlacesFrom
    <3>3. BytesFrom(batch, o, r) = BytesFrom(batch, n, r)
      BY <3>2 DEF BytesFrom, PlacesFrom
    <3> QED
      BY <2>1, <3>1, <3>3
  <2> QED
    BY <2>2, <2>3
<1>11. ASSUME NEW r \in Metered, r[1] = "tcp"
      PROVE  LET known == added'[r[2]] + Due(r)'
             IN  (known < carried'[r] => r \in dropped') /\ (known > carried'[r] => r \in repeated')
  <2>1. PICK a, c, w, y, z : a = added[r[2]] /\ c = counted[r] /\ w = BytesFrom(batch, n, r) /\ y = BytesFrom(batch, 1, r) /\ z = carried[r]
    OBVIOUS
  <2>2. a \in Nat /\ c \in Nat /\ w \in Nat /\ y \in Nat /\ z \in Nat
    <3>1. r \in {"tcp", "udp", "chain"} \X RulePorts
      BY ObserverAssumption
    <3>2. r[2] \in RulePorts
      BY <3>1
    <3>3. c \in 0..MaxBytes /\ z \in 0..MaxBytes /\ MaxBytes \in Nat
      BY <2>1, ObserverAssumption DEF ObserverInv, ObserverTypeOK
    <3>4. w \in Nat /\ y \in Nat
      BY <1>1, <1>10, <2>1, DueIsNat
    <3>5. a \in Nat
      BY <2>1, <3>2 DEF ObserverInv, ObserverTypeOK
    <3> QED
      BY <3>3, <3>4, <3>5
  <2>3. Due(r) = c + w /\ Due(r)' = c + y
    BY <1>1, <1>2, <1>3, <2>1 DEF Due
  <2>4. (a + (c + w) < z => r \in dropped) /\ (a + (c + w) > z => r \in repeated)
    BY <1>11, <2>1, <2>3 DEF ObserverInv, ObservedUnlessFault
  <2>5. y >= w /\ (r \notin repeated' => y = w)
    BY <1>10, <2>1
  <2>6. repeated \subseteq repeated'
    BY <1>2
  <2>7. (a + (c + y) < z => r \in dropped) /\ (a + (c + y) > z => r \in repeated')
    BY <2>2, <2>4, <2>5, <2>6
  <2> QED
    BY <1>2, <2>1, <2>3, <2>7
<1>12. ObservedUnlessFault'
  BY <1>11 DEF ObservedUnlessFault
<1>13. OneEach(batch)'
  BY <1>2, <1>5 DEF OneEach
<1>14. observer'.next <= Len(batch') + 1
  BY <1>2, <1>3, <1>4
<1> QED
  BY <1>2, <1>3, <1>9, <1>12, <1>13, <1>14 DEF ObserverInv

(* The invariant of gost's observer.                                       *)
THEOREM ObserverSound == ObserverSpec => []ObserverInv
<1>1. ObserverInit => ObserverInv
  <2> SUFFICES ASSUME ObserverInit PROVE ObserverInv
    OBVIOUS
  <2>1. Cardinality(Metered) \in Nat /\ MaxBytes \in Nat /\ MaxStops \in Nat
    BY FS_CardinalityType, ObserverAssumption
  <2>2. ObserverTypeOK
    BY <2>1 DEF ObserverInit, ObserverTypeOK, NoObserver
  <2>3. batch = <<>> /\ observer = [step |-> "idle", next |-> 1]
    BY DEF ObserverInit, NoObserver
  <2>4. OneEach(batch) /\ Len(batch) = 0
    BY <2>3 DEF OneEach
  <2>5. ASSUME NEW r \in Metered PROVE added[r[2]] + Due(r) = carried[r]
    <3>1. r \in {"tcp", "udp", "chain"} \X RulePorts
      BY ObserverAssumption
    <3>2. added[r[2]] = 0 /\ counted[r] = 0 /\ carried[r] = 0
      BY <3>1 DEF ObserverInit
    <3>3. PlacesFrom(batch, observer.next, r) = {}
      BY <2>3 DEF PlacesFrom
    <3>4. BytesFrom(batch, observer.next, r) = 0
      BY <3>3, NoBytes
    <3> QED
      BY <3>2, <3>4 DEF Due
  <2>6. ObservedUnlessFault
    <3>1. \A r \in Metered : carried[r] = 0
      BY DEF ObserverInit
    <3> QED
      BY <2>5, <3>1 DEF ObservedUnlessFault
  <2> QED
    BY <2>1, <2>2, <2>3, <2>4, <2>6 DEF ObserverInv, ObserverInit
<1>2. ObserverInv /\ ObserverNext => ObserverInv'
  BY CarryKeeps, ObserveKeeps, SendKeeps, EventKeeps, RefusedKeeps, AnswerKeeps, DiesKeeps DEF ObserverNext
<1>3. ObserverInv /\ UNCHANGED observerVars => ObserverInv'
  <2> SUFFICES ASSUME ObserverInv, UNCHANGED observerVars PROVE ObserverInv'
    OBVIOUS
  <2>1. /\ counted' = counted /\ batch' = batch /\ observer' = observer /\ added' = added
        /\ carried' = carried /\ dropped' = dropped /\ repeated' = repeated /\ stops' = stops
    BY DEF observerVars
  <2>2. ObserverTypeOK' /\ OneEach(batch)' /\ ServicesFrom(observer.next)' = ServicesFrom(observer.next)
    BY <2>1 DEF ObserverInv, ObserverTypeOK, OneEach, ServicesFrom
  <2>3. \A r \in Metered : Due(r)' = Due(r)
    BY <2>1 DEF Due
  <2>4. ObservedUnlessFault'
    BY <2>1, <2>3 DEF ObserverInv, ObservedUnlessFault
  <2> QED
    BY <2>1, <2>2, <2>4 DEF ObserverInv
<1> QED
  BY <1>1, <1>2, <1>3, PTL DEF ObserverSpec

(* A port is charged what its tcp service carried: less only if an error   *)
(* of the controller dropped an event, since gost is told that all is      *)
(* well; more only if the agent stopped within a batch.                    *)
THEOREM Observed == ObserverSpec => []ObservedUnlessFault
<1>1. ObserverInv => ObservedUnlessFault
  BY DEF ObserverInv
<1> QED
  BY <1>1, ObserverSound, PTL
=============================================================================
