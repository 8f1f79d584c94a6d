---------------------------- MODULE GostObserver ----------------------------
(***************************************************************************)
(* How traffic is charged on a node in gost mode: gost counts the bytes of *)
(* every service and sends what was added since it sent last, as a batch   *)
(* of events, to the agent.  The agent's handler passes on the events of   *)
(* tcp services, one by one, to the controller's reportNetworkTraffic, and *)
(* returns at the first error; gost is answered "ok" whatever happened.    *)
(*                                                                         *)
(* gost keeps a batch until it is answered, and sends it again when it is  *)
(* not.  Rates and the controller's rows are TrafficReport's; that gost    *)
(* itself stops, and loses its counts, is left out.                        *)
(***************************************************************************)
EXTENDS Naturals, Sequences, SequencesExt, FiniteSets, FiniteSetsExt

CONSTANTS
    RulePorts,
    Metered,    \* the services of gost: their kind and port
    MaxBytes,   \* bound on the bytes of a service
    MaxStops    \* bound on the stops of the agent

ASSUME ObserverAssumption ==
    /\ Metered \subseteq {"tcp", "udp", "chain"} \X RulePorts
    /\ IsFiniteSet(Metered)
    /\ {MaxBytes, MaxStops} \subseteq Nat

VARIABLES
    counted,   \* bytes of each service that gost has not sent
    batch,     \* the events gost has no answer to
    observer,  \* the agent's handler and its place in the batch
    added,     \* bytes added to the rule of each port
    carried,   \* history: all bytes of each service
    dropped,   \* history: services one of whose events no report was made of
    repeated,  \* history: services whose event was added, and sent again
    stops

observerVars == <<counted, batch, observer, added, carried, dropped, repeated, stops>>

ObserverTypeOK ==
    /\ counted \in [Metered -> 0..MaxBytes] /\ carried \in [Metered -> 0..MaxBytes]
    /\ batch \in Seq([service : Metered, bytes : 1..MaxBytes])
    /\ observer \in [step : {"idle", "loop", "answer"}, next : 1..Cardinality(Metered) + 1]
    /\ added \in [RulePorts -> Nat]
    /\ dropped \subseteq Metered /\ repeated \subseteq Metered
    /\ stops \in 0..MaxStops

NoObserver == [step |-> "idle", next |-> 1]

ObserverInit ==
    /\ counted = [s \in Metered |-> 0] /\ carried = [s \in Metered |-> 0]
    /\ batch = <<>> /\ observer = NoObserver
    /\ added = [p \in RulePorts |-> 0]
    /\ dropped = {} /\ repeated = {} /\ stops = 0

-----------------------------------------------------------------------------
(* gost *)

Carry(s) ==
    /\ carried[s] < MaxBytes
    /\ counted' = [counted EXCEPT ![s] = @ + 1]
    /\ carried' = [carried EXCEPT ![s] = @ + 1]
    /\ UNCHANGED <<batch, observer, added, dropped, repeated, stops>>

BatchOf(order) == [i \in DOMAIN order |-> [service |-> order[i], bytes |-> counted[order[i]]]]

Busy == { s \in Metered : counted[s] > 0 }

(* Mutant: "observer.resetTraffic" is not set, and gost sends totals.      *)
ObserveTotals ==
    /\ batch = <<>> /\ Busy # {}
    /\ \E order \in SetToSeqs(Busy) : batch' = BatchOf(order)
    /\ UNCHANGED <<counted, observer, added, carried, dropped, repeated, stops>>

(* Services are added with "observer.resetTraffic": the count starts again.*)
Observe ==
    /\ batch = <<>> /\ Busy # {}
    /\ \E order \in SetToSeqs(Busy) : batch' = BatchOf(order)
    /\ counted' = [s \in Metered |-> 0]
    /\ UNCHANGED <<observer, added, carried, dropped, repeated, stops>>

SendBatch ==
    /\ batch # <<>> /\ observer.step = "idle"
    /\ observer' = [step |-> "loop", next |-> 1]
    /\ UNCHANGED <<counted, batch, added, carried, dropped, repeated, stops>>

-----------------------------------------------------------------------------
(* The agent: observerNetworkTraffic                                       *)

Looping == observer.step = "loop" /\ observer.next <= Len(batch)
Event   == batch[observer.next]
Ignored == Event.service[1] \in {"udp", "chain"}
Passed  == [observer EXCEPT !.next = @ + 1]
ServicesFrom(i) == { batch[j].service : j \in i..Len(batch) }

SkipEvent ==
    /\ Looping /\ Ignored
    /\ observer' = Passed
    /\ UNCHANGED <<counted, batch, added, carried, dropped, repeated, stops>>

Charge == added' = [added EXCEPT ![Event.service[2]] = @ + Event.bytes]

ReportEvent ==
    /\ Looping /\ ~Ignored
    /\ Charge
    /\ observer' = Passed
    /\ UNCHANGED <<counted, batch, carried, dropped, repeated, stops>>

(* The controller is not reached, or answers with an error.                *)
EventRefused ==
    /\ Looping /\ ~Ignored
    /\ observer' = [observer EXCEPT !.step = "answer"]
    /\ dropped' = dropped \cup ServicesFrom(observer.next)
    /\ UNCHANGED <<counted, batch, added, carried, repeated, stops>>

(* The bytes were added to the rule, and an error came back all the same.  *)
EventUnanswered ==
    /\ Looping /\ ~Ignored
    /\ Charge
    /\ observer' = [Passed EXCEPT !.step = "answer"]
    /\ dropped' = dropped \cup ServicesFrom(observer.next + 1)
    /\ UNCHANGED <<counted, batch, carried, repeated, stops>>

(* DataSrv answers ok, whatever observerNetworkTraffic returned.           *)
AnswerOk ==
    /\ observer.step = "answer" \/ (observer.step = "loop" /\ observer.next > Len(batch))
    /\ batch' = <<>>
    /\ observer' = NoObserver
    /\ UNCHANGED <<counted, added, carried, dropped, repeated, stops>>

(* The agent stops before it has answered.                                 *)
ObserverDies ==
    /\ stops < MaxStops
    /\ stops' = stops + 1
    /\ observer.step # "idle"
    /\ observer' = NoObserver
    /\ repeated' = repeated \cup { batch[i].service : i \in 1..observer.next - 1 }
    /\ UNCHANGED <<counted, batch, added, carried, dropped>>

ObserverNext ==
    \/ \E s \in Metered : Carry(s)
    \/ Observe \/ SendBatch
    \/ SkipEvent \/ ReportEvent \/ EventRefused \/ EventUnanswered
    \/ AnswerOk \/ ObserverDies

ObserverSpec == ObserverInit /\ [][ObserverNext]_observerVars

-----------------------------------------------------------------------------
(* Bytes of a service in a batch from its i-th event on.                   *)
BytesFrom(events, i, s) ==
    MapThenSumSet(LAMBDA j : events[j].bytes, { j \in i..Len(events) : events[j].service = s })

(* Bytes of a service that are still to be charged.                        *)
Due(s) == counted[s] + BytesFrom(batch, observer.next, s)

(* A port is charged what its tcp service carried, no udp and no chain     *)
(* service adding to it: less only if the report of an event failed, which *)
(* drops that event and all behind it in the batch, since gost is told     *)
(* that all is well; more only if the agent stopped within a batch.        *)
ObservedUnlessFault ==
    \A s \in Metered : s[1] = "tcp" =>
        LET known == added[s[2]] + Due(s) IN
        /\ known < carried[s] => s \in dropped
        /\ known > carried[s] => s \in repeated
=============================================================================
