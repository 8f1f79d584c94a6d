--------------------------- MODULE TrafficReport ---------------------------
(***************************************************************************)
(* How traffic is charged, for one port of one node.  A TCPConnector or    *)
(* TLSConnector counts the bytes it copies in curTraffic, and its own      *)
(* goroutine (reportCurTraffic), which never ends, sends the count to the  *)
(* controller's reportNetworkTraffic.  That handler finds the rule of the  *)
(* port, adds to its traffic and to the user's row of the day, and         *)
(* answers; the goroutine then stores 0 in the counter, or keeps it after  *)
(* an error and sends it again.                                            *)
(*                                                                         *)
(* Actors: the reporter of each connector, its handler in the controller,  *)
(* and the environment: connections that move bytes, requests that add and *)
(* delete the port's rule (atomic here, see ControlPlane), the date, a     *)
(* crash of the agent.  A fault is a failed write or a lost answer.  The   *)
(* record "left" bounds the environment: bytes, faults, rule changes,      *)
(* changes of the date and (in PlanReset) reports of the user's other      *)
(* ports and plans.  Rates are integers here, float32 in the code.         *)
(***************************************************************************)
EXTENDS Naturals, FiniteSets, FiniteSetsExt

CONSTANTS
    Conns,      \* identities of connectors
    Users,
    None,
    Days,       \* the dates that may come, as numbers
    Rates,      \* node.Rate, plus that of the chain's node
    Budgets     \* the initial values of left

Allowances == [bytes : Nat, faults : Nat, changes : Nat, days : Nat, others : Nat, plans : Nat]

ASSUME ReportAssumption ==
    /\ None \notin Users
    /\ IsFiniteSet(Conns)
    /\ IsFiniteSet(Days) /\ Days \subseteq Nat
    /\ Rates \subseteq Nat
    /\ Budgets \subseteq Allowances

VARIABLES
    today,
    rate,
    owner,      \* user of the port's rule, None when there is no row
    conn,       \* the connectors and their reporters
    handler,    \* the request of each connector in the controller
    traffic,    \* per user, the sum of the traffic columns of the rules
    daily,      \* per user and day, total_traffic; 0 when there is no row
    left,
    \* history: connectors ...
    lossy,      \* ... that forgot bytes: moved during a report, or in a crash
    retried,    \* ... that sent again what had been added to a rule
    leftover    \* ... whose rule was deleted before all was reported

ctlVars    == <<today, rate, owner, traffic, daily>>
histVars   == <<lossy, retried, leftover>>
reportVars == <<ctlVars, conn, handler, left, histVars>>

-----------------------------------------------------------------------------
Connectors ==
    [user    : Users \cup {None},   \* whose rule it was made for
     st      : {"none", "on", "off", "dead"},   \* "off": its listener is closed
     cur     : Nat,                 \* curTraffic
     pc      : {"idle", "sent", "ok", "error"},
     amount  : Nat,                 \* the Traffic of the request
     moved   : Nat,                 \* history: all bytes it copied
     charged : Nat,                 \* history: all bytes added for it
     billed  : SUBSET Users]        \* history: the users they were added to

NoConn == [user |-> None, st |-> "none", cur |-> 0, pc |-> "idle", amount |-> 0,
           moved |-> 0, charged |-> 0, billed |-> {}]

Handlers ==
    [pc     : {"none", "rule", "update", "daily", "done", "failed"},
     user   : Users \cup {None},    \* of the rule that was read
     amount : Nat]

NoHandler == [pc |-> "none", user |-> None, amount |-> 0]

ReportTypeOK ==
    /\ today \in Days
    /\ rate \in Rates
    /\ owner \in Users \cup {None}
    /\ conn \in [Conns -> Connectors]
    /\ handler \in [Conns -> Handlers]
    /\ traffic \in [Users -> Nat]
    /\ daily \in [Users -> [Days -> Nat]]
    /\ left \in Allowances
    /\ lossy \subseteq Conns /\ retried \subseteq Conns /\ leftover \subseteq Conns

Spend(budget) == left[budget] > 0 /\ left' = [left EXCEPT ![budget] = @ - 1]

-----------------------------------------------------------------------------
(* The connector: copyConn's callback, and reportCurTraffic                *)

(* Closing a listener leaves its connections alone.                        *)
Move(c) ==
    /\ conn[c].st \in {"on", "off"} /\ Spend("bytes")
    /\ conn' = [conn EXCEPT ![c].cur = @ + 1, ![c].moved = @ + 1]
    /\ leftover' = IF conn[c].st = "off" THEN leftover \cup {c} ELSE leftover
    /\ UNCHANGED <<ctlVars, handler, lossy, retried>>

Report(c) ==
    /\ conn[c].pc = "idle" /\ conn[c].cur > 0 /\ handler[c].pc = "none"
    /\ conn' = [conn EXCEPT ![c].pc = "sent", ![c].amount = conn[c].cur]
    /\ handler' = [handler EXCEPT ![c] = [pc |-> "rule", user |-> None, amount |-> conn[c].cur]]
    /\ UNCHANGED <<ctlVars, left, histVars>>

Answered(c) ==
    /\ conn[c].pc = "sent" /\ handler[c].pc \in {"done", "failed"}
    /\ handler' = [handler EXCEPT ![c] = NoHandler]
    /\ conn' = [conn EXCEPT ![c].pc = IF handler[c].pc = "done" THEN "ok" ELSE "error"]
    /\ UNCHANGED <<ctlVars, left, histVars>>

AnswerLost(c) ==
    /\ conn[c].pc = "sent" /\ handler[c].pc = "done" /\ Spend("faults")
    /\ handler' = [handler EXCEPT ![c] = NoHandler]
    /\ conn' = [conn EXCEPT ![c].pc = "error"]
    /\ retried' = retried \cup {c}
    /\ UNCHANGED <<ctlVars, lossy, leftover>>

(* A mutant: the counter is not set back.                                  *)
StoreNothing(c) ==
    /\ conn[c].pc = "ok"
    /\ conn' = [conn EXCEPT ![c].pc = "idle", ![c].amount = 0]
    /\ UNCHANGED <<ctlVars, handler, left, histVars>>

(* curTraffic.Store(0), whatever was added since it was loaded.            *)
StoreZero(c) ==
    /\ conn[c].pc = "ok"
    /\ conn' = [conn EXCEPT ![c].pc = "idle", ![c].cur = 0, ![c].amount = 0]
    /\ lossy' = IF conn[c].cur > conn[c].amount THEN lossy \cup {c} ELSE lossy
    /\ UNCHANGED <<ctlVars, handler, left, retried, leftover>>

(* A mutant: the counter is set back after an error, too.                  *)
DropCount(c) ==
    /\ conn[c].pc = "error"
    /\ conn' = [conn EXCEPT ![c].pc = "idle", ![c].cur = 0, ![c].amount = 0]
    /\ UNCHANGED <<ctlVars, handler, left, histVars>>

(* The count stays and is sent again, more or less.                        *)
KeepCount(c) ==
    /\ conn[c].pc = "error"
    /\ conn' = [conn EXCEPT ![c].pc = "idle", ![c].amount = 0]
    /\ UNCHANGED <<ctlVars, handler, left, histVars>>

-----------------------------------------------------------------------------
(* The controller: reportNetworkTraffic                                    *)

(* The node, the rule of the port and the chain are read.                  *)
ReadRule(c) ==
    /\ handler[c].pc = "rule"
    /\ handler' = [handler EXCEPT ![c].pc = IF owner = None THEN "failed" ELSE "update",
                                  ![c].user = owner]
    /\ UNCHANGED <<ctlVars, conn, left, histVars>>

(* Mutants: the update is not restricted to the node, and finds the other  *)
(* users' rules on the same port; an error of the update is only logged.   *)
UpdateRuleOfAllNodes(c) ==
    /\ handler[c].pc = "update"
    /\ handler' = [handler EXCEPT ![c].pc = "daily"]
    /\ traffic' = [u \in Users |-> traffic[u] + rate * handler[c].amount]
    /\ conn' = [conn EXCEPT ![c].charged = @ + handler[c].amount, ![c].billed = Users]
    /\ UNCHANGED <<today, rate, owner, daily, left, histVars>>

UpdateRuleOrLog(c) ==
    /\ handler[c].pc = "update"
    /\ handler' = [handler EXCEPT ![c].pc = "daily"]
    /\ Spend("faults")
    /\ UNCHANGED <<ctlVars, conn, histVars>>

(* Add to the traffic of the rule that has the port by now; no error when  *)
(* there is none.                                                          *)
UpdateRule(c) ==
    /\ handler[c].pc = "update"
    /\ handler' = [handler EXCEPT ![c].pc = "daily"]
    /\ IF owner = None THEN UNCHANGED <<traffic, conn>> /\ lossy' = lossy \cup {c}
       ELSE /\ traffic' = [traffic EXCEPT ![owner] = @ + rate * handler[c].amount]
            /\ conn' = [conn EXCEPT ![c].charged = @ + handler[c].amount,
                                    ![c].billed = @ \cup {owner}]
            /\ UNCHANGED lossy
    /\ UNCHANGED <<today, rate, owner, daily, left, retried, leftover>>

(* The first report of a day inserts the bytes as they are, the later ones *)
(* add them at the rate.                                                   *)
UpsertDaily(c) ==
    LET u == handler[c].user
    IN  /\ handler[c].pc = "daily"
        /\ handler' = [handler EXCEPT ![c].pc = "done"]
        /\ daily' = [daily EXCEPT ![u][today] =
                        IF @ = 0 THEN handler[c].amount ELSE @ + rate * handler[c].amount]
        /\ UNCHANGED <<today, rate, owner, traffic, conn, left, histVars>>

(* A query fails, or the controller is restarted.                          *)
HandlerFails(c) ==
    /\ handler[c].pc \in {"rule", "update", "daily"} /\ Spend("faults")
    /\ handler' = [handler EXCEPT ![c].pc = "failed"]
    /\ retried' = IF handler[c].pc = "daily" THEN retried \cup {c} ELSE retried
    /\ UNCHANGED <<ctlVars, conn, lossy, leftover>>

-----------------------------------------------------------------------------
(* The environment                                                         *)

Serve(c, u) ==
    /\ conn[c].st = "none"
    /\ conn' = [conn EXCEPT ![c].st = "on", ![c].user = u]

AddRule(u) ==
    /\ owner = None /\ Spend("changes")
    /\ \E c \in Conns : Serve(c, u)
    /\ owner' = u
    /\ UNCHANGED <<today, rate, traffic, daily, handler, histVars>>

(* The listener is closed; the reporter is not told.                       *)
DeleteRule ==
    LET on == {c \in Conns : conn[c].st = "on"}
    IN  /\ owner # None /\ Spend("changes")
        /\ owner' = None
        /\ conn' = [c \in Conns |-> IF c \in on THEN [conn[c] EXCEPT !.st = "off"] ELSE conn[c]]
        /\ leftover' = leftover \cup {c \in Conns : conn[c].cur > 0 \/ handler[c].pc # "none"}
        /\ UNCHANGED <<today, rate, traffic, daily, handler, lossy, retried>>

(* The agent dies; what it sent before is still handled.                   *)
Crash ==
    /\ Spend("faults")
    /\ conn' = [c \in Conns |-> IF conn[c].st = "none" THEN conn[c]
                                ELSE [conn[c] EXCEPT !.st = "dead", !.cur = 0, !.pc = "idle", !.amount = 0]]
    /\ lossy' = lossy \cup {c \in Conns : conn[c].cur > 0}
    /\ UNCHANGED <<ctlVars, handler, retried, leftover>>

(* It is started again and opens the rule of the row.                      *)
Restart(c) ==
    /\ owner # None
    /\ \A d \in Conns : conn[d].st # "on"
    /\ Serve(c, owner)
    /\ UNCHANGED <<ctlVars, handler, left, histVars>>

NextDay ==
    /\ Spend("days")
    /\ \E next \in Days :
        /\ next > today
        /\ \A d \in Days : d > today => d >= next
        /\ today' = next
    /\ UNCHANGED <<rate, owner, traffic, daily, conn, handler, histVars>>

-----------------------------------------------------------------------------
ReportInit ==
    /\ today \in Days
    /\ rate \in Rates
    /\ owner = None
    /\ conn = [c \in Conns |-> NoConn]
    /\ handler = [c \in Conns |-> NoHandler]
    /\ traffic = [u \in Users |-> 0]
    /\ daily = [u \in Users |-> [d \in Days |-> 0]]
    /\ left \in Budgets
    /\ lossy = {} /\ retried = {} /\ leftover = {}

Reporter(c) ==
    \/ Move(c)
    \/ Report(c) \/ Answered(c) \/ AnswerLost(c) \/ StoreZero(c) \/ KeepCount(c)

Handler(c) == ReadRule(c) \/ UpdateRule(c) \/ UpsertDaily(c) \/ HandlerFails(c)

ReportNext ==
    \/ \E c \in Conns : Reporter(c) \/ Handler(c) \/ Restart(c)
    \/ \E u \in Users : AddRule(u)
    \/ DeleteRule \/ Crash \/ NextDay

ReportSpec == ReportInit /\ [][ReportNext]_reportVars

-----------------------------------------------------------------------------
(* Properties *)

(* More bytes are charged than a connector moved only after a report that  *)
(* had been added to the rule was answered with an error: a lost answer,   *)
(* or a failed write of the day's row.                                     *)
OverchargedOnlyByRetry ==
    \A c \in Conns : conn[c].charged > conn[c].moved => c \in retried

(* Bytes are neither charged nor still counted only if they were moved     *)
(* between the load and the store of a report, the rule was gone when its  *)
(* row was updated, or the agent crashed.                                  *)
LostOnlyByOverlap ==
    \A c \in Conns : conn[c].charged + conn[c].cur < conn[c].moved => c \in lossy

(* Nobody pays for the traffic of another user's rule on the port, except  *)
(* for what a deleted rule had not reported: its reporter goes on and      *)
(* reports to whoever has the port next.                                   *)
MischargedOnlyByLeftover ==
    \A c \in Conns : c \notin leftover => conn[c].billed \subseteq {conn[c].user}

(* A user's days never add up to more than the traffic of his rules, the   *)
(* limit of his plan being compared with the first and shown next to the   *)
(* second.  At a rate below 1 the first report of a day is more.           *)
DailyWithinTraffic ==
    rate >= 1 /\ leftover = {} =>
        \A u \in Users :
            MapThenSumSet(LAMBDA d : daily[u][d], Days) <= traffic[u]
=============================================================================
