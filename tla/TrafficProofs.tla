--------------------------- MODULE TrafficProofs ---------------------------
(***************************************************************************)
(* Theorems about the charges of TrafficReport, in the specification of    *)
(* PlanReset, for every set of connectors, users, rates and budgets.       *)
(***************************************************************************)
EXTENDS PlanReset, FiniteSetTheorems, WellFoundedInduction, TLAPS

-----------------------------------------------------------------------------
(* The inductive invariant, connector by connector *)

(* A request about the bytes of c is being handled.                        *)
Reported(c) == handler[c].pc # "none"

(* Bytes that have been added to a rule and are still in the counter.      *)
Unsettled(c) ==
    IF conn[c].pc = "ok" \/ (conn[c].pc = "sent" /\ handler[c].pc \in {"daily", "done"})
    THEN conn[c].amount ELSE 0

(* How a connector, its reporter and its request fit together: a request   *)
(* is handled for the reporter that waits for it, or for a dead agent, and *)
(* carries no more than what is counted.                                   *)
Life(c) ==
    /\ conn[c].st = "none" => conn[c] = NoConn
    /\ conn[c].st # "none" => conn[c].user \in Users
    /\ conn[c].st = "dead" => conn[c].cur = 0 /\ conn[c].pc = "idle"
    /\ conn[c].st = "on" => owner = conn[c].user
    /\ conn[c].pc \in {"sent", "ok"} => conn[c].amount <= conn[c].cur
    /\ conn[c].pc = "sent" => Reported(c) /\ handler[c].amount = conn[c].amount
    /\ Reported(c) => conn[c].pc = "sent" \/ conn[c].st = "dead"
    /\ handler[c].pc \in {"update", "daily", "done"} => handler[c].user \in Users

(* What is charged or counted, but not both, was moved; and so was what a  *)
(* request is about to charge.                                             *)
Charge(c) ==
    c \notin retried =>
        /\ conn[c].charged + conn[c].cur <= conn[c].moved + Unsettled(c)
        /\ handler[c].pc \in {"rule", "update"} =>
               conn[c].charged + handler[c].amount <= conn[c].moved

(* What was moved is charged or counted.                                   *)
Loss(c) ==
    c \notin lossy => conn[c].moved + Unsettled(c) <= conn[c].charged + conn[c].cur

(* As long as there is anything to report, the port is the user's.         *)
Bill(c) ==
    c \notin leftover =>
        /\ conn[c].billed \subseteq {conn[c].user}
        /\ conn[c].cur > 0 \/ Reported(c) => owner = conn[c].user

(* All of it for one connector.                                            *)
Local(c) == Life(c) /\ Charge(c) /\ Loss(c) /\ Bill(c)

(* The inductive invariant of the reports.                                 *)
ChargeInv == ReportTypeOK /\ \A c \in Conns : Local(c)

-----------------------------------------------------------------------------
(* Lemmas *)

(* A charge at an integer rate is a number of bytes.                       *)
LEMMA ProductType == ASSUME NEW a \in Nat, NEW b \in Nat PROVE a * b \in Nat
OBVIOUS

(* Spending keeps the budget a budget.                                     *)
LEMMA SpendTypes ==
  ASSUME left \in Allowances,
         NEW budget \in {"bytes", "faults", "changes", "days", "others", "plans"}, Spend(budget)
  PROVE  left' \in Allowances
BY DEF Spend, Allowances

(* A connector that a step leaves alone keeps its invariant.               *)
LEMMA LocalStays ==
  ASSUME NEW c \in Conns, Local(c), conn'[c] = conn[c], handler'[c] = handler[c], owner' = owner,
         c \in retried => c \in retried', c \in lossy => c \in lossy',
         c \in leftover => c \in leftover'
  PROVE  Local(c)'
BY DEF Local, Life, Charge, Loss, Bill, Unsettled, Reported

(* A step about one connector and its request: it is enough to look at     *)
(* that connector.                                                         *)
LEMMA OneMoves ==
  ASSUME ChargeInv, NEW c \in Conns, UNCHANGED <<today, rate, owner>>,
         NEW rec \in Connectors, conn' = [conn EXCEPT ![c] = rec],
         NEW req \in Handlers, handler' = [handler EXCEPT ![c] = req],
         traffic' \in [Users -> Nat], daily' \in [Users -> [Days -> Nat]], left' \in Allowances,
         lossy' \in {lossy, lossy \cup {c}}, retried' \in {retried, retried \cup {c}},
         leftover' \in {leftover, leftover \cup {c}},
         Local(c)'
  PROVE  ChargeInv'
<1>1. ReportTypeOK'
  BY DEF ChargeInv, ReportTypeOK
<1>2. ASSUME NEW d \in Conns, d # c PROVE Local(d)'
  <2>1. conn'[d] = conn[d] /\ handler'[d] = handler[d]
    BY <1>2 DEF ChargeInv, ReportTypeOK
  <2>2. Local(d)
    BY DEF ChargeInv
  <2> QED
    BY <2>1, <2>2, LocalStays
<1> QED
  BY <1>1, <1>2 DEF ChargeInv

-----------------------------------------------------------------------------
(* The reporter *)

(* copyConn's callback and reportCurTraffic.                               *)
LEMMA ReporterKeeps ==
  ASSUME ChargeInv, NEW c \in Conns, Reporter(c)
  PROVE  ChargeInv'
<1> DEFINE k == conn[c]
           h == handler[c]
<1>1. /\ conn \in [Conns -> Connectors] /\ k \in Connectors
      /\ handler \in [Conns -> Handlers] /\ h \in Handlers
      /\ left \in Allowances /\ traffic \in [Users -> Nat] /\ daily \in [Users -> [Days -> Nat]]
  BY DEF ChargeInv, ReportTypeOK
<1>2. Life(c) /\ Charge(c) /\ Loss(c) /\ Bill(c)
  BY DEF ChargeInv, Local
<1>3. NoHandler \in Handlers
  BY DEF NoHandler, Handlers
<1>4. handler = [handler EXCEPT ![c] = h]
  BY <1>1
<1> USE DEF ctlVars, histVars
<1>5. CASE Move(c)
  <2> DEFINE rec == [k EXCEPT !.cur = @ + 1, !.moved = @ + 1]
  <2>1. left' \in Allowances
    BY <1>1, <1>5, SpendTypes DEF Move
  <2>2. rec \in Connectors /\ conn' = [conn EXCEPT ![c] = rec] /\ conn'[c] = rec
    BY <1>1, <1>5 DEF Move, Connectors
  <2>3. Local(c)'
    BY <1>1, <1>2, <1>5, <2>2
       DEF Move, Local, Life, Charge, Loss, Bill, Unsettled, Reported, Connectors, NoConn
  <2> QED
    BY <1>1, <1>4, <1>5, <2>1, <2>2, <2>3, OneMoves DEF Move
<1>6. CASE Report(c)
  <2> DEFINE rec == [k EXCEPT !.pc = "sent", !.amount = k.cur]
             req == [pc |-> "rule", user |-> None, amount |-> k.cur]
  <2>1. rec \in Connectors /\ conn' = [conn EXCEPT ![c] = rec] /\ conn'[c] = rec
    BY <1>1, <1>6 DEF Report, Connectors
  <2>2. req \in Handlers /\ handler' = [handler EXCEPT ![c] = req] /\ handler'[c] = req
    BY <1>1, <1>6 DEF Report, Connectors, Handlers
  <2>3. Local(c)'
    BY <1>1, <1>2, <1>6, <2>1, <2>2
       DEF Report, Local, Life, Charge, Loss, Bill, Unsettled, Reported, Connectors, Handlers,
           NoConn
  <2> QED
    BY <1>1, <1>6, <2>1, <2>2, <2>3, OneMoves DEF Report
<1>7. CASE Answered(c)
  <2> DEFINE rec == [k EXCEPT !.pc = IF h.pc = "done" THEN "ok" ELSE "error"]
  <2>1. rec \in Connectors /\ conn' = [conn EXCEPT ![c] = rec] /\ conn'[c] = rec
    BY <1>1, <1>7 DEF Answered, Connectors
  <2>2. handler' = [handler EXCEPT ![c] = NoHandler] /\ handler'[c] = NoHandler
    BY <1>1, <1>7 DEF Answered
  <2>3. Local(c)'
    BY <1>1, <1>2, <1>7, <2>1, <2>2
       DEF Answered, Local, Life, Charge, Loss, Bill, Unsettled, Reported, Connectors,
           Handlers, NoHandler, NoConn
  <2> QED
    BY <1>1, <1>3, <1>7, <2>1, <2>2, <2>3, OneMoves DEF Answered
<1>8. CASE AnswerLost(c)
  <2> DEFINE rec == [k EXCEPT !.pc = "error"]
  <2>1. rec \in Connectors /\ conn' = [conn EXCEPT ![c] = rec] /\ conn'[c] = rec
    BY <1>1, <1>8 DEF AnswerLost, Connectors
  <2>2. handler' = [handler EXCEPT ![c] = NoHandler] /\ handler'[c] = NoHandler
    BY <1>1, <1>8 DEF AnswerLost
  <2>3. left' \in Allowances
    BY <1>1, <1>8, SpendTypes DEF AnswerLost
  <2>4. Local(c)'
    BY <1>1, <1>2, <1>8, <2>1, <2>2
       DEF AnswerLost, Local, Life, Charge, Loss, Bill, Unsettled, Reported, Connectors,
           Handlers, NoHandler, NoConn
  <2> QED
    BY <1>1, <1>3, <1>8, <2>1, <2>2, <2>3, <2>4, OneMoves DEF AnswerLost
<1>9. CASE StoreZero(c)
  <2> DEFINE rec == [k EXCEPT !.pc = "idle", !.cur = 0, !.amount = 0]
  <2>1. rec \in Connectors /\ conn' = [conn EXCEPT ![c] = rec] /\ conn'[c] = rec
    BY <1>1, <1>9 DEF StoreZero, Connectors
  <2>2. Local(c)'
    BY <1>1, <1>2, <1>9, <2>1
       DEF StoreZero, Local, Life, Charge, Loss, Bill, Unsettled, Reported, Connectors,
           Handlers, NoConn
  <2> QED
    BY <1>1, <1>4, <1>9, <2>1, <2>2, OneMoves DEF StoreZero
<1>10. CASE KeepCount(c)
  <2> DEFINE rec == [k EXCEPT !.pc = "idle", !.amount = 0]
  <2>1. rec \in Connectors /\ conn' = [conn EXCEPT ![c] = rec] /\ conn'[c] = rec
    BY <1>1, <1>10 DEF KeepCount, Connectors
  <2>2. Local(c)'
    BY <1>1, <1>2, <1>10, <2>1
       DEF KeepCount, Local, Life, Charge, Loss, Bill, Unsettled, Reported, Connectors,
           Handlers, NoConn
  <2> QED
    BY <1>1, <1>4, <1>10, <2>1, <2>2, OneMoves DEF KeepCount
<1> QED
  BY <1>5, <1>6, <1>7, <1>8, <1>9, <1>10 DEF Reporter

-----------------------------------------------------------------------------
(* The handler *)

(* reportNetworkTraffic.                                                   *)
LEMMA HandlerKeeps ==
  ASSUME ChargeInv, NEW c \in Conns, Handler(c)
  PROVE  ChargeInv'
<1> DEFINE k == conn[c]
           h == handler[c]
<1>1. /\ conn \in [Conns -> Connectors] /\ k \in Connectors
      /\ handler \in [Conns -> Handlers] /\ h \in Handlers
      /\ left \in Allowances /\ traffic \in [Users -> Nat] /\ daily \in [Users -> [Days -> Nat]]
      /\ rate \in Nat /\ owner \in Users \cup {None} /\ today \in Days
  BY ReportAssumption DEF ChargeInv, ReportTypeOK
<1>2. Life(c) /\ Charge(c) /\ Loss(c) /\ Bill(c)
  BY DEF ChargeInv, Local
<1>3. conn = [conn EXCEPT ![c] = k]
  BY <1>1
<1>4. rate * h.amount \in Nat
  BY <1>1, ProductType DEF Handlers
<1> USE DEF ctlVars, histVars
<1>5. CASE ReadRule(c)
  <2> DEFINE req == [h EXCEPT !.pc = IF owner = None THEN "failed" ELSE "update", !.user = owner]
  <2>1. req \in Handlers /\ handler' = [handler EXCEPT ![c] = req] /\ handler'[c] = req
    BY <1>1, <1>5 DEF ReadRule, Handlers
  <2>2. Local(c)'
    BY <1>1, <1>2, <1>5, <2>1
       DEF ReadRule, Local, Life, Charge, Loss, Bill, Unsettled, Reported, Connectors,
           Handlers, NoConn
  <2> QED
    BY <1>1, <1>3, <1>5, <2>1, <2>2, OneMoves DEF ReadRule
<1>6. CASE UpdateRule(c) /\ owner = None
  <2> DEFINE req == [h EXCEPT !.pc = "daily"]
  <2>1. req \in Handlers /\ handler' = [handler EXCEPT ![c] = req] /\ handler'[c] = req
    BY <1>1, <1>6 DEF UpdateRule, Handlers
  <2>2. Local(c)'
    BY <1>1, <1>2, <1>6, <2>1
       DEF UpdateRule, Local, Life, Charge, Loss, Bill, Unsettled, Reported, Connectors,
           Handlers, NoConn
  <2> QED
    BY <1>1, <1>3, <1>6, <2>1, <2>2, OneMoves DEF UpdateRule
<1>7. CASE UpdateRule(c) /\ owner # None
  <2> DEFINE rec == [k EXCEPT !.charged = @ + h.amount, !.billed = @ \cup {owner}]
             req == [h EXCEPT !.pc = "daily"]
  <2>1. req \in Handlers /\ handler' = [handler EXCEPT ![c] = req] /\ handler'[c] = req
    BY <1>1, <1>7 DEF UpdateRule, Handlers
  <2>2. rec \in Connectors /\ conn' = [conn EXCEPT ![c] = rec] /\ conn'[c] = rec
    <3>1. k.charged + h.amount \in Nat /\ k.billed \cup {owner} \in SUBSET Users
      BY <1>1, <1>7 DEF Connectors, Handlers
    <3>2. rec \in Connectors
      BY <1>1, <3>1 DEF Connectors
    <3> QED
      BY <1>1, <1>7, <3>2 DEF UpdateRule
  <2>3. traffic' \in [Users -> Nat]
    BY <1>1, <1>4, <1>7 DEF UpdateRule
  <2>4. Local(c)'
    BY <1>1, <1>2, <1>7, <2>1, <2>2
       DEF UpdateRule, Local, Life, Charge, Loss, Bill, Unsettled, Reported, Connectors,
           Handlers, NoConn
  <2> QED
    BY <1>1, <1>7, <2>1, <2>2, <2>3, <2>4, OneMoves DEF UpdateRule
<1>8. CASE UpsertDaily(c)
  <2> DEFINE req == [h EXCEPT !.pc = "done"]
  <2>1. req \in Handlers /\ handler' = [handler EXCEPT ![c] = req] /\ handler'[c] = req
    BY <1>1, <1>8 DEF UpsertDaily, Handlers
  <2>2. daily' \in [Users -> [Days -> Nat]]
    <3> DEFINE u == h.user
               total == IF daily[u][today] = 0 THEN h.amount ELSE daily[u][today] + rate * h.amount
    <3>1. u \in Users /\ daily[u] \in [Days -> Nat] /\ h.amount \in Nat
      BY <1>1, <1>2, <1>8 DEF UpsertDaily, Life, Handlers
    <3>2. total \in Nat
      BY <1>1, <1>4, <3>1
    <3>3. daily' = [daily EXCEPT ![u] = [daily[u] EXCEPT ![today] = total]]
      BY <1>1, <1>8, <3>1 DEF UpsertDaily
    <3> QED
      BY <1>1, <3>1, <3>2, <3>3
  <2>3. Local(c)'
    BY <1>1, <1>2, <1>8, <2>1
       DEF UpsertDaily, Local, Life, Charge, Loss, Bill, Unsettled, Reported, Connectors,
           Handlers, NoConn
  <2> QED
    BY <1>1, <1>3, <1>8, <2>1, <2>2, <2>3, OneMoves DEF UpsertDaily
<1>9. CASE HandlerFails(c)
  <2> DEFINE req == [h EXCEPT !.pc = "failed"]
  <2>1. req \in Handlers /\ handler' = [handler EXCEPT ![c] = req] /\ handler'[c] = req
    BY <1>1, <1>9 DEF HandlerFails, Handlers
  <2>2. left' \in Allowances
    BY <1>1, <1>9, SpendTypes DEF HandlerFails
  <2>3. Local(c)'
    BY <1>1, <1>2, <1>9, <2>1
       DEF HandlerFails, Local, Life, Charge, Loss, Bill, Unsettled, Reported, Connectors,
           Handlers, NoConn
  <2> QED
    BY <1>1, <1>3, <1>9, <2>1, <2>2, <2>3, OneMoves DEF HandlerFails
<1> QED
  BY <1>5, <1>6, <1>7, <1>8, <1>9 DEF Handler

-----------------------------------------------------------------------------
(* The environment *)

(* A connector that is made belongs to the rule it is made for.            *)
LEMMA ServeLocal ==
  ASSUME ChargeInv, NEW c \in Conns, NEW u \in Users, Serve(c, u), owner' = u,
         UNCHANGED <<handler, histVars>>
  PROVE  conn' \in [Conns -> Connectors] /\ Local(c)'
<1>1. /\ conn \in [Conns -> Connectors] /\ conn[c] \in Connectors /\ handler[c] \in Handlers
      /\ Life(c) /\ Charge(c) /\ Loss(c) /\ Bill(c) /\ conn[c].st = "none"
  BY DEF ChargeInv, ReportTypeOK, Local, Serve
<1>2. conn[c] = NoConn
  BY <1>1 DEF Life
<1>3. /\ conn' = [conn EXCEPT ![c] = [NoConn EXCEPT !.st = "on", !.user = u]]
      /\ [NoConn EXCEPT !.st = "on", !.user = u] \in Connectors
  BY <1>1, <1>2 DEF Serve, NoConn, Connectors
<1>4. handler[c].pc = "none"
  BY <1>1, <1>2 DEF Life, Reported, NoConn
<1>5. Local(c)'
  BY <1>1, <1>3, <1>4
     DEF Local, Life, Charge, Loss, Bill, Unsettled, Reported, NoConn, Connectors, histVars
<1> QED
  BY <1>1, <1>3, <1>5

(* Rules that come and go, a crash and a restart, the next day.            *)
LEMMA EnvironmentKeeps ==
  ASSUME ChargeInv,
         \/ \E c \in Conns : Restart(c)
         \/ \E u \in Users : AddRule(u)
         \/ DeleteRule \/ Crash \/ NextDay
  PROVE  ChargeInv'
<1> USE DEF ctlVars, histVars
<1>1. /\ conn \in [Conns -> Connectors] /\ handler \in [Conns -> Handlers]
      /\ left \in Allowances /\ owner \in Users \cup {None} /\ None \notin Users
      /\ \A d \in Conns : conn[d] \in Connectors /\ handler[d] \in Handlers /\ Local(d)
  BY ReportAssumption DEF ChargeInv, ReportTypeOK
<1>2. ASSUME NEW c \in Conns, Restart(c) PROVE ChargeInv'
  <2>1. owner \in Users
    BY <1>1, <1>2 DEF Restart
  <2>2. conn' \in [Conns -> Connectors] /\ Local(c)'
    BY <1>2, <2>1, ServeLocal DEF Restart
  <2>3. ASSUME NEW d \in Conns, d # c PROVE Local(d)'
    <3>1. conn'[d] = conn[d] /\ Local(d)
      BY <1>1, <1>2, <2>3 DEF Restart, Serve
    <3> QED
      BY <1>2, <3>1, LocalStays DEF Restart
  <2> QED
    BY <1>2, <2>2, <2>3 DEF ChargeInv, ReportTypeOK, Restart
<1>3. ASSUME NEW u \in Users, AddRule(u) PROVE ChargeInv'
  <2>1. PICK c \in Conns : Serve(c, u)
    BY <1>3 DEF AddRule
  <2>2. conn' \in [Conns -> Connectors] /\ Local(c)'
    BY <1>3, <2>1, ServeLocal DEF AddRule
  <2>3. ASSUME NEW d \in Conns, d # c PROVE Local(d)'
    <3>1. conn'[d] = conn[d] /\ handler'[d] = handler[d] /\ owner = None
      BY <1>1, <1>3, <2>1, <2>3 DEF AddRule, Serve
    <3>2. Local(d) /\ None \notin Users /\ conn[d] \in Connectors
      BY <1>1
    <3> QED
      BY <1>3, <3>1, <3>2
         DEF AddRule, Local, Life, Charge, Loss, Bill, Unsettled, Reported, NoConn, Connectors
  <2>4. left' \in Allowances
    BY <1>1, <1>3, SpendTypes DEF AddRule
  <2> QED
    BY <1>3, <2>2, <2>3, <2>4 DEF ChargeInv, ReportTypeOK, AddRule
<1>4. CASE DeleteRule
  <2> DEFINE off(d) == [conn[d] EXCEPT !.st = "off"]
  <2>1. left' \in Allowances
    BY <1>1, <1>4, SpendTypes DEF DeleteRule
  <2>2. ASSUME NEW d \in Conns
        PROVE  /\ conn'[d] = IF conn[d].st = "on" THEN off(d) ELSE conn[d]
               /\ off(d) \in Connectors
    BY <1>1, <1>4 DEF DeleteRule, Connectors
  <2>3. conn' \in [Conns -> Connectors]
    BY <1>1, <1>4, <2>2 DEF DeleteRule
  <2>4. ASSUME NEW d \in Conns PROVE Local(d)'
    BY <1>1, <1>4, <2>2
       DEF DeleteRule, Local, Life, Charge, Loss, Bill, Unsettled, Reported, Connectors,
           NoConn
  <2> QED
    BY <1>4, <2>1, <2>3, <2>4 DEF ChargeInv, ReportTypeOK, DeleteRule
<1>5. CASE Crash
  <2> DEFINE dead(d) == [conn[d] EXCEPT !.st = "dead", !.cur = 0, !.pc = "idle", !.amount = 0]
  <2>1. left' \in Allowances
    BY <1>1, <1>5, SpendTypes DEF Crash
  <2>2. ASSUME NEW d \in Conns
        PROVE  /\ conn'[d] = IF conn[d].st = "none" THEN conn[d] ELSE dead(d)
               /\ dead(d) \in Connectors
    BY <1>1, <1>5 DEF Crash, Connectors
  <2>3. conn' \in [Conns -> Connectors]
    BY <1>1, <1>5, <2>2 DEF Crash
  <2>4. ASSUME NEW d \in Conns PROVE Local(d)'
    <3>1. /\ conn[d] \in Connectors /\ handler[d] \in Handlers
          /\ Life(d) /\ Charge(d) /\ Loss(d) /\ Bill(d)
          /\ UNCHANGED <<owner, handler, retried, leftover>>
          /\ lossy' = lossy \cup {e \in Conns : conn[e].cur > 0}
      BY <1>1, <1>5 DEF Local, Crash
    <3>2. CASE conn[d].st = "none"
      BY <2>2, <3>1, <3>2, LocalStays DEF Local
    <3>3. CASE conn[d].st # "none"
      <4>1. conn'[d] = dead(d)
        BY <2>2, <3>3
      <4>2. Life(d)'
        BY <3>1, <3>3, <4>1 DEF Life, Reported, Connectors
      <4>3. Charge(d)'
        BY <3>1, <4>1 DEF Life, Charge, Unsettled, Reported, Connectors, Handlers
      <4>4. Loss(d)'
        BY <3>1, <4>1 DEF Life, Loss, Unsettled, Connectors
      <4>5. Bill(d)'
        BY <3>1, <4>1 DEF Bill, Reported, Connectors
      <4> QED
        BY <4>2, <4>3, <4>4, <4>5 DEF Local
    <3> QED
      BY <3>2, <3>3
  <2> QED
    BY <1>5, <2>1, <2>3, <2>4 DEF ChargeInv, ReportTypeOK, Crash
<1>6. CASE NextDay
  <2>1. left' \in Allowances
    BY <1>1, <1>6, SpendTypes DEF NextDay
  <2>2. ASSUME NEW d \in Conns PROVE Local(d)'
    BY <1>1, <1>6, LocalStays DEF NextDay
  <2> QED
    BY <1>6, <2>1, <2>2 DEF ChargeInv, ReportTypeOK, NextDay
<1> QED
  BY <1>2, <1>3, <1>4, <1>5, <1>6

-----------------------------------------------------------------------------
(* Plans *)

(* Plans change no connector and no request.                               *)
LEMMA PlansKeep ==
  ASSUME ChargeInv, UNCHANGED <<today, rate, owner, conn, handler, histVars>>,
         traffic' \in [Users -> Nat], daily' \in [Users -> [Days -> Nat]], left' \in Allowances
  PROVE  ChargeInv'
<1>1. ASSUME NEW c \in Conns PROVE Local(c)'
  BY LocalStays DEF ChargeInv, histVars
<1> QED
  BY <1>1 DEF ChargeInv, ReportTypeOK, histVars

(* The cron, the resetter, other reports and the requests about plans.     *)
LEMMA PlanStepKeeps ==
  ASSUME ChargeInv,
         \/ Cron \/ CronFails \/ ResetUser
         \/ \E u \in Customers :
             \/ OtherReports(u)
             \/ \E plan \in Plans : AssociatePlan(u, plan)
             \/ \E date \in Expirations : EditUser(u, date)
  PROVE  ChargeInv'
<1>1. /\ traffic \in [Users -> Nat] /\ daily \in [Users -> [Days -> Nat]] /\ left \in Allowances
      /\ rate \in Nat /\ today \in Days /\ Customers \subseteq Users
  BY ReportAssumption, PlanAssumption DEF ChargeInv, ReportTypeOK
<1>2. CASE Cron
  BY <1>1, <1>2, PlansKeep DEF Cron, Tick, CheckUser, reportVars, ctlVars
<1>3. CASE CronFails
  <2>1. left' \in Allowances
    BY <1>1, <1>3, SpendTypes DEF CronFails
  <2> QED
    BY <1>1, <1>3, <2>1, PlansKeep DEF CronFails, ctlVars
<1>4. CASE ResetUser
  <2>1. left' \in Allowances
    BY <1>1, <1>4, SpendTypes DEF ResetUser
  <2> QED
    BY <1>1, <1>4, <2>1, PlansKeep DEF ResetUser, ctlVars
<1>5. ASSUME NEW u \in Customers, OtherReports(u) PROVE ChargeInv'
  <2>1. left' \in Allowances
    BY <1>1, <1>5, SpendTypes DEF OtherReports
  <2>2. traffic' \in [Users -> Nat] /\ daily' \in [Users -> [Days -> Nat]]
    BY <1>1, <1>5 DEF OtherReports
  <2> QED
    BY <1>1, <1>5, <2>1, <2>2, PlansKeep DEF OtherReports, ctlVars
<1>6. ASSUME NEW u \in Customers, NEW plan \in Plans, AssociatePlan(u, plan) PROVE ChargeInv'
  <2>1. left' \in Allowances
    BY <1>1, <1>6, SpendTypes DEF AssociatePlan
  <2> QED
    BY <1>1, <1>6, <2>1, PlansKeep DEF AssociatePlan, ctlVars
<1>7. ASSUME NEW u \in Customers, NEW date \in Expirations, EditUser(u, date) PROVE ChargeInv'
  <2>1. left' \in Allowances
    BY <1>1, <1>7, SpendTypes DEF EditUser
  <2> QED
    BY <1>1, <1>7, <2>1, PlansKeep DEF EditUser, ctlVars
<1> QED
  BY <1>2, <1>3, <1>4, <1>5, <1>6, <1>7

-----------------------------------------------------------------------------
(* Greatest members *)

(* A set of numbers that is bounded has a greatest member, and Max is it.  *)
LEMMA MaxFacts ==
  ASSUME NEW b \in Nat, NEW S \in SUBSET (0..b), S # {}
  PROVE  Max(S) \in S /\ \A y \in S : y <= Max(S)
<1> DEFINE T == {b - x : x \in S}
<1>1. T \in SUBSET Nat /\ T # {}
  <2>1. \A x \in S : b - x \in Nat
    OBVIOUS
  <2>2. PICK x \in S : TRUE
    OBVIOUS
  <2>3. b - x \in T
    BY <2>2
  <2> QED
    BY <2>1, <2>3
<1>2. IsWellFoundedOn(OpToRel(<,Nat), Nat)
  BY NatLessThanWellFounded
<1>3. PICK t \in T : \A y \in T : ~(<<y, t>> \in OpToRel(<,Nat))
  BY <1>1, <1>2, WFMin
<1>4. \A y \in T : ~(y < t)
  BY <1>1, <1>3 DEF OpToRel
<1>5. PICK x \in S : t = b - x
  BY <1>3
<1>6. \A y \in S : x >= y
  <2> SUFFICES ASSUME NEW y \in S PROVE x >= y
    OBVIOUS
  <2>1. b - y \in T /\ ~(b - y < b - x)
    BY <1>4, <1>5
  <2> QED
    BY <2>1
<1> QED
  BY <1>6 DEF Max

-----------------------------------------------------------------------------
(* The calendar *)

(* Month m is the one with number j of year q.                             *)
IsMonth(m, q, j) == q \in Nat /\ j \in 1..12 /\ m = 12 * q + j - 1

(* Every month is one of the twelve of some year.                          *)
LEMMA YearAndMonth ==
  ASSUME NEW m \in Nat
  PROVE  \E q \in Nat : \E j \in 1..12 : IsMonth(m, q, j)
<1>1. (m \div 12) \in Nat /\ (m % 12) \in 0..11 /\ m = 12 * (m \div 12) + (m % 12)
  BY SMT
<1>2. IsMonth(m, m \div 12, (m % 12) + 1)
  BY <1>1 DEF IsMonth
<1> QED
  BY <1>1, <1>2

(* The days of a common year before each month.                            *)
LEMMA TableFacts ==
  ASSUME NEW j \in 1..12
  PROVE  /\ Before[j] \in Nat /\ Before[j] <= 334
         /\ 28 * (j - 1) <= Before[j] /\ Before[j] <= 31 * (j - 1)
         /\ j = 1 => Before[j] = 0
         /\ j = 12 => Before[j] = 334
<1>1. \/ j = 1 \/ j = 2 \/ j = 3 \/ j = 4 \/ j = 5 \/ j = 6
      \/ j = 7 \/ j = 8 \/ j = 9 \/ j = 10 \/ j = 11 \/ j = 12
  OBVIOUS
<1> QED
  BY <1>1 DEF Before

(* Months of a common year have 28 to 31 days, and the second has 28.      *)
LEMMA TableSteps ==
  ASSUME NEW j \in 1..11
  PROVE  Before[j + 1] - Before[j] \in 28..31 /\ (j = 2 => Before[j + 1] - Before[j] = 28)
<1>1. \/ j = 1 \/ j = 2 \/ j = 3 \/ j = 4 \/ j = 5 \/ j = 6
      \/ j = 7 \/ j = 8 \/ j = 9 \/ j = 10 \/ j = 11
  OBVIOUS
<1> QED
  BY <1>1 DEF Before

(* The table grows.                                                        *)
LEMMA TableGrows ==
  ASSUME NEW i \in 1..12, NEW j \in 1..12, i < j
  PROVE  Before[i] + 28 <= Before[j]
<1>1. /\ Before[1] = 0 /\ Before[2] = 31 /\ Before[3] = 59 /\ Before[4] = 90
      /\ Before[5] = 120 /\ Before[6] = 151 /\ Before[7] = 181 /\ Before[8] = 212
      /\ Before[9] = 243 /\ Before[10] = 273 /\ Before[11] = 304 /\ Before[12] = 334
  BY DEF Before
<1>2. \/ i = 1 \/ i = 2 \/ i = 3 \/ i = 4 \/ i = 5 \/ i = 6
      \/ i = 7 \/ i = 8 \/ i = 9 \/ i = 10 \/ i = 11
  OBVIOUS
<1>3. \/ j = 2 \/ j = 3 \/ j = 4 \/ j = 5 \/ j = 6
      \/ j = 7 \/ j = 8 \/ j = 9 \/ j = 10 \/ j = 11 \/ j = 12
  OBVIOUS
<1> QED
  BY <1>1, <1>2, <1>3

(* The leap days before month m.                                           *)
Leaps(m) == (IF m > 13 THEN 1 ELSE 0) + (IF m > 61 THEN 1 ELSE 0)

(* What FirstOf says, without the division.                                *)
LEMMA FirstOfFacts ==
  ASSUME NEW m \in Nat, NEW q \in Nat, NEW j \in 1..12, IsMonth(m, q, j)
  PROVE  FirstOf(m) = 365 * q + Before[j] + Leaps(m) /\ FirstOf(m) \in Nat
<1>1. m \div 12 = q /\ (m % 12) + 1 = j
  BY DEF IsMonth
<1>2. FirstOf(m) = 365 * q + Before[j] + Leaps(m)
  <2>1. FirstOf(m) = 365 * q + Before[j]
                        + (IF m > 13 THEN 1 ELSE 0) + (IF m > 61 THEN 1 ELSE 0)
    BY <1>1 DEF FirstOf
  <2>2. Before[j] \in Nat
    BY TableFacts
  <2> QED
    BY <2>1, <2>2 DEF Leaps
<1> QED
  BY <1>2, TableFacts DEF Leaps

(* A month has 28 to 31 days.                                              *)
LEMMA MonthLength ==
  ASSUME NEW m \in Nat
  PROVE  FirstOf(m) \in Nat /\ FirstOf(m + 1) \in Nat /\ FirstOf(m + 1) - FirstOf(m) \in 28..31
<1>1. PICK q \in Nat, j \in 1..12 : IsMonth(m, q, j)
  BY YearAndMonth
<1>2. FirstOf(m) = 365 * q + Before[j] + Leaps(m) /\ FirstOf(m) \in Nat
  BY <1>1, FirstOfFacts
<1>3. PICK n \in Nat : n = m + 1
  OBVIOUS
<1>4. Before[j] \in Nat
  BY TableFacts
<1>5. CASE j = 12
  <2>1. PICK p \in Nat : p = q + 1
    OBVIOUS
  <2>2. IsMonth(n, p, 1) /\ m # 13 /\ m # 61 /\ 1 \in 1..12
    BY <1>1, <1>3, <1>5, <2>1 DEF IsMonth
  <2>3. FirstOf(n) = 365 * p + Before[1] + Leaps(n) /\ FirstOf(n) \in Nat
    BY <2>2, FirstOfFacts
  <2>4. Before[1] = 0 /\ Before[j] = 334
    BY <1>5 DEF Before
  <2> QED
    BY <1>2, <1>3, <2>1, <2>2, <2>3, <2>4 DEF Leaps
<1>6. CASE j # 12
  <2>1. PICK i \in 1..12 : i = j + 1
    BY <1>6
  <2>2. IsMonth(n, q, i) /\ (m \in {13, 61} => j = 2) /\ j \in 1..11
    BY <1>1, <1>3, <1>6, <2>1 DEF IsMonth
  <2>3. FirstOf(n) = 365 * q + Before[i] + Leaps(n) /\ FirstOf(n) \in Nat /\ Before[i] \in Nat
    BY <2>2, FirstOfFacts, TableFacts
  <2>4. Before[i] - Before[j] \in 28..31 /\ (j = 2 => Before[i] - Before[j] = 28)
    BY <2>1, <2>2, TableSteps
  <2> QED
    BY <1>2, <1>3, <1>4, <2>2, <2>3, <2>4 DEF Leaps
<1> QED
  BY <1>5, <1>6

(* The months come one after the other.                                    *)
LEMMA MonthsFollow ==
  ASSUME NEW m \in Nat, NEW n \in Nat, m < n
  PROVE  FirstOf(m) + 28 <= FirstOf(n)
<1>1. PICK q \in Nat, j \in 1..12 : IsMonth(m, q, j)
  BY YearAndMonth
<1>2. PICK p \in Nat, i \in 1..12 : IsMonth(n, p, i)
  BY YearAndMonth
<1>3. /\ FirstOf(m) = 365 * q + Before[j] + Leaps(m)
      /\ FirstOf(n) = 365 * p + Before[i] + Leaps(n)
  BY <1>1, <1>2, FirstOfFacts
<1>4. q < p \/ (q = p /\ j < i)
  BY <1>1, <1>2 DEF IsMonth
<1>5. Before[j] \in Nat /\ Before[j] <= 334 /\ Before[i] \in Nat
  BY TableFacts
<1>6. Leaps(m) \in Nat /\ Leaps(n) \in Nat /\ Leaps(m) <= Leaps(n)
  BY DEF Leaps
<1>7. CASE q < p
  <2>1. Leaps(m) <= 2
    BY DEF Leaps
  <2>2. q + 1 <= p
    BY <1>7
  <2> QED
    BY <1>3, <1>5, <1>6, <2>1, <2>2
<1>8. CASE q = p /\ j < i
  <2>1. Before[j] + 28 <= Before[i]
    BY <1>8, TableGrows
  <2> QED
    BY <1>3, <1>5, <1>6, <1>8, <2>1
<1> QED
  BY <1>4, <1>7, <1>8

(* The first of a month lies within what its number allows.                *)
LEMMA MonthBounds ==
  ASSUME NEW m \in Nat
  PROVE  28 * m <= FirstOf(m) /\ FirstOf(m) <= 31 * m
<1>1. PICK q \in Nat, j \in 1..12 : IsMonth(m, q, j)
  BY YearAndMonth
<1>2. FirstOf(m) = 365 * q + Before[j] + Leaps(m)
  BY <1>1, FirstOfFacts
<1>3. Before[j] \in Nat /\ 28 * (j - 1) <= Before[j] /\ Before[j] <= 31 * (j - 1)
  BY TableFacts
<1>4. m = 12 * q + j - 1 /\ Leaps(m) \in 0..2 /\ (Leaps(m) > 0 => q >= 1)
  BY <1>1 DEF IsMonth, Leaps
<1> QED
  BY <1>2, <1>3, <1>4

(* MonthOf finds the month a date is in.                                   *)
LEMMA MonthFacts ==
  ASSUME NEW date \in 0..Horizon
  PROVE  /\ MonthOf[date] \in Nat
         /\ FirstOf(MonthOf[date]) <= date /\ date < FirstOf(MonthOf[date] + 1)
<1> DEFINE S == {m \in (date \div 31)..(date \div 28) : FirstOf(m) <= date}
<1>0. date \in Nat
  BY DEF Horizon
<1>1. /\ (date \div 31) \in Nat /\ (date \div 28) \in Nat /\ date \div 31 <= date \div 28
      /\ 31 * (date \div 31) <= date /\ date < 28 * ((date \div 28) + 1)
  BY <1>0, SMT
<1>2. (date \div 31) \in S
  BY <1>0, <1>1, MonthBounds, MonthLength
<1>3. S \in SUBSET (0..(date \div 28)) /\ S # {}
  BY <1>1, <1>2
<1>4. Max(S) \in S /\ \A y \in S : y <= Max(S)
  BY <1>1, <1>3, MaxFacts
<1>5. MonthOf[date] = Max(S)
  BY DEF MonthOf
<1> HIDE DEF S
<1>6. PICK m : m = Max(S)
  OBVIOUS
<1>7. m \in Nat /\ FirstOf(m) <= date /\ m <= date \div 28 /\ m + 1 \notin S
  BY <1>1, <1>4, <1>6 DEF S
<1>8. date < FirstOf(m + 1)
  <2>1. CASE m + 1 <= date \div 28
    <3>1. ~(FirstOf(m + 1) <= date)
      BY <1>1, <1>4, <1>6, <1>7, <2>1 DEF S
    <3> QED
      BY <1>0, <1>7, <3>1, MonthLength
  <2>2. CASE m + 1 > date \div 28
    <3>1. 28 * (m + 1) <= FirstOf(m + 1) /\ FirstOf(m + 1) \in Nat
      BY <1>7, MonthBounds, MonthLength
    <3>2. m + 1 >= (date \div 28) + 1
      BY <1>1, <1>7, <2>2
    <3> QED
      BY <1>0, <1>1, <1>7, <3>1, <3>2
  <2> QED
    BY <1>1, <1>7, <2>1, <2>2
<1> QED
  BY <1>5, <1>6, <1>7, <1>8

(* It is the only one.                                                     *)
LEMMA MonthIs ==
  ASSUME NEW date \in 0..Horizon, NEW m \in Nat, FirstOf(m) <= date, date < FirstOf(m + 1)
  PROVE  MonthOf[date] = m
<1>1. PICK n \in Nat : n = MonthOf[date] /\ FirstOf(n) <= date /\ date < FirstOf(n + 1)
  BY MonthFacts
<1>2. FirstOf(m) \in Nat /\ FirstOf(n) \in Nat /\ FirstOf(m + 1) \in Nat /\ FirstOf(n + 1) \in Nat
  BY MonthLength
<1>3. ~(m < n)
  <2> SUFFICES ASSUME m < n PROVE FALSE
    OBVIOUS
  <2>1. FirstOf(m + 1) <= FirstOf(n)
    BY <1>2, MonthsFollow
  <2> QED
    BY <1>1, <1>2, <2>1 DEF Horizon
<1>4. ~(n < m)
  <2> SUFFICES ASSUME n < m PROVE FALSE
    OBVIOUS
  <2>1. FirstOf(n + 1) <= FirstOf(m)
    BY <1>2, MonthsFollow
  <2> QED
    BY <1>1, <1>2, <2>1 DEF Horizon
<1> QED
  BY <1>1, <1>3, <1>4

(* A year has at most 366 days.                                            *)
LEMMA YearLength ==
  ASSUME NEW m \in Nat, NEW n \in Nat, n = m + 12
  PROVE  FirstOf(n) <= FirstOf(m) + 366
<1>1. PICK q \in Nat, j \in 1..12 : IsMonth(m, q, j)
  BY YearAndMonth
<1>2. PICK p \in Nat : p = q + 1
  OBVIOUS
<1>3. IsMonth(n, p, j)
  BY <1>1, <1>2 DEF IsMonth
<1>4. FirstOf(m) = 365 * q + Before[j] + Leaps(m) /\ FirstOf(n) = 365 * p + Before[j] + Leaps(n)
  BY <1>1, <1>3, FirstOfFacts
<1>5. Before[j] \in Nat /\ Leaps(m) \in Nat /\ Leaps(n) <= Leaps(m) + 1 /\ Leaps(n) \in Nat
  BY TableFacts DEF Leaps
<1> QED
  BY <1>2, <1>4, <1>5

(* The lengths of plans, in months.                                        *)
Terms == {1, 3, 6, 12}

(* A period of some months begins, as the code reckons, on the day from    *)
(* which its end was reckoned, or up to three days later.                  *)
LEMMA PeriodBack ==
  ASSUME NEW date \in 0..(Horizon - 366), NEW k \in Terms
  PROVE  /\ AddDate(date, k, 0) \in Nat /\ AddDate(date, k, 0) <= Horizon
         /\ IF DayOfMonth(date) <= 28 THEN AddDate(AddDate(date, k, 0), -k, -1) + 1 = date
            ELSE /\ date <= AddDate(AddDate(date, k, 0), -k, -1) + 1
                 /\ AddDate(AddDate(date, k, 0), -k, -1) + 1 <= date + 3
<1>1. date \in 0..Horizon /\ date \in Nat /\ date <= Horizon - 366 /\ Horizon \in Nat
  <2>1. Horizon \in Nat /\ 0 \in Nat
    BY DEF Horizon
  <2> QED
    BY <2>1
<1>2. k \in Nat /\ 1 <= k /\ k <= 12
  BY DEF Terms
<1>3. PICK m \in Nat : m = MonthOf[date] /\ FirstOf(m) <= date /\ date < FirstOf(m + 1)
  BY <1>1, MonthFacts
<1>4. PICK n \in Nat : n = m + k
  BY <1>2
<1>5. PICK end : end = AddDate(date, k, 0)
  OBVIOUS
<1>6. /\ FirstOf(m) \in Nat /\ FirstOf(m + 1) \in Nat /\ FirstOf(m + 1) - FirstOf(m) \in 28..31
      /\ FirstOf(n) \in Nat /\ FirstOf(n + 1) \in Nat /\ FirstOf(n + 1) - FirstOf(n) \in 28..31
      /\ FirstOf(n + 1 + 1) \in Nat /\ FirstOf(n + 1 + 1) - FirstOf(n + 1) \in 28..31
  BY MonthLength
<1>7. end = FirstOf(n) + (date - FirstOf(m)) /\ DayOfMonth(date) = date - FirstOf(m) + 1
  BY <1>1, <1>3, <1>4, <1>5, <1>6 DEF AddDate, DayOfMonth
<1>8. FirstOf(n) <= FirstOf(m) + 366
  <2>1. PICK y \in Nat : y = m + 12
    OBVIOUS
  <2>2. FirstOf(y) <= FirstOf(m) + 366 /\ FirstOf(y) \in Nat
    BY <2>1, YearLength, MonthLength
  <2>3. n = y \/ n < y
    BY <1>2, <1>4, <2>1
  <2>4. n < y => FirstOf(n) + 28 <= FirstOf(y)
    BY MonthsFollow
  <2> QED
    BY <1>6, <2>2, <2>3, <2>4
<1>9. end \in Nat /\ end <= Horizon /\ end \in 0..Horizon
  BY <1>1, <1>3, <1>6, <1>7, <1>8
<1>10. ASSUME NEW i \in Nat, NEW j \in Nat, MonthOf[end] = i, j = i - k
       PROVE  AddDate(end, -k, -1) + 1 = FirstOf(j) + (end - FirstOf(i))
  <2>1. i + (-k) = j /\ FirstOf(i) \in Nat /\ FirstOf(j) \in Nat
    BY <1>2, <1>10, MonthLength
  <2> QED
    BY <1>9, <1>10, <2>1 DEF AddDate, DayOfMonth
<1>11. CASE end < FirstOf(n + 1)
  <2>1. MonthOf[end] = n
    BY <1>3, <1>6, <1>7, <1>9, <1>11, MonthIs
  <2>2. m = n - k
    BY <1>2, <1>4
  <2>3. AddDate(end, -k, -1) + 1 = FirstOf(m) + (end - FirstOf(n))
    BY <1>10, <2>1, <2>2
  <2>4. AddDate(end, -k, -1) + 1 = date
    BY <1>1, <1>6, <1>7, <2>3
  <2> QED
    BY <1>1, <1>5, <1>9, <2>4
<1>12. CASE end >= FirstOf(n + 1)
  <2>1. end < FirstOf(n + 1 + 1)
    BY <1>1, <1>3, <1>6, <1>7
  <2>2. MonthOf[end] = n + 1
    <3>1. PICK i \in Nat : i = n + 1
      OBVIOUS
    <3> QED
      BY <1>6, <1>9, <1>12, <2>1, <3>1, MonthIs
  <2>3. m + 1 = (n + 1) - k /\ m + 1 \in Nat /\ n + 1 \in Nat
    BY <1>2, <1>4
  <2>4. AddDate(end, -k, -1) + 1 = FirstOf(m + 1) + (end - FirstOf(n + 1))
    BY <1>10, <2>2, <2>3
  <2>5. PICK start : start = AddDate(end, -k, -1) + 1
    OBVIOUS
  <2>6. start = date + (FirstOf(m + 1) - FirstOf(m)) - (FirstOf(n + 1) - FirstOf(n))
    BY <1>1, <1>6, <1>7, <2>4, <2>5
  <2>7. date - FirstOf(m) >= FirstOf(n + 1) - FirstOf(n)
    BY <1>1, <1>6, <1>7, <1>12
  <2>8. date <= start /\ start <= date + 3 /\ DayOfMonth(date) > 28
    BY <1>1, <1>3, <1>6, <1>7, <2>6, <2>7
  <2> QED
    BY <1>1, <1>5, <1>6, <1>7, <1>9, <2>5, <2>8
<1>13. FirstOf(n + 1) \in Nat /\ end \in Nat
  BY <1>6, <1>9
<1> QED
  BY <1>11, <1>12, <1>13

-----------------------------------------------------------------------------
(* Plans and periods: the inductive invariant *)

(* The row of a user with a plan.                                          *)
PlanRows == [plan : Plans, reset : Nat, exp : Nat]

(* Whom the cron looks at and sends to the resetter has a plan, and keeps  *)
(* one.                                                                    *)
Planned == {u \in Users : user[u].plan \in Plans}
Waiting == [id : Planned, row : PlanRows]

PlanTypes ==
    /\ user \in [Users -> Rows]
    /\ cron \in [pc : {"wait", "users", "dead"}, rows : [Users -> Rows], todo : SUBSET Planned]
    /\ \A u \in cron.todo : cron.rows[u] \in PlanRows
    /\ userResetChan \in Seq(Waiting)
    /\ since \in [Users -> Days]
    /\ outdated \subseteq Users

(* The reset date is the end of the period that began at the last reset,   *)
(* by the plan the row has now.                                            *)
Periodic(u) ==
    user[u].plan # None /\ u \notin outdated =>
        user[u].reset = AddDate(since[u], user[u].plan.months, 0)

(* The inductive invariant of the plans.                                   *)
PlanInv == PlanTypes /\ \A u \in Users : Periodic(u)

(* The end of a period that begins on one of the days is a date.           *)
LEMMA EndIsDate ==
  ASSUME NEW date \in Days, NEW plan \in Plans
  PROVE  AddDate(date, plan.months, 0) \in Nat
<1>1. date \in 0..(Horizon - 366) /\ plan.months \in Terms
  BY CalendarAssumption, PlanAssumption DEF Terms
<1> QED
  BY <1>1, PeriodBack

(* A step that changes no row of a user.                                   *)
LEMMA RowsStay ==
  ASSUME PlanInv, UNCHANGED <<user, since, outdated>>
  PROVE  /\ user' \in [Users -> Rows] /\ since' \in [Users -> Days] /\ outdated' \subseteq Users
         /\ \A u \in Users : Periodic(u)'
         /\ Planned' = Planned /\ Waiting' = Waiting
BY DEF PlanInv, PlanTypes, Periodic, Planned, Waiting

(* What waits for a user keeps its place when more users have plans.       *)
LEMMA SeqWidens ==
  ASSUME NEW S, NEW T, S \subseteq T, NEW s \in Seq(S)
  PROVE  s \in Seq(T)
OBVIOUS

(* cron.Do: the users are read.                                            *)
LEMMA TickPlans ==
  ASSUME PlanInv, Tick
  PROVE  PlanInv'
<1>1. PICK todo : todo = {u \in Users : user[u].plan # None}
  OBVIOUS
<1>2. /\ cron' = [pc |-> "users", rows |-> user, todo |-> todo]
      /\ UNCHANGED <<user, userResetChan, since, outdated>>
  BY <1>1 DEF Tick
<1>3. user \in [Users -> Rows]
  BY DEF PlanInv, PlanTypes
<1>4. ASSUME NEW u \in todo PROVE user[u] \in PlanRows /\ u \in Planned
  BY <1>1, <1>3, <1>4 DEF Rows, PlanRows, NoPlan, Planned
<1>5. Planned' = Planned
  BY <1>2, RowsStay
<1>6. /\ cron' \in [pc : {"wait", "users", "dead"}, rows : [Users -> Rows], todo : SUBSET Planned]
      /\ \A u \in cron'.todo : cron'.rows[u] \in PlanRows
  BY <1>2, <1>3, <1>4
<1> QED
  BY <1>2, <1>5, <1>6, RowsStay DEF PlanInv, PlanTypes

(* cron.Do: one user is added up and perhaps sent to the resetter.         *)
LEMMA CheckPlans ==
  ASSUME PlanInv, NEW u \in Users, CheckUser(u)
  PROVE  PlanInv'
<1>1. PICK item : item = [id |-> u, row |-> cron.rows[u]]
  OBVIOUS
<1>2. PICK todo : todo = cron.todo \ {u}
  OBVIOUS
<1>3. /\ u \in cron.todo
      /\ cron' = Idle \/ cron' = [cron EXCEPT !.todo = todo]
      /\ userResetChan' = userResetChan \/ userResetChan' = Append(userResetChan, item)
      /\ UNCHANGED <<user, since, outdated>>
  BY <1>1, <1>2 DEF CheckUser
<1>4. /\ cron \in [pc : {"wait", "users", "dead"}, rows : [Users -> Rows], todo : SUBSET Planned]
      /\ \A v \in cron.todo : cron.rows[v] \in PlanRows
      /\ userResetChan \in Seq(Waiting)
  BY DEF PlanInv, PlanTypes
<1>5. item \in Waiting
  BY <1>1, <1>3, <1>4 DEF Waiting
<1>6. userResetChan' \in Seq(Waiting)
  BY <1>3, <1>4, <1>5
<1>7. /\ cron' \in [pc : {"wait", "users", "dead"}, rows : [Users -> Rows], todo : SUBSET Planned]
      /\ \A v \in cron'.todo : cron'.rows[v] \in PlanRows
  <2>1. CASE cron' = Idle
    BY <2>1 DEF Idle, NoRows, Rows
  <2>2. CASE cron' = [cron EXCEPT !.todo = todo]
    BY <1>2, <1>4, <2>2
  <2> QED
    BY <1>3, <2>1, <2>2
<1> QED
  BY <1>3, <1>6, <1>7, RowsStay DEF PlanInv, PlanTypes

(* A user's row is written: by the resetter, or by a request.              *)
LEMMA UserWritten ==
  ASSUME PlanInv, NEW u \in Users, NEW rec \in PlanRows, user' = [user EXCEPT ![u] = rec],
         since' \in [Users -> Days], outdated' \subseteq Users,
         \A v \in Users \ {u} : since'[v] = since[v] /\ (v \in outdated' <=> v \in outdated),
         u \notin outdated' => rec.reset = AddDate(since'[u], rec.plan.months, 0),
         cron' = cron, NEW ch \in Seq(Waiting), userResetChan' = ch
  PROVE  PlanInv'
<1>1. /\ user \in [Users -> Rows]
      /\ cron \in [pc : {"wait", "users", "dead"}, rows : [Users -> Rows], todo : SUBSET Planned]
      /\ \A v \in cron.todo : cron.rows[v] \in PlanRows
  BY DEF PlanInv, PlanTypes
<1>2. rec \in Rows /\ rec.plan \in Plans
  BY DEF PlanRows, Rows
<1>3. user'[u] = rec /\ \A v \in Users \ {u} : user'[v] = user[v]
  BY <1>1
<1>4. user' \in [Users -> Rows]
  BY <1>1, <1>2
<1>5. Planned \subseteq Planned'
  BY <1>2, <1>3 DEF Planned
<1>6. PICK P, W : P = Planned' /\ W = Waiting'
  OBVIOUS
<1>7. ch \in Seq(W)
  <2>1. Waiting \subseteq W
    BY <1>5, <1>6 DEF Waiting
  <2> QED
    BY <2>1, SeqWidens
<1>8. cron \in [pc : {"wait", "users", "dead"}, rows : [Users -> Rows], todo : SUBSET P]
  BY <1>1, <1>5, <1>6
<1>9. PlanTypes'
  BY <1>1, <1>4, <1>6, <1>7, <1>8 DEF PlanTypes
<1>10. ASSUME NEW v \in Users PROVE Periodic(v)'
  <2>1. Periodic(v)
    BY DEF PlanInv
  <2>2. CASE v = u
    BY <1>3, <2>2 DEF Periodic
  <2>3. CASE v # u
    BY <1>3, <2>1, <2>3 DEF Periodic
  <2> QED
    BY <2>2, <2>3
<1> QED
  BY <1>9, <1>10 DEF PlanInv

(* The resetter: the end is reckoned from today by the plan of the row as  *)
(* it was read; a row that was changed since counts as outdated.           *)
LEMMA ResetPlans ==
  ASSUME PlanInv, today \in Days, ResetUser
  PROVE  PlanInv'
<1>1. PICK ch : ch = userResetChan
  OBVIOUS
<1>2. ch \in Seq(Waiting) /\ ch # <<>>
  BY <1>1 DEF PlanInv, PlanTypes, ResetUser
<1>3. PICK id, row : id = Head(ch).id /\ row = Head(ch).row
  OBVIOUS
<1>4. Head(ch) \in Waiting /\ Tail(ch) \in Seq(Waiting)
  BY <1>2
<1>5. id \in Planned /\ row \in PlanRows /\ row.plan \in Plans
  BY <1>3, <1>4 DEF PlanRows, Waiting
<1>6. PICK next : next = AddDate(today, row.plan.months, 0)
  OBVIOUS
<1>7. next \in Nat
  BY <1>5, <1>6, EndIsDate
<1>8. /\ userResetChan' = Tail(ch) /\ UNCHANGED cron
      /\ \/ /\ user' = [user EXCEPT ![id].reset = next]
            /\ since' = [since EXCEPT ![id] = today]
            /\ outdated' = IF user[id].plan = row.plan /\ user[id].exp = row.exp
                           THEN outdated \ {id} ELSE outdated \cup {id}
         \/ UNCHANGED <<user, since, outdated>>
  BY <1>1, <1>3, <1>6 DEF ResetUser
<1>9. user \in [Users -> Rows] /\ since \in [Users -> Days] /\ outdated \subseteq Users
  BY DEF PlanInv, PlanTypes
<1>10. CASE UNCHANGED <<user, since, outdated>>
  <2>1. UNCHANGED <<user, since, outdated, cron>> /\ Planned' = Planned /\ Waiting' = Waiting
    BY <1>8, <1>10, RowsStay
  <2> QED
    BY <1>4, <1>8, <2>1, RowsStay DEF PlanInv, PlanTypes
<1>11. CASE /\ user' = [user EXCEPT ![id].reset = next]
            /\ since' = [since EXCEPT ![id] = today]
            /\ outdated' = IF user[id].plan = row.plan /\ user[id].exp = row.exp
                           THEN outdated \ {id} ELSE outdated \cup {id}
  <2>1. id \in Users /\ user[id] \in PlanRows
    BY <1>5, <1>9 DEF Planned, Rows, PlanRows, NoPlan
  <2>2. PICK rec : rec = [user[id] EXCEPT !.reset = next]
    OBVIOUS
  <2>3. rec \in PlanRows /\ rec.reset = next /\ rec.plan = user[id].plan
    BY <1>7, <2>1, <2>2 DEF PlanRows
  <2>4. user' = [user EXCEPT ![id] = rec]
    BY <1>11, <2>2
  <2>5. /\ since' \in [Users -> Days] /\ outdated' \subseteq Users /\ since'[id] = today
        /\ \A v \in Users \ {id} : since'[v] = since[v] /\ (v \in outdated' <=> v \in outdated)
    BY <1>9, <1>11, <2>1
  <2>6. id \notin outdated' => rec.plan = row.plan
    BY <1>11, <2>3
  <2>7. id \notin outdated' => rec.reset = AddDate(since'[id], rec.plan.months, 0)
    BY <1>6, <2>3, <2>5, <2>6
  <2> QED
    BY <1>4, <1>8, <2>1, <2>3, <2>4, <2>5, <2>7, UserWritten
<1> QED
  BY <1>8, <1>10, <1>11

(* associatePlans                                                          *)
LEMMA AssociatePlans ==
  ASSUME PlanInv, today \in Days, NEW u \in Customers, NEW plan \in Plans, AssociatePlan(u, plan)
  PROVE  PlanInv'
<1>1. PICK end : end = AddDate(today, plan.months, 0)
  OBVIOUS
<1>2. PICK rec : rec = [plan |-> plan, reset |-> end, exp |-> end]
  OBVIOUS
<1>3. end \in Nat /\ u \in Users
  BY <1>1, EndIsDate, PlanAssumption
<1>4. rec \in PlanRows /\ rec.reset = end /\ rec.plan = plan
  BY <1>2, <1>3 DEF PlanRows
<1>5. /\ user' = [user EXCEPT ![u] = rec]
      /\ since' = [since EXCEPT ![u] = today]
      /\ outdated' = outdated \ {u}
      /\ UNCHANGED <<cron, userResetChan>>
  BY <1>1, <1>2 DEF AssociatePlan
<1>6. /\ since \in [Users -> Days] /\ outdated \subseteq Users
      /\ userResetChan \in Seq(Waiting)
  BY DEF PlanInv, PlanTypes
<1>7. /\ since' \in [Users -> Days] /\ outdated' \subseteq Users /\ since'[u] = today
      /\ \A v \in Users \ {u} : since'[v] = since[v] /\ (v \in outdated' <=> v \in outdated)
  BY <1>3, <1>5, <1>6
<1> QED
  BY <1>1, <1>3, <1>4, <1>5, <1>6, <1>7, UserWritten

(* editUser                                                                *)
LEMMA EditPlans ==
  ASSUME PlanInv, NEW u \in Customers, NEW date \in Expirations, EditUser(u, date)
  PROVE  PlanInv'
<1>1. PICK rec : rec = [user[u] EXCEPT !.exp = date]
  OBVIOUS
<1>2. /\ u \in Users /\ date \in Nat /\ user[u].plan # None
      /\ user \in [Users -> Rows] /\ since \in [Users -> Days] /\ outdated \subseteq Users
      /\ userResetChan \in Seq(Waiting)
  BY PlanAssumption DEF EditUser, PlanInv, PlanTypes
<1>3. user[u] \in PlanRows
  BY <1>2 DEF Rows, PlanRows, NoPlan
<1>4. rec \in PlanRows /\ rec.plan = user[u].plan /\ rec.reset = user[u].reset
  BY <1>1, <1>2, <1>3 DEF PlanRows
<1>5. user' = [user EXCEPT ![u] = rec] /\ UNCHANGED <<since, outdated, cron, userResetChan>>
  BY <1>1 DEF EditUser
<1>6. u \notin outdated => rec.reset = AddDate(since[u], rec.plan.months, 0)
  BY <1>2, <1>4 DEF PlanInv, Periodic
<1> QED
  BY <1>2, <1>4, <1>5, <1>6, UserWritten

-----------------------------------------------------------------------------
(* Sums over finite sets *)

(* Some number of a set of numbers is the least.                           *)
LEMMA Least ==
  ASSUME NEW N \in SUBSET Nat, N # {}
  PROVE  \E m \in N : \A k \in N : m <= k
<1>1. IsWellFoundedOn(OpToRel(<,Nat), Nat)
  BY NatLessThanWellFounded
<1>2. PICK m \in N : \A k \in N : ~(<<k, m>> \in OpToRel(<,Nat))
  BY <1>1, WFMin
<1>3. \A k \in N : ~(k < m)
  BY <1>2 DEF OpToRel
<1> QED
  BY <1>3

(* The element a sum takes first.                                          *)
Pick(s) == CHOOSE x \in s : TRUE

(* It is one element less.                                                 *)
LEMMA PickFacts ==
  ASSUME NEW S, IsFiniteSet(S), NEW s \in SUBSET S, s # {}
  PROVE  /\ Pick(s) \in s /\ s \ {Pick(s)} \in SUBSET S
         /\ IsFiniteSet(s) /\ Cardinality(s) \in Nat
         /\ Cardinality(s \ {Pick(s)}) = Cardinality(s) - 1
<1>1. Pick(s) \in s
  BY DEF Pick
<1>2. IsFiniteSet(s) /\ Cardinality(s) \in Nat
  BY FS_Subset, FS_CardinalityType
<1>3. Cardinality(s \ {Pick(s)}) = Cardinality(s) - 1
  BY <1>1, <1>2, FS_RemoveElement
<1> QED
  BY <1>1, <1>2, <1>3

(* What is true of the empty set, and of a set if it is true of it without *)
(* the element a sum takes first, is true of all subsets of a finite set.  *)
LEMMA AllSubsets ==
  ASSUME NEW S, IsFiniteSet(S), NEW Good, {} \in Good,
         \A s \in SUBSET S : s # {} /\ s \ {Pick(s)} \in Good => s \in Good
  PROVE  \A s \in SUBSET S : s \in Good
<1> DEFINE Bad == {s \in SUBSET S : s \notin Good}
           N   == {Cardinality(s) : s \in Bad}
<1>1. SUFFICES ASSUME Bad # {} PROVE FALSE
  OBVIOUS
<1>2. \A s \in Bad : s # {} /\ Cardinality(s) \in Nat
  BY PickFacts
<1>3. N \in SUBSET Nat /\ N # {}
  BY <1>1, <1>2
<1>4. PICK m \in N : \A k \in N : m <= k
  BY <1>3, Least
<1>5. PICK s \in Bad : m = Cardinality(s)
  BY <1>4
<1>6. PICK t : t = s \ {Pick(s)}
  OBVIOUS
<1>7. t \in SUBSET S /\ Cardinality(t) = Cardinality(s) - 1 /\ Cardinality(s) \in Nat
  BY <1>2, <1>5, <1>6, PickFacts
<1>8. t \notin Good
  BY <1>2, <1>5, <1>6
<1>9. Cardinality(t) \in N
  BY <1>7, <1>8
<1> QED
  BY <1>4, <1>5, <1>7, <1>9

(* The sum of a function over a set, and the function that computes it     *)
(* over all subsets.                                                       *)
Total(f, S) == MapThenSumSet(LAMBDA x : f[x], S)

Sums(F, f, S) == F = [s \in SUBSET S |-> IF s = {} THEN 0 ELSE f[Pick(s)] + F[s \ {Pick(s)}]]

(* The same for subsets of no more than n elements.                        *)
SumsTo(F, f, S, n) ==
    /\ F \in [SUBSET S -> Nat]
    /\ \A s \in SUBSET S : Cardinality(s) <= n =>
         F[s] = IF s = {} THEN 0 ELSE f[Pick(s)] + F[s \ {Pick(s)}]

(* There is one for every number of elements.                              *)
LEMMA SumsToExists ==
  ASSUME NEW S, IsFiniteSet(S), NEW f, \A x \in S : f[x] \in Nat
  PROVE  \A n \in Nat : \E F : SumsTo(F, f, S, n)
<1> DEFINE N == {n \in Nat : ~\E F : SumsTo(F, f, S, n)}
<1>1. SUFFICES ASSUME N # {} PROVE FALSE
  OBVIOUS
<1>2. PICK m \in N : \A k \in N : m <= k
  BY <1>1, Least
<1>3. \A s \in SUBSET S : Cardinality(s) \in Nat /\ (s # {} => Cardinality(s) > 0)
  <2>1. SUFFICES ASSUME NEW s \in SUBSET S
                 PROVE  Cardinality(s) \in Nat /\ (s # {} => Cardinality(s) > 0)
    OBVIOUS
  <2>2. IsFiniteSet(s) /\ Cardinality(s) \in Nat
    BY FS_Subset, FS_CardinalityType
  <2>3. s # {} => Cardinality(s) # 0
    BY <2>2, FS_EmptySet
  <2> QED
    BY <2>2, <2>3
<1>4. m # 0
  <2>1. PICK F : F = [s \in SUBSET S |-> 0]
    OBVIOUS
  <2>2. SumsTo(F, f, S, 0)
    BY <1>3, <2>1 DEF SumsTo
  <2> QED
    BY <1>2, <2>2
<1>5. PICK k \in Nat : m = k + 1
  <2>1. m - 1 \in Nat /\ m = (m - 1) + 1
    BY <1>2, <1>4
  <2> QED
    BY <2>1
<1>6. k \notin N
  BY <1>2, <1>5
<1>7. PICK F : SumsTo(F, f, S, k)
  BY <1>6
<1>8. PICK G : G = [s \in SUBSET S |-> IF Cardinality(s) <= k THEN F[s]
                                       ELSE f[Pick(s)] + F[s \ {Pick(s)}]]
  OBVIOUS
<1>9. \A s \in SUBSET S : s # {} =>
         /\ Pick(s) \in S /\ f[Pick(s)] \in Nat /\ s \ {Pick(s)} \in SUBSET S
         /\ F[s \ {Pick(s)}] \in Nat /\ Cardinality(s \ {Pick(s)}) = Cardinality(s) - 1
  BY <1>7, PickFacts DEF SumsTo
<1>10. \A s \in SUBSET S : ~(Cardinality(s) <= k) => s # {}
  <2>1. Cardinality({}) = 0
    BY FS_EmptySet
  <2> QED
    BY <2>1
<1>11. G \in [SUBSET S -> Nat]
  BY <1>7, <1>8, <1>9, <1>10 DEF SumsTo
<1>12. ASSUME NEW s \in SUBSET S, Cardinality(s) <= m
       PROVE  G[s] = IF s = {} THEN 0 ELSE f[Pick(s)] + G[s \ {Pick(s)}]
  <2>1. CASE s = {}
    <3>1. Cardinality(s) = 0
      BY <2>1, FS_EmptySet
    <3>2. G[s] = F[s]
      BY <1>8, <3>1
    <3> QED
      BY <1>7, <2>1, <3>1, <3>2 DEF SumsTo
  <2>2. CASE s # {}
    <3>1. PICK t : t = s \ {Pick(s)}
      OBVIOUS
    <3>2. t \in SUBSET S /\ Cardinality(t) = Cardinality(s) - 1 /\ Cardinality(s) \in Nat
      BY <1>3, <1>9, <2>2, <3>1
    <3>3. Cardinality(t) <= k
      BY <1>5, <1>12, <3>2
    <3>4. G[t] = F[t]
      BY <1>8, <3>2, <3>3
    <3>5. G[s] = f[Pick(s)] + F[t]
      <4>1. CASE Cardinality(s) <= k
        BY <1>7, <1>8, <2>2, <3>1, <4>1 DEF SumsTo
      <4>2. CASE ~(Cardinality(s) <= k)
        BY <1>8, <3>1, <4>2
      <4> QED
        BY <4>1, <4>2
    <3> QED
      BY <2>2, <3>1, <3>4, <3>5
  <2> QED
    BY <2>1, <2>2
<1>13. SumsTo(G, f, S, m)
  BY <1>11, <1>12 DEF SumsTo
<1> QED
  BY <1>2, <1>13

(* F computes the sum of f over S and over every subset of it.             *)
Adds(F, f, S) ==
    /\ Total(f, S) = F[S] /\ F[{}] = 0
    /\ \A s \in SUBSET S : s # {} => F[s] = f[Pick(s)] + F[s \ {Pick(s)}]

(* So the sum is what such a function gives.                               *)
LEMMA TotalIs ==
  ASSUME NEW S, IsFiniteSet(S), NEW f, \A x \in S : f[x] \in Nat
  PROVE  \E F : Adds(F, f, S)
<1> DEFINE F == CHOOSE F : Sums(F, f, S)
<1>1. Total(f, S) = F[S]
  BY DEF Total, MapThenSumSet, MapThenFoldSet, Sums, Pick
<1>2. \E G : Sums(G, f, S)
  <2>1. PICK n \in Nat : n = Cardinality(S)
    BY FS_CardinalityType
  <2>2. PICK G : SumsTo(G, f, S, n)
    BY SumsToExists
  <2>3. \A s \in SUBSET S : Cardinality(s) <= n
    BY <2>1, FS_Subset
  <2>4. G = [s \in SUBSET S |-> G[s]]
    BY <2>2 DEF SumsTo
  <2>5. \A s \in SUBSET S : G[s] = IF s = {} THEN 0 ELSE f[Pick(s)] + G[s \ {Pick(s)}]
    BY <2>2, <2>3 DEF SumsTo
  <2> QED
    BY <2>4, <2>5 DEF Sums
<1>3. Sums(F, f, S)
  BY <1>2
<1>4. F = [s \in SUBSET S |-> IF s = {} THEN 0 ELSE f[Pick(s)] + F[s \ {Pick(s)}]]
  BY <1>3 DEF Sums
<1>5. Adds(F, f, S)
  <2> HIDE DEF F
  <2> QED
    BY <1>1, <1>4 DEF Adds
<1> QED
  BY <1>5

(* It is a number.                                                         *)
LEMMA TotalType ==
  ASSUME NEW S, IsFiniteSet(S), NEW f, \A x \in S : f[x] \in Nat
  PROVE  Total(f, S) \in Nat
<1>1. PICK F : Adds(F, f, S)
  BY TotalIs
<1> DEFINE Good == {s \in SUBSET S : F[s] \in Nat}
<1>2. {} \in Good
  BY <1>1 DEF Adds
<1>3. ASSUME NEW s \in SUBSET S, s # {}, s \ {Pick(s)} \in Good PROVE s \in Good
  <2>1. Pick(s) \in S
    BY <1>3, PickFacts
  <2>2. f[Pick(s)] \in Nat /\ F[s \ {Pick(s)}] \in Nat
    BY <1>3, <2>1
  <2> QED
    BY <1>1, <1>3, <2>2 DEF Adds
<1>4. \A s \in SUBSET S : s \in Good
  <2> HIDE DEF Good
  <2> QED
    BY <1>2, <1>3, AllSubsets
<1>5. S \in Good
  BY <1>4
<1> QED
  BY <1>1, <1>5 DEF Adds

(* If all is zero, so is the sum.                                          *)
LEMMA TotalZero ==
  ASSUME NEW S, IsFiniteSet(S), NEW f, \A x \in S : f[x] \in Nat, \A x \in S : f[x] = 0
  PROVE  Total(f, S) = 0
<1>1. PICK F : Adds(F, f, S)
  BY TotalIs
<1> DEFINE Good == {s \in SUBSET S : F[s] = 0}
<1>2. {} \in Good
  BY <1>1 DEF Adds
<1>3. ASSUME NEW s \in SUBSET S, s # {}, s \ {Pick(s)} \in Good PROVE s \in Good
  <2>1. Pick(s) \in S
    BY <1>3, PickFacts
  <2>2. f[Pick(s)] = 0 /\ F[s \ {Pick(s)}] = 0
    BY <1>3, <2>1
  <2>3. F[s] = f[Pick(s)] + F[s \ {Pick(s)}]
    BY <1>1, <1>3 DEF Adds
  <2>4. F[s] = 0
    BY <2>2, <2>3
  <2> QED
    BY <2>4
<1>4. \A s \in SUBSET S : s \in Good
  <2> HIDE DEF Good
  <2> QED
    BY <1>2, <1>3, AllSubsets
<1>5. S \in Good
  BY <1>4
<1> QED
  BY <1>1, <1>5 DEF Adds

(* If one summand changes, the sum changes by as much.                     *)
LEMMA TotalChange ==
  ASSUME NEW S, IsFiniteSet(S), NEW f, \A x \in S : f[x] \in Nat, NEW g, \A x \in S : g[x] \in Nat,
         NEW x \in S, \A y \in S : y # x => f[y] = g[y]
  PROVE  Total(g, S) + f[x] = Total(f, S) + g[x]
<1>1. PICK F : Adds(F, f, S)
  BY TotalIs
<1>2. PICK G : Adds(G, g, S)
  BY TotalIs
<1> DEFINE Good == {s \in SUBSET S : /\ F[s] \in Nat /\ G[s] \in Nat
                                     /\ x \notin s => F[s] = G[s]
                                     /\ x \in s => G[s] + f[x] = F[s] + g[x]}
<1>3. {} \in Good
  BY <1>1, <1>2 DEF Adds
<1>4. ASSUME NEW s \in SUBSET S, s # {}, s \ {Pick(s)} \in Good PROVE s \in Good
  <2>1. PICK p, t : p = Pick(s) /\ t = s \ {Pick(s)}
    OBVIOUS
  <2>2. p \in s /\ p \in S /\ t = s \ {p} /\ t \in Good
    BY <1>4, <2>1, PickFacts
  <2>3. /\ F[s] = f[p] + F[t] /\ G[s] = g[p] + G[t]
        /\ f[p] \in Nat /\ g[p] \in Nat /\ f[x] \in Nat /\ g[x] \in Nat
        /\ F[t] \in Nat /\ G[t] \in Nat
    BY <1>1, <1>2, <1>4, <2>1, <2>2 DEF Adds
  <2>4. F[s] \in Nat /\ G[s] \in Nat
    BY <2>3
  <2>5. CASE p = x
    <3>1. x \in s /\ F[t] = G[t]
      BY <2>2, <2>5
    <3>2. G[s] + f[x] = F[s] + g[x]
      BY <2>3, <2>5, <3>1
    <3> QED
      BY <2>4, <3>1, <3>2
  <2>6. CASE p # x
    <3>1. f[p] = g[p] /\ (x \in s <=> x \in t)
      BY <2>2, <2>6
    <3>2. x \notin s => F[s] = G[s]
      BY <2>2, <2>3, <3>1
    <3>3. x \in s => G[s] + f[x] = F[s] + g[x]
      <4>1. x \in s => G[t] + f[x] = F[t] + g[x]
        BY <2>2, <3>1
      <4> QED
        BY <2>3, <3>1, <4>1
    <3> QED
      BY <2>4, <3>2, <3>3
  <2> QED
    BY <2>5, <2>6
<1>5. \A s \in SUBSET S : s \in Good
  <2> HIDE DEF Good
  <2> QED
    BY <1>3, <1>4, AllSubsets
<1>6. S \in Good
  BY <1>5
<1> QED
  BY <1>1, <1>2, <1>6 DEF Adds

-----------------------------------------------------------------------------
(* Days and traffic *)

(* What the rules of u have been charged with and no day has yet.          *)
Owed(u) == [c \in Conns |-> IF handler[c].pc = "daily" /\ handler[c].user = u
                            THEN rate * handler[c].amount ELSE 0]

(* A request charges the user whose rule has the port.                     *)
Charged(c) ==
    c \notin leftover /\ handler[c].pc \in {"update", "daily"} => handler[c].user = owner

(* The days of u, and what they do not have yet, are within his traffic.   *)
Balance(u) == Total(daily[u], Days) + Total(Owed(u), Conns) <= traffic[u]

(* The inductive invariant of the days.                                    *)
DailyInv ==
    /\ \A c \in Conns : Charged(c)
    /\ rate >= 1 /\ leftover = {} => \A u \in Users : Balance(u)

(* A rate of at least one makes nothing less.                              *)
LEMMA RateGrows ==
  ASSUME NEW a \in Nat, NEW b \in Nat, a >= 1
  PROVE  b <= a * b
<1>1. PICK k \in Nat : a = k + 1
  <2>1. a - 1 \in Nat /\ a = (a - 1) + 1
    OBVIOUS
  <2> QED
    BY <2>1
<1>2. a * b = k * b + b
  BY <1>1
<1>3. k * b \in Nat
  BY ProductType
<1> QED
  BY <1>2, <1>3

(* The sums are numbers.                                                   *)
LEMMA BalanceTypes ==
  ASSUME ChargeInv, NEW u \in Users
  PROVE  /\ daily[u] \in [Days -> Nat] /\ Total(daily[u], Days) \in Nat
         /\ Owed(u) \in [Conns -> Nat] /\ Total(Owed(u), Conns) \in Nat
         /\ traffic[u] \in Nat /\ rate \in Nat
         /\ IsFiniteSet(Days) /\ IsFiniteSet(Conns)
<1>1. /\ IsFiniteSet(Days) /\ IsFiniteSet(Conns) /\ rate \in Nat /\ traffic[u] \in Nat
      /\ daily[u] \in [Days -> Nat]
  BY ReportAssumption DEF ChargeInv, ReportTypeOK
<1>2. \A c \in Conns : rate * handler[c].amount \in Nat
  <2>1. \A c \in Conns : handler[c].amount \in Nat
    BY DEF ChargeInv, ReportTypeOK, Handlers
  <2> QED
    BY <1>1, <2>1, ProductType
<1>3. Owed(u) \in [Conns -> Nat]
  BY <1>2 DEF Owed
<1>4. Total(daily[u], Days) \in Nat
  BY <1>1, TotalType
<1>5. Total(Owed(u), Conns) \in Nat
  BY <1>1, <1>3, TotalType
<1> QED
  BY <1>1, <1>3, <1>4, <1>5

(* A request that moves on changes what is owed by its own part.           *)
LEMMA OwedMoves ==
  ASSUME ChargeInv, ChargeInv', rate' = rate, NEW c \in Conns,
         \A d \in Conns : d # c => handler'[d] = handler[d], NEW u \in Users
  PROVE  /\ Total(Owed(u)', Conns) + Owed(u)[c] = Total(Owed(u), Conns) + Owed(u)'[c]
         /\ Total(Owed(u)', Conns) \in Nat
<1>1. PICK f, g : f = Owed(u) /\ g = Owed(u)'
  OBVIOUS
<1>2. f \in [Conns -> Nat] /\ IsFiniteSet(Conns)
  BY <1>1, BalanceTypes
<1>3. g \in [Conns -> Nat]
  <2>1. \A d \in Conns : rate' * handler'[d].amount \in Nat
    <3>1. \A d \in Conns : handler'[d].amount \in Nat /\ rate' \in Nat
      BY ReportAssumption DEF ChargeInv, ReportTypeOK, Handlers
    <3> QED
      BY <3>1, ProductType
  <2> QED
    BY <1>1, <2>1 DEF Owed
<1>4. \A d \in Conns : d # c => f[d] = g[d]
  BY <1>1 DEF Owed
<1>5. Total(g, Conns) + f[c] = Total(f, Conns) + g[c]
  BY <1>2, <1>3, <1>4, TotalChange
<1>6. Total(g, Conns) \in Nat
  BY <1>2, <1>3, TotalType
<1> QED
  BY <1>1, <1>5, <1>6

(* As long as nothing is added to a rule or a day, what is owed may only   *)
(* become less.                                                            *)
LEMMA BalanceStays ==
  ASSUME ChargeInv, ChargeInv', UNCHANGED <<rate, traffic, daily>>, NEW c \in Conns,
         \A d \in Conns : d # c => handler'[d] = handler[d],
         handler'[c] = handler[c] \/ handler'[c].pc # "daily",
         NEW u \in Users, Balance(u)
  PROVE  Balance(u)'
<1>1. PICK t : t = Total(Owed(u)', Conns)
  OBVIOUS
<1>2. t + Owed(u)[c] = Total(Owed(u), Conns) + Owed(u)'[c]
  BY <1>1, OwedMoves
<1>3. PICK a, b \in Nat : a = Owed(u)[c] /\ b = Owed(u)'[c] /\ b <= a
  <2>1. Owed(u)[c] \in Nat
    BY BalanceTypes
  <2>2. Owed(u)'[c] = Owed(u)[c] \/ Owed(u)'[c] = 0
    BY DEF Owed
  <2> QED
    BY <2>1, <2>2
<1>4. Total(Owed(u)', Conns) \in Nat
  BY OwedMoves
<1>5. t <= Total(Owed(u), Conns)
  BY <1>1, <1>2, <1>3, <1>4, BalanceTypes
<1>6. Total(daily[u], Days) + t <= traffic[u]
  BY <1>1, <1>4, <1>5, BalanceTypes DEF Balance
<1> QED
  BY <1>1, <1>6 DEF Balance

(* One day of one user gets more.                                          *)
LEMMA DayMoves ==
  ASSUME NEW f \in [Days -> Nat], IsFiniteSet(Days), today \in Days, NEW n \in Nat
  PROVE  LET g == [f EXCEPT ![today] = n]
         IN  /\ Total(g, Days) + f[today] = Total(f, Days) + n
             /\ Total(g, Days) \in Nat /\ Total(f, Days) \in Nat
<1>1. PICK g : g = [f EXCEPT ![today] = n]
  OBVIOUS
<1>2. /\ g \in [Days -> Nat] /\ g[today] = n
      /\ \A y \in Days : y # today => f[y] = g[y]
  BY <1>1
<1>3. Total(g, Days) + f[today] = Total(f, Days) + g[today]
  BY <1>2, TotalChange
<1>4. Total(g, Days) \in Nat /\ Total(f, Days) \in Nat
  BY <1>2, TotalType
<1> QED
  BY <1>1, <1>2, <1>3, <1>4

(* The charge of a rule is owed to the day of the same user.               *)
LEMMA UpdateBalance ==
  ASSUME ChargeInv, ChargeInv', NEW c \in Conns, UpdateRule(c), c \notin leftover, Charged(c),
         NEW u \in Users, Balance(u)
  PROVE  Balance(u)'
<1>1. /\ handler[c].pc = "update" /\ handler[c].user = owner /\ owner \in Users
      /\ handler' = [handler EXCEPT ![c].pc = "daily"] /\ UNCHANGED <<rate, owner, daily>>
      /\ handler[c].amount \in Nat /\ handler \in [Conns -> Handlers]
      /\ traffic \in [Users -> Nat]
  <2>1. Life(c) /\ handler \in [Conns -> Handlers] /\ traffic \in [Users -> Nat]
    BY DEF ChargeInv, ReportTypeOK, Local
  <2> QED
    BY <2>1 DEF UpdateRule, Charged, Life, Handlers
<1>2. PICK q \in Nat : q = rate * handler[c].amount
  BY <1>1, BalanceTypes, ProductType
<1>3. traffic' = [traffic EXCEPT ![owner] = @ + q]
  BY <1>1, <1>2, ReportAssumption DEF UpdateRule
<1>4. PICK t : t = Total(Owed(u)', Conns)
  OBVIOUS
<1>5. t + Owed(u)[c] = Total(Owed(u), Conns) + Owed(u)'[c] /\ t \in Nat
  BY <1>1, <1>4, OwedMoves
<1>6. Owed(u)[c] = 0 /\ Owed(u)'[c] = IF u = owner THEN q ELSE 0
  BY <1>1, <1>2 DEF Owed
<1>7. traffic'[u] = traffic[u] + (IF u = owner THEN q ELSE 0)
  BY <1>1, <1>3, BalanceTypes
<1>8. Total(daily[u], Days) + t <= traffic'[u]
  BY <1>5, <1>6, <1>7, BalanceTypes DEF Balance
<1> QED
  BY <1>1, <1>4, <1>8 DEF Balance

(* The day gets no more than was owed to it.                               *)
LEMMA UpsertBalance ==
  ASSUME ChargeInv, ChargeInv', NEW c \in Conns, UpsertDaily(c), rate >= 1,
         NEW u \in Users, Balance(u)
  PROVE  Balance(u)'
<1>1. /\ handler[c].pc = "daily" /\ handler[c].user \in Users /\ today \in Days
      /\ handler' = [handler EXCEPT ![c].pc = "done"] /\ UNCHANGED <<rate, traffic>>
      /\ handler[c].amount \in Nat /\ handler \in [Conns -> Handlers]
      /\ daily \in [Users -> [Days -> Nat]]
  <2>1. /\ Life(c) /\ handler \in [Conns -> Handlers]
        /\ daily \in [Users -> [Days -> Nat]] /\ today \in Days
    BY DEF ChargeInv, ReportTypeOK, Local
  <2> QED
    BY <2>1 DEF UpsertDaily, Life, Handlers
<1>2. PICK q \in Nat : q = rate * handler[c].amount
  BY <1>1, BalanceTypes, ProductType
<1>3. handler[c].amount <= q
  BY <1>1, <1>2, BalanceTypes, RateGrows
<1>4. PICK t : t = Total(Owed(u)', Conns)
  OBVIOUS
<1>5. t + Owed(u)[c] = Total(Owed(u), Conns) + Owed(u)'[c] /\ t \in Nat
  BY <1>1, <1>4, OwedMoves
<1>6. CASE u = handler[c].user
  <2>1. Owed(u)[c] = q /\ Owed(u)'[c] = 0
    BY <1>1, <1>2, <1>6 DEF Owed
  <2>2. PICK n \in Nat : n = IF daily[u][today] = 0 THEN handler[c].amount ELSE daily[u][today] + q
    BY <1>1, <1>2
  <2>3. daily'[u] = [daily[u] EXCEPT ![today] = n]
    BY <1>1, <1>2, <1>6, <2>2 DEF UpsertDaily
  <2>4. /\ Total(daily'[u], Days) + daily[u][today] = Total(daily[u], Days) + n
        /\ Total(daily'[u], Days) \in Nat /\ daily[u][today] \in Nat
    BY <1>1, <2>3, DayMoves, BalanceTypes
  <2>5. n <= daily[u][today] + q
    BY <1>2, <1>3, <2>2, <2>4
  <2>6. Total(daily'[u], Days) <= Total(daily[u], Days) + q
    BY <2>4, <2>5, BalanceTypes
  <2>7. Total(daily'[u], Days) + t <= traffic[u]
    BY <1>5, <2>1, <2>4, <2>6, BalanceTypes DEF Balance
  <2> QED
    BY <1>1, <1>4, <2>7 DEF Balance
<1>7. CASE u # handler[c].user
  <2>1. Owed(u)[c] = 0 /\ Owed(u)'[c] = 0
    BY <1>1, <1>7 DEF Owed
  <2>2. daily'[u] = daily[u]
    BY <1>1, <1>7 DEF UpsertDaily
  <2>3. t = Total(Owed(u), Conns)
    BY <1>5, <2>1, BalanceTypes
  <2> QED
    BY <1>1, <1>4, <2>2, <2>3 DEF Balance
<1> QED
  BY <1>6, <1>7

(* Other ports charge the rules and the day at the same time.              *)
LEMMA OthersBalance ==
  ASSUME ChargeInv, ChargeInv', NEW v \in Users, OtherReports(v), rate >= 1,
         NEW u \in Users, Balance(u)
  PROVE  Balance(u)'
<1>1. /\ today \in Days /\ UNCHANGED <<rate, handler>> /\ rate \in Nat
      /\ daily \in [Users -> [Days -> Nat]] /\ traffic \in [Users -> Nat]
      /\ traffic' = [traffic EXCEPT ![v] = @ + rate]
  BY BalanceTypes DEF ChargeInv, ReportTypeOK, OtherReports
<1>2. Owed(u)' = Owed(u)
  BY <1>1 DEF Owed
<1>3. PICK t : t = Total(Owed(u), Conns)
  OBVIOUS
<1>4. t \in Nat
  BY <1>3, BalanceTypes
<1>5. CASE u = v
  <2>1. PICK n \in Nat : n = IF daily[u][today] = 0 THEN 1 ELSE daily[u][today] + rate
    <3>1. daily[u][today] \in Nat
      BY <1>1
    <3>2. CASE daily[u][today] = 0
      <4>1. PICK one \in Nat : one = 1
        OBVIOUS
      <4> QED
        BY <3>2, <4>1
    <3>3. CASE daily[u][today] # 0
      <4>1. daily[u][today] + rate \in Nat
        BY <1>1, <3>1
      <4> QED
        BY <3>3, <4>1
    <3> QED
      BY <3>2, <3>3
  <2>2. daily'[u] = [daily[u] EXCEPT ![today] = n]
    BY <1>1, <1>5, <2>1 DEF OtherReports
  <2>3. /\ Total(daily'[u], Days) + daily[u][today] = Total(daily[u], Days) + n
        /\ Total(daily'[u], Days) \in Nat /\ daily[u][today] \in Nat
    BY <1>1, <2>2, DayMoves, BalanceTypes
  <2>4. n <= daily[u][today] + rate
    BY <1>1, <2>1, <2>3
  <2>5. traffic'[u] = traffic[u] + rate
    BY <1>1, <1>5
  <2>6. Total(daily'[u], Days) + t <= traffic'[u]
    BY <1>1, <1>3, <1>4, <2>3, <2>4, <2>5, BalanceTypes DEF Balance
  <2> QED
    BY <1>2, <1>3, <2>6 DEF Balance
<1>6. CASE u # v
  <2>1. daily'[u] = daily[u] /\ traffic'[u] = traffic[u]
    BY <1>1, <1>6 DEF OtherReports
  <2> QED
    BY <1>2, <2>1 DEF Balance
<1> QED
  BY <1>5, <1>6

(* A request stays with its user, whatever else is done.                   *)
LEMMA ChargedStays ==
  ASSUME NEW c \in Conns, Charged(c), owner' = owner, c \in leftover => c \in leftover',
         \/ handler'[c] = handler[c]
         \/ handler'[c].pc \notin {"update", "daily"}
         \/ handler'[c].user = owner
         \/ handler[c].pc = "update" /\ handler'[c].user = handler[c].user
  PROVE  Charged(c)'
BY DEF Charged

(* A step about one connector and its request.                             *)
LEMMA OneCharged ==
  ASSUME ChargeInv, \A d \in Conns : Charged(d), NEW c \in Conns, owner' = owner,
         leftover \subseteq leftover', NEW req, handler' = [handler EXCEPT ![c] = req],
         \/ req = handler[c]
         \/ req.pc \notin {"update", "daily"}
         \/ req.user = owner
         \/ handler[c].pc = "update" /\ req.user = handler[c].user
  PROVE  /\ \A d \in Conns : Charged(d)'
         /\ handler'[c] = req /\ \A d \in Conns : d # c => handler'[d] = handler[d]
<1>1. handler'[c] = req /\ \A d \in Conns : d # c => handler'[d] = handler[d]
  BY DEF ChargeInv, ReportTypeOK
<1>2. ASSUME NEW d \in Conns PROVE Charged(d)'
  <2>1. CASE d = c
    BY <1>1, <2>1, ChargedStays
  <2>2. CASE d # c
    BY <1>1, <2>2, ChargedStays
  <2> QED
    BY <2>1, <2>2
<1> QED
  BY <1>1, <1>2

(* The reporter and the handler keep the invariant.                        *)
LEMMA OneDaily ==
  ASSUME ChargeInv, ChargeInv', DailyInv, NEW c \in Conns, Reporter(c) \/ Handler(c)
  PROVE  DailyInv'
<1> USE DEF ctlVars, histVars
<1>1. /\ handler \in [Conns -> Handlers] /\ handler[c] \in Handlers
      /\ \A d \in Conns : Charged(d)
  BY DEF ChargeInv, ReportTypeOK, DailyInv
<1>2. ASSUME UNCHANGED <<rate, owner, traffic, daily>>, leftover \subseteq leftover',
             NEW req, handler' = [handler EXCEPT ![c] = req],
             req = handler[c] \/ req.pc \notin {"update", "daily"}
                \/ (req.pc = "update" /\ req.user = owner)
      PROVE  DailyInv'
  <2>1. /\ \A d \in Conns : Charged(d)'
        /\ handler'[c] = req /\ \A d \in Conns : d # c => handler'[d] = handler[d]
    BY <1>1, <1>2, OneCharged
  <2>2. ASSUME rate' >= 1, leftover' = {}, NEW u \in Users PROVE Balance(u)'
    <3>1. Balance(u)
      BY <1>2, <2>2 DEF DailyInv
    <3>2. handler'[c] = handler[c] \/ handler'[c].pc # "daily"
      BY <1>2, <2>1
    <3> QED
      BY <1>2, <2>1, <3>1, <3>2, BalanceStays
  <2> QED
    BY <2>1, <2>2 DEF DailyInv
<1>3. handler = [handler EXCEPT ![c] = handler[c]]
  BY <1>1
<1>4. CASE Move(c)
  BY <1>2, <1>3, <1>4 DEF Move
<1>5. CASE Report(c)
  BY <1>2, <1>5 DEF Report
<1>6. CASE Answered(c)
  BY <1>2, <1>6 DEF Answered, NoHandler
<1>7. CASE AnswerLost(c)
  BY <1>2, <1>7 DEF AnswerLost, NoHandler
<1>8. CASE StoreZero(c)
  BY <1>2, <1>3, <1>8 DEF StoreZero
<1>9. CASE KeepCount(c)
  BY <1>2, <1>3, <1>9 DEF KeepCount
<1>10. CASE ReadRule(c)
  <2> DEFINE req == [handler[c] EXCEPT !.pc = IF owner = None THEN "failed" ELSE "update",
                                       !.user = owner]
  <2>1. handler' = [handler EXCEPT ![c] = req]
    BY <1>1, <1>10 DEF ReadRule
  <2>2. req.user = owner /\ req.pc \in {"failed", "update"}
    BY <1>1 DEF Handlers
  <2> HIDE DEF req
  <2> QED
    BY <1>2, <1>10, <2>1, <2>2 DEF ReadRule
<1>11. CASE UpdateRule(c)
  <2> DEFINE req == [handler[c] EXCEPT !.pc = "daily"]
  <2>1. handler' = [handler EXCEPT ![c] = req] /\ handler[c].pc = "update"
        /\ UNCHANGED <<rate, owner, leftover>>
    BY <1>1, <1>11 DEF UpdateRule
  <2>2. req.user = handler[c].user
    BY <1>1 DEF Handlers
  <2>3. \A d \in Conns : Charged(d)'
    <3> HIDE DEF req
    <3> QED
      BY <1>1, <2>1, <2>2, OneCharged
  <2>4. ASSUME rate' >= 1, leftover' = {}, NEW u \in Users PROVE Balance(u)'
    <3>1. Balance(u) /\ Charged(c) /\ c \notin leftover
      BY <1>1, <2>1, <2>4 DEF DailyInv
    <3> QED
      BY <1>11, <3>1, UpdateBalance
  <2> QED
    BY <2>3, <2>4 DEF DailyInv
<1>12. CASE UpsertDaily(c)
  <2> DEFINE req == [handler[c] EXCEPT !.pc = "done"]
  <2>1. handler' = [handler EXCEPT ![c] = req] /\ UNCHANGED <<rate, owner, leftover>>
    BY <1>1, <1>12 DEF UpsertDaily
  <2>2. req.pc = "done"
    BY <1>1 DEF Handlers
  <2>3. \A d \in Conns : Charged(d)'
    <3> HIDE DEF req
    <3> QED
      BY <1>1, <2>1, <2>2, OneCharged
  <2>4. ASSUME rate' >= 1, leftover' = {}, NEW u \in Users PROVE Balance(u)'
    <3>1. Balance(u) /\ rate >= 1
      BY <2>1, <2>4 DEF DailyInv
    <3> QED
      BY <1>12, <3>1, UpsertBalance
  <2> QED
    BY <2>3, <2>4 DEF DailyInv
<1>13. CASE HandlerFails(c)
  <2> DEFINE req == [handler[c] EXCEPT !.pc = "failed"]
  <2>1. handler' = [handler EXCEPT ![c] = req]
    BY <1>1, <1>13 DEF HandlerFails
  <2>2. req.pc = "failed"
    BY <1>1 DEF Handlers
  <2> HIDE DEF req
  <2> QED
    BY <1>2, <1>13, <2>1, <2>2 DEF HandlerFails
<1> QED
  BY <1>4, <1>5, <1>6, <1>7, <1>8, <1>9, <1>10, <1>11, <1>12, <1>13 DEF Reporter, Handler

(* A step that moves no request and adds nothing.                          *)
LEMMA NothingAdded ==
  ASSUME DailyInv, UNCHANGED <<rate, traffic, daily, handler>>, leftover \subseteq leftover',
         \A c \in Conns : Charged(c)'
  PROVE  DailyInv'
<1>1. ASSUME NEW u \in Users, Balance(u) PROVE Balance(u)'
  <2>1. Owed(u)' = Owed(u)
    BY DEF Owed
  <2> QED
    BY <1>1, <2>1 DEF Balance
<1>2. leftover' = {} => leftover = {}
  OBVIOUS
<1> QED
  BY <1>1, <1>2 DEF DailyInv

(* Rules that come and go, a crash and a restart, the next day.            *)
LEMMA EnvironmentDaily ==
  ASSUME ChargeInv, DailyInv,
         \/ \E c \in Conns : Restart(c)
         \/ \E u \in Users : AddRule(u)
         \/ DeleteRule \/ Crash \/ NextDay
  PROVE  DailyInv'
<1> USE DEF ctlVars, histVars
<1>1. \A c \in Conns : Charged(c) /\ Life(c) /\ Bill(c)
  BY DEF DailyInv, ChargeInv, Local
<1>2. ASSUME NEW c \in Conns, Restart(c) PROVE DailyInv'
  BY <1>1, <1>2, ChargedStays, NothingAdded DEF Restart
<1>3. ASSUME NEW u \in Users, AddRule(u) PROVE DailyInv'
  <2>1. ASSUME NEW c \in Conns PROVE Charged(c)'
    <3>1. owner = None /\ None \notin Users /\ UNCHANGED <<handler, leftover>>
      BY <1>3, ReportAssumption DEF AddRule
    <3>2. conn[c].st # "none" => conn[c].user # owner
      BY <1>1, <3>1 DEF Life
    <3>3. Reported(c) => conn[c].st # "none"
      BY <1>1 DEF Life, NoConn
    <3>4. c \notin leftover => ~Reported(c)
      BY <1>1, <3>2, <3>3 DEF Bill
    <3> QED
      BY <3>1, <3>4 DEF Charged, Reported
  <2> QED
    BY <1>3, <2>1, NothingAdded DEF AddRule
<1>4. CASE DeleteRule
  <2>1. ASSUME NEW c \in Conns PROVE Charged(c)'
    BY <1>4 DEF DeleteRule, Charged
  <2> QED
    BY <1>4, <2>1, NothingAdded DEF DeleteRule
<1>5. CASE Crash
  BY <1>1, <1>5, ChargedStays, NothingAdded DEF Crash
<1>6. CASE NextDay
  BY <1>1, <1>6, ChargedStays, NothingAdded DEF NextDay
<1> QED
  BY <1>2, <1>3, <1>4, <1>5, <1>6

(* The cron, the resetter, other reports and the requests about plans.     *)
LEMMA PlanStepDaily ==
  ASSUME ChargeInv, ChargeInv', DailyInv,
         \/ Cron \/ CronFails \/ ResetUser
         \/ \E u \in Customers :
             \/ OtherReports(u)
             \/ \E plan \in Plans : AssociatePlan(u, plan)
             \/ \E date \in Expirations : EditUser(u, date)
  PROVE  DailyInv'
<1> USE DEF ctlVars, histVars
<1>1. \A c \in Conns : Charged(c)
  BY DEF DailyInv
<1>2. ASSUME UNCHANGED <<rate, owner, handler, leftover>>
      PROVE  \A c \in Conns : Charged(c)'
  BY <1>1, <1>2, ChargedStays
<1>3. CASE Cron
  <2>1. UNCHANGED <<rate, owner, handler, leftover, traffic, daily>>
    BY <1>3 DEF Cron, Tick, CheckUser, reportVars
  <2> QED
    BY <1>2, <2>1, NothingAdded
<1>4. CASE CronFails
  BY <1>2, <1>4, NothingAdded DEF CronFails
<1>5. CASE ResetUser
  BY <1>2, <1>5, NothingAdded DEF ResetUser
<1>6. ASSUME NEW v \in Customers, OtherReports(v) PROVE DailyInv'
  <2>1. v \in Users /\ UNCHANGED <<rate, owner, handler, leftover>>
    BY <1>6, PlanAssumption DEF OtherReports
  <2>2. ASSUME rate' >= 1, leftover' = {}, NEW u \in Users PROVE Balance(u)'
    <3>1. Balance(u) /\ rate >= 1
      BY <2>1, <2>2 DEF DailyInv
    <3> QED
      BY <1>6, <2>1, <3>1, OthersBalance
  <2> QED
    BY <1>2, <2>1, <2>2 DEF DailyInv
<1>7. ASSUME NEW u \in Customers, NEW plan \in Plans, AssociatePlan(u, plan) PROVE DailyInv'
  BY <1>2, <1>7, NothingAdded DEF AssociatePlan
<1>8. ASSUME NEW u \in Customers, NEW date \in Expirations, EditUser(u, date) PROVE DailyInv'
  BY <1>2, <1>8, NothingAdded DEF EditUser
<1> QED
  BY <1>3, <1>4, <1>5, <1>6, <1>7, <1>8

(* At first nothing is charged and nothing is owed.                        *)
LEMMA DailyInit == ASSUME Init PROVE DailyInv
<1>1. \A c \in Conns : handler[c].pc = "none"
  BY DEF Init, ReportInit, NoHandler
<1>2. ASSUME NEW u \in Users PROVE Balance(u)
  <2>1. PICK o \in Nat : o = 0
    OBVIOUS
  <2>2. /\ daily[u] = [d \in Days |-> o] /\ Owed(u) = [c \in Conns |-> o] /\ traffic[u] = o
    BY <1>1, <2>1 DEF Init, ReportInit, Owed
  <2>3. Total(daily[u], Days) = 0
    BY <2>1, <2>2, TotalZero, ReportAssumption
  <2>4. Total(Owed(u), Conns) = 0
    BY <2>1, <2>2, TotalZero, ReportAssumption
  <2> QED
    BY <2>1, <2>2, <2>3, <2>4 DEF Balance
<1> QED
  BY <1>1, <1>2 DEF DailyInv, Charged

-----------------------------------------------------------------------------
(* Types that need the sums *)

(* What the cron adds up is a number, and the channel is never overfull.   *)
UseTypes ==
    /\ usage \in [Users -> Nat \cup {None}]
    /\ Len(userResetChan) <= ChanCap

(* Every step keeps that.                                                  *)
LEMMA UseStep ==
  ASSUME ChargeInv, PlanInv, UseTypes, [Next]_vars
  PROVE  UseTypes'
<1>1. PICK n \in Nat : n = ChanCap
  BY PlanAssumption
<1>2. PICK ch \in Seq(Waiting) : ch = userResetChan
  BY DEF PlanInv, PlanTypes
<1>3. Len(ch) \in Nat /\ Len(ch) <= n
  BY <1>1, <1>2 DEF UseTypes
<1>4. CASE UNCHANGED <<userResetChan, usage>>
  BY <1>4 DEF UseTypes
<1>5. ASSUME NEW u \in Users, CheckUser(u) PROVE UseTypes'
  <2>1. PICK row : row = cron.rows[u]
    OBVIOUS
  <2>2. PICK used : used = Used(u, row)
    OBVIOUS
  <2>3. used \in Nat
    <3>1. PICK S : S = Period(row)
      OBVIOUS
    <3>2. S \subseteq Days /\ IsFiniteSet(S)
      BY <3>1, BalanceTypes, FS_Subset DEF Period
    <3>3. \A d \in S : daily[u][d] \in Nat
      BY <3>2, BalanceTypes
    <3>4. Total(daily[u], S) \in Nat
      BY <3>2, <3>3, TotalType
    <3> QED
      BY <2>2, <3>1, <3>4 DEF Used, Total
  <2>4. usage' \in [Users -> Nat \cup {None}]
    <3>1. usage' = [usage EXCEPT ![u] = used]
      BY <1>5, <2>1, <2>2 DEF CheckUser
    <3> QED
      BY <2>3, <3>1 DEF UseTypes
  <2>5. PICK item : item = [id |-> u, row |-> row]
    OBVIOUS
  <2>6. \/ userResetChan' = ch
        \/ userResetChan' = Append(ch, item) /\ Len(ch) < n
    BY <1>1, <1>2, <1>5, <2>1, <2>5 DEF CheckUser
  <2>7. Len(Append(ch, item)) = Len(ch) + 1
    OBVIOUS
  <2>8. Len(userResetChan') <= n
    BY <1>3, <2>6, <2>7
  <2> QED
    BY <1>1, <2>4, <2>8, PlanAssumption DEF UseTypes
<1>6. CASE ResetUser
  <2>1. userResetChan' = Tail(ch) /\ ch # <<>> /\ UNCHANGED usage
    BY <1>2, <1>6 DEF ResetUser
  <2>2. Len(Tail(ch)) = Len(ch) - 1
    BY <2>1
  <2>3. Len(userResetChan') <= n
    BY <1>3, <2>1, <2>2
  <2> QED
    BY <1>1, <2>1, <2>3, PlanAssumption DEF UseTypes
<1>7. CASE Tick \/ CronFails
  BY <1>4, <1>7 DEF Tick, CronFails
<1>8. ASSUME NEW u \in Customers, \E plan \in Plans : AssociatePlan(u, plan) PROVE UseTypes'
  BY <1>4, <1>8 DEF AssociatePlan
<1>9. ASSUME NEW u \in Customers, \E date \in Expirations : EditUser(u, date) PROVE UseTypes'
  BY <1>4, <1>9 DEF EditUser
<1>10. ASSUME NEW u \in Customers, OtherReports(u) PROVE UseTypes'
  BY <1>4, <1>10 DEF OtherReports, planVars
<1>11. CASE UNCHANGED planVars \/ UNCHANGED vars
  BY <1>4, <1>11 DEF planVars, vars
<1> QED
  BY <1>5, <1>6, <1>7, <1>8, <1>9, <1>10, <1>11 DEF Next, Cron

-----------------------------------------------------------------------------
(* Theorems *)

(* The account of every connector is consistent, whatever is lost, retried *)
(* or overlaps.                                                            *)
THEOREM Accounts == Spec => []ChargeInv
<1>1. Init => ChargeInv
  <2> SUFFICES ASSUME Init PROVE ChargeInv
    OBVIOUS
  <2>1. ReportTypeOK
    BY ReportAssumption
       DEF Init, ReportInit, ReportTypeOK, NoConn, Connectors, NoHandler, Handlers
  <2>2. ASSUME NEW c \in Conns PROVE Local(c)
    <3>1. conn[c] = NoConn /\ handler[c] = NoHandler
      BY DEF Init, ReportInit
    <3> QED
      BY <3>1 DEF Local, Life, Charge, Loss, Bill, Unsettled, Reported, NoConn, NoHandler
  <2> QED
    BY <2>1, <2>2 DEF ChargeInv
<1>2. ChargeInv /\ [Next]_vars => ChargeInv'
  <2> SUFFICES ASSUME ChargeInv, [Next]_vars PROVE ChargeInv'
    OBVIOUS
  <2>1. CASE ReportNext
    BY <2>1, ReporterKeeps, HandlerKeeps, EnvironmentKeeps DEF ReportNext
  <2>2. CASE UNCHANGED vars
    <3>1. UNCHANGED <<today, rate, owner, traffic, daily, conn, handler, left, histVars>>
      BY <2>2 DEF vars, reportVars, ctlVars
    <3> QED
      BY <3>1, PlansKeep DEF ChargeInv, ReportTypeOK
  <2>3. CASE Next /\ ~ReportNext
    BY <2>3, PlanStepKeeps DEF Next
  <2> QED
    BY <2>1, <2>2, <2>3 DEF Next
<1> QED
  BY <1>1, <1>2, PTL DEF Spec

(* No byte is charged that a connector did not move, unless a report was   *)
(* answered with an error after it had been added to the rule.             *)
THEOREM NoOvercharge == Spec => []OverchargedOnlyByRetry
<1>1. ChargeInv => OverchargedOnlyByRetry
  BY DEF ChargeInv, ReportTypeOK, Local, Life, Charge, Unsettled, OverchargedOnlyByRetry, Connectors
<1> QED
  BY <1>1, Accounts, PTL

(* No byte is forgotten, unless it was moved during a report, its rule was *)
(* gone, or the agent crashed.                                             *)
THEOREM NoLoss == Spec => []LostOnlyByOverlap
<1>1. ChargeInv => LostOnlyByOverlap
  BY DEF ChargeInv, ReportTypeOK, Local, Life, Loss, Unsettled, LostOnlyByOverlap, Connectors
<1> QED
  BY <1>1, Accounts, PTL

(* Nobody is charged for another user's rule, unless a rule was deleted    *)
(* before all its bytes were reported.                                     *)
THEOREM NoMischarge == Spec => []MischargedOnlyByLeftover
<1>1. ChargeInv => MischargedOnlyByLeftover
  BY DEF ChargeInv, Local, Bill, MischargedOnlyByLeftover
<1> QED
  BY <1>1, Accounts, PTL

(* Rows, cron and resetter stay consistent: nobody without a plan is sent  *)
(* to the resetter, and the reset date of every user whose row did not     *)
(* change while it waited there is reckoned from the last reset.           *)
THEOREM PlansSound == Spec => []PlanInv
<1>1. Init => PlanInv
  <2> SUFFICES ASSUME Init PROVE PlanInv
    OBVIOUS
  <2>1. PlanTypes
    BY DEF Init, ReportInit, PlanTypes, NoRows, Rows, Idle
  <2> QED
    BY <2>1 DEF Init, PlanInv, Periodic, NoRows, NoPlan
<1>2. ChargeInv /\ PlanInv /\ [Next]_vars => PlanInv'
  <2> SUFFICES ASSUME ChargeInv, PlanInv, [Next]_vars PROVE PlanInv'
    OBVIOUS
  <2>1. today \in Days
    BY DEF ChargeInv, ReportTypeOK
  <2>2. CASE UNCHANGED planVars
    BY <2>2 DEF planVars, PlanInv, PlanTypes, Planned, Waiting, Periodic
  <2>3. CASE Cron
    BY <2>3, TickPlans, CheckPlans DEF Cron
  <2>4. CASE CronFails
    <3>1. cron' = [Idle EXCEPT !.pc = "dead"] /\ UNCHANGED <<user, userResetChan, since, outdated>>
      BY <2>4 DEF CronFails
    <3>2. /\ cron' \in [pc : {"wait", "users", "dead"}, rows : [Users -> Rows], todo : SUBSET Planned]
          /\ cron'.todo = {}
      BY <3>1 DEF Idle, NoRows, Rows
    <3> QED
      BY <3>1, <3>2, RowsStay DEF PlanInv, PlanTypes
  <2>5. CASE ResetUser
    BY <2>1, <2>5, ResetPlans
  <2>6. ASSUME NEW u \in Customers, \E plan \in Plans : AssociatePlan(u, plan) PROVE PlanInv'
    BY <2>1, <2>6, AssociatePlans
  <2>7. ASSUME NEW u \in Customers, \E date \in Expirations : EditUser(u, date) PROVE PlanInv'
    BY <2>7, EditPlans
  <2>8. ASSUME NEW u \in Customers, OtherReports(u) PROVE UNCHANGED planVars
    BY <2>8 DEF OtherReports
  <2>9. UNCHANGED vars => UNCHANGED planVars
    BY DEF vars
  <2> QED
    BY <2>2, <2>3, <2>4, <2>5, <2>6, <2>7, <2>8, <2>9 DEF Next
<1> QED
  BY <1>1, <1>2, Accounts, PTL DEF Spec

(* The days that count towards a plan begin on the day of the last reset,  *)
(* or up to three days later when that was the 29th or later.              *)
THEOREM PeriodFollows == Spec => []PeriodFollowsReset
<1>1. PlanInv => PeriodFollowsReset
  <2> SUFFICES ASSUME PlanInv, NEW u \in Users, user[u].plan # None, u \notin outdated
               PROVE  LET start == PeriodStart(user[u])
                      IN  IF DayOfMonth(since[u]) <= 28 THEN start = since[u]
                          ELSE since[u] <= start /\ start <= since[u] + 3
    BY DEF PeriodFollowsReset
  <2>1. user[u].reset = AddDate(since[u], user[u].plan.months, 0)
    BY DEF PlanInv, Periodic
  <2>2. user[u] \in PlanRows /\ since[u] \in Days
    BY DEF PlanInv, PlanTypes, Rows, PlanRows, NoPlan
  <2>3. since[u] \in 0..(Horizon - 366) /\ user[u].plan.months \in Terms
    BY <2>2, CalendarAssumption, PlanAssumption DEF PlanRows, Terms
  <2> QED
    BY <2>1, <2>3, PeriodBack DEF PeriodStart
<1> QED
  BY <1>1, PlansSound, PTL

(* No step of the resetter or a request moves a period beyond the date on  *)
(* which the user expires and the hours of grace, unless the row was       *)
(* changed while it waited for the resetter.                               *)
THEOREM ResetWithin == Spec => ResetWithinExpiration
<1> DEFINE Within == \A u \in Users : user'[u].reset # user[u].reset =>
                         user'[u].reset <= user'[u].exp + 1 \/ u \in outdated'
<1>1. ChargeInv /\ PlanInv /\ [Next]_vars => [Within]_user
  <2> SUFFICES ASSUME ChargeInv, PlanInv, [Next]_vars, user' # user PROVE Within
    OBVIOUS
  <2>1. /\ today \in Days /\ user \in [Users -> Rows]
        /\ \A u \in Users : user[u].plan # None => user[u] \in PlanRows
    BY DEF ChargeInv, ReportTypeOK, PlanInv, PlanTypes, Rows, PlanRows, NoPlan
  <2>2. CASE ResetUser
    <3>1. PICK id, row : id = Head(userResetChan).id /\ row = Head(userResetChan).row
      OBVIOUS
    <3>2. PICK next : next = AddDate(today, row.plan.months, 0)
      OBVIOUS
    <3>3. /\ row.exp + 1 >= next
          /\ user' = [user EXCEPT ![id].reset = next]
          /\ outdated' = IF user[id].plan = row.plan /\ user[id].exp = row.exp
                         THEN outdated \ {id} ELSE outdated \cup {id}
      BY <2>2, <3>1, <3>2 DEF ResetUser
    <3>4. id \in Planned /\ row \in PlanRows
      <4>1. userResetChan \in Seq(Waiting) /\ userResetChan # <<>>
        BY <2>2 DEF PlanInv, PlanTypes, ResetUser
      <4>2. Head(userResetChan) \in Waiting
        BY <4>1
      <4> QED
        BY <3>1, <4>2 DEF Waiting
    <3>5. id \in Users /\ user[id] \in PlanRows /\ next \in Nat
      BY <2>1, <3>2, <3>4, EndIsDate DEF Planned, Rows, PlanRows, NoPlan
    <3>6. /\ user'[id].reset = next /\ user'[id].exp = user[id].exp
          /\ \A u \in Users \ {id} : user'[u] = user[u]
      BY <2>1, <3>3, <3>4, <3>5 DEF PlanRows
    <3>7. user[id].exp = row.exp \/ id \in outdated'
      BY <3>3
    <3> QED
      BY <3>3, <3>4, <3>5, <3>6, <3>7 DEF PlanRows
  <2>3. ASSUME NEW u \in Customers, NEW plan \in Plans, AssociatePlan(u, plan) PROVE Within
    <3>1. PICK end : end = AddDate(today, plan.months, 0)
      OBVIOUS
    <3>2. user' = [user EXCEPT ![u] = [plan |-> plan, reset |-> end, exp |-> end]]
      BY <2>3, <3>1 DEF AssociatePlan
    <3>3. u \in Users /\ end \in Nat
      BY <2>1, <3>1, EndIsDate, PlanAssumption
    <3>4. user'[u].reset = end /\ user'[u].exp = end /\ \A v \in Users \ {u} : user'[v] = user[v]
      BY <2>1, <3>2, <3>3
    <3> QED
      BY <3>3, <3>4
  <2>4. ASSUME NEW u \in Customers, NEW date \in Expirations, EditUser(u, date) PROVE Within
    <3>1. user' = [user EXCEPT ![u].exp = date] /\ user[u].plan # None /\ u \in Users
      BY <2>4, PlanAssumption DEF EditUser
    <3>2. user'[u].reset = user[u].reset /\ \A v \in Users \ {u} : user'[v] = user[v]
      BY <2>1, <3>1 DEF PlanRows
    <3> QED
      BY <3>2
  <2>5. ~(UNCHANGED planVars) /\ ~(UNCHANGED user)
    BY DEF planVars
  <2>6. ~Cron /\ ~CronFails /\ \A u \in Customers : ~OtherReports(u)
    BY <2>5 DEF Cron, Tick, CheckUser, CronFails, OtherReports
  <2>7. Next
    BY <2>5 DEF vars
  <2> QED
    BY <2>2, <2>3, <2>4, <2>5, <2>6, <2>7 DEF Next
<1> QED
  BY <1>1, Accounts, PlansSound, PTL DEF Spec, ResetWithinExpiration

(* The sums of the days are accounted for in every reachable state.        *)
THEOREM DaysAccounted == Spec => []DailyInv
<1>1. Init => DailyInv
  BY DailyInit
<1>2. ASSUME ChargeInv, ChargeInv', DailyInv, [Next]_vars PROVE DailyInv'
  <2>1. CASE ReportNext
    BY <1>2, <2>1, OneDaily, EnvironmentDaily DEF ReportNext
  <2>2. CASE \/ Cron \/ CronFails \/ ResetUser
             \/ \E u \in Customers :
                 \/ OtherReports(u)
                 \/ \E plan \in Plans : AssociatePlan(u, plan)
                 \/ \E date \in Expirations : EditUser(u, date)
    BY <1>2, <2>2, PlanStepDaily
  <2>3. CASE UNCHANGED vars
    <3>1. UNCHANGED <<rate, owner, handler, leftover, traffic, daily>>
      BY <2>3 DEF vars, reportVars, ctlVars, histVars
    <3>2. \A c \in Conns : Charged(c)'
      BY <1>2, <3>1, ChargedStays DEF DailyInv
    <3> QED
      BY <1>2, <3>1, <3>2, NothingAdded
  <2> QED
    BY <1>2, <2>1, <2>2, <2>3 DEF Next
<1> QED
  BY <1>1, <1>2, Accounts, PTL DEF Spec

(* A user's days never add up to more than the traffic of his rules.       *)
THEOREM DailyWithin == Spec => []DailyWithinTraffic
<1>1. ASSUME ChargeInv, DailyInv PROVE DailyWithinTraffic
  <2>1. SUFFICES ASSUME rate >= 1, leftover = {}, NEW u \in Users
                 PROVE  MapThenSumSet(LAMBDA d : daily[u][d], Days) <= traffic[u]
    BY DEF DailyWithinTraffic
  <2>2. Total(daily[u], Days) <= traffic[u]
    BY <1>1, <2>1, BalanceTypes DEF DailyInv, Balance
  <2> QED
    BY <2>2 DEF Total
<1> QED
  BY <1>1, Accounts, DaysAccounted, PTL

(* Every variable keeps its type, the sums shown to the users included.    *)
THEOREM PlanTyped == Spec => []TypeOK
<1>1. Init => UseTypes
  BY PlanAssumption DEF Init, UseTypes
<1>2. ASSUME ChargeInv, PlanInv, UseTypes PROVE TypeOK
  <2>1. PICK ch \in Seq(Waiting) : ch = userResetChan
    BY <1>2 DEF PlanInv, PlanTypes
  <2>2. Waiting \subseteq [id : Users, row : Rows]
    BY DEF Waiting, Planned, PlanRows, Rows
  <2>3. userResetChan \in Seq([id : Users, row : Rows])
    BY <2>1, <2>2, SeqWidens
  <2>4. cron \in [pc : {"wait", "users", "dead"}, rows : [Users -> Rows], todo : SUBSET Users]
    BY <1>2 DEF PlanInv, PlanTypes, Planned
  <2> QED
    BY <1>2, <2>3, <2>4 DEF TypeOK, ChargeInv, PlanInv, PlanTypes, UseTypes
<1> QED
  BY <1>1, <1>2, UseStep, Accounts, PlansSound, PTL DEF Spec
=============================================================================
