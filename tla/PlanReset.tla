----------------------------- MODULE PlanReset -----------------------------
(***************************************************************************)
(* Traffic plans, on top of the charges of TrafficReport: the goroutines   *)
(* of calculateUserPeriodTrafficUsage and the requests that write a user's *)
(* plan.  Every half minute the cron reads all users, adds up the days in  *)
(* each user's period, keeps the sum for display, and sends a user whose   *)
(* period is over, or who has used more than his plan has, to the resetter,*)
(* which starts a new period from now, unless that goes beyond the date on *)
(* which the user expires.  The first failed query ends the cron for good. *)
(*                                                                         *)
(* Times are dates of Calendar; where the hour decides, both outcomes are  *)
(* possible.  left.plans bounds the requests.                              *)
(***************************************************************************)
EXTENDS TrafficReport, Calendar, Sequences

CONSTANTS
    Customers,  \* the users to whom plans are given
    Plans,      \* [months, total]: the plans there are
    Expirations,    \* the dates an administrator may enter
    ChanCap     \* capacity of userResetChan

ASSUME PlanAssumption ==
    /\ Customers \subseteq Users
    /\ Plans \subseteq [months : {1, 3, 6, 12}, total : Nat]
    /\ Expirations \subseteq Nat
    /\ ChanCap \in Nat \ {0}

(* The table of Calendar goes beyond the end of any period.                *)
ASSUME CalendarAssumption == Days \subseteq 0..(Horizon - 366)

VARIABLES
    user,           \* rows: the plan, its reset and expiration dates
    cron,           \* the goroutine of cron.Do
    userResetChan,  \* the users sent to the resetter, as they were read
    usage,          \* userPlanUsageMap; None: no entry
    \* history, per user:
    since,          \* the date of the last reset or new plan
    outdated        \* users reset from a row that was changed since it was read

planVars == <<user, cron, userResetChan, usage, since, outdated>>
vars     == <<reportVars, planVars>>

NoPlan == [plan |-> None, reset |-> 0, exp |-> 0]
Rows   == [plan : Plans, reset : Nat, exp : Nat] \cup {NoPlan}

TypeOK ==
    /\ ReportTypeOK
    /\ user \in [Users -> Rows]
    /\ cron \in [pc : {"wait", "users", "dead"}, rows : [Users -> Rows], todo : SUBSET Users]
    /\ userResetChan \in Seq([id : Users, row : Rows])
    /\ Len(userResetChan) <= ChanCap
    /\ usage \in [Users -> Nat \cup {None}]
    /\ since \in [Users -> Days]
    /\ outdated \subseteq Users

-----------------------------------------------------------------------------
(* The period that ends with a row's reset date.  The code begins it a day *)
(* earlier at the same hour: the first midnight after that is a day later. *)
PeriodStart(row) == AddDate(row.reset, -row.plan.months, -1) + 1
Period(row) == {d \in Days : PeriodStart(row) <= d /\ d <= row.reset}

Used(u, row) == MapThenSumSet(LAMBDA d : daily[u][d], Period(row))

(* now.After(reset)                                                        *)
MayBeOver(row) == today >= row.reset
MustBeOver(row) == today > row.reset

-----------------------------------------------------------------------------
(* The cron                                                                *)

NoRows == [u \in Users |-> NoPlan]
Idle   == [pc |-> "wait", rows |-> NoRows, todo |-> {}]

Tick ==
    LET planned == {u \in Users : user[u].plan # None}
    IN  /\ cron.pc = "wait" /\ planned # {}
        /\ cron' = [pc |-> "users", rows |-> user, todo |-> planned]
        /\ UNCHANGED <<reportVars, user, userResetChan, usage, since, outdated>>

(* Mutant: the date is not looked at.                                      *)
CheckUse(u) ==
    LET row  == cron.rows[u]
        used == Used(u, row)
        rest == cron.todo \ {u}
    IN  /\ cron.pc = "users" /\ u \in cron.todo
        /\ cron' = IF rest = {} THEN Idle ELSE [cron EXCEPT !.todo = rest]
        /\ userResetChan' = IF used > row.plan.total /\ Len(userResetChan) < ChanCap
                            THEN Append(userResetChan, [id |-> u, row |-> row])
                            ELSE userResetChan
        /\ usage' = [usage EXCEPT ![u] = used]
        /\ UNCHANGED <<reportVars, user, since, outdated>>

(* One user of the list: add up, send when the period is over or the plan  *)
(* used up, store the sum.                                                 *)
CheckUser(u) ==
    LET row  == cron.rows[u]
        used == Used(u, row)
        rest == cron.todo \ {u}
    IN  /\ cron.pc = "users" /\ u \in cron.todo
        /\ cron' = IF rest = {} THEN Idle ELSE [cron EXCEPT !.todo = rest]
        /\ \/ /\ used > row.plan.total \/ MayBeOver(row)
              /\ Len(userResetChan) < ChanCap
              /\ userResetChan' = Append(userResetChan, [id |-> u, row |-> row])
           \/ /\ used <= row.plan.total /\ ~MustBeOver(row)
              /\ UNCHANGED userResetChan
        /\ usage' = [usage EXCEPT ![u] = used]
        /\ UNCHANGED <<reportVars, user, since, outdated>>

(* cron.Do returns the error, and nobody calls it again.                   *)
CronFails ==
    /\ cron.pc # "dead" /\ Spend("faults")
    /\ cron' = [Idle EXCEPT !.pc = "dead"]
    /\ UNCHANGED <<ctlVars, conn, handler, histVars, user, userResetChan, usage, since, outdated>>

-----------------------------------------------------------------------------
(* The resetter: the user as he was read, the time as it is now            *)

(* Mutants: the new period starts where the old one ended; the expiration  *)
(* is not looked at.                                                       *)
ResetFromEnd ==
    LET id   == Head(userResetChan).id
        row  == Head(userResetChan).row
        next == AddDate(row.reset, row.plan.months, 0)
    IN  /\ userResetChan # <<>>
        /\ userResetChan' = Tail(userResetChan)
        /\ user' = [user EXCEPT ![id].reset = next]
        /\ since' = [since EXCEPT ![id] = today]
        /\ UNCHANGED <<reportVars, cron, usage, outdated>>

ResetAnyUser ==
    LET id   == Head(userResetChan).id
        row  == Head(userResetChan).row
    IN  /\ userResetChan # <<>>
        /\ userResetChan' = Tail(userResetChan)
        /\ user' = [user EXCEPT ![id].reset = AddDate(today, row.plan.months, 0)]
        /\ since' = [since EXCEPT ![id] = today]
        /\ outdated' = IF user[id].plan = row.plan /\ user[id].exp = row.exp
                       THEN outdated \ {id} ELSE outdated \cup {id}
        /\ UNCHANGED <<reportVars, cron, usage>>

(* The expiration has five hours of grace, which may reach the next day.   *)
ResetUser ==
    LET id   == Head(userResetChan).id
        row  == Head(userResetChan).row
        next == AddDate(today, row.plan.months, 0)
    IN  /\ userResetChan # <<>>
        /\ userResetChan' = Tail(userResetChan)
        /\ \/ /\ row.exp + 1 >= next
              /\ user' = [user EXCEPT ![id].reset = next]
              /\ since' = [since EXCEPT ![id] = today]
              /\ outdated' = IF user[id].plan = row.plan /\ user[id].exp = row.exp
                             THEN outdated \ {id} ELSE outdated \cup {id}
              /\ UNCHANGED left
           \/ /\ row.exp <= next \* expired
              /\ UNCHANGED <<user, since, outdated, left>>
           \/ Spend("faults") /\ UNCHANGED <<user, since, outdated>>
        /\ UNCHANGED <<ctlVars, conn, handler, histVars, cron, usage>>

-----------------------------------------------------------------------------
(* Requests: associatePlans and editUser                                   *)

AssociatePlan(u, plan) ==
    LET end == AddDate(today, plan.months, 0)
    IN  /\ Spend("plans")
        /\ user' = [user EXCEPT ![u] = [plan |-> plan, reset |-> end, exp |-> end]]
        /\ since' = [since EXCEPT ![u] = today]
        /\ outdated' = outdated \ {u}
        /\ UNCHANGED <<ctlVars, conn, handler, histVars, cron, userResetChan, usage>>

EditUser(u, date) ==
    /\ user[u].plan # None /\ Spend("plans")
    /\ user' = [user EXCEPT ![u].exp = date]
    /\ UNCHANGED <<ctlVars, conn, handler, histVars, cron, userResetChan, usage, since, outdated>>

(* The user's rules on other ports report a byte.                          *)
OtherReports(u) ==
    /\ Spend("others")
    /\ traffic' = [traffic EXCEPT ![u] = @ + rate]
    /\ daily' = [daily EXCEPT ![u][today] = IF @ = 0 THEN 1 ELSE @ + rate]
    /\ UNCHANGED <<today, rate, owner, conn, handler, histVars, planVars>>

-----------------------------------------------------------------------------
Init ==
    /\ ReportInit
    /\ user = NoRows
    /\ cron = Idle
    /\ userResetChan = <<>>
    /\ usage = [u \in Users |-> None]
    /\ since = [u \in Users |-> today]
    /\ outdated = {}

Cron == Tick \/ \E u \in Users : CheckUser(u)

Next ==
    \/ ReportNext /\ UNCHANGED planVars
    \/ Cron \/ CronFails \/ ResetUser
    \/ \E u \in Customers :
        \/ OtherReports(u)
        \/ \E plan \in Plans : AssociatePlan(u, plan)
        \/ \E date \in Expirations : EditUser(u, date)

Spec == Init /\ [][Next]_vars

(* The cron and the resetter run.                                          *)
Fairness == WF_cron(Cron) /\ WF_userResetChan(ResetUser)

FairSpec == Spec /\ Fairness

-----------------------------------------------------------------------------
(* Properties *)

(* The days that count towards the plan begin with the day of the last     *)
(* reset, none before and none left out.  Two exceptions.  After a reset   *)
(* on the 29th to the 31st, one to three days are left out, because        *)
(* AddDate(0, -1, -1) does not undo AddDate(0, 1, 0).  And a resetter that *)
(* works on a row read before the plan was changed writes the end of a     *)
(* period of the old length, which may be a year away.                     *)
PeriodFollowsReset ==
    \A u \in Users : user[u].plan # None /\ u \notin outdated =>
        LET start == PeriodStart(user[u])
        IN  IF DayOfMonth(since[u]) <= 28 THEN start = since[u]
            ELSE since[u] <= start /\ start <= since[u] + 3

(* No reset moves the period beyond the user's expiration and its hours of *)
(* grace, except that of a row read before the expiration was changed.     *)
ResetWithinExpiration ==
    [][\A u \in Users : user'[u].reset # user[u].reset =>
            user'[u].reset <= user'[u].exp + 1 \/ u \in outdated']_user

(* A period that is over, of a user who has time for another one.          *)
Due(u) ==
    /\ user[u].plan # None /\ MustBeOver(user[u])
    /\ user[u].exp > AddDate(today, user[u].plan.months, 0)

(* Such a user is reset, unless the cron has died of an error before.      *)
ResetHappens == \A u \in Users : Due(u) ~> (~Due(u) \/ cron.pc = "dead")
=============================================================================
