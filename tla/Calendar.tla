------------------------------ MODULE Calendar ------------------------------
(***************************************************************************)
(* Dates as numbers of days since the first of January 2023, and what      *)
(* time.Time.AddDate does to them: the month is added first, and a day     *)
(* that the month does not have overflows into the next one.               *)
(***************************************************************************)
EXTENDS Integers, FiniteSetsExt

(* Days before each month of a common year.                                *)
Before == <<0, 31, 59, 90, 120, 151, 181, 212, 243, 273, 304, 334>>

(* The first day of month m, 0 being January 2023; 2024 and 2028 are leap  *)
(* years.                                                                  *)
FirstOf(m) ==
    365 * (m \div 12) + Before[(m % 12) + 1]
        + (IF m > 13 THEN 1 ELSE 0) + (IF m > 61 THEN 1 ELSE 0)

(* A function, and so a table that TLC computes once, up to the year 2031. *)
Horizon == 3286
MonthOf == [date \in 0..Horizon |->
                Max({m \in (date \div 31)..(date \div 28) : FirstOf(m) <= date})]
DayOfMonth(date) == date - FirstOf(MonthOf[date]) + 1

(* date.AddDate(0, months, days)                                           *)
AddDate(date, months, days) ==
    FirstOf(MonthOf[date] + months) + (DayOfMonth(date) - 1) + days

(* The date of a day, to write one down.                                   *)
Date(month, day) == FirstOf(month) + day - 1
=============================================================================
