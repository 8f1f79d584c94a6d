---------------------------- MODULE DirectoryProofs ----------------------------
(***************************************************************************)
(* Theorems about the tables of nodes, chains and mappings and a reader of *)
(* their lists, for any number of requests, users, rows and pages, in any  *)
(* order of their steps.                                                   *)
(***************************************************************************)
EXTENDS Directory, TLAPS, FiniteSetTheorems, WellFoundedInduction

(* The smallest of a set of keys, by which First() finds a row.            *)
LEMMA MinFacts ==
  ASSUME NEW S \in SUBSET Nat, S # {}
  PROVE  Min(S) \in S /\ \A y \in S : Min(S) <= y
<1>1. IsWellFoundedOn(OpToRel(<,Nat), Nat)
  BY NatLessThanWellFounded
<1>2. PICK x \in S : \A y \in S : ~(<<y, x>> \in OpToRel(<,Nat))
  BY <1>1, WFMin
<1>3. \A y \in S : ~(y < x)
  BY <1>2 DEF OpToRel
<1>4. \A y \in S : x <= y
  BY <1>3
<1> QED
  BY <1>2, <1>4 DEF Min

-----------------------------------------------------------------------------
(* The tables and the requests that write them *)

(* Rows, requests, and what the tables and the history hold.               *)
RowTypes ==
    [kind : Kinds, live : BOOLEAN, by : Users, site : (Ids \X Sites) \cup {NoSite},
     stamp : 0..MaxClock]

TaskTypes ==
    [step : {"idle", "insert", "find", "map", "delete", "unmap", "update"},
     op : {"none", "add", "delete", "edit"}, kind : Kinds, who : Users,
     id : Ids \cup {NoRow}, site : (Ids \X Sites) \cup {NoSite}]

TablesOK ==
    /\ row \in Seq(RowTypes) /\ Len(row) <= MaxRows
    /\ grant \subseteq [who : Users, id : Ids]
    /\ clock \in 0..MaxClock
    /\ task \in [Callers -> TaskTypes]
    /\ lapse \in [Lapses -> SUBSET Ids]

(* A delete that has removed the row and not yet its mappings; a request   *)
(* that has added a row and not yet its mapping.                           *)
Unmapping(i) == \E c \in Callers : task[c].step = "unmap" /\ task[c].id = i
Adding(i)    == \E c \in Callers : task[c].step \in {"find", "map"} /\ task[c].id = i

(* The row is the user's, or is one of two that were added at once.        *)
Given(u, i) == row[i].by = u \/ i \in lapse["crossed"]

(* What a request knows of the row it works on.                            *)
TaskFits(c) ==
    LET t == task[c] IN
    /\ t.step \in {"insert", "find", "map"} <=> t.op = "add"
    /\ t.step \in {"delete", "unmap"} => t.op = "delete"
    /\ t.step \in {"idle", "insert"} => t.id = NoRow
    /\ t.step \notin {"idle", "insert"} => t.id \in DOMAIN row
    /\ t.step \in {"find", "delete", "unmap"} => row[t.id].kind = t.kind
    /\ t.step = "find" => row[t.id].by = t.who /\ row[t.id].site = t.site
    /\ t.step = "map" => Given(t.who, t.id) /\ (Live(t.id) \/ t.id \in lapse["overtaken"])
    /\ (t.step \in {"delete", "unmap"} /\ t.kind = "chain" /\ t.who # Boss) => Given(t.who, t.id)
    /\ t.step = "unmap" => ~Live(t.id)

(* What a mapping and a row say, and what accounts for the exceptions.     *)
GrantFits(g) ==
    /\ g.id \in DOMAIN row
    /\ Given(g.who, g.id)
    /\ Live(g.id) \/ Unmapping(g.id) \/ \E why \in Lapses : g.id \in lapse[why]

(* A row is mapped to the user who added it, but for the exceptions.       *)
RowFits(i) ==
    /\ row[i].stamp <= clock
    /\ Live(i) => \/ [who |-> row[i].by, id |-> i] \in grant
                  \/ Adding(i)
                  \/ i \in lapse["failed"] \cup lapse["crossed"]

(* What the handlers that write preserve.                                  *)
WriteInv ==
    /\ TablesOK
    /\ \A c \in Callers : TaskFits(c)
    /\ \A g \in grant : GrantFits(g)
    /\ \A i \in DOMAIN row : RowFits(i)

(* Rows keep what they are, but for a delete and the time of their last    *)
(* change; what lapsed stays lapsed.                                       *)
RowsStay ==
    /\ DOMAIN row \subseteq DOMAIN row'
    /\ \A i \in DOMAIN row :
        /\ row'[i].kind = row[i].kind /\ row'[i].by = row[i].by /\ row'[i].site = row[i].site
        /\ row'[i].live => row[i].live
    /\ \A why \in Lapses : lapse[why] \subseteq lapse'[why]

(* A request that did nothing still fits, if a row deleted under it while  *)
(* it was adding the row is a lapse.                                       *)
LEMMA OtherTask ==
  ASSUME TablesOK, RowsStay, NEW d \in Callers, TaskFits(d), task'[d] = task[d],
         (task[d].step = "map" /\ row[task[d].id].live)
            => (row'[task[d].id].live \/ task[d].id \in lapse'["overtaken"])
  PROVE  TaskFits(d)'
<1>1. task[d].step \notin {"idle", "insert"} => task[d].id \in DOMAIN row
  BY DEF TaskFits
<1>2. lapse["overtaken"] \subseteq lapse'["overtaken"] /\ lapse["crossed"] \subseteq lapse'["crossed"]
  BY DEF RowsStay, Lapses
<1> QED
  BY <1>1, <1>2 DEF TaskFits, RowsStay, Given, Live

(* A request does a step that writes no table: it may end, if there was    *)
(* nothing left to do or the end is a lapse.                               *)
LEMMA TaskStep ==
  ASSUME WriteInv, NEW c \in Callers, NEW rec \in TaskTypes,
         task' = [task EXCEPT ![c] = rec], UNCHANGED <<row, grant, clock>>,
         lapse' \in [Lapses -> SUBSET Ids], \A why \in Lapses : lapse[why] \subseteq lapse'[why],
         TaskFits(c)',
         task[c].step = "unmap" => task[c].id \in lapse'["failed"],
         task[c].step \in {"find", "map"} =>
            \/ rec.step \in {"find", "map"} /\ rec.id = task[c].id
            \/ ~Live(task[c].id)
            \/ task[c].id \in lapse'["failed"] \cup lapse'["crossed"]
  PROVE  WriteInv'
<1>1. /\ task' \in [Callers -> TaskTypes] /\ task'[c] = rec
      /\ \A d \in Callers : d # c => task'[d] = task[d]
  BY DEF WriteInv, TablesOK
<1>2. TablesOK'
  BY <1>1 DEF WriteInv, TablesOK
<1>3. \A why \in {"failed", "crossed", "overtaken"} : why \in Lapses /\ lapse[why] \subseteq lapse'[why]
  BY DEF Lapses
<1>4. ASSUME NEW d \in Callers, d # c
      PROVE  TaskFits(d)'
  BY <1>1, <1>4, OtherTask DEF WriteInv, RowsStay
<1>5. ASSUME NEW g \in grant
      PROVE  GrantFits(g)'
  <2>1. GrantFits(g)
    BY DEF WriteInv
  <2>2. Unmapping(g.id) => Unmapping(g.id)' \/ g.id \in lapse'["failed"]
    BY <1>1 DEF Unmapping
  <2> QED
    BY <1>3, <2>1, <2>2 DEF GrantFits, Given, Live
<1>6. ASSUME NEW i \in DOMAIN row
      PROVE  RowFits(i)'
  <2>1. RowFits(i)
    BY DEF WriteInv
  <2>2. Adding(i) => Adding(i)' \/ ~Live(i) \/ i \in lapse'["failed"] \cup lapse'["crossed"]
    BY <1>1 DEF Adding
  <2> QED
    BY <1>3, <2>1, <2>2 DEF RowFits, Live
<1> QED
  BY <1>2, <1>4, <1>5, <1>6 DEF WriteInv

(* A request begins.                                                       *)
LEMMA BeginsStep ==
  ASSUME WriteInv, NEW c \in Callers, NEW rec \in TaskTypes, Begins(c, rec), TaskFits(c)'
  PROVE  WriteInv'
<1>1. task[c].step = "idle" /\ UNCHANGED <<row, grant, clock, lapse>>
  BY DEF Begins, NoTask, tables
<1> QED
  BY <1>1, TaskStep DEF Begins, WriteInv, TablesOK

(* Each kind of request begins with what it has read.                      *)
LEMMA RequestBegins ==
  ASSUME WriteInv, NEW c \in Callers, NEW u \in Users,
         \/ AddNode(c, u)
         \/ \E n \in DOMAIN row, s \in Sites : AddChainAt(c, u, <<n, s>>)
         \/ \E i \in DOMAIN row : DelNodeRow(c, u, i) \/ DelChainRow(c, u, i) \/ Edit(c, u, i)
  PROVE  WriteInv'
<1>0. /\ DOMAIN row = 1..Len(row) /\ DOMAIN row \subseteq Ids
      /\ \A i \in DOMAIN row : row[i] \in RowTypes
  BY DirectoryAssumption DEF WriteInv, TablesOK, Ids
<1>1. /\ NoTask = [step |-> "idle", op |-> "none", kind |-> "node", who |-> Boss, id |-> NoRow, site |-> NoSite]
      /\ NoTask \in TaskTypes
  BY DEF NoTask, TaskTypes, Kinds, Users
<1>2. ASSUME NEW rec \in TaskTypes, Begins(c, rec)
      PROVE  task'[c] = rec /\ UNCHANGED <<row, lapse>>
  BY <1>2 DEF Begins, WriteInv, TablesOK, tables
<1>3. CASE AddNode(c, u)
  <2>1. PICK rec : rec = [NoTask EXCEPT !.step = "insert", !.op = "add", !.who = u]
    OBVIOUS
  <2>2. rec = [step |-> "insert", op |-> "add", kind |-> "node", who |-> u, id |-> NoRow, site |-> NoSite]
    BY <1>1, <2>1
  <2>3. rec \in TaskTypes /\ Begins(c, rec)
    BY <1>3, <2>1, <2>2 DEF AddNode, TaskTypes, Kinds
  <2>4. TaskFits(c)'
    BY <1>2, <2>2, <2>3 DEF TaskFits
  <2> QED
    BY <2>3, <2>4, BeginsStep
<1>4. ASSUME NEW n \in DOMAIN row, NEW s \in Sites, AddChainAt(c, u, <<n, s>>)
      PROVE  WriteInv'
  <2>1. PICK rec : rec = [NoTask EXCEPT !.step = "insert", !.op = "add", !.kind = "chain",
                                        !.who = u, !.site = <<n, s>>]
    OBVIOUS
  <2>2. rec = [step |-> "insert", op |-> "add", kind |-> "chain", who |-> u, id |-> NoRow, site |-> <<n, s>>]
    BY <1>1, <2>1
  <2>3. rec \in TaskTypes /\ Begins(c, rec)
    <3>1. <<n, s>> \in Ids \X Sites
      BY <1>0
    <3>2. rec \in TaskTypes
      BY <2>2, <3>1 DEF TaskTypes, Kinds
    <3> QED
      BY <1>4, <2>1, <3>2 DEF AddChainAt
  <2>4. TaskFits(c)'
    BY <1>2, <2>2, <2>3 DEF TaskFits
  <2> QED
    BY <2>3, <2>4, BeginsStep
<1>5. ASSUME NEW i \in DOMAIN row, DelNodeRow(c, u, i)
      PROVE  WriteInv'
  <2>1. PICK rec : rec = [NoTask EXCEPT !.step = "delete", !.op = "delete", !.who = u, !.id = i]
    OBVIOUS
  <2>2. rec = [step |-> "delete", op |-> "delete", kind |-> "node", who |-> u, id |-> i, site |-> NoSite]
    BY <1>1, <2>1
  <2>3. rec \in TaskTypes /\ Begins(c, rec) /\ row[i].kind = "node"
    <3>1. i \in Ids
      BY <1>0
    <3>2. rec \in TaskTypes
      BY <2>2, <3>1 DEF TaskTypes, Kinds
    <3> QED
      BY <1>5, <2>1, <3>2 DEF DelNodeRow
  <2>4. TaskFits(c)'
    BY <1>2, <2>2, <2>3 DEF TaskFits
  <2> QED
    BY <2>3, <2>4, BeginsStep
<1>6. ASSUME NEW i \in DOMAIN row, DelChainRow(c, u, i)
      PROVE  WriteInv'
  <2>1. PICK rec : rec = [NoTask EXCEPT !.step = "delete", !.op = "delete", !.kind = "chain",
                                        !.who = u, !.id = i]
    OBVIOUS
  <2>2. rec = [step |-> "delete", op |-> "delete", kind |-> "chain", who |-> u, id |-> i, site |-> NoSite]
    BY <1>1, <2>1
  <2>3. rec \in TaskTypes /\ Begins(c, rec) /\ row[i].kind = "chain" /\ Permitted(u, i)
    <3>1. i \in Ids
      BY <1>0
    <3>2. rec \in TaskTypes
      BY <2>2, <3>1 DEF TaskTypes, Kinds
    <3> QED
      BY <1>6, <2>1, <3>2 DEF DelChainRow
  <2>4. u # Boss => Given(u, i)
    BY <2>3 DEF Permitted, WriteInv, GrantFits
  <2>5. TaskFits(c)'
    BY <1>2, <2>2, <2>3, <2>4 DEF TaskFits, Given
  <2> QED
    BY <2>3, <2>5, BeginsStep
<1>7. ASSUME NEW i \in DOMAIN row, Edit(c, u, i)
      PROVE  WriteInv'
  <2>1. PICK k \in Kinds : k = row[i].kind
    BY <1>0 DEF RowTypes
  <2>2. PICK rec : rec = [NoTask EXCEPT !.step = "update", !.op = "edit", !.kind = k, !.who = u, !.id = i]
    OBVIOUS
  <2>3. rec = [step |-> "update", op |-> "edit", kind |-> k, who |-> u, id |-> i, site |-> NoSite]
    BY <1>1, <2>2
  <2>4. rec \in TaskTypes /\ Begins(c, rec)
    <3>1. i \in Ids
      BY <1>0
    <3>2. rec \in TaskTypes
      BY <2>3, <3>1 DEF TaskTypes
    <3> QED
      BY <1>7, <2>1, <2>2, <3>2 DEF Edit
  <2>5. TaskFits(c)'
    BY <1>2, <2>3, <2>4 DEF TaskFits
  <2> QED
    BY <2>4, <2>5, BeginsStep
<1> QED
  BY <1>3, <1>4, <1>5, <1>6, <1>7

(* The row is inserted; the request has not read its key again.            *)
LEMMA InsertStep ==
  ASSUME WriteInv, NEW c \in Callers, Insert(c)
  PROVE  WriteInv' /\ RowsStay
<1> DEFINE t == task[c]
           inserted == [kind |-> t.kind, live |-> TRUE, by |-> t.who, site |-> t.site, stamp |-> clock]
<1>0. PICK n, new : n = Len(row) + 1 /\ new = inserted
  OBVIOUS
<1>1. /\ t.step = "insert" /\ Len(row) < MaxRows /\ row' = Append(row, new)
      /\ task' = [task EXCEPT ![c] = [t EXCEPT !.step = "find", !.id = n]]
      /\ UNCHANGED <<grant, clock, lapse>>
  BY <1>0 DEF Insert
<1>2. t \in TaskTypes /\ Len(row) \in Nat /\ n \in Ids /\ new \in RowTypes /\ row \in Seq(RowTypes)
  <2>1. t \in TaskTypes /\ row \in Seq(RowTypes) /\ clock \in 0..MaxClock
    BY DEF WriteInv, TablesOK
  <2>2. new \in RowTypes
    BY <1>0, <2>1 DEF TaskTypes, RowTypes
  <2> QED
    BY <1>0, <1>1, <2>1, <2>2, DirectoryAssumption DEF Ids
<1>3. /\ row' \in Seq(RowTypes) /\ Len(row') = n /\ row'[n] = new
      /\ \A i \in DOMAIN row : row'[i] = row[i]
      /\ DOMAIN row = 1..Len(row) /\ DOMAIN row' = 1..n /\ DOMAIN row' = DOMAIN row \cup {n}
  BY <1>0, <1>1, <1>2
<1>4. /\ task' \in [Callers -> TaskTypes] /\ \A d \in Callers : d # c => task'[d] = task[d]
      /\ task'[c].step = "find" /\ task'[c].id = n
      /\ task'[c].op = t.op /\ task'[c].kind = t.kind /\ task'[c].who = t.who /\ task'[c].site = t.site
  <2>1. [t EXCEPT !.step = "find", !.id = n] \in TaskTypes
    BY <1>2 DEF TaskTypes
  <2> QED
    BY <1>1, <1>2, <2>1 DEF WriteInv, TablesOK, TaskTypes
<1>5. TablesOK'
  <2>1. n <= MaxRows
    BY <1>2 DEF Ids
  <2> QED
    BY <1>1, <1>3, <1>4, <2>1 DEF WriteInv, TablesOK
<1>6. RowsStay
  BY <1>1, <1>3 DEF RowsStay
<1>7. TaskFits(c)'
  <2>0. new.kind = t.kind /\ new.by = t.who /\ new.site = t.site
    BY <1>0
  <2>1. t.op = "add"
    BY <1>1 DEF WriteInv, TaskFits
  <2> QED
    BY <1>3, <1>4, <2>0, <2>1 DEF TaskFits
<1>8. ASSUME NEW d \in Callers, d # c
      PROVE  TaskFits(d)'
  <2>1. TaskFits(d) /\ (task[d].step = "map" => row'[task[d].id] = row[task[d].id])
    BY <1>3 DEF WriteInv, TaskFits
  <2> QED
    BY <1>4, <1>6, <1>8, <2>1, OtherTask DEF WriteInv
<1>9. ASSUME NEW g \in grant
      PROVE  GrantFits(g)'
  <2>1. GrantFits(g)
    BY DEF WriteInv
  <2>2. Unmapping(g.id) => Unmapping(g.id)'
    BY <1>1, <1>4 DEF Unmapping
  <2> QED
    BY <1>1, <1>3, <2>1, <2>2 DEF GrantFits, Given, Live
<1>10. ASSUME NEW i \in DOMAIN row
       PROVE  RowFits(i)'
  <2>1. RowFits(i)
    BY DEF WriteInv
  <2>2. Adding(i) => Adding(i)'
    BY <1>1, <1>4 DEF Adding
  <2> QED
    BY <1>1, <1>3, <2>1, <2>2 DEF RowFits, Live
<1>11. RowFits(n)'
  <2>1. Adding(n)'
    BY <1>4 DEF Adding
  <2>2. row'[n].stamp = clock /\ clock' = clock /\ clock \in Int
    BY <1>0, <1>1, <1>3 DEF WriteInv, TablesOK
  <2> QED
    BY <2>1, <2>2 DEF RowFits
<1> QED
  BY <1>1, <1>3, <1>5, <1>6, <1>7, <1>8, <1>9, <1>10, <1>11 DEF WriteInv

(* The key that the request goes on with is of its own row, or of one that *)
(* another request added on the site.                                      *)
LEMMA FindStep ==
  ASSUME WriteInv, NEW c \in Callers, Find(c)
  PROVE  WriteInv'
<1> DEFINE t == task[c]
           found == IF t.kind = "node" THEN { i \in {t.id} : Live(i) } ELSE At(t.site)
<1>1. /\ t.step = "find" /\ UNCHANGED <<row, grant, clock>> /\ t \in TaskTypes /\ lapse \in [Lapses -> SUBSET Ids]
  BY DEF Find, tables, WriteInv, TablesOK
<1>2. /\ t.op = "add" /\ t.id \in DOMAIN row /\ row[t.id].kind = t.kind
      /\ row[t.id].by = t.who /\ row[t.id].site = t.site
  BY <1>1 DEF WriteInv, TaskFits
<1>3. /\ DOMAIN row = 1..Len(row) /\ Len(row) \in Nat /\ DOMAIN row \subseteq Ids
      /\ found \subseteq DOMAIN row /\ \A i \in found : Live(i)
      /\ Live(t.id) => t.id \in found
  <2>1. DOMAIN row = 1..Len(row) /\ Len(row) \in Nat /\ DOMAIN row \subseteq Ids
    BY DirectoryAssumption DEF WriteInv, TablesOK, Ids
  <2>2. t.kind \in {"node", "chain"}
    BY <1>1 DEF TaskTypes, Kinds
  <2> QED
    BY <1>2, <2>1, <2>2 DEF At
<1>4. CASE found = {}
  <2>1. task' = [task EXCEPT ![c] = NoTask] /\ lapse' = lapse
    BY <1>4 DEF Find, Ends
  <2>2. /\ NoTask \in TaskTypes /\ NoTask.step = "idle" /\ NoTask.op = "none" /\ NoTask.id = NoRow
    BY DEF NoTask, TaskTypes, Kinds, Users
  <2>3. TaskFits(c)'
    BY <2>1, <2>2 DEF TaskFits, WriteInv, TablesOK
  <2>4. ~Live(t.id)
    BY <1>3, <1>4
  <2> QED
    BY <1>1, <2>1, <2>2, <2>3, <2>4, TaskStep
<1>5. CASE found # {}
  <2>0. found \in SUBSET Nat
    BY <1>3
  <2>1. PICK i \in found : i = Min(found)
    BY <1>5, <2>0, MinFacts
  <2>2. /\ task' = [task EXCEPT ![c] = [t EXCEPT !.step = "map", !.id = i]]
        /\ lapse' = IF i = t.id THEN lapse ELSE Lapsed("crossed", {t.id, i})
    BY <1>5, <2>1 DEF Find
  <2>3. PICK rec : rec = [t EXCEPT !.step = "map", !.id = i]
    OBVIOUS
  <2>4. /\ rec \in TaskTypes /\ rec.step = "map" /\ rec.id = i /\ rec.op = t.op /\ rec.who = t.who
    BY <1>1, <1>3, <2>1, <2>3 DEF TaskTypes
  <2>5. /\ lapse' \in [Lapses -> SUBSET Ids] /\ \A why \in Lapses : lapse[why] \subseteq lapse'[why]
        /\ i # t.id => {i, t.id} \subseteq lapse'["crossed"]
    BY <1>1, <1>2, <1>3, <2>1, <2>2 DEF Lapsed, Lapses
  <2>6. TaskFits(c)'
    <3>1. task'[c] = rec
      BY <2>2, <2>3 DEF WriteInv, TablesOK
    <3> QED
      BY <1>1, <1>2, <1>3, <2>1, <2>4, <2>5, <3>1 DEF TaskFits, Given, Live
  <2> QED
    BY <1>1, <2>2, <2>3, <2>4, <2>5, <2>6, TaskStep
<1> QED
  BY <1>4, <1>5

(* The mapping goes to who added the row, or the row is a crossed one.     *)
LEMMA MapStep ==
  ASSUME WriteInv, NEW c \in Callers, Map(c)
  PROVE  WriteInv'
<1> DEFINE t == task[c]
<1>0. PICK new : new = [who |-> t.who, id |-> t.id]
  OBVIOUS
<1>1. /\ t.step = "map" /\ grant' = grant \cup {new} /\ task' = [task EXCEPT ![c] = NoTask]
      /\ UNCHANGED <<row, clock, lapse>> /\ t \in TaskTypes
  BY <1>0 DEF Map, Ends, WriteInv, TablesOK
<1>2. t.id \in DOMAIN row /\ Given(t.who, t.id) /\ (Live(t.id) \/ t.id \in lapse["overtaken"])
  BY <1>1 DEF WriteInv, TaskFits
<1>3. /\ NoTask \in TaskTypes /\ NoTask.step = "idle" /\ NoTask.op = "none" /\ NoTask.id = NoRow
  BY DEF NoTask, TaskTypes, Kinds, Users
<1>4. /\ task' \in [Callers -> TaskTypes] /\ task'[c] = NoTask
      /\ \A d \in Callers : d # c => task'[d] = task[d]
  BY <1>1, <1>3 DEF WriteInv, TablesOK
<1>5. TablesOK'
  <2>1. DOMAIN row \subseteq Ids
    BY DirectoryAssumption DEF WriteInv, TablesOK, Ids
  <2>2. new \in [who : Users, id : Ids]
    BY <1>0, <1>1, <1>2, <2>1 DEF TaskTypes
  <2> QED
    BY <1>1, <1>4, <2>2 DEF WriteInv, TablesOK
<1>6. TaskFits(c)'
  BY <1>3, <1>4 DEF TaskFits
<1>7. ASSUME NEW d \in Callers, d # c
      PROVE  TaskFits(d)'
  BY <1>1, <1>4, <1>7, OtherTask DEF WriteInv, RowsStay
<1>8. ASSUME NEW g \in grant
      PROVE  GrantFits(g)'
  <2>1. Unmapping(g.id) => Unmapping(g.id)'
    BY <1>1, <1>4 DEF Unmapping
  <2> QED
    BY <1>1, <2>1 DEF WriteInv, GrantFits, Given, Live
<1>9. GrantFits(new)'
  BY <1>0, <1>1, <1>2 DEF GrantFits, Given, Live, Lapses
<1>10. ASSUME NEW i \in DOMAIN row
       PROVE  RowFits(i)'
  <2>1. RowFits(i)
    BY DEF WriteInv
  <2>2. Adding(i) => Adding(i)' \/ i = t.id
    BY <1>4 DEF Adding
  <2>3. i = t.id => [who |-> row[i].by, id |-> i] \in grant' \/ i \in lapse["crossed"]
    BY <1>0, <1>1, <1>2 DEF Given
  <2> QED
    BY <1>1, <2>1, <2>2, <2>3 DEF RowFits, Live
<1> QED
  BY <1>1, <1>5, <1>6, <1>7, <1>8, <1>9, <1>10 DEF WriteInv

(* Where a mapping was still to be written or deleted, an error is a lapse.*)
LEMMA FailsStep ==
  ASSUME WriteInv, NEW c \in Callers, Fails(c)
  PROVE  WriteInv'
<1> DEFINE t == task[c]
<1>1. /\ t.step \in {"insert", "map", "delete", "unmap", "update"} /\ task' = [task EXCEPT ![c] = NoTask]
      /\ lapse' = IF t.step \in {"map", "unmap"} THEN Lapsed("failed", {t.id}) ELSE lapse
      /\ UNCHANGED <<row, grant, clock>> /\ lapse \in [Lapses -> SUBSET Ids]
  BY DEF Fails, Ends, tables, WriteInv, TablesOK
<1>2. /\ NoTask \in TaskTypes /\ NoTask.step = "idle" /\ NoTask.op = "none" /\ NoTask.id = NoRow
  BY DEF NoTask, TaskTypes, Kinds, Users
<1>3. t.step \in {"map", "unmap"} => t.id \in Ids
  BY DirectoryAssumption DEF WriteInv, TaskFits, TablesOK, Ids
<1>4. /\ lapse' \in [Lapses -> SUBSET Ids] /\ \A why \in Lapses : lapse[why] \subseteq lapse'[why]
      /\ t.step \in {"map", "unmap"} => t.id \in lapse'["failed"]
  BY <1>1, <1>3 DEF Lapsed, Lapses
<1>5. TaskFits(c)'
  BY <1>1, <1>2 DEF TaskFits, WriteInv, TablesOK
<1> QED
  BY <1>1, <1>2, <1>4, <1>5, TaskStep

(* A row is deleted under a request that is adding it: a lapse.            *)
LEMMA DeleteRowStep ==
  ASSUME WriteInv, NEW c \in Callers, DeleteRow(c)
  PROVE  WriteInv' /\ RowsStay
<1> DEFINE t == task[c]
<1>1. /\ t.step = "delete" /\ row' = [row EXCEPT ![t.id].live = FALSE]
      /\ task' = [task EXCEPT ![c] = [t EXCEPT !.step = "unmap"]]
      /\ UNCHANGED <<grant, clock>> /\ t \in TaskTypes
      /\ t.id \in DOMAIN row /\ t.op = "delete"
  BY DEF DeleteRow, Goes, WriteInv, TablesOK, TaskFits
<1>2. PICK i \in DOMAIN row : i = t.id
  BY <1>1
<1>3. /\ row' \in Seq(RowTypes) /\ DOMAIN row' = DOMAIN row /\ Len(row') = Len(row)
      /\ \A j \in DOMAIN row : j # i => row'[j] = row[j]
      /\ row'[i].kind = row[i].kind /\ row'[i].by = row[i].by /\ row'[i].site = row[i].site
      /\ row'[i].stamp = row[i].stamp /\ row'[i].live = FALSE
  <2>1. row \in Seq(RowTypes) /\ row[i] \in RowTypes /\ i \in 1..Len(row) /\ DOMAIN row = 1..Len(row)
    BY DEF WriteInv, TablesOK
  <2>2. row' = [row EXCEPT ![i] = [row[i] EXCEPT !.live = FALSE]]
    BY <1>1, <1>2
  <2>3. [row[i] EXCEPT !.live = FALSE] \in RowTypes
    BY <2>1 DEF RowTypes
  <2>4. row' \in Seq(RowTypes) /\ DOMAIN row' = DOMAIN row /\ Len(row') = Len(row)
    BY <2>1, <2>2, <2>3
  <2> QED
    BY <2>1, <2>2, <2>4 DEF RowTypes
<1>4. /\ task' \in [Callers -> TaskTypes] /\ \A d \in Callers : d # c => task'[d] = task[d]
      /\ task'[c].step = "unmap" /\ task'[c].id = t.id
      /\ task'[c].op = t.op /\ task'[c].kind = t.kind /\ task'[c].who = t.who
  <2>1. [t EXCEPT !.step = "unmap"] \in TaskTypes
    BY <1>1 DEF TaskTypes
  <2> QED
    BY <1>1, <2>1 DEF WriteInv, TablesOK, TaskTypes
<1>5. /\ lapse' \in [Lapses -> SUBSET Ids] /\ \A why \in Lapses : lapse[why] \subseteq lapse'[why]
      /\ (\E x \in Callers : task[x].op = "add" /\ task[x].id = i) => i \in lapse'["overtaken"]
  <2>1. i \in Ids
    BY DirectoryAssumption DEF WriteInv, TablesOK, Ids
  <2>2. lapse' = IF { x \in Callers : task[x].op = "add" /\ task[x].id = i } = {} THEN lapse
                 ELSE Lapsed("overtaken", {i})
    BY <1>2 DEF DeleteRow
  <2>3. lapse \in [Lapses -> SUBSET Ids]
    BY DEF WriteInv, TablesOK
  <2> QED
    BY <2>1, <2>2, <2>3 DEF Lapsed, Lapses
<1>6. TablesOK'
  BY <1>1, <1>3, <1>4, <1>5 DEF WriteInv, TablesOK
<1>7. RowsStay
  BY <1>3, <1>5 DEF RowsStay
<1>8. lapse["crossed"] \subseteq lapse'["crossed"] /\ lapse["failed"] \subseteq lapse'["failed"]
  BY <1>5 DEF Lapses
<1>9. TaskFits(c)'
  BY <1>1, <1>2, <1>3, <1>4, <1>8 DEF WriteInv, TaskFits, Given, Live
<1>10. ASSUME NEW d \in Callers, d # c
       PROVE  TaskFits(d)'
  <2>1. TaskFits(d) /\ (task[d].step = "map" => task[d].op = "add" /\ task[d].id \in DOMAIN row)
    BY DEF WriteInv, TaskFits
  <2>2. task[d].step = "map" /\ row[task[d].id].live => row'[task[d].id].live \/ task[d].id \in lapse'["overtaken"]
    BY <1>3, <1>5, <2>1
  <2> QED
    BY <1>4, <1>7, <1>10, <2>1, <2>2, OtherTask DEF WriteInv
<1>11. ASSUME NEW g \in grant
       PROVE  GrantFits(g)'
  <2>1. GrantFits(g)
    BY DEF WriteInv
  <2>2. (Unmapping(g.id) => Unmapping(g.id)') /\ (g.id = i => Unmapping(g.id)')
    BY <1>1, <1>2, <1>4 DEF Unmapping
  <2> QED
    BY <1>3, <1>5, <1>8, <2>1, <2>2 DEF GrantFits, Given, Live
<1>12. ASSUME NEW j \in DOMAIN row
       PROVE  RowFits(j)'
  <2>1. RowFits(j)
    BY DEF WriteInv
  <2>2. Adding(j) => Adding(j)'
    BY <1>1, <1>4 DEF Adding
  <2> QED
    BY <1>1, <1>3, <1>8, <2>1, <2>2 DEF RowFits, Live
<1> QED
  BY <1>1, <1>3, <1>6, <1>7, <1>9, <1>10, <1>11, <1>12 DEF WriteInv

(* The mappings that remain are of a crossed chain.                        *)
LEMMA UnmapStep ==
  ASSUME WriteInv, NEW c \in Callers, Unmap(c)
  PROVE  WriteInv'
<1> DEFINE t == task[c]
<1>1. /\ t.step = "unmap" /\ task' = [task EXCEPT ![c] = NoTask] /\ UNCHANGED <<row, clock, lapse>>
      /\ grant' = { g \in grant : g.id # t.id \/ (t.kind = "chain" /\ g.who # t.who /\ t.who # Boss) }
      /\ t \in TaskTypes
  BY DEF Unmap, Ends, WriteInv, TablesOK
<1>2. /\ t.id \in DOMAIN row /\ ~Live(t.id)
      /\ (t.kind = "chain" /\ t.who # Boss) => Given(t.who, t.id)
  BY <1>1 DEF WriteInv, TaskFits
<1>3. /\ NoTask \in TaskTypes /\ NoTask.step = "idle" /\ NoTask.op = "none" /\ NoTask.id = NoRow
  BY DEF NoTask, TaskTypes, Kinds, Users
<1>4. /\ task' \in [Callers -> TaskTypes] /\ task'[c] = NoTask
      /\ \A d \in Callers : d # c => task'[d] = task[d]
  BY <1>1, <1>3 DEF WriteInv, TablesOK
<1>5. TablesOK'
  BY <1>1, <1>4 DEF WriteInv, TablesOK
<1>6. TaskFits(c)'
  BY <1>3, <1>4 DEF TaskFits
<1>7. ASSUME NEW d \in Callers, d # c
      PROVE  TaskFits(d)'
  BY <1>1, <1>4, <1>7, OtherTask DEF WriteInv, RowsStay
<1>8. ASSUME NEW g \in grant'
      PROVE  GrantFits(g)'
  <2>1. GrantFits(g) /\ (g.id = t.id => t.kind = "chain" /\ g.who # t.who /\ t.who # Boss)
    BY <1>1 DEF WriteInv
  <2>2. g.id = t.id => g.id \in lapse["crossed"]
    BY <1>2, <2>1 DEF GrantFits, Given
  <2>3. Unmapping(g.id) => Unmapping(g.id)' \/ g.id = t.id
    BY <1>4 DEF Unmapping
  <2> QED
    BY <1>1, <2>1, <2>2, <2>3 DEF GrantFits, Given, Live, Lapses
<1>9. ASSUME NEW i \in DOMAIN row
      PROVE  RowFits(i)'
  <2>1. RowFits(i)
    BY DEF WriteInv
  <2>2. Adding(i) => Adding(i)'
    BY <1>1, <1>4 DEF Adding
  <2>3. Live(i) /\ [who |-> row[i].by, id |-> i] \in grant => [who |-> row[i].by, id |-> i] \in grant'
    BY <1>1, <1>2
  <2> QED
    BY <1>1, <2>1, <2>2, <2>3 DEF RowFits, Live
<1> QED
  BY <1>1, <1>5, <1>6, <1>7, <1>8, <1>9 DEF WriteInv

(* A row's time of change is now.                                          *)
LEMMA UpdateStep ==
  ASSUME WriteInv, NEW c \in Callers, Update(c)
  PROVE  WriteInv' /\ RowsStay
<1> DEFINE t == task[c]
<1>1. /\ t.step = "update" /\ row' = IF Live(t.id) THEN [row EXCEPT ![t.id].stamp = clock] ELSE row
      /\ task' = [task EXCEPT ![c] = NoTask] /\ UNCHANGED <<grant, clock, lapse>> /\ t.id \in DOMAIN row
  BY DEF Update, Ends, WriteInv, TaskFits
<1>2. PICK i \in DOMAIN row : i = t.id
  BY <1>1
<1>3. /\ row' \in Seq(RowTypes) /\ DOMAIN row' = DOMAIN row /\ Len(row') = Len(row)
      /\ \A j \in DOMAIN row : /\ row'[j].kind = row[j].kind /\ row'[j].by = row[j].by
                               /\ row'[j].site = row[j].site /\ row'[j].live = row[j].live
                               /\ row'[j].stamp \in {row[j].stamp, clock}
  <2>1. row \in Seq(RowTypes) /\ row[i] \in RowTypes /\ DOMAIN row = 1..Len(row) /\ clock \in 0..MaxClock
    BY DEF WriteInv, TablesOK
  <2>2. row' = [row EXCEPT ![i] = [row[i] EXCEPT !.stamp = clock]] \/ row' = row
    BY <1>1, <1>2
  <2>3. [row[i] EXCEPT !.stamp = clock] \in RowTypes
    BY <2>1 DEF RowTypes
  <2>4. CASE row' = row
    BY <2>1, <2>4
  <2>5. CASE row' = [row EXCEPT ![i] = [row[i] EXCEPT !.stamp = clock]]
    <3>1. PICK rec \in RowTypes : rec = [row[i] EXCEPT !.stamp = clock]
      BY <2>3
    <3>2. /\ rec.kind = row[i].kind /\ rec.by = row[i].by /\ rec.site = row[i].site
          /\ rec.live = row[i].live /\ rec.stamp = clock
      BY <2>1, <3>1 DEF RowTypes
    <3>3. row' = [row EXCEPT ![i] = rec]
      BY <2>5, <3>1
    <3>4. row' \in Seq(RowTypes) /\ DOMAIN row' = DOMAIN row /\ Len(row') = Len(row)
      BY <2>1, <3>3
    <3>5. row'[i] = rec /\ \A j \in DOMAIN row : j # i => row'[j] = row[j]
      BY <2>1, <3>3
    <3> QED
      BY <3>2, <3>4, <3>5
  <2> QED
    BY <2>2, <2>4, <2>5
<1>4. /\ NoTask \in TaskTypes /\ NoTask.step = "idle" /\ NoTask.op = "none" /\ NoTask.id = NoRow
  BY DEF NoTask, TaskTypes, Kinds, Users
<1>5. /\ task' \in [Callers -> TaskTypes] /\ task'[c] = NoTask
      /\ \A d \in Callers : d # c => task'[d] = task[d]
  BY <1>1, <1>4 DEF WriteInv, TablesOK
<1>6. TablesOK' /\ RowsStay
  BY <1>1, <1>3, <1>5 DEF WriteInv, TablesOK, RowsStay
<1>7. TaskFits(c)'
  BY <1>4, <1>5 DEF TaskFits
<1>8. ASSUME NEW d \in Callers, d # c
      PROVE  TaskFits(d)'
  <2>1. TaskFits(d) /\ (task[d].step = "map" => task[d].id \in DOMAIN row)
    BY DEF WriteInv, TaskFits
  <2> QED
    BY <1>3, <1>5, <1>6, <1>8, <2>1, OtherTask DEF WriteInv
<1>9. ASSUME NEW g \in grant
      PROVE  GrantFits(g)'
  <2>1. Unmapping(g.id) => Unmapping(g.id)'
    BY <1>1, <1>5 DEF Unmapping
  <2> QED
    BY <1>1, <1>3, <2>1 DEF WriteInv, GrantFits, Given, Live
<1>10. ASSUME NEW j \in DOMAIN row
       PROVE  RowFits(j)'
  <2>1. RowFits(j) /\ clock \in Int
    BY DEF WriteInv, TablesOK
  <2>2. Adding(j) => Adding(j)'
    BY <1>1, <1>5 DEF Adding
  <2> QED
    BY <1>1, <1>3, <2>1, <2>2 DEF RowFits, Live
<1> QED
  BY <1>1, <1>3, <1>6, <1>7, <1>8, <1>9, <1>10 DEF WriteInv

(* The clock moves on.                                                     *)
LEMMA TickStep ==
  ASSUME WriteInv, Tick
  PROVE  WriteInv'
<1>1. /\ clock' = clock + 1 /\ clock' \in 0..MaxClock /\ clock \in Int /\ UNCHANGED <<row, grant, task, lapse>>
  BY DirectoryAssumption DEF Tick, WriteInv, TablesOK
<1>2. \A i \in DOMAIN row : row[i] \in RowTypes
  BY DEF WriteInv, TablesOK
<1>3. \A i \in DOMAIN row : row[i].stamp \in Int
  BY <1>2 DEF RowTypes
<1> QED
  BY <1>1, <1>3 DEF WriteInv, TablesOK, TaskFits, GrantFits, RowFits, Live, Given, Adding, Unmapping

-----------------------------------------------------------------------------
(* The reader *)

(* What the reader of a list has in hand.                                  *)
ViewTypes ==
    [step : {"idle", "ids", "find", "count", "turn", "done"}, who : Users, kind : Kinds,
     page : {Everything} \cup 1..MaxRows + 1, ids : SUBSET Ids, shown : SUBSET Ids,
     total : Int, steady : SUBSET Ids, shaken : BOOLEAN]

(* What the reader's query matches, as far as it knows; the rows that come *)
(* no later than row i; how many pages have been read; what the reader has *)
(* still to see, and whether it is owed all of it.                         *)
Known    == Matching(view.who, view.kind, view.ids)
Ahead(i) == { j \in Known : row[j].stamp >= row[i].stamp }
Past     == IF view.step \in {"count", "turn"} THEN view.page ELSE view.page - 1
Missing  == view.steady \ view.shown
Paged    == ~view.shaken /\ view.page # Everything

(* A row that was there all the time matches.                              *)
SteadyMatches ==
    /\ view.ids \subseteq DOMAIN row
    /\ view.steady \subseteq Matching(view.who, view.kind, Mapped(view.who))
    /\ view.step \in {"find", "count", "turn"} => view.steady \subseteq Known

(* Nothing that the reader knows of has been taken away.                   *)
KnownStays == ~view.shaken => Known \subseteq Matching(view.who, view.kind, Mapped(view.who))

(* Whatever is still missing comes after the pages read.                   *)
Behind ==
    Paged => /\ view.step # "done" => Past = 0 \/ \A i \in Missing : Cardinality(Ahead(i)) > Past * PageSize
             /\ view.step = "turn" => Missing = {} \/ view.total > view.page * PageSize
             /\ view.step = "done" => Missing = {}

(* A page of everything misses nothing, if there are few enough rows.      *)
AtOnce ==
    (view.page = Everything /\ view.step \in {"count", "turn", "done"} /\ Len(row) <= AllSize)
        => Missing = {}

(* The reader turns no more pages than there are rows.                     *)
PageBound ==
    (view.page # Everything /\ view.step = "turn")
        => (view.total <= MaxRows \/ view.total <= view.page * PageSize)

(* What a reader preserves.                                                *)
ReadInv ==
    /\ view \in ViewTypes
    /\ SteadyMatches /\ KnownStays /\ Behind /\ AtOnce /\ PageBound

(* The inductive invariant.                                                *)
DirInv == WriteInv /\ ReadInv

(* The rows are numbered, and there are finitely many.                     *)
LEMMA RowNumbers ==
  ASSUME WriteInv
  PROVE  /\ DOMAIN row = 1..Len(row) /\ Len(row) \in 0..MaxRows /\ DOMAIN row \subseteq Ids
         /\ \A i \in DOMAIN row : row[i] \in RowTypes /\ row[i].stamp \in Nat
         /\ \A S \in SUBSET DOMAIN row : IsFiniteSet(S) /\ Cardinality(S) \in 0..Len(row)
<1>1. DOMAIN row = 1..Len(row) /\ Len(row) \in 0..MaxRows /\ DOMAIN row \subseteq Ids
  BY DirectoryAssumption DEF WriteInv, TablesOK, Ids
<1>2. \A i \in DOMAIN row : row[i] \in RowTypes
  BY DEF WriteInv, TablesOK
<1>3. \A i \in DOMAIN row : row[i].stamp \in Nat
  BY <1>2, DirectoryAssumption DEF RowTypes
<1>4. IsFiniteSet(1..Len(row)) /\ Cardinality(1..Len(row)) = Len(row)
  BY <1>1, FS_Interval
<1>5. \A S \in SUBSET DOMAIN row : IsFiniteSet(S) /\ Cardinality(S) \in 0..Len(row)
  BY <1>1, <1>4, FS_Subset, FS_CardinalityType
<1> QED
  BY <1>1, <1>2, <1>3, <1>5

(* A larger set of rows has at least as many.                              *)
LEMMA MoreRows ==
  ASSUME NEW n \in Nat, NEW A, NEW B \in SUBSET (1..n), A \subseteq B
  PROVE  Cardinality(A) \in Nat /\ Cardinality(B) \in Nat /\ Cardinality(A) <= Cardinality(B)
<1>1. IsFiniteSet(B)
  <2>1. 1 \in Int /\ n \in Int
    OBVIOUS
  <2>2. IsFiniteSet(1..n)
    BY <2>1, FS_Interval
  <2> QED
    BY <2>2, FS_Subset
<1> QED
  BY <1>1, FS_Subset, FS_CardinalityType

(* Requests that write, as the reader sees them: gone are the rows deleted *)
(* or no longer mapped, moved those whose time of change is now.           *)
Written(gone, moved, st, sh) ==
    /\ view' = [view EXCEPT !.shaken = sh, !.steady = st]
    /\ st \subseteq view.steady \ (gone \cup moved)
    /\ view.shaken => sh
    /\ \A i \in gone : (i \in DOMAIN row /\ row[i].kind = view.kind) => sh
    /\ DOMAIN row \subseteq DOMAIN row'
    /\ \A j \in DOMAIN row : /\ row'[j].kind = row[j].kind
                             /\ j \notin gone => row'[j].live = row[j].live
                             /\ j \notin moved => row'[j].stamp = row[j].stamp
                             /\ row'[j].stamp >= row[j].stamp
    /\ \A g \in grant : g.id \in gone \/ g \in grant'

(* Such a write preserves what the reader has.                             *)
LEMMA WrittenUnder ==
  ASSUME DirInv, WriteInv', NEW gone, NEW moved, NEW st, NEW sh \in BOOLEAN,
         Written(gone, moved, st, sh)
  PROVE  ReadInv'
<1>0. /\ view' = [view EXCEPT !.shaken = sh, !.steady = st]
      /\ st \subseteq view.steady \ (gone \cup moved)
      /\ view.shaken => sh
      /\ \A i \in gone : (i \in DOMAIN row /\ row[i].kind = view.kind) => sh
      /\ DOMAIN row \subseteq DOMAIN row'
      /\ \A j \in DOMAIN row : /\ row'[j].kind = row[j].kind
                               /\ j \notin gone => row'[j].live = row[j].live
                               /\ j \notin moved => row'[j].stamp = row[j].stamp
                               /\ row'[j].stamp >= row[j].stamp
      /\ \A g \in grant : g.id \in gone \/ g \in grant'
  BY DEF Written
<1>1. /\ view \in ViewTypes /\ view' \in ViewTypes
      /\ view'.step = view.step /\ view'.who = view.who /\ view'.kind = view.kind
      /\ view'.page = view.page /\ view'.ids = view.ids /\ view'.shown = view.shown
      /\ view'.total = view.total /\ view'.steady = st /\ view'.shaken = sh
  BY <1>0 DEF DirInv, ReadInv, ViewTypes
<1>2. /\ \A i \in DOMAIN row : row[i].stamp \in Nat /\ row'[i].stamp \in Nat
      /\ DOMAIN row' = 1..Len(row') /\ Len(row') \in Nat
      /\ DOMAIN row = 1..Len(row) /\ Len(row) \in Nat
      /\ Len(row) <= Len(row')
  <2>1. /\ \A i \in DOMAIN row : row[i].stamp \in Nat
        /\ DOMAIN row = 1..Len(row) /\ Len(row) \in Nat
    BY RowNumbers DEF DirInv
  <2>2. /\ row' \in Seq(RowTypes) /\ DOMAIN row' = 1..Len(row') /\ Len(row') \in Nat
    BY DEF WriteInv, TablesOK
  <2>3. \A i \in DOMAIN row' : row'[i].stamp \in Nat
    <3>1. \A i \in DOMAIN row' : row'[i] \in RowTypes
      BY <1>0, <2>2
    <3> QED
      BY <1>0, <3>1, DirectoryAssumption DEF RowTypes
  <2> QED
    BY <1>0, <2>1, <2>2, <2>3
<1>3. ASSUME NEW j \in DOMAIN row, j \notin gone, j \in Matching(view.who, view.kind, Mapped(view.who))
      PROVE  j \in Matching(view.who, view.kind, Mapped(view.who))'
  <2>1. row'[j].kind = view'.kind /\ row'[j].live /\ j \in DOMAIN row'
    BY <1>0, <1>1, <1>3 DEF Matching, Live
  <2>2. view.who # Boss => \E g \in grant : g.who = view.who /\ g.id = j
    BY <1>0, <1>3 DEF Matching, Mapped
  <2>3. view.who # Boss => \E g \in grant' : g.who = view'.who /\ g.id = j
    BY <1>0, <1>1, <1>3, <2>2
  <2> QED
    BY <1>0, <1>1, <2>1, <2>3 DEF Matching, Mapped, Live
<1>4. ASSUME ~sh
      PROVE  Known \subseteq Known'
  <2>1. SUFFICES ASSUME NEW j \in Known
                 PROVE  j \in Known'
    OBVIOUS
  <2>2. j \in DOMAIN row /\ row[j].kind = view.kind /\ row[j].live /\ (view.who = Boss \/ j \in view.ids)
    BY DEF Known, Matching, Live
  <2>3. j \notin gone
    BY <1>0, <1>4, <2>2
  <2> QED
    BY <1>0, <1>1, <2>2, <2>3 DEF Known, Matching, Live
<1>5. SteadyMatches'
  <2>1. view'.ids \subseteq DOMAIN row'
    BY <1>0, <1>1 DEF DirInv, ReadInv, SteadyMatches
  <2>2. st \subseteq Matching(view.who, view.kind, Mapped(view.who))'
    <3>1. \A j \in st : j \in Matching(view.who, view.kind, Mapped(view.who)) /\ j \in DOMAIN row /\ j \notin gone
      BY <1>0 DEF DirInv, ReadInv, SteadyMatches, Matching
    <3> QED
      BY <1>0, <3>1, <1>3
  <2>3. view.step \in {"find", "count", "turn"} => st \subseteq Known'
    <3>1. ASSUME view.step \in {"find", "count", "turn"}, NEW j \in st
          PROVE  j \in Known'
      <4>1. j \in Known /\ j \notin gone
        BY <1>0, <3>1 DEF DirInv, ReadInv, SteadyMatches
      <4> QED
        BY <1>0, <1>1, <4>1 DEF Known, Matching, Live
    <3> QED
      BY <1>0, <3>1
  <2> QED
    BY <1>0, <1>1, <2>1, <2>2, <2>3 DEF SteadyMatches
<1>6. KnownStays'
  <2>1. ASSUME ~sh, NEW j \in Known'
        PROVE  j \in Matching(view.who, view.kind, Mapped(view.who))'
    <3>1. j \in DOMAIN row' /\ row'[j].kind = view.kind /\ row'[j].live /\ (view.who = Boss \/ j \in view.ids)
      BY <1>0, <1>1, <2>1 DEF Known, Matching, Live
    <3>2. CASE j \in DOMAIN row
      <4>1. j \notin gone /\ j \in Known
        BY <1>0, <2>1, <3>1, <3>2 DEF Known, Matching, Live
      <4>2. j \in Matching(view.who, view.kind, Mapped(view.who))
        BY <1>0, <2>1, <4>1 DEF DirInv, ReadInv, KnownStays
      <4> QED
        BY <1>0, <1>3, <3>2, <4>1, <4>2
    <3>3. CASE j \notin DOMAIN row
      <4>1. view.who = Boss
        BY <1>0, <3>1, <3>3 DEF DirInv, ReadInv, SteadyMatches
      <4> QED
        BY <1>0, <1>1, <3>1, <4>1 DEF Matching, Live
    <3> QED
      BY <1>0, <3>2, <3>3
  <2> QED
    BY <1>0, <1>1, <2>1 DEF KnownStays
<1>7. Missing' \subseteq Missing /\ \A i \in Missing' : i \in st
  BY <1>0, <1>1 DEF Missing
<1>8. Past' = Past /\ (Paged' => Paged /\ ~sh)
  BY <1>0, <1>1 DEF Past, Paged
<1>9. ASSUME ~sh, NEW i \in Missing'
      PROVE  /\ Cardinality(Ahead(i)) \in Nat /\ Cardinality(Ahead(i)') \in Nat
             /\ Cardinality(Ahead(i)) <= Cardinality(Ahead(i)')
  <2>1. i \in st /\ i \in DOMAIN row /\ i \notin moved
    BY <1>0, <1>7, <1>9 DEF DirInv, ReadInv, SteadyMatches, Matching
  <2>2. Ahead(i) \subseteq Ahead(i)'
    <3>1. \A j \in Known : j \in DOMAIN row /\ j \in Known'
      BY <1>0, <1>4, <1>9 DEF Known, Matching
    <3> QED
      BY <1>0, <1>2, <2>1, <3>1 DEF Ahead
  <2>3. Ahead(i)' \in SUBSET (1..Len(row'))
    BY <1>0, <1>2 DEF Ahead, Known, Matching
  <2> QED
    BY <1>0, <1>2, <2>2, <2>3, MoreRows
<1>10. Behind'
  <2>1. SUFFICES ASSUME Paged'
                 PROVE  Behind'
    BY DEF Behind
  <2>2. Paged /\ ~sh /\ Past' = Past
    BY <1>0, <1>8, <2>1
  <2>3. view.step # "done" => Past = 0 \/ \A i \in Missing' : Cardinality(Ahead(i)') > Past * PageSize
    <3>1. ASSUME view.step # "done", Past # 0, NEW i \in Missing'
          PROVE  Cardinality(Ahead(i)') > Past * PageSize
      <4>1. Cardinality(Ahead(i)) > Past * PageSize
        BY <1>0, <1>7, <2>2, <3>1 DEF DirInv, ReadInv, Behind
      <4>2. Past * PageSize \in Int
        BY <1>0, <1>1, DirectoryAssumption DEF Past, ViewTypes, Everything
      <4> QED
        BY <1>0, <1>9, <2>2, <3>1, <4>1, <4>2
    <3> QED
      BY <1>0, <3>1
  <2>4. view.step = "turn" => Missing' = {} \/ view.total > view.page * PageSize
    BY <1>0, <1>7, <2>2 DEF DirInv, ReadInv, Behind
  <2>5. view.step = "done" => Missing' = {}
    BY <1>0, <1>7, <2>2 DEF DirInv, ReadInv, Behind
  <2> QED
    BY <1>0, <1>1, <2>2, <2>3, <2>4, <2>5 DEF Behind
<1>11. AtOnce'
  BY <1>0, <1>1, <1>2, <1>7 DEF DirInv, ReadInv, AtOnce, AllSize
<1>12. PageBound'
  BY <1>0, <1>1 DEF DirInv, ReadInv, PageBound
<1> QED
  BY <1>0, <1>1, <1>5, <1>6, <1>10, <1>11, <1>12 DEF ReadInv

(* The requests that write leave the reader's part.                        *)
LEMMA WritesUnder ==
  ASSUME DirInv, Writing \/ Tick
  PROVE  DirInv'
<1>0. /\ WriteInv /\ view \in ViewTypes
      /\ \A i \in DOMAIN row : row[i] \in RowTypes /\ row[i].stamp \in Nat
      /\ DOMAIN row = 1..Len(row) /\ Len(row) \in Nat
  BY RowNumbers DEF DirInv, ReadInv
<1>1. ASSUME WriteInv', view' = view,
             DOMAIN row \subseteq DOMAIN row', \A j \in DOMAIN row : row'[j] = row[j],
             grant \subseteq grant'
      PROVE  DirInv'
  <2>1. view' = [view EXCEPT !.shaken = view.shaken, !.steady = view.steady] /\ view.shaken \in BOOLEAN
    BY <1>0, <1>1 DEF ViewTypes
  <2>2. Written({}, {}, view.steady, view.shaken)
    BY <1>0, <1>1, <2>1 DEF Written
  <2>3. ReadInv'
    BY <1>1, <2>1, <2>2, WrittenUnder
  <2> QED
    BY <1>1, <2>3 DEF DirInv
<1>2. ASSUME NEW c \in Callers, NEW u \in Users,
             \/ AddNode(c, u)
             \/ \E n \in DOMAIN row, s \in Sites : row[n].kind = "node" /\ AddChainAt(c, u, <<n, s>>)
             \/ \E i \in DOMAIN row : DelNodeRow(c, u, i) \/ DelChainRow(c, u, i) \/ Edit(c, u, i)
      PROVE  DirInv'
  <2>1. view' = view /\ row' = row /\ grant' = grant
    BY <1>2 DEF AddNode, AddChainAt, DelNodeRow, DelChainRow, Edit, Begins, tables
  <2> QED
    BY <1>0, <1>1, <1>2, <2>1, RequestBegins
<1>3. ASSUME NEW c \in Callers, Insert(c)
      PROVE  DirInv'
  <2>1. view' = view /\ grant' = grant /\ row' = Append(row, row'[Len(row) + 1])
        /\ \A j \in DOMAIN row : row'[j] = row[j]
    <3>1. PICK new : row' = Append(row, new)
      BY <1>3 DEF Insert
    <3>2. row \in Seq(RowTypes)
      BY <1>0 DEF WriteInv, TablesOK
    <3> QED
      BY <1>3, <3>1, <3>2 DEF Insert
  <2> QED
    BY <1>0, <1>1, <1>3, <2>1, InsertStep DEF RowsStay
<1>4. ASSUME NEW c \in Callers, Find(c) \/ Map(c) \/ Fails(c)
      PROVE  DirInv'
  <2>1. view' = view /\ row' = row /\ grant \subseteq grant'
    BY <1>4 DEF Find, Map, Fails, tables
  <2> QED
    BY <1>0, <1>1, <1>4, <2>1, FindStep, MapStep, FailsStep
<1>5. CASE Tick
  <2>1. view' = view /\ row' = row /\ grant' = grant
    BY <1>5 DEF Tick
  <2> QED
    BY <1>0, <1>1, <1>5, <2>1, TickStep
<1>6. ASSUME NEW c \in Callers, DeleteRow(c)
      PROVE  DirInv'
  <2>1. PICK i \in DOMAIN row : i = task[c].id
    BY <1>0, <1>6 DEF DeleteRow, WriteInv, TaskFits
  <2>2. PICK sh \in BOOLEAN : sh <=> view.shaken \/ row[i].kind = view.kind
    OBVIOUS
  <2>3. view' = [view EXCEPT !.shaken = sh, !.steady = view.steady \ {i}]
    BY <1>0, <1>6, <2>1, <2>2 DEF DeleteRow, Shake, ViewTypes
  <2>4. /\ grant' = grant /\ DOMAIN row' = DOMAIN row
        /\ \A j \in DOMAIN row : /\ row'[j].kind = row[j].kind /\ row'[j].stamp = row[j].stamp
                                 /\ j \notin {i} => row'[j].live = row[j].live
    BY <1>0, <1>6, <2>1 DEF DeleteRow, RowTypes
  <2>5. Written({i}, {}, view.steady \ {i}, sh)
    BY <1>0, <2>1, <2>2, <2>3, <2>4 DEF Written
  <2>6. ReadInv'
    BY <1>0, <1>6, <2>5, DeleteRowStep, WrittenUnder
  <2> QED
    BY <1>0, <1>6, <2>6, DeleteRowStep DEF DirInv
<1>7. ASSUME NEW c \in Callers, Unmap(c)
      PROVE  DirInv'
  <2>1. PICK i \in DOMAIN row : i = task[c].id
    BY <1>0, <1>7 DEF Unmap, WriteInv, TaskFits
  <2>2. PICK sh \in BOOLEAN : sh <=> view.shaken \/ row[i].kind = view.kind
    OBVIOUS
  <2>3. view' = [view EXCEPT !.shaken = sh, !.steady = view.steady \ {i}]
    BY <1>0, <1>7, <2>1, <2>2 DEF Unmap, Shake, ViewTypes
  <2>4. row' = row /\ \A g \in grant : g.id \in {i} \/ g \in grant'
    BY <1>7, <2>1 DEF Unmap
  <2>5. Written({i}, {}, view.steady \ {i}, sh)
    BY <1>0, <2>1, <2>2, <2>3, <2>4 DEF Written
  <2>6. ReadInv'
    BY <1>0, <1>7, <2>5, UnmapStep, WrittenUnder
  <2> QED
    BY <1>0, <1>7, <2>6, UnmapStep DEF DirInv
<1>8. ASSUME NEW c \in Callers, Update(c)
      PROVE  DirInv'
  <2>0. PICK i \in DOMAIN row : i = task[c].id
    BY <1>0, <1>8 DEF Update, WriteInv, TaskFits
  <2>1. CASE ~Live(i)
    <3>1. view' = view /\ row' = row /\ grant' = grant
      BY <1>8, <2>0, <2>1 DEF Update
    <3> QED
      BY <1>0, <1>1, <1>8, <3>1, UpdateStep
  <2>2. CASE Live(i)
    <3>1. view' = [view EXCEPT !.shaken = view.shaken, !.steady = view.steady \ {i}] /\ view.shaken \in BOOLEAN
      BY <1>0, <1>8, <2>0, <2>2 DEF Update, ViewTypes
    <3>2. /\ grant' = grant /\ DOMAIN row' = DOMAIN row
          /\ \A j \in DOMAIN row : /\ row'[j].kind = row[j].kind /\ row'[j].live = row[j].live
                                   /\ j \notin {i} => row'[j].stamp = row[j].stamp
          /\ row'[i].stamp = clock
      BY <1>0, <1>8, <2>0, <2>2 DEF Update, RowTypes
    <3>3. row[i].stamp <= clock
      BY <1>0 DEF WriteInv, RowFits
    <3>4. row'[i].stamp >= row[i].stamp
      BY <1>0, <3>2, <3>3 DEF WriteInv, TablesOK
    <3>5. Written({}, {i}, view.steady \ {i}, view.shaken)
      BY <1>0, <3>1, <3>2, <3>4 DEF Written
    <3>6. ReadInv'
      BY <1>0, <1>8, <3>1, <3>5, UpdateStep, WrittenUnder
    <3> QED
      BY <1>0, <1>8, <3>6, UpdateStep DEF DirInv
  <2> QED
    BY <2>1, <2>2
<1> QED
  BY <1>2, <1>3, <1>4, <1>5, <1>6, <1>7, <1>8 DEF Writing

(* The reader's own steps write no table.                                  *)
LEMMA WriteInvStays ==
  ASSUME WriteInv, UNCHANGED <<tables, task, lapse>>
  PROVE  WriteInv'
BY DEF WriteInv, TablesOK, TaskFits, GrantFits, RowFits, Live, Given, Adding, Unmapping, tables

(* A list is opened.                                                       *)
LEMMA OpenListStep ==
  ASSUME DirInv, NEW u \in Users, NEW kind \in Kinds, NEW page \in {1, Everything}, OpenList(u, kind, page)
  PROVE  ReadInv'
<1>1. row' = row /\ grant' = grant
  BY DEF OpenList, tables
<1>2. view' = [step |-> "ids", who |-> u, kind |-> kind, page |-> page, ids |-> {}, shown |-> {},
               total |-> 0, steady |-> Matching(u, kind, Mapped(u)), shaken |-> FALSE]
  BY DEF OpenList, NoView
<1>3. Matching(u, kind, Mapped(u)) \subseteq Ids
  BY RowNumbers DEF DirInv, Matching
<1>4. view' \in ViewTypes
  <2>1. page \in {Everything} \cup 1..MaxRows + 1
    BY DirectoryAssumption
  <2> QED
    BY <1>2, <1>3, <2>1 DEF ViewTypes
<1>5. SteadyMatches'
  BY <1>1, <1>2 DEF SteadyMatches, Matching, Mapped, Live
<1>6. KnownStays'
  BY <1>1, <1>2 DEF KnownStays, Known, Matching, Mapped, Live
<1>7. Behind' /\ AtOnce' /\ PageBound'
  BY <1>2 DEF Behind, AtOnce, PageBound, Past, Paged
<1> QED
  BY <1>4, <1>5, <1>6, <1>7 DEF ReadInv

(* The mappings are read once for each page: there are no fewer than       *)
(* before.                                                                 *)
LEMMA ReadIdsStep ==
  ASSUME DirInv, ReadIds
  PROVE  ReadInv'
<1>1. row' = row /\ grant' = grant /\ view \in ViewTypes /\ view.step = "ids"
  BY DEF ReadIds, tables, DirInv, ReadInv
<1>2. Mapped(view.who) \subseteq DOMAIN row /\ DOMAIN row \subseteq Ids /\ DOMAIN row = 1..Len(row) /\ Len(row) \in Nat
  BY RowNumbers DEF DirInv, WriteInv, GrantFits, Mapped
<1>3. /\ view' \in ViewTypes
      /\ view'.step = "find" /\ view'.who = view.who /\ view'.kind = view.kind /\ view'.page = view.page
      /\ view'.ids = Mapped(view.who) /\ view'.shown = view.shown /\ view'.total = view.total
      /\ view'.steady = view.steady /\ view'.shaken = view.shaken
  BY <1>1, <1>2 DEF ReadIds, ViewTypes
<1>4. Known' = Matching(view.who, view.kind, Mapped(view.who))
  BY <1>1, <1>3 DEF Known, Matching, Live
<1>5. Matching(view.who, view.kind, Mapped(view.who))' = Matching(view.who, view.kind, Mapped(view.who))
  BY <1>1, <1>3 DEF Matching, Mapped, Live
<1>6. SteadyMatches' /\ KnownStays'
  BY <1>1, <1>2, <1>3, <1>4, <1>5 DEF DirInv, ReadInv, SteadyMatches, KnownStays
<1>7. Behind'
  <2>1. ASSUME Paged, Past # 0, NEW i \in Missing
        PROVE  Cardinality(Ahead(i)') > Past * PageSize
    <3>1. Cardinality(Ahead(i)) > Past * PageSize
      BY <1>1, <2>1 DEF DirInv, ReadInv, Behind
    <3>2. Ahead(i) \subseteq Ahead(i)' /\ Ahead(i)' \in SUBSET (1..Len(row))
      BY <1>1, <1>2, <1>4, <2>1 DEF DirInv, ReadInv, KnownStays, Paged, Ahead, Matching
    <3>3. Past * PageSize \in Int
      BY <1>1, DirectoryAssumption DEF Past, ViewTypes, Everything
    <3>4. PICK before, after : before = Ahead(i) /\ after = Ahead(i)'
      OBVIOUS
    <3>5. Cardinality(before) \in Nat /\ Cardinality(after) \in Nat /\ Cardinality(before) <= Cardinality(after)
      BY <1>2, <3>2, <3>4, MoreRows
    <3> QED
      BY <3>1, <3>3, <3>4, <3>5
  <2>2. (Paged' <=> Paged) /\ Past' = Past /\ Missing' = Missing
    BY <1>1, <1>3 DEF Paged, Past, Missing
  <2> QED
    BY <1>3, <2>1, <2>2 DEF Behind
<1>8. AtOnce' /\ PageBound'
  BY <1>3 DEF AtOnce, PageBound
<1> QED
  BY <1>3, <1>6, <1>7, <1>8 DEF ReadInv

(* The rows are counted when the page did not tell how many there are.     *)
LEMMA CountRowsStep ==
  ASSUME DirInv, CountRows
  PROVE  ReadInv'
<1>1. row' = row /\ grant' = grant /\ view \in ViewTypes /\ view.step = "count"
  BY DEF CountRows, tables, DirInv, ReadInv
<1>2. /\ Known \subseteq DOMAIN row /\ DOMAIN row = 1..Len(row) /\ Len(row) \in 0..MaxRows
      /\ Cardinality(Known) \in 0..Len(row)
  <2>1. Known \subseteq DOMAIN row
    BY DEF Known, Matching
  <2> QED
    BY <2>1, RowNumbers DEF DirInv
<1>3. /\ view' \in ViewTypes
      /\ view'.step = "turn" /\ view'.who = view.who /\ view'.kind = view.kind /\ view'.page = view.page
      /\ view'.ids = view.ids /\ view'.shown = view.shown /\ view'.total = Cardinality(Known)
      /\ view'.steady = view.steady /\ view'.shaken = view.shaken
  <2>1. view' = [view EXCEPT !.step = "turn", !.total = Cardinality(Known)] /\ Cardinality(Known) \in Int
    BY <1>2 DEF CountRows, Known
  <2> QED
    BY <1>1, <2>1 DEF ViewTypes
<1>4. Known' = Known /\ Matching(view.who, view.kind, Mapped(view.who))' = Matching(view.who, view.kind, Mapped(view.who))
  BY <1>1, <1>3 DEF Known, Matching, Mapped, Live
<1>5. SteadyMatches' /\ KnownStays'
  BY <1>1, <1>3, <1>4 DEF DirInv, ReadInv, SteadyMatches, KnownStays
<1>6. Behind'
  <2>1. ASSUME Paged, NEW i \in Missing
        PROVE  /\ Cardinality(Ahead(i)') > view.page * PageSize
               /\ Cardinality(Known) > view.page * PageSize
    <3>1. view.page \in Nat \ {0} /\ Past = view.page
      BY <1>1, <2>1, DirectoryAssumption DEF Past, Paged, ViewTypes
    <3>2. Cardinality(Ahead(i)) > view.page * PageSize
      BY <1>1, <2>1, <3>1 DEF DirInv, ReadInv, Behind
    <3>3. Ahead(i) \subseteq Known /\ Known \in SUBSET (1..Len(row)) /\ Ahead(i)' = Ahead(i)
      BY <1>1, <1>2, <1>4 DEF Ahead
    <3>4. Cardinality(Ahead(i)) \in Nat /\ Cardinality(Ahead(i)) <= Cardinality(Known)
      <4>1. PICK ahead, known : ahead = Ahead(i) /\ known = Known
        OBVIOUS
      <4>2. Len(row) \in Nat /\ known \in SUBSET (1..Len(row)) /\ ahead \subseteq known
        BY <1>2, <3>3, <4>1
      <4>3. Cardinality(ahead) \in Nat /\ Cardinality(ahead) <= Cardinality(known)
        BY <4>2, MoreRows
      <4> QED
        BY <4>1, <4>3
    <3>5. view.page * PageSize \in Int
      BY <3>1, DirectoryAssumption
    <3> QED
      BY <1>2, <3>2, <3>3, <3>4, <3>5
  <2>2. (Paged' <=> Paged) /\ Past' = view.page /\ Missing' = Missing
    BY <1>1, <1>3 DEF Paged, Past, Missing
  <2> QED
    BY <1>3, <2>1, <2>2 DEF Behind
<1>7. AtOnce'
  BY <1>1, <1>3 DEF DirInv, ReadInv, AtOnce, Missing
<1>8. PageBound'
  <2>1. Cardinality(Known) <= MaxRows
    BY <1>2, DirectoryAssumption
  <2> QED
    BY <1>3, <2>1 DEF PageBound
<1> QED
  BY <1>3, <1>5, <1>6, <1>7, <1>8 DEF ReadInv

(* The next page, or the end: what was read was all there is.              *)
LEMMA TurnPageStep ==
  ASSUME DirInv, TurnPage
  PROVE  ReadInv'
<1>1. row' = row /\ grant' = grant /\ view \in ViewTypes /\ view.step = "turn"
  BY DEF TurnPage, tables, DirInv, ReadInv
<1>2. CASE view.page # Everything /\ view.page * PageSize < view.total
  <2>1. view.page \in Nat \ {0} /\ view.total \in Int
    BY <1>1, <1>2, DirectoryAssumption DEF ViewTypes
  <2>2. view.page <= view.page * PageSize /\ view.page * PageSize \in Int
    BY <2>1, DirectoryAssumption
  <2>3. view.page + 1 \in 1..MaxRows + 1
    BY <1>1, <1>2, <2>1, <2>2, DirectoryAssumption DEF DirInv, ReadInv, PageBound
  <2>4. /\ view' \in ViewTypes
        /\ view'.step = "ids" /\ view'.who = view.who /\ view'.kind = view.kind /\ view'.page = view.page + 1
        /\ view'.ids = view.ids /\ view'.shown = view.shown
        /\ view'.steady = view.steady /\ view'.shaken = view.shaken
    <3>1. view' = [view EXCEPT !.step = "ids", !.page = view.page + 1]
      BY <1>2 DEF TurnPage
    <3> QED
      BY <1>1, <2>3, <3>1 DEF ViewTypes
  <2>5. Known' = Known /\ Matching(view.who, view.kind, Mapped(view.who))' = Matching(view.who, view.kind, Mapped(view.who))
    BY <1>1, <2>4 DEF Known, Matching, Mapped, Live
  <2>6. SteadyMatches' /\ KnownStays'
    BY <1>1, <2>4, <2>5 DEF DirInv, ReadInv, SteadyMatches, KnownStays
  <2>7. (Paged' => Paged) /\ Past' = Past /\ Missing' = Missing /\ \A i \in Missing : Ahead(i)' = Ahead(i)
    BY <1>1, <1>2, <2>1, <2>4, <2>5 DEF Paged, Past, Missing, Ahead
  <2>8. Behind'
    BY <1>1, <2>4, <2>7 DEF DirInv, ReadInv, Behind
  <2>9. AtOnce' /\ PageBound'
    BY <2>4 DEF AtOnce, PageBound
  <2> QED
    BY <2>4, <2>6, <2>8, <2>9 DEF ReadInv
<1>3. CASE ~(view.page # Everything /\ view.page * PageSize < view.total)
  <2>1. /\ view' \in ViewTypes
        /\ view'.step = "done" /\ view'.who = view.who /\ view'.kind = view.kind /\ view'.page = view.page
        /\ view'.ids = view.ids /\ view'.shown = view.shown
        /\ view'.steady = view.steady /\ view'.shaken = view.shaken
    <3>1. view' = [view EXCEPT !.step = "done"]
      BY <1>3 DEF TurnPage
    <3> QED
      BY <1>1, <3>1 DEF ViewTypes
  <2>2. Known' = Known /\ Matching(view.who, view.kind, Mapped(view.who))' = Matching(view.who, view.kind, Mapped(view.who))
    BY <1>1, <2>1 DEF Known, Matching, Mapped, Live
  <2>3. SteadyMatches' /\ KnownStays'
    BY <1>1, <2>1, <2>2 DEF DirInv, ReadInv, SteadyMatches, KnownStays
  <2>4. (Paged' <=> Paged) /\ Missing' = Missing
    BY <2>1 DEF Paged, Missing
  <2>5. Paged => Missing = {}
    <3>1. Paged => view.page # Everything /\ view.page \in Int /\ view.total \in Int
      BY <1>1, DirectoryAssumption DEF Paged, ViewTypes
    <3>2. Paged => Missing = {} \/ view.total > view.page * PageSize
      BY <1>1 DEF DirInv, ReadInv, Behind
    <3>3. view.page \in Int => view.page * PageSize \in Int
      BY DirectoryAssumption
    <3> QED
      BY <1>3, <3>1, <3>2, <3>3
  <2>6. Behind'
    BY <2>1, <2>4, <2>5 DEF Behind
  <2>7. AtOnce' /\ PageBound'
    BY <1>1, <2>1, <2>4 DEF DirInv, ReadInv, AtOnce, PageBound
  <2> QED
    BY <2>1, <2>3, <2>6, <2>7 DEF ReadInv
<1> QED
  BY <1>2, <1>3

-----------------------------------------------------------------------------
(* A page of the list *)

(* An order of the rows lists each of them once; where no two changed at   *)
(* one moment, as many come no later than a row as its place says.         *)
LEMMA Places ==
  ASSUME WriteInv, NEW M \in SUBSET DOMAIN row, NEW s \in Ordered(M)
  PROVE  /\ s \in Seq(M) /\ Len(s) = Cardinality(M) /\ Len(s) \in 0..Len(row)
         /\ \A i \in M : \E p \in 1..Len(s) : s[p] = i
         /\ (\A i, j \in M : i # j => row[i].stamp # row[j].stamp)
              => \A p \in 1..Len(s) : Cardinality({ j \in M : row[j].stamp >= row[s[p]].stamp }) = p
<1> DEFINE n == Cardinality(M)
<1>1. /\ IsFiniteSet(M) /\ n \in 0..Len(row) /\ n \in Nat
      /\ \A i \in M : row[i].stamp \in Nat
  BY RowNumbers
<1>2. /\ s \in [1..n -> M] /\ DOMAIN s = 1..n
      /\ \A j, k \in 1..n : j < k => s[j] # s[k] /\ row[s[j]].stamp >= row[s[k]].stamp
  BY DEF Ordered
<1>3. s \in Seq(M) /\ Len(s) = n
  BY <1>1, <1>2
<1>4. \A j, k \in 1..n : s[j] = s[k] => j = k
  <2>1. \A j, k \in 1..n : j < k \/ k < j \/ j = k
    BY <1>1
  <2> QED
    BY <1>2, <2>1
<1>5. IsFiniteSet(1..n) /\ Cardinality(1..n) = n
  <2>1. 1 \in Int /\ n \in Int
    BY <1>1
  <2> QED
    BY <1>1, <2>1, FS_Interval
<1>6. s \in Injection(1..n, M)
  BY <1>2, <1>4 DEF Injection, IsInjective
<1>7. s \in Surjection(1..n, M)
  BY <1>1, <1>5, <1>6, FS_Injection
<1>8. \A i \in M : \E p \in 1..n : s[p] = i
  BY <1>7 DEF Surjection
<1>9. ASSUME \A i, j \in M : i # j => row[i].stamp # row[j].stamp, NEW p \in 1..n
      PROVE  Cardinality({ j \in M : row[j].stamp >= row[s[p]].stamp }) = p
  <2> DEFINE A == { j \in M : row[j].stamp >= row[s[p]].stamp }
             f == [q \in 1..p |-> s[q]]
  <2>1. p \in Nat /\ 1..p \subseteq 1..n /\ IsFiniteSet(1..p) /\ Cardinality(1..p) = p
    <3>1. 1 \in Int /\ p \in Int /\ p >= 1 /\ p \in Nat /\ 1..p \subseteq 1..n
      BY <1>1
    <3> QED
      BY <3>1, FS_Interval
  <2>2. \A q \in 1..p : s[q] \in A
    <3>1. \A q \in 1..p : q \in 1..n /\ (q < p \/ q = p)
      BY <2>1
    <3> QED
      BY <1>1, <1>2, <3>1
  <2>3. \A i \in A : \E q \in 1..p : s[q] = i
    <3>1. SUFFICES ASSUME NEW q \in 1..n, s[q] \in A
                   PROVE  q \in 1..p
      BY <1>8
    <3>2. ~(p < q)
      <4>1. ASSUME p < q
            PROVE  FALSE
        <5>1. s[p] \in M /\ s[q] \in M /\ s[p] # s[q] /\ row[s[p]].stamp >= row[s[q]].stamp
          BY <1>2, <4>1
        <5>2. row[s[p]].stamp # row[s[q]].stamp /\ row[s[q]].stamp >= row[s[p]].stamp
          BY <1>9, <3>1, <5>1
        <5> QED
          BY <1>1, <5>1, <5>2
      <4> QED
        BY <4>1
    <3> QED
      BY <1>1, <3>2
  <2>4. f \in Injection(1..p, A) /\ f \in Surjection(1..p, A)
    <3>1. f \in [1..p -> A]
      BY <2>2
    <3>2. \A j, k \in 1..p : f[j] = f[k] => j = k
      BY <1>4, <2>1
    <3>3. \A i \in A : \E q \in 1..p : f[q] = i
      BY <2>3
    <3> HIDE DEF A, f
    <3> QED
      BY <3>1, <3>2, <3>3 DEF Injection, IsInjective, Surjection
  <2>5. ExistsBijection(1..p, A)
    BY <2>4 DEF ExistsBijection, Bijection
  <2> QED
    BY <2>1, <2>5, FS_Bijection
<1> QED
  BY <1>1, <1>3, <1>8, <1>9

(* A page shows the places from skip + 1 on.                               *)
LastOf(s, skip, limit) == Min({skip + limit, Len(s)})
PageOf(s, skip, limit) == SubSeq(s, skip + 1, LastOf(s, skip, limit))

(* A page is as long as the limit unless the list ends with it.            *)
LEMMA PageShows ==
  ASSUME NEW M, NEW s \in Seq(M), NEW skip \in Nat, NEW limit \in Nat \ {0}
  PROVE  LET last == LastOf(s, skip, limit)
             page == PageOf(s, skip, limit)
         IN  /\ last = IF skip + limit <= Len(s) THEN skip + limit ELSE Len(s)
             /\ Len(page) \in 0..limit
             /\ Len(page) < limit => last = Len(s) /\ (Len(page) > 0 => skip + Len(page) = Len(s))
             /\ Range(page) \subseteq M
             /\ \A p \in 1..Len(s) : p \in skip + 1..last => s[p] \in Range(page)
<1> DEFINE last == LastOf(s, skip, limit)
           page == SubSeq(s, skip + 1, last)
<1>1. Len(s) \in Nat
  OBVIOUS
<1>2. last = IF skip + limit <= Len(s) THEN skip + limit ELSE Len(s)
  <2>1. {skip + limit, Len(s)} \in SUBSET Nat /\ {skip + limit, Len(s)} # {}
    BY <1>1
  <2>2. PICK m : m = last /\ m = Min({skip + limit, Len(s)})
    BY DEF LastOf
  <2>3. m \in {skip + limit, Len(s)} /\ \A y \in {skip + limit, Len(s)} : m <= y
    BY <2>1, <2>2, MinFacts
  <2> HIDE DEF last
  <2> QED
    BY <1>1, <2>2, <2>3
<1>3. last \in Nat /\ last <= Len(s) /\ last <= skip + limit
  BY <1>1, <1>2
<1> HIDE DEF last
<1>4. Len(page) = IF skip + 1 <= last THEN last - skip ELSE 0
  BY <1>1, <1>3
<1>5. \A q \in 1..Len(page) : page[q] = s[q + skip] /\ q + skip \in 1..Len(s)
  BY SMTT(30), <1>1, <1>3, <1>4
<1>6. Range(page) \subseteq M
  <2>1. DOMAIN page = 1..Len(page)
    BY <1>1, <1>3
  <2>2. \A k \in 1..Len(s) : s[k] \in M
    OBVIOUS
  <2>3. \A q \in 1..Len(page) : page[q] \in M
    BY <1>5, <2>2
  <2> HIDE DEF page
  <2> QED
    BY <2>1, <2>3 DEF Range
<1>7. ASSUME NEW p \in 1..Len(s), p \in skip + 1..last
      PROVE  s[p] \in Range(page)
  <2>1. p - skip \in 1..Len(page) /\ page[p - skip] = s[p]
    BY <1>1, <1>3, <1>4, <1>5, <1>7
  <2>2. DOMAIN page = 1..Len(page)
    BY <1>1, <1>3
  <2> QED
    BY <2>1, <2>2 DEF Range
<1>8. Len(page) \in 0..limit /\ (Len(page) < limit => last = Len(s) /\ (Len(page) > 0 => skip + Len(page) = Len(s)))
  BY <1>1, <1>2, <1>3, <1>4
<1> QED
  BY <1>2, <1>6, <1>7, <1>8 DEF last, PageOf

(* FindPage: what is missing afterwards comes after this page.             *)
LEMMA FindPageStep ==
  ASSUME DirInv, FindPage
  PROVE  ReadInv'
<1> DEFINE tied == \E i, j \in Known : i # j /\ row[i].stamp = row[j].stamp
           skip == Max({Offset, 0})
<1>1. row' = row /\ grant' = grant /\ view \in ViewTypes /\ view.step = "find" /\ WriteInv
  BY DEF FindPage, tables, DirInv, ReadInv
<1>2. PICK order \in Ordered(Known) :
        LET page == PageOf(order, skip, Limit)
        IN  view' = [view EXCEPT !.shown = @ \cup Range(page),
                                 !.shaken = @ \/ tied,
                                 !.step = IF CountKnown(Len(page)) THEN "turn" ELSE "count",
                                 !.total = IF CountKnown(Len(page)) THEN Len(page) + Offset ELSE @]
  BY DEF FindPage, Known, PageOf, LastOf
<1>3. /\ Known \in SUBSET DOMAIN row /\ DOMAIN row \subseteq Ids
      /\ DOMAIN row = 1..Len(row) /\ Len(row) \in Nat
      /\ \A i \in DOMAIN row : row[i].stamp \in Nat
  <2>1. Known \in SUBSET DOMAIN row
    BY DEF Known, Matching
  <2> QED
    BY <1>1, <2>1, RowNumbers
<1>4. /\ order \in Seq(Known) /\ Len(order) \in 0..Len(row) /\ Len(order) = Cardinality(Known)
      /\ \A i \in Known : \E p \in 1..Len(order) : order[p] = i
      /\ ~tied => \A p \in 1..Len(order) :
                    Cardinality({ j \in Known : row[j].stamp >= row[order[p]].stamp }) = p
  BY <1>1, <1>3, Places
<1>5. /\ Limit \in Nat \ {0} /\ Offset \in Int /\ skip \in Nat
      /\ skip = IF Offset >= 0 THEN Offset ELSE 0
      /\ view.page # Everything => /\ view.page \in Nat \ {0} /\ Limit = PageSize
                                   /\ Offset = (view.page - 1) * PageSize /\ Offset >= 0
      /\ view.page = Everything => Limit = AllSize /\ skip = 0
  <2>1. CASE view.page = Everything
    <3>1. Limit = AllSize /\ Offset = -2000
      BY <2>1 DEF Limit, Offset, Everything, AllSize
    <3>2. skip = 0
      BY <3>1 DEF Max
    <3> QED
      BY <2>1, <3>1, <3>2 DEF AllSize
  <2>2. CASE view.page # Everything
    <3>1. view.page \in Nat \ {0} /\ Limit = PageSize /\ PageSize \in Nat \ {0}
      BY <1>1, <2>2, DirectoryAssumption DEF ViewTypes, Limit
    <3>2. Offset = (view.page - 1) * PageSize
      BY <2>2, <3>1 DEF Offset
    <3>3. Offset \in Nat
      BY <3>1, <3>2
    <3>4. skip = Offset
      BY <3>3 DEF Max
    <3> QED
      BY <2>2, <3>1, <3>2, <3>3, <3>4
  <2> QED
    BY <2>1, <2>2
<1> HIDE DEF skip
<1>6. PICK pg, top : pg = PageOf(order, skip, Limit) /\ top = LastOf(order, skip, Limit)
  OBVIOUS
<1>7. /\ top = IF skip + Limit <= Len(order) THEN skip + Limit ELSE Len(order)
      /\ Len(pg) \in 0..Limit
      /\ Len(pg) < Limit => top = Len(order) /\ (Len(pg) > 0 => skip + Len(pg) = Len(order))
      /\ Range(pg) \subseteq Known
      /\ \A p \in 1..Len(order) : p \in skip + 1..top => order[p] \in Range(pg)
  <2>1. PICK sk, lim : sk = skip /\ lim = Limit
    OBVIOUS
  <2>2. sk \in Nat /\ lim \in Nat \ {0} /\ order \in Seq(Known)
    BY <1>4, <1>5, <2>1
  <2>3. /\ top = IF sk + lim <= Len(order) THEN sk + lim ELSE Len(order)
        /\ Len(pg) \in 0..lim
        /\ Len(pg) < lim => top = Len(order) /\ (Len(pg) > 0 => sk + Len(pg) = Len(order))
        /\ Range(pg) \subseteq Known
        /\ \A p \in 1..Len(order) : p \in sk + 1..top => order[p] \in Range(pg)
    BY <1>6, <2>1, <2>2, PageShows
  <2> QED
    BY <2>1, <2>3
<1>8. /\ view' \in ViewTypes
      /\ view'.who = view.who /\ view'.kind = view.kind /\ view'.page = view.page /\ view'.ids = view.ids
      /\ view'.steady = view.steady /\ view'.shown = view.shown \cup Range(pg)
      /\ view'.shaken <=> (view.shaken \/ tied)
      /\ view'.step = IF CountKnown(Len(pg)) THEN "turn" ELSE "count"
      /\ CountKnown(Len(pg)) => view'.total = Len(pg) + Offset
  <2>1. PICK sh \in BOOLEAN : sh <=> view.shaken \/ tied
    OBVIOUS
  <2>2. PICK st \in {"turn", "count"} : st = IF CountKnown(Len(pg)) THEN "turn" ELSE "count"
    OBVIOUS
  <2>3. PICK tt \in Int : tt = IF CountKnown(Len(pg)) THEN Len(pg) + Offset ELSE view.total
    BY <1>1, <1>5, <1>7 DEF ViewTypes
  <2>4. PICK vs \in SUBSET Ids : vs = view.shown \cup Range(pg)
    BY <1>1, <1>3, <1>7 DEF ViewTypes
  <2>5. view' = [view EXCEPT !.shown = vs, !.shaken = sh, !.step = st, !.total = tt]
    BY <1>1, <1>2, <1>6, <2>1, <2>2, <2>3, <2>4 DEF ViewTypes
  <2> HIDE DEF tied
  <2>6. /\ [view EXCEPT !.shown = vs, !.shaken = sh, !.step = st, !.total = tt] \in ViewTypes
        /\ LET e == [view EXCEPT !.shown = vs, !.shaken = sh, !.step = st, !.total = tt]
           IN  /\ e.who = view.who /\ e.kind = view.kind /\ e.page = view.page /\ e.ids = view.ids
               /\ e.steady = view.steady /\ e.shown = vs /\ e.shaken = sh /\ e.step = st /\ e.total = tt
    BY <1>1 DEF ViewTypes
  <2> QED
    BY <2>1, <2>2, <2>3, <2>4, <2>5, <2>6
<1>9. Known' = Known /\ Matching(view.who, view.kind, Mapped(view.who))' = Matching(view.who, view.kind, Mapped(view.who))
  BY <1>1, <1>8 DEF Known, Matching, Mapped, Live
<1>10. SteadyMatches' /\ KnownStays'
  BY <1>1, <1>8, <1>9 DEF DirInv, ReadInv, SteadyMatches, KnownStays
(* The place of what is missing.                                           *)
<1>11. ASSUME NEW i \in Missing'
       PROVE  \E p \in 1..Len(order) : order[p] = i /\ ~(p \in skip + 1..top) /\ i \in Missing
  <2>1. i \in view.steady /\ i \notin view.shown /\ i \notin Range(pg)
    BY <1>8 DEF Missing
  <2>2. i \in Known
    BY <1>1, <2>1 DEF DirInv, ReadInv, SteadyMatches
  <2> QED
    BY <1>4, <1>7, <2>1, <2>2 DEF Missing
<1>12. ASSUME Paged', NEW i \in Missing'
       PROVE  /\ Cardinality(Ahead(i)') > view.page * PageSize
              /\ ~CountKnown(Len(pg))
  <2>1. Paged /\ ~tied /\ view.page \in Nat \ {0} /\ Limit = PageSize
        /\ skip = (view.page - 1) * PageSize
    BY <1>5, <1>8, <1>12 DEF Paged
  <2>2. PICK p \in 1..Len(order) : order[p] = i /\ ~(p \in skip + 1..top) /\ i \in Missing
    BY <1>11, <1>12
  <2>3. Cardinality(Ahead(i)) = p
    <3>1. Ahead(i) = { j \in Known : row[j].stamp >= row[order[p]].stamp }
      BY <2>2 DEF Ahead
    <3> QED
      BY <1>4, <2>1, <3>1
  <2>4. p > skip
    <3>1. CASE view.page = 1
      <4>1. skip = 0
        BY <2>1, <3>1, DirectoryAssumption
      <4> QED
        BY <1>4, <4>1
    <3>2. CASE view.page # 1
      <4>1. Past = view.page - 1 /\ Past # 0
        BY <1>1, <2>1, <3>2 DEF Past
      <4>2. Cardinality(Ahead(i)) > Past * PageSize
        BY <1>1, <2>1, <2>2, <4>1 DEF DirInv, ReadInv, Behind
      <4> QED
        BY <2>1, <2>3, <4>1, <4>2
    <3> QED
      BY <3>1, <3>2
  <2>5. p > top /\ top = skip + Limit /\ Len(pg) = Limit
    BY SMTT(30), <1>4, <1>5, <1>7, <2>2, <2>4
  <2>6. skip + PageSize = view.page * PageSize
    <3>1. \A a, b \in Int : (a - 1) * b + b = a * b
      OBVIOUS
    <3>2. view.page \in Int /\ PageSize \in Int
      BY <2>1, DirectoryAssumption
    <3> QED
      BY <2>1, <3>1, <3>2
  <2>7. Ahead(i)' = Ahead(i)
    BY <1>1, <1>9 DEF Ahead
  <2>8. ~CountKnown(Len(pg))
    BY <1>5, <2>5 DEF CountKnown
  <2> QED
    BY <2>1, <2>3, <2>5, <2>6, <2>7, <2>8
<1>13. Behind'
  <2>1. Past' = view.page
    BY <1>8 DEF Past
  <2> QED
    BY <1>8, <1>12, <2>1 DEF Behind
<1>14. AtOnce'
  <2>1. SUFFICES ASSUME view.page = Everything, Len(row) <= AllSize, NEW i \in Missing'
                 PROVE  FALSE
    BY <1>1, <1>8 DEF AtOnce
  <2>2. PICK p \in 1..Len(order) : ~(p \in skip + 1..top)
    BY <1>11, <2>1
  <2>3. skip = 0 /\ Limit = AllSize /\ top = Len(order)
    BY <1>3, <1>4, <1>5, <1>7, <2>1 DEF AllSize
  <2> QED
    BY <1>4, <2>2, <2>3
<1>15. PageBound'
  <2>1. ASSUME view.page # Everything, CountKnown(Len(pg))
        PROVE  Len(pg) + Offset <= view.page * PageSize
    <3>1. Len(pg) <= PageSize /\ Len(pg) \in Int
      BY <1>5, <1>7, <2>1 DEF CountKnown
    <3>2. \A a, b \in Int : (a - 1) * b + b = a * b
      OBVIOUS
    <3>3. Offset + PageSize = view.page * PageSize /\ Offset \in Int /\ PageSize \in Int
      BY <1>5, <2>1, <3>2, DirectoryAssumption
    <3> QED
      BY <3>1, <3>3
  <2> QED
    BY <1>8, <2>1 DEF PageBound
<1> QED
  BY <1>8, <1>10, <1>13, <1>14, <1>15 DEF ReadInv

-----------------------------------------------------------------------------
(* The empty tables satisfy the invariant,                                 *)
LEMMA DirInitially == DirInit => DirInv
<1> SUFFICES ASSUME DirInit
             PROVE  DirInv
  OBVIOUS
<1>1. /\ NoTask \in TaskTypes /\ NoTask.step = "idle" /\ NoTask.op = "none" /\ NoTask.id = NoRow
  BY DEF NoTask, TaskTypes, Kinds, Users
<1>2. row = <<>> /\ Len(row) = 0 /\ DOMAIN row = {} /\ row \in Seq(RowTypes)
  BY DEF DirInit
<1>3. TablesOK
  BY <1>1, <1>2, DirectoryAssumption DEF DirInit, TablesOK
<1>4. WriteInv
  BY <1>1, <1>2, <1>3 DEF DirInit, WriteInv, TaskFits
<1>5. /\ view = [step |-> "idle", who |-> Boss, kind |-> "node", page |-> 1, ids |-> {},
                 shown |-> {}, total |-> 0, steady |-> {}, shaken |-> FALSE]
  BY DEF DirInit, NoView
<1>6. view \in ViewTypes
  BY <1>5, DirectoryAssumption DEF ViewTypes, Kinds, Users
<1>7. SteadyMatches /\ KnownStays
  BY <1>2, <1>5 DEF SteadyMatches, KnownStays, Known, Matching
<1>8. Behind /\ AtOnce /\ PageBound
  BY <1>5 DEF Behind, AtOnce, PageBound, Past
<1> QED
  BY <1>4, <1>6, <1>7, <1>8 DEF DirInv, ReadInv

(* and every step of a writer, a reader or the clock keeps it.             *)
LEMMA DirSteps == DirInv /\ [DirNext]_dirVars => DirInv'
<1> SUFFICES ASSUME DirInv, [DirNext]_dirVars
             PROVE  DirInv'
  OBVIOUS
<1>1. CASE Writing \/ Tick
  BY <1>1, WritesUnder
<1>2. CASE Reading
  <2>1. UNCHANGED <<tables, task, lapse>>
    BY <1>2 DEF Reading, OpenList, ReadIds, FindPage, CountRows, TurnPage
  <2>2. WriteInv'
    BY <2>1, WriteInvStays DEF DirInv
  <2>3. ReadInv'
    BY <1>2, OpenListStep, ReadIdsStep, FindPageStep, CountRowsStep, TurnPageStep DEF Reading
  <2> QED
    BY <2>2, <2>3 DEF DirInv
<1>3. CASE UNCHANGED dirVars
  <2>1. UNCHANGED <<tables, task, lapse>> /\ view' = view
    BY <1>3 DEF dirVars, tables
  <2>2. WriteInv'
    BY <2>1, WriteInvStays DEF DirInv
  <2>3. ReadInv'
    BY <1>3 DEF dirVars, DirInv, ReadInv, SteadyMatches, KnownStays, Behind, AtOnce, PageBound,
                Known, Matching, Mapped, Live, Ahead, Past, Missing, Paged
  <2> QED
    BY <2>2, <2>3 DEF DirInv
<1> QED
  BY <1>1, <1>2, <1>3 DEF DirNext

(* The tables, the requests and the reader keep the invariant.             *)
THEOREM DirectorySound == DirSpec => []DirInv
BY DirInitially, DirSteps, PTL DEF DirSpec

(* The variables keep their types: no page beyond one more than the rows   *)
(* is ever asked for.                                                      *)
THEOREM DirectoryTyped == DirSpec => []DirTypeOK
<1>1. DirInv => DirTypeOK
  BY DEF DirInv, WriteInv, ReadInv, TablesOK, RowTypes, TaskTypes, ViewTypes, DirTypeOK
<1> QED
  BY <1>1, DirectorySound, PTL

(* A mapping to a row that is deleted is being deleted, or its request     *)
(* failed, or the delete overtook the adding, or the chain was crossed.    *)
THEOREM Dangling == DirSpec => []DanglingOnlyByLapse
<1>1. DirInv => DanglingOnlyByLapse
  BY DEF DirInv, WriteInv, GrantFits, TaskFits, Unmapping, UnderWay, DanglingOnlyByLapse
<1> QED
  BY <1>1, DirectorySound, PTL

(* Who added a node or a chain has it, and nobody else, unless a request   *)
(* failed or two added a chain on one site.                                *)
THEOREM Access == DirSpec => []AccessFollowsAdding
<1>1. DirInv => AccessFollowsAdding
  <2> SUFFICES ASSUME DirInv
               PROVE  AccessFollowsAdding
    OBVIOUS
  <2>1. \A g \in grant : row[g.id].by = g.who \/ g.id \in lapse["crossed"]
    BY DEF DirInv, WriteInv, GrantFits, Given
  <2>2. \A i \in DOMAIN row : Adding(i) => UnderWay(i, "add")
    BY DEF DirInv, WriteInv, TaskFits, Adding, UnderWay
  <2> QED
    BY <2>1, <2>2 DEF DirInv, WriteInv, RowFits, AccessFollowsAdding
<1> QED
  BY <1>1, DirectorySound, PTL

(* Whoever reads to the end has seen what was there all the time.          *)
THEOREM NothingMissed == DirSpec => []MissedOnlyByDeleteOrTie
<1>1. DirInv => MissedOnlyByDeleteOrTie
  BY DEF DirInv, ReadInv, Behind, AtOnce, Paged, Missing, MissedOnlyByDeleteOrTie
<1> QED
  BY <1>1, DirectorySound, PTL

=============================================================================
