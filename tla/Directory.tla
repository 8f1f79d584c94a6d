------------------------------ MODULE Directory ------------------------------
(***************************************************************************)
(* Who may use which node or chain, and what a list of them shows.         *)
(*                                                                         *)
(* A row of nodes or chains and the mapping that gives it to the user who  *)
(* added it are written by separate statements, without a transaction; so  *)
(* are the deletes of both.  A list is read page by page, each with a      *)
(* query of the mappings, one of the rows and often one that counts them,  *)
(* while other requests change the tables.                                 *)
(*                                                                         *)
(* Only what these requests do to the tables is modelled: names, rates and *)
(* the agent's part (ControlPlane) are left out, but for its refusals.  A  *)
(* site stands for a port of a node, with one of its two addresses: a port *)
(* that both addresses share is ControlPlane's.                            *)
(***************************************************************************)
EXTENDS Integers, Sequences, FiniteSets, FiniteSetsExt, Functions

CONSTANTS
    Callers,      \* request goroutines that write
    People, Boss, \* users, and the one whose role is SUPER_ADMIN
    Sites,
    PageSize,     \* of the lists
    MaxRows,      \* bound on the rows ever created
    MaxClock      \* bound on the moments updated_at tells apart

ASSUME DirectoryAssumption ==
    /\ Boss \notin People
    /\ PageSize \in Nat \ {0} /\ MaxRows \in Nat /\ MaxClock \in Nat

VARIABLES
    row,    \* the rows of both tables; an index is a primary key
    grant,  \* the tables of mappings
    clock,  \* the time, as updated_at records it
    task,   \* the requests that write
    view,   \* a reader of a list
    lapse   \* history: for each kind of lapse, the rows it happened to

tables  == <<row, grant, clock>>
dirVars == <<row, grant, clock, task, view, lapse>>

Users == People \cup {Boss}
Ids   == 1..MaxRows
NoRow == 0
Everything == -1  \* the PageNo that asks for one page of AllSize rows
AllSize == 1000

Kinds == {"node", "chain"}

NoSite == <<NoRow, NoRow>>

(* failed: a statement failed; crossed: two requests added a chain on one  *)
(* site; overtaken: deleted by one request while another was adding it.    *)
Lapses == {"failed", "crossed", "overtaken"}

NoTask == [step |-> "idle", op |-> "none", kind |-> "node", who |-> Boss,
           id |-> NoRow, site |-> NoSite]

NoView == [step |-> "idle", who |-> Boss, kind |-> "node", page |-> 1, ids |-> {},
           shown |-> {}, total |-> 0, steady |-> {}, shaken |-> FALSE]

DirTypeOK ==
    /\ row \in Seq([kind : Kinds, live : BOOLEAN, by : Users,
                    site : (Ids \X Sites) \cup {NoSite}, stamp : 0..MaxClock])
    /\ Len(row) <= MaxRows
    /\ grant \subseteq [who : Users, id : Ids]
    /\ clock \in 0..MaxClock
    /\ task \in [Callers -> [step : {"idle", "insert", "find", "map", "delete", "unmap", "update"},
                             op : {"none", "add", "delete", "edit"}, kind : Kinds, who : Users,
                             id : Ids \cup {NoRow}, site : (Ids \X Sites) \cup {NoSite}]]
    /\ view \in [step : {"idle", "ids", "find", "count", "turn", "done"}, who : Users, kind : Kinds,
                 page : {Everything} \cup 1..MaxRows + 1, ids : SUBSET Ids, shown : SUBSET Ids,
                 total : Int, steady : SUBSET Ids, shaken : BOOLEAN]
    /\ lapse \in [Lapses -> SUBSET Ids]

-----------------------------------------------------------------------------
(* The queries *)

Live(i) == row[i].live

(* checkUserNodePermission, checkUserChainPermission: the administrator    *)
(* may use everything.                                                     *)
Permitted(u, i) == u = Boss \/ [who |-> u, id |-> i] \in grant

At(site) == { i \in DOMAIN row : row[i].kind = "chain" /\ Live(i) /\ row[i].site = site }

Lapsed(why, is) == [lapse EXCEPT ![why] = @ \cup is]

-----------------------------------------------------------------------------
(* Adding *)

Begins(c, rec) ==
    /\ task[c] = NoTask
    /\ task' = [task EXCEPT ![c] = rec]
    /\ UNCHANGED <<tables, view, lapse>>

Goes(c, step) == task' = [task EXCEPT ![c].step = step]
Ends(c) == task' = [task EXCEPT ![c] = NoTask]

AddNode(c, u) ==
    Begins(c, [NoTask EXCEPT !.step = "insert", !.op = "add", !.who = u])

(* The user must have the node, and the site no chain.                     *)
AddChainAt(c, u, site) ==
    LET n == site[1] IN
    /\ Permitted(u, n)
    /\ Live(n)
    /\ At(site) = {}
    /\ Begins(c, [NoTask EXCEPT !.step = "insert", !.op = "add", !.kind = "chain",
                                !.who = u, !.site = site])

Insert(c) ==
    LET t == task[c] IN
    /\ t.step = "insert"
    /\ Len(row) < MaxRows
    /\ row' = Append(row, [kind |-> t.kind, live |-> TRUE, by |-> t.who,
                           site |-> t.site, stamp |-> clock])
    /\ task' = [task EXCEPT ![c].step = "find", ![c].id = Len(row) + 1]
    /\ UNCHANGED <<grant, clock, view, lapse>>

(* Mutant: a deleted row is found too.                                     *)
FindUnscoped(c) ==
    LET t == task[c]
        found == IF t.kind = "node" THEN {t.id}
                 ELSE { i \in DOMAIN row : row[i].kind = "chain" /\ row[i].site = t.site }
    IN
    /\ t.step = "find"
    /\ task' = [task EXCEPT ![c].step = "map", ![c].id = Min(found)]
    /\ lapse' = IF Cardinality(At(t.site)) > 1 THEN Lapsed("crossed", {t.id, Min(found)}) ELSE lapse
    /\ UNCHANGED <<tables, view>>

(* The new row is read again for its key: a node by its unique key, a      *)
(* chain by its site, where it may not be the first.  When it is gone      *)
(* already, there is a nil pointer and no mapping.                         *)
Find(c) ==
    LET t == task[c]
        found == IF t.kind = "node" THEN { i \in {t.id} : Live(i) } ELSE At(t.site)
    IN
    /\ t.step = "find"
    /\ IF found = {} THEN Ends(c) /\ UNCHANGED lapse
       ELSE /\ task' = [task EXCEPT ![c].step = "map", ![c].id = Min(found)]
            /\ lapse' = IF Min(found) = t.id THEN lapse ELSE Lapsed("crossed", {t.id, Min(found)})
    /\ UNCHANGED <<tables, view>>

Map(c) ==
    /\ task[c].step = "map"
    /\ grant' = grant \cup {[who |-> task[c].who, id |-> task[c].id]}
    /\ Ends(c)
    /\ UNCHANGED <<row, clock, view, lapse>>

(* A statement or the agent fails, and the request ends with an error.     *)
Fails(c) ==
    /\ task[c].step \in {"insert", "map", "delete", "unmap", "update"}
    /\ Ends(c)
    /\ lapse' = IF task[c].step \in {"map", "unmap"} THEN Lapsed("failed", {task[c].id}) ELSE lapse
    /\ UNCHANGED <<tables, view>>

-----------------------------------------------------------------------------
(* Deleting and editing *)

(* A user deletes what is mapped to the user; if that was deleted before,  *)
(* nothing happens.  The administrator deletes any id.                     *)
DelNodeRow(c, u, i) ==
    /\ row[i].kind = "node"
    /\ Permitted(u, i)
    /\ u = Boss \/ Live(i)
    /\ Begins(c, [NoTask EXCEPT !.step = "delete", !.op = "delete", !.who = u, !.id = i])

(* A user may not delete a chain that is not the only one on its site.     *)
DelChainRow(c, u, i) ==
    /\ row[i].kind = "chain"
    /\ Permitted(u, i)
    /\ Live(i)
    /\ u = Boss \/ Cardinality(At(row[i].site)) = 1
    /\ Begins(c, [NoTask EXCEPT !.step = "delete", !.op = "delete", !.kind = "chain",
                                !.who = u, !.id = i])

Shake(i) ==
    [view EXCEPT !.shaken = @ \/ row[i].kind = view.kind, !.steady = @ \ {i}]

(* A soft delete.                                                          *)
DeleteRow(c) ==
    LET i == task[c].id
        adding == { x \in Callers : task[x].op = "add" /\ task[x].id = i }
    IN
    /\ task[c].step = "delete"
    /\ row' = [row EXCEPT ![i].live = FALSE]
    /\ Goes(c, "unmap")
    /\ view' = Shake(i)
    /\ lapse' = IF adding = {} THEN lapse ELSE Lapsed("overtaken", {i})
    /\ UNCHANGED <<grant, clock>>

(* Mutant: only the caller's own mapping is deleted.                       *)
UnmapOwn(c) ==
    LET i == task[c].id IN
    /\ task[c].step = "unmap"
    /\ grant' = grant \ {[who |-> task[c].who, id |-> i]}
    /\ Ends(c)
    /\ view' = Shake(i)
    /\ UNCHANGED <<row, clock, lapse>>

(* All mappings of a node, or of a chain the administrator deletes; of a   *)
(* chain a user deletes, the user's.                                       *)
Unmap(c) ==
    LET i == task[c].id IN
    /\ task[c].step = "unmap"
    /\ grant' = { g \in grant : g.id # i \/ (task[c].kind = "chain" /\ g.who # task[c].who
                                                /\ task[c].who # Boss) }
    /\ Ends(c)
    /\ view' = Shake(i)
    /\ UNCHANGED <<row, clock, lapse>>

(* A new name or rate.  The registration of an agent moves its node to the *)
(* front of the list in the same way.                                      *)
Edit(c, u, i) ==
    /\ Permitted(u, i)
    /\ Begins(c, [NoTask EXCEPT !.step = "update", !.op = "edit", !.kind = row[i].kind,
                                !.who = u, !.id = i])

(* A row deleted since the check is not found, which is no error.          *)
Update(c) ==
    LET i == task[c].id IN
    /\ task[c].step = "update"
    /\ row' = IF Live(i) THEN [row EXCEPT ![i].stamp = clock] ELSE row
    /\ view' = IF Live(i) THEN [view EXCEPT !.steady = @ \ {i}] ELSE view
    /\ Ends(c)
    /\ UNCHANGED <<grant, clock, lapse>>

Tick ==
    /\ clock < MaxClock
    /\ clock' = clock + 1
    /\ UNCHANGED <<row, grant, task, view, lapse>>

-----------------------------------------------------------------------------
(* Reading a list *)

Mapped(u) == { g.id : g \in { h \in grant : h.who = u } }

(* What the query of a list matches, given the ids read before.            *)
Matching(who, kind, ids) ==
    { i \in DOMAIN row : row[i].kind = kind /\ Live(i) /\ (who = Boss \/ i \in ids) }

OpenList(u, kind, page) ==
    /\ view.step \in {"idle", "done"}
    /\ view' = [NoView EXCEPT !.step = "ids", !.who = u, !.kind = kind, !.page = page,
                              !.steady = Matching(u, kind, Mapped(u))]
    /\ UNCHANGED <<tables, task, lapse>>

ReadIds ==
    /\ view.step = "ids"
    /\ view' = [view EXCEPT !.step = "find", !.ids = Mapped(view.who)]
    /\ UNCHANGED <<tables, task, lapse>>

(* Mutant: the rows that were not changed for the longest time come first. *)
OldestFirst(M) ==
    { s \in [1..Cardinality(M) -> M] :
        \A j, k \in DOMAIN s : j < k => s[j] # s[k] /\ row[s[j]].stamp <= row[s[k]].stamp }

(* The orders that ORDER BY updated_at DESC may give.                      *)
Ordered(M) ==
    { s \in [1..Cardinality(M) -> M] :
        \A j, k \in DOMAIN s : j < k => s[j] # s[k] /\ row[s[j]].stamp >= row[s[k]].stamp }

Limit  == IF view.page = Everything THEN AllSize ELSE PageSize
Offset == (view.page - 1) * Limit

(* FindByPage does without a count when the page is not full, nor empty.   *)
CountKnown(size) == 0 < size /\ size < Limit

(* FindByPage; a negative offset is no offset to the database, but it is   *)
(* added to the total.                                                     *)
FindPage ==
    LET M == Matching(view.who, view.kind, view.ids)
        tied == \E i, j \in M : i # j /\ row[i].stamp = row[j].stamp
    IN
    /\ view.step = "find"
    /\ \E order \in Ordered(M) :
        LET skip == Max({Offset, 0})
            page == SubSeq(order, skip + 1, Min({skip + Limit, Len(order)}))
        IN  view' = [view EXCEPT !.shown = @ \cup Range(page),
                                 !.shaken = @ \/ tied,
                                 !.step = IF CountKnown(Len(page)) THEN "turn" ELSE "count",
                                 !.total = IF CountKnown(Len(page)) THEN Len(page) + Offset ELSE @]
    /\ UNCHANGED <<tables, task, lapse>>

CountRows ==
    /\ view.step = "count"
    /\ view' = [view EXCEPT !.step = "turn",
                            !.total = Cardinality(Matching(view.who, view.kind, view.ids))]
    /\ UNCHANGED <<tables, task, lapse>>

(* The reader goes on until there are as many as the total says.           *)
TurnPage ==
    /\ view.step = "turn"
    /\ view' = IF view.page # Everything /\ view.page * PageSize < view.total
               THEN [view EXCEPT !.step = "ids", !.page = @ + 1]
               ELSE [view EXCEPT !.step = "done"]
    /\ UNCHANGED <<tables, task, lapse>>

-----------------------------------------------------------------------------
DirInit ==
    /\ row = <<>> /\ grant = {} /\ clock = 0
    /\ task = [c \in Callers |-> NoTask]
    /\ view = NoView
    /\ lapse = [why \in Lapses |-> {}]

Writing ==
    \E c \in Callers :
        \/ \E u \in Users :
            \/ AddNode(c, u)
            \/ \E n \in DOMAIN row, s \in Sites : row[n].kind = "node" /\ AddChainAt(c, u, <<n, s>>)
            \/ \E i \in DOMAIN row : DelNodeRow(c, u, i) \/ DelChainRow(c, u, i) \/ Edit(c, u, i)
        \/ Insert(c) \/ Find(c) \/ Map(c) \/ Fails(c) \/ DeleteRow(c) \/ Unmap(c) \/ Update(c)

Reading ==
    \/ \E u \in Users, kind \in Kinds, page \in {1, Everything} : OpenList(u, kind, page)
    \/ ReadIds \/ FindPage \/ CountRows \/ TurnPage

DirNext == Writing \/ Reading \/ Tick

DirSpec == DirInit /\ [][DirNext]_dirVars

-----------------------------------------------------------------------------
(* Properties *)

UnderWay(i, op) == \E c \in Callers : task[c].op = op /\ task[c].id = i

(* A mapping leads to a row that exists, unless a delete has still to get  *)
(* to it or failed there, overtook the request that was adding the row, or *)
(* was of a chain that two requests had added on one site.                 *)
DanglingOnlyByLapse ==
    \A g \in grant :
        Live(g.id) \/ UnderWay(g.id, "delete") \/ \E why \in Lapses : g.id \in lapse[why]

(* Exactly who added a node or a chain may use it, apart from the          *)
(* administrator: two users who add a chain on one site at the same time   *)
(* both get the first of the two rows, and nobody gets the second.         *)
AccessFollowsAdding ==
    /\ \A g \in grant : row[g.id].by = g.who \/ g.id \in lapse["crossed"]
    /\ \A i \in DOMAIN row :
        Live(i) => \/ [who |-> row[i].by, id |-> i] \in grant
                   \/ UnderWay(i, "add")
                   \/ i \in lapse["failed"] \cup lapse["crossed"]

(* Whoever reads a list to its end has seen every row that was there all   *)
(* the time and did not change, whatever was added or edited meanwhile.    *)
(* Two exceptions: another row was deleted, which moves those behind it to *)
(* a page that was read already; rows that changed at one moment come in   *)
(* any order.  Everything in one page is everything up to AllSize rows.    *)
MissedOnlyByDeleteOrTie ==
    (view.step = "done" /\ IF view.page = Everything THEN Len(row) <= AllSize ELSE ~view.shaken)
        => view.steady \subseteq view.shown
=============================================================================
