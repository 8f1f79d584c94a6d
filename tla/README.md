# Stander: a TLA+ verification of the forwarder

Stander forwards TCP and UDP traffic. A *controller* (HTTP API over a MySQL
database) keeps *nodes*, *rules* ("listen on this port of this node, forward to
that address, directly or through a chain"), *chains* (relay ports on a node),
users and their traffic plans. Each node runs an *agent*, which opens the ports
itself (native mode) or asks a *gost* process for them (gost mode), relays the
connections, and reports the bytes. This directory models the parts where state,
concurrency and failure meet, checks them with TLC, and proves with TLAPS, for
every size, what the port tables, the relay and the UDP connectors, the controller in
both modes, the directory, the accounting of traffic and the plans promise: every
safety property of the runs is a theorem.

## 1. The system

| Component | State | Operations | Models |
|---|---|---|---|
| Agent port table, `pkg/manager/mgr.go` | `srcConnMap` (a `sync.Map` of listeners under `"<port>"`, UDP objects under `"udp#<port>"`), sockets | `AddRule`, `AddChain`, `DelPort` | `AgentPorts`, `PortRegistry` |
| TCP / TLS connectors, `tcp_connector.go`, `tls_connector.go` | listener, `curTraffic`, connections | `InitConfig`, `Listen`, `StoreConn`; `handleConn`, `copyConn`; `reportCurTraffic` | `AgentPorts`; `Relay`; `TrafficReport` |
| UDP forwarder and chain proxy, `udp_connector.go`, `udp_chain_connector/` | socket, `shutdownChan`, client table | `Start`, `Close`, packets and answers, cleanup; the header | `AgentPorts`, `UdpSessions`, `UdpHeader` |
| `UDPConnector`, `UDPConnectorV2` | connection map, backlog, queues; one shared buffer | `Listen`, `Serve`, `Handle`, `Close` | `UdpListener`, `UdpExchange` |
| Gost mode, `mgr.go`, `client/gost.go` | services, chain objects and counts of gost | `AddRule`, `AddChain`, `DelPort`, `observerNetworkTraffic` | `GostRules`, `GostObserver` |
| Rules and chains of the controller, `service/rule.go`, `chain.go` | tables `rules`, `chains` | add, delete, modify | `ControlPlane`, `GostRules` |
| Nodes and permissions, `service/node.go` | `nodes`, mapping tables | register, add, edit, delete, list | `ControlPlane`, `Directory` |
| Agent start, `stander.go`, `InitAgent` | the downloaded rows | register, open every port, serve HTTP | `ControlPlane`; in gost mode `GostRules` |
| Relay of the controller, `manager.Init` | a goroutine per row | re-send rows until accepted | `GostRules` |
| Traffic, `service/data.go` | `rules.traffic`, `user_daily_traffic` | report, charge | `TrafficReport` |
| Plans, `data.go`, `plan.go`, `utils/cron` | reset times, usage map, channel | periodic check, reset, new plan | `PlanReset`, `Calendar` |

How they interact. A handler of the controller runs in the goroutine of its HTTP
request. It reads rows, calls the agent (a synchronous request without a
timeout), and writes rows; there is no transaction and no lock. A handler of the
agent calls the manager, again in a goroutine per request and without a lock; the
manager spawns the goroutines that bind the ports, those spawn the goroutines
that copy and report. The connectors report to the controller, whose cron reads
what was charged. An agent that starts registers, downloads its rows, opens their
ports, and only then serves HTTP. Hertz recovers panics of handlers (answer 500),
not panics of the goroutines they spawn.

What is hard: two requests on one port, in the agent and in the controller; a
port that is probed, released and bound again; objects closed before the
goroutine that starts them runs; table entries deleted by key while a newer
object has the key; counters read, sent and reset in three steps; lost answers
and half-finished writes between agent, gost and database; rows that change while
an agent downloads them, a cron holds them in a channel or a reader turns pages;
connections that end at one side only. `PROJECT.json` lists each hazard at its
line, with the properties that watch it, or why there is none.

What makes each part correct: an entry of a table is alive, and no socket is open
that nobody can close; a port is open if and only if a row says so, and serves
what it says; a request is answered, a port comes back after a restart, a
connection ends when its peers do; bytes arrive once, in order and at the right
peer, and are charged once, to the right user; a period begins at the last reset
and ends before the user expires; who added a row, and nobody else, may use it.
Where the code does not keep such a promise, the property names the exception
exactly, by a history variable that records the events that cause it.

## 2. Modules

* **`AgentPorts`**: native mode of the manager. One action per access to the map
  and per system call: `ProbeBind` / `ProbeInUse` / `ProbeClose` / `ProbeBadChain`
  are `InitConfig`, `Listen` the goroutine `go ctr.Listen()`, `StoreConn` the loop
  that waits for the listener, `NewUdp` / `StoreUdp` / `StartUdp` the UDP object,
  its entry and its `Start`; `LoadConn` ... `CloseUdp` are `DelPort` and the two
  halves of a UDP `Close`. `NilStart` is the panic of a nil forwarder's `Start`,
  which ends the process; `CollectUdp` the finalizer of a lost socket. `overlap`,
  `twin`, `early` are history.
* **`PortRegistry`**: what callers may expect, the set of open ports and the
  answer of each request. `AgentPorts!Registry` is the refinement mapping.
* **`UdpSessions`**: one UDP object from the inside, the forwarder and both modes
  of the proxy: the receiver, an answering goroutine per session, the cleanup, and
  `Close`. `evicted` and `late` are history.
* **`UdpHeader`**: `packAddress` and `unpackAddress` on sequences of bytes. Its one
  variable holds the targets and packets a run tries; nothing changes them.
* **`UdpListener`**, **`UdpExchange`**: `UDPConnector` and `UDPConnectorV2`. The
  manager's uses of them are commented out (`mgr.go:382`, `412`, `460`): the models
  show what they would do.
* **`Relay`**: one TCP or TLS connection through one or two agents: the three
  branches of `handleConn`, the copies, the drain of the header's reader, the
  timers, half-closed and closed ends.
* **`ControlPlane`**: the controller's handlers, their rows and the agent of one
  node. An agent request is one step, as `PortRegistry` allows; each handler is its
  first reads, the agent call and the writes, one action each. `Lossy` lets an
  answer get lost (the effect stays), a request not arrive, a write fail.
  `RegisterRules`, `RegisterChains`, `InitAgent`, `InitAgentPanics` are the start of
  the agent. `blame` is history: ports about which two requests contended, a
  request failed half way, or that were touched while the agent was not up; a
  registration while no request runs clears it. Two requests contend when they have
  a port or the key of a rule's row in common (`Rivals`): a handler updates and
  deletes by key what it read before, wherever another request has moved the row
  since. `unchained` holds the ports that
  `modifyRules` re-created without their chain.
* **`GostRules`**: the same for a node in gost mode, where a rule is two services
  added and deleted by requests of their own, and gost outlives the agent; with
  the goroutines of `manager.Init`. An agent that starts (`boot`) reads the rows of
  its rules and of its chains (`RegisterRules`, `RegisterChains`), asks gost for them
  one request at a time (`InitShut` to `InitUdp`), and serves the controller only
  after the last one (`AgentServes`); until then `delRule` is refused and deletes the
  row all the same. When a request fails, or the agent is stopped, what it has added
  stays (`InitAgentPanics`, `BootStops`), and the next start passes a rule over whose
  first service exists. `broken` and `stale` are history; `Left` is what
  a call leaves behind that writes to a row another call has deleted: the update
  finds no row, and its port keeps services that no row asks for.
* **`GostObserver`**: gost's counts, the batches it sends, and the agent's handler
  that passes them on.
* **`TrafficReport`**: the reporter of each connector, its handler in the
  controller, the rows they change, and what happens around them (rules that come
  and go, dates, crashes, lost answers). `lossy`, `retried`, `leftover` are history.
* **`PlanReset`** extends it with the cron, `userResetChan`, the resetter and the
  requests that write a plan; **`Calendar`** is `time.Time.AddDate` on numbered
  days, with months of their true lengths.
* **`Directory`**: rows of nodes and chains, the mappings that give them to users,
  the two statements of each add and delete, and the pages of a list. `lapse` is
  history: rows whose statements failed, were overtaken or crossed.
* **`AgentPortsProofs`**, **`UdpProofs`**, **`ControlPlaneProofs`**,
  **`GostProofs`** (`GostRules` and `GostObserver`), **`DirectoryProofs`**,
  **`TrafficProofs`** (reports and plans), **`ConnectorProofs`** (`UdpListener` and
  `UdpExchange`), **`DataPathProofs`** (`Relay` and `UdpHeader`): the theorems.
* **`MC...`**: instances for TLC: slices of the state space, symmetry, views.
  `MCDataPaths` explores `Relay`, `UdpExchange`, `UdpHeader` and `GostObserver`,
  one at a time, from disjoint sets of initial states.

Definitions under a comment "Mutant" are deliberate mistakes, used by no model:
each property of a passing run is shown to fail when one of them replaces the
definition it stands next to (`PROJECT.json`, "mutants").

## 3. Runs

| Run | Instance | States | Shows |
|---|---|---|---|
| `ports_race` | 2 requests, 1 port, 3 connectors, 2 UDP objects, crashes | 1.09 M | sockets are lost, and `StoreConn` spins, only through two deletes that hold one entry, an overlap on the port or a `Close` before `Start`; otherwise a deleted port is free |
| `ports_serial` | 2 requests, 2 ports, one at a time per port, no UDP | 53 k | refinement of `PortRegistry`; every request is answered |
| `cp_requests` | 2 requests, faults, 1 crash; rules on 3 ports, or chains of both addresses and a rule on 1 port | 546 k | rows and ports disagree only where a fault or a contention was |
| `cp_all` | 1 request, 2 ports, 2 rules, 1 chain, all operations, 1 crash | 542 k | services are as recorded after every sequence of requests; the agent comes back unless its rows share a port |
| `rule_unique`, `last_chain` | see Findings | | violations |
| `udp_sessions` | 1 peer, 2 sessions, forwarder and proxy | 204 k | a socket is lost only by a stale close; `Close` returns and leaves only what came late; silent peers are dropped |
| `data_paths` | relay: 2 chunks up, 1 down, all four paths; exchange: 2 clients, 2 calls; every header of a set of packets; observer: 3 services, 2 bytes, 1 stop of the agent | 302 k | what is delivered, to whom, in which order, and what is charged; which endings reach the other side |
| `udp_listener` | 1 peer, 2 connections, backlog, queue and refusals of 1, both ends of a chain | 382 k | the one way to an entry nobody serves; idle connections close; a closed port ends everything |
| `traffic_plans` | 2 connectors, 2 users, rates 0 and 2, 3 start dates, channel of 2 | 383 k | when bytes are charged twice, lost or charged to somebody else; what a period counts, and that it is reset |
| `gost_rules` | 2 requests on a served rule; a failing call, or a stop of agent or gost, and a start of the controller; or 1 request, 2 stops and a failing call or start of the agent | 233 k | when half a rule is left; that the relay ends, and the one case in which it does not |
| `directory` | 2 writing requests of 2 users and the administrator; or one, and a reader of a list with pages of one row | 590 k | who may use a row; what a reader misses |

Bounds. Two concurrent requests reach every hazard of the controller and the
agent that is a read by one and a write by another; a third matters where a row
moves twice while somebody holds a copy of it, and what the properties say of that
is proved for any number of requests, ports and rows. Ports do not interact, except
where one request has two; three let a row move away from both ports of a request
(`cp_requests`; `gost_rules`, whose calls have more steps, keeps two). Identities (connectors, UDP objects,
sessions, connections, primary keys, calls) are used again when nothing refers to
them, so runs are not bounded in the number of requests, only in what is alive at
once. The second session of one peer is the one a stale close evicts; other peers
only multiply this (the inductive invariant was also checked with 2 peers and 3
sessions). `Backlog` and `QueueSize` are 1 so that they fill. Two chunks are what
it takes to be out of order. Rates 0 and 2 tell apart a charge with the rate from
one without it. The dates of `MCPlanReset` are a 31st before a short month, a
14th and the day after; the `Horizon` of `Calendar`, in 2031, is a year beyond the
last day a run or a proof may use (`CalendarAssumption`). `MaxCrashes`,
`MaxStops`, `left` and `MaxRefused` bound faults: one is enough to reach each
exception. `PageSize` 1 makes every row a page boundary; `MaxClock` tells two
moments apart, so that rows tie or do not.

Slices (`InSlice`, `SliceSpec`, `Budgets`, `PathSpec`) keep apart what has no state
in common, or what multiplies without interacting: rules and chains in `cp_requests` (their
one conflict, a rule on a chain's port, is in the second slice), reports and plans
in `traffic_plans`, writers and a reader in `directory`. Every action fires in
some run.

Deadlock is checked in `ports_race`, `ports_serial`, `cp_requests` and the two
violations. Elsewhere the system may stop: a closed object, an ended connection,
a deleted node, a spent bound.

Fairness. Goroutines that can run do (weak fairness of each, the Go scheduler);
timers fire; the collector runs (Go forces it every two minutes), which closes a
forgotten connection; the cron and the resetter run; the service manager restarts
agent and gost (`install.sh:59`, `install_gost.sh:57`, `Restart=always`). Strong fairness is
assumed once: `select` picks at random among ready cases, so that the cleanup of
the UDP sessions, whose ticks are a minute apart, sees the closed channel
(`JanitorStops`). Nothing makes a caller call, a peer send or close, a target
answer, or a fault happen.

### Findings

* `rule_unique`: `modifyRule` on an agent deletes the old port, then fails to add
  the new one, and does not restore the old. The old port is free and the row
  still names it; the next rule is accepted on it. "the specified rule already
  exist" (`rule.go:180`) can never be answered, since `db_init.sql` has no unique
  index. `InitAgent` panics on such rows at each start (`mgr.go:151`).
* `last_chain`: two deletes of the last two chains on a port each count two
  (`chain.go:192`), and neither closes it.

### Exceptions the passing properties name

No document promises otherwise, but a maintainer will want to know them; the
properties fail without them.

* `closeClient` deletes by key: a slow close of a peer's old session removes the
  entry of its new one, which stays open until `Close`. Sessions stored while
  `Close` ranges over the table stay too.
* `TcpChain` / `TlsChain` in `ConnectionsEnd`: the end of the target does not reach
  the client of a TCP chain; the end of the client does not reach the target of a
  TLS chain. In a TCP chain two goroutines read one connection, and what the
  client sends may arrive out of order.
* Bytes are charged twice when a report took effect and was not answered, lost
  when they arrive between the report and the reset of the counter, and charged to
  the next owner of a port when the reporter of a deleted rule still has some.
* Gost mode: the first event that fails drops itself and all behind it, since gost
  is answered ok; a batch sent again after a stop of the agent charges its first
  events twice. A TCP chain that is in use keeps `manager.Init` from all rules, for
  ever. The second service of a rule may be refused after the first is there; an
  agent that stops or panics there as it starts passes the rule over ever after
  (`mgr.go:147`), since only the first service is looked at. A row that is deleted
  while the agent starts leaves the services that the start adds for it.
* Days after a reset on the 29th to the 31st are left out of the period
  (`AddDate(0, -1, -1)` does not undo `AddDate(0, 1, 0)`). A user row that waits in
  the channel is reset as it was read.
* Two requests that add a chain on one site both map the first row; its mapping
  outlives a delete that overtakes the add. A reader misses rows when another one
  is deleted, or when two changed at one moment.
* `UDPConnector` stores the entry of a connection that is closed already; nothing
  deletes it. `UDPConnectorV2` gives a goroutine a slice of the buffer it reads the
  next datagram into: a client may get the answer to another's.

## 4. Proofs

`tlapm` proves what follows for every value of the constants that the named
assumptions allow: any number of requests, ports, rows, connectors, sessions,
clients. Each proof is the same argument: an invariant `IInv` that contains the
property, holds initially and is kept by every step, with a lemma per action. TLC
checked each `IInv` on an instance before it was proved. What makes the property
inductive is what is worth reading:

**`AgentPortsProofs`** (`ConstantsAssumption`: `None` is none of the others, flags
are Booleans). *TCP.* `TcpTable`: `Spec => []TcpInv`. That a map entry listens is
not inductive: it needs that `DelPort` deletes the entry before it closes the
listener (`CloserState`), that a connector being made is known to nobody else
(`MakerOwns`) and bound or not as its step says (`MakerState`), that a listener has
one port (`OwnerInjective`), and where each bound listener is to be found until two
deletes held one entry (`TwinHistory`). `MapEntriesAlwaysListen` and
`OrphanOnlyByTwinDelete` follow, and `NeverReplaces` (`Spec => StoreNeverReplaces`):
a second bind fails while the first listener is recorded. *UDP.* `UdpTable`: `Spec
=> []UdpInv`, which says of a port without an overlap that one call is at work on it
(`OneAtATime`) and where its UDP object is at each step of that call (`UdpOwner`,
`UdpHeld`, `AddAlone`, `DelAlone`, `UdpBesideTcp`), and of every socket that it is
in the table, in somebody's hands or lost to a recorded race (`UdpAccounted`).
`UdpLostOnlyByRace`, `NoSpinAlone` (`SpinOnlyByOverlap`) and `DeletedFree`
(`DeletedPortIsFree`) follow. *Refinement.* `TableImplementsRegistry`: if calls on
one port are not made at the same time (`Serial`), `AgentPorts` implements
`PortRegistry` under the mapping `Registry`: each step is a step of the registry
(`StepsFit`) or leaves open ports and calls as they were.

**`UdpProofs`** (`SessionsAssumption`). `Sound`: `Spec => []SessionsInv`, where
besides the types `Steps` ties each goroutine's step to the session it holds, `Keys`
says that an entry's session has the entry's peer and no session two entries,
`Deleted` that who is between the two halves of a close has removed the entry,
`Reach` that an open session is in the table, about to be closed, or evicted, and
`Swept` which part of the table `Close` has passed. `EntriesStayOpen`,
`LostByEviction` and `CloseLeaves` follow.

**`ControlPlaneProofs`** (`ConstantsAssumption`). `Sound`: `Spec => []PlaneInv`. A
request has the shape its operation gives it (`Shape`, `Distinct`); its copy of a
row is the row (`Snap`, `ChainSnap`), no other request has a port or a key of it
(`Lone`), the agent is up (`Down`) and downloaded what is in the tables (`Cfg`),
unless `blame` says otherwise. Then on a port without blame rows and listener agree,
except for the one request between its agent call and its write, and how it differs
depends on the step (`Stage`); `LastChain` says that a delete about to close a
chain's port counted right. `NoStray`, `RowsServed`, `Recorded`, `Unshared` are the
four invariants of the runs. The proof found a mistake of an earlier version of the
model, in which only a common port was a contention: a request with an old copy of
a row at P1, a second that moves the row from P1 to P2, a third that moves it from
P2 to P3; the third has no port in common with the first, which then deletes or
overwrites its row.

**`GostProofs`** (`GostAssumption`; the tables a run starts with have one rule per
port). `GostSound`: `Spec => []GostInv`: the shapes of the calls, which goroutine of
`manager.Init` may run (`Relayed`), what a call of a stopped agent may still do
(`Orphaned`), `Lone` and `Down` as above, what the relay sends undisturbed
(`Resent`, which is why history may be forgotten then), which of the two services of
a port exist at each step (`Halves`), and that they are what the row says
(`Served`). Those are `CallInv`; it is not inductive while an agent starts, which
may add services for rows that have changed since it read them. `StartInv` adds why
what it does at a port is excused: as long as no agent serves, every port without
history serves its row (`Asleep`), so that what was downloaded for such a port is
passed over (`PassedOver`), a port at which a service is missing is in the history
already, and it is marked as half done between the two requests (`Adds`). It leaves
the history when both services were added, gost did not stop in between, no call is
at the port, and its row is still the one that was read. `HalvesByFault` and
`Recorded` follow. Here too three ports and three
calls showed a case the two of the run do not have, a `modifyRule` whose row a
`delRule` with an old copy deletes before it is written (`Left`).
*Observer* (`ObserverAssumption`: finitely many services). `ObserverSound`:
`ObserverSpec => []ObserverInv`, where besides the types a batch has at most one
event per service (`OneEach`), so that what is due of a service is its count and the
bytes of one event (`BytesOfOne`, `NoBytes`); the handler has a place in a batch
only while there is one; and what is behind an event whose report failed is in
`dropped` by the time gost is answered. `Observed` is `ObservedUnlessFault`.

**`DirectoryProofs`** (`DirectoryAssumption`), for `DirSpec`, so for readers and
writers together, which the run explores in slices. `DirectorySound`: `DirSpec =>
[]DirInv`. `WriteInv`: what each handler knows of the row it works on, what each
mapping and row accounts for. `ReadInv`: the rows still missing come after the pages
that were read. The place of a row is the number of rows with its `updated_at` or a
later one (`Ahead`); a page of a sorted list shows every row whose place is within it
(`PageShows` and the lemmas on ranks before it), edits only move rows forward, and a
delete or a tie is what `shaken` records. `Dangling`, `Access`, `NothingMissed` are
the invariants of the run. A list asked for in one page has at most `AllSize` rows,
which only the proof noticed.

**`TrafficProofs`** (`ReportAssumption`, `PlanAssumption`, `CalendarAssumption`; for
`PlanReset!Spec`, with reports and plans side by side). *Reports.* `Accounts`: `Spec
=> []ChargeInv`: for each connector its life and its handler agree (`Life`), and
moved bytes are charged, counted or excused at every point between load, send,
handler, answer and store (`Charge`, `Loss`, `Bill`). `NoOvercharge`, `NoLoss`,
`NoMischarge` follow. *Plans.* `PlansSound`: `Spec => []PlanInv`: whom the cron
looks at and sends has a plan, and the reset date in a row is a period of its plan
after the last reset (`Periodic`), unless the row changed while it waited in the
channel. `ResetWithin` (`ResetWithinExpiration`) and `PeriodFollows`
(`PeriodFollowsReset`) follow; the second rests on the calendar: the lemmas from
`TableFacts` to `PeriodBack` prove that going a term of 1, 3, 6 or 12 months forward
and a term and a day back ends on the day before, or up to three days later after a
29th to 31st, for every date up to a year before the `Horizon`. *Days.* That the
days of a user are within the traffic of his rules is not inductive, because the
rule is charged one step before the day: `DaysAccounted` (`Spec => []DailyInv`) adds
to the days what is owed to them (`Owed`, `Balance`), and says that a request stays
with the user who owns the port (`Charged`). `DailyWithin` follows. These are sums
over any finite set of dates and connectors. The library's inductions take
an operator, which no prover here can instantiate; `AllSubsets` is one over sets instead of operators: what a set of subsets has,
if it has the empty set and every set that it has without one element, is all
subsets. From it `TotalType`, `TotalZero` and `TotalChange` (a sum changes by as
much as the one summand that does) say all that is needed of `MapThenSumSet`.
`PlanTyped` is the type invariant, with the sums shown to the users in it.

**`ConnectorProofs`** (`ListenerAssumption`, `ExchangeAssumption`). `ListenerSound`:
`ListenerSpec => []ListenerInv`: what the loop of `UDPConnector` holds (`Held`), and
for each entry a goroutine that reads its queue or will delete it (`ServedEntry`);
`Attending` is `EntriesServed`. `Exchanged`: whose datagram each goroutine of
`UDPConnectorV2` has, and since when the buffer may hold another one (`OwnData`);
`AnsweredByRace` follows.

**`DataPathProofs`**. *Header.* `PackedIsFound` and `FoundIsPacked` say for every
address, port and datagram what `unpackAddress` and `packAddress` make of each
other's results: a packet is its `Layout`, which one writes and in which the other
finds the parts. `HeaderReturns` (`HeaderRoundTrip`) follows. *Relay*
(`RelayAssumption`: any numbers of chunks). A chunk on its way is in one of eight
places, a channel, the hands of a copy, the header's reader or the receiver
(`Cells`), and each step of the relay does one of five things to them (`Effect`): a
chunk enters, goes on to the next place, is lost, the second hop takes what came
with the header, or nothing moves (`Enters`, `Advances`, `Loses`, `Begins`,
`Passes`). That reduces every action, over two kinds of connector and one or two
hops, to facts about sequences. `RelaySound`: `Spec => []RelayInv`: the program
counters of the hops and their copies fit the path (`Shape`); no chunk is in two
places, and each is in one until an end is closed (`PlaceInv`); the counter is
between what is behind it and what was sent (`CountInv`); the places in their order
hold a run of consecutive chunks, without a gap in front of a copy that has lost
nothing (`OrderInv`): a copy that loses a chunk has ended, and what is behind it
stays there. `Charged`, `Ordered` and `NothingIsLost` are `DeliveredIsCharged`,
`InOrder` and `NothingLost`.

Only model-checked: liveness under fairness, which these provers do not do
(`RequestsReturn`, `RestartsUnlessShared`, `CloseReturns`, `SilentPeersGo`,
`ConnectionsEnd`, `IdleConnsClose`, `ClosePortEnds`, `ResetHappens`, `RelayEnds`).

## 5. Not modelled

* Go's data race on `listener` between `Listen` and `StoreConn`: the field is read
  and written in one step. `DoRequest` has no timeout: a handler waits for its
  agent as long as the agent likes, which no safety property notices.
* Full socket buffers in `Relay`; fractional rates (at a rate below 1 the first
  report of a day is charged more to the day than to the rule); the counts gost
  loses when it stops itself.
* The `protocol` column of a rule, which `modifyRule` sends but does not write
  (`rule.go:334`): after a restart the rule is opened with its old connector.
  Chain addresses are values (`Vias`): the deletion of a chain that rules of other
  nodes go through is left out. `editNode` always sets the rate, so that renaming a
  node without one sets it to 0; names and rates are left out of `Directory`.
* The registration of an agent reads the chain of each rule by a query of its own;
  the models have it in the rule's row. In native mode `InitAgent` is one step:
  nobody else opens or closes ports of an agent that does not serve yet.
* In `manager.Init`, rows of a node that is gone, which end it with an error or a
  nil pointer. `UpdateService` and `updateCa` are not called or write a file.
* Chain groups: `addChainGroup` makes a slice with as many nil entries as there are
  chains and appends to it, which gorm refuses, so that no group with a chain can
  be created; the selector is not called.
* Reading only: `listNodeChainRelationShips`, `listRule` (whose paging is
  `Directory`'s), `testRule`, `listUsers`, `getUserPlanInfo`, `listPlans`. A list
  asked for with `PageNo` -1 computes its total as the number of rows less 2000.
* Login and tokens, certificates, flags, routes, records of requests, entities, and
  the generated queries (`model/dal`, some 4,300 of the 10,700 lines): a query is
  one atomic step.

## 6. What could be added

1. `ControlPlane` over `PortRegistry` instead of its own `serve`, so that the chain
   of refinements reaches from the handlers to the sockets.
2. The protocol column in `ControlPlane`, together with the relay's listener.
