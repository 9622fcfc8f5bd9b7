# rw-node-go in TLA+

rw-node-go is the node of a proxy network: the Panel talks to it over HTTPS, and
the node runs an embedded xray-core, adds and removes its users, and reports
traffic and host statistics. This directory models the parts of the node in which
requests, goroutines and xray-core meet, and the algorithms and checks on which
they rely, together with the tool that exercises a live Panel; TLC checks all of
it, and TLAPS proves the safety properties.

- [Inventory](#inventory)
- [Modules](#modules)
- [Runs](#runs)
- [Proofs](#proofs)
- [Where the code and its documentation disagree](#where-the-code-and-its-documentation-disagree)
- [Not modelled](#not-modelled)
- [Plan](#plan)

To repeat a check: `tlc -config Lifecycle.cfg MCXrayLifecycle`; a proof:
`tlapm XrayLifecycleProofs.tla`. Definitions marked `FAULT` are not part of any
specification: each is a plausible wrong version of the definition that follows it,
and putting it in that definition's place violates a property (`mutants` in
PROJECT.json says which).

## Inventory

The node has one process-wide object per component; gin runs every request in a
goroutine of its own. What the goroutines share is `EmbeddedCore.instance`
(RWMutex), `RuntimeState` (RWMutex), the start gate of `XrayController` (Mutex),
the geocheck gate (Mutex), the network sample (RWMutex), the asset directory and
xray-core itself.

| Component (source under `src/`) | State | Operations | Hard, and what makes it right |
|---|---|---|---|
| XrayController, `internal/controller/xray_controller.go` | `startProcessing` | Start, Stop, Healthcheck | Starts exclude each other, stops are excluded by nothing; a start is a dozen critical sections with early returns. One start at a time, the gate always released, the remembered status true. |
| EmbeddedCore, `internal/xray/core.go:32-205` | `instance` | Start, Stop, IsRunning, Health, Instance | The lock is dropped while xray-core starts or closes; a start that times out leaves its instance to a goroutine. No Start and Close of one instance at once, one Close each, nothing forgotten, what is published is up. |
| Handler and stats clients, `core.go:207-470`, `users.go`, `stats.go` | none; xray-core's inbounds and counters | AddUser, RemoveUser, counters, online addresses | The instance is looked up for every call and may be closed in between; counters are read, then set to zero. |
| RuntimeState, `internal/state/runtime.go`, `inbounds.go` | status, configuration, hashes, known tags, user hashes | SetXrayStarted, SetXrayRunning, RestartDecision, Add/RemoveUserToInbound, ... | Each operation is one critical section, each handler several. What is remembered comes from one start and describes the running core. |
| Restart decision, `runtime.go:115-208` | none | RestartDecision, sameHashes | A multiset comparison by counting down; a reason found through a map. |
| HandlerController, `internal/controller/handler_controller.go` | none | AddUser(s), RemoveUser(s), DropUsersConnections, DropIPs | Not excluded by starts, stops or each other; lists gone through with failures half way. Exactly the requested accounts, nothing left of a removed user. |
| StatsController, `stats_controller.go` | none | the statistics requests | Read-and-reset against traffic and against each other; two resets of which one fails; lists put together from several reads while users and cores come and go. |
| Geodata, `internal/xray/geodata.go` | the asset directory | PrepareGeodata | Five downloads at a time, one name twice, a crash half way, stubs. A file is absent, empty or complete. |
| Geocheck, `internal/geocheck/geocheck.go` | `isRunning` | Run | A single-flight gate around a child process: one child at a time, the gate opens again once the child is gone, which the timeout sees to unless a descendant keeps its output open, a report is whole or there is none. |
| Network sampler, `internal/system/stats.go:139-353` | the previous sample, the published rates | sample, Snapshot, Close | Counters that start again, default interfaces that change, equal times. Rates never amount to more than the traffic, and are those of the default interface. |
| HTTP servers, `internal/httpapi/server.go`, `cmd/rw-node-go/main.go` | two listeners | ListenAndServe, Shutdown | One listener fails, a signal at any time: both closed, the process ends. |
| Configuration builder, `internal/xray/config.go` | none | Build | Maps and slices of a decoded document are shared, not copied. What is built is what was promised, and the Panel's document stays as it was. |
| Configuration of the node, `internal/config/env.go`, `validate.go` | none | Load, DecodeSecretKey, ValidateNodePayload | A value that is wrong, beside a default that is right. The node comes up exactly if all is sound. |
| Middleware, `internal/httpapi/tls.go`, `jwt.go`, `zstd.go`, `server.go` | none | the handshake, JWTMiddleware, ZstdMiddlewareWithLimit, ginBodyLimit | One limit, which a compressed body meets before its handler and a plain one only where its handler reads it; two conditions on one handshake. |
| Panel integration tool, `cmd/panel-integration`, `internal/testkit/panel_client.go` | none | smoke, extended-smoke, node, enable, disable | Polls a Panel that answers late, badly or not at all, and that others use. A success is one, and the tool ends. |
| Contracts, logging, plugins, conntrack, build metadata, the other tools | none to speak of | | Each call or start-up on its own. |

Interactions: `Start` reads `IsRunning` and the remembered hashes, decides, calls
`EmbeddedCore.Start`, which takes the old instance out of the slot, closes it,
launches the new one in a goroutine, waits for it or for the context, and publishes
it; then `Start` writes two parts of `RuntimeState`. `Stop` takes the instance out,
closes it and writes the status. The user handlers announce tags, look the core up,
and then call xray-core and `RuntimeState` in turn for every tag.

PROJECT.json lists the hazards of this code, each at its line, with the properties
that cover it or the reason why none does.

## Modules

| Module | Models | EXTENDS / composes |
|---|---|---|
| `RestartDecision` | `RestartDecision`, `sameHashes` as operators | |
| `RuntimeState` | status, configuration and hashes; one action fragment per critical section | RestartDecision |
| `EmbeddedCore` | the slot and its lock, `startInstanceWithContext`, the goroutine behind a timed out start; action fragments | |
| `XrayLifecycle` | the start and stop handlers: program counters, the gate, the order of all steps | EmbeddedCore, RuntimeState |
| `XrayLifecycleProperties` | what the handlers promise; the inductive invariant; the refinement mappings | XrayLifecycle |
| `InstanceSlot`, `SingleFlight` | abstract specifications: a slot of instances that live once, a gate that turns away | |
| `UserHandlers` | the user handlers with known tags and user hashes, against starts and stops in outline | |
| `Geodata` | `PrepareGeodata`: goroutines, semaphore, files, kills | |
| `StatsCounters` | the statistics handlers that read and reset, and the stats client, against traffic and restarts | |
| `StatsReads` | the statistics handlers that only read: online users, their addresses, uptime | |
| `Geocheck` | `ExecRunner.Run`, `begin`, `end`, `limitedBuffer` and the handler, over an outline of os/exec and the child | SingleFlight |
| `ServerLifecycle` | `ListenAndServe`, `close`, `Shutdown` and `main`'s select, over an outline of net/http | |
| `NetworkSampler` | the goroutine of the sampler, the default route, the rates | |
| `ConfigBuilder` | `Build` and its helpers, on a heap of shared maps and slices | |
| `NodeSetup` | from the environment to the main API, and a request on its way to a handler | |
| `Algorithms` | a machine of one step that computes a decision, a setup or an answer; the reference definitions | RestartDecision, NodeSetup |
| `Building` | a machine of one step that builds a configuration; the reference definitions | ConfigBuilder |
| `PanelIntegration` | the commands of the tool and its client, over an outline of the network and the Panel | |
| `MCStandalone` | the sampler, the reads, the algorithms and the builder, which do not interact, for one run | NetworkSampler, StatsReads, Algorithms, Building |
| `MCProcesses` | the servers and the geocheck runner, which do not interact, for one run | ServerLifecycle, Geocheck |
| `MCUserScenarios` | two scenarios of the user handlers for one run | MCUserHandlers |
| the other `MC...` modules | instances for TLC | |
| `XrayLifecycleProofs`, `UserHandlersProofs`, `GeodataProofs`, `StatsCountersProofs`, `ServerLifecycleProofs`, `GeocheckProofs`, `PanelIntegrationProofs`, `StandaloneProofs` (of NetworkSampler, StatsReads, Algorithms and Building) | the proofs | |

**XrayLifecycle.** `pc[h]` is where a handler is; the labels are the gaps between
two critical sections, or between a call and its return. `BeginStart`/`RejectStart`
are `tryBeginStart` (one critical section each); `ReadCoreRunning`, `Decide` and
`CheckHealth` are the reads on which the core may be kept, each a step of its own,
because a stop may run to its end between any two. `TakeOld` is the critical section
of `EmbeddedCore.Start` that empties the slot, `OldClosed` the return of `Close`,
`Launch` the `go` statement, `StartSucceeded`, `StartFailed`, `StartTimesOut` the
branches of the `select`, which may pick the timeout even if the start has
returned. `RecordStarted`/`RecordProtocols` and the four `Sync` steps are the
critical sections that follow. An instance carries the name of the start that builds
it, `startCall[i]` and `closeCall[i]` are what xray-core is doing with it, and
`closers[i]`, which the code does not have, records who has called `Close`. A start
request is handled once and then done. Parsing, geodata and the configuration
builder either fail or succeed before anything is touched (`PrepareFails`,
`PrepareSucceeds`).

**UserHandlers.** `job[r]` holds the locals of a request and the label of its next
step. A step is one critical section of `RuntimeState.mu`, one lookup of
`c.instance` (`RemoveLooks`, `AddLooks`, `LookUpIPs`), or one call into what was looked
up (`RemoveActs`, `AddAccepted`, `AddRefused`, `CaptureIPs`), which may belong to an
instance that has been closed since. `LookForStats` is `statsClient`, the first of the two
looks that `currentUserIPs` takes at the core. `AnnounceAffected`, `Announce` and
`NextInbound` are the three places that make tags known before the users are added. The
users of a request each have tags, credentials and a previous version of their own; the
items of an `AddUser` carry one name, as the code removes that of the first. The start and stop handlers appear as users see
them: `CloseCore`, `PublishCore`, and the two steps in which a start resets the known
tags to those its hashes name, which may be any, and then makes those of the configuration
known (`RecordStarted`, `RecordProtocols`). Credentials are a version, and the hash recorded for a user is
the pair of user and version. `sessions` are connections, kept by xray-core and cut
by conntrack. `disturbed` records, for the properties only, whether anything else has
touched the instance or the users of the request while it was at work. Lists are
gone through in any order, which covers the orders the code uses.

**Geodata.** `step[a]` is where the goroutine of an asset is, `sem` the channel of
tokens, `temp[a]` its temporary file and `disk` the asset directory. A start waits
for its call and starts exclude each other, so there is one call at a time. A file is
what the last download put there, or what was there before: nothing, an empty file,
one that came with the node, a directory. A download is a number of blocks out of
those the server sends; `Copy` adds one. Of what may fail, `RequestFails`,
`DownloadFails` and `StubFails` are always possible; `os.Remove` of a temporary file
is assumed to succeed. `Crash` is the end of the process between two steps, after
which a new call starts on the same directory. Three things the code does are in the
model and no property forbids them: a body over the limit is cut and stored as if it
were whole; an answer without a body makes an empty file, over a full one if another
asset of the same name has just stored it; temporary files of a killed process stay.

**StatsCounters.** A counter is the set of units of traffic it has counted since it
was reset, so that each unit can be followed into the answers. `Read` and `Reset`
are `counter.Value()` and `counter.Set(0)`, two steps; `Lookup` is `manager()`, once for
each call of the client, of which the combined statistics make two (`AfterCall`), the
second even if the first has failed. A counter belongs to an instance, and a request
goes on with the one it has looked up. `Shown` is the filter that leaves users without
traffic out. `late`, `prior`, `zeroed` and `alongside` are history for the properties.
The handlers with a tag and those for all tags differ in the counters they visit only.

**StatsReads.** `query` is the request and its locals. `CheckCore` is `statsClient`, and
`LookUpManager` the lookup that every call makes again; what follows reads the maps of the
instance that was met, closed or not. `GetAllOnlineUsers` names the users who are online
(`NameUser`), then `onlineIPLastSeen` looks each of them up (`ReadUser`). `SysStats` takes
the time (`ReadNow`) before `uptime` takes the lock (`ReadUptime`). Requests that only read
change nothing, so that one at a time is enough; it meets starts, stops, users and the
clock. `seen`, `throughout` and `alone` are history: who was online at some moment of the
request, who at each, and that no start or stop came.

**NetworkSampler.** `pc` is where the goroutine is in `run` and `sample`. Looking up the
default interface, the counters, the time, and the critical section at the end are a step
each (`Resolve`, `ReadCounters`, `ReadClock`, `Store`), and so is `clear`; the first two
may fail. `TickerFires` and `SeeDone` are the branches of the `select`. `routes`,
`present`, `counter` and `clock` are the host's: traffic (`Carry`), new routes
(`RoutesChange`), interfaces that go and come back with counters at zero (`Replug`) and
time (`Advance`) come between any two steps. A line of the route table is its interface,
whether it has enough fields, whether it is a default route, and its metric, an integer, or
that the metric is no number. A rate is the whole part of the quotient: that `perSecond`
divides in float64, and caps what no uint64 holds, is left out. `carried` and the variables named after it record what an interface
has really carried; `settled` and `steady` count the samples since the host last changed.
Readers take one value under one lock and are left out.

**ConfigBuilder.** A heap is a sequence of maps and lists, and a value is a scalar or a
place in it, as a Go map or slice is shared by whoever holds it. `Clone` makes all objects
anew, `EnsureArray` copies a slice and shares its elements, `Put` writes to whatever is
there. `cloneValue` descends from one value, by recursion; `Clone` copies the heap as a
whole, each reference moved along, and answers with the place of the copy. The same lies
behind that place, because a decoded document refers to an object once at most
(`IsDecoded`); the other copies are referred to by nothing that is in use. One `SetX` is one
part of `Build`: it takes a map with `EnsureMap`, sets its keys, and stores it where the
code does. `Tree` gives the document that a value stands for, down to `Depth` objects;
deeper than that, all objects look alike.

**NodeSetup.** `Load` reads one variable each with `EnvPort`, `EnvOptionalPort`,
`EnvNonNegativeInt64`, `EnvBool` and `EnvName`; `Refused` is an error. A variable is
`Blank`, `Malformed`, or its value; `LongZero` is a zero like "00" or "+0", which a limit may
be, and the optional port, for which the code looks for "0", may not. The secret is what
its checks tell apart: it decodes, it is complete, the certificates parse, are in time, are
signed by whom they should be, the keys match. `Handle` is a request on its way: the
handshake with its name and certificate, the token, the decompression with its limit
(`ReadDecoded`), and the handler that binds the body (`Serve`), in this order. A body is its
size, whether it can be read to its end, and where in it the object ends that the handler
wants. `ginBodyLimit` keeps no request from its handler: a plain body over the limit is met
by the handler that reads it (`Binds`), which answers with 200 or 500 as it is written
(`BindFailed`); one that reads none is served, and so is one whose object ends before the
limit. Certificates and tokens are good or not: no cryptography is modelled.

**Algorithms** and **Building.** A behaviour is an input and, one step later, the result
that the code computes from it. The properties compare it with definitions that go another
way: a permutation for `sameHashes`, one condition on all variables for the setup, one on
the request for the middleware, trees without sharing for `Build` (`Promised`, and `Tree` to come from a heap to a tree).

**PanelIntegration.** `pc` is what the tool waits for: an answer to one of its requests, or
the next poll. `SendFor` is `Client.Do`; the Panel may serve the request (`Serve`), answer
with an error though it has acted (`ServeBadly`), or be cut off (`ConnectionBreaks`); an
action that the tool has given up on may still be carried out (`StrayArrives`). `GiveUp` is
the timeout of the HTTP client or the end of the context. The Panel connects to its nodes
in its own time (`LinkChanges`), others enable and disable nodes (`Meddle`). Time goes in
ticks: what the tool does in no time is done before the next. `carried`, `reached` and
`lastAway` are history: the action was carried out, the node was as wanted since the
last request was sent, and the last time at which it was not.

**ServerLifecycle.** `las` and `main` are where `ListenAndServe` and `main` are,
`serving[s]` where the goroutine of a server is. net/http is external: `TakeDown` is what
`Shutdown` and `Close` do at first, which does not close a listener that has not
been handed to `Serve` yet; `Serve` closes it when it is refused (`ServeEnds` from
"spawned"). A request is a connection of its own; idle connections are left out.
`Exit` cuts what is not answered. `Deadline` is the context of ten seconds.

**Geocheck.** `pc[r]` is where a request is in `Run`, the other functions are its locals
and its child. os/exec and the child are external: the child writes its report block by
block into a pipe (`ChildWrites`), a goroutine of os/exec copies what it finds there in
one piece (`Copy`, which is `limitedBuffer.Write`), stops at the first piece that does not
fit, and otherwise ends with the pipe (`CopyEnds`). `Kill` is os/exec when the context is
done, which may come too late for the child and in time for the error. `Wait` is the
return of `cmd.Run`, for which both the child and the copying must have ended, and all
that `Run` makes of the result. `Timeout` and `ClientLeaves` end the context; whichever
error comes then is answered as a timeout (`Error`), as the code has it. `End` also
empties the locals of the run. No process but the child holds the pipe: `cmd` has no
`WaitDelay`, and one that the child left behind would keep `cmd.Run`, and the gate, for as
long as it lives.

## Runs

| Run | Instance | Size | Shows |
|---|---|---|---|
| `standalone` | the sampler on 2 interfaces with 3 route tables; reads of 4 kinds over 2 users, 3 connections and 2 instances; the algorithms on all inputs within the bounds | 3.3 million states | rates are real and those of the default interface; lists and uptime are true; the restart decision, the builder, the setup and the handling of a request agree with their references |
| `largest_limit` | the same instance | counterexample | see below |
| `lifecycle` | 3 starts, 2 stops, 2 configurations, symmetric | 3.1 million states | safety of the instances and of what is remembered |
| `lifecycle_progress` | 2 starts, 1 stop, 3 configurations, fair | 155,000 states | every request is answered, no instance leaks, both refinements |
| `failed_start_status`, `stop_status` | 2 starts and 1 stop; 1 and 1 | counterexamples | see below |
| `user_requests` | one request of every kind with 2 addresses and each outcome of a drop, or 2 requests at once on 2 users; 2 inbounds, 2 instances, symmetric | 2.9 million states | adds, captures and drops; known tags under restarts; requests on different users do not disturb each other |
| `stale_sessions` | 1 re-registration, 2 addresses | counterexample | see below |
| `geodata` | 4 assets, 1 invalid, 2 of one name, bodies of 0, 2 and 3 blocks with a limit of 2, 2 tokens, 2 calls, 1 kill, fair | 467,000 states | what is on the disk at any moment, and that the call returns |
| `stats` | 2 requests out of six, a user with two directions, 2 inbounds, 1 outbound, 2 units, 2 instances, symmetric | 3.3 million states | traffic is neither lost nor told twice |
| `processes` | the servers with 3 connections; 3 geocheck requests, reports of 1 to 3 blocks with a limit of 2, a pipe of 2 blocks; fair | 230,000 states | the process ends when it must, and as it must; one child at a time, whole reports, the gate opens again, refinement |
| `panel_integration` | every command, 2 nodes, hints that mean one and both, timeouts of 4, 2 and 2 ticks, 2 changes by others, fair | 360,000 states | a success is true, one in time is not missed, the tool ends |

*Bounds.* Most bounds are the size of a set of constants. Three starts
let one be at work, one be turned away and one have left an abandoned instance
behind; two stops race each other and either start. Two starts and a stop are the
least for a refinement step of each kind under fairness, where symmetry cannot be
used. Two versions, tags, users and addresses are what the properties on users tell
apart: the old and the new, the requested and the other. Two instances allow a
request to begin on one, act on it after it was closed, and meet the next. In `user_requests`, there are connections only while no request is at work, or one on its
own that looks at them (`add`, `dropUsers`, `dropIPs`), and two requests at once find no
addresses to drop (`OnItsOwn`, `TwoAtOnce`): removals and bulk adds do not look at
connections, and `CapturedDoNotSurvive` is about the one request that captures. Three
valid assets for two tokens make one wait; a second call (`MaxCalls`) meets the files,
the stubs and the remains of the first, which may have been killed (`MaxCrashes`); bodies
are below, at and above the limit. Two units of traffic are one that a request has read
and one that comes late. Two requests can be drained at one server while a third is at the
other. Of three geocheck requests one is inside, one is turned away and one comes next;
reports are below, at and above the limit, and the largest does not fit into the pipe.

In `standalone`, `MaxTime` is two ticks, which are one second (`SecondTicks`): samples at
the same time, and rates over half a second and over a whole one.
An interface carries up to two units (`Carriable`), so that a counter can grow, start again
and grow to less than it was. `MaxClock` and `MaxUptime` let an uptime be negative, zero,
the largest, and larger. Lists of up to three inbounds are the least in which an entry that
occurs twice is exchanged for another. Documents have every kind of value, or none, at each
place the builder touches, and are compared to a `Depth` of five objects: `level0` is the
fourth on the way down, and the fifth what it holds. Of the environment any two variables are set to anything; ports
go from -1 to `MaxPort` + 1, the limits to `MaxInt`, which is 4 and stands for the largest int64: bodies and the
objects in them end below, at and above every smaller limit. In
`panel_integration`, the timeouts leave room for two polls before the deadline and one that
ends after it; others change a node twice (`MaxMeddling`), so that it can be taken away and
given back; intervals (`MaxInterval`) are none, less than and as long as a request.

*Deadlock* is checked in `lifecycle` and `lifecycle_progress`, where the finished state
stutters in an action of its own. In the other runs the end is a state without successors: requests are handled
once and instances are not used again, the calls of `Geodata` are bounded, in `processes`
every geocheck request has been answered or the process has ended, in
`panel_integration` the tool has, in `standalone` the result is there or the sampler has
been closed and the bounds are reached.

*Fairness.* `FairSpec` has weak fairness for the steps of a start and of a stop once
begun, and for the goroutine behind a timed out start: the Go scheduler runs every
goroutine, the timer of `startInstanceWithContext` fires, mutexes are held for a few
instructions only, and `Close` of xray-core returns. Nothing makes a request arrive,
and nothing makes xray-core's `Start` return: `RequestsComplete` holds because of
the timeout, `NoLeak` says only what happens once it has returned. If `Close` hung,
the code would hang with it. In `geodata` each goroutine and `wg.Wait` are scheduled;
a server may never answer, but the download has a timeout of its own, which is
`RequestFails` or `DownloadFails`. In `processes` the goroutines, `main` and the timer are
fair; requests need not be answered, servers need not fail, signals need not come
(`ServersFairness`, asked of the behaviours of the servers, as `Fairness` is of those of the
runner). For a geocheck the goroutines of the node and of os/exec are fair, and so are the timer and
the kill; the child may hang at any point, so that `GateOpensAgain` rests on the timeout. In
`panel_integration` the tool is scheduled and time passes; nobody has to answer, so that
`ToolEnds` rests on the timeouts.

*Properties worth a remark.* `CallsInOrder` (no `Start` and `Close` of one instance at
once, the old one closed before the new one is launched), `OwnedByOne` (closed by one, and
never forgotten) and `PublishedIsUsable` together say that `startInstanceWithContext` hands
each instance to exactly one owner whichever way its `select` goes.
`MemoryDescribesInstance` is why `KeptOnlyIfUpToDate` holds although the decision, the
hashes and the health check are read at three moments. `StatusMatchesCore` covers the
histories without a stop, and the counterexamples show why it cannot cover more.
`KnownTagsCoverInbounds` is what lets the user handlers go through `KnownInboundTags`
instead of asking the core; `AddedExactly` and `RemovedCompletely` rest on it.
`FilesChangeWhole` is an action property, because what xray-core may read is every state of
the disk, that between a kill and the next call included. `ReportedTwiceOnlyAtOnce` and
`ResetIsReported` say exactly what reading and resetting in two steps costs: traffic counted
between the two is lost, and two requests at work at once may report the same; nothing
else. `CleanExit` excepts a server that fails while the other is drained: `close` then cuts
requests, and `main` does not look at the error any more.

`ReadsAreTrue` says how far a list that is put together from several reads may be off: it
names nobody who was not online at some moment of the request, and misses nobody who was
throughout, unless the core was replaced. `RatesWithinTraffic` says that rate times time is
never more than what the interface carried between the two samples, however often its
counter went back. `SettledIsShown` speaks of a host at rest, two samples long: the code
keeps the last rates while the default interface is a new one, and one that changes at
every sample would keep a bygone rate published. `BuiltRightly` has two parts, of which the
second, that the document is untouched, is what the heap is there for.
`LimitIsKept` says which requests reach their handler, which are served, and with what
status the others are answered; a compressed body is held to the limit as a whole, a plain
one only as far as its handler reads. It excepts the largest limit for compressed bodies,
which is what `LargestLimitServes` and its counterexample are about. `NotGivenUpOnSuccess` says that
the tool looks at an answer before it looks at the clock.

## Proofs

All theorems hold for any sets of constants, under the assumptions the modules name:
`DistinctNames` (starts, stops, the background goroutine and the nil instance are
different things), `DistinctConfigs` (no hashes and no configuration are not values a
request carries) and `ConfigsAreStarts` (a configuration is named by the start that
carried it); for the users `InputsOK` and `ConfigsOK` (inputs and configurations are
made of the users, tags, versions and addresses at hand), `NotEmpty` and
`DistinctNothing` (no version and no instance are none); what the others assume is said
with them.

**XrayLifecycleProofs.** `Invariance` proves `IInv`, which is `TypeOK` with three
parts, none inductive alone. `GateInv`: whoever is past the gate is alone, and the gate is set
exactly then. `CoreInv`: for each label what `startCall`, `closers`, `watcher` and
the slot may be, so that the branch that closes an instance is known to be its only
owner (`LifeInv`), whoever waits for `Close` has called it (`HeldInv`), and the slot
is empty while a start builds (`SlotInv`). `MemoryInv`: the remembered
configuration is that of a start past `SetXrayStarted`, whose protocols are there or
about to be; and a start about to check the core's health still matches the
remembered hashes, which needs the gate. Each part is preserved action by action
(`TypeStep`, `GateStep`, `CoreInvStep`, `MemoryStep`). From it follow `TypeCorrect`,
`CoreCallsInOrder`, `InstancesOwned`, `PublishedIsUp`, `MemoryIsTheInstances`, whose parts
are lemmas of their own, and, for the action property, `KeptIsUpToDate`.

`StatusMatchesCore` speaks of moments between starts, and needs to know what happens during
one. `StatusInv` adds, as long as no stop has come, that the status is wrong only at the
labels from the closing of the old instance to the writing of what became of the new
(`Unrecorded`), and what each branch of a failed start may conclude from the `IsRunning` it
has read; `StatusFollows` is proved from it. `FailedLaunchInv` says that between a failed
launch and its answer nothing publishes an instance, which needs `GateInv`: the only one who
could is another start. `FailedLaunchIsDown` follows.

`RefinesInstanceSlot`: with `slot <- instance` and the life
of an instance read off `startCall`, `closeCall` and the slot, each step is a step of
`InstanceSlot` or a stutter. `RefinesSingleFlight`: with the one start past the gate
as the caller inside and the starts answered "in progress" as those turned away, each
step is one of `SingleFlight` or a stutter. Both use `IInv`.

**UserHandlersProofs.** `UserInvariance` proves `UserInv`: the types,
`RecordedAtKnownTags`, and `NewestKnown`, which says of the newest instance, running
or not, what `KnownTagsCoverInbounds` says of the running one; the weaker form is not
inductive because a start publishes an instance before it records it. Requests
are handled by three lemmas, for steps that change only the jobs, only what is
remembered, or only accounts. From it come `UserTypeCorrect`, `InboundsAreKnown`
and `RecordedAreKnown`.

What a request has achieved at its answer is proved with `RequestInv`, in two parts.
`PlaceInv` holds of every request and says which kinds of request can be at a label and what
their locals are there. `EffectInv` holds of a request that nobody has disturbed: it is
alone with its users and the instance does not change (`AloneInv`); the users it is through
with are removed, or renewed, at every tag (`RemovedInv`, `AddedInv`), the one at work at
every tag but those still to do (`RemovingInv`, `AddingInv`); what it will answer counts
those who are served (`CountInv`); and once the accounts are gone no session with old
credentials comes back on an address that was captured (`CapturedInv`). That a tag which was
not known when the tags were read has no inbound is `NewestKnown` again. Two lemmas carry
the proof: `EffectStays`, for the steps of others, and one lemma per step of the request.
The theorems are `AddsExactly`, `RemovesCompletely` and `CapturedAreGone`.

**GeodataProofs.** `GeodataInvariance` proves `GeodataInv`: the types, that `sem` counts
the goroutines at work (for any finite set of assets, by lemmas on cardinality), that
exactly those that copy have a temporary file with a part of their own download, and
what kills have left. `FilesAreWhole` needs the last but one for `Store`,
`TempFilesAreBounded` the first two, since a temporary file is that of a goroutine with
a token. It assumes `GeodataAssumption` and `DistinctContents`.

**StatsCountersProofs.** `StatsInvariance` proves `StatsInv`. `PlacesInv`: a unit is not
counted yet or on one counter. `VisitOK`: a counter that a request has yet to visit, in
this call or the next, has no value in its answer, for which the two calls of the
combined statistics must visit different counters. `TakenOK`: what a resetting request
has read is on no counter any more, but for the one it is about to reset. `ResetOK` and
`CompleteOK`: what was reset has been read or came late, and what was there at the lookup
has been read, was taken by another, or is yet to be visited. `OverlapInv`: two requests that
were not at work at once have read nothing in common. It assumes `InputsTyped` and
`SomeCounter`.

**ServerLifecycleProofs.** `ServerInvariance` proves `ServerInv`: each goroutine that has
returned has sent one result and closed its listener (`ResultsInv`), `ListenAndServe`
returns before it has started any or with both results (`ListenInv`), a server ends
because it failed or was taken down, which takes an error or a signal (`ErrorInv`), and
`main` leaves no request behind at a server it has drained (`ShutdownInv`). `EndsClean`
rests on the last two: without them `ListenAndServe` might return nil unasked.

**GeocheckProofs.** `GeocheckInvariance` proves `GeocheckInv`. `GateInv`: the gate is closed
exactly when a request is inside, and there is one at most. `ChildInv`: a child lives only
while its request waits for it, from which with `GateInv` follows `ChildrenApart`.
`OutputInv`: what is in the buffer has been written, all of it if the copying has ended, and
the copying was refused only for a report that is too large; from which `ReportsAreWhole`.
`RunnerRefinesSingleFlight` is a second implementation of `SingleFlight`, with the request
inside as the caller inside and those answered "already running" as those turned away. It
assumes `GeocheckAssumption`.

**PanelIntegrationProofs.** `PanelInvariance` proves `PanelInv`. `StageInv`: a request is
under way or answered exactly at the labels that wait for one. `PollInv`: the tool polls
only after an action that was carried out, and an answer that has the node as wanted was
true after the request was sent; from which `SuccessTold`. `AwayInv` relates four moments,
the last at which the node was not as wanted, the sending of the poll, the wake and the
present, with the client's timeout and the interval between them; from which
`GivenUpRightly`. It assumes `PanelAssumption`: any timeouts, intervals, nodes and hints.

**StandaloneProofs**, the sampler. `SamplerInvariance` proves `SamplerInv`: the types, the
property itself, and three times the same fact about two readings of a counter
(`GainedAtMost`): what it has gained is no more than what its interface has carried, as a
counter that starts again only loses. `PreviousInv` says so of the previous sample and now,
`ReadInv` of the reading at hand and now, `BetweenInv` of the previous sample and the
reading at hand, if they are of one interface. `Store` turns `BetweenInv` into
`RatesWithinTraffic` by `RateBound`: a difference, times the ticks of a second, divided and
multiplied again, has not grown. The clock may stand still, and jump.

`RestIsShown` rests on `DefaultFound`: for every route table, `DefaultInterface`, which goes
through the lines as the code does, names the interface that `IsDefault` describes. This is
an induction over the table, and its hypothesis is a loop invariant (after n lines, what is
best is the first of the best among them). The library's induction theorem takes an
operator, so `NatSetInduction` states induction for a set, which `LeastExists` gives (a set of
natural numbers has a least one, from `NatLessThanWellFounded` and `WFMin`). `RestInv` then
says what a sample knows that was taken since the routes last changed (`FreshInv`) and what
the samples have kept since (`KeptInv`). It assumes `SamplerAssumption`.

**StandaloneProofs**, the reads. `ReadsInvariance` proves `ReadsInv`: whoever is served was
put on record, an instance being published once (`SeenInv`); a request that meets no start
and no stop reads the core that has served those connected throughout, and they are on its
list or still to be looked at (`ThroughoutInv`); the clock does not go back (`UptimeInv`).
From it `StatisticsAreTrue`. It assumes `ReadsAssumption`.

**StandaloneProofs**, the algorithms. The invariant is only that the result is what the code
computes from the input; the work is in the lemmas, which hold for every input.
`RestartsAreDue`: `SameHashesDecides` says that the counting loop accepts a list exactly if
it is a permutation of the other. A permutation injects the places of an entry that have
been counted into its places in the other list (`PermutationIsCounted`); conversely the n-th
place of an entry is taken to its n-th place in the other list, the numbering being a
bijection for each entry (`CountedIsPermutation`). What is blamed is treated by
`BadIsAbsent` and `NoneBad`: if every previous entry were found unchanged, the two lists,
of one length and with distinct tags, would be permutations of each other by the pigeonhole
principle, and there would have been no restart. `ComesUpIfSound` goes variable by variable
(`PortRead`, `LimitRead`, `FlagRead`, `NameRead`; `FieldsRead` puts them together) and then
through the checks of the secret (`AcceptsAll`). `RequestsAreHeldToTheLimit`
splits the handshake by its mode (`BarredIs`), a compressed body by how it compares with the
limit and one more (`ReadIsAll`: what is not turned away was read to its end), and what the
handler makes of it by whether it binds (`ServedIf`, `Outcomes`); `HandledRight` puts them
together. `RestartsAreDue`, `ComesUpIfSound` and `RequestsAreHeldToTheLimit` assume
`AlgorithmsAssumption` and `SetupAssumption`: inputs are of the types the code reads, what
stands for no value or an error is no value, and the default ports differ. The tag of an
inbound may be empty, as the one of a decision that names none is: the property asks that
what is named differs, not that the name is not empty.

**StandaloneProofs**, the builder. `BuildsAsPromised` is `BuiltRightly` for any decoded
document; of the behaviour it needs only that what was built is `Build` of the order
(`BuildingInv`), and the rest is about heaps.

- *The document stays.* Every heap that a build goes through `Extends` the document: its
  places hold what they held, and a later object refers to later places only. Copying
  (`Cloned`), adding (`Added`) and writing to a later place (`Stored`) keep this.
- *What is written to does not matter to what was copied before.* `Ready(doc, Q, heap, A, s)`
  says that the copies of the places Q of the document, moved by s, are on the heap as they
  were made, and apart from the places A that are still written to. `MapMade` is
  `EnsureMap` in these terms: it yields one map, of the values of the document moved by some
  other distance, and Q is ready there. `Level0Made`, `LevelsMade`, `SystemMade`,
  `StatsMade` and `PolicyMade` go through `Build` with it, part by part; each says where its
  map is and what it holds (`Level0Shown`, ..., `BuiltShown`), and a lemma each (`...Stay`)
  that later writes leave it so.
- *The parts do not meet.* That an object is referred to once (`HeldOnce`) gives that the
  maps the build makes anew, the list of the inbounds and the inbounds it writes to are
  different objects (`TouchedApart`), and that all the others (`Rest`) lead to each other
  only (`RestClosed`). Without it, setting a port could change the policy.
- *Trees.* Copies of a closed set of places are the same trees as the places (`CopiesAlike`,
  by induction on the depth with `NatSetInduction`), and so the tree of each part is the
  promised one (`FlagsTree`, `Level0Tree`, `LevelsTree`, `PolicyTree`, `InboundsTree`,
  put together in `ConfigTree`). `ConflictFound` is the same for the tags.

It assumes `BuildingAssumption`: documents are decoded JSON and ports are natural numbers,
the tags of the node are not what stands for no conflict, and trees show at least the four
objects down to `level0`. `Trees` and `Clone` are functions where the code is recursive,
because the prover accepts no recursive operator.

Two things are written with the prover in mind: updates of several fields of
`job[r]` go through `Continue(r, [job[r] EXCEPT ...])`, and the labels of a request
are introduced by a lemma instead of being expanded in each leaf.

*Only model-checked*: `RequestsComplete`, `NoLeak`, `CallReturns`, `EndsWhenItMust`,
`GateOpensAgain` and `ToolEnds`: they are liveness, which is out of the prover's reach.

## Where the code and its documentation disagree

1. `failed_start_status`. `docs/development.md:226` says the cached health follows
   the real state of the core after a failed start. `syncStartFailureState` reads
   `IsRunning` and writes twice; a stop that fits in between is overwritten, and the
   healthcheck says that the stopped core is up.
2. `stop_status`. `TestStopXrayClearsHealthcheckInternalStatus` expects the cached
   status to be false after a stop. A stop that runs to its end between the
   publication of an instance and `SetXrayStarted` is overwritten by the start.
3. `stale_sessions`. The comment in `AddUser` says that sessions with the previous
   UUID do not survive a re-registration. The addresses are captured before the
   account is removed, and a session opened in between from another address is not
   dropped.
4. `largest_limit`. `README.md:133` calls `REQUEST_BODY_LIMIT_BYTES` the limit of a request
   body, and `docs/development.md:36` takes any non-negative integer. For the largest int64,
   `ZstdMiddlewareWithLimit` adds one to it, the sum wraps around, and every compressed body
   is read as empty; its handler cannot bind it, though it is within the limit. The same body
   sent plain is served.

## Not modelled

- The routing rules of `internal/xray/routing.go`, and xray-core itself: no route of the
  node leads to the former; the latter appears as the calls the node makes.
- `SnapshotStats` and the memory numbers of `SysStats`: values that are read one after the
  other, related by nothing.
- `InternalController`, `PluginController` and the other handlers that read one thing under
  one lock, or answer with a constant; the table of routes, the guard of the internal port,
  the envelope of answers, the recovery from panics.
- Cryptography: certificates, keys and tokens are good or bad, and so is the derivation of
  the name a client must ask for.
- Conntrack and net-admin: system calls, here their outcomes (`DropOutcomes`).
- Contracts, logging, build metadata: types, layout and constants.
- `cmd/contract-diff`, the build and the test tools: they compare and print files.
- Panics of xray-core, and the process ending between two steps: the node persists
  nothing but geodata files, and `Geodata` has its kills.
- Contexts that end while a user handler is at work: xray-core's inbounds do not look
  at them, and a conntrack call that fails because of one is an `error`.
- A process that inherits the output of a geocheck child and outlives it.

Some of what the code does is in the models though no property forbids it, because nothing
in the repository says what should happen: a stop during a start closes nothing and the
start goes on to publish its instance; a `Close` that hangs keeps its request; a user may
be added to an instance that has been closed since it was looked up; a body over the limit
of geodata is cut and stored; the combined statistics may fail after the first of their two
resets; `main` may see a signal before it sees that a server has failed.

## Plan

The invariants and the action properties that the runs check are proved. What is left is
liveness, with the liveness of `InstanceSlot` and `SingleFlight` among it, which stays with
TLC; and the parts that [Not modelled](#not-modelled) lists.
