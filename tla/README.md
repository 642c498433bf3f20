# A TLA+ verification of fleetmind

fleetmind is a daemon that answers questions about one host over MCP and, in
fleet mode, keeps a full mesh with its peers on other hosts: every node knows
and follows every other one, without a coordinator. This directory holds TLA+
modules that model it, TLC configurations that check them on small instances,
and TLAPS proofs of the most important results for every size.

1. [Inventory](#1-inventory)
2. [Modules and how they follow the code](#2-modules-and-how-they-follow-the-code)
3. [Runs](#3-runs)
4. [Findings and observations](#4-findings-and-observations)
5. [Theorems](#5-theorems)
6. [Seeded faults](#6-seeded-faults)
7. [Not modelled](#7-not-modelled)
8. [Plan](#8-plan)

## 1. Inventory

| Component | State | Operations | Talks to |
| --- | --- | --- | --- |
| Registry (`internal/fleet/registry.go`, `peer.go`) | own record and map of remote peers under `mu`; subscriber channels under `subMu` | `Upsert`, `Remove`, `PruneStale`, `TouchSelfHeartbeat`, `Subscribe` and its cancel, `Broadcast`; readers `Roster`, `Has`, `Self` | called by the handlers, the manager and the fleet tools |
| HTTP handlers (`handlers.go`) | one goroutine per request | `joinHandler`, `peersHandler`, `eventsHandler` | registry; other nodes' clients; the web console |
| Manager (`manager.go`) | `streams` (node to cancel function), `localEvents` | `Run`, `bootstrap`, `retryBootstrap`, `heartbeatLoop`, `pruneLoop`, `localEventLoop`, `ensureStream`, `cancelStream`, `runStream`, `handleRemoteEvent` | its registry; other nodes through the client |
| Client (`client.go`) | none | `Join`, `StreamEvents` with an SSE parser, URL normalisation | other nodes' handlers |
| Identity (`id.go`) | a random identifier per process | `NewNodeID` | registry |
| Server (`mcpserver/server.go`, `auth.go`, `token.go`) | listener, token file | `Serve`, `buildFleet`, `EnsureToken`, bearer check | starts everything above |
| Fleet tools (`tools/fleet.go`, `fleet_query.go`) | none | `list_fleet`, `fleet_query` (fan-out to the roster) | registry; other nodes' MCP endpoints |
| Command runner (`exectool`) | a child process with bounded output and time | `Run` | host tools |
| Apt database (`aptdb/*`, `tools/apt.go`) | none; reads files that apt and dpkg replace | `InstalledPackages`, `AvailablePackages`, `UpgradablePackages`, the stanza and Release parsers, version order | host tools |
| Boot analysis and systemd (`tools/boot.go`, `sysd`, `tools/systemd.go`, `tools/logs.go`) | none; reads a running systemd and its journal | `walkCriticalChain`, `composeBootTime`, unit and timer lists, journal and kernel log | host tools |
| Host readers (`procfs`, `sysfs`, `tools/*`) | none; read a running kernel | lists and reports | MCP |
| Web console (`webui/static/app.js`) | roster, event stream, poll timer; MCP session; message log of the chat | `connect`, `loadInitial`, `handleFrame`; `rpc`, `ensureInitialized`; `send`, two drivers, Clear | handlers, MCP, LLM provider |
| Entry point (`cmd/fleetmind`, `snapconf`), packaging (`snap/`) | configuration | flags, environment, snap options | server |

**What is hard.** Nobody owns the roster: every node has its own copy, changed
by joins, gossip, heartbeats and eviction, all of which arrive over
independent connections and overwrite each other. Inside a node the two
mutexes of the registry are never held together, so a change and its
announcement are separate. Buffers drop events silently. Streams break by
themselves (the HTTP server's 30 s `ReadTimeout` also ends an event stream) and
replay the sender's whole roster when they come back. A restarted daemon has a
new identity on its old address. Streams live in a tree of contexts, and
cancelling one cancels those opened from it. The clocks of two hosts differ.
Outside the fleet, almost everything is a sequence of reads of something that
changes meanwhile: apt's lists, dpkg's status, systemd's units, `/proc`, the
roster that `fleet_query` fans out to, the daemon behind the web page; and each
step of a start, of a child process or of a chat can fail by itself.
`PROJECT.json` lists each hazard at its line.

**What makes it correct.**

* Registry: an entry keeps its joining time; neither the local node nor a
  blank identifier enters the map; no send on a closed channel; a subscriber
  loses events only when its buffer was full, never silently in between; a
  subscriber that replays the roster misses no change.
* Mesh: every record says what its owner published; the mesh forms whatever the
  order of starts, lost responses, broken streams and full buffers; a running peer is
  not evicted; a dead one is, for good; every live member is followed; cancelling
  a stream hits no other; after a stop nothing runs on.
* Client: an event is handed on whole or not at all.
* Server: whoever can read the token is let in; the token stays; every stop ends.
* `fleet_query`: one answer per member asked, nobody harmed by another, an end.
* Command runner: success means the whole output; every call returns.
* Readers of a changing host: what was there throughout is reported, and what is
  reported was there at some moment; parsers and orders agree with the formats.
* Console: the page shows the roster in the end; the chat's requests are
  acceptable to the provider; a send ends.

## 2. Modules and how they follow the code

| Module | Content |
| --- | --- |
| `RegistryOps` | what one critical section of `Registry.mu` does, as constant operators: `Stored`/`Changed`/`Upsert` are the three results of `Registry.Upsert`, plus `Remove`, `Stale`/`PruneStale`, `Roster`, `samePeer` |
| `Registry` | one node's registry under concurrency |
| `Fleet` | a mesh of managers |
| `Streams` | one manager's streams, locks, contexts and shutdown, step by step |
| `Clocks` | heartbeats and eviction between two hosts whose clocks differ |
| `Pipe`, `SSE` | what an event stream promises, and the frames, lines and parser that implement it |
| `Gather`, `FleetQuery` | what `fleet_query` promises, and the fan-out that implements it |
| `Serve` | shutdown of nodes that read each other's streams |
| `Startup` | start of the daemon: settings, token, fleet configuration |
| `ExecTool` | a child process with bounded output and time |
| `Apt`, `AptFiles`, `DebVersion` | the update status, the file formats, the version order |
| `Boot` | critical chain and boot times |
| `Listing` | the nine tools that list what the host has |
| `Logs` | journal and kernel log |
| `Console`, `Chat` | the web page: roster and settings form; MCP session and chat |
| `MCRegistry`, `MCFleet` | instances and start states for TLC |
| `Components` | the components from `Streams` on that have theorems, side by side, for any constants |
| `MCComponents` | the instances of `Components` for TLC, and next to them those of `DebVersion` and `AptFiles` |
| `RegistryOpsProofs`, `RegistryProofs`, `FleetProofs` | proofs about `RegistryOps`, `Registry`, `Fleet` |
| `DaemonProofs` | proofs about `ExecTool`, `Serve`, `Startup`, `Clocks` and `Streams` |
| `FleetQueryProofs` | `FleetQuery` implements `Gather` |
| `ClientProofs` | `SSE` implements `Pipe`; proofs about `Console` and `Chat` |
| `ToolProofs` | proofs about `Apt`, `Boot`, `Listing` and `Logs` |
| `ComponentsProofs` | what was proved of the components holds of `Components` |

**Data.** Identifiers, URLs, versions and tool lists are positive numbers and 0
is Go's zero value (empty string, empty list, zero time), which `Merge` and the
handlers test for. A Go map is a function on its set of keys. A roster is a set
of records; where the code loops over the *sorted* roster, the loop takes the
record with the smallest identifier (`First`).

**Registry.** A goroutine of `Procs` is anything that changes the registry: a
join handler, a stream reader, one of the two loops. Each operation is one
critical section of `mu`; what it has yet to announce waits in `pending[g]` and
`Broadcast` is a step of its own under `subMu`. `Subscribe`, `Replay`,
`Forward` and `Cancel` are the steps of an `eventsHandler`. `view` is the roster
that a reader such as the web console makes of the stream. The histories
`sent`, `known` and `silent`, and `pos`, `lost`, `snap`, `got` of a handler,
exist for the properties only. `joinHandler`'s defaults for missing times and
`handleRemoteEvent`'s default heartbeat are part of `Join` and
`RemoteHeartbeat`. `PruneStale` removes all stale entries at once and the loop
broadcasts them one by one.

**Fleet.** A member of `NodeIDs` is a *process*: `NewNodeID` draws a fresh
identifier at every start, so a restarted daemon is another member with the
same `Host`. Time counts heartbeat intervals.

| State | Code |
| --- | --- |
| `phase` | `"boot"`: `Run` is in its first `bootstrap`, the listener serves already; `"run"`: the loops are started |
| `self`, `peers` | `Registry.self`, `Registry.peers` |
| `boot` | the goroutine in `bootstrap` or `retryBootstrap`: its copy of `Self`, the roster it got, the rest of its loop |
| `evicting` | what `PruneStale` returned and `pruneLoop` has not yet handled |
| `local` | `Manager.localEvents` |
| `streams` | `Manager.streams` with the goroutine behind each entry: dialling, open to a process with the replay and the buffered events, or dead; `anc` is its chain of parent contexts |

Handlers are one step here: joining is one step of the server
(`ServeJoin`), an event read from a stream is one step of the reader
(`handleRemoteEvent`), and the interleavings between their critical sections are
the subject of `Registry`. `bootstrap` is one step per remote call or roster
record, because everything else in the mesh goes on meanwhile. `pruneLoop` is
two steps because a peer may return between them. `Broadcast` to a node's SSE
subscribers and to its own event loop drops what does not fit; events about the
reading node itself are not queued, because both readers return at once on
them. Records in `Fleet` always carry an identifier and times, since
`buildFleet` fills them in, so the handlers' defaults appear in `Registry` only.
All nodes read one clock.

Faults are `crash` (state gone, connections broken), `break` (a stream ends) and
`join` (the request was handled but the answer came too late, or an announcement
failed); `FaultKinds` and `MaxFaults` bound them. `Timely` makes the clock wait
until everything due is done (`Settled`), which says that heartbeats and their
delivery take less than an interval; without it time passes at any moment.

**Streams.** `Fleet` treats a handler as one step; here every lock of
`streamsMu` is one. A caller of `Callers` is a loop or the reader of a stream; it
holds the context it will pass to `ensureStream` (`TakeEvent`, `ContextOf`), and
`cancelStream` first deletes the entry and later, outside the lock, calls the
cancel function (`fire`). `ctx` is the context tree, `running` the `runStream`
goroutines. `Stop` ends the context of `Run`.

**Clocks.** Two hosts whose clocks are at most `Fast` apart and may be set at any
time. `heartbeatLoop` stamps with the sender's clock,
a heartbeat travels for at most `Delay`, `pruneLoop` compares with the receiver's.

**SSE and Pipe.** `writeSSE` puts the three lines of a frame (event, data,
blank) on the wire; `ReadLine` is one turn of the loop of `StreamEvents` with its
`evtType` and `dataBuf`; `Cut` ends the connection at any byte and `Reconnect`
starts a new reader. `StreamKeepsPromise` maps what `onEvent` was called with to `Pipe!delivered`.

**FleetQuery and Gather.** `Ask` reads the roster; each goroutine makes the
requests of one session (`Requests`), each with the client's time-out, and stores
its result in its slot. Members answer, refuse, are slow, stop and come back as
another process; the caller may give up. `QueryKeepsPromise` maps roster and results to
`Gather`; that the query ends (`Gather!Ends`) is part of `CallsReturn`.

**Serve.** Each node of `Nodes` runs `Serve`; a node's manager reads the event
streams of the others, so that one node's `Shutdown` waits for another's
manager. Time counts within the grace period.

**Startup.** A process goes through `run` one read at a time: bind, port, token
(read, generate, publish, mirror), fleet settings, listen. `FaultKinds` are a
failing `snapctl get` or `set`, a failing write of the mirror file, crashes, and an
operator who sets the token. Outside a snap the settings are environment
variables. Addresses and URLs are classes that the code tells apart (`"any"` is a
wildcard, `"bad"` an URL without host or scheme).

**ExecTool.** The child writes into two pipes of `PipeSize`, two copiers move
what is there to the limited writers, the context ends by time-out or by the
caller, `Kill` is what `exec.CommandContext` does then. A copier that met the
limit closes its pipe; the child's next write kills it.

**Apt.** One installed package and three pockets, each with an index and its
Release files. The handler is one step per file read, in its order (`First` is the
next file in the order of the directory), and then one per candidate of the join;
apt and dpkg act between. `saw` records what held at some or at every moment of the call.
`AptFiles` has the two line-oriented parsers as folds over a file of abstract
lines, `DebVersion` the version order over strings of characters.

**Boot, Listing, Logs.** One step per D-Bus call or file read; systemd or the host
acts between. `Listing` describes a tool by what it does with names that have
gone, how it orders, filters and limits; the nine tools are nine such records. The
names still to read and the rows read so far are sets, since names are numbers in
directory order; the answer is one of the sequences in which the rows that match can
be sorted, cut at the limit. Some tools filter before they sort and some after, which
is the same. `Logs` has the requests that `journalArgs` refuses and the command line it
makes of any other; an option is a set, empty when it is not given, as `-b` is for
boot 0. `journalctl` is modelled by the conditions of its arguments (unit, priority,
since, pattern, boot); what it prints is the set of positions in the journal of the
entries it shows.

**Console and Chat.** JavaScript runs to the next `await`, so a step is the code
between two. `Console` keeps each `connect` as an entry with its own progress,
because several may be under way; `Chat` has one send at a time (`busy`) with the
driver's own copy of the messages (`drive.api`) besides the log. Fetches end in
any order or fail. `overlapped` and `disturbed` record that a second `connect`
started during another, and that Clear was pressed during a send: the code has no
guard against either (section 4).

**Components side by side.** The components from `Streams` on do not act on each
other's state in ways their own modules leave out, so the runs check them in
one run each for safety and for progress. `Components` has the variables of all of
them (under another name where two modules share a variable's name), and a variable
`part` says which component a behaviour is about: `Init` picks it, `Next` never
changes it, only its variables move, and all others keep a value that means nothing.
The reachable states are the disjoint union of those of the parts. A component
may be there several times, with other constants: `Param` is a record with a
field for each part, whose fields are the constants of the part's module.
`Components` takes a component from the module that has its proofs
(`Daemon!Exec!Next` is the `Next` of `ExecTool`, by way of `DaemonProofs`), so that
the theorems are about the same definitions; where there are none to use it
instantiates the component itself. A property is stated for the parts it is about
(`On`, `When`) and is true of all others; so are the refinements `QueryKeepsPromise`
and `StreamKeepsPromise`, as the initial condition and the steps of `Gather` and
`Pipe`. `ComponentsAssumption` joins the assumptions of the modules and, for each
property, what it needs beyond them. `MCComponents` gives `Param` its values
(`Instances`), adds the two modules that compare data with a reference definition,
about which nothing is proved, and states the fairness of each part.

## 3. Runs

| Run | Configuration | What it shows |
| --- | --- | --- |
| `registry_stream` | `MCRegistry.cfg`: two goroutines with full, partial, blank and self records, one subscription, buffer 2, four broadcasts | `TypeOK`, `ClosedIffUnsubscribed`, `DeliveredInOrder`, `NoChangeMissed`, `JoinedAtPreserved` |
| `registry_live_view` | `MCRegistryLiveView.cfg` | violation of `LiveView` (finding 1) |
| `fleet_join` | `MCFleetJoin.cfg`: two nodes join through node 1 while it runs, one of them perhaps refused before it did; or one joins a pair and loses an answer or an announcement, or a stream breaks | `MeshWhenSettled` |
| `fleet_pair` | `MCFleetPair.cfg`: two nodes over six intervals, two faults of any kind | `TypeOK`, `Provenance`, `NoFalseEviction`, `DeadForgotten`, `MeshForms` |
| `fleet_mesh` | `MCFleetMesh.cfg`: three meshed nodes over six intervals, one broken stream | `NoFalseEviction` |
| `fleet_crash` | `MCFleetCrash.cfg`: one of three meshed nodes dies | `DeadForgotten`, `OnlySilentEvicted` |
| `fleet_zombie`, `fleet_stale_gossip`, `fleet_resurrection` | | violations (findings 2 to 4) |
| `processes_state_filter` | `MCComponentsStateFilter.cfg`: the part `filter` | violation of `StateKept` (finding 5) |
| `components_safety` | `MCComponentsSafety.cfg` | the table below |
| `components_progress` | `MCComponentsProgress.cfg`, smaller instances, with fairness | the table below |

| Property | Instances (`part`) | What it says |
| --- | --- | --- |
| `TypeOK` | each module with a state machine | the type invariants of the modules |
| `OthersUnharmed` | `query`, `queryRestart` | one member's failure spoils no other's answer |
| `QueryKeepsPromise` | `query`, `queryRestart` | `fleet_query` implements `Gather` |
| `NoMutualWait` | `serve`: two nodes that read each other, one request | nodes that stop together do not wait for each other |
| `ResultTrue` | `exec`: limit 2, up to 4 on each pipe | whole output without an error, an overflow error only after an overflow |
| `ServesSoundly` | `start`: faults of every kind; `config`: all flags and settings | a serving daemon accepts the published token and has valid settings |
| `TokenKept` | `kept`: no failing read, no operator | crashes and restarts never replace a published token |
| `CancelsOwn` | `streams`: two peers, two streams ever | a cancel ends only the stream it was meant for and those below |
| `StreamKeepsPromise` | `sse`: three events of two kinds, two connections | the reader implements `Pipe` |
| `EvictionTrue` | `clocks`: ticks of 5 s, delivery within 10 s, clocks up to 10 s apart | live peers stay, dead ones go in bounded time |
| `SameOrder` | `versions`: all pairs up to three characters | Debian's order |
| `BootTrue` | `boot`: all graphs of three units in which the target waits for one; `stamps`: all orders of the stamps | chain without repetition, along the latest predecessors, error only after a race; phases partition the boot |
| `PendingTrue`, `UpToDateReal` | `apt`: update, upgrade and removal during the call; `aptFaults`: half-unpacked packages, missing Release files | the update count and "up to date" were true of some moment; what stays pending is counted |
| `SecurityReported` | `aptStill`: every directory order, no index renewed | a security update is marked as one |
| `FilesMeant` | `files`: all files up to five lines | the parsers read what the format means |
| `ListingTrue` | `list`: nine tools, two changes of the host; `filter`: filters, limits at their edges | what stays and is asked for is listed (but for finding 5), nothing is invented |
| `LogsTrue` | `logs`: every kind of request, two boots; `tail`: texts up to the limits of lines | exact tail; a refusal exactly of what is not allowed, and else the latest entries that meet all conditions |
| `OneFollower` | `form`, `formAgain`: two and three connects | one stream and one interval |
| `RequestsPaired` | `chat`: two messages, the provider switched between, a lost session; `chatClear`: two Clears | calls paired with results |
| `ClearRepairs` | `chatClear`: three messages, two Clears, two lost sessions | Clear gets a session again |
| `CallsReturn` | `queryPair`, `serveShort`, `execSmall`, `chatOnce` | every call ends |
| `FinallyServes` | `start` | a daemon serves for good once faults are over |
| `StreamsEnd` | `streamsOne`: one peer, two streams ever | replaced and stopped streams end |
| `AllDelivered` | `ssePlain` | what was sent arrives while the connection lasts |
| `StaysAccurate` | `console`: one node, a fault, two connects | the page shows the roster in the end |

`PROJECT.json` says for each run in a sentence what it shows.

**Bounds.**

* `DeadAfter` is 3 intervals where eviction matters: 30 s over 10 s, the code's
  defaults. Six intervals let a node die, become stale, be evicted and stay
  away for a round.
* `MaxBeat` ends the heartbeats together with the clock. `fleet_join` asks how the
  mesh forms from joins, announcements and replays alone: a heartbeat inserts its
  sender and hides what was lost, so it sends none and the clock stands still.
  Nothing is evicted there; `fleet_pair` has the clock and evictions.
* Buffers of one or two overflow within few events, as 128 and 64 do in a
  large fleet. Where overflow is not the question the buffer is larger than
  anything the run can queue.
* In `Registry`, one remote node joining, leaving and returning while one reader
  subscribes shows every order of two concurrent operations; `MaxSent` bounds
  the history, `MaxSubs` the subscriptions.
* `JoinInit` has two starts. Two nodes join at once, without faults: node 1 is up, so
  that only one joiner may have been refused before. Or node 3 joins the other two,
  which follow each other already, with one fault; two joins with a fault are beyond
  TLC. The bootstrap node coming up last, and dying, is part of `fleet_pair`, which
  starts from `Init`.
* `MeshInit` starts from a settled mesh instead of from nothing. Its streams
  between nodes other than the first may or may not hang below the stream to
  node 1, both of which `fleet_join` reaches: it depends on who hears of whom
  first. `StaleInit` is a later state of such a mesh, after a death and three
  silent intervals.
* `fleet_crash` ends soon after the first eviction. The second eviction that
  follows from finding 2 (a live peer whose stream died with another) needs
  three more intervals, so `NoFalseEviction` is not claimed in that run.
* `OnlySilentEvicted` is not claimed for `fleet_pair`: a retried join that
  carries an old copy of `Self` lowers a heartbeat there (finding 3).
* `Streams`: two contexts let one stream hang below another, and let a peer be
  cancelled and followed again.
* `Clocks`: the code's defaults in ticks of 5 s. `Interval + Delay + Fast` equals
  `DeadAfter`, the largest distance that is safe (with one tick more `LiveKept`
  fails). Thirteen ticks reach past the latest moment
  (`DeadAfter + Fast + Interval`) at which a node that fell silent is evicted.
* `ExecTool`: outputs below, at and above the limit on each pipe, and pipes small
  enough that the child blocks.
* `Apt`: versions 1 to 3 tell apart installed, newer and newest; one or two
  events per call are enough for a change between any two reads.
* `Boot`: three units give ordering cycles and ties below the target; `MaxDepth` stands
  for 32 and is reached.
* `Listing`: three names, limits around the number of rows, one or two changes of
  the host.
* `Console` and `Chat`: two or three connects, two or three questions, two rounds of
  tool calls; a fault may happen at every point.
* The instances for progress have one member, one peer, one kind of event or one
  message less: liveness needs the cycles of a component (retry, restart,
  reconnect, replace, round of tool calls), all of which they have.

Deadlock is not checked: the bounded clock, broadcasts and faults run out, a
settled mesh with nothing due waits, and a call that has returned is over.

**Fairness.** Liveness assumes weak fairness of every goroutine that can go on
(`bootstrap`, the three loops, each `runStream`), of `Start` and of `Tick`: the Go
scheduler runs every runnable goroutine, `runStream` and `retryBootstrap` retry
for ever, tickers fire. It is weak and per goroutine, so a goroutine that is
blocked owes nothing. Nothing is assumed of faults: they may stay away, and their
number is bounded because `MeshForms` speaks of what holds after the last one.

The other modules assume the same of their goroutines (`Fairness` in each, stated
again in `MCComponents` for the part it is about, because a fairness condition of
TLA+ cannot be conditional) and add what the code waits
for: time passes (`FleetQuery`, `Serve`), so time-outs and grace periods end; a
killed child is gone and its copiers meet the end of the pipe (`ExecTool`); the
service manager restarts a failed daemon, as the snap's service does (`Startup`);
a browser's fetch ends one way or the other and an interval fires (`Console`,
`Chat`); systemd may act at any time but only a bounded number of times (`Boot`).
One assumption is strong: `runStreamReturns` in `Streams`. `runStream` looks at
its context each time it comes round, while other steps of the model may disable
and enable it in between, and it does come round. Nothing is assumed of members,
users, models, daemons and faults.

## 4. Findings and observations

The first five are runs that expect a violation of something the repository says.

1. **The console can miss a member** (`registry_live_view`). `README.md` of the
   repository promises "a live view of the fleet roster, driven by the
   `/fleet/events` SSE stream". A heartbeat that re-inserts a removed peer changes
   the registry and is not re-broadcast (`manager.go:287`), so a reader that lost
   no event shows a roster without it. `NoChangeMissed` holds because it excludes
   exactly these members (`silent`).
2. **A live peer is no longer followed** (`fleet_zombie`). `handleRemoteEvent`
   passes the context of the delivering stream to `ensureStream`
   (`manager.go:290`). When that stream's peer is evicted, the streams opened from
   it are cancelled too, but their entries stay in the map and keep `ensureStream`
   from opening new ones, against "ensuring an outbound SSE stream exists for
   every peer we believe is alive" (`manager.go:109-111`).
3. **An old heartbeat overwrites a newer one** (`fleet_stale_gossip`). `Upsert`
   takes any non-zero `LastHeartbeat` (`registry.go:115`). A replay of another
   node's older view then evicts a peer whose heartbeat was received within the
   threshold, against "peers with no heartbeat for 30 s are evicted".
4. **A dead peer comes back** (`fleet_resurrection`). A `peer_added` about an
   evicted peer is accepted whatever the age of its heartbeat and broadcast again
   (`manager.go:286`). Two survivors can keep telling each other that it was added
   and removed. In a pair, and in a mesh in which no stream breaks meanwhile,
   `DeadForgotten` holds.
5. **The state filter of `list_processes` finds nothing** (`processes_state_filter`).
   "keep only processes in this /proc state: R|S|D|Z|T|I" (`process.go:22`), but the
   letter is compared with the whole value of the State line, "S (sleeping)"
   (`process.go:80`, `procfs.go:325-326`), so that every process is dropped.
   `StableListed` names this exception.

The others were met while writing the modules: each is a behaviour of the model,
named with the module that has it, that departs from the quoted words. They are
not runs, and where a property would contradict one its instance or its
hypothesis leaves that case out, as said at the property.

* `Fleet`: a restarted daemon is a new member on the address of its first life.
  Streams to the first life reach it, and streams to others that are opened from
  these are cancelled when the first life is evicted (finding 2), so that no mesh is
  claimed after a restart. It also learns its own old identity from a roster and
  follows itself under it until the eviction, and without a join URL it stays alone
  until others dial its address.
* `FleetQuery`: "A 30-second per-peer timeout is applied" (`fleet_query.go:114`), but
  it bounds each HTTP request of the session, so a slow member costs several.
* `FleetQuery`: members are addressed by URL and nobody compares identities: the
  answer of a daemon that replaced a member at its address is filed under the old
  node, against "per-node results" (`fleet_query.go:36-37`).
* `Serve`: "the manager runs for the full Serve lifetime" (`server.go:189-190`), but its
  context is a child of the one whose end starts the shutdown (`server.go:215`), so it
  stops first. `NoMutualWait` needs it to be so.
* `Serve`: `Shutdown` waits for event streams that only their readers end
  (`server.go:229`): while a peer stays connected the five seconds run out and
  `Serve` returns an error.
* `ExecTool`: a child still writing when the copier gave up is killed by the broken
  pipe, and its exit status hides `ErrOutputTooLarge`, against `exectool.go:16`.
* `ExecTool`: too much stderr fails the command, against "truncated separately"
  (`exectool.go:24-25`).
* `Startup`: a failed read of the setting is taken for a first run and replaces the
  token (`token.go:28`); an operator who sets the token between that read and the
  write is overwritten; two daemons that start together each publish a token
  (`token.go:25`); after a crash between publishing and writing, or a failed write,
  nothing writes the mirror file again (`token.go:49`).
* `Startup`: `--bind 127.0.0.1` counts as no flag and an empty `--bind` as a flag
  (`main.go:89`); an empty bind address is a wildcard too, and `http://:<port>` passes
  `validateURL` (`main.go:161`).
* `Boot`: the latest predecessor may be a unit that was restarted after the boot
  (`boot.go:232`), which did not gate it (`boot.go:135`); the two timestamps of a
  start-up time are separate reads (`sysd/manager.go:158`).
* `Apt`: the indexes are read one after the other while apt replaces them, so that a
  security update can be counted without its flag (`aptdb.go:123`, the reason why
  `aptStill` renews none); an index without a readable Release file has no suite and
  is never taken for backports (`aptdb.go:122`); a package that is unpacked and not
  yet configured is not installed, so that a host can look up to date in the middle
  of an upgrade (`aptdb.go:80`); "half-installed" contains "installed" (the same line).
* `Listing`: the two files of a pid are read one after the other (`procfs.go:347`).
* `Logs`: `boot: 0` means every boot, because `-b` is only passed for other values
  (`logs.go:112`), against "0 = current boot" (`logs.go:22`). Of a text whose last line
  is not terminated `tailLines` would return one line too many; dmesg prints none.
* `Streams`: `ensureStream` may be called with a context that a concurrent
  `cancelStream` has just ended (`manager.go:229`): the new entry is dead from the
  start and blocks later ones, as in finding 2.
* `Clocks`: with clocks further apart than `DeadAfter` less interval and delay a live
  peer is evicted (`registry.go:145`).
* `Console`: `testToken` asks `/healthz`, which is not protected, so that every token
  is ok (`app.js:318`, `server.go:117`).
* `Chat`: the daemon drops a session after five idle minutes and the page does not
  initialize again until Clear (`app.js:509`); a change of provider in the middle of
  a chat sends one provider's blocks to the other (`app.js:753`, `LogNeutral`).

Two more cases are excluded by properties although no document speaks of
them. A second `connect` during the first one's `await` leaves a poll timer and
perhaps a stream that nothing stops (`OneFollower` assumes `~overlapped`); and Clear
during a send empties the log under the running driver, which goes on appending to
it (`RequestsPaired` and `ClearRepairs` assume `~disturbed`).

## 5. Theorems

A theorem holds for every value of the constants that satisfies the module's
assumption (`RegistryAssumption`, `ClocksAssumption`, ... , and all of them in
`ComponentsAssumption`; TLC evaluates each on the instances of the runs): any number of nodes, goroutines, peers, units or pockets,
any buffer size, limit or delay, any bound. The assumptions are types, non-zero
divisors of time, and that a roster and the names of a listing are finite. What a theorem needs beyond them is in
the last column; each such hypothesis is true of the instance on which TLC checks
the property, and section 4 names the behaviour it excludes.

| Theorem | States | Beyond the assumption |
| --- | --- | --- |
| `RegistryProofs!TypeCorrect` | `Spec => []TypeOK` | |
| `RegistryProofs!JoinedAtIsPreserved` | `Spec => JoinedAtPreserved`, an action property | |
| `RegistryProofs!ChannelsSafe` | `Spec => []ClosedIffUnsubscribed` | |
| `RegistryProofs!DeliveryInOrder` | `Spec => []DeliveredInOrder` | |
| `RegistryProofs!ChangesAnnounced` | `Spec => []NoChangeMissed` | |
| `FleetProofs!Inductive`, `Invariance` | `IInv` is an invariant of the mesh | |
| `FleetProofs!TypeCorrect` | `Spec => []TypeOK` | |
| `FleetProofs!RecordsAuthentic` | `Spec => []Provenance` | |
| `FleetProofs!NobodyAliveEvicted` | `Spec => []NoFalseEviction` | `TwoProcesses`, `PromptFleet` |
| `FleetProofs!PairStreams` | `Spec => []StreamForEveryPeer` | `TwoProcesses`, `PromptFleet` |
| `FleetProofs!PairMeshes` | `Spec => []MeshWhenSettled` | `TwoProcesses`, `PromptFleet`, `JoinGraph` |
| `DaemonProofs!ClocksTypeCorrect` | `Spec => []TypeOK` | |
| `DaemonProofs!EvictionSound` | `Spec => []EvictionTrue` | `Interval + Delay + Fast <= DeadAfter` |
| `DaemonProofs!StreamsTypeCorrect` | `Spec => []TypeOK` | |
| `DaemonProofs!CancelsOnlyOwn` | `Spec => []CancelsOwn` | |
| `DaemonProofs!ExecTypeCorrect` | `Spec => []TypeOK` | |
| `DaemonProofs!RunnerTruthful` | `Spec => []ResultTrue` | |
| `DaemonProofs!ServeTypeCorrect` | `Spec => []TypeOK` | |
| `DaemonProofs!NobodyWaitsMutually` | `Spec => NoMutualWait`, an action property | |
| `DaemonProofs!StartTypeCorrect` | `Spec => []TypeOK` | |
| `DaemonProofs!ServiceSound` | `Spec => []ServesSoundly` | `Service`: one process; no `FLEETMIND_TOKEN` in a snap |
| `DaemonProofs!TokenIsKept` | `Spec => TokenKept`, an action property | `Service`; no failing read of the setting, no operator |
| `FleetQueryProofs!QueryTypeCorrect` | `Spec => []TypeOK` | |
| `FleetQueryProofs!NobodyBlamed` | `Spec => []OthersUnharmed` | |
| `FleetQueryProofs!QueryImplementsGather` | `Spec => QueryKeepsPromise`, a refinement | |
| `ToolProofs!AptTypeCorrect` | `Spec => []TypeOK` | |
| `ToolProofs!PendingIsReported` | `Spec => []PendingReported` | |
| `ToolProofs!PendingIsTrue` | `Spec => []PendingTrue` | no Release file vanishes |
| `ToolProofs!UpToDateIsReal` | `Spec => []UpToDateReal` | dpkg is not caught half-way |
| `ToolProofs!SecurityIsReported` | `Spec => []SecurityReported` | no index is renewed, no Release file vanishes |
| `ToolProofs!BootTypeCorrect` | `Spec => []TypeOK` | |
| `ToolProofs!BootIsTrue` | `Spec => []BootTrue` | |
| `ToolProofs!ListTypeCorrect` | `Spec => []TypeOK` | |
| `ToolProofs!StableIsListed` | `Spec => []StableListed` | |
| `ToolProofs!NothingIsInvented` | `Spec => []NothingInvented` | |
| `ToolProofs!LogsTypeCorrect` | `Spec => []TypeOK` | |
| `ToolProofs!TailIsExact` | `Spec => []TailExact` | |
| `ToolProofs!ConditionsAreMet` | `Spec => []ConditionsMet` | |
| `ClientProofs!StreamTypeCorrect` | `Spec => []TypeOK` | |
| `ClientProofs!StreamImplementsPipe` | `Spec => StreamKeepsPromise`, a refinement | |
| `ClientProofs!ConsoleTypeCorrect` | `Spec => []TypeOK` | |
| `ClientProofs!FollowsOne` | `Spec => []OneFollower` | |
| `ClientProofs!ChatTypeCorrect` | `Spec => []TypeOK` | |
| `ClientProofs!RequestsArePaired` | `Spec => []RequestsPaired` | |
| `ClientProofs!ClearAlwaysRepairs` | `Spec => []ClearRepairs` | |

`ComponentsProofs` carries these over to `Components`, whose properties are the ones
of the run `components_safety`. There is one lemma per part: a behaviour of the
part begins in a state of the component and each of its steps is one of the component
or leaves it alone, so that what was proved of the component holds. The theorems
join the lemmas of the parts a property is about:

| Theorem of `ComponentsProofs` | States |
| --- | --- |
| `ComponentsTypeCorrect` | `Spec => []TypeOK` |
| `NobodyIsBlamed` | `Spec => []OthersUnharmed` |
| `QueriesImplementGather` | `Spec => QueryKeepsPromise` |
| `NodesNeverWaitMutually` | `Spec => NoMutualWait` |
| `ResultsAreTrue` | `Spec => []ResultTrue` |
| `DaemonsServeSoundly` | `Spec => []ServesSoundly` |
| `TokensAreKept` | `Spec => TokenKept` |
| `StreamsCancelOwn` | `Spec => []CancelsOwn` |
| `StreamsImplementPipe` | `Spec => StreamKeepsPromise` |
| `EvictionIsTrue` | `Spec => []EvictionTrue` |
| `BootsAreTrue` | `Spec => []BootTrue` |
| `UpdatesAreTrue` | `Spec => []PendingTrue` |
| `UpToDateIsTrue` | `Spec => []UpToDateReal` |
| `SecurityIsAlwaysReported` | `Spec => []SecurityReported` |
| `ListingIsTrue` | `Spec => []ListingTrue` |
| `LogsAreTrue` | `Spec => []LogsTrue` |
| `PagesFollowOne` | `Spec => []OneFollower` |
| `RequestsAlwaysPaired` | `Spec => []RequestsPaired` |
| `ClearRepairsAlways` | `Spec => []ClearRepairs` |

**Registry.** `RegistryOpsProofs` states once what `Upsert`, `Remove` and
`PruneStale` do to a well-formed peer map; every registry action is an instance.
The channel and delivery invariants are inductive next to `TypeOK`: only the five
steps under `subMu` touch them. `NoChangeMissed` is inductive next to `TypeOK`
because an announcement moves from `pending` to the buffer to `got` and is
never dropped on the way while `lost` is false; the case that matters is
`Replay`, which takes the snapshot after the subscription, so that nothing has to
be announced at that moment.

**Fleet.** `Provenance` is not inductive by itself: it says nothing of the nodes'
own records, from which all others are copied, nor of the types that `Upsert`
needs, nor that a node never handles data about itself (which `Upsert` would pass
on unchanged). `Published` is the set of all authentic records,
`Closed(A)` says that a set of records is closed under `Merge` of two records of
one node. `IInv` says that the clock and the own records are in order
(`EnvOK`, `SelfOK`) and that every peer map, bootstrap, eviction, queue, replay
and stream buffer holds only records of `Published` about *other* nodes
(`Foreign`). `Published` is closed and only grows; there is one lemma per action
that says a step keeps all data within a closed set, and two steps, `Start` and
`heartbeatLoop`, that enlarge the set. `TypeOK` and `Provenance` follow from `IInv`.

**Two daemons** (second half of `FleetProofs`). `NoFalseEviction`, `MeshWhenSettled` and
`StreamForEveryPeer` speak of timing and of what is under way in all buffers at once.
Of three daemons they are not true as they stand: a third one can replay an old
record again and again, and a stream whose context was cancelled through an ancestor
stays dead (`fleet_zombie`); a restarted daemon is a third process. Of two they are
theorems, under these hypotheses, all true of the instance of `fleet_pair`:

* `TwoProcesses`: there are at most two processes, so neither daemon is restarted;
* `PromptFleet`: the clock waits for what is due (`Timely`) and a heartbeat is sent
  in every interval (`MaxNow <= MaxBeat`), a peer may miss two intervals
  (`DeadAfter >= 2`, the code has 3) and no buffer is without a slot;
* `JoinGraph`, for `PairMeshes`: one of the two joins through the other.

The other constants are free: the addresses and who joins whom (nobody, or each
through the other), `DeadAfter`, both buffers, the number and kinds of faults.
`DeadAfter >= 2` is tight: with 1, TLC finds a live peer evicted, because a replay
lowers the heartbeat in the registry by one interval.

`PairInv` strengthens the three. `Beating`: what a running process, its bootstrap and its
roster say of it is from this interval or the one before. `Fed`: a stream to the
other process either dials, or is connected to it with a recent replay and behind
that at most the beat of this interval; so the beat always finds a free slot and
is read last. `Follows` draws the bound from it: a record is at most two intervals old,
and at most one once this interval's beat was read; and whoever has a record
has a stream, or an event in `Manager.localEvents` that will open one. `Joined`: the
join that was answered left a record on both sides, or a roster still to be
applied. `Addressed` says that a connection leads to the process that was dialled
(two that run at the same time have different addresses), and `Quiet` that a dead
one holds nothing. There is one lemma per action. The two that carry the argument
are `TickPair`, where `Settled` turns "one interval old" into "two", and `DeliverPair`
with `heartbeatLoopPair`, which take it back to one. Before the proof TLC had
checked `PairInv` itself as an invariant on two processes, with three faults of any
kind over six intervals and buffers of one slot, both when one joins through the other
(225,195 states) and when each joins through the other (1,279,430).

**Eviction** (`Clocks`). What keeps a live peer a member is not its record but what
is on the way to it. `Spaced` says that the heartbeats on the stream are one
interval apart up to the last one sent; `Heard` that the receiver has all those
before, and that none is late; so the stored stamp is at most interval and delay
old in true time, and `ClocksMargin` makes up for the two clocks. `Ageing` is the
same for the dead: no stamp is from after the death, and the tick of `pruneLoop`
that last spared the peer was in time.

**Streams.** A cancel function that waits to be called belongs to no entry of the
map (`Firing`), of whichever peer: streams are numbered as they start, `ensureStream`
enters a new one only, and `cancelStream` deletes before it fires.

**Daemon.** `ExecTool`: what a command has yet to write, what is in the pipe and what
was copied add up to its output until a copier meets the limit, which it does only
if there is more than that (`Accounted`), and the result follows from how the child
and the copiers ended (`Outcome`). `Serve`: the grace period
is not used up before `Shutdown` has returned. `Startup`: what is resolved is
valid (`Resolved`), a token in hand past its publication is the published one
(`Held`), and one is drawn only while there is none (`FirstRun`).

**`fleet_query`.** `Roster` is well-defined because every finite set of numbers has
exactly one sorted enumeration (by induction over its size, for one fixed
formula). `QueryInv` says for each goroutine how far it is, that its slot is
empty until its end (`Sound`), and that a call which is over without a text was harmed.
With it a step of a goroutine maps to an answer of `Gather` or to a stutter.

**Event stream.** `SSEInv`: the reader has called `onEvent` with a prefix of what was
sent, it has read `r` lines of the next event and remembers exactly these
(`Remembers`), and the wire goes on with line `3 * Len(got) + r + 1` of the
connection (`Follows`). A line that arrives whole is therefore the next one.

**Apt.** The call reads status, lists and labels at different moments, so the
invariants relate what it has read to what `saw` has recorded since it began.
`InTurn` says which fields are filled in at which step. `Coming` says of a pocket
whose package stays pending that its index is yet to be read or among the candidates;
with it `Reported` says that an update pending throughout is in the answer or still
to come. `Real` says the opposite way that each eligible candidate was pending at
some moment; it needs the labels to be right (`Labelled`). `Current`: unless
there was a moment of being up to date, an update is on its way or an upgrade has
asked for a reboot, and that flag is read after the lists. `Flagged` follows the security candidate through the join, whatever
comes before and after it in the directory.

**Boot.** `Chained` says that the chain so far has no unit twice and that each follows
the one before in After=; `Steady` that, without a change, the hop under way has the
latest of the predecessors read so far (`Top`).

**Listing.** Names are read one after the other while entries come and go. `ListInv`
joins to the types: `Unread`, a call that has not begun has no row and nothing to
read; `StableComes`, each name whose entry has stayed so far is still to be read, or
has a row of that entry; `HalfRead`, between the two reads of a name what the first one
gave is the entry, if it has stayed; `PresentSeen` and `RowsSourced`, a row is of an
entry that was there during the call, or blank, of a name that did not stay. The two
properties are part of it, so that `Finish` has to establish them, once: the sorted
rows are those that match, each once, and when the limit cuts off a row, all
of those kept come before it or may. Before the proof TLC had checked `ListInv`
on the nine tools with two changes and with limits and filters.

**Logs.** Of how the logs grew the properties need only that every line of the text is
terminated (`Terminated`), so that its lines are its newlines (`LinesAreNewlines`). What
follows the last newline with more than `n` behind it contains
exactly `n` of them (`TailLines`), because from one position to the next the count falls
by one at most (`NewlineCounts`). For `journalctl`, the last `n` of a finite set of positions are
as many as there are, or `n` (`LatestCounted`, by induction on `n` for this one formula).

**Console.** Two steps apart, `connect` stops the old stream and timer and starts its
own. `Paged` says whose load may still start what: at most one request per
connect, a connect that waits for its load was not aborted unless another overlapped
it, and the page's `streamAbort` and `heartbeatTimer` are the live ones. `Followed` says
that everything else that is live belongs to an overlap.

**Chat.** `Agreed` says that page and daemon have the same idea of the session unless
the daemon has forgotten one since the last Clear, at each `await` of a send.
For `RequestsPaired`, the log is flattened into the request of one provider or the other,
so `ChatInv` speaks of both: unless Clear was pressed during the send, the log makes
a request that is paired and begins with the user (`Fits`) for either provider,
of those whose messages it has (`Neutral`). Only while tools are called is it otherwise, and
`UnderWay` says how: `driveAnthropic` has logged a reply whose results are to follow,
`driveOpenAI` holds reply and results in `sub` and logs them together when the
round is complete. `Talk` joins the two and says that what the model is sent is made
of the log, which a switched provider, a failed fetch and a lost session leave as it is.
That a log with one more entry makes a request with that entry's messages at the end is
`FlattenAppend`, by a least counterexample to one fixed formula. Before the proof TLC
had checked `ChatInv` on two messages, a Clear, a switch, a lost session and a failed
request (185,423 states).

**Only model-checked.**

* Liveness (`MeshForms`, `DeadForgotten`, `CallsReturn`, `FinallyServes`, `StreamsEnd`,
  `AllDelivered`, `StaysAccurate`) is out of the prover's reach.
* `MeshWhenSettled` and `NoFalseEviction` of more than two processes: `fleet_join` and
  `fleet_mesh` check them on three, with one lost answer, lost announcement or broken
  stream, and without the crashes that break them.
* `OnlySilentEvicted`: even for two processes it fails by an interval after a replay
  (`fleet_stale_gossip` shows it for three), so it stays with the instance of
  `fleet_crash`.
* `SameOrder` (`DebVersion`) and `FilesMeant` (`AptFiles`) are about recursive definitions
  or folds over the text, which need induction over data.

## 6. Seeded faults

Definitions whose comment begins with "Seeded fault" are variants of the
definition after them with a plausible mistake (a dropped guard, a missing
broadcast, a retry that is not made). They are used by no specification;
the property they are written for fails when one takes the place of the original.
Where a property of `Components` joins several of a module, each of those has a
seeded fault of its own; `PROJECT.json` names one for every property.

## 7. Not modelled

* Wording, logging, JSON, HTTP methods and status codes where nothing depends on
  them; URL normalisation of the client.
* Reports of a single kernel file or command (load, memory, CPU, kernel, mounts,
  hostname, one unit's status) and the rewriting of the block device tree: pure
  conversions, with neither state nor a second read to race with.
* The Markdown converter, the rendering and the other DOM code of the console;
  embedding and serving of its files.
* `ExecTool`: grandchildren that keep a pipe open after the child has gone (the
  tools run by the daemon start none).
* `DebVersion`: epochs beyond the range of `int`; `AptFiles`: gzip and the scanner's
  limit on the length of a line.
* The mesh after a restart: `Fleet` has second lives (`Host`), of which `Provenance`
  and the type invariant are proved, but finding 2 keeps the mesh from coming back.
* `Console` shows a pending token test by its status text, so that a Submit during the
  test drops the `connect` of that test; another Submit leads to the same states.
* `Chat` treats a round of tools that OpenAI began as ordinary text when it is sent
  again to Anthropic, where the code may send an empty content (`app.js:820`).
* The MCP library, net/http, os/exec, `journalctl`, systemd, apt and dpkg appear
  as the code's surroundings (marked external in `PROJECT.json`).
* Build files, the install hook and CI.

## 8. Plan

The modules planned for the daemon, the tools and the console exist, are checked
and, as far as the prover reaches, proved about. What is left is `MeshWhenSettled` for
any number of processes without crashes: `Joined` for the bootstrap node and each other
one, and for two of the others which announcement or replay between them is still
under way.
