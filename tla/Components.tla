----------------------------- MODULE Components -----------------------------
(***************************************************************************)
(* The components that work on their own: the tools, the command runner,   *)
(* the start and the end of the daemon, the manager's streams and clocks,  *)
(* the event stream, the pages of the web console.  They stand side by     *)
(* side and share nothing: a behaviour is about one part and is a          *)
(* behaviour of that component alone, while the variables of the others    *)
(* keep a value that means nothing.  A component may be there several      *)
(* times, with other parameters.                                           *)
(***************************************************************************)
EXTENDS Integers, Sequences, FiniteSets

CONSTANT Param   \* the constants of the module of each part, by its name

VARIABLES
  part,
  \* FleetQuery
  peers, running, changes, cancelled, phase, roster, results, call, harmed,
  \* Serve
  ctx, listener, pc, err, grace, mgrCancel, manager, streams, requests, served,
  \* ExecTool
  size, todo, pipe, limit, hit, buf, copier, child, ctxErr, ret,
  \* Startup
  flags, conf, token, mirror, drawn, faults, operator, proc,
  \* Streams
  contexts, goroutines, streamOf, doing, stopped,
  \* SSE
  sent, wire, open, conns, reader, got,
  \* Clocks
  now, ahead, up, died, beat, prune, stream, member, last,
  \* Boot
  after, unit, bt, unitChanges, quiet, walk,
  \* Apt
  order, status, index, release, reboot, stamp, aptEvents, saw, aptCall,
  \* Listing
  world, ids, stable, seen, listEvents, tool, arg, listCall,
  \* Logs
  dmesg, journal, boot,
  \* Console
  typed, tokenStatus, enabled, peerList, connects, pageStreams, streamAbort,
  heartbeatTimer, timers, loads, known, peerChanges, pageFaults, overlapped,
  \* Chat
  provider, messages, await, then, drive, mcp, sid, sessions, refusals, expired,
  disturbed, count

-----------------------------------------------------------------------------
(***************************************************************************)
(* The parts                                                               *)
(***************************************************************************)

\* fleet_query: to several members with addresses of their own, to one, and to two
\* lives of a daemon at one address.
Query == INSTANCE FleetQueryProofs WITH
  NodeIDs <- Param.query.NodeIDs, URLs <- Param.query.URLs,
  SelfID <- Param.query.SelfID, Home <- Param.query.Home,
  Timeout <- Param.query.Timeout, MaxChanges <- Param.query.MaxChanges

QueryPair == INSTANCE FleetQueryProofs WITH
  NodeIDs <- Param.queryPair.NodeIDs, URLs <- Param.queryPair.URLs,
  SelfID <- Param.queryPair.SelfID, Home <- Param.queryPair.Home,
  Timeout <- Param.queryPair.Timeout, MaxChanges <- Param.queryPair.MaxChanges

QueryRestart == INSTANCE FleetQueryProofs WITH
  NodeIDs <- Param.queryRestart.NodeIDs, URLs <- Param.queryRestart.URLs,
  SelfID <- Param.queryRestart.SelfID, Home <- Param.queryRestart.Home,
  Timeout <- Param.queryRestart.Timeout, MaxChanges <- Param.queryRestart.MaxChanges

\* A daemon: Runner.Run; Server.Serve of nodes that read each other; its start, as
\* the snap's service with every fault; heartbeatLoop and pruneLoop; ensureStream
\* and cancelStream.  The others differ in the start: where the token can be read and
\* nobody else sets it between the read and the write of a first start; from every
\* command line and setting.
Daemon == INSTANCE DaemonProofs WITH
  MaxOutput <- Param.exec.MaxOutput, MaxSize <- Param.exec.MaxSize,
  PipeSize <- Param.exec.PipeSize,
  Nodes <- Param.serve.Nodes, Grace <- Param.serve.Grace,
  MaxRequests <- Param.serve.MaxRequests,
  Procs <- Param.start.Procs, InSnap <- Param.start.InSnap,
  EnvToken <- Param.start.EnvToken, Flags <- Param.start.Flags,
  Settings <- Param.start.Settings, FaultKinds <- Param.start.FaultKinds,
  MaxFaults <- Param.start.MaxFaults, MaxTokens <- Param.start.MaxTokens,
  Interval <- Param.clocks.Interval, DeadAfter <- Param.clocks.DeadAfter,
  Delay <- Param.clocks.Delay, Fast <- Param.clocks.Fast,
  MaxNow <- Param.clocks.MaxNow,
  Peers <- Param.streams.Peers, MaxCtx <- Param.streams.MaxCtx

KeptDaemon == INSTANCE DaemonProofs WITH
  MaxOutput <- Param.exec.MaxOutput, MaxSize <- Param.exec.MaxSize,
  PipeSize <- Param.exec.PipeSize,
  Nodes <- Param.serve.Nodes, Grace <- Param.serve.Grace,
  MaxRequests <- Param.serve.MaxRequests,
  Procs <- Param.kept.Procs, InSnap <- Param.kept.InSnap,
  EnvToken <- Param.kept.EnvToken, Flags <- Param.kept.Flags,
  Settings <- Param.kept.Settings, FaultKinds <- Param.kept.FaultKinds,
  MaxFaults <- Param.kept.MaxFaults, MaxTokens <- Param.kept.MaxTokens,
  Interval <- Param.clocks.Interval, DeadAfter <- Param.clocks.DeadAfter,
  Delay <- Param.clocks.Delay, Fast <- Param.clocks.Fast,
  MaxNow <- Param.clocks.MaxNow,
  Peers <- Param.streams.Peers, MaxCtx <- Param.streams.MaxCtx

ConfigDaemon == INSTANCE DaemonProofs WITH
  MaxOutput <- Param.exec.MaxOutput, MaxSize <- Param.exec.MaxSize,
  PipeSize <- Param.exec.PipeSize,
  Nodes <- Param.serve.Nodes, Grace <- Param.serve.Grace,
  MaxRequests <- Param.serve.MaxRequests,
  Procs <- Param.config.Procs, InSnap <- Param.config.InSnap,
  EnvToken <- Param.config.EnvToken, Flags <- Param.config.Flags,
  Settings <- Param.config.Settings, FaultKinds <- Param.config.FaultKinds,
  MaxFaults <- Param.config.MaxFaults, MaxTokens <- Param.config.MaxTokens,
  Interval <- Param.clocks.Interval, DeadAfter <- Param.clocks.DeadAfter,
  Delay <- Param.clocks.Delay, Fast <- Param.clocks.Fast,
  MaxNow <- Param.clocks.MaxNow,
  Peers <- Param.streams.Peers, MaxCtx <- Param.streams.MaxCtx

\* The tools: apt_update_status while apt runs and sources are removed, while no
\* index is replaced, and while dpkg is caught half-way and Release files vanish;
\* boot_critical_chain of every graph and boot_time of every order of the timestamps;
\* the nine tools that list, and limits and filters; read_journal and read_dmesg.
HostTools == INSTANCE ToolProofs WITH
  Pockets <- Param.apt.Pockets, Orders <- Param.apt.Orders,
  Versions <- Param.apt.Versions, Archs <- Param.apt.Archs,
  Kinds <- Param.apt.Kinds, MaxEvents <- Param.apt.MaxEvents,
  Units <- Param.boot.Units, Target <- Param.boot.Target,
  Graphs <- Param.boot.Graphs, BootEnd <- Param.boot.BootEnd,
  Phases <- Param.boot.Phases, MaxDepth <- Param.boot.MaxDepth,
  MaxChanges <- Param.boot.MaxChanges,
  Names <- Param.list.Names, Sizes <- Param.list.Sizes,
  RowKinds <- Param.list.Kinds, Tools <- Param.list.Tools,
  Limits <- Param.list.Limits, Wants <- Param.list.Wants,
  Default <- Param.list.Default, MaxLimit <- Param.list.MaxLimit,
  ListEvents <- Param.list.MaxEvents,
  LogUnits <- Param.logs.Units, Priorities <- Param.logs.Priorities,
  Times <- Param.logs.Times, Patterns <- Param.logs.Patterns,
  Lines <- Param.logs.Lines, Boots <- Param.logs.Boots,
  DefaultLines <- Param.logs.DefaultLines, MaxLines <- Param.logs.MaxLines,
  MaxChars <- Param.logs.MaxChars, MaxEntries <- Param.logs.MaxEntries,
  MaxBoots <- Param.logs.MaxBoots, MaxBack <- Param.logs.MaxBack,
  events <- aptEvents, call <- aptCall

StillTools == INSTANCE ToolProofs WITH
  Pockets <- Param.aptStill.Pockets, Orders <- Param.aptStill.Orders,
  Versions <- Param.aptStill.Versions, Archs <- Param.aptStill.Archs,
  Kinds <- Param.aptStill.Kinds, MaxEvents <- Param.aptStill.MaxEvents,
  Units <- Param.stamps.Units, Target <- Param.stamps.Target,
  Graphs <- Param.stamps.Graphs, BootEnd <- Param.stamps.BootEnd,
  Phases <- Param.stamps.Phases, MaxDepth <- Param.stamps.MaxDepth,
  MaxChanges <- Param.stamps.MaxChanges,
  Names <- Param.filter.Names, Sizes <- Param.filter.Sizes,
  RowKinds <- Param.filter.Kinds, Tools <- Param.filter.Tools,
  Limits <- Param.filter.Limits, Wants <- Param.filter.Wants,
  Default <- Param.filter.Default, MaxLimit <- Param.filter.MaxLimit,
  ListEvents <- Param.filter.MaxEvents,
  LogUnits <- Param.tail.Units, Priorities <- Param.tail.Priorities,
  Times <- Param.tail.Times, Patterns <- Param.tail.Patterns,
  Lines <- Param.tail.Lines, Boots <- Param.tail.Boots,
  DefaultLines <- Param.tail.DefaultLines, MaxLines <- Param.tail.MaxLines,
  MaxChars <- Param.tail.MaxChars, MaxEntries <- Param.tail.MaxEntries,
  MaxBoots <- Param.tail.MaxBoots, MaxBack <- Param.tail.MaxBack,
  events <- aptEvents, call <- aptCall

FaultTools == INSTANCE ToolProofs WITH
  Pockets <- Param.aptFaults.Pockets, Orders <- Param.aptFaults.Orders,
  Versions <- Param.aptFaults.Versions, Archs <- Param.aptFaults.Archs,
  Kinds <- Param.aptFaults.Kinds, MaxEvents <- Param.aptFaults.MaxEvents,
  Units <- Param.boot.Units, Target <- Param.boot.Target,
  Graphs <- Param.boot.Graphs, BootEnd <- Param.boot.BootEnd,
  Phases <- Param.boot.Phases, MaxDepth <- Param.boot.MaxDepth,
  MaxChanges <- Param.boot.MaxChanges,
  Names <- Param.list.Names, Sizes <- Param.list.Sizes,
  RowKinds <- Param.list.Kinds, Tools <- Param.list.Tools,
  Limits <- Param.list.Limits, Wants <- Param.list.Wants,
  Default <- Param.list.Default, MaxLimit <- Param.list.MaxLimit,
  ListEvents <- Param.list.MaxEvents,
  LogUnits <- Param.logs.Units, Priorities <- Param.logs.Priorities,
  Times <- Param.logs.Times, Patterns <- Param.logs.Patterns,
  Lines <- Param.logs.Lines, Boots <- Param.logs.Boots,
  DefaultLines <- Param.logs.DefaultLines, MaxLines <- Param.logs.MaxLines,
  MaxChars <- Param.logs.MaxChars, MaxEntries <- Param.logs.MaxEntries,
  MaxBoots <- Param.logs.MaxBoots, MaxBack <- Param.logs.MaxBack,
  events <- aptEvents, call <- aptCall

\* The clients: writeSSE and StreamEvents; the token form of the web console's page;
\* the chat, when Clear is pressed, and below when the provider is switched.
Client == INSTANCE ClientProofs WITH
  Types <- Param.sse.Types, Peers <- Param.sse.Peers, MaxSent <- Param.sse.MaxSent,
  MaxConns <- Param.sse.MaxConns,
  Nodes <- Param.form.Nodes, Tokens <- Param.form.Tokens,
  MaxConnects <- Param.form.MaxConnects, MaxLoads <- Param.form.MaxLoads,
  MaxChanges <- Param.form.MaxChanges, MaxFaults <- Param.form.MaxFaults,
  Providers <- Param.chatClear.Providers,
  MAX_TOOL_ROUND_TRIPS <- Param.chatClear.MAX_TOOL_ROUND_TRIPS,
  MaxUses <- Param.chatClear.MaxUses, MaxSends <- Param.chatClear.MaxSends,
  MaxClears <- Param.chatClear.MaxClears,
  MaxSwitches <- Param.chatClear.MaxSwitches,
  MaxLosses <- Param.chatClear.MaxLosses, ChatFaults <- Param.chatClear.MaxFaults,
  token <- typed, roster <- peerList, streams <- pageStreams,
  rosterChanges <- peerChanges, faults <- pageFaults

PlainClient == INSTANCE ClientProofs WITH
  Types <- Param.ssePlain.Types, Peers <- Param.ssePlain.Peers,
  MaxSent <- Param.ssePlain.MaxSent, MaxConns <- Param.ssePlain.MaxConns,
  Nodes <- Param.formAgain.Nodes, Tokens <- Param.formAgain.Tokens,
  MaxConnects <- Param.formAgain.MaxConnects, MaxLoads <- Param.formAgain.MaxLoads,
  MaxChanges <- Param.formAgain.MaxChanges, MaxFaults <- Param.formAgain.MaxFaults,
  Providers <- Param.chat.Providers,
  MAX_TOOL_ROUND_TRIPS <- Param.chat.MAX_TOOL_ROUND_TRIPS,
  MaxUses <- Param.chat.MaxUses, MaxSends <- Param.chat.MaxSends,
  MaxClears <- Param.chat.MaxClears,
  MaxSwitches <- Param.chat.MaxSwitches,
  MaxLosses <- Param.chat.MaxLosses, ChatFaults <- Param.chat.MaxFaults,
  token <- typed, roster <- peerList, streams <- pageStreams,
  rosterChanges <- peerChanges, faults <- pageFaults

\* Smaller instances, for progress, and the page's roster, whose property only TLC checks.
ExecSmall == INSTANCE ExecTool WITH
  MaxOutput <- Param.execSmall.MaxOutput, MaxSize <- Param.execSmall.MaxSize,
  PipeSize <- Param.execSmall.PipeSize

ServeShort == INSTANCE Serve WITH
  Nodes <- Param.serveShort.Nodes, Grace <- Param.serveShort.Grace,
  MaxRequests <- Param.serveShort.MaxRequests

StreamsOne == INSTANCE Streams WITH
  Peers <- Param.streamsOne.Peers, MaxCtx <- Param.streamsOne.MaxCtx,
  ctx <- contexts, running <- goroutines, streams <- streamOf

Console == INSTANCE Console WITH
  Nodes <- Param.console.Nodes, Tokens <- Param.console.Tokens,
  MaxConnects <- Param.console.MaxConnects, MaxLoads <- Param.console.MaxLoads,
  MaxChanges <- Param.console.MaxChanges, MaxFaults <- Param.console.MaxFaults,
  token <- typed, roster <- peerList, streams <- pageStreams,
  changes <- peerChanges, faults <- pageFaults

ChatOnce == INSTANCE Chat WITH
  Providers <- Param.chatOnce.Providers,
  MAX_TOOL_ROUND_TRIPS <- Param.chatOnce.MAX_TOOL_ROUND_TRIPS,
  MaxUses <- Param.chatOnce.MaxUses, MaxSends <- Param.chatOnce.MaxSends,
  MaxClears <- Param.chatOnce.MaxClears, MaxSwitches <- Param.chatOnce.MaxSwitches,
  MaxLosses <- Param.chatOnce.MaxLosses, MaxFaults <- Param.chatOnce.MaxFaults,
  pc <- await

\* What the modules assume of their constants, and what the properties below
\* except: a margin for delay and skew that is less than the threshold; a second
\* process next to the service's, FLEETMIND_TOKEN in a snap; a setting that cannot be
\* read or is written by the operator during a start (kept); a package caught
\* half-way and a Release file that vanishes (apt); a list that is renewed while it
\* is read (aptStill).
ASSUME ComponentsAssumption ==
  /\ Query!FleetQueryAssumption /\ QueryPair!FleetQueryAssumption
  /\ QueryRestart!FleetQueryAssumption
  /\ Daemon!Exec!ExecToolAssumption /\ ExecSmall!ExecToolAssumption
  /\ Daemon!Serve!ServeAssumption /\ ServeShort!ServeAssumption
  /\ Daemon!Startup!StartupAssumption /\ KeptDaemon!Startup!StartupAssumption
  /\ ConfigDaemon!Startup!StartupAssumption
  /\ Daemon!Streams!StreamsAssumption /\ StreamsOne!StreamsAssumption
  /\ Client!SSEAssumption /\ PlainClient!SSEAssumption
  /\ Daemon!Clocks!ClocksAssumption /\ Daemon!Clocks!ClocksMargin
  /\ HostTools!Boot!BootAssumption /\ StillTools!Boot!BootAssumption
  /\ HostTools!Apt!AptAssumption /\ StillTools!Apt!AptAssumption
  /\ HostTools!List!ListingAssumption /\ StillTools!List!ListingAssumption
  /\ HostTools!Logs!LogsAssumption /\ StillTools!Logs!LogsAssumption
  /\ FaultTools!Apt!AptAssumption
  /\ Client!Console!ConsoleAssumption /\ PlainClient!Console!ConsoleAssumption
  /\ Console!ConsoleAssumption
  /\ Client!Chat!ChatAssumption /\ PlainClient!Chat!ChatAssumption /\ ChatOnce!ChatAssumption
  /\ Daemon!Service /\ KeptDaemon!Service /\ ConfigDaemon!Service
  /\ Param.kept.FaultKinds \cap {"get", "operator"} = {}
  /\ Param.apt.Kinds \cap {"unlabel", "unpack"} = {}
  /\ Param.aptStill.Kinds \cap {"update", "unlabel"} = {}

-----------------------------------------------------------------------------
(***************************************************************************)
(* One part moves, the others keep still                                   *)
(***************************************************************************)

queryVars == <<peers, running, changes, cancelled, phase, roster, results, call,
               harmed>>
serveVars == <<ctx, listener, pc, err, grace, mgrCancel, manager, streams, requests,
               served>>
execVars == <<size, todo, pipe, limit, hit, buf, copier, child, ctxErr, ret>>
startVars == <<flags, conf, token, mirror, drawn, faults, operator, proc>>
streamsVars == <<contexts, goroutines, streamOf, doing, stopped>>
sseVars == <<sent, wire, open, conns, reader, got>>
clocksVars == <<now, ahead, up, died, beat, prune, stream, member, last>>
bootVars == <<after, unit, bt, unitChanges, quiet, walk>>
aptVars == <<order, status, index, release, reboot, stamp, aptEvents, saw, aptCall>>
listVars == <<world, ids, stable, seen, listEvents, tool, arg, listCall>>
logsVars == <<dmesg, journal, boot>>
pageVars == <<typed, tokenStatus, enabled, peerList, connects, pageStreams,
              streamAbort, heartbeatTimer, timers, loads, known, peerChanges,
              pageFaults, overlapped>>
chatVars == <<provider, messages, await, then, drive, mcp, sid, sessions, refusals,
              expired, disturbed, count>>

vars == <<part, queryVars, serveVars, execVars, startVars, streamsVars, sseVars,
          clocksVars, bootVars, aptVars, listVars, logsVars, pageVars, chatVars>>

queryIdle ==
  /\ peers = 0 /\ running = 0 /\ changes = 0 /\ cancelled = 0 /\ phase = "idle"
  /\ roster = << >> /\ results = << >> /\ call = 0 /\ harmed = 0

serveIdle ==
  /\ ctx = 0 /\ listener = 0 /\ pc = 0 /\ err = 0 /\ grace = 0 /\ mgrCancel = 0
  /\ manager = 0 /\ streams = 0 /\ requests = 0 /\ served = 0

execIdle ==
  /\ size = 0 /\ todo = 0 /\ pipe = 0 /\ limit = 0 /\ hit = 0 /\ buf = 0
  /\ copier = 0 /\ child = 0 /\ ctxErr = 0 /\ ret = 0

startIdle ==
  /\ flags = 0 /\ conf = 0 /\ token = 0 /\ mirror = 0 /\ drawn = 0 /\ faults = 0
  /\ operator = 0 /\ proc = 0

streamsIdle ==
  /\ contexts = 0 /\ goroutines = 0 /\ streamOf = 0 /\ doing = 0 /\ stopped = 0

sseIdle ==
  /\ sent = << >> /\ wire = 0 /\ open = 0 /\ conns = 0 /\ reader = 0
  /\ got = << >>

clocksIdle ==
  /\ now = 0 /\ ahead = 0 /\ up = 0 /\ died = 0 /\ beat = 0 /\ prune = 0
  /\ stream = 0 /\ member = 0 /\ last = 0

bootIdle ==
  /\ after = 0 /\ unit = 0 /\ bt = 0 /\ unitChanges = 0 /\ quiet = 0 /\ walk = 0

aptIdle ==
  /\ order = 0 /\ status = 0 /\ index = 0 /\ release = 0 /\ reboot = 0
  /\ stamp = 0 /\ aptEvents = 0 /\ saw = 0 /\ aptCall = 0

listIdle ==
  /\ world = 0 /\ ids = 0 /\ stable = 0 /\ seen = 0 /\ listEvents = 0 /\ tool = 0
  /\ arg = 0 /\ listCall = 0

logsIdle ==
  /\ dmesg = 0 /\ journal = 0 /\ boot = 0

pageIdle ==
  /\ typed = 0 /\ tokenStatus = 0 /\ enabled = 0 /\ peerList = 0 /\ connects = 0
  /\ pageStreams = 0 /\ streamAbort = 0 /\ heartbeatTimer = 0 /\ timers = 0
  /\ loads = 0 /\ known = 0 /\ peerChanges = 0 /\ pageFaults = 0
  /\ overlapped = 0

chatIdle ==
  /\ provider = 0 /\ messages = 0 /\ await = 0 /\ then = 0 /\ drive = 0
  /\ mcp = 0 /\ sid = 0 /\ sessions = 0 /\ refusals = 0 /\ expired = 0
  /\ disturbed = 0 /\ count = 0

queryInit ==
  \/ part = "query" /\ Query!Init
  \/ part = "queryPair" /\ QueryPair!Init
  \/ part = "queryRestart" /\ QueryRestart!Init
  \/ part \notin {"query", "queryPair", "queryRestart"} /\ queryIdle

queryNext ==
  \/ part = "query" /\ Query!Next
  \/ part = "queryPair" /\ QueryPair!Next
  \/ part = "queryRestart" /\ QueryRestart!Next
  \/ part \notin {"query", "queryPair", "queryRestart"} /\ UNCHANGED queryVars

serveInit ==
  \/ part = "serve" /\ Daemon!Serve!Init
  \/ part = "serveShort" /\ ServeShort!Init
  \/ part \notin {"serve", "serveShort"} /\ serveIdle

serveNext ==
  \/ part = "serve" /\ Daemon!Serve!Next
  \/ part = "serveShort" /\ ServeShort!Next
  \/ part \notin {"serve", "serveShort"} /\ UNCHANGED serveVars

execInit ==
  \/ part = "exec" /\ Daemon!Exec!Init
  \/ part = "execSmall" /\ ExecSmall!Init
  \/ part \notin {"exec", "execSmall"} /\ execIdle

execNext ==
  \/ part = "exec" /\ Daemon!Exec!Next
  \/ part = "execSmall" /\ ExecSmall!Next
  \/ part \notin {"exec", "execSmall"} /\ UNCHANGED execVars

startInit ==
  \/ part = "start" /\ Daemon!Startup!Init
  \/ part = "kept" /\ KeptDaemon!Startup!Init
  \/ part = "config" /\ ConfigDaemon!Startup!Init
  \/ part \notin {"start", "kept", "config"} /\ startIdle

startNext ==
  \/ part = "start" /\ Daemon!Startup!Next
  \/ part = "kept" /\ KeptDaemon!Startup!Next
  \/ part = "config" /\ ConfigDaemon!Startup!Next
  \/ part \notin {"start", "kept", "config"} /\ UNCHANGED startVars

streamsInit ==
  \/ part = "streams" /\ Daemon!Streams!Init
  \/ part = "streamsOne" /\ StreamsOne!Init
  \/ part \notin {"streams", "streamsOne"} /\ streamsIdle

streamsNext ==
  \/ part = "streams" /\ Daemon!Streams!Next
  \/ part = "streamsOne" /\ StreamsOne!Next
  \/ part \notin {"streams", "streamsOne"} /\ UNCHANGED streamsVars

sseInit ==
  \/ part = "sse" /\ Client!Init
  \/ part = "ssePlain" /\ PlainClient!Init
  \/ part \notin {"sse", "ssePlain"} /\ sseIdle

sseNext ==
  \/ part = "sse" /\ Client!Next
  \/ part = "ssePlain" /\ PlainClient!Next
  \/ part \notin {"sse", "ssePlain"} /\ UNCHANGED sseVars

clocksInit ==
  \/ part = "clocks" /\ Daemon!Clocks!Init
  \/ part \notin {"clocks"} /\ clocksIdle

clocksNext ==
  \/ part = "clocks" /\ Daemon!Clocks!Next
  \/ part \notin {"clocks"} /\ UNCHANGED clocksVars

bootInit ==
  \/ part = "boot" /\ HostTools!Boot!Init
  \/ part = "stamps" /\ StillTools!Boot!Init
  \/ part \notin {"boot", "stamps"} /\ bootIdle

bootNext ==
  \/ part = "boot" /\ HostTools!Boot!Next
  \/ part = "stamps" /\ StillTools!Boot!Next
  \/ part \notin {"boot", "stamps"} /\ UNCHANGED bootVars

aptInit ==
  \/ part = "apt" /\ HostTools!Apt!Init
  \/ part = "aptStill" /\ StillTools!Apt!Init
  \/ part = "aptFaults" /\ FaultTools!Apt!Init
  \/ part \notin {"apt", "aptStill", "aptFaults"} /\ aptIdle

aptNext ==
  \/ part = "apt" /\ HostTools!Apt!Next
  \/ part = "aptStill" /\ StillTools!Apt!Next
  \/ part = "aptFaults" /\ FaultTools!Apt!Next
  \/ part \notin {"apt", "aptStill", "aptFaults"} /\ UNCHANGED aptVars

listInit ==
  \/ part = "list" /\ HostTools!List!Init
  \/ part = "filter" /\ StillTools!List!Init
  \/ part \notin {"list", "filter"} /\ listIdle

listNext ==
  \/ part = "list" /\ HostTools!List!Next
  \/ part = "filter" /\ StillTools!List!Next
  \/ part \notin {"list", "filter"} /\ UNCHANGED listVars

logsInit ==
  \/ part = "logs" /\ HostTools!Logs!Init
  \/ part = "tail" /\ StillTools!Logs!Init
  \/ part \notin {"logs", "tail"} /\ logsIdle

logsNext ==
  \/ part = "logs" /\ HostTools!Logs!Next
  \/ part = "tail" /\ StillTools!Logs!Next
  \/ part \notin {"logs", "tail"} /\ UNCHANGED logsVars

pageInit ==
  \/ part = "console" /\ Console!Init
  \/ part = "form" /\ Client!Console!Init
  \/ part = "formAgain" /\ PlainClient!Console!Init
  \/ part \notin {"console", "form", "formAgain"} /\ pageIdle

pageNext ==
  \/ part = "console" /\ Console!Next
  \/ part = "form" /\ Client!Console!Next
  \/ part = "formAgain" /\ PlainClient!Console!Next
  \/ part \notin {"console", "form", "formAgain"} /\ UNCHANGED pageVars

chatInit ==
  \/ part = "chat" /\ PlainClient!Chat!Init
  \/ part = "chatOnce" /\ ChatOnce!Init
  \/ part = "chatClear" /\ Client!Chat!Init
  \/ part \notin {"chat", "chatOnce", "chatClear"} /\ chatIdle

chatNext ==
  \/ part = "chat" /\ PlainClient!Chat!Next
  \/ part = "chatOnce" /\ ChatOnce!Next
  \/ part = "chatClear" /\ Client!Chat!Next
  \/ part \notin {"chat", "chatOnce", "chatClear"} /\ UNCHANGED chatVars

Init ==
  /\ queryInit /\ serveInit /\ execInit /\ startInit /\ streamsInit /\ sseInit
  /\ clocksInit /\ bootInit /\ aptInit /\ listInit /\ logsInit /\ pageInit /\ chatInit

Next ==
  /\ UNCHANGED part
  /\ queryNext /\ serveNext /\ execNext /\ startNext /\ streamsNext /\ sseNext
  /\ clocksNext /\ bootNext /\ aptNext /\ listNext /\ logsNext /\ pageNext /\ chatNext

Spec == Init /\ [][Next]_vars

-----------------------------------------------------------------------------
(***************************************************************************)
(* The properties of the components, each for its parts                    *)
(***************************************************************************)

When(x, P) == part = x /\ P
On(x, P)   == part = x => P

\* The type invariants of the components.
TypeOK ==
  /\ On("query", Query!TypeOK) /\ On("queryRestart", QueryRestart!TypeOK)
  /\ On("serve", Daemon!Serve!TypeOK) /\ On("exec", Daemon!Exec!TypeOK)
  /\ On("start", Daemon!Startup!TypeOK) /\ On("kept", KeptDaemon!Startup!TypeOK)
  /\ On("config", ConfigDaemon!Startup!TypeOK)
  /\ On("streams", Daemon!Streams!TypeOK) /\ On("sse", Client!TypeOK)
  /\ On("clocks", Daemon!Clocks!TypeOK) /\ On("boot", HostTools!Boot!TypeOK)
  /\ On("apt", HostTools!Apt!TypeOK) /\ On("aptFaults", FaultTools!Apt!TypeOK)
  /\ On("list", HostTools!List!TypeOK) /\ On("filter", StillTools!List!TypeOK)
  /\ On("logs", HostTools!Logs!TypeOK) /\ On("tail", StillTools!Logs!TypeOK)
  /\ On("form", Client!Console!TypeOK) /\ On("formAgain", PlainClient!Console!TypeOK)
  /\ On("chat", PlainClient!Chat!TypeOK) /\ On("chatClear", Client!Chat!TypeOK)

\* fleet_query: a member is reported as an error only if that member failed or
\* the caller gave up (FleetQuery).
OthersUnharmed ==
  On("query", Query!OthersUnharmed) /\ On("queryRestart", QueryRestart!OthersUnharmed)

\* fleet_query keeps the promise of Gather: one answer per member of the roster,
\* under its own NodeID, before the query ends (FleetQuery).
QueryKeepsPromise ==
  /\ On("query", Query!Promise!Init) /\ On("queryRestart", QueryRestart!Promise!Init)
  /\ [][/\ On("query", [Query!Promise!Next]_(Query!Promise!vars))
       /\ On("queryRestart", [QueryRestart!Promise!Next]_(QueryRestart!Promise!vars))]_vars

\* Nodes that stop together never wait for each other (Serve).
NoMutualWait == [][On("serve", Daemon!Serve!WaitsForOthers)]_vars

\* Runner.Run tells the truth: without an error the caller has the whole
\* output, and ErrOutputTooLarge means that a stream exceeded MaxOutput
\* (ExecTool).
ResultTrue == On("exec", Daemon!Exec!ResultTrue)

\* A daemon that serves accepts the token that snap get shows, and has a valid
\* configuration, wherever it came from (Startup, EnsureToken, resolvePort and
\* resolveFleet).
ServesSoundly ==
  /\ On("start", Daemon!Startup!ServesSoundly)
  /\ On("config", ConfigDaemon!Startup!ServesSoundly)

\* EnsureToken never replaces a token that exists and can be read (Startup).
TokenKept == [][On("kept", KeptDaemon!Startup!KeepsToken)]_vars

\* cancelStream cancels the stream it took out of the map and those opened from
\* it, never the one that replaced it (Streams).
CancelsOwn == On("streams", Daemon!Streams!CancelsOwn)

\* An event stream keeps the promise of Pipe: on each connection a prefix of
\* what was sent, event by event (SSE).
StreamKeepsPromise ==
  /\ On("sse", Client!Promise!Init)
  /\ [][On("sse", [Client!Promise!Next]_<<sent, got>>)]_vars

\* PruneStale judges rightly although it compares two clocks: a peer that beats
\* in time stays a member, and one that died is evicted in bounded time (Clocks).
EvictionTrue == On("clocks", Daemon!Clocks!EvictionTrue)

\* walkCriticalChain follows After= from the target without repetition and, if
\* undisturbed, to the latest predecessor each time; it fails only because a unit
\* went away.  The phases of composeBootTime partition the boot (Boot).
BootTrue == On("boot", HostTools!Boot!BootTrue) /\ On("stamps", StillTools!Boot!BootTrue)

\* An update that apt_update_status reports was pending at some moment of the
\* call, and one that was pending at every moment of it is reported (Apt).
PendingTrue ==
  On("apt", HostTools!Apt!PendingTrue) /\ On("aptFaults", FaultTools!Apt!PendingReported)

\* "Up to date" is only answered when there was such a moment (Apt).
UpToDateReal == On("apt", HostTools!Apt!UpToDateReal)

\* A security update is reported as one, whatever the directory order (Apt,
\* UpgradablePackages).
SecurityReported == On("aptStill", StillTools!Apt!SecurityReported)

\* What was there throughout the call and is asked for is listed, or the list is
\* full, unless list_processes is asked for a state; and nothing is listed that was
\* not there at some moment of the call (Listing).
ListingTrue ==
  /\ On("list", HostTools!List!StableListed /\ HostTools!List!NothingInvented)
  /\ On("filter", StillTools!List!StableListed /\ StillTools!List!NothingInvented)

\* read_dmesg answers with exactly the last lines; read_journal refuses what is not
\* allowed and applies all conditions of another request together (Logs, tailLines
\* and journalArgs).
LogsTrue ==
  On("logs", HostTools!Logs!ConditionsMet) /\ On("tail", StillTools!Logs!TailExact)

\* The page has one stream and one interval at most, unless connects overlap
\* (Console).
OneFollower ==
  /\ On("form", Client!Console!OneFollower)
  /\ On("formAgain", PlainClient!Console!OneFollower)

\* Every request to a model pairs its calls with their results (Chat).
RequestsPaired ==
  /\ On("chat", PlainClient!Chat!RequestsPaired)
  /\ On("chatClear", Client!Chat!RequestsPaired)

\* Clear repairs the session with the daemon (Chat, mcp.reset).
ClearRepairs == On("chatClear", Client!Chat!ClearRepairs)
=============================================================================
