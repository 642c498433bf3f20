-------------------------- MODULE ComponentsProofs --------------------------
(***************************************************************************)
(* The theorems about each component, carried over to Components: what the *)
(* runs check of the components side by side holds for every value of the  *)
(* constants of each part.  The parts share nothing, so a behaviour of a   *)
(* part is one of its component, and what was proved of the component      *)
(* holds of it.                                                            *)
(***************************************************************************)
EXTENDS Components, TLAPS

-----------------------------------------------------------------------------
(***************************************************************************)
(* The parts                                                               *)
(***************************************************************************)

\* fleet_query.
LEMMA QueryPart ==
  Spec => /\ []On("query", Query!TypeOK)
          /\ []On("query", Query!OthersUnharmed)
          /\ On("query", Query!Promise!Init)
          /\ [][On("query", [Query!Promise!Next]_(Query!Promise!vars))]_vars
<1>1. Init /\ part = "query" => Query!Init
  BY DEF Init, queryInit
<1>2. [Next]_vars => /\ part = "query" <=> (part = "query")'
                     /\ part = "query" => [Query!Next]_Query!vars
  BY DEF Next, queryNext, vars, queryVars, Query!vars
<1>3. Query!Spec => []Query!TypeOK /\ []Query!OthersUnharmed /\ Query!QueryKeepsPromise
  BY Query!QueryTypeCorrect, Query!NobodyBlamed, Query!QueryImplementsGather,
     ComponentsAssumption DEF ComponentsAssumption
<1> QED
  BY <1>1, <1>2, <1>3, PTL DEF On, Spec, Query!Spec, Query!QueryKeepsPromise,
     Query!Promise!Spec

\* fleet_query and two lives of a daemon at one address.
LEMMA QueryRestartPart ==
  Spec => /\ []On("queryRestart", QueryRestart!TypeOK)
          /\ []On("queryRestart", QueryRestart!OthersUnharmed)
          /\ On("queryRestart", QueryRestart!Promise!Init)
          /\ [][On("queryRestart", [QueryRestart!Promise!Next]_(QueryRestart!Promise!vars))]_vars
<1>1. Init /\ part = "queryRestart" => QueryRestart!Init
  BY DEF Init, queryInit
<1>2. [Next]_vars => /\ part = "queryRestart" <=> (part = "queryRestart")'
                     /\ part = "queryRestart" => [QueryRestart!Next]_QueryRestart!vars
  BY DEF Next, queryNext, vars, queryVars, QueryRestart!vars
<1>3. QueryRestart!Spec => /\ []QueryRestart!TypeOK
                           /\ []QueryRestart!OthersUnharmed
                           /\ QueryRestart!QueryKeepsPromise
  BY QueryRestart!QueryTypeCorrect, QueryRestart!NobodyBlamed,
     QueryRestart!QueryImplementsGather, ComponentsAssumption DEF ComponentsAssumption
<1> QED
  BY <1>1, <1>2, <1>3, PTL DEF On, Spec, QueryRestart!Spec,
     QueryRestart!QueryKeepsPromise, QueryRestart!Promise!Spec

\* Server.Serve.
LEMMA ServePart ==
  Spec => /\ []On("serve", Daemon!Serve!TypeOK)
          /\ [][On("serve", Daemon!Serve!WaitsForOthers)]_vars
<1>1. Init /\ part = "serve" => Daemon!Serve!Init
  BY DEF Init, serveInit
<1>2. [Next]_vars => /\ part = "serve" <=> (part = "serve")'
                     /\ part = "serve" => [Daemon!Serve!Next]_Daemon!Serve!vars
                     /\ part = "serve" /\ UNCHANGED Daemon!Serve!vars => UNCHANGED vars
  BY DEF Next, queryNext, serveNext, execNext, startNext, streamsNext, sseNext,
     clocksNext, bootNext, aptNext, listNext, logsNext, pageNext, chatNext, vars,
     queryVars, serveVars, execVars, startVars, streamsVars, sseVars, clocksVars,
     bootVars, aptVars, listVars, logsVars, pageVars, chatVars, Daemon!Serve!vars
<1>3. Daemon!Serve!Spec => []Daemon!Serve!TypeOK /\ Daemon!Serve!NoMutualWait
  BY Daemon!ServeTypeCorrect, Daemon!NobodyWaitsMutually,
     ComponentsAssumption DEF ComponentsAssumption
<1> QED
  BY <1>1, <1>2, <1>3, PTL DEF On, Spec, Daemon!Serve!Spec, Daemon!Serve!NoMutualWait

\* Runner.Run.
LEMMA ExecPart ==
  Spec => /\ []On("exec", Daemon!Exec!TypeOK)
          /\ []On("exec", Daemon!Exec!ResultTrue)
<1>1. Init /\ part = "exec" => Daemon!Exec!Init
  BY DEF Init, execInit
<1>2. [Next]_vars => /\ part = "exec" <=> (part = "exec")'
                     /\ part = "exec" => [Daemon!Exec!Next]_Daemon!Exec!vars
  BY DEF Next, execNext, vars, execVars, Daemon!Exec!vars
<1>3. Daemon!Exec!Spec => []Daemon!Exec!TypeOK /\ []Daemon!Exec!ResultTrue
  BY Daemon!ExecTypeCorrect, Daemon!RunnerTruthful,
     ComponentsAssumption DEF ComponentsAssumption
<1> QED
  BY <1>1, <1>2, <1>3, PTL DEF On, Spec, Daemon!Exec!Spec

\* The start of the service, EnsureToken.
LEMMA StartPart ==
  Spec => /\ []On("start", Daemon!Startup!TypeOK)
          /\ []On("start", Daemon!Startup!ServesSoundly)
<1>1. Init /\ part = "start" => Daemon!Startup!Init
  BY DEF Init, startInit
<1>2. [Next]_vars => /\ part = "start" <=> (part = "start")'
                     /\ part = "start" => [Daemon!Startup!Next]_Daemon!Startup!vars
  BY DEF Next, startNext, vars, startVars, Daemon!Startup!vars
<1>3. Daemon!Startup!Spec => []Daemon!Startup!TypeOK /\ []Daemon!Startup!ServesSoundly
  BY Daemon!StartTypeCorrect, Daemon!ServiceSound,
     ComponentsAssumption DEF ComponentsAssumption
<1> QED
  BY <1>1, <1>2, <1>3, PTL DEF On, Spec, Daemon!Startup!Spec

\* EnsureToken where the token can be read and the operator sets none.
LEMMA KeptPart ==
  Spec => /\ []On("kept", KeptDaemon!Startup!TypeOK)
          /\ [][On("kept", KeptDaemon!Startup!KeepsToken)]_vars
<1>1. Init /\ part = "kept" => KeptDaemon!Startup!Init
  BY DEF Init, startInit
<1>2. [Next]_vars => /\ part = "kept" <=> (part = "kept")'
                     /\ part = "kept" => [KeptDaemon!Startup!Next]_KeptDaemon!Startup!vars
                     /\ part = "kept" /\ UNCHANGED KeptDaemon!Startup!vars => UNCHANGED vars
  BY DEF Next, queryNext, serveNext, execNext, startNext, streamsNext, sseNext,
     clocksNext, bootNext, aptNext, listNext, logsNext, pageNext, chatNext, vars,
     queryVars, serveVars, execVars, startVars, streamsVars, sseVars, clocksVars,
     bootVars, aptVars, listVars, logsVars, pageVars, chatVars, KeptDaemon!Startup!vars
<1>3. KeptDaemon!Startup!Spec => /\ []KeptDaemon!Startup!TypeOK
                                 /\ KeptDaemon!Startup!TokenKept
  BY KeptDaemon!StartTypeCorrect, KeptDaemon!TokenIsKept,
     ComponentsAssumption DEF ComponentsAssumption
<1> QED
  BY <1>1, <1>2, <1>3, PTL DEF On, Spec, KeptDaemon!Startup!Spec,
     KeptDaemon!Startup!TokenKept

\* Every command line and setting, resolvePort and resolveFleet.
LEMMA ConfigPart ==
  Spec => /\ []On("config", ConfigDaemon!Startup!TypeOK)
          /\ []On("config", ConfigDaemon!Startup!ServesSoundly)
<1>1. Init /\ part = "config" => ConfigDaemon!Startup!Init
  BY DEF Init, startInit
<1>2. [Next]_vars => /\ part = "config" <=> (part = "config")'
                     /\ part = "config" => [ConfigDaemon!Startup!Next]_ConfigDaemon!Startup!vars
  BY DEF Next, startNext, vars, startVars, ConfigDaemon!Startup!vars
<1>3. ConfigDaemon!Startup!Spec => /\ []ConfigDaemon!Startup!TypeOK
                                   /\ []ConfigDaemon!Startup!ServesSoundly
  BY ConfigDaemon!StartTypeCorrect, ConfigDaemon!ServiceSound,
     ComponentsAssumption DEF ComponentsAssumption
<1> QED
  BY <1>1, <1>2, <1>3, PTL DEF On, Spec, ConfigDaemon!Startup!Spec

\* ensureStream and cancelStream.
LEMMA StreamsPart ==
  Spec => /\ []On("streams", Daemon!Streams!TypeOK)
          /\ []On("streams", Daemon!Streams!CancelsOwn)
<1>1. Init /\ part = "streams" => Daemon!Streams!Init
  BY DEF Init, streamsInit
<1>2. [Next]_vars => /\ part = "streams" <=> (part = "streams")'
                     /\ part = "streams" => [Daemon!Streams!Next]_Daemon!Streams!vars
  BY DEF Next, streamsNext, vars, streamsVars, Daemon!Streams!vars
<1>3. Daemon!Streams!Spec => []Daemon!Streams!TypeOK /\ []Daemon!Streams!CancelsOwn
  BY Daemon!StreamsTypeCorrect, Daemon!CancelsOnlyOwn,
     ComponentsAssumption DEF ComponentsAssumption
<1> QED
  BY <1>1, <1>2, <1>3, PTL DEF On, Spec, Daemon!Streams!Spec

\* writeSSE and StreamEvents.
LEMMA SSEPart ==
  Spec => /\ []On("sse", Client!TypeOK)
          /\ On("sse", Client!Promise!Init)
          /\ [][On("sse", [Client!Promise!Next]_<<sent, got>>)]_vars
<1>1. Init /\ part = "sse" => Client!Init
  BY DEF Init, sseInit
<1>2. [Next]_vars => /\ part = "sse" <=> (part = "sse")'
                     /\ part = "sse" => [Client!Next]_Client!vars
  BY DEF Next, sseNext, vars, sseVars, Client!vars
<1>3. Client!Spec => []Client!TypeOK /\ Client!StreamKeepsPromise
  BY Client!StreamTypeCorrect, Client!StreamImplementsPipe,
     ComponentsAssumption DEF ComponentsAssumption
<1> QED
  BY <1>1, <1>2, <1>3, PTL DEF On, Spec, Client!Spec, Client!StreamKeepsPromise,
     Client!Promise!Spec

\* heartbeatLoop, pruneLoop and PruneStale.
LEMMA ClocksPart ==
  Spec => /\ []On("clocks", Daemon!Clocks!TypeOK)
          /\ []On("clocks", Daemon!Clocks!EvictionTrue)
<1>1. Init /\ part = "clocks" => Daemon!Clocks!Init
  BY DEF Init, clocksInit
<1>2. [Next]_vars => /\ part = "clocks" <=> (part = "clocks")'
                     /\ part = "clocks" => [Daemon!Clocks!Next]_Daemon!Clocks!vars
  BY DEF Next, clocksNext, vars, clocksVars, Daemon!Clocks!vars
<1>3. Daemon!Clocks!Spec => []Daemon!Clocks!TypeOK /\ []Daemon!Clocks!EvictionTrue
  BY Daemon!ClocksTypeCorrect, Daemon!EvictionSound,
     ComponentsAssumption DEF ComponentsAssumption
<1> QED
  BY <1>1, <1>2, <1>3, PTL DEF On, Spec, Daemon!Clocks!Spec

\* walkCriticalChain.
LEMMA BootPart ==
  Spec => /\ []On("boot", HostTools!Boot!TypeOK)
          /\ []On("boot", HostTools!Boot!BootTrue)
<1>1. Init /\ part = "boot" => HostTools!Boot!Init
  BY DEF Init, bootInit
<1>2. [Next]_vars => /\ part = "boot" <=> (part = "boot")'
                     /\ part = "boot" => [HostTools!Boot!Next]_HostTools!Boot!vars
  BY DEF Next, bootNext, vars, bootVars, HostTools!Boot!vars
<1>3. HostTools!Boot!Spec => []HostTools!Boot!TypeOK /\ []HostTools!Boot!BootTrue
  BY HostTools!BootTypeCorrect, HostTools!BootIsTrue,
     ComponentsAssumption DEF ComponentsAssumption
<1> QED
  BY <1>1, <1>2, <1>3, PTL DEF On, Spec, HostTools!Boot!Spec

\* composeBootTime.
LEMMA StampsPart ==
  Spec => []On("stamps", StillTools!Boot!BootTrue)
<1>1. Init /\ part = "stamps" => StillTools!Boot!Init
  BY DEF Init, bootInit
<1>2. [Next]_vars => /\ part = "stamps" <=> (part = "stamps")'
                     /\ part = "stamps" => [StillTools!Boot!Next]_StillTools!Boot!vars
  BY DEF Next, bootNext, vars, bootVars, StillTools!Boot!vars
<1>3. StillTools!Boot!Spec => []StillTools!Boot!BootTrue
  BY StillTools!BootIsTrue, ComponentsAssumption DEF ComponentsAssumption
<1> QED
  BY <1>1, <1>2, <1>3, PTL DEF On, Spec, StillTools!Boot!Spec

\* apt_update_status while apt runs and sources are removed.
LEMMA AptPart ==
  Spec => /\ []On("apt", HostTools!Apt!TypeOK)
          /\ []On("apt", HostTools!Apt!PendingTrue)
          /\ []On("apt", HostTools!Apt!UpToDateReal)
<1>1. Init /\ part = "apt" => HostTools!Apt!Init
  BY DEF Init, aptInit
<1>2. [Next]_vars => /\ part = "apt" <=> (part = "apt")'
                     /\ part = "apt" => [HostTools!Apt!Next]_HostTools!Apt!vars
  BY DEF Next, aptNext, vars, aptVars, HostTools!Apt!vars
<1>3. HostTools!Apt!Spec => /\ []HostTools!Apt!TypeOK
                            /\ []HostTools!Apt!PendingTrue
                            /\ []HostTools!Apt!UpToDateReal
  BY HostTools!AptTypeCorrect, HostTools!PendingIsTrue, HostTools!UpToDateIsReal,
     ComponentsAssumption DEF ComponentsAssumption
<1> QED
  BY <1>1, <1>2, <1>3, PTL DEF On, Spec, HostTools!Apt!Spec

\* apt_update_status while no index is replaced.
LEMMA AptStillPart ==
  Spec => []On("aptStill", StillTools!Apt!SecurityReported)
<1>1. Init /\ part = "aptStill" => StillTools!Apt!Init
  BY DEF Init, aptInit
<1>2. [Next]_vars => /\ part = "aptStill" <=> (part = "aptStill")'
                     /\ part = "aptStill" => [StillTools!Apt!Next]_StillTools!Apt!vars
  BY DEF Next, aptNext, vars, aptVars, StillTools!Apt!vars
<1>3. StillTools!Apt!Spec => []StillTools!Apt!SecurityReported
  BY StillTools!SecurityIsReported, ComponentsAssumption DEF ComponentsAssumption
<1> QED
  BY <1>1, <1>2, <1>3, PTL DEF On, Spec, StillTools!Apt!Spec

\* apt_update_status while dpkg is caught half-way and Release files vanish.
LEMMA AptFaultsPart ==
  Spec => /\ []On("aptFaults", FaultTools!Apt!TypeOK)
          /\ []On("aptFaults", FaultTools!Apt!PendingReported)
<1>1. Init /\ part = "aptFaults" => FaultTools!Apt!Init
  BY DEF Init, aptInit
<1>2. [Next]_vars => /\ part = "aptFaults" <=> (part = "aptFaults")'
                     /\ part = "aptFaults" => [FaultTools!Apt!Next]_FaultTools!Apt!vars
  BY DEF Next, aptNext, vars, aptVars, FaultTools!Apt!vars
<1>3. FaultTools!Apt!Spec => /\ []FaultTools!Apt!TypeOK
                             /\ []FaultTools!Apt!PendingReported
  BY FaultTools!AptTypeCorrect, FaultTools!PendingIsReported,
     ComponentsAssumption DEF ComponentsAssumption
<1> QED
  BY <1>1, <1>2, <1>3, PTL DEF On, Spec, FaultTools!Apt!Spec

\* The nine tools that list.
LEMMA ListPart ==
  Spec => /\ []On("list", HostTools!List!TypeOK)
          /\ []On("list", HostTools!List!StableListed)
          /\ []On("list", HostTools!List!NothingInvented)
<1>1. Init /\ part = "list" => HostTools!List!Init
  BY DEF Init, listInit
<1>2. [Next]_vars => /\ part = "list" <=> (part = "list")'
                     /\ part = "list" => [HostTools!List!Next]_HostTools!List!vars
  BY DEF Next, listNext, vars, listVars, HostTools!List!vars
<1>3. HostTools!List!Spec => /\ []HostTools!List!TypeOK
                             /\ []HostTools!List!StableListed
                             /\ []HostTools!List!NothingInvented
  BY HostTools!ListTypeCorrect, HostTools!StableIsListed, HostTools!NothingIsInvented,
     ComponentsAssumption DEF ComponentsAssumption
<1> QED
  BY <1>1, <1>2, <1>3, PTL DEF On, Spec, HostTools!List!Spec

\* The same with limits at their edges and filters.
LEMMA FilterPart ==
  Spec => /\ []On("filter", StillTools!List!TypeOK)
          /\ []On("filter", StillTools!List!StableListed)
          /\ []On("filter", StillTools!List!NothingInvented)
<1>1. Init /\ part = "filter" => StillTools!List!Init
  BY DEF Init, listInit
<1>2. [Next]_vars => /\ part = "filter" <=> (part = "filter")'
                     /\ part = "filter" => [StillTools!List!Next]_StillTools!List!vars
  BY DEF Next, listNext, vars, listVars, StillTools!List!vars
<1>3. StillTools!List!Spec => /\ []StillTools!List!TypeOK
                              /\ []StillTools!List!StableListed
                              /\ []StillTools!List!NothingInvented
  BY StillTools!ListTypeCorrect, StillTools!StableIsListed, StillTools!NothingIsInvented,
     ComponentsAssumption DEF ComponentsAssumption
<1> QED
  BY <1>1, <1>2, <1>3, PTL DEF On, Spec, StillTools!List!Spec

\* read_journal.
LEMMA LogsPart ==
  Spec => /\ []On("logs", HostTools!Logs!TypeOK)
          /\ []On("logs", HostTools!Logs!ConditionsMet)
<1>1. Init /\ part = "logs" => HostTools!Logs!Init
  BY DEF Init, logsInit
<1>2. [Next]_vars => /\ part = "logs" <=> (part = "logs")'
                     /\ part = "logs" => [HostTools!Logs!Next]_HostTools!Logs!vars
  BY DEF Next, logsNext, vars, logsVars, HostTools!Logs!vars
<1>3. HostTools!Logs!Spec => /\ []HostTools!Logs!TypeOK
                             /\ []HostTools!Logs!ConditionsMet
  BY HostTools!LogsTypeCorrect, HostTools!ConditionsAreMet,
     ComponentsAssumption DEF ComponentsAssumption
<1> QED
  BY <1>1, <1>2, <1>3, PTL DEF On, Spec, HostTools!Logs!Spec

\* read_dmesg.
LEMMA TailPart ==
  Spec => /\ []On("tail", StillTools!Logs!TypeOK)
          /\ []On("tail", StillTools!Logs!TailExact)
<1>1. Init /\ part = "tail" => StillTools!Logs!Init
  BY DEF Init, logsInit
<1>2. [Next]_vars => /\ part = "tail" <=> (part = "tail")'
                     /\ part = "tail" => [StillTools!Logs!Next]_StillTools!Logs!vars
  BY DEF Next, logsNext, vars, logsVars, StillTools!Logs!vars
<1>3. StillTools!Logs!Spec => /\ []StillTools!Logs!TypeOK
                              /\ []StillTools!Logs!TailExact
  BY StillTools!LogsTypeCorrect, StillTools!TailIsExact,
     ComponentsAssumption DEF ComponentsAssumption
<1> QED
  BY <1>1, <1>2, <1>3, PTL DEF On, Spec, StillTools!Logs!Spec

\* The page's token form, connect and openStream.
LEMMA FormPart ==
  Spec => /\ []On("form", Client!Console!TypeOK)
          /\ []On("form", Client!Console!OneFollower)
<1>1. Init /\ part = "form" => Client!Console!Init
  BY DEF Init, pageInit
<1>2. [Next]_vars => /\ part = "form" <=> (part = "form")'
                     /\ part = "form" => [Client!Console!Next]_Client!Console!vars
  BY DEF Next, pageNext, vars, pageVars, Client!Console!vars, Client!Console!form,
     Client!Console!page, Client!Console!daemon
<1>3. Client!Console!Spec => []Client!Console!TypeOK /\ []Client!Console!OneFollower
  BY Client!ConsoleTypeCorrect, Client!FollowsOne,
     ComponentsAssumption DEF ComponentsAssumption
<1> QED
  BY <1>1, <1>2, <1>3, PTL DEF On, Spec, Client!Console!Spec

\* The same with more connects.
LEMMA FormAgainPart ==
  Spec => /\ []On("formAgain", PlainClient!Console!TypeOK)
          /\ []On("formAgain", PlainClient!Console!OneFollower)
<1>1. Init /\ part = "formAgain" => PlainClient!Console!Init
  BY DEF Init, pageInit
<1>2. [Next]_vars => /\ part = "formAgain" <=> (part = "formAgain")'
                     /\ part = "formAgain" => [PlainClient!Console!Next]_PlainClient!Console!vars
  BY DEF Next, pageNext, vars, pageVars, PlainClient!Console!vars,
     PlainClient!Console!form, PlainClient!Console!page, PlainClient!Console!daemon
<1>3. PlainClient!Console!Spec => /\ []PlainClient!Console!TypeOK
                                  /\ []PlainClient!Console!OneFollower
  BY PlainClient!ConsoleTypeCorrect, PlainClient!FollowsOne,
     ComponentsAssumption DEF ComponentsAssumption
<1> QED
  BY <1>1, <1>2, <1>3, PTL DEF On, Spec, PlainClient!Console!Spec

\* Messages of the chat with the provider switched between them.
LEMMA ChatPart ==
  Spec => /\ []On("chat", PlainClient!Chat!TypeOK)
          /\ []On("chat", PlainClient!Chat!RequestsPaired)
<1>1. Init /\ part = "chat" => PlainClient!Chat!Init
  BY DEF Init, chatInit
<1>2. [Next]_vars => /\ part = "chat" <=> (part = "chat")'
                     /\ part = "chat" => [PlainClient!Chat!Next]_PlainClient!Chat!vars
  BY DEF Next, chatNext, vars, chatVars, PlainClient!Chat!vars
<1>3. PlainClient!Chat!Spec => /\ []PlainClient!Chat!TypeOK
                               /\ []PlainClient!Chat!RequestsPaired
  BY PlainClient!ChatTypeCorrect, PlainClient!RequestsArePaired,
     ComponentsAssumption DEF ComponentsAssumption
<1> QED
  BY <1>1, <1>2, <1>3, PTL DEF On, Spec, PlainClient!Chat!Spec

\* Clear of the chat, mcp.reset.
LEMMA ClearPart ==
  Spec => /\ []On("chatClear", Client!Chat!TypeOK)
          /\ []On("chatClear", Client!Chat!RequestsPaired)
          /\ []On("chatClear", Client!Chat!ClearRepairs)
<1>1. Init /\ part = "chatClear" => Client!Chat!Init
  BY DEF Init, chatInit
<1>2. [Next]_vars => /\ part = "chatClear" <=> (part = "chatClear")'
                     /\ part = "chatClear" => [Client!Chat!Next]_Client!Chat!vars
  BY DEF Next, chatNext, vars, chatVars, Client!Chat!vars
<1>3. Client!Chat!Spec => /\ []Client!Chat!TypeOK
                          /\ []Client!Chat!RequestsPaired
                          /\ []Client!Chat!ClearRepairs
  BY Client!ChatTypeCorrect, Client!RequestsArePaired, Client!ClearAlwaysRepairs,
     ComponentsAssumption DEF ComponentsAssumption
<1> QED
  BY <1>1, <1>2, <1>3, PTL DEF On, Spec, Client!Chat!Spec

-----------------------------------------------------------------------------
(***************************************************************************)
(* The properties of the runs                                              *)
(***************************************************************************)

\* The state of every component keeps its type.
THEOREM ComponentsTypeCorrect == Spec => []TypeOK
  BY QueryPart, QueryRestartPart, ServePart, ExecPart, StartPart, KeptPart,
     ConfigPart, StreamsPart, SSEPart, ClocksPart, BootPart, AptPart, AptFaultsPart,
     ListPart, FilterPart, LogsPart, TailPart, FormPart, FormAgainPart,
     ChatPart, ClearPart, PTL DEF TypeOK

\* fleet_query reports an error of a member only if that member failed or the caller
\* gave up (FanOut).
THEOREM NobodyIsBlamed == Spec => []OthersUnharmed
  BY QueryPart, QueryRestartPart, PTL DEF OthersUnharmed

\* fleet_query implements Gather: one answer per member of the roster, under its own
\* NodeID, before the query ends (FanOut).
THEOREM QueriesImplementGather == Spec => QueryKeepsPromise
  BY QueryPart, QueryRestartPart, PTL DEF QueryKeepsPromise

\* Nodes that stop together never wait for each other (Server.Serve).
THEOREM NodesNeverWaitMutually == Spec => NoMutualWait
  BY ServePart, PTL DEF NoMutualWait

\* Runner.Run tells the truth about the output and about ErrOutputTooLarge.
THEOREM ResultsAreTrue == Spec => []ResultTrue
  BY ExecPart, PTL DEF ResultTrue

\* A daemon that serves accepts the token that snap get shows and has a valid
\* configuration (EnsureToken, resolvePort, resolveFleet).
THEOREM DaemonsServeSoundly == Spec => []ServesSoundly
  BY StartPart, ConfigPart, PTL DEF ServesSoundly

\* EnsureToken never replaces a token that exists and can be read.
THEOREM TokensAreKept == Spec => TokenKept
  BY KeptPart, PTL DEF TokenKept

\* cancelStream cancels the stream it took out of the map and those opened from it.
THEOREM StreamsCancelOwn == Spec => []CancelsOwn
  BY StreamsPart, PTL DEF CancelsOwn

\* The event stream implements Pipe: on each connection a prefix of what was sent
\* (writeSSE, StreamEvents).
THEOREM StreamsImplementPipe == Spec => StreamKeepsPromise
  BY SSEPart, PTL DEF StreamKeepsPromise

\* PruneStale evicts a peer that died in bounded time and none that beats in time,
\* although it compares two clocks.
THEOREM EvictionIsTrue == Spec => []EvictionTrue
  BY ClocksPart, PTL DEF EvictionTrue

\* The chain of walkCriticalChain is one of After= and the phases of composeBootTime
\* partition the boot.
THEOREM BootsAreTrue == Spec => []BootTrue
  BY BootPart, StampsPart, PTL DEF BootTrue

\* apt_update_status reports an update that was pending throughout the call, and none
\* that was pending at no moment of it.
THEOREM UpdatesAreTrue == Spec => []PendingTrue
  BY AptPart, AptFaultsPart, PTL DEF PendingTrue

\* "Up to date" is only answered when there was such a moment (apt_update_status).
THEOREM UpToDateIsTrue == Spec => []UpToDateReal
  BY AptPart, PTL DEF UpToDateReal

\* A security update is reported as one in every directory order (UpgradablePackages).
THEOREM SecurityIsAlwaysReported == Spec => []SecurityReported
  BY AptStillPart, PTL DEF SecurityReported

\* What was there throughout the call and is asked for is listed, or the list is full
\* (unless list_processes is asked for a state, process.go:80), and nothing is listed
\* that was not there at some moment of it (ListProcesses and the other lists).
THEOREM ListingIsTrue == Spec => []ListingTrue
<1>1. /\ On("list", HostTools!List!StableListed) /\ On("list", HostTools!List!NothingInvented)
      /\ On("filter", StillTools!List!StableListed)
      /\ On("filter", StillTools!List!NothingInvented)
      => ListingTrue
  BY DEF ListingTrue, On
<1> QED
  BY <1>1, ListPart, FilterPart, PTL

\* read_dmesg answers with exactly the last lines; read_journal refuses what is not allowed
\* and answers any other request, boot 0 included, with the latest entries that meet all of
\* its conditions (tailLines, journalArgs).
THEOREM LogsAreTrue == Spec => []LogsTrue
<1>1. On("logs", HostTools!Logs!ConditionsMet) /\ On("tail", StillTools!Logs!TailExact)
      => LogsTrue
  BY DEF LogsTrue, On
<1> QED
  BY <1>1, LogsPart, TailPart, PTL

\* The page has one stream and one interval at most, unless connects overlap.
THEOREM PagesFollowOne == Spec => []OneFollower
  BY FormPart, FormAgainPart, PTL DEF OneFollower

\* Every request to the model pairs the calls of the model with their results and is in the
\* order its provider takes, unless Clear was pressed during the send (app.js, the chat).
THEOREM RequestsAlwaysPaired == Spec => []RequestsPaired
  BY ChatPart, ClearPart, PTL DEF RequestsPaired

\* Clear repairs the session with the daemon (mcp.reset).
THEOREM ClearRepairsAlways == Spec => []ClearRepairs
  BY ClearPart, PTL DEF ClearRepairs
=============================================================================
