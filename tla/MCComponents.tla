---------------------------- MODULE MCComponents ----------------------------
(***************************************************************************)
(* Instances for TLC of Components, and next to its parts those of the     *)
(* modules that compare data with a reference definition.                  *)
(*                                                                         *)
(* SafetySpec has the larger instances, ProgressSpec smaller ones with the *)
(* fairness of each component.                                             *)
(***************************************************************************)
EXTENDS Components

VARIABLES
  \* DebVersion
  a, b, res,
  \* AptFiles
  file

-----------------------------------------------------------------------------
(***************************************************************************)
(* The parts of Components                                                 *)
(***************************************************************************)

NoFlags == [bind |-> "default", port |-> "", fleet |-> FALSE, join |-> "", advertise |-> ""]
NoConf  == [bind |-> "", port |-> "", fleet |-> "", join |-> "", advertise |-> ""]

ServiceSettings == {[NoConf EXCEPT !.port = "8765", !.bind = s, !.fleet = "on",
                                   !.advertise = "url"] : s \in {"", "any"}}

OnePhase == [firmware |-> 0, loader |-> 0, initrd |-> 0, userspace |-> 1, finish |-> 2]

Pockets == {"main", "security", "backports"}

AllOrders == {s \in [1 .. 3 -> Pockets] : {s[i] : i \in 1 .. 3} = Pockets}

TwoOrders == {<<"main", "security", "backports">>, <<"backports", "main", "security">>}

\* The package of "main" is for this architecture, for all, or for another.
OwnOrAll == {[p \in Pockets |-> IF p = "main" THEN m ELSE "own"] :
               m \in {"own", "all", "foreign"}}

ToolNames == INSTANCE Listing WITH
  Names <- {}, Sizes <- {}, Kinds <- {}, Tools <- {}, Limits <- {}, Wants <- {},
  Default <- 1, MaxLimit <- 0, MaxEvents <- 0, events <- listEvents, call <- listCall

Instances == [
  \* Node 1 asks; 2 and 3 are members with an address of their own.
  query |-> [NodeIDs |-> 1 .. 3, URLs |-> 1 .. 3, SelfID |-> 1,
             Home |-> [n \in 1 .. 3 |-> n], Timeout |-> 1, MaxChanges |-> 1],
  \* One other member.
  queryPair |-> [NodeIDs |-> 1 .. 2, URLs |-> 1 .. 2, SelfID |-> 1,
                 Home |-> [n \in 1 .. 2 |-> n], Timeout |-> 1, MaxChanges |-> 1],
  \* 2 and 3 are two lives of the daemon at one address.
  queryRestart |-> [NodeIDs |-> 1 .. 3, URLs |-> 1 .. 2, SelfID |-> 1,
                    Home |-> [n \in 1 .. 3 |-> IF n = 1 THEN 1 ELSE 2],
                    Timeout |-> 1, MaxChanges |-> 2],

  serve      |-> [Nodes |-> 1 .. 2, Grace |-> 2, MaxRequests |-> 1],
  \* A grace period of one tick.
  serveShort |-> [Nodes |-> 1 .. 2, Grace |-> 1, MaxRequests |-> 1],

  exec      |-> [MaxOutput |-> 2, MaxSize |-> 4, PipeSize |-> 2],
  execSmall |-> [MaxOutput |-> 1, MaxSize |-> 3, PipeSize |-> 1],

  \* The snap's service, with every fault.
  start |-> [Procs |-> {"p1"}, InSnap |-> TRUE, EnvToken |-> 0, Flags |-> {NoFlags},
             Settings |-> ServiceSettings, MaxFaults |-> 3, MaxTokens |-> 5,
             FaultKinds |-> {"get", "set", "mirror", "crash", "operator"}],
  \* Where the token can be read, and nobody else sets it between the read and
  \* the write of a first start.
  kept |-> [Procs |-> {"p1"}, InSnap |-> TRUE, EnvToken |-> 0, Flags |-> {NoFlags},
            Settings |-> ServiceSettings, MaxFaults |-> 3, MaxTokens |-> 4,
            FaultKinds |-> {"set", "mirror", "crash"}],
  \* Every command line, and the FLEETMIND_* variables, which nobody else checks.
  config |-> [Procs |-> {"p1"}, InSnap |-> FALSE, EnvToken |-> 1, FaultKinds |-> {},
              MaxFaults |-> 0, MaxTokens |-> 1,
    Flags |-> [bind : {"default", "loop", "", "any"}, port : {"", "9000"},
               fleet : BOOLEAN, join : {"", "url", "bad"}, advertise : {"", "url", "bad"}],
    Settings |-> [bind : {"", "any"}, port : {"", "9001", "bad"}, fleet : {"", "on"},
                  join : {"", "url", "bad"}, advertise : {"", "url", "bad"}]],

  streams    |-> [Peers |-> {"p", "q"}, MaxCtx |-> 2],
  \* One peer.
  streamsOne |-> [Peers |-> {"p"}, MaxCtx |-> 2],

  sse      |-> [Types |-> {"added", "removed"}, Peers |-> {"p", "q"}, MaxSent |-> 3,
                MaxConns |-> 2],
  \* One kind of event.
  ssePlain |-> [Types |-> {"added"}, Peers |-> {"p"}, MaxSent |-> 3, MaxConns |-> 2],

  \* Ticks of 5 s: the defaults 10 s and 30 s, delivery within 10 s, and clocks up
  \* to 10 s apart, which is what these leave.
  clocks |-> [Interval |-> 2, DeadAfter |-> 6, Delay |-> 2, Fast |-> 2, MaxNow |-> 13],

  \* Every After= graph on three units in which the target waits for one at least,
  \* cycles included; 2 and 3 are alike.
  boot |-> [Units |-> 1 .. 3, Target |-> 1, BootEnd |-> 2, Phases |-> {OnePhase},
            MaxDepth |-> 3, MaxChanges |-> 1,
    Graphs |-> {g \in [1 .. 3 -> SUBSET (1 .. 3)] :
                  2 \in g[1] /\ \A u \in 1 .. 3 : u \notin g[u]}],
  \* Every order of the boot timestamps.
  stamps |-> [Units |-> {1}, Target |-> 1, BootEnd |-> 1, MaxDepth |-> 2,
              MaxChanges |-> 0, Graphs |-> {[u \in {1} |-> {}]},
    Phases |-> [firmware : 0 .. 4, loader : 0 .. 4, initrd : 0 .. 4, userspace : 0 .. 4,
                finish : 0 .. 4]],

  \* apt update and apt upgrade run, and sources are removed.
  apt |-> [Pockets |-> Pockets, Orders |-> TwoOrders, Versions |-> 1 .. 2,
           Archs |-> OwnOrAll, Kinds |-> {"update", "upgrade", "drop"}, MaxEvents |-> 2],
  \* Every directory order; no index is replaced.
  aptStill |-> [Pockets |-> Pockets, Orders |-> AllOrders, Versions |-> 1 .. 3,
                Archs |-> {[p \in Pockets |-> "own"]}, Kinds |-> {"upgrade", "drop"},
                MaxEvents |-> 1],
  \* dpkg is caught half-way, and Release files vanish.
  aptFaults |-> [Pockets |-> Pockets, Orders |-> TwoOrders, Versions |-> 1 .. 2,
                 Archs |-> OwnOrAll, Kinds |-> {"update", "unlabel", "unpack"},
                 MaxEvents |-> 2],

  \* Every tool, two changes of the host.
  list |-> [Names |-> 1 .. 3, Sizes |-> 0 .. 1, Kinds |-> {"S"},
            Tools |-> ToolNames!AllTools, Limits |-> {0}, Wants |-> {""},
            Default |-> 2, MaxLimit |-> 2, MaxEvents |-> 2],
  \* Limits at their edges, and filters.
  filter |-> [Names |-> 1 .. 3, Sizes |-> {1}, Kinds |-> {"R", "S"},
              Tools |-> {ToolNames!list_processes, ToolNames!list_systemd_units,
                         ToolNames!list_packages},
              Limits |-> -1 .. 3, Wants |-> {"", "S"}, Default |-> 2, MaxLimit |-> 2,
              MaxEvents |-> 1],

  \* Every condition, this boot, the previous one, and boots one may not ask for.
  logs |-> [Units |-> {"a", "b"}, Priorities |-> 0 .. 1, Times |-> 1 .. 2,
            Patterns |-> {"x"}, Lines |-> 0 .. 3, Boots |-> -2 .. 1, MaxBack |-> 1,
            DefaultLines |-> 1, MaxLines |-> 2, MaxChars |-> 0, MaxEntries |-> 2,
            MaxBoots |-> 2],
  \* The ring buffer, limits at their edges.
  tail |-> [Units |-> {}, Priorities |-> {}, Times |-> {}, Patterns |-> {},
            Lines |-> -1 .. 4, Boots |-> {0}, MaxBack |-> 0, DefaultLines |-> 2,
            MaxLines |-> 3, MaxChars |-> 6, MaxEntries |-> 0, MaxBoots |-> 2],

  \* The roster, with events that are lost and requests that fail.
  console |-> [Nodes |-> {"n1"}, Tokens |-> {"right"}, MaxConnects |-> 2, MaxLoads |-> 1,
               MaxChanges |-> 1, MaxFaults |-> 1],
  \* The token form, pressed at any moment.
  form |-> [Nodes |-> {"n1"}, Tokens |-> {"right", "wrong", "none"}, MaxConnects |-> 2,
            MaxLoads |-> 0, MaxChanges |-> 0, MaxFaults |-> 0],
  \* Three connects.
  formAgain |-> [Nodes |-> {"n1"}, Tokens |-> {"right", "none"}, MaxConnects |-> 3,
                 MaxLoads |-> 0, MaxChanges |-> 0, MaxFaults |-> 0],

  \* The provider is switched between two messages, and the daemon forgets the session.
  chat |-> [Providers |-> {"anthropic", "openai"}, MAX_TOOL_ROUND_TRIPS |-> 2,
            MaxUses |-> 2, MaxSends |-> 2, MaxClears |-> 1, MaxSwitches |-> 1,
            MaxLosses |-> 1, MaxFaults |-> 1],
  \* One message, likewise.
  chatOnce |-> [Providers |-> {"anthropic", "openai"}, MAX_TOOL_ROUND_TRIPS |-> 2,
                MaxUses |-> 2, MaxSends |-> 1, MaxClears |-> 1, MaxSwitches |-> 0,
                MaxLosses |-> 1, MaxFaults |-> 1],
  \* Sessions that are forgotten and cleared again and again.
  chatClear |-> [Providers |-> {"anthropic"}, MAX_TOOL_ROUND_TRIPS |-> 2,
                 MaxUses |-> 1, MaxSends |-> 3, MaxClears |-> 2, MaxSwitches |-> 0,
                 MaxLosses |-> 2, MaxFaults |-> 0]]

\* By this name TLC evaluates them once.
MCParam == Instances

-----------------------------------------------------------------------------
(***************************************************************************)
(* Comparisons with a reference definition                                 *)
(***************************************************************************)

\* The bytes ~ a - : 0 1
Deb == INSTANCE DebVersion WITH
  Bytes <- {126, 97, 45, 58, 48, 49}, MaxA <- 3, MaxB <- 3

Field(k, v) == [is |-> "field", key |-> k, val |-> v]

\* Fields that come twice, both names of a suite.
Files == INSTANCE AptFiles WITH
  Fields <- {Field("Suite", "noble-security"), Field("Suite", "noble"),
             Field("Codename", "noble"), Field("Codename", "sid"),
             Field("Origin", "Ubuntu")},
  MaxLines <- 5

ASSUME ReferenceAssumption ==
  /\ Deb!DebVersionAssumption /\ Files!AptFilesAssumption

versionsVars == <<a, b, res>>
filesVars == <<file>>

versionsIdle ==
  /\ a = 0 /\ b = 0 /\ res = 0

filesIdle ==
  /\ file = 0

versionsInit ==
  \/ part = "versions" /\ Deb!Init
  \/ part \notin {"versions"} /\ versionsIdle

versionsNext ==
  \/ part = "versions" /\ Deb!Compare
  \/ part \notin {"versions"} /\ UNCHANGED versionsVars

filesInit ==
  \/ part = "files" /\ Files!Init
  \/ part \notin {"files"} /\ filesIdle

filesNext ==
  \/ part = "files" /\ Files!Next
  \/ part \notin {"files"} /\ UNCHANGED filesVars

allVars == <<vars, versionsVars, filesVars>>

AllInit == Init /\ versionsInit /\ filesInit

AllNext == Next /\ versionsNext /\ filesNext

SafetyParts ==
  {"query", "queryRestart", "serve", "exec", "start", "kept", "config", "streams",
   "sse", "clocks", "versions", "boot", "stamps", "apt", "aptStill", "aptFaults",
   "files", "list", "filter", "logs", "tail", "form", "formAgain", "chat", "chatClear"}

SafetyInit == part \in SafetyParts /\ AllInit

SafetySpec == SafetyInit /\ [][AllNext]_allVars

\* The listings with filters alone.
FilterSpec == part = "filter" /\ AllInit /\ [][AllNext]_allVars

-----------------------------------------------------------------------------
(***************************************************************************)
(* The fairness of each component (see there), for its part                *)
(***************************************************************************)

ProgressParts ==
  {"queryPair", "serveShort", "execSmall", "start", "streamsOne", "ssePlain",
   "console", "chatOnce"}

queryFairness ==
  /\ WF_queryVars(part = "queryPair" /\ (QueryPair!Ask \/ QueryPair!Refuse))
  /\ WF_queryVars(part = "queryPair" /\ QueryPair!Conclude)
  /\ WF_queryVars(part = "queryPair" /\ QueryPair!Tick)
  /\ \A i \in 1 .. 2 :
       WF_queryVars(part = "queryPair" /\ i \in DOMAIN roster
                      /\ (QueryPair!TimedOut(i) \/ QueryPair!Store(i)))

serveFairness ==
  /\ WF_serveVars(part = "serveShort" /\ ServeShort!Tick)
  /\ \A n \in 1 .. 2 :
       /\ WF_serveVars(part = "serveShort" /\ ServeShort!ManagerStops(n))
       /\ WF_serveVars(part = "serveShort" /\ ServeShort!Drained(n))
       /\ WF_serveVars(part = "serveShort"
                         /\ (ServeShort!StartShutdown(n) \/ ServeShort!ListenError(n)))
       /\ WF_serveVars(part = "serveShort" /\ ServeShort!Return(n))
       /\ WF_serveVars(part = "serveShort" /\ ServeShort!Disconnect(n, 3 - n))

execFairness ==
  /\ WF_execVars(part = "execSmall" /\ ExecSmall!CtxDone)
  /\ WF_execVars(part = "execSmall" /\ ExecSmall!Kill)
  /\ WF_execVars(part = "execSmall" /\ ExecSmall!Return)
  /\ \A s \in {"stdout", "stderr"} :
       /\ WF_execVars(part = "execSmall" /\ ExecSmall!Eof(s))
       /\ WF_execVars(part = "execSmall" /\ \E k \in 1 .. 3 : ExecSmall!Copy(s, k))

startFairness ==
  /\ WF_startVars(part = "start" /\ Daemon!Startup!Launch("p1"))
  /\ WF_startVars(part = "start" /\ Daemon!Startup!Step("p1"))

streamsFairness ==
  /\ \A c \in 1 .. 4 : WF_streamsVars(part = "streamsOne" /\ StreamsOne!Step(c))
  /\ \A id \in 1 .. 2 :
       SF_streamsVars(part = "streamsOne" /\ id \in StreamsOne!Started
                        /\ StreamsOne!runStreamReturns(id))

sseFairness ==
  /\ WF_sseVars(part = "ssePlain" /\ PlainClient!ReadLine)
  /\ WF_sseVars(part = "ssePlain" /\ PlainClient!Reconnect)

consoleFairness ==
  /\ WF_pageVars(part = "console" /\ Console!Poll)
  /\ WF_pageVars(part = "console" /\ Console!Serve(1))
  /\ WF_pageVars(part = "console" /\ Console!Apply(1))
  /\ \A c \in 1 .. 2 :
       WF_pageVars(part = "console" /\ c \in DOMAIN connects
                     /\ (Console!Opened(c) \/ Console!Denied(c) \/ Console!Thrown(c)
                           \/ Console!handleFrame(c)))

chatFairness ==
  /\ WF_chatVars(part = "chatOnce" /\ ChatOnce!RpcReplies)
  /\ WF_chatVars(part = "chatOnce" /\ \E n \in 0 .. 2 : ChatOnce!ModelReplies(n))

ProgressInit == part \in ProgressParts /\ AllInit

ProgressSpec ==
  /\ ProgressInit /\ [][AllNext]_allVars
  /\ queryFairness /\ serveFairness /\ execFairness /\ startFairness
  /\ streamsFairness /\ sseFairness /\ consoleFairness /\ chatFairness

-----------------------------------------------------------------------------
(***************************************************************************)
(* The properties of the parts that Components has not, and progress       *)
(***************************************************************************)

\* CompareVersions is the order of deb-version(7) (DebVersion).
SameOrder == On("versions", Deb!SameOrder)

\* readStanzas finds the stanzas of every file of a few lines; parseReleaseFile
\* reads an InRelease file as it reads a Release file, and prefers Suite to
\* Codename in either order (AptFiles).
FilesMeant ==
  On("files", Files!StanzasMeant /\ Files!EnvelopeTransparent /\ Files!SuitePreferred)

\* list_processes keeps the processes of the state it is asked for (Listing,
\* process.go:22).
StateKept == On("filter", StillTools!List!StateKept)

\* Every call returns: fleet_query even if no member ever answers, Server.Serve
\* once its ctx is cancelled or its listener failed, Runner.Run whatever the child
\* does, and a send of the chat whatever the model does (FleetQuery, Serve,
\* ExecTool, Chat).
CallsReturn ==
  /\ <>On("queryPair", phase = "done")
  /\ \A n \in 1 .. 2 :
       When("serveShort", ServeShort!Ending(n)) ~> On("serveShort", pc[n] = "returned")
  /\ <>On("execSmall", ret # "running")
  /\ When("chatOnce", await # "idle") ~> On("chatOnce", await = "idle")

\* Once the faults are over the daemon serves for good (Startup).
FinallyServes == <>[]On("start", Daemon!Startup!At("p1", "serving"))

\* A stream that is no longer in the map ends, and every stream ends with Run's
\* context (Streams, cancelStream).
StreamsEnd ==
  \A id \in 1 .. 2 :
    When("streamsOne", stopped \/ StreamsOne!Replaced(id))
      ~> On("streamsOne", id \notin goroutines)

\* Everything sent is delivered while the connection lasts (SSE).
AllDelivered ==
  \A n \in 1 .. 3 :
    When("ssePlain", Len(sent) >= n /\ open) ~> On("ssePlain", Len(got) >= n \/ ~open)

\* The screen comes to show the roster for good (Console, connect, setInterval).
StaysAccurate ==
  <>[]When("console", Console!Settled) => <>[]On("console", Console!Accurate)
=============================================================================
