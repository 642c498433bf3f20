-------------------------------- MODULE Chat --------------------------------
(***************************************************************************)
(* The chat of the web console (internal/webui/static/app.js, mcp and      *)
(* chat): one conversation with a language model that calls the daemon's   *)
(* tools, in a browser where "Clear" can be pressed and the settings can   *)
(* be saved at every await, and against a daemon that forgets sessions.    *)
(*                                                                         *)
(* A message counts the tool calls it asks for (uses) and names the result *)
(* it carries (res): all of them in one message for Anthropic, one message *)
(* per call for OpenAI.                                                    *)
(***************************************************************************)
EXTENDS Naturals, Sequences, SequencesExt

CONSTANTS
  Providers,     \* of {"anthropic", "openai"}
  MAX_TOOL_ROUND_TRIPS,
  MaxUses,       \* bound on tool calls in a reply
  MaxSends,      \* bound on messages of the user
  MaxClears, MaxSwitches,   \* bounds on presses of Clear, on changes of provider
  MaxLosses,     \* bound on how often the daemon forgets its sessions
  MaxFaults      \* bound on requests that fail

ChatAssumption ==
  /\ Providers \subseteq {"anthropic", "openai"}
  /\ MAX_TOOL_ROUND_TRIPS \in Nat \ {0}
  /\ MaxUses \in Nat

VARIABLES
  provider,    \* the provider in the settings
  messages,    \* chat.messages
  pc,          \* the await that send is in; "idle" is ~busy
  then,        \* what ensureInitialized was called for: "list" or "call"
  drive,       \* driveAnthropic or driveOpenAI: its locals
  mcp,         \* sessionId, initialized, toolsCache
  sid,         \* the session of the request under way
  sessions,    \* the daemon's sessions: "new", "ready" or "gone"
  refusals,    \* refused requests since the last one that was served, up to 2
  expired, disturbed,  \* history: a session was forgotten; Clear while busy
  count        \* against the bounds

vars == <<provider, messages, pc, then, drive, mcp, sid, sessions, refusals, expired,
          disturbed, count>>

Rpcs == {"initialize", "initialized", "list", "call"}

Cleared == [sessionId |-> 0, initialized |-> FALSE, toolsCache |-> FALSE]
NoDrive == [provider |-> "none", api |-> << >>, sub |-> << >>, round |-> 0, uses |-> 0, done |-> 0]

Items == [role : {"user", "assistant", "tool"}, native : {"any", "anthropic", "openai"},
          uses : 0 .. MaxUses, res : 0 .. MaxUses]

Entries == [shape : {"plain", "anthropic", "openai"}, sub : Seq(Items)]

Drives == [provider : Providers \cup {"none"}, api : Seq(Items), sub : Seq(Items),
           round : 0 .. MAX_TOOL_ROUND_TRIPS - 1, uses : 0 .. MaxUses, done : 0 .. MaxUses]

TypeOK ==
  /\ pc \in Rpcs \cup {"idle", "llm"} /\ then \in {"list", "call"}
  /\ provider \in Providers /\ messages \in Seq(Entries)
  /\ drive \in Drives /\ (pc = "call" => drive.done < drive.uses)
  /\ sessions \in Seq({"new", "ready", "gone"}) /\ sid \in 0 .. Len(sessions)
  /\ mcp \in [sessionId : 0 .. Len(sessions), initialized : BOOLEAN, toolsCache : BOOLEAN]
  /\ refusals \in 0 .. 2 /\ expired \in BOOLEAN /\ disturbed \in BOOLEAN

Init ==
  /\ provider \in Providers /\ messages = << >>
  /\ pc = "idle" /\ then = "list" /\ drive = NoDrive /\ mcp = Cleared
  /\ sid = 0 /\ sessions = << >>
  /\ refusals = 0 /\ expired = FALSE /\ disturbed = FALSE
  /\ count = [sends |-> 0, clears |-> 0, switches |-> 0, losses |-> 0, faults |-> 0]

Counts(kind, max) == count[kind] < max /\ count' = [count EXCEPT ![kind] = @ + 1]

-----------------------------------------------------------------------------
(* The log and what is made of it for a provider                           *)

Item(role, native, uses, res) == [role |-> role, native |-> native, uses |-> uses, res |-> res]

User == Item("user", "any", 0, 0)
Text == Item("assistant", "any", 0, 0)
Reply(p, n) == Item("assistant", IF n = 0 THEN "any" ELSE p, n, 0)
Results(n) == Item("user", "anthropic", 0, n)
Tool(j) == Item("tool", "openai", 0, j)

Entry(shape, sub) == [shape |-> shape, sub |-> sub]

\* toAnthropic, and the loop at the start of driveOpenAI.
Translated(p, m) == IF p = "anthropic" /\ m.shape = "openai" THEN <<Text>> ELSE m.sub

Api(p, log) == FlattenSeq([i \in DOMAIN log |-> Translated(p, log[i])])

-----------------------------------------------------------------------------
(* Where send goes next                                                    *)

\* A request of rpc carries the session identifier of that moment.
Await(step, m) == pc' = step /\ mcp' = m /\ sid' = m.sessionId

ensureInitialized(for, m) ==
  then' = for /\ Await(IF m.initialized THEN for ELSE "initialize", m)

AskModel(d, log, m) == /\ drive' = d /\ messages' = log /\ Await("llm", m)
                       /\ UNCHANGED then

End(log, m) == /\ drive' = NoDrive /\ messages' = log /\ Await("idle", m)
               /\ UNCHANGED then

\* The start of driveAnthropic or driveOpenAI, with the log of that moment.
StartDrive(p, log, m) ==
  AskModel([NoDrive EXCEPT !.provider = p, !.api = Api(p, log)], log, m)

\* send, up to its first await.
send ==
  /\ pc = "idle" /\ Counts("sends", MaxSends)
  /\ LET log == Append(messages, Entry("plain", <<User>>)) IN
       IF mcp.toolsCache THEN StartDrive(provider, log, mcp)
       ELSE /\ messages' = log /\ drive' = [NoDrive EXCEPT !.provider = provider]
            /\ ensureInitialized("list", mcp)
  /\ UNCHANGED <<provider, sessions, refusals, expired, disturbed>>

-----------------------------------------------------------------------------
(* The driver                                                              *)

\* The round that has just been completed is the last one.
LastRound(d) == d.round + 1 = MAX_TOOL_ROUND_TRIPS

\* All calls of a reply have their results: they go into the log.
EndRound(d, log, m) ==
  LET entry == IF d.provider = "openai" THEN Entry("openai", d.sub)
               ELSE Entry("anthropic", <<Results(d.uses)>>)
      more  == IF d.provider = "openai" THEN d.api ELSE Append(d.api, Results(d.uses))
      all   == Append(log, entry)
  IN IF LastRound(d) THEN End(all, m)
     ELSE AskModel([d EXCEPT !.api = more, !.sub = << >>, !.round = @ + 1,
                             !.uses = 0, !.done = 0], all, m)

\* Seeded fault: a call that failed leaves no result.
AnsweredServed(d, ok) ==
  LET r == IF d.provider = "openai" /\ ok THEN <<Tool(d.done + 1)>> ELSE << >>
  IN [d EXCEPT !.api = @ \o r, !.sub = @ \o r, !.done = @ + 1]

\* Seeded fault: a call that failed is made again.
AnsweredRetries(d, ok) ==
  LET r == IF d.provider = "openai" THEN <<Tool(d.done + 1)>> ELSE << >>
  IN IF ok THEN [d EXCEPT !.api = @ \o r, !.sub = @ \o r, !.done = @ + 1] ELSE d

\* The result of one call, or the error in its place.
Answered(d, ok) ==
  LET r == IF d.provider = "openai" THEN <<Tool(d.done + 1)>> ELSE << >>
  IN [d EXCEPT !.api = @ \o r, !.sub = @ \o r, !.done = @ + 1]

NextCall(d, m) ==
  IF d.done < d.uses
  THEN drive' = d /\ UNCHANGED messages /\ ensureInitialized("call", m)
  ELSE EndRound(d, messages, m)

\* The model replies with n tool calls.
ModelReplies(n) ==
  /\ pc = "llm"
  /\ LET p == drive.provider
         r == Reply(p, n)
         d == [drive EXCEPT !.api = Append(@, r), !.sub = <<r>>, !.uses = n, !.done = 0]
         \* driveAnthropic logs the reply now, driveOpenAI with the results
         log == IF p = "anthropic" THEN Append(messages, Entry(p, <<r>>))
                ELSE IF n = 0 THEN Append(messages, Entry(p, <<r>>)) ELSE messages
     IN IF n = 0 THEN End(log, mcp)
        ELSE /\ drive' = d /\ messages' = log /\ ensureInitialized("call", mcp)
  /\ UNCHANGED <<provider, sessions, refusals, expired, disturbed, count>>

\* The request fails or is answered with an error: send catches it.
ModelFails ==
  /\ pc = "llm" /\ Counts("faults", MaxFaults)
  /\ End(messages, mcp)
  /\ UNCHANGED <<provider, sessions, refusals, expired, disturbed>>

-----------------------------------------------------------------------------
(* The daemon's answer to rpc                                              *)

\* A request without a session makes one; "initialize", once or again, and the
\* notification open it; requests of a session that is not there, or not open
\* yet, are refused.  Answers within a session may repeat its identifier.
Outcomes ==
  LET with(ok, header, s) == [ok |-> ok, header |-> header, sessions |-> s]
      opened == IF pc = "initialized" THEN [sessions EXCEPT ![sid] = "ready"] ELSE sessions
  IN IF sid = 0
     THEN {with(pc = "initialize", Len(sessions) + 1, Append(sessions, "new"))}
     ELSE IF sessions[sid] = "gone" THEN {with(FALSE, 0, sessions)}
     ELSE {with(pc \in {"list", "call"} => sessions[sid] = "ready", h, opened) : h \in {0, sid}}

\* rpc returns or throws, and its caller goes on.
Resume(ok, header) ==
  LET m == IF header = 0 THEN mcp ELSE [mcp EXCEPT !.sessionId = header] IN
  IF ok THEN
    CASE pc = "initialize"  -> Await("initialized", m) /\ UNCHANGED <<messages, drive, then>>
      [] pc = "initialized" -> /\ Await(then, [m EXCEPT !.initialized = TRUE])
                               /\ UNCHANGED <<messages, drive, then>>
      [] pc = "list" -> StartDrive(drive.provider, messages, [m EXCEPT !.toolsCache = TRUE])
      [] pc = "call" -> NextCall(Answered(drive, TRUE), m)
  ELSE IF then = "call" THEN NextCall(Answered(drive, FALSE), m)
  ELSE End(messages, m)

Refusals(ok) == IF ok THEN 0 ELSE IF refusals < 2 THEN refusals + 1 ELSE refusals

RpcReplies ==
  /\ pc \in Rpcs
  /\ \E o \in Outcomes : /\ Resume(o.ok, o.header)
                         /\ sessions' = o.sessions /\ refusals' = Refusals(o.ok)
  /\ UNCHANGED <<provider, expired, disturbed, count>>

RpcFails ==
  /\ pc \in Rpcs /\ Counts("faults", MaxFaults)
  /\ Resume(FALSE, 0)
  /\ UNCHANGED <<provider, sessions, refusals, expired, disturbed>>

\* SessionTimeout passes, or the daemon starts again.
LoseSessions ==
  /\ Counts("losses", MaxLosses)
  /\ sessions' = [i \in DOMAIN sessions |-> "gone"]
  /\ expired' = (expired \/ mcp.sessionId # 0 \/ pc # "idle")
  /\ UNCHANGED <<provider, messages, pc, then, drive, mcp, sid, refusals, disturbed>>

-----------------------------------------------------------------------------
(* The user                                                                *)

\* Seeded fault: the session identifier outlives the reset.
ForgottenKeepsSession == [mcp EXCEPT !.initialized = FALSE, !.toolsCache = FALSE]

\* mcp.reset
Forgotten == Cleared

\* chat.reset, which does not wait for a send that is under way.
reset ==
  /\ Counts("clears", MaxClears)
  /\ messages' = << >> /\ mcp' = Forgotten
  /\ disturbed' = (pc # "idle") /\ expired' = (expired /\ pc # "idle")
  /\ refusals' = IF pc = "idle" THEN 0 ELSE refusals
  /\ UNCHANGED <<provider, pc, then, drive, sid, sessions>>

\* The settings are saved with another provider.
Switch ==
  /\ Counts("switches", MaxSwitches) /\ provider' \in Providers \ {provider}
  /\ UNCHANGED <<messages, pc, then, drive, mcp, sid, sessions, refusals, expired, disturbed>>

Next ==
  \/ send \/ RpcReplies \/ RpcFails \/ LoseSessions \/ reset \/ Switch
  \/ ModelFails \/ \E n \in 0 .. MaxUses : ModelReplies(n)

Spec == Init /\ [][Next]_vars

\* A fetch is settled in the end: answered, or failed by the browser.
FairSpec == Spec /\ WF_vars(RpcReplies) /\ WF_vars(\E n \in 0 .. MaxUses : ModelReplies(n))

-----------------------------------------------------------------------------
(***************************************************************************)
(* Properties                                                              *)
(***************************************************************************)

\* The calls of a message and their results belong together, as each provider
\* wants them: every call has its result right after it, in order, and no
\* result stands alone.
Paired(api, p) ==
  \A i \in DOMAIN api :
    IF p = "anthropic"
    THEN /\ api[i].uses > 0 => i < Len(api) /\ api[i + 1].res = api[i].uses
         /\ api[i].res > 0 => i > 1 /\ api[i - 1].uses = api[i].res
    ELSE /\ \A j \in 1 .. api[i].uses : i + j <= Len(api) /\ api[i + j].res = j
         /\ api[i].res > 0 => i > api[i].res /\ api[i - api[i].res].uses >= api[i].res

\* "Provider-neutral message log ... We translate to provider-native shapes
\* only when sending" (app.js): no message with the calls or results of one
\* provider is sent to the other.  So it is until the provider is switched in the
\* middle of a chat.
LogNeutral ==
  pc = "llm" => \A i \in DOMAIN drive.api : drive.api[i].native \in {"any", drive.provider}

\* Every request to the model is one the provider can accept: it begins with
\* the user and its calls and results are paired, after any sequence of
\* failed requests, failed calls, refused sessions, exhausted rounds and
\* presses of Clear, as long as Clear is not pressed during a send and the log
\* holds no calls of another provider (LogNeutral).
RequestsPaired ==
  pc = "llm" /\ ~disturbed /\ LogNeutral =>
    drive.api # << >> /\ drive.api[1] = User /\ Paired(drive.api, drive.provider)

\* Clear repairs the session: from then on the daemon refuses a request only
\* if it has forgotten the session since, or Clear was pressed during a send.
ClearRepairs == refusals > 0 => expired \/ disturbed

\* A send ends: the rounds are bounded and every failure is caught, so the
\* button is enabled again.
SendEnds == (pc # "idle") ~> (pc = "idle")
=============================================================================
