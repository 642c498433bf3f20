---------------------------- MODULE DaemonProofs ----------------------------
(***************************************************************************)
(* Theorems about one daemon: the commands it runs (ExecTool), its end     *)
(* (Serve), its start (Startup), pruneLoop against the heartbeats of a     *)
(* node whose clock differs (Clocks) and the map of streams (Streams), for *)
(* any number of nodes, peers and streams, any settings and faults, and    *)
(* any limits, intervals and delays.                                       *)
(***************************************************************************)
EXTENDS Integers, Sequences, FiniteSets, FiniteSetTheorems, TLAPS

CONSTANTS
  MaxOutput, MaxSize, PipeSize,                        \* ExecTool
  Nodes, Grace, MaxRequests,                           \* Serve
  Procs, InSnap, EnvToken, Flags, Settings,            \* Startup
  FaultKinds, MaxFaults, MaxTokens,
  Interval, DeadAfter, Delay, Fast, MaxNow,            \* Clocks
  Peers, MaxCtx                                        \* Streams

VARIABLES
  size, todo, pipe, limit, hit, buf, copier, child, ctxErr, ret,
  ctx, listener, pc, err, grace, mgrCancel, manager, streams, requests, served,
  flags, conf, token, mirror, drawn, faults, operator, proc,
  now, ahead, up, died, beat, prune, stream, member, last,
  contexts, goroutines, streamOf, doing, stopped

Exec    == INSTANCE ExecTool
Serve   == INSTANCE Serve
Startup == INSTANCE Startup
Clocks  == INSTANCE Clocks
Streams == INSTANCE Streams WITH
  ctx <- contexts, running <- goroutines, streams <- streamOf

-----------------------------------------------------------------------------
(***************************************************************************)
(* Runner.Run                                                              *)
(***************************************************************************)

\* The bytes of a stream are accounted for: what the command has yet to write,
\* what is in the pipe and what was copied add up to its output until a copier
\* meets the limit, which it does only if there is more output than that.
Accounted(s) ==
  /\ limit[s] + buf[s] = MaxOutput
  /\ hit[s] <=> copier[s] = "failed"
  /\ copier[s] # "failed" => todo[s] + pipe[s] + buf[s] = size[s]
  /\ copier[s] = "failed" => size[s] > MaxOutput
  /\ copier[s] = "eof" => pipe[s] = 0 /\ child # "run"

\* What Run returned says how the child and the copiers ended.
Outcome ==
  /\ child = "exit0" => \A s \in Exec!Streams : todo[s] = 0
  /\ ret # "running" => Exec!Ended
  /\ ret = "nil" => child = "exit0" /\ \A s \in Exec!Streams : copier[s] = "eof"
  /\ ret = "toolarge" => \E s \in Exec!Streams : copier[s] = "failed"

ExecInv == Exec!TypeOK /\ Outcome /\ \A s \in Exec!Streams : Accounted(s)

\* Runner.Run starts with empty pipes and buffers and the whole output to write.
LEMMA ExecInit == ASSUME Exec!ExecToolAssumption, Exec!Init PROVE ExecInv
BY DEF Exec!ExecToolAssumption, Exec!Init, ExecInv, Exec!TypeOK, Exec!Streams, Outcome,
       Accounted

\* No step of the child, of the context, of a copier or of Wait loses a byte
\* unnoticed.
LEMMA ExecStep ==
  ASSUME Exec!ExecToolAssumption, ExecInv, [Exec!Next]_Exec!vars
  PROVE  ExecInv'
<1> USE DEF Exec!ExecToolAssumption, ExecInv, Exec!TypeOK, Exec!Streams, Exec!Ended,
            Outcome, Accounted
<1>1. CASE Exec!StartFails
  BY <1>1 DEF Exec!StartFails
<1>2. CASE Exec!ChildExit
  BY <1>2 DEF Exec!ChildExit
<1>3. CASE Exec!CtxDone
  BY <1>3 DEF Exec!CtxDone
<1>4. CASE Exec!Kill
  BY <1>4 DEF Exec!Kill
<1>5. CASE Exec!Return
  BY <1>5 DEF Exec!Return, Exec!RunErr
<1>6. ASSUME NEW s \in Exec!Streams, Exec!Eof(s)
      PROVE  ExecInv'
  BY <1>6 DEF Exec!Eof
<1>7. ASSUME NEW s \in Exec!Streams, NEW k \in 1 .. MaxSize, Exec!ChildWrite(s, k)
      PROVE  ExecInv'
  BY <1>7 DEF Exec!ChildWrite
<1>8. ASSUME NEW s \in Exec!Streams, NEW k \in 1 .. MaxSize, Exec!Copy(s, k)
      PROVE  ExecInv'
  <2>1. CASE Exec!Overflows(s, k)
    <3>1. /\ buf[s] + limit[s] = MaxOutput /\ buf[s] + pipe[s] + todo[s] = size[s]
          /\ k <= pipe[s] /\ k > limit[s]
      BY <1>8, <2>1 DEF Exec!Copy, Exec!Overflows
    <3>2. /\ buf' = [buf EXCEPT ![s] = MaxOutput]
          /\ limit' = [limit EXCEPT ![s] = 0]
          /\ hit' = [hit EXCEPT ![s] = TRUE]
          /\ copier' = [copier EXCEPT ![s] = "failed"]
          /\ pipe' = [pipe EXCEPT ![s] = @ - k]
          /\ UNCHANGED <<size, todo, child, ctxErr, ret>>
      BY <1>8, <2>1, <3>1 DEF Exec!Copy, Exec!AfterOverflow
    <3>3. size[s] > MaxOutput
      BY <3>1
    <3>4. Exec!TypeOK' /\ Outcome'
      BY <1>8, <3>1, <3>2 DEF Exec!Copy
    <3>5. \A t \in Exec!Streams : Accounted(t)'
      BY <3>2, <3>3
    <3> QED
      BY <3>4, <3>5
  <2>2. CASE ~Exec!Overflows(s, k)
    BY <1>8, <2>2 DEF Exec!Copy, Exec!Overflows
  <2> QED
    BY <2>1, <2>2
<1>9. CASE UNCHANGED Exec!vars
  BY <1>9 DEF Exec!vars
<1> QED
  BY <1>1, <1>2, <1>3, <1>4, <1>5, <1>6, <1>7, <1>8, <1>9 DEF Exec!Next

\* Type correctness of the command runner.
THEOREM ExecTypeCorrect ==
  ASSUME Exec!ExecToolAssumption
  PROVE  Exec!Spec => []Exec!TypeOK
<1>1. Exec!Init => ExecInv
  BY ExecInit
<1>2. ExecInv /\ [Exec!Next]_Exec!vars => ExecInv'
  BY ExecStep
<1>3. ExecInv => Exec!TypeOK
  BY DEF ExecInv
<1> QED
  BY <1>1, <1>2, <1>3, PTL DEF Exec!Spec

\* Runner.Run returns no error only with the whole output, and ErrOutputTooLarge
\* only if a stream exceeded MaxOutput, for any output, limit and pipe, and
\* wherever the child, the deadline or the caller ends it.
THEOREM RunnerTruthful ==
  ASSUME Exec!ExecToolAssumption
  PROVE  Exec!Spec => []Exec!ResultTrue
<1>1. Exec!Init => ExecInv
  BY ExecInit
<1>2. ExecInv /\ [Exec!Next]_Exec!vars => ExecInv'
  BY ExecStep
<1>3. ExecInv => Exec!ResultTrue
  BY DEF ExecInv, Outcome, Accounted, Exec!TypeOK, Exec!Streams, Exec!ExecToolAssumption,
         Exec!ResultTrue, Exec!WholeOutput, Exec!OverflowReal
<1> QED
  BY <1>1, <1>2, <1>3, PTL DEF Exec!Spec

-----------------------------------------------------------------------------
(***************************************************************************)
(* Server.Serve                                                            *)
(***************************************************************************)

\* The grace period is not used up before Shutdown has returned.
ServeInv ==
  /\ Serve!TypeOK
  /\ \A n \in Nodes : pc[n] \in {"select", "drain"} => grace[n] > 0

\* No step of Serve, of a manager, a signal or a client leaves ServeInv.
LEMMA ServeStep ==
  ASSUME Serve!ServeAssumption, ServeInv, [Serve!Next]_Serve!vars
  PROVE  ServeInv'
<1> USE DEF Serve!ServeAssumption, ServeInv, Serve!TypeOK
<1>1. CASE Serve!Tick
  BY <1>1 DEF Serve!Tick, Serve!Expiring
<1>2. ASSUME NEW n \in Nodes,
             Serve!Signal(n) \/ Serve!ListenFails(n) \/ Serve!Request(n) \/ Serve!Respond(n)
      PROVE  ServeInv'
  BY <1>2 DEF Serve!Signal, Serve!ListenFails, Serve!Request, Serve!Respond
<1>3. ASSUME NEW n \in Nodes,
             Serve!ManagerStops(n) \/ Serve!StartShutdown(n) \/ Serve!ListenError(n)
               \/ Serve!Drained(n) \/ Serve!Return(n)
      PROVE  ServeInv'
  BY <1>3 DEF Serve!ManagerStops, Serve!StartShutdown, Serve!ListenError, Serve!Drained,
              Serve!Return
<1>4. ASSUME NEW a \in Nodes, NEW b \in Nodes, Serve!Connect(a, b) \/ Serve!Disconnect(a, b)
      PROVE  ServeInv'
  BY <1>4 DEF Serve!Connect, Serve!Disconnect
<1>5. CASE UNCHANGED Serve!vars
  BY <1>5 DEF Serve!vars
<1> QED
  BY <1>1, <1>2, <1>3, <1>4, <1>5 DEF Serve!Next

\* Type correctness of any number of daemons that shut down.
THEOREM ServeTypeCorrect ==
  ASSUME Serve!ServeAssumption
  PROVE  Serve!Spec => []Serve!TypeOK
<1>1. Serve!Init => ServeInv
  BY DEF Serve!Init, Serve!ServeAssumption, ServeInv, Serve!TypeOK
<1>2. ServeInv /\ [Serve!Next]_Serve!vars => ServeInv'
  BY ServeStep
<1>3. ServeInv => Serve!TypeOK
  BY DEF ServeInv
<1> QED
  BY <1>1, <1>2, <1>3, PTL DEF Serve!Spec

\* Nodes that stop together do not wait for each other, however many there are
\* and whoever reads whose event stream: the grace period of a node runs out
\* only because of a request in flight or of a reader that goes on.
THEOREM NobodyWaitsMutually ==
  ASSUME Serve!ServeAssumption
  PROVE  Serve!Spec => Serve!NoMutualWait
<1>1. Serve!Init => ServeInv
  BY DEF Serve!Init, Serve!ServeAssumption, ServeInv, Serve!TypeOK
<1>2. ServeInv /\ [Serve!Next]_Serve!vars => ServeInv'
  BY ServeStep
<1>3. ServeInv /\ [Serve!Next]_Serve!vars => [Serve!WaitsForOthers]_Serve!vars
  <2> SUFFICES ASSUME ServeInv, Serve!Next, NEW n \in Nodes,
                      err[n] = "none", err'[n] = "shutdown"
               PROVE  n \in requests \/ \E a \in Serve!InFlight(n) : a \notin ctx
    BY DEF Serve!WaitsForOthers
  <2> USE DEF ServeInv, Serve!TypeOK
  <2>1. Serve!Tick /\ Serve!Expiring(n)
    BY DEF Serve!Next, Serve!Tick, Serve!Signal, Serve!ListenFails, Serve!Request,
           Serve!Respond, Serve!ManagerStops, Serve!StartShutdown, Serve!ListenError,
           Serve!Drained, Serve!Return, Serve!Connect, Serve!Disconnect
  <2>2. CASE n \notin requests
    <3>1. PICK a \in Serve!InFlight(n) : TRUE
      BY <2>1, <2>2 DEF Serve!Tick, Serve!Expiring
    <3>2. <<a, n>> \in streams
      BY <3>1 DEF Serve!InFlight
    <3>3. ~Serve!MgrCtxDone(a)
      BY <2>1, <3>2 DEF Serve!Tick
    <3> QED
      BY <3>1, <3>3 DEF Serve!MgrCtxDone
  <2> QED
    BY <2>2
<1> QED
  BY <1>1, <1>2, <1>3, PTL DEF Serve!Spec, Serve!NoMutualWait

-----------------------------------------------------------------------------
(***************************************************************************)
(* The start of the daemon                                                 *)
(***************************************************************************)

Ports == {"", "8765"} \cup {f.port : f \in Flags} \cup {c.port : c \in Settings}
Joins == {""} \cup {f.join : f \in Flags} \cup {c.join : c \in Settings}
Urls  == {"", ":port"} \cup Startup!Hosts
           \cup {f.advertise : f \in Flags} \cup {c.advertise : c \in Settings}

\* What run has resolved so far.
Process == [pc : Startup!Steps, bind : Startup!Hosts, port : Ports, tok : Nat,
            fleet : [on : BOOLEAN, join : Joins, advertise : Urls]]

\* After the port and the fleet settings were resolved, they are valid.
Resolved(r) ==
  /\ r.pc \in {"token", "generate", "set", "mirror", "fleet", "listen", "serving"} =>
       r.port # "bad"
  /\ r.pc \in {"listen", "serving"} /\ r.fleet.on =>
       r.fleet.advertise \notin {"", "bad"} /\ r.fleet.join # "bad"

\* A token is only written when it was drawn for a snap.
Writes(r) == r.pc \in {"set", "mirror"} => InSnap /\ EnvToken = 0 /\ r.tok # 0

\* The tokens there are when n have been drawn.
Tokens(n) == 0 .. n \cup {EnvToken}

StartInv ==
  /\ flags \in Flags /\ conf \in Settings
  /\ proc \in [Procs -> Process]
  /\ Startup!TypeOK
  /\ \A p \in Procs : Resolved(proc[p]) /\ Writes(proc[p])

\* A daemon that has not read anything yet satisfies StartInv.
LEMMA StartInit == ASSUME Startup!StartupAssumption, Startup!Init PROVE StartInv
<1>1. Startup!Fresh \in Process
  BY DEF Startup!Fresh, Startup!Disabled, Startup!Hosts, Startup!Steps, Process, Ports, Joins,
         Urls
<1>2. \A p \in Procs : proc[p].pc = "down" /\ proc[p].tok = 0
  BY DEF Startup!Init, Startup!Fresh
<1>3. proc \in [Procs -> Process]
  BY <1>1 DEF Startup!Init
<1>4. Startup!TypeOK
  <2>1. token \in {0, EnvToken}
    BY DEF Startup!Init
  <2>2. /\ drawn = 0 /\ faults = 0 /\ mirror = 0 /\ operator = FALSE
        /\ MaxTokens \in Nat /\ MaxFaults \in Nat
    BY DEF Startup!Init, Startup!StartupAssumption
  <2>3. drawn \in 0 .. MaxTokens /\ faults \in 0 .. MaxFaults /\ mirror \in 0 .. drawn
    BY <2>2
  <2>4. token \in 0 .. drawn \cup {EnvToken}
    BY <2>1, <2>2
  <2>5. operator \in BOOLEAN
    BY <2>2
  <2>6. \A p \in Procs : proc[p].pc \in Startup!Steps /\ proc[p].tok \in 0 .. drawn \cup {EnvToken}
    BY <1>2, <2>2 DEF Startup!Steps
  <2> QED
    BY <2>3, <2>4, <2>5, <2>6 DEF Startup!TypeOK
<1>5. \A p \in Procs : Resolved(proc[p]) /\ Writes(proc[p])
  BY <1>2 DEF Resolved, Writes
<1> QED
  BY <1>3, <1>4, <1>5 DEF StartInv, Startup!Init

\* What a step of process p makes of it is all that StartInv asks of it.
LEMMA StartGo ==
  ASSUME Startup!StartupAssumption, StartInv, NEW p \in Procs, NEW r \in Process,
         proc' = [proc EXCEPT ![p] = r], UNCHANGED <<flags, conf>>,
         drawn' \in 0 .. MaxTokens, drawn <= drawn', faults' \in 0 .. MaxFaults,
         token' \in Tokens(drawn'), mirror' \in 0 .. drawn', operator' \in BOOLEAN,
         r.tok \in Tokens(drawn'), Resolved(r), Writes(r)
  PROVE  StartInv'
<1>1. proc' \in [Procs -> Process] /\ \A q \in Procs : proc'[q] = IF q = p THEN r ELSE proc[q]
  BY DEF StartInv
<1>2. Startup!TypeOK'
  <2>1. drawn \in Nat /\ drawn' \in Nat
    BY DEF StartInv, Startup!TypeOK, Startup!StartupAssumption
  <2>2. \A q \in Procs : proc[q].tok \in Tokens(drawn')
    BY <2>1 DEF StartInv, Startup!TypeOK, Tokens
  <2>3. \A q \in Procs : proc'[q].pc \in Startup!Steps
    BY <1>1 DEF Process
  <2> QED
    BY <1>1, <2>1, <2>2, <2>3 DEF Startup!TypeOK, Tokens
<1>3. \A q \in Procs : (Resolved(proc[q]) /\ Writes(proc[q]))'
  BY <1>1 DEF StartInv, Resolved, Writes
<1> QED
  BY <1>1, <1>2, <1>3 DEF StartInv

\* The same for a step that draws no token.
LEMMA StartGoNoDraw ==
  ASSUME Startup!StartupAssumption, StartInv, NEW p \in Procs, NEW r \in Process,
         proc' = [proc EXCEPT ![p] = r], flags' = flags, conf' = conf, drawn' = drawn,
         faults' \in 0 .. MaxFaults, token' \in Tokens(drawn), mirror' \in 0 .. drawn,
         operator' \in BOOLEAN,
         r.tok \in Tokens(drawn), Resolved(r), Writes(r)
  PROVE  StartInv'
<1>1. drawn' \in 0 .. MaxTokens /\ drawn <= drawn'
  BY DEF StartInv, Startup!TypeOK, Startup!StartupAssumption
<1>2. token' \in Tokens(drawn') /\ mirror' \in 0 .. drawn' /\ r.tok \in Tokens(drawn')
  BY DEF Tokens
<1> QED
  BY <1>1, <1>2, StartGo

\* Only OperatorSets is a step of no process.
LEMMA StartCases ==
  ASSUME Startup!Next
  PROVE  \/ Startup!OperatorSets
         \/ \E p \in Procs :
              \/ Startup!Launch(p) \/ Startup!ResolveBind(p) \/ Startup!ResolvePort(p)
              \/ Startup!ReadToken(p) \/ Startup!Generate(p) \/ Startup!SetToken(p)
              \/ Startup!Mirror(p) \/ Startup!ResolveFleet(p) \/ Startup!Listen(p)
              \/ Startup!Crash(p) \/ Startup!GetFails(p) \/ Startup!ReadTokenFails(p)
              \/ Startup!SetFails(p) \/ Startup!MirrorFails(p)
BY DEF Startup!Next, Startup!Step

\* resolveFleet gives a process valid URLs or fails.
LEMMA FleetResolved ==
  ASSUME Startup!StartupAssumption, StartInv, NEW p \in Procs, Startup!ResolveFleet(p)
  PROVE  \E r \in Process :
           /\ proc' = [proc EXCEPT ![p] = r]
           /\ r.tok = proc[p].tok /\ r.pc \in {"listen", "failed"}
           /\ Resolved(r)
<1> USE DEF Startup!Steps
<1>1. proc[p] \in Process /\ proc[p].port # "bad"
  BY DEF StartInv, Resolved, Startup!ResolveFleet, Startup!At
<1>2. Startup!JoinOf \in Joins /\ Startup!Advertised \in Urls /\ Startup!AdvertiseOf(p) \in Urls
  BY <1>1 DEF StartInv, Process, Joins, Urls, Startup!JoinOf, Startup!Advertised,
              Startup!AdvertiseOf
<1>3. CASE ~Startup!Enabled
  <2> DEFINE r == [proc[p] EXCEPT !.pc = "listen", !.fleet = Startup!Disabled]
  <2>1. r \in Process /\ r.tok = proc[p].tok /\ r.pc = "listen" /\ r.port # "bad" /\ ~r.fleet.on
    BY <1>1 DEF Process, Startup!Disabled, Joins, Urls
  <2>2. Resolved(r)
    BY <2>1 DEF Resolved
  <2> QED
    BY <1>3, <2>1, <2>2 DEF Startup!ResolveFleet, Startup!Go
<1>4. CASE Startup!Enabled /\ Startup!Invalid(p)
  <2> DEFINE r == [proc[p] EXCEPT !.pc = "failed"]
  <2>1. r \in Process /\ r.tok = proc[p].tok /\ r.pc = "failed"
    BY <1>1 DEF Process
  <2>2. Resolved(r)
    BY <2>1 DEF Resolved
  <2> QED
    BY <1>4, <2>1, <2>2 DEF Startup!ResolveFleet, Startup!Go
<1>5. CASE Startup!Enabled /\ ~Startup!Invalid(p)
  <2> DEFINE r == [proc[p] EXCEPT !.pc = "listen",
                     !.fleet = [on |-> TRUE, join |-> Startup!JoinOf,
                                advertise |-> Startup!AdvertiseOf(p)]]
  <2>1. /\ r \in Process /\ r.tok = proc[p].tok /\ r.pc = "listen" /\ r.port # "bad"
        /\ r.fleet.join = Startup!JoinOf /\ r.fleet.advertise = Startup!AdvertiseOf(p)
    BY <1>1, <1>2 DEF Process
  <2>2. Startup!JoinOf # "bad" /\ Startup!AdvertiseOf(p) \notin {"", "bad"}
    BY <1>1, <1>5 DEF Startup!Invalid, Startup!AdvertiseOf, Process, Startup!Hosts
  <2>3. Resolved(r)
    BY <2>1, <2>2 DEF Resolved
  <2> QED
    BY <1>5, <2>1, <2>3 DEF Startup!ResolveFleet, Startup!Go
<1> QED
  BY <1>3, <1>4, <1>5

\* Every step of a daemon, and every fault, keeps StartInv.
LEMMA StartStep ==
  ASSUME Startup!StartupAssumption, StartInv, [Startup!Next]_Startup!vars
  PROVE  StartInv'
<1> USE DEF Startup!At, Startup!Go, Startup!Fault, Startup!store
<1>0. /\ drawn \in 0 .. MaxTokens /\ faults \in 0 .. MaxFaults /\ token \in Tokens(drawn)
      /\ mirror \in 0 .. drawn /\ operator \in BOOLEAN
      /\ MaxTokens \in Nat /\ MaxFaults \in Nat /\ EnvToken \in Nat
  BY DEF StartInv, Startup!TypeOK, Startup!StartupAssumption, Tokens
<1>1. \A p \in Procs : /\ proc[p] \in Process /\ proc[p].tok \in Tokens(drawn)
                       /\ Resolved(proc[p]) /\ Writes(proc[p])
  BY DEF StartInv, Startup!TypeOK, Tokens
<1>2. CASE Startup!OperatorSets
  <2>1. /\ drawn' = drawn + 1 /\ token' = drawn + 1 /\ drawn' \in 0 .. MaxTokens
        /\ faults' \in 0 .. MaxFaults /\ operator' = TRUE
        /\ UNCHANGED <<flags, conf, mirror, proc>>
    BY <1>0, <1>2 DEF Startup!OperatorSets
  <2>2. \A p \in Procs : proc[p].tok \in Tokens(drawn + 1)
    BY <1>0, <1>1 DEF Tokens
  <2>3. Startup!TypeOK'
    BY <1>0, <2>1, <2>2 DEF StartInv, Startup!TypeOK, Tokens
  <2> QED
    BY <2>1, <2>3 DEF StartInv
<1>3. ASSUME NEW p \in Procs, Startup!Launch(p)
      PROVE  StartInv'
  <2> DEFINE r == [Startup!Fresh EXCEPT !.pc = "bind"]
  <2>1. r \in Process /\ r.pc = "bind" /\ r.tok = 0
    BY DEF Startup!Fresh, Startup!Disabled, Startup!Hosts, Startup!Steps, Process, Ports, Joins,
           Urls
  <2>2. Resolved(r) /\ Writes(r)
    BY <2>1 DEF Resolved, Writes
  <2>3. 0 \in Tokens(drawn)
    BY <1>0 DEF Tokens
  <2>4. proc' = [proc EXCEPT ![p] = r] /\ UNCHANGED <<flags, conf, Startup!store, faults>>
    BY <1>3 DEF Startup!Launch
  <2> HIDE DEF r
  <2> QED
    BY <1>0, <2>1, <2>2, <2>3, <2>4, StartGoNoDraw
<1>4. ASSUME NEW p \in Procs, Startup!ResolveBind(p)
      PROVE  StartInv'
  <2> DEFINE r == [proc[p] EXCEPT !.pc = "port", !.bind = Startup!BindOf]
  <2>1. Startup!BindOf \in Startup!Hosts
    BY DEF StartInv, Startup!StartupAssumption, Startup!BindOf, Startup!FlagBind, Startup!Hosts
  <2>2. r \in Process /\ r.pc = "port" /\ r.tok = proc[p].tok
    BY <1>1, <2>1 DEF Process, Startup!Steps
  <2>3. Resolved(r) /\ Writes(r)
    BY <2>2 DEF Resolved, Writes
  <2>4. proc' = [proc EXCEPT ![p] = r] /\ UNCHANGED <<flags, conf, Startup!store, faults>>
    BY <1>4 DEF Startup!ResolveBind
  <2> HIDE DEF r
  <2> QED
    BY <1>0, <1>1, <2>2, <2>3, <2>4, StartGoNoDraw
<1>5. ASSUME NEW p \in Procs, Startup!ResolvePort(p)
      PROVE  StartInv'
  <2>1. Startup!PortOf \in Ports
    BY DEF StartInv, Startup!PortOf, Ports
  <2>2. PICK r \in Process : /\ proc' = [proc EXCEPT ![p] = r] /\ r.tok = proc[p].tok
                             /\ r.pc \in {"failed", "token"}
                             /\ r.pc = "token" => r.port # "bad"
    <3>1. CASE Startup!PortOf = "bad"
      <4> DEFINE r == [proc[p] EXCEPT !.pc = "failed"]
      <4>1. r \in Process /\ r.tok = proc[p].tok /\ r.pc = "failed"
        BY <1>1 DEF Process, Startup!Steps
      <4> QED
        BY <1>5, <3>1, <4>1 DEF Startup!ResolvePort
    <3>2. CASE Startup!PortOf # "bad"
      <4> DEFINE r == [proc[p] EXCEPT !.pc = "token", !.port = Startup!PortOf]
      <4>1. r \in Process /\ r.tok = proc[p].tok /\ r.pc = "token" /\ r.port # "bad"
        BY <1>1, <2>1, <3>2 DEF Process, Startup!Steps
      <4> QED
        BY <1>5, <3>2, <4>1 DEF Startup!ResolvePort
    <3> QED
      BY <3>1, <3>2
  <2>3. Resolved(r) /\ Writes(r)
    BY <2>2 DEF Resolved, Writes
  <2>4. UNCHANGED <<flags, conf, Startup!store, faults>>
    BY <1>5 DEF Startup!ResolvePort
  <2> QED
    BY <1>0, <1>1, <2>2, <2>3, <2>4, StartGoNoDraw
<1>6. ASSUME NEW p \in Procs, Startup!ReadToken(p)
      PROVE  StartInv'
  <2> DEFINE r == [proc[p] EXCEPT !.pc = Startup!AfterRead, !.tok = token]
  <2>1. r \in Process /\ r.pc \in {"fleet", "generate"} /\ r.tok = token /\ r.port = proc[p].port
    <3>1. Startup!AfterRead \in {"fleet", "generate"} /\ token \in Nat
      BY <1>0 DEF Startup!AfterRead, Tokens
    <3> QED
      BY <1>1, <3>1 DEF Process, Startup!Steps
  <2>2. Resolved(r) /\ Writes(r)
    BY <1>1, <1>6, <2>1 DEF Resolved, Writes, Startup!ReadToken
  <2>3. /\ proc' = [proc EXCEPT ![p] = r] /\ operator' = FALSE
        /\ UNCHANGED <<flags, conf, token, mirror, drawn, faults>>
    BY <1>6 DEF Startup!ReadToken
  <2> HIDE DEF r
  <2> QED
    BY <1>0, <1>1, <2>1, <2>2, <2>3, StartGoNoDraw
<1>7. ASSUME NEW p \in Procs, Startup!Generate(p)
      PROVE  StartInv'
  <2> DEFINE r == [proc[p] EXCEPT
                     !.pc = IF InSnap /\ EnvToken = 0 THEN "set" ELSE "fleet",
                     !.tok = IF EnvToken = 0 THEN drawn' ELSE EnvToken]
  <2>1. drawn' \in 0 .. MaxTokens /\ drawn <= drawn' /\ (EnvToken = 0 => drawn' = drawn + 1)
    BY <1>0, <1>7 DEF Startup!Generate
  <2>2. /\ r \in Process /\ r.pc \in {"set", "fleet"} /\ r.port = proc[p].port
        /\ r.pc = "set" => InSnap /\ EnvToken = 0
        /\ r.tok = IF EnvToken = 0 THEN drawn' ELSE EnvToken
    <3> DEFINE c == IF InSnap /\ EnvToken = 0 THEN "set" ELSE "fleet"
               t == IF EnvToken = 0 THEN drawn' ELSE EnvToken
    <3>1. t \in Nat /\ c \in {"set", "fleet"} /\ (c = "set" => InSnap /\ EnvToken = 0)
      BY <1>0, <2>1
    <3> HIDE DEF c, t
    <3>2. LET q == [proc[p] EXCEPT !.pc = c, !.tok = t]
          IN  q \in Process /\ q.pc = c /\ q.tok = t /\ q.port = proc[p].port
      BY <1>1, <3>1 DEF Process, Startup!Steps
    <3> QED
      BY <3>1, <3>2 DEF c, t
  <2>3. r.tok \in Tokens(drawn') /\ r.tok # 0
    BY <1>0, <2>1, <2>2 DEF Tokens
  <2>4. token \in Tokens(drawn') /\ mirror \in 0 .. drawn'
    BY <1>0, <2>1 DEF Tokens
  <2>5. Resolved(r) /\ Writes(r)
    BY <1>1, <1>7, <2>2, <2>3 DEF Resolved, Writes, Startup!Generate
  <2>6. proc' = [proc EXCEPT ![p] = r] /\ UNCHANGED <<flags, conf, token, mirror, faults, operator>>
    BY <1>7 DEF Startup!Generate
  <2> HIDE DEF r
  <2> QED
    BY <1>0, <1>1, <2>1, <2>2, <2>3, <2>4, <2>5, <2>6, StartGo
<1>8. ASSUME NEW p \in Procs, NEW s \in {"failed", "mirror", "fleet", "generate", "serving"},
             proc' = [proc EXCEPT ![p] = [proc[p] EXCEPT !.pc = s]],
             s # "failed" =>
               \/ proc[p].pc = "set" /\ s = "mirror"
               \/ proc[p].pc = "mirror" /\ s = "fleet"
               \/ proc[p].pc = "token" /\ s = "generate"
               \/ proc[p].pc = "listen" /\ s = "serving",
             UNCHANGED <<flags, conf, drawn, operator>>, faults' \in 0 .. MaxFaults,
             token' \in Tokens(drawn), mirror' \in 0 .. drawn
      PROVE  StartInv'
  <2> DEFINE r == [proc[p] EXCEPT !.pc = s]
  <2>1. /\ r \in Process /\ r.pc = s /\ r.tok = proc[p].tok /\ r.port = proc[p].port
        /\ r.fleet = proc[p].fleet
    BY <1>1 DEF Process, Startup!Steps
  <2>2. Resolved(r) /\ Writes(r)
    BY <1>1, <1>8, <2>1 DEF Resolved, Writes
  <2>3. proc' = [proc EXCEPT ![p] = r]
    BY <1>8
  <2> HIDE DEF r
  <2> QED
    BY <1>0, <1>1, <1>8, <2>1, <2>2, <2>3, StartGoNoDraw
<1>9. ASSUME NEW p \in Procs, Startup!SetToken(p) \/ Startup!SetFails(p)
      PROVE  StartInv'
  <2>1. token' \in {token, proc[p].tok}
    BY <1>9 DEF Startup!SetToken, Startup!SetFails
  <2> QED
    BY <1>0, <1>1, <1>8, <1>9, <2>1 DEF Startup!SetToken, Startup!SetFails, Startup!AfterSetFails
<1>10. ASSUME NEW p \in Procs, Startup!Mirror(p) \/ Startup!MirrorFails(p)
       PROVE  StartInv'
  <2>1. proc[p].tok \in 0 .. drawn
    BY <1>0, <1>1, <1>10 DEF Writes, Tokens, Startup!Mirror, Startup!MirrorFails
  <2> QED
    BY <1>0, <1>1, <1>8, <1>10, <2>1 DEF Startup!Mirror, Startup!MirrorFails
<1>11. ASSUME NEW p \in Procs, Startup!ResolveFleet(p)
       PROVE  StartInv'
  <2>1. PICK r \in Process : /\ proc' = [proc EXCEPT ![p] = r] /\ r.tok = proc[p].tok
                             /\ r.pc \in {"listen", "failed"} /\ Resolved(r)
    BY <1>11, FleetResolved
  <2>2. Writes(r)
    BY <2>1 DEF Writes
  <2>3. UNCHANGED <<flags, conf, Startup!store, faults>>
    BY <1>11 DEF Startup!ResolveFleet
  <2> QED
    BY <1>0, <1>1, <2>1, <2>2, <2>3, StartGoNoDraw
<1>12. ASSUME NEW p \in Procs, Startup!Listen(p)
       PROVE  StartInv'
  BY <1>0, <1>8, <1>12 DEF Startup!Listen
<1>13. ASSUME NEW p \in Procs,
              Startup!Crash(p) \/ Startup!GetFails(p) \/ Startup!ReadTokenFails(p)
       PROVE  StartInv'
  BY <1>0, <1>8, <1>13 DEF Startup!Crash, Startup!GetFails, Startup!ReadTokenFails
<1>14. CASE UNCHANGED Startup!vars
  BY <1>14 DEF Startup!vars, StartInv, Startup!TypeOK
<1> QED
  BY <1>2, <1>3, <1>4, <1>5, <1>6, <1>7, <1>9, <1>10, <1>11, <1>12, <1>13, <1>14, StartCases

\* Type correctness of any number of processes that start, fail and restart.
THEOREM StartTypeCorrect ==
  ASSUME Startup!StartupAssumption
  PROVE  Startup!Spec => []Startup!TypeOK
<1>1. Startup!Init => StartInv
  BY StartInit
<1>2. StartInv /\ [Startup!Next]_Startup!vars => StartInv'
  BY StartStep
<1>3. StartInv => Startup!TypeOK
  BY DEF StartInv
<1> QED
  BY <1>1, <1>2, <1>3, PTL DEF Startup!Spec

\* Past the token, a process in a snap has the published one in hand, unless the
\* operator has changed it since it was read.
Held ==
  InSnap => \A p \in Procs :
    proc[p].pc \in {"mirror", "fleet", "listen", "serving"} =>
      proc[p].tok # 0 /\ (~operator => token = proc[p].tok)

\* The setting and the environment of the snap's service: FLEETMIND_TOKEN is for
\* daemons outside a snap, and one service runs one process.
Service == (InSnap => EnvToken = 0) /\ \A p, q \in Procs : p = q

\* The first steps of a start.
LEMMA StartedAgain ==
  ASSUME NEW p \in Procs, proc \in [Procs -> Process],
         Startup!Launch(p) \/ Startup!ResolveBind(p) \/ Startup!ResolvePort(p)
  PROVE  proc'[p].pc \in {"bind", "port", "token", "failed"}
<1> USE DEF Startup!Go
<1>1. CASE Startup!Launch(p)
  BY <1>1 DEF Startup!Launch, Startup!Fresh
<1>2. CASE Startup!ResolveBind(p)
  BY <1>2 DEF Startup!ResolveBind, Process
<1>3. CASE Startup!ResolvePort(p)
  <2>1. CASE Startup!PortOf = "bad"
    BY <1>3, <2>1 DEF Startup!ResolvePort, Process
  <2>2. CASE Startup!PortOf # "bad"
    BY <1>3, <2>2 DEF Startup!ResolvePort, Process
  <2> QED
    BY <2>1, <2>2
<1> QED
  BY <1>1, <1>2, <1>3

\* Every step of the service, and every fault, keeps Held.
LEMMA HeldStep ==
  ASSUME Startup!StartupAssumption, Service, StartInv, Held, [Startup!Next]_Startup!vars
  PROVE  Held'
<1> SUFFICES ASSUME InSnap, NEW q \in Procs,
                    proc'[q].pc \in {"mirror", "fleet", "listen", "serving"}
             PROVE  proc'[q].tok # 0 /\ (~operator' => token' = proc'[q].tok)
  BY DEF Held
<1> USE DEF Startup!At, Startup!Go, Startup!Fault, Startup!store
<1>0. /\ proc \in [Procs -> Process] /\ EnvToken = 0 /\ drawn \in Nat
      /\ \A p \in Procs : p = q
      /\ \A p \in Procs : proc[p] \in Process /\ Writes(proc[p])
  BY DEF StartInv, Service, Startup!TypeOK, Startup!StartupAssumption
<1>1. proc[q].pc \in {"mirror", "fleet", "listen", "serving"} =>
        proc[q].tok # 0 /\ (~operator => token = proc[q].tok)
  BY DEF Held
<1>2. CASE Startup!OperatorSets
  BY <1>1, <1>2 DEF Startup!OperatorSets
<1>3. CASE Startup!Launch(q) \/ Startup!ResolveBind(q) \/ Startup!ResolvePort(q)
  <2>1. proc'[q].pc \in {"bind", "port", "token", "failed"}
    BY <1>0, <1>3, StartedAgain
  <2> QED
    BY <2>1
<1>4. CASE Startup!ReadToken(q)
  BY <1>0, <1>4 DEF Startup!ReadToken, Startup!AfterRead, Process
<1>5. CASE Startup!Generate(q)
  <2>1. proc'[q].pc = "set"
    BY <1>0, <1>5 DEF Startup!Generate, Process
  <2> QED
    BY <2>1
<1>6. CASE Startup!SetToken(q)
  BY <1>0, <1>6 DEF Startup!SetToken, Writes, Process
<1>7. CASE Startup!Mirror(q) \/ Startup!MirrorFails(q) \/ Startup!Listen(q)
  BY <1>0, <1>1, <1>7 DEF Startup!Mirror, Startup!MirrorFails, Startup!Listen, Process
<1>8. CASE Startup!ResolveFleet(q)
  <2>1. proc'[q].tok = proc[q].tok
    BY <1>0, <1>8, FleetResolved
  <2> QED
    BY <1>1, <1>8, <2>1 DEF Startup!ResolveFleet
<1>9. CASE Startup!Crash(q) \/ Startup!GetFails(q) \/ Startup!ReadTokenFails(q)
             \/ Startup!SetFails(q)
  BY <1>0, <1>9 DEF Startup!Crash, Startup!GetFails, Startup!ReadTokenFails,
                    Startup!SetFails, Startup!AfterSetFails, Process
<1>10. CASE UNCHANGED Startup!vars
  BY <1>1, <1>10 DEF Startup!vars
<1> QED
  BY <1>0, <1>2, <1>3, <1>4, <1>5, <1>6, <1>7, <1>8, <1>9, <1>10, StartCases

\* Whatever fails and whenever the process dies: a daemon that serves accepts
\* the token that "snap get" shows, and its port and URLs are valid, for any
\* command line and configuration.
THEOREM ServiceSound ==
  ASSUME Startup!StartupAssumption, Service
  PROVE  Startup!Spec => []Startup!ServesSoundly
<1>1. Startup!Init => StartInv /\ Held
  <2> SUFFICES ASSUME Startup!Init PROVE StartInv /\ Held
    OBVIOUS
  <2>1. \A p \in Procs : proc[p].pc = "down"
    BY DEF Startup!Init, Startup!Fresh
  <2> QED
    BY <2>1, StartInit DEF Held
<1>2. StartInv /\ Held /\ [Startup!Next]_Startup!vars => StartInv' /\ Held'
  BY StartStep, HeldStep
<1>3. StartInv /\ Held => Startup!ServesSoundly
  <2> SUFFICES ASSUME StartInv, Held
               PROVE  Startup!TokenPublished /\ Startup!ConfigSound
    BY DEF Startup!ServesSoundly
  <2>1. Startup!TokenPublished
    BY DEF Held, Startup!TokenPublished, Startup!Authorized, Startup!At
  <2>2. Startup!ConfigSound
    BY DEF StartInv, Resolved, Startup!ConfigSound, Startup!At
  <2> QED
    BY <2>1, <2>2
<1> QED
  BY <1>1, <1>2, <1>3, PTL DEF Startup!Spec

\* A token is drawn and written only while there is none.
FirstRun == \A p \in Procs : proc[p].pc \in {"generate", "set"} => token = 0

\* FirstRun is kept where the setting can be read and nobody else writes it.
LEMMA FirstRunStep ==
  ASSUME Startup!StartupAssumption, Service, FaultKinds \cap {"get", "operator"} = {},
         StartInv, FirstRun, [Startup!Next]_Startup!vars
  PROVE  FirstRun'
<1> SUFFICES ASSUME NEW q \in Procs, proc'[q].pc \in {"generate", "set"}
             PROVE  token' = 0
  BY DEF FirstRun
<1> USE DEF Startup!At, Startup!Go, Startup!Fault, Startup!store
<1>0. /\ proc \in [Procs -> Process] /\ \A p \in Procs : p = q
      /\ proc[q] \in Process
  BY DEF StartInv, Service
<1>1. proc[q].pc \in {"generate", "set"} => token = 0
  BY DEF FirstRun
<1>2. ~Startup!OperatorSets /\ ~Startup!ReadTokenFails(q)
  BY DEF Startup!OperatorSets, Startup!ReadTokenFails
<1>3. CASE Startup!Launch(q) \/ Startup!ResolveBind(q) \/ Startup!ResolvePort(q)
  <2>1. proc'[q].pc \in {"bind", "port", "token", "failed"}
    BY <1>0, <1>3, StartedAgain
  <2> QED
    BY <2>1
<1>8. CASE \/ Startup!SetToken(q) \/ Startup!Mirror(q) \/ Startup!MirrorFails(q)
           \/ Startup!Listen(q) \/ Startup!Crash(q) \/ Startup!GetFails(q)
           \/ Startup!SetFails(q)
  BY <1>0, <1>8 DEF Startup!SetToken, Startup!Mirror, Startup!MirrorFails, Startup!Listen,
                    Startup!Crash, Startup!GetFails, Startup!SetFails,
                    Startup!AfterSetFails, Process
<1>4. CASE Startup!ResolveFleet(q)
  <2>1. proc'[q].pc \in {"listen", "failed"}
    BY <1>0, <1>4, FleetResolved
  <2> QED
    BY <2>1
<1>5. CASE Startup!ReadToken(q)
  BY <1>0, <1>5 DEF Startup!ReadToken, Startup!AfterRead, Process
<1>6. CASE Startup!Generate(q)
  BY <1>1, <1>6 DEF Startup!Generate
<1>7. CASE UNCHANGED Startup!vars
  BY <1>1, <1>7 DEF Startup!vars
<1> QED
  BY <1>0, <1>2, <1>3, <1>4, <1>5, <1>6, <1>7, <1>8, StartCases

\* EnsureToken never replaces a token that exists, whatever write fails and
\* whenever the process dies, as long as the setting can be read and the
\* operator does not set it meanwhile.
THEOREM TokenIsKept ==
  ASSUME Startup!StartupAssumption, Service, FaultKinds \cap {"get", "operator"} = {}
  PROVE  Startup!Spec => Startup!TokenKept
<1>1. Startup!Init => StartInv /\ FirstRun
  <2> SUFFICES ASSUME Startup!Init PROVE StartInv /\ FirstRun
    OBVIOUS
  <2>1. \A p \in Procs : proc[p].pc = "down"
    BY DEF Startup!Init, Startup!Fresh
  <2> QED
    BY <2>1, StartInit DEF FirstRun
<1>2. StartInv /\ FirstRun /\ [Startup!Next]_Startup!vars => StartInv' /\ FirstRun'
  BY StartStep, FirstRunStep
<1>3. StartInv /\ FirstRun /\ [Startup!Next]_Startup!vars => [Startup!KeepsToken]_Startup!vars
  <2> SUFFICES ASSUME StartInv, FirstRun, Startup!Next, token # 0, token' # token
               PROVE  UNCHANGED proc
    BY DEF Startup!KeepsToken
  <2>1. \A p \in Procs : ~Startup!SetToken(p) /\ ~Startup!SetFails(p)
    BY DEF FirstRun, Startup!SetToken, Startup!SetFails, Startup!At
  <2>2. Startup!OperatorSets
    BY <2>1, StartCases DEF Startup!Launch, Startup!ResolveBind, Startup!ResolvePort,
       Startup!ReadToken, Startup!Generate, Startup!Mirror, Startup!ResolveFleet,
       Startup!Listen, Startup!Crash, Startup!GetFails, Startup!ReadTokenFails,
       Startup!MirrorFails, Startup!store
  <2> QED
    BY <2>2 DEF Startup!OperatorSets
<1> QED
  BY <1>1, <1>2, <1>3, PTL DEF Startup!Spec, Startup!TokenKept

-----------------------------------------------------------------------------
(***************************************************************************)
(* heartbeatLoop and pruneLoop                                             *)
(***************************************************************************)

Heartbeat == [stamp : Nat, sent : Nat]

\* The heartbeats on their way are one interval apart, up to the last one that
\* the sender has sent; a stream that was cancelled carries none.
Spaced ==
  /\ \A i \in 1 .. Len(stream) :
       /\ stream[i].sent <= stream[i].stamp
       /\ i > 1 => stream[i].sent = stream[i - 1].sent + Interval
  /\ up /\ stream # <<>> => stream[Len(stream)].sent = beat - Interval
  /\ ~member => stream = <<>>

\* While both are there, the receiver has all heartbeats but those on their way,
\* and none of them is late.
Heard ==
  up /\ member =>
    /\ stream = <<>> => last >= beat - Interval
    /\ stream # <<>> => /\ now <= stream[1].sent + Delay
                       /\ last >= stream[1].sent - Interval

\* A dead sender is known by stamps from before its death only, and the last
\* tick of pruneLoop that left it in came before they were too old.
Ageing ==
  ~up => /\ last <= died + Fast
         /\ \A i \in 1 .. Len(stream) : stream[i].stamp <= died + Fast
         /\ member => prune - Interval <= died + Fast + DeadAfter

ClocksInv ==
  /\ Clocks!TypeOK
  /\ stream \in Seq(Heartbeat)
  /\ beat \in Nat
  /\ Spaced /\ Heard /\ Ageing

\* What the types of the variables come to in the steps below.
LEMMA ClocksTyped ==
  ASSUME Clocks!ClocksAssumption, ClocksInv
  PROVE  /\ Interval \in Nat /\ Interval > 0 /\ DeadAfter \in Nat
         /\ Delay \in Nat /\ Fast \in Nat /\ MaxNow \in Nat
         /\ now \in Nat /\ died \in Nat /\ died <= now /\ beat \in Nat /\ prune \in Nat
         /\ last \in Nat /\ last <= now + Fast
         /\ up => now <= beat /\ beat <= now + Interval
         /\ now <= prune /\ prune <= now + Interval
         /\ stream # <<>> => Len(stream) \in Nat /\ Len(stream) >= 1 /\ Head(stream) = stream[1]
BY DEF Clocks!ClocksAssumption, ClocksInv, Clocks!TypeOK, Heartbeat

\* A heartbeat on its way was sent before now and carries a clock of its time.
LEMMA HeartbeatTyped ==
  ASSUME Clocks!ClocksAssumption, ClocksInv, NEW i \in 1 .. Len(stream)
  PROVE  /\ stream[i].sent \in Nat /\ stream[i].stamp \in Nat
         /\ stream[i].sent <= now /\ stream[i].stamp <= now + Fast
<1>1. stream[i].stamp \in 0 .. now + Fast /\ stream[i].sent \in 0 .. now
  BY DEF ClocksInv, Clocks!TypeOK
<1>2. now \in Nat /\ Fast \in Nat
  BY ClocksTyped
<1> QED
  BY <1>1, <1>2

\* The first of them, if there is one, is what the receiver reads next.
LEMMA FirstTyped ==
  ASSUME Clocks!ClocksAssumption, ClocksInv, stream # <<>>
  PROVE  /\ Len(stream) \in Nat /\ Len(stream) >= 1 /\ Head(stream) = stream[1]
         /\ stream[1].sent \in Nat /\ stream[1].stamp \in Nat
         /\ stream[1].sent <= stream[1].stamp /\ stream[1].stamp <= now + Fast
<1>1. 1 \in 1 .. Len(stream)
  BY DEF ClocksInv
<1> QED
  BY <1>1, HeartbeatTyped DEF ClocksInv, Spaced

\* The wall clock of a host is ahead of true time by Fast at most.
LEMMA ClockTyped ==
  ASSUME Clocks!ClocksAssumption, ClocksInv, NEW h \in Clocks!Hosts
  PROVE  Clocks!Clock(h) \in Nat /\ now <= Clocks!Clock(h) /\ Clocks!Clock(h) <= now + Fast
BY DEF Clocks!ClocksAssumption, ClocksInv, Clocks!TypeOK, Clocks!Hosts, Clocks!Clock

\* The sender has just been heard.
LEMMA ClocksInit == ASSUME Clocks!ClocksAssumption, Clocks!Init PROVE ClocksInv
BY DEF Clocks!ClocksAssumption, Clocks!Init, Clocks!Clock, ClocksInv, Clocks!TypeOK,
       Clocks!Hosts, Spaced, Heard, Ageing

\* The invariant survives a tick of either loop, an arrival, the passing of
\* time, a clock that is set and the death of the sender.
LEMMA ClocksStep ==
  ASSUME Clocks!ClocksAssumption, ClocksInv, [Clocks!Next]_Clocks!vars
  PROVE  ClocksInv'
<1>0. stream \in Seq(Heartbeat) /\ Spaced /\ Heard /\ Ageing /\ Clocks!TypeOK
  BY DEF ClocksInv
<1>1. CASE Clocks!heartbeatLoop
  <2>1. /\ up /\ up' /\ now = beat /\ beat' = beat + Interval
        /\ now' = now /\ died' = died /\ prune' = prune /\ (member' <=> member)
        /\ last' = last /\ ahead' = ahead
    BY <1>1 DEF Clocks!heartbeatLoop
  <2>2. up' \in BOOLEAN /\ member' \in BOOLEAN
    BY <1>0, <1>1 DEF Clocks!heartbeatLoop, Clocks!TypeOK
  <2>3. beat' \in Nat /\ beat' \in now' .. now' + Interval
    BY <2>1, ClocksTyped
  <2>4. CASE ~member
    <3>1. stream' = stream
      BY <1>1, <2>4 DEF Clocks!heartbeatLoop
    <3>2. Clocks!TypeOK'
      BY <1>0, <2>1, <2>2, <2>3, <3>1 DEF Clocks!TypeOK
    <3>3. Spaced'
      BY <1>0, <2>1, <2>4, <3>1 DEF Spaced
    <3> QED
      BY <1>0, <2>1, <2>3, <2>4, <3>1, <3>2, <3>3 DEF ClocksInv, Heard, Ageing
  <2>5. CASE member
    <3> DEFINE h == [stamp |-> Clocks!Clock("sender"), sent |-> now]
    <3>1. stream' = Append(stream, h)
      BY <1>1, <2>5 DEF Clocks!heartbeatLoop
    <3>2. h \in Heartbeat /\ h.sent = now /\ now <= h.stamp /\ h.stamp <= now + Fast
      BY ClocksTyped, ClockTyped DEF Clocks!Hosts, Heartbeat
    <3> HIDE DEF h
    <3>3. /\ Len(stream') = Len(stream) + 1 /\ stream' \in Seq(Heartbeat)
          /\ stream'[Len(stream) + 1] = h
          /\ \A i \in 1 .. Len(stream) : stream'[i] = stream[i]
      BY <1>0, <3>1, <3>2
    <3>4. Clocks!TypeOK'
      <4>1. ASSUME NEW i \in 1 .. Len(stream')
            PROVE  stream'[i].stamp \in 0 .. now + Fast /\ stream'[i].sent \in 0 .. now
        <5>1. CASE i = Len(stream) + 1
          <6>1. stream'[i] = h
            BY <3>3, <5>1
          <6>2. h.stamp \in Nat /\ h.sent \in Nat
            BY <3>2 DEF Heartbeat
          <6>3. h.stamp \in 0 .. now + Fast /\ h.sent \in 0 .. now
            BY <3>2, <6>2, ClocksTyped
          <6> QED
            BY <6>1, <6>3
        <5>2. CASE i # Len(stream) + 1
          <6>1. i \in 1 .. Len(stream) /\ stream'[i] = stream[i]
            BY <1>0, <3>3, <5>2
          <6> QED
            <7>1. /\ stream[i].sent \in Nat /\ stream[i].stamp \in Nat
                  /\ stream[i].sent <= now /\ stream[i].stamp <= now + Fast
              BY <6>1, HeartbeatTyped
            <7>2. now \in Nat /\ Fast \in Nat
              BY ClocksTyped
            <7> QED
              BY <6>1, <7>1, <7>2
        <5> QED
          BY <5>1, <5>2
      <4> QED
        BY <1>0, <2>1, <2>2, <2>3, <4>1 DEF Clocks!TypeOK
    <3>5. Spaced'
      <4>1. ASSUME NEW i \in 1 .. Len(stream')
            PROVE  /\ stream'[i].sent <= stream'[i].stamp
                   /\ i > 1 => stream'[i].sent = stream'[i - 1].sent + Interval
        <5>1. CASE i = Len(stream) + 1
          <6>1. stream'[i] = h
            BY <3>3, <5>1
          <6>2. h.sent <= h.stamp
            BY <3>2
          <6>3. CASE i > 1
            <7>1. Len(stream) \in 1 .. Len(stream) /\ i - 1 = Len(stream) /\ stream # <<>>
              BY <1>0, <5>1, <6>3
            <7>2. stream[Len(stream)].sent = now - Interval
              BY <1>0, <2>1, <7>1 DEF Spaced
            <7>3. stream'[i - 1] = stream[Len(stream)]
              BY <3>3, <7>1
            <7>4. (now - Interval) + Interval = now
              BY ClocksTyped
            <7> QED
              BY <3>2, <6>1, <6>2, <7>2, <7>3, <7>4
          <6> QED
            BY <6>1, <6>2, <6>3
        <5>2. CASE i # Len(stream) + 1
          <6>1. /\ i \in 1 .. Len(stream) /\ stream'[i] = stream[i]
                /\ i > 1 => stream'[i - 1] = stream[i - 1]
            BY <1>0, <3>3, <5>2
          <6> QED
            BY <1>0, <6>1 DEF Spaced
        <5> QED
          BY <5>1, <5>2
      <4>2. Len(stream') = Len(stream) + 1 /\ stream'[Len(stream')].sent = now
        BY <3>2, <3>3
      <4>3. now = beat' - Interval
        BY <2>1, ClocksTyped
      <4> QED
        BY <2>1, <2>5, <4>1, <4>2, <4>3 DEF Spaced
    <3>6. Heard'
      <4>1. CASE stream = <<>>
        <5>1. stream' # <<>> /\ stream'[1] = h
          <6>1. Len(stream) + 1 = 1
            BY <4>1
          <6>2. Len(stream') = 1 /\ stream'[1] = h
            BY <3>3, <6>1
          <6> QED
            BY <6>2
        <5>2. last >= now - Interval
          BY <1>0, <2>1, <2>5, <4>1 DEF Heard
        <5> QED
          BY <2>1, <3>2, <5>1, <5>2, ClocksTyped DEF Heard
      <4>2. CASE stream # <<>>
        BY <1>0, <2>1, <2>5, <3>3, <4>2, FirstTyped DEF Heard
      <4> QED
        BY <4>1, <4>2
    <3>7. Ageing'
      BY <2>1 DEF Ageing
    <3> QED
      BY <2>3, <3>3, <3>4, <3>5, <3>6, <3>7 DEF ClocksInv
  <2> QED
    BY <2>4, <2>5
<1>2. CASE Clocks!handleRemoteEvent
  <2>1. /\ stream # <<>> /\ last' = stream[1].stamp /\ stream' = Tail(stream)
        /\ now' = now /\ ahead' = ahead /\ (up' <=> up) /\ died' = died /\ beat' = beat
        /\ prune' = prune /\ (member' <=> member)
    BY <1>2, FirstTyped DEF Clocks!handleRemoteEvent
  <2>2. up' \in BOOLEAN /\ member' \in BOOLEAN
    BY <1>0, <1>2 DEF Clocks!handleRemoteEvent, Clocks!TypeOK
  <2>3. /\ Len(stream') = Len(stream) - 1 /\ stream' \in Seq(Heartbeat)
        /\ Len(stream) \in Nat \ {0}
        /\ \A i \in 1 .. Len(stream') : i + 1 \in 1 .. Len(stream) /\ stream'[i] = stream[i + 1]
    BY <1>0, <2>1
  <2>4. Clocks!TypeOK'
    <3>1. ASSUME NEW i \in 1 .. Len(stream')
          PROVE  stream'[i].stamp \in 0 .. now + Fast /\ stream'[i].sent \in 0 .. now
      <4>1. PICK j \in 1 .. Len(stream) : stream'[i] = stream[j]
        BY <2>3
      <4>2. stream[j].stamp \in 0 .. now + Fast /\ stream[j].sent \in 0 .. now
        BY DEF ClocksInv, Clocks!TypeOK
      <4> QED
        BY <4>1, <4>2
    <3>2. last' \in 0 .. now + Fast
      BY <2>1, FirstTyped, ClocksTyped
    <3> QED
      BY <1>0, <2>1, <2>2, <3>1, <3>2 DEF Clocks!TypeOK
  <2>5. Spaced'
    <3>1. ASSUME NEW i \in 1 .. Len(stream')
          PROVE  /\ stream'[i].sent <= stream'[i].stamp
                 /\ i > 1 => stream'[i].sent = stream'[i - 1].sent + Interval
      <4>1. PICK j \in 1 .. Len(stream) : j = i + 1
        BY <2>3
      <4>2. j > 1 /\ j - 1 = i /\ stream'[i] = stream[j] /\ (i > 1 => stream'[i - 1] = stream[i])
        BY <2>3, <4>1
      <4> QED
        BY <1>0, <4>2 DEF Spaced
    <3>2. stream' # <<>> => stream'[Len(stream')] = stream[Len(stream)]
      BY <2>3
    <3> QED
      BY <1>0, <2>1, <2>3, <3>1, <3>2 DEF Spaced
  <2>6. Heard'
    <3> SUFFICES ASSUME up, member PROVE Heard'
      BY <2>1 DEF Heard
    <3>1. CASE stream' = <<>>
      <4>1. Len(stream) = 1
        BY <2>3, <3>1
      <4>2. stream[1].sent = beat - Interval
        BY <1>0, <2>1, <4>1 DEF Spaced
      <4> QED
        BY <2>1, <3>1, <4>2, FirstTyped, ClocksTyped DEF Heard
    <3>2. CASE stream' # <<>>
      <4>1. stream'[1] = stream[2] /\ 2 \in 1 .. Len(stream)
        BY <2>3, <3>2
      <4>2. stream[2].sent = stream[1].sent + Interval
        <5>1. 2 > 1 /\ 2 - 1 = 1
          OBVIOUS
        <5> QED
          BY <1>0, <4>1, <5>1 DEF Spaced
      <4>3. now <= stream[1].sent + Delay
        BY <1>0, <2>1 DEF Heard
      <4>4. /\ now <= stream[2].sent + Delay
            /\ stream[1].stamp >= stream[2].sent - Interval
        <5>1. PICK a \in Nat, b \in Nat : stream[1].sent = a /\ stream[1].stamp = b /\ a <= b
          BY <2>1, FirstTyped
        <5>2. now \in Nat /\ Delay \in Nat /\ Interval \in Nat
          BY ClocksTyped
        <5>3. now <= a + Interval + Delay /\ b >= (a + Interval) - Interval
          BY <4>3, <5>1, <5>2
        <5> QED
          BY <4>2, <5>1, <5>3
      <4> QED
        BY <2>1, <3>2, <4>1, <4>4 DEF Heard
    <3> QED
      BY <3>1, <3>2
  <2>7. Ageing'
    <3> SUFFICES ASSUME ~up PROVE Ageing'
      BY <2>1 DEF Ageing
    <3>1. last' <= died + Fast
      BY <1>0, <2>1, <2>3 DEF Ageing
    <3>2. \A i \in 1 .. Len(stream') : stream'[i].stamp <= died + Fast
      BY <1>0, <2>3 DEF Ageing
    <3> QED
      BY <1>0, <2>1, <3>1, <3>2 DEF Ageing
  <2> QED
    BY <2>1, <2>3, <2>4, <2>5, <2>6, <2>7, <1>0 DEF ClocksInv
<1>3. CASE Clocks!pruneLoop
  <2>1. /\ now = prune /\ prune' = prune + Interval /\ now' = now /\ ahead' = ahead
        /\ (up' <=> up) /\ died' = died /\ beat' = beat /\ last' = last
    BY <1>3 DEF Clocks!pruneLoop
  <2>2. up' \in BOOLEAN /\ member' \in BOOLEAN
    BY <1>0, <1>3 DEF Clocks!pruneLoop, Clocks!TypeOK
  <2>3. prune' \in now' .. now' + Interval /\ prune' - Interval = now
    BY <2>1, ClocksTyped
  <2>4. CASE member /\ Clocks!Stale
    <3>1. ~member' /\ stream' = <<>>
      BY <1>3, <2>4 DEF Clocks!pruneLoop
    <3>2. Clocks!TypeOK'
      BY <1>0, <2>1, <2>2, <2>3, <3>1 DEF Clocks!TypeOK
    <3> QED
      BY <1>0, <2>1, <3>1, <3>2 DEF ClocksInv, Spaced, Heard, Ageing
  <2>5. CASE ~(member /\ Clocks!Stale)
    <3>1. (member' <=> member) /\ stream' = stream
      BY <1>3, <2>5 DEF Clocks!pruneLoop
    <3>2. Clocks!TypeOK'
      BY <1>0, <2>1, <2>2, <2>3, <3>1 DEF Clocks!TypeOK
    <3>3. Ageing'
      <4> SUFFICES ASSUME ~up PROVE Ageing'
        BY <2>1 DEF Ageing
      <4>1. member => now <= last + DeadAfter
        <5>1. PICK n \in Nat : n = Clocks!Clock("receiver") /\ now <= n
          BY ClockTyped DEF Clocks!Hosts
        <5> QED
          BY <2>5, <5>1, ClocksTyped DEF Clocks!Stale
      <4>2. last <= died + Fast
        BY <1>0 DEF Ageing
      <4>3. member => now <= died + Fast + DeadAfter
        BY <4>1, <4>2, ClocksTyped
      <4> QED
        BY <1>0, <2>1, <2>3, <3>1, <4>3 DEF Ageing
    <3> QED
      BY <1>0, <2>1, <3>1, <3>2, <3>3 DEF ClocksInv, Spaced, Heard
  <2> QED
    BY <2>4, <2>5
<1>4. CASE Clocks!Tick
  <2>1. /\ now' = now + 1 /\ died' = died /\ prune' = prune /\ (member' <=> member)
        /\ (up' <=> up) /\ last' = last /\ stream' = stream /\ beat' = beat
        /\ ahead' = ahead
    BY <1>4 DEF Clocks!Tick
  <2>2. up' \in BOOLEAN /\ member' \in BOOLEAN
    BY <1>0, <1>4 DEF Clocks!Tick, Clocks!TypeOK
  <2>3. now < MaxNow /\ (up => now < beat) /\ now < prune
    BY <1>4 DEF Clocks!Tick
  <2>4. Clocks!TypeOK'
    <3>1. now' \in 0 .. MaxNow /\ died' \in 0 .. now'
      BY <2>1, <2>3, ClocksTyped
    <3>2. prune' \in now' .. now' + Interval
      BY <2>1, <2>3, ClocksTyped
    <3>3. up' => beat' \in now' .. now' + Interval
      BY <2>1, <2>3, ClocksTyped
    <3>4. last' \in 0 .. now' + Fast
      <4>1. now \in Nat /\ Fast \in Nat /\ last \in Nat /\ last <= now + Fast
        BY ClocksTyped
      <4> QED
        BY <2>1, <4>1
    <3>5. ASSUME NEW i \in 1 .. Len(stream')
          PROVE  stream'[i].stamp \in 0 .. now' + Fast /\ stream'[i].sent \in 0 .. now'
      <4>1. now \in Nat /\ Fast \in Nat
        BY ClocksTyped
      <4>2. /\ stream[i].sent \in Nat /\ stream[i].stamp \in Nat
            /\ stream[i].sent <= now /\ stream[i].stamp <= now + Fast
        BY <2>1, HeartbeatTyped
      <4> QED
        BY <2>1, <4>1, <4>2
    <3> QED
      BY <1>0, <2>1, <2>2, <3>1, <3>2, <3>3, <3>4, <3>5 DEF Clocks!TypeOK
  <2>5. Heard'
    <3>1. stream # <<>> => now + 1 <= stream[1].sent + Delay
      <4> SUFFICES ASSUME stream # <<>> PROVE now + 1 <= stream[1].sent + Delay
        OBVIOUS
      <4>1. PICK a \in Nat : stream[1].sent = a
        BY FirstTyped
      <4>2. now < a + Delay
        BY <1>4, <4>1, FirstTyped DEF Clocks!Tick
      <4>3. now \in Nat /\ Delay \in Nat
        BY ClocksTyped
      <4> QED
        BY <4>1, <4>2, <4>3
    <3> QED
      BY <1>0, <2>1, <3>1 DEF Heard
  <2> QED
    BY <1>0, <2>1, <2>4, <2>5 DEF ClocksInv, Spaced, Ageing
<1>5. CASE Clocks!Crash
  <2>1. /\ ~up' /\ died' = now /\ now' = now /\ ahead' = ahead /\ beat' = beat
        /\ prune' = prune /\ stream' = stream /\ (member' <=> member) /\ last' = last
    BY <1>5 DEF Clocks!Crash
  <2>2. up' \in BOOLEAN /\ member' \in BOOLEAN
    BY <1>0, <1>5 DEF Clocks!Crash, Clocks!TypeOK
  <2>3. Clocks!TypeOK'
    <3>1. died' \in 0 .. now'
      BY <2>1, ClocksTyped
    <3> QED
      BY <1>0, <2>1, <2>2, <3>1 DEF Clocks!TypeOK
  <2>4. Ageing'
    <3>1. prune - Interval <= now + Fast + DeadAfter
      BY ClocksTyped
    <3>2. last <= now + Fast
      BY ClocksTyped
    <3>3. \A i \in 1 .. Len(stream) : stream[i].stamp <= now + Fast
      BY HeartbeatTyped
    <3> QED
      BY <2>1, <3>1, <3>2, <3>3 DEF Ageing
  <2> QED
    BY <1>0, <2>1, <2>3, <2>4 DEF ClocksInv, Spaced, Heard
<1>6. ASSUME NEW h \in Clocks!Hosts, Clocks!SetClock(h)
      PROVE  ClocksInv'
  <2>1. /\ ahead' \in [Clocks!Hosts -> 0 .. Fast]
        /\ now' = now /\ (up' <=> up) /\ died' = died /\ beat' = beat /\ prune' = prune
        /\ stream' = stream /\ (member' <=> member) /\ last' = last
    BY <1>0, <1>6 DEF Clocks!SetClock, Clocks!TypeOK
  <2>2. up' \in BOOLEAN /\ member' \in BOOLEAN
    BY <1>0, <1>6 DEF Clocks!SetClock, Clocks!TypeOK
  <2>3. Clocks!TypeOK'
    BY <1>0, <2>1, <2>2 DEF Clocks!TypeOK
  <2> QED
    BY <1>0, <2>1, <2>3 DEF ClocksInv, Spaced, Heard, Ageing
<1>7. CASE UNCHANGED Clocks!vars
  <2>1. Clocks!TypeOK' <=> Clocks!TypeOK
    BY <1>7 DEF Clocks!vars, Clocks!TypeOK
  <2>2. (Spaced' <=> Spaced) /\ (Heard' <=> Heard) /\ (Ageing' <=> Ageing)
    BY <1>7 DEF Clocks!vars, Spaced, Heard, Ageing
  <2> QED
    BY <1>0, <1>7, <2>1, <2>2 DEF Clocks!vars, ClocksInv
<1> QED
  BY <1>1, <1>2, <1>3, <1>4, <1>5, <1>6, <1>7 DEF Clocks!Next

\* With the margin no tick of pruneLoop takes a living sender for dead.
LEMMA LivingStays ==
  ASSUME Clocks!ClocksAssumption, Clocks!ClocksMargin, ClocksInv, Clocks!LiveKept,
         [Clocks!Next]_Clocks!vars
  PROVE  Clocks!LiveKept'
<1>1. CASE Clocks!pruneLoop
  <2> SUFFICES ASSUME up, member PROVE ~Clocks!Stale
    BY <1>1 DEF Clocks!pruneLoop, Clocks!LiveKept
  <2>1. now - last <= Interval + Delay
    <3>1. CASE stream = <<>>
      BY <3>1, ClocksTyped DEF ClocksInv, Heard
    <3>2. CASE stream # <<>>
      <4>1. PICK a \in Nat : stream[1].sent = a
        BY <3>2, FirstTyped
      <4>2. now <= a + Delay /\ last >= a - Interval
        BY <3>2, <4>1 DEF ClocksInv, Heard
      <4>3. /\ now \in Nat /\ last \in Nat /\ a \in Nat
            /\ Delay \in Nat /\ Interval \in Nat
        BY <4>1, ClocksTyped
      <4> QED
        BY <4>2, <4>3
    <3> QED
      BY <3>1, <3>2
  <2>2. PICK n \in Nat : n = Clocks!Clock("receiver") /\ n <= now + Fast
    BY ClockTyped DEF Clocks!Hosts
  <2>3. /\ now \in Nat /\ last \in Nat /\ Delay \in Nat /\ Interval \in Nat
        /\ Fast \in Nat /\ DeadAfter \in Nat
    BY ClocksTyped
  <2>4. n - last <= Interval + Delay + Fast
    BY <2>1, <2>2, <2>3
  <2>5. n - last <= DeadAfter
    BY <2>2, <2>3, <2>4 DEF Clocks!ClocksMargin
  <2> QED
    BY <2>2, <2>3, <2>5 DEF Clocks!Stale
<1>2. CASE ~Clocks!pruneLoop
  BY <1>2 DEF Clocks!Next, Clocks!vars, Clocks!heartbeatLoop, Clocks!handleRemoteEvent,
              Clocks!Tick, Clocks!Crash, Clocks!SetClock, Clocks!LiveKept
<1> QED
  BY <1>1, <1>2

\* Type correctness of the two clocks.
THEOREM ClocksTypeCorrect ==
  ASSUME Clocks!ClocksAssumption
  PROVE  Clocks!Spec => []Clocks!TypeOK
<1>1. Clocks!Init => ClocksInv
  BY ClocksInit
<1>2. ClocksInv /\ [Clocks!Next]_Clocks!vars => ClocksInv'
  BY ClocksStep
<1>3. ClocksInv => Clocks!TypeOK
  BY DEF ClocksInv
<1> QED
  BY <1>1, <1>2, <1>3, PTL DEF Clocks!Spec

\* PruneStale compares the wall clocks of two hosts and judges rightly all the
\* same: wherever the clocks are set, as long as delay and skew leave the margin,
\* a peer that beats in time stays a member, and one that died is gone one
\* interval after its stamps are too old.
THEOREM EvictionSound ==
  ASSUME Clocks!ClocksAssumption, Clocks!ClocksMargin
  PROVE  Clocks!Spec => []Clocks!EvictionTrue
<1>1. Clocks!Init => ClocksInv /\ Clocks!LiveKept
  BY ClocksInit DEF Clocks!Init, Clocks!LiveKept
<1>2. ClocksInv /\ Clocks!LiveKept /\ [Clocks!Next]_Clocks!vars
        => ClocksInv' /\ Clocks!LiveKept'
  BY ClocksStep, LivingStays
<1>3. ClocksInv /\ Clocks!LiveKept => Clocks!EvictionTrue
  <2> SUFFICES ASSUME ClocksInv PROVE Clocks!DeadEvicted
    BY DEF Clocks!EvictionTrue
  <2>1. ~up /\ member => prune - Interval <= died + Fast + DeadAfter
    BY DEF ClocksInv, Ageing
  <2>2. /\ now \in Nat /\ died \in Nat /\ prune \in Nat /\ now <= prune
        /\ Interval \in Nat /\ Fast \in Nat /\ DeadAfter \in Nat
    BY ClocksTyped
  <2>3. ~up /\ member => ~(now > died + DeadAfter + Fast + Interval)
    BY <2>1, <2>2
  <2> QED
    BY <2>3 DEF Clocks!DeadEvicted
<1> QED
  BY <1>1, <1>2, <1>3, PTL DEF Clocks!Spec

-----------------------------------------------------------------------------
(***************************************************************************)
(* ensureStream and cancelStream                                           *)
(***************************************************************************)

Context == [peer : Peers, cancelled : BOOLEAN, parent : Nat, bornDead : BOOLEAN]
Doing   == [op : {"idle", "ensure", "cancel", "fire"}, peer : Peers \cup {"none"}, id : Nat]

Count    == Cardinality(Streams!Started)
Ensuring == {c \in Streams!Callers : doing[c].op = "ensure"}

\* A caller in the middle of an event has its peer, and a stream that handles
\* one has not returned.
Busy(c) ==
  doing[c].op # "idle" => doing[c].peer \in Peers /\ (c <= MaxCtx => c \in goroutines)

\* What cancelStream took out is in the map no more, of whichever peer.
Firing(c) ==
  doing[c].op = "fire" =>
    doing[c].id \in Streams!Started /\ \A p \in Peers : streamOf[p] # doing[c].id

StreamsInv ==
  /\ Streams!TypeOK
  /\ contexts \in [Streams!Started -> Context]
  /\ streamOf \in [Peers -> Nat]
  /\ doing \in [Streams!Callers -> Doing]
  /\ Count \in Nat /\ Count + Cardinality(Ensuring) <= MaxCtx
  /\ \A c \in Streams!Callers : Busy(c) /\ Firing(c)
  /\ Streams!CancelsOwn

\* The module's Cardinality is that of FiniteSets.
LEMMA SameCardinality == ASSUME NEW S PROVE Streams!Cardinality(S) = Cardinality(S)
BY DEF Streams!Cardinality, Cardinality

\* The streams are numbered in the order in which they were started.
LEMMA StreamsTyped ==
  ASSUME Streams!StreamsAssumption, StreamsInv
  PROVE  /\ MaxCtx \in Nat /\ Count \in Nat /\ Streams!Started = 1 .. Count
         /\ IsFiniteSet(Ensuring) /\ Cardinality(Ensuring) \in Nat
<1>1. MaxCtx \in Nat
  BY DEF Streams!StreamsAssumption
<1>2. IsFiniteSet(1 .. MaxCtx + 2)
  BY <1>1, FS_Interval
<1>3. IsFiniteSet(Ensuring)
  BY <1>2, FS_Subset DEF Ensuring, Streams!Callers
<1>4. Cardinality(Ensuring) \in Nat
  BY <1>3, FS_CardinalityType
<1>5. Streams!Started = 1 .. Count
  BY SameCardinality DEF StreamsInv, Streams!TypeOK, Count
<1> QED
  BY <1>1, <1>3, <1>4, <1>5 DEF StreamsInv

\* A stream's parent is an earlier stream or Run.
LEMMA ParentTyped ==
  ASSUME Streams!StreamsAssumption, StreamsInv, NEW id \in Streams!Started
  PROVE  /\ id \in Nat /\ id # Streams!Run /\ contexts[id] \in Context
         /\ contexts[id].parent # Streams!Run => contexts[id].parent \in Streams!Started
         /\ contexts[id].parent < id
<1>1. id \in 1 .. Count /\ Count \in Nat
  BY StreamsTyped
<1>2. contexts[id] \in Context /\ contexts[id].parent < id
  BY DEF StreamsInv, Streams!TypeOK
<1>3. contexts[id].parent \in Nat
  BY <1>2 DEF Context
<1>4. contexts[id].parent # 0 => contexts[id].parent \in 1 .. Count
  BY <1>1, <1>2, <1>3
<1> QED
  BY <1>1, <1>2, <1>4, StreamsTyped DEF Streams!Run

\* The context that a caller in the middle of an event passes on exists.
LEMMA ContextTyped ==
  ASSUME Streams!StreamsAssumption, StreamsInv, NEW c \in Streams!Callers,
         doing[c].op # "idle"
  PROVE  /\ Streams!ContextOf(c) \in Nat
         /\ Streams!ContextOf(c) # Streams!Run => Streams!ContextOf(c) \in Streams!Started
<1>1. CASE c \in {Streams!local, Streams!prune}
  BY <1>1 DEF Streams!ContextOf, Streams!Run
<1>2. CASE c \notin {Streams!local, Streams!prune}
  <2>1. c \in 1 .. MaxCtx
    BY <1>2, StreamsTyped DEF Streams!local, Streams!prune, Streams!Callers
  <2>2. c \in goroutines
    BY <2>1, StreamsTyped DEF StreamsInv, Busy
  <2> QED
    BY <1>2, <2>1, <2>2 DEF Streams!ContextOf, StreamsInv, Streams!TypeOK
<1> QED
  BY <1>1, <1>2

\* A descendant of a stream has its parent among the stream and its descendants:
\* else the set without it were closed, too.
LEMMA BelowParent ==
  ASSUME NEW id \in Streams!Started, NEW d \in Streams!Below(id), d # id
  PROVE  contexts[d].parent \in Streams!Below(id)
<1> DEFINE Closed(S) == id \in S /\ \A e \in Streams!Started : contexts[e].parent \in S => e \in S
<1>1. \A e \in Streams!Started :
        e \in Streams!Below(id) <=> \A S \in SUBSET Streams!Started : Closed(S) => e \in S
  BY DEF Streams!Below
<1>2. SUFFICES ASSUME contexts[d].parent \notin Streams!Below(id) PROVE FALSE
  OBVIOUS
<1>3. Streams!Below(id) \subseteq Streams!Started /\ Closed(Streams!Below(id))
  <2>1. Streams!Below(id) \subseteq Streams!Started
    BY DEF Streams!Below
  <2>2. id \in Streams!Below(id)
    BY <1>1
  <2>3. ASSUME NEW e \in Streams!Started, contexts[e].parent \in Streams!Below(id)
        PROVE  e \in Streams!Below(id)
    <3> SUFFICES ASSUME NEW S \in SUBSET Streams!Started, Closed(S) PROVE e \in S
      BY <1>1
    <3>1. contexts[e].parent \in Streams!Started
      BY <2>1, <2>3
    <3>2. contexts[e].parent \in S
      BY <1>1, <2>3, <3>1
    <3> QED
      BY <3>2
  <2> QED
    BY <2>1, <2>2, <2>3
<1>4. Closed(Streams!Below(id) \ {d})
  BY <1>2, <1>3
<1>5. Streams!Below(id) \ {d} \in SUBSET Streams!Started
  BY <1>3
<1> HIDE DEF Closed
<1>6. d \in Streams!Started
  BY <1>3
<1> QED
  BY <1>1, <1>4, <1>5, <1>6

\* Nothing has been started.
LEMMA StreamsInit == ASSUME Streams!StreamsAssumption, Streams!Init PROVE StreamsInv
<1>1. Streams!Started = {} /\ Streams!Started = 1 .. 0
  BY DEF Streams!Init, Streams!Started
<1>2. Count = 0
  BY <1>1, FS_EmptySet DEF Count
<1>3. Ensuring = {} /\ Cardinality(Ensuring) = 0
  <2>1. Ensuring = {}
    BY DEF Streams!Init, Ensuring, Streams!Idle
  <2> QED
    BY <2>1, FS_EmptySet
<1>4. contexts \in [Streams!Started -> Context]
  BY <1>1 DEF Streams!Init, Streams!Started
<1>5. Streams!TypeOK
  <2>1. Streams!Started = 1 .. Streams!Cardinality(Streams!Started)
    BY <1>1, <1>2, SameCardinality DEF Count
  <2>2. Streams!Cardinality(Streams!Started) <= MaxCtx
    BY <1>2, SameCardinality DEF Count, Streams!StreamsAssumption
  <2> QED
    BY <1>1, <2>1, <2>2 DEF Streams!Init, Streams!TypeOK
<1>6. doing \in [Streams!Callers -> Doing]
  BY DEF Streams!Init, Streams!Idle, Doing
<1>7. \A c \in Streams!Callers : doing[c].op = "idle"
  BY DEF Streams!Init, Streams!Idle
<1>8. Streams!CancelsOwn
  BY DEF Streams!Init, Streams!CancelsOwn
<1>9. streamOf \in [Peers -> Nat]
  BY DEF Streams!Init
<1> QED
  BY <1>2, <1>3, <1>4, <1>5, <1>6, <1>7, <1>8, <1>9
  DEF StreamsInv, Busy, Firing, Streams!StreamsAssumption
\* The steps that leave the streams alone.
LEMMA StreamsSame ==
  ASSUME Streams!StreamsAssumption, StreamsInv,
         contexts' = contexts, goroutines' = goroutines, streamOf' = streamOf, stopped' = stopped,
         doing' \in [Streams!Callers -> Doing],
         Count + Cardinality(Ensuring') <= MaxCtx,
         \A c \in Streams!Callers : Busy(c)' /\ Firing(c)'
  PROVE  StreamsInv'
<1>1. Streams!Started' = Streams!Started /\ Count' = Count
  BY DEF Streams!Started, Count
<1>2. \A id : Streams!Cancelled(id)' <=> Streams!Cancelled(id)
  BY DEF Streams!Cancelled
<1>3. Streams!TypeOK'
  BY <1>1, <1>2 DEF StreamsInv, Streams!TypeOK
<1>4. Streams!CancelsOwn'
  BY <1>2 DEF StreamsInv, Streams!CancelsOwn
<1> QED
  BY <1>1, <1>3, <1>4 DEF StreamsInv

\* Who is to start a stream, after a caller went over to something else.
LEMMA EnsuringAfter ==
  ASSUME Streams!StreamsAssumption, StreamsInv, NEW c \in Streams!Callers, NEW d \in Doing,
         doing' = [doing EXCEPT ![c] = d]
  PROVE  /\ doing' \in [Streams!Callers -> Doing]
         /\ \A e \in Streams!Callers : doing'[e] = IF e = c THEN d ELSE doing[e]
         /\ Ensuring' = IF d.op = "ensure" THEN Ensuring \cup {c} ELSE Ensuring \ {c}
<1>1. \A e \in Streams!Callers : doing'[e] = IF e = c THEN d ELSE doing[e]
  BY DEF StreamsInv
<1>2. Streams!Callers' = Streams!Callers
  BY DEF Streams!Callers
<1>3. Ensuring' = {e \in Streams!Callers : doing'[e].op = "ensure"}
  BY <1>2 DEF Ensuring
<1>4. Ensuring' = IF d.op = "ensure" THEN Ensuring \cup {c} ELSE Ensuring \ {c}
  BY <1>1, <1>3 DEF Ensuring
<1> QED
  BY <1>1, <1>4 DEF StreamsInv

\* TakeEvent
LEMMA TakeEventStep ==
  ASSUME Streams!StreamsAssumption, StreamsInv, NEW c \in Streams!Callers, NEW p \in Peers,
         NEW op \in {"ensure", "cancel"}, Streams!TakeEvent(c, p, op)
  PROVE  StreamsInv'
<1> DEFINE d == [op |-> op, peer |-> p, id |-> 0]
<1>1. d \in Doing /\ d.op = op /\ d.peer = p
  BY DEF Doing
<1>2. /\ doing' = [doing EXCEPT ![c] = d] /\ doing[c].op = "idle"
      /\ contexts' = contexts /\ goroutines' = goroutines /\ streamOf' = streamOf /\ stopped' = stopped
  BY DEF Streams!TakeEvent, Streams!Set, Streams!Idle
<1> HIDE DEF d
<1>3. c <= MaxCtx => c \in goroutines
  BY StreamsTyped DEF Streams!TakeEvent, Streams!Alive, Streams!local, Streams!prune,
                      Streams!Callers
<1>4. \A e \in Streams!Callers : Busy(e)' /\ Firing(e)'
  <2>1. Streams!Started' = Streams!Started
    BY <1>2 DEF Streams!Started
  <2> QED
    BY <1>1, <1>2, <1>3, <2>1, EnsuringAfter DEF StreamsInv, Busy, Firing
<1>5. Count + Cardinality(Ensuring') <= MaxCtx
  <2>1. CASE op = "ensure"
    <3>1. Ensuring' = Ensuring \cup {c} /\ c \notin Ensuring
      BY <1>1, <1>2, <2>1, EnsuringAfter DEF Ensuring
    <3>2. Cardinality(Ensuring') = Cardinality(Ensuring) + 1
      BY <3>1, StreamsTyped, FS_AddElement
    <3>3. Count + Cardinality(Ensuring) < MaxCtx
      BY <2>1, SameCardinality DEF Streams!TakeEvent, Streams!Room, Count, Ensuring
    <3> QED
      BY <3>2, <3>3, StreamsTyped
  <2>2. CASE op # "ensure"
    <3>1. Ensuring' = Ensuring
      BY <1>1, <1>2, <2>2, EnsuringAfter DEF Ensuring
    <3> QED
      BY <3>1 DEF StreamsInv
  <2> QED
    BY <2>1, <2>2
<1> QED
  BY <1>1, <1>2, <1>4, <1>5, EnsuringAfter, StreamsSame
\* cancelStream, the half under the lock.
LEMMA CancelStep ==
  ASSUME Streams!StreamsAssumption, StreamsInv, NEW c \in Streams!Callers,
         Streams!cancelStream(c)
  PROVE  StreamsInv'
<1> DEFINE p == doing[c].peer
           s == streamOf[p]
           d == IF s # 0 THEN [op |-> "fire", peer |-> p, id |-> s] ELSE Streams!Idle
<1>1. p \in Peers /\ doing[c].op = "cancel" /\ s \in Nat
  BY DEF Streams!cancelStream, StreamsInv, Busy
<1>2. /\ streamOf' = [streamOf EXCEPT ![p] = 0] /\ doing' = [doing EXCEPT ![c] = d]
      /\ contexts' = contexts /\ goroutines' = goroutines /\ stopped' = stopped
  BY DEF Streams!cancelStream, Streams!Set
<1>3. /\ d \in Doing /\ d.op \in {"idle", "fire"}
      /\ d.op = "fire" => d.peer = p /\ d.id = s /\ s # 0
  BY <1>1 DEF Doing, Streams!Idle
<1>4. s # 0 => s \in Streams!Started /\ contexts[s].peer = p
  BY <1>1 DEF StreamsInv, Streams!TypeOK
<1>5. \A q \in Peers : streamOf'[q] = IF q = p THEN 0 ELSE streamOf[q]
  BY <1>2 DEF StreamsInv
<1>6. \A q \in Peers : q # p /\ s # 0 => streamOf[q] # s
  BY <1>4 DEF StreamsInv, Streams!TypeOK
<1>7. Streams!Started' = Streams!Started /\ Count' = Count
  BY <1>2 DEF Streams!Started, Count
<1>8. \A id : Streams!Cancelled(id)' <=> Streams!Cancelled(id)
  BY <1>2 DEF Streams!Cancelled
<1> HIDE DEF d, s, p
<1>9. Streams!TypeOK'
  BY <1>2, <1>5, <1>7, <1>8 DEF StreamsInv, Streams!TypeOK
<1>10. Streams!CancelsOwn'
  BY <1>2, <1>5, <1>8 DEF StreamsInv, Streams!CancelsOwn
<1>11. \A e \in Streams!Callers : Busy(e)' /\ Firing(e)'
  <2>1. ASSUME NEW e \in Streams!Callers PROVE Busy(e)'
    <3>1. c <= MaxCtx => c \in goroutines
      BY <1>1 DEF StreamsInv, Busy
    <3> QED
      BY <1>1, <1>2, <1>3, <3>1, EnsuringAfter DEF StreamsInv, Busy
  <2>2. ASSUME NEW e \in Streams!Callers PROVE Firing(e)'
    <3>1. CASE e = c
      <4>1. doing'[e] = d
        BY <1>2, <1>3, <3>1, EnsuringAfter
      <4>2. s # 0 => s \in Streams!Started' /\ \A q \in Peers : streamOf'[q] # s
        BY <1>4, <1>5, <1>6, <1>7
      <4> QED
        BY <1>3, <4>1, <4>2 DEF Firing
    <3>2. CASE e # c
      <4>1. doing'[e] = doing[e]
        BY <1>2, <1>3, <3>2, EnsuringAfter
      <4>2. doing[e].op = "fire" => doing[e].id # 0 /\ doing[e].id \in Streams!Started
        BY ParentTyped DEF StreamsInv, Firing, Streams!Run
      <4> QED
        BY <1>5, <1>7, <4>1, <4>2 DEF StreamsInv, Firing
    <3> QED
      BY <3>1, <3>2
  <2> QED
    BY <2>1, <2>2
<1>12. Ensuring' = Ensuring
  BY <1>1, <1>2, <1>3, EnsuringAfter DEF Ensuring
<1>13. contexts' \in [Streams!Started' -> Context] /\ streamOf' \in [Peers -> Nat]
  BY <1>2, <1>7 DEF StreamsInv
<1> QED
  BY <1>2, <1>3, <1>7, <1>9, <1>10, <1>11, <1>12, <1>13, EnsuringAfter DEF StreamsInv

\* Contexts that are cancelled, with no other change than what the caller does:
\* they are closed under the streams opened from them, but for roots that are in
\* the map no more.
LEMMA CancelsBelow ==
  ASSUME Streams!StreamsAssumption, StreamsInv, NEW C \in SUBSET Streams!Started,
         contexts' = [i \in Streams!Started |->
                   IF i \in C THEN [contexts[i] EXCEPT !.cancelled = TRUE] ELSE contexts[i]],
         goroutines' = goroutines, streamOf' = streamOf,
         stopped' \in BOOLEAN, stopped => stopped',
         \A p \in Peers : streamOf[p] \in C =>
           \/ contexts[streamOf[p]].parent \in C
           \/ contexts[streamOf[p]].parent = Streams!Run /\ stopped',
         doing' \in [Streams!Callers -> Doing], Ensuring' \subseteq Ensuring,
         \A c \in Streams!Callers : doing'[c] \in {doing[c], Streams!Idle}
  PROVE  StreamsInv'
<1>1. Streams!Started' = Streams!Started /\ Count' = Count
  BY DEF Streams!Started, Count
<1>2. \A i \in Streams!Started :
        /\ contexts'[i] \in Context /\ contexts'[i].peer = contexts[i].peer /\ contexts'[i].parent = contexts[i].parent
        /\ contexts'[i].cancelled <=> (contexts[i].cancelled \/ i \in C)
  <2> SUFFICES ASSUME NEW i \in Streams!Started
               PROVE  /\ contexts'[i] \in Context /\ contexts'[i].peer = contexts[i].peer
                      /\ contexts'[i].parent = contexts[i].parent
                      /\ contexts'[i].cancelled <=> (contexts[i].cancelled \/ i \in C)
    OBVIOUS
  <2>1. contexts[i] \in Context
    BY DEF StreamsInv
  <2>2. CASE i \in C
    BY <2>1, <2>2 DEF Context
  <2>3. CASE i \notin C
    BY <2>1, <2>3 DEF Context
  <2> QED
    BY <2>2, <2>3
<1>3. \A i \in Streams!Started : Streams!Cancelled(i)' <=> (Streams!Cancelled(i) \/ i \in C)
  BY <1>2, ParentTyped DEF Streams!Cancelled
<1>4. Streams!Cancelled(Streams!Run)' <=> stopped'
  BY DEF Streams!Cancelled
<1>5. Streams!TypeOK'
  BY <1>1, <1>2, <1>3 DEF StreamsInv, Streams!TypeOK
<1>6. Streams!CancelsOwn'
  <2> SUFFICES ASSUME NEW p \in Peers, NEW s \in Streams!Started, s = streamOf[p],
                      NEW q \in {Streams!Run} \cup Streams!Started, q = contexts[s].parent,
                      Streams!Cancelled(s)'
               PROVE  Streams!Cancelled(q)'
    <3>1. \A p \in Peers : streamOf[p] # 0 => streamOf[p] \in Streams!Started
      BY DEF StreamsInv, Streams!TypeOK
    <3>2. \A s \in Streams!Started : contexts[s].parent \in {Streams!Run} \cup Streams!Started
      BY ParentTyped
    <3> QED
      BY <1>2, <3>1, <3>2 DEF Streams!CancelsOwn, Streams!Cancelled
  <2>1. Streams!Cancelled(s) \/ s \in C
    BY <1>3
  <2>2. CASE Streams!Cancelled(s)
    <3>1. s # 0
      BY ParentTyped DEF Streams!Run
    <3>2. Streams!Cancelled(q)
      BY <2>2, <3>1 DEF StreamsInv, Streams!CancelsOwn
    <3>3. q = Streams!Run => stopped
      BY <3>2 DEF Streams!Cancelled
    <3> QED
      BY <1>3, <1>4, <3>2, <3>3
  <2>3. CASE s \in C
    BY <1>3, <1>4, <2>3
  <2> QED
    BY <2>1, <2>2, <2>3
<1>7. \A c \in Streams!Callers : Busy(c)' /\ Firing(c)'
  <2>1. Streams!Idle.op = "idle"
    BY DEF Streams!Idle
  <2> QED
    BY <1>1, <2>1 DEF StreamsInv, Busy, Firing
<1>8. Count' + Cardinality(Ensuring') <= MaxCtx
  <2>1. Cardinality(Ensuring') <= Cardinality(Ensuring) /\ Cardinality(Ensuring') \in Nat
    BY StreamsTyped, FS_Subset, FS_CardinalityType
  <2> QED
    BY <1>1, <2>1, StreamsTyped DEF StreamsInv
<1>9. contexts' \in [Streams!Started' -> Context]
  BY <1>1, <1>2
<1> QED
  BY <1>1, <1>5, <1>6, <1>7, <1>8, <1>9 DEF StreamsInv
\* cancelStream, what it does after the lock is let go.
LEMMA FireStep ==
  ASSUME Streams!StreamsAssumption, StreamsInv, NEW c \in Streams!Callers, Streams!fire(c)
  PROVE  StreamsInv'
<1> DEFINE id == doing[c].id
           C  == Streams!Below(id)
<1>1. id \in Streams!Started /\ \A p \in Peers : streamOf[p] # id
  BY DEF Streams!fire, StreamsInv, Firing
<1>2. C \in SUBSET Streams!Started
  BY DEF Streams!Below
<1>3. \A d \in C : d # id => contexts[d].parent \in C
  BY <1>1, BelowParent
<1>4. contexts' = [i \in Streams!Started |->
               IF i \in C THEN [contexts[i] EXCEPT !.cancelled = TRUE] ELSE contexts[i]]
  BY DEF Streams!fire, Streams!Fired
<1>5. Streams!Idle \in Doing /\ Streams!Idle.op = "idle"
  BY DEF Streams!Idle, Doing
<1>6. /\ doing' = [doing EXCEPT ![c] = Streams!Idle]
      /\ goroutines' = goroutines /\ streamOf' = streamOf /\ stopped' = stopped
  BY DEF Streams!fire
<1>7. /\ doing' \in [Streams!Callers -> Doing] /\ Ensuring' \subseteq Ensuring
      /\ \A e \in Streams!Callers : doing'[e] \in {doing[e], Streams!Idle}
  <2>1. /\ doing' \in [Streams!Callers -> Doing]
        /\ \A e \in Streams!Callers : doing'[e] = IF e = c THEN Streams!Idle ELSE doing[e]
    BY <1>5, <1>6, EnsuringAfter
  <2>2. Ensuring' = Ensuring \ {c}
    BY <1>5, <1>6, EnsuringAfter
  <2> QED
    BY <2>1, <2>2
<1>8. stopped' \in BOOLEAN /\ (stopped => stopped')
  BY <1>6 DEF StreamsInv, Streams!TypeOK
<1>9. \A p \in Peers : streamOf[p] \in C => contexts[streamOf[p]].parent \in C
  BY <1>1, <1>3
<1> HIDE DEF C
<1> QED
  BY <1>2, <1>4, <1>6, <1>7, <1>8, <1>9, CancelsBelow

\* Run's context ends.
LEMMA StopStep ==
  ASSUME Streams!StreamsAssumption, StreamsInv, Streams!Stop
  PROVE  StreamsInv'
<1> DEFINE C == Streams!Started
<1>1. contexts' = [i \in Streams!Started |->
               IF i \in C THEN [contexts[i] EXCEPT !.cancelled = TRUE] ELSE contexts[i]]
  BY DEF Streams!Stop
<1>2. goroutines' = goroutines /\ streamOf' = streamOf /\ doing' = doing /\ stopped' = TRUE
  BY DEF Streams!Stop
<1>3. /\ doing' \in [Streams!Callers -> Doing] /\ Ensuring' \subseteq Ensuring
      /\ \A e \in Streams!Callers : doing'[e] \in {doing[e], Streams!Idle}
  BY <1>2 DEF StreamsInv, Ensuring
<1>4. \A p \in Peers : streamOf[p] \in C =>
        \/ contexts[streamOf[p]].parent \in C
        \/ contexts[streamOf[p]].parent = Streams!Run /\ stopped'
  BY <1>2, ParentTyped
<1>5. C \in SUBSET Streams!Started
  OBVIOUS
<1> HIDE DEF C
<1> QED
  BY <1>1, <1>2, <1>3, <1>4, <1>5, CancelsBelow

\* runStream returns.
LEMMA ReturnStep ==
  ASSUME Streams!StreamsAssumption, StreamsInv, NEW id \in Streams!Started,
         Streams!runStreamReturns(id)
  PROVE  StreamsInv'
<1>1. /\ goroutines' = goroutines \ {id} /\ Streams!Cancelled(id) /\ doing[id].op = "idle"
      /\ contexts' = contexts /\ streamOf' = streamOf /\ doing' = doing /\ stopped' = stopped
  BY DEF Streams!runStreamReturns, Streams!Idle
<1>2. Streams!Started' = Streams!Started /\ Count' = Count /\ Ensuring' = Ensuring
  BY <1>1 DEF Streams!Started, Count, Ensuring, Streams!Callers
<1>3. \A i : Streams!Cancelled(i)' <=> Streams!Cancelled(i)
  BY <1>1 DEF Streams!Cancelled
<1>4. Streams!TypeOK'
  BY <1>1, <1>2, <1>3 DEF StreamsInv, Streams!TypeOK
<1>5. Streams!CancelsOwn'
  BY <1>1, <1>3 DEF StreamsInv, Streams!CancelsOwn
<1>6. \A c \in Streams!Callers : Busy(c)' /\ Firing(c)'
  BY <1>1, <1>2 DEF StreamsInv, Busy, Firing
<1> QED
  BY <1>1, <1>2, <1>4, <1>5, <1>6 DEF StreamsInv
\* ensureStream, when the peer has no stream: the new one gets the number after
\* the last, and is cancelled if and only if its parent is.
LEMMA StreamStartStep ==
  ASSUME Streams!StreamsAssumption, StreamsInv, NEW c \in Streams!Callers,
         NEW p \in Peers, NEW q \in {Streams!Run} \cup Streams!Started, NEW b \in BOOLEAN,
         doing[c].op = "ensure", doing' = [doing EXCEPT ![c] = Streams!Idle],
         b <=> Streams!Cancelled(q),
         contexts' = [i \in 1 .. Count + 1 |->
                   IF i < Count + 1 THEN contexts[i]
                   ELSE [peer |-> p, cancelled |-> b, parent |-> q, bornDead |-> b]],
         goroutines' = goroutines \cup {Count + 1}, streamOf' = [streamOf EXCEPT ![p] = Count + 1],
         stopped' = stopped, streamOf[p] = 0
  PROVE  StreamsInv'
<1> DEFINE r == [peer |-> p, cancelled |-> b, parent |-> q, bornDead |-> b]
<1>0. PICK id \in Nat : id = Count + 1
  BY StreamsTyped
<1>1. /\ id \in Nat /\ id # 0 /\ id \notin Streams!Started
      /\ 1 .. id = Streams!Started \cup {id} /\ \A i \in Streams!Started : i < id
  BY <1>0, StreamsTyped
<1>2. r \in Context /\ r.peer = p /\ r.parent = q /\ (r.cancelled <=> b) /\ q < id
  BY <1>1, StreamsTyped DEF Context, Streams!Run
<1>3. contexts' = [i \in 1 .. id |-> IF i < id THEN contexts[i] ELSE r]
  BY <1>0
<1>4. goroutines' = goroutines \cup {id} /\ streamOf' = [streamOf EXCEPT ![p] = id]
  BY <1>0
<1> HIDE DEF r
<1>5. /\ Streams!Started' = Streams!Started \cup {id}
      /\ contexts'[id] = r /\ \A i \in Streams!Started : contexts'[i] = contexts[i]
  <2>1. Streams!Started' = 1 .. id
    BY <1>3 DEF Streams!Started
  <2>2. contexts'[id] = r
    <3>1. id \in 1 .. id /\ ~(id < id)
      BY <1>1
    <3> QED
      BY <1>3, <3>1
  <2>3. ASSUME NEW i \in Streams!Started PROVE contexts'[i] = contexts[i]
    BY <1>1, <1>3
  <2> QED
    BY <1>1, <2>1, <2>2, <2>3
<1>6. Count' = id
  <2>1. IsFiniteSet(Streams!Started)
    BY StreamsTyped, FS_Interval
  <2>2. Cardinality(Streams!Started \cup {id}) = Count + 1
    BY <1>1, <2>1, FS_AddElement DEF Count
  <2> QED
    BY <1>0, <1>5, <2>2 DEF Count
<1>7. /\ \A i \in Streams!Started : Streams!Cancelled(i)' <=> Streams!Cancelled(i)
      /\ Streams!Cancelled(Streams!Run)' <=> Streams!Cancelled(Streams!Run)
      /\ Streams!Cancelled(id)' <=> b
  BY <1>1, <1>2, <1>5, ParentTyped DEF Streams!Cancelled, Streams!Run
<1>8. \A s \in Peers : streamOf'[s] = IF s = p THEN id ELSE streamOf[s]
  BY <1>4 DEF StreamsInv
<1>9. Ensuring' = Ensuring \ {c} /\ doing' \in [Streams!Callers -> Doing]
      /\ \A e \in Streams!Callers : doing'[e] \in {doing[e], Streams!Idle}
  <2>1. Streams!Idle \in Doing /\ Streams!Idle.op = "idle"
    BY DEF Streams!Idle, Doing
  <2> QED
    BY <2>1, EnsuringAfter
<1>10. Count' + Cardinality(Ensuring') <= MaxCtx /\ Count' \in Nat /\ Count' <= MaxCtx
  <2>1. c \in Ensuring
    BY DEF Ensuring
  <2>2. Cardinality(Ensuring') = Cardinality(Ensuring) - 1
    BY <1>9, <2>1, StreamsTyped, FS_RemoveElement
  <2>3. IsFiniteSet(Ensuring') /\ Cardinality(Ensuring') \in Nat
    <3>1. IsFiniteSet(Ensuring')
      BY <1>9, StreamsTyped, FS_Subset
    <3> QED
      BY <3>1, FS_CardinalityType
  <2> QED
    BY <1>0, <1>6, <2>2, <2>3, StreamsTyped DEF StreamsInv
<1>11. Streams!TypeOK'
  <2>1. /\ Streams!Started' = 1 .. Streams!Cardinality(Streams!Started)'
        /\ Streams!Cardinality(Streams!Started)' <= MaxCtx
    BY <1>1, <1>5, <1>6, <1>10, SameCardinality DEF Count
  <2>2. goroutines' \subseteq Streams!Started'
    BY <1>4, <1>5 DEF StreamsInv, Streams!TypeOK
  <2>3. \A i \in Streams!Started' \ goroutines' : Streams!Cancelled(i)'
    BY <1>4, <1>5, <1>7 DEF StreamsInv, Streams!TypeOK
  <2>4. \A s \in Peers : streamOf'[s] \in {0} \cup {i \in Streams!Started' : contexts'[i].peer = s}
    <3> SUFFICES ASSUME NEW s \in Peers
                 PROVE  streamOf'[s] \in {0} \cup {i \in Streams!Started' : contexts'[i].peer = s}
      OBVIOUS
    <3>1. CASE s = p
      <4>1. streamOf'[s] = id /\ id \in Streams!Started' /\ contexts'[id].peer = s
        BY <1>2, <1>5, <1>8, <3>1
      <4> QED
        BY <4>1
    <3>2. CASE s # p
      <4>1. /\ streamOf'[s] = streamOf[s]
            /\ streamOf[s] \in {0} \cup {i \in Streams!Started : contexts[i].peer = s}
        BY <1>8, <3>2 DEF StreamsInv, Streams!TypeOK
      <4> QED
        BY <1>5, <4>1
    <3> QED
      BY <3>1, <3>2
  <2>5. \A i \in Streams!Started' : contexts'[i].parent < i
    <3>1. \A i \in Streams!Started : contexts[i].parent < i
      BY DEF StreamsInv, Streams!TypeOK
    <3>2. contexts'[id].parent < id
      BY <1>2, <1>5
    <3> QED
      BY <1>5, <3>1, <3>2
  <2>6. stopped' \in BOOLEAN
    BY DEF StreamsInv, Streams!TypeOK
  <2> QED
    BY <2>1, <2>2, <2>3, <2>4, <2>5, <2>6 DEF Streams!TypeOK
<1>12. Streams!CancelsOwn'
  <2> SUFFICES ASSUME NEW u \in Peers, NEW s \in Streams!Started \cup {id}, s = streamOf'[u],
                      NEW a \in {Streams!Run} \cup Streams!Started, a = contexts'[s].parent,
                      Streams!Cancelled(s)'
               PROVE  Streams!Cancelled(a)'
    <3>1. \A u \in Peers : streamOf'[u] # 0 => streamOf'[u] \in Streams!Started \cup {id}
      BY <1>8 DEF StreamsInv, Streams!TypeOK
    <3>2. \A s \in Streams!Started \cup {id} :
            contexts'[s].parent \in {Streams!Run} \cup Streams!Started
      BY <1>2, <1>5, ParentTyped
    <3>3. ASSUME NEW u \in Peers, streamOf'[u] # 0, Streams!Cancelled(streamOf[u])'
          PROVE  Streams!Cancelled(contexts[streamOf[u]].parent)'
      <4>1. PICK s \in Streams!Started \cup {id} : s = streamOf'[u]
        BY <3>1, <3>3
      <4>2. PICK a \in {Streams!Run} \cup Streams!Started : a = contexts'[s].parent
        BY <3>2
      <4>3. Streams!Cancelled(s)'
        BY <3>3, <4>1 DEF Streams!Cancelled
      <4>4. Streams!Cancelled(a)'
        BY <4>1, <4>2, <4>3
      <4> QED
        BY <4>1, <4>2, <4>4 DEF Streams!Cancelled
    <3> QED
      BY <3>3 DEF Streams!CancelsOwn
  <2>1. CASE u = p
    <3>1. s = id /\ a = q
      BY <1>2, <1>5, <1>8, <2>1
    <3> QED
      BY <1>7, <3>1
  <2>2. CASE u # p
    <3>1. s = streamOf[u] /\ s # id
      <4>1. streamOf[u] \in {0} \cup Streams!Started
        BY DEF StreamsInv, Streams!TypeOK
      <4> QED
        BY <1>1, <1>8, <2>2, <4>1
    <3>2. Streams!Cancelled(s) /\ s # 0 /\ a = contexts[s].parent
      BY <1>5, <1>7, <3>1, ParentTyped DEF Streams!Run
    <3>3. Streams!Cancelled(a)
      BY <3>1, <3>2 DEF StreamsInv, Streams!CancelsOwn
    <3> QED
      BY <1>7, <3>3
  <2> QED
    BY <2>1, <2>2
<1>13. \A e \in Streams!Callers : Busy(e)' /\ Firing(e)'
  <2>1. Streams!Idle.op = "idle"
    BY DEF Streams!Idle
  <2> QED
    BY <1>1, <1>4, <1>5, <1>8, <1>9, <2>1 DEF StreamsInv, Busy, Firing
<1>14. contexts' \in [Streams!Started' -> Context]
  <2>1. \A i \in Streams!Started' : contexts'[i] \in Context
    BY <1>2, <1>5 DEF StreamsInv
  <2> QED
    BY <1>1, <1>3, <1>5, <2>1
<1>15. streamOf' \in [Peers -> Nat]
  BY <1>1, <1>4 DEF StreamsInv
<1> QED
  BY <1>9, <1>10, <1>11, <1>12, <1>13, <1>14, <1>15 DEF StreamsInv

\* ensureStream
LEMMA EnsureStep ==
  ASSUME Streams!StreamsAssumption, StreamsInv, NEW c \in Streams!Callers,
         Streams!ensureStream(c)
  PROVE  StreamsInv'
<1> DEFINE p == doing[c].peer
           q == Streams!ContextOf(c)
           b == Streams!Cancelled(q)
<1>1. /\ doing[c].op = "ensure" /\ p \in Peers
      /\ doing' = [doing EXCEPT ![c] = Streams!Idle] /\ stopped' = stopped
  BY DEF Streams!ensureStream, StreamsInv, Busy
<1>2. CASE streamOf[p] # 0
  <2>1. contexts' = contexts /\ goroutines' = goroutines /\ streamOf' = streamOf
    BY <1>2 DEF Streams!ensureStream
  <2>2. Streams!Idle \in Doing /\ Streams!Idle.op = "idle"
    BY DEF Streams!Idle, Doing
  <2>3. /\ doing' \in [Streams!Callers -> Doing] /\ Ensuring' \subseteq Ensuring
        /\ \A e \in Streams!Callers : doing'[e] \in {doing[e], Streams!Idle}
    BY <1>1, <2>2, EnsuringAfter
  <2>4. Count + Cardinality(Ensuring') <= MaxCtx
    <3>1. Cardinality(Ensuring') <= Cardinality(Ensuring) /\ Cardinality(Ensuring') \in Nat
      BY <2>3, StreamsTyped, FS_Subset, FS_CardinalityType
    <3> QED
      BY <3>1, StreamsTyped DEF StreamsInv
  <2>5. \A e \in Streams!Callers : Busy(e)' /\ Firing(e)'
    <3>1. Streams!Started' = Streams!Started
      BY <2>1 DEF Streams!Started
    <3> QED
      BY <2>1, <2>2, <2>3, <3>1 DEF StreamsInv, Busy, Firing
  <2> QED
    BY <1>1, <2>1, <2>3, <2>4, <2>5, StreamsSame
<1>3. CASE streamOf[p] = 0
  <2>1. q \in {Streams!Run} \cup Streams!Started
    BY <1>1, ContextTyped
  <2>2. b \in BOOLEAN
    BY <2>1 DEF Streams!Cancelled, StreamsInv, Streams!TypeOK, Context
  <2>3. /\ contexts' = [i \in 1 .. Count + 1 |->
                    IF i < Count + 1 THEN contexts[i]
                    ELSE [peer |-> p, cancelled |-> b, parent |-> q, bornDead |-> b]]
        /\ goroutines' = goroutines \cup {Count + 1}
        /\ streamOf' = [streamOf EXCEPT ![p] = Count + 1]
    BY <1>3, SameCardinality DEF Streams!ensureStream, Streams!Parent, Count
  <2>4. b <=> Streams!Cancelled(q)
    OBVIOUS
  <2> HIDE DEF b, q, p
  <2> QED
    BY <1>1, <1>3, <2>1, <2>2, <2>3, <2>4, StreamStartStep
<1> QED
  BY <1>2, <1>3

\* No step of a caller, of a stream or of Run's context leaves the invariant.
LEMMA StreamsStep ==
  ASSUME Streams!StreamsAssumption, StreamsInv, [Streams!Next]_Streams!vars
  PROVE  StreamsInv'
<1>1. CASE UNCHANGED Streams!vars
  <2>1. /\ contexts' = contexts /\ goroutines' = goroutines /\ streamOf' = streamOf /\ doing' = doing
        /\ stopped' = stopped
    BY <1>1 DEF Streams!vars
  <2>2. Ensuring' = Ensuring /\ Streams!Started' = Streams!Started
    BY <2>1 DEF Ensuring, Streams!Callers, Streams!Started
  <2>3. \A c \in Streams!Callers : Busy(c)' /\ Firing(c)'
    BY <2>1, <2>2 DEF StreamsInv, Busy, Firing
  <2> QED
    BY <2>1, <2>2, <2>3, StreamsSame DEF StreamsInv
<1>2. CASE Streams!Next
  BY <1>2, StopStep, EnsureStep, CancelStep, FireStep, TakeEventStep, ReturnStep
  DEF Streams!Next, Streams!Step
<1> QED
  BY <1>1, <1>2

\* Type correctness of the stream map: numbered streams, each opened from an
\* earlier one, the map's entries of the right peers, and whatever returned was
\* cancelled.
THEOREM StreamsTypeCorrect ==
  ASSUME Streams!StreamsAssumption
  PROVE  Streams!Spec => []Streams!TypeOK
<1>1. Streams!Init => StreamsInv
  BY StreamsInit
<1>2. StreamsInv /\ [Streams!Next]_Streams!vars => StreamsInv'
  BY StreamsStep
<1>3. StreamsInv => Streams!TypeOK
  BY DEF StreamsInv
<1> QED
  BY <1>1, <1>2, <1>3, PTL DEF Streams!Spec

\* cancelStream takes the entry out under the lock and cancels its context after
\* it; however many loops and streams call it and ensureStream in between, it
\* never cancels a stream that replaced the one it took out: a stream in the map
\* is only cancelled with the context it was opened from.
THEOREM CancelsOnlyOwn ==
  ASSUME Streams!StreamsAssumption
  PROVE  Streams!Spec => []Streams!CancelsOwn
<1>1. Streams!Init => StreamsInv
  BY StreamsInit
<1>2. StreamsInv /\ [Streams!Next]_Streams!vars => StreamsInv'
  BY StreamsStep
<1>3. StreamsInv => Streams!CancelsOwn
  BY DEF StreamsInv
<1> QED
  BY <1>1, <1>2, <1>3, PTL DEF Streams!Spec
=============================================================================
