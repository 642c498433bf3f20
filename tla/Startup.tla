------------------------------ MODULE Startup ------------------------------
(***************************************************************************)
(* How the daemon starts: run of cmd/fleetmind/main.go, EnsureToken of     *)
(* internal/mcpserver/token.go and the snapctl calls of internal/snapconf. *)
(* Each snapctl call is a step that can fail; the process can die between  *)
(* any two steps and is restarted (restart-condition: on-failure); a       *)
(* second process may be started by hand while the service starts.         *)
(*                                                                         *)
(* Values: "" is unset.  Hosts are "loop" (127.0.0.1), "any" (a wildcard)  *)
(* and "ip".  Tokens are numbers, 0 is none.                               *)
(***************************************************************************)
EXTENDS Naturals

CONSTANTS
  Procs,       \* daemon processes
  InSnap,      \* snapconf.InSnap()
  EnvToken,    \* $FLEETMIND_TOKEN
  Flags,       \* command lines
  Settings,    \* snap configurations accepted by the configure hook, or the
               \* FLEETMIND_* variables outside a snap; the token aside
  FaultKinds,  \* what may happen: "get", "set", "mirror", "crash", "operator"
  MaxFaults,   \* bound on that
  MaxTokens    \* bound on tokens drawn

\* A bind address is never an URL.
Hosts == {"", "loop", "any", "ip"}

StartupAssumption ==
  /\ InSnap \in BOOLEAN /\ EnvToken \in Nat
  /\ \A f \in Flags : f.bind \in Hosts \cup {"default"}
  /\ \A s \in Settings : s.bind \in Hosts
  /\ MaxFaults \in Nat /\ MaxTokens \in Nat

VARIABLES
  flags, conf,   \* the command line and the configuration of this run
  token,         \* snap config key "token"
  mirror,        \* $SNAP_COMMON/token
  drawn,         \* tokens drawn so far
  faults,        \* faults so far
  operator,      \* the operator has set a token since it was last read
  proc           \* each process: its step and what it has resolved

vars == <<flags, conf, token, mirror, drawn, faults, operator, proc>>

Steps == {"down", "bind", "port", "token", "generate", "set", "mirror", "fleet",
          "listen", "serving", "failed"}

\* FleetConfig: nil is [on |-> FALSE ...].
Disabled == [on |-> FALSE, join |-> "", advertise |-> ""]

Fresh == [pc |-> "down", bind |-> "", port |-> "", tok |-> 0, fleet |-> Disabled]

TypeOK ==
  /\ drawn \in 0 .. MaxTokens /\ faults \in 0 .. MaxFaults
  /\ token \in 0 .. drawn \cup {EnvToken} /\ mirror \in 0 .. drawn
  /\ operator \in BOOLEAN
  /\ \A p \in Procs : /\ proc[p].pc \in Steps
                      /\ proc[p].tok \in 0 .. drawn \cup {EnvToken}

Init ==
  /\ flags \in Flags /\ conf \in Settings
  /\ token = IF InSnap THEN 0 ELSE EnvToken
  /\ mirror = 0 /\ drawn = 0 /\ faults = 0 /\ operator = FALSE
  /\ proc = [p \in Procs |-> Fresh]

-----------------------------------------------------------------------------
At(p, step) == proc[p].pc = step

Go(p, r) == proc' = [proc EXCEPT ![p] = r]

Fault(kind) == /\ kind \in FaultKinds /\ faults < MaxFaults
               /\ faults' = faults + 1

store == <<token, mirror, drawn, operator>>

\* The service manager, or a person, starts the process.
Launch(p) ==
  /\ At(p, "down") \/ At(p, "failed")
  /\ Go(p, [Fresh EXCEPT !.pc = "bind"])
  /\ UNCHANGED <<flags, conf, store, faults>>

\* resolveBind: only a flag that differs from the default is taken.
FlagBind == IF flags.bind = "default" THEN "loop" ELSE flags.bind

BindOf == IF FlagBind # "loop" THEN FlagBind
          ELSE IF conf.bind = "" THEN "loop" ELSE conf.bind

ResolveBind(p) ==
  /\ At(p, "bind")
  /\ Go(p, [proc[p] EXCEPT !.pc = "port", !.bind = BindOf])
  /\ UNCHANGED <<flags, conf, store, faults>>

\* resolvePort
PortOf == IF flags.port # "" THEN flags.port
          ELSE IF conf.port = "" THEN "8765" ELSE conf.port

ResolvePort(p) ==
  /\ At(p, "port")
  /\ Go(p, IF PortOf = "bad" THEN [proc[p] EXCEPT !.pc = "failed"]
           ELSE [proc[p] EXCEPT !.pc = "token", !.port = PortOf])
  /\ UNCHANGED <<flags, conf, store, faults>>

\* snapctl get fails where run gives up: bind, port and the fleet settings.
ReadsConf(p) ==
  \/ At(p, "bind") /\ FlagBind = "loop"
  \/ At(p, "port") /\ flags.port = ""
  \/ At(p, "fleet") /\ (flags.join = "" \/ flags.advertise = "")

GetFails(p) ==
  /\ InSnap /\ ReadsConf(p) /\ Fault("get")
  /\ Go(p, [proc[p] EXCEPT !.pc = "failed"])
  /\ UNCHANGED <<flags, conf, store>>

-----------------------------------------------------------------------------
(***************************************************************************)
(* EnsureToken                                                             *)
(***************************************************************************)

\* Seeded fault: an unset token is an error.
AfterReadStrict == IF token # 0 THEN "fleet" ELSE "failed"

\* Seeded fault: every start makes a token.
AfterReadIgnoresStored == "generate"

AfterRead == IF token # 0 THEN "fleet" ELSE "generate"

ReadToken(p) ==
  /\ At(p, "token")
  /\ Go(p, [proc[p] EXCEPT !.pc = AfterRead, !.tok = token])
  /\ operator' = FALSE
  /\ UNCHANGED <<flags, conf, token, mirror, drawn, faults>>

\* "snapctl get token failed; falling back"
ReadTokenFails(p) ==
  /\ InSnap /\ At(p, "token") /\ Fault("get")
  /\ Go(p, [proc[p] EXCEPT !.pc = "generate"])
  /\ UNCHANGED <<flags, conf, store>>

\* $FLEETMIND_TOKEN, else a new token, to be persisted in a snap.
Generate(p) ==
  /\ At(p, "generate") /\ drawn < MaxTokens
  /\ drawn' = IF EnvToken = 0 THEN drawn + 1 ELSE drawn
  /\ Go(p, [proc[p] EXCEPT !.pc = IF InSnap /\ EnvToken = 0 THEN "set" ELSE "fleet",
                           !.tok = IF EnvToken = 0 THEN drawn' ELSE EnvToken])
  /\ UNCHANGED <<flags, conf, token, mirror, faults, operator>>

SetToken(p) ==
  /\ At(p, "set")
  /\ token' = proc[p].tok
  /\ Go(p, [proc[p] EXCEPT !.pc = "mirror"])
  /\ UNCHANGED <<flags, conf, mirror, drawn, faults, operator>>

\* Seeded fault: a token that could not be persisted is only logged.
AfterSetFailsLogged == "fleet"

AfterSetFails == "failed"

\* snapctl set fails, or is killed after it took effect.
SetFails(p) ==
  /\ At(p, "set") /\ Fault("set")
  /\ token' \in {token, proc[p].tok}
  /\ Go(p, [proc[p] EXCEPT !.pc = AfterSetFails])
  /\ UNCHANGED <<flags, conf, mirror, drawn, operator>>

Mirror(p) ==
  /\ At(p, "mirror")
  /\ mirror' = proc[p].tok
  /\ Go(p, [proc[p] EXCEPT !.pc = "fleet"])
  /\ UNCHANGED <<flags, conf, token, drawn, faults, operator>>

\* "could not mirror token to SNAP_COMMON"
MirrorFails(p) ==
  /\ At(p, "mirror") /\ Fault("mirror")
  /\ Go(p, [proc[p] EXCEPT !.pc = "fleet"])
  /\ UNCHANGED <<flags, conf, store>>

-----------------------------------------------------------------------------
(***************************************************************************)
(* resolveFleet, New and Serve                                             *)
(***************************************************************************)

JoinOf == IF flags.join = "" THEN conf.join ELSE flags.join

Advertised == IF flags.advertise = "" THEN conf.advertise ELSE flags.advertise

Enabled == flags.fleet \/ JoinOf # "" \/ Advertised # "" \/ conf.fleet = "on"

\* The default is made from the address bound.  Bound to "", it is
\* "http://:<port>", whose host validateURL does not find empty.
AdvertiseOf(p) == IF Advertised # "" THEN Advertised
                  ELSE IF proc[p].bind = "" THEN ":port" ELSE proc[p].bind

\* Seeded fault: only the flags are validated, not the configuration.
InvalidFlagsOnly(p) ==
  flags.join = "bad" \/ flags.advertise = "bad"
    \/ (Advertised = "" /\ proc[p].bind = "any")

Invalid(p) == JoinOf = "bad" \/ Advertised = "bad"
                \/ (Advertised = "" /\ proc[p].bind = "any")

ResolveFleet(p) ==
  /\ At(p, "fleet")
  /\ Go(p, IF ~Enabled THEN [proc[p] EXCEPT !.pc = "listen", !.fleet = Disabled]
           ELSE IF Invalid(p) THEN [proc[p] EXCEPT !.pc = "failed"]
           ELSE [proc[p] EXCEPT !.pc = "listen",
                   !.fleet = [on |-> TRUE, join |-> JoinOf,
                              advertise |-> AdvertiseOf(p)]])
  /\ UNCHANGED <<flags, conf, store, faults>>

\* New and Serve: the port is free, or the daemon ends with the listen error.
\* The token it has in hand is the one bearerAuth compares with.
Listen(p) ==
  /\ At(p, "listen")
  /\ Go(p, [proc[p] EXCEPT !.pc =
       IF \E q \in Procs : At(q, "serving") THEN "failed" ELSE "serving"])
  /\ UNCHANGED <<flags, conf, store, faults>>

\* bearerAuth: the request carries exactly the token in hand.
Authorized(p, t) == At(p, "serving") /\ t # 0 /\ t = proc[p].tok

-----------------------------------------------------------------------------
Crash(p) ==
  /\ proc[p].pc \notin {"down", "failed"} /\ Fault("crash")
  /\ Go(p, [proc[p] EXCEPT !.pc = "failed"])
  /\ UNCHANGED <<flags, conf, store>>

\* snap set fleetmind token=...; it takes effect at the next start.
OperatorSets ==
  /\ InSnap /\ drawn < MaxTokens /\ Fault("operator")
  /\ drawn' = drawn + 1 /\ token' = drawn' /\ operator' = TRUE
  /\ UNCHANGED <<flags, conf, mirror, proc>>

Step(p) ==
  \/ ResolveBind(p) \/ ResolvePort(p) \/ ReadToken(p) \/ Generate(p)
  \/ SetToken(p) \/ Mirror(p) \/ ResolveFleet(p) \/ Listen(p)

Next ==
  \/ OperatorSets
  \/ \E p \in Procs :
       \/ Launch(p) \/ Step(p) \/ Crash(p)
       \/ GetFails(p) \/ ReadTokenFails(p) \/ SetFails(p) \/ MirrorFails(p)

Spec == Init /\ [][Next]_vars

\* The service manager restarts what failed; the process runs.
Fairness == \A p \in Procs : WF_vars(Launch(p)) /\ WF_vars(Step(p))

FairSpec == Spec /\ Fairness

-----------------------------------------------------------------------------
(***************************************************************************)
(* Properties                                                              *)
(***************************************************************************)

\* Whoever reads the token with "snap get fleetmind token" is let in by the
\* daemon that serves, unless the operator has changed it since: the token is
\* persisted before it is used and no failure on the way is ignored.
TokenPublished ==
  InSnap /\ ~operator => \A p \in Procs : At(p, "serving") => Authorized(p, token)

KeepsToken == token # 0 /\ token' # token => UNCHANGED proc

\* "creating one on first run" (token.go, EnsureToken): the daemon never
\* replaces a token that exists, not even after a crash or a failed write.  Only
\* the operator does, in a step of no process.  A failed read ("get") is taken
\* for a first run, and an operator who sets the token during a first run is
\* overwritten: the property is about instances without these two.
TokenKept == [][KeepsToken]_vars

\* A daemon that serves has a valid port and, in fleet mode, valid URLs, from
\* whichever of flags and configuration they came.
ConfigSound ==
  \A p \in Procs : At(p, "serving") =>
    /\ proc[p].port # "bad"
    /\ proc[p].fleet.on =>
         proc[p].fleet.advertise \notin {"", "bad"} /\ proc[p].fleet.join # "bad"

\* A daemon that serves lets the operator in and has sound settings.
ServesSoundly == TokenPublished /\ ConfigSound

\* Once the faults are over the daemon serves: none of them leaves behind a
\* state from which every start fails.
FinallyServes == <>[](\E p \in Procs : At(p, "serving"))
=============================================================================
