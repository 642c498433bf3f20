------------------------------- MODULE Serve -------------------------------
(***************************************************************************)
(* Server.Serve (internal/mcpserver/server.go) on every node of a mesh:    *)
(* the listener goroutine, the fleet manager, the shutdown on a signal and *)
(* its grace period, and the event streams that tie the nodes together.    *)
(* http.Server.Shutdown waits for every request in flight, and an event    *)
(* stream is a request that only its reader ends.                          *)
(***************************************************************************)
EXTENDS Naturals, FiniteSets

CONSTANTS
  Nodes,
  Grace,        \* the five seconds of Shutdown, in ticks
  MaxRequests   \* bound on the other requests a node gets

ServeAssumption == Grace \in Nat \ {0} /\ MaxRequests \in Nat

VARIABLES
  ctx,        \* nodes whose ctx is cancelled (SIGINT, SIGTERM)
  listener,   \* up, failed (ListenAndServe returned an error), closed
  pc,         \* Serve: select, drain (inside Shutdown), wait (mgrWg.Wait), returned
  err,        \* the error Serve returns: none, shutdown, listen
  grace,      \* what is left of shutdownCtx
  mgrCancel,  \* nodes whose mgrCancel was called
  manager,    \* fleetMgr.Run: run, stopped; none when fleet mode is off
  streams,    \* <<reader, server>>: event streams in flight
  requests,   \* other requests in flight
  served      \* number of other requests a node has got

vars == <<ctx, listener, pc, err, grace, mgrCancel, manager, streams, requests, served>>

TypeOK ==
  /\ ctx \subseteq Nodes /\ mgrCancel \subseteq Nodes
  /\ listener \in [Nodes -> {"up", "failed", "closed"}]
  /\ pc \in [Nodes -> {"select", "drain", "wait", "returned"}]
  /\ err \in [Nodes -> {"none", "shutdown", "listen"}]
  /\ grace \in [Nodes -> 0 .. Grace]
  /\ manager \in [Nodes -> {"none", "run", "stopped"}]
  /\ streams \subseteq Nodes \X Nodes
  /\ requests \subseteq Nodes
  /\ served \in [Nodes -> 0 .. MaxRequests]

Init ==
  /\ ctx = {} /\ mgrCancel = {} /\ streams = {} /\ requests = {}
  /\ listener = [n \in Nodes |-> "up"]
  /\ pc = [n \in Nodes |-> "select"]
  /\ err = [n \in Nodes |-> "none"]
  /\ grace = [n \in Nodes |-> Grace]
  /\ manager \in [Nodes -> {"none", "run"}]
  /\ served = [n \in Nodes |-> 0]

\* Seeded fault: mgrCtx is made from context.Background().
MgrCtxDoneDetached(n) == n \in mgrCancel

\* mgrCtx is a child of ctx.
MgrCtxDone(n) == n \in ctx \/ n \in mgrCancel

InFlight(n) == {a \in Nodes : <<a, n>> \in streams}

-----------------------------------------------------------------------------
Signal(n) == /\ n \notin ctx /\ pc[n] # "returned"
             /\ ctx' = ctx \cup {n}
             /\ UNCHANGED <<listener, pc, err, grace, mgrCancel, manager, streams,
                            requests, served>>

ListenFails(n) == /\ listener[n] = "up" /\ pc[n] = "select"
                  /\ listener' = [listener EXCEPT ![n] = "failed"]
                  /\ UNCHANGED <<ctx, pc, err, grace, mgrCancel, manager, streams,
                                 requests, served>>

\* A request other than an event stream: a tool call, the console.
Request(n) == /\ listener[n] = "up" /\ n \notin requests /\ served[n] < MaxRequests
              /\ requests' = requests \cup {n}
              /\ served' = [served EXCEPT ![n] = @ + 1]
              /\ UNCHANGED <<ctx, listener, pc, err, grace, mgrCancel, manager, streams>>

Respond(n) == /\ n \in requests
              /\ requests' = requests \ {n}
              /\ UNCHANGED <<ctx, listener, pc, err, grace, mgrCancel, manager,
                             streams, served>>

\* runStream of reader a connects to the /fleet/events of b.
Connect(a, b) ==
  /\ a # b /\ <<a, b>> \notin streams
  /\ manager[a] = "run" /\ ~MgrCtxDone(a)
  /\ manager[b] # "none" /\ listener[b] = "up"
  /\ streams' = streams \cup {<<a, b>>}
  /\ UNCHANGED <<ctx, listener, pc, err, grace, mgrCancel, manager, requests, served>>

\* The stream of a reader whose context is cancelled ends: its connection is
\* closed and the handler at the server sees r.Context() done.
Disconnect(a, b) ==
  /\ <<a, b>> \in streams /\ MgrCtxDone(a)
  /\ streams' = streams \ {<<a, b>>}
  /\ UNCHANGED <<ctx, listener, pc, err, grace, mgrCancel, manager, requests, served>>

\* Manager.Run: its three loops return on ctx.Done.
ManagerStops(n) ==
  /\ manager[n] = "run" /\ MgrCtxDone(n)
  /\ manager' = [manager EXCEPT ![n] = "stopped"]
  /\ UNCHANGED <<ctx, listener, pc, err, grace, mgrCancel, streams, requests, served>>

-----------------------------------------------------------------------------
(***************************************************************************)
(* The select of Serve.                                                    *)
(***************************************************************************)

\* case <-ctx.Done(): Shutdown closes the listener and waits.
StartShutdown(n) ==
  /\ pc[n] = "select" /\ n \in ctx
  /\ pc' = [pc EXCEPT ![n] = "drain"]
  /\ listener' = [listener EXCEPT ![n] = IF @ = "up" THEN "closed" ELSE @]
  /\ UNCHANGED <<ctx, err, grace, mgrCancel, manager, streams, requests, served>>

\* Seeded fault: mgrCancel is not called when the listener fails.
ListenErrorNoCancel(n) ==
  /\ pc[n] = "select" /\ listener[n] = "failed"
  /\ pc' = [pc EXCEPT ![n] = "wait"]
  /\ err' = [err EXCEPT ![n] = "listen"]
  /\ UNCHANGED <<ctx, listener, grace, mgrCancel, manager, streams, requests, served>>

\* case err := <-listenErr
ListenError(n) ==
  /\ pc[n] = "select" /\ listener[n] = "failed"
  /\ pc' = [pc EXCEPT ![n] = "wait"]
  /\ err' = [err EXCEPT ![n] = "listen"]
  /\ mgrCancel' = mgrCancel \cup {n}
  /\ UNCHANGED <<ctx, listener, grace, manager, streams, requests, served>>

\* Shutdown returned nil.
Drained(n) ==
  /\ pc[n] = "drain" /\ InFlight(n) = {} /\ n \notin requests
  /\ pc' = [pc EXCEPT ![n] = "wait"]
  /\ mgrCancel' = mgrCancel \cup {n}
  /\ UNCHANGED <<ctx, listener, err, grace, manager, streams, requests, served>>

\* A second of the grace period.  Closing a cancelled stream and waking up take
\* far less, so they come first; at the end Shutdown returns an error.
Expiring(n) == pc[n] = "drain" /\ grace[n] = 1

Tick ==
  /\ \E n \in Nodes : pc[n] = "drain"
  /\ \A s \in streams : ~MgrCtxDone(s[1])
  /\ \A n \in Nodes : pc[n] = "drain" => InFlight(n) # {} \/ n \in requests
  /\ grace' = [n \in Nodes |-> IF pc[n] = "drain" THEN grace[n] - 1 ELSE grace[n]]
  /\ pc' = [n \in Nodes |-> IF Expiring(n) THEN "wait" ELSE pc[n]]
  /\ err' = [n \in Nodes |-> IF Expiring(n) THEN "shutdown" ELSE err[n]]
  /\ mgrCancel' = mgrCancel \cup {n \in Nodes : Expiring(n)}
  /\ UNCHANGED <<ctx, listener, manager, streams, requests, served>>

\* mgrWg.Wait; Serve returns, run returns and the process ends with its connections.
Return(n) ==
  /\ pc[n] = "wait" /\ manager[n] # "run"
  /\ pc' = [pc EXCEPT ![n] = "returned"]
  /\ listener' = [listener EXCEPT ![n] = "closed"]
  /\ streams' = {s \in streams : s[1] # n /\ s[2] # n}
  /\ requests' = requests \ {n}
  /\ UNCHANGED <<ctx, err, grace, mgrCancel, manager, served>>

Next ==
  \/ Tick
  \/ \E n \in Nodes :
       \/ Signal(n) \/ ListenFails(n) \/ Request(n) \/ Respond(n)
       \/ ManagerStops(n) \/ StartShutdown(n) \/ ListenError(n)
       \/ Drained(n) \/ Return(n)
  \/ \E a, b \in Nodes : Connect(a, b) \/ Disconnect(a, b)

\* Goroutines are scheduled, closed connections are noticed and time passes.
\* No request is assumed to end and no signal to come.
Fairness ==
  /\ WF_vars(Tick)
  /\ \A n \in Nodes : WF_vars(ManagerStops(n)) /\ WF_vars(Drained(n))
                      /\ WF_vars(StartShutdown(n) \/ ListenError(n))
                      /\ WF_vars(Return(n))
  /\ \A a, b \in Nodes : WF_vars(Disconnect(a, b))

Spec == Init /\ [][Next]_vars

FairSpec == Spec /\ Fairness

-----------------------------------------------------------------------------
(***************************************************************************)
(* Properties                                                              *)
(***************************************************************************)

Ending(n) == n \in ctx \/ listener[n] = "failed"

\* Serve always returns once its ctx is cancelled or its listener failed,
\* whatever the streams of other nodes and the requests in flight do: the
\* grace period and the order Shutdown, mgrCancel, Wait leave nobody waiting
\* for ever.
ServeReturns == \A n \in Nodes : Ending(n) ~> (pc[n] = "returned")

\* A grace period that runs out now does so because of a request, or of the
\* stream of a node that goes on.
WaitsForOthers ==
  \A n \in Nodes : err[n] = "none" /\ err'[n] = "shutdown" =>
    n \in requests \/ \E a \in InFlight(n) : a \notin ctx

\* Nodes that stop together never wait for each other: the grace period runs
\* out only because of a request, or of the stream of a node that goes on.
\* That needs the manager to stop before Shutdown, not after it.
NoMutualWait == [][WaitsForOthers]_vars
=============================================================================
