----------------------------- MODULE FleetQuery -----------------------------
(***************************************************************************)
(* The fleet_query tool (internal/tools/fleet_query.go): one goroutine per *)
(* roster member opens an MCP session at the member's URL, calls the tool, *)
(* closes the session and stores one result; the handler waits for all.    *)
(*                                                                         *)
(* Around it the world moves: daemons stop, hang and come back under a new *)
(* NodeID on the old URL, the registry changes, the caller gives up.  Time *)
(* is counted per request: http.Client.Timeout bounds one HTTP exchange.   *)
(***************************************************************************)
EXTENDS Naturals, Sequences, FiniteSets

CONSTANTS
  NodeIDs,      \* identities a daemon may have, numbers
  URLs,         \* addresses
  SelfID,       \* the node that runs the query
  Home,         \* the address each identity advertises
  Timeout,      \* http.Client.Timeout, in ticks
  MaxChanges    \* bound on what happens to daemons and registry

FleetQueryAssumption ==
  /\ NodeIDs \subseteq Nat \ {0} /\ IsFiniteSet(NodeIDs)
  /\ SelfID \in NodeIDs
  /\ Home \in [NodeIDs -> URLs]
  /\ Timeout \in Nat \ {0} /\ MaxChanges \in Nat

VARIABLES
  peers,      \* identifiers in the local registry, self excluded
  running,    \* the identity of the daemon at each address, 0 when none
  changes,    \* number of changes to the two
  cancelled,  \* the caller's ctx
  phase,      \* the tool handler: idle, open (waiting), done
  roster,     \* d.Fleet.Roster() when the handler ran
  results,    \* the results slice
  call,       \* the goroutine of each roster index
  harmed      \* history: indices whose own member, or whose caller, failed

world  == <<peers, running, changes, cancelled>>
vars   == <<peers, running, changes, cancelled, phase, roster, results, call, harmed>>

\* The zero fleetNodeResult of a fresh slice.
None == [NodeID |-> 0, Self |-> FALSE, Field |-> ""]

\* A result: which of Text and Error is set.
Result == [NodeID : NodeIDs, Self : BOOLEAN, Field : {"Text", "Error"}]

Member(n) == [NodeID |-> n, AdvertiseURL |-> Home[n]]

\* The sequences that list the elements of S in order (there is one).
Sorted(S) == {s \in [1 .. Cardinality(S) -> S] :
                \A i, j \in 1 .. Cardinality(S) : i < j => s[i] < s[j]}

\* Registry.Roster: self and the peers, sorted by NodeID.
Roster == LET ids == CHOOSE s \in Sorted(peers \cup {SelfID}) : TRUE
          IN  [i \in 1 .. Cardinality(peers \cup {SelfID}) |-> Member(ids[i])]

\* The exchanges of a session, in order: Connect, CallTool, Close.
Requests == {"initialize", "tools/call", "delete"}

Call == [req : Requests \cup {"store", "end"}, session : NodeIDs \cup {0},
         left : 0 .. Timeout, Field : {"Text", "Error"}]

TypeOK ==
  /\ peers \subseteq NodeIDs \ {SelfID}
  /\ running \in [URLs -> NodeIDs \cup {0}]
  /\ changes \in 0 .. MaxChanges /\ cancelled \in BOOLEAN
  /\ phase \in {"idle", "open", "done"}
  /\ roster \in Seq([NodeID : NodeIDs, AdvertiseURL : URLs])
  /\ results \in [DOMAIN roster -> Result \cup {None}]
  /\ call \in [DOMAIN roster -> Call]
  /\ harmed \subseteq DOMAIN roster

Init ==
  /\ peers \in SUBSET (NodeIDs \ {SelfID})
  /\ \E up \in SUBSET NodeIDs :
       /\ \A m, n \in up : Home[m] = Home[n] => m = n
       /\ SelfID \in up
       /\ running = [u \in URLs |->
            IF \E n \in up : Home[n] = u
            THEN CHOOSE n \in up : Home[n] = u ELSE 0]
  /\ changes = 0 /\ cancelled = FALSE
  /\ phase = "idle" /\ roster = << >> /\ results = << >> /\ call = << >>
  /\ harmed = {}

-----------------------------------------------------------------------------
(***************************************************************************)
(* The tool handler.                                                       *)
(***************************************************************************)

\* "fleet mode disabled" (d.Fleet is nil), "tool name is required".
Refuse == /\ phase = "idle" /\ phase' = "done"
          /\ UNCHANGED <<world, roster, results, call, harmed>>

Ask == /\ phase = "idle" /\ phase' = "open"
       /\ roster' = Roster
       /\ results' = [i \in DOMAIN roster' |-> None]
       /\ call' = [i \in DOMAIN roster' |->
            [req |-> "initialize", session |-> 0, left |-> Timeout, Field |-> "Error"]]
       /\ UNCHANGED <<world, harmed>>

\* wg.Wait
Conclude == /\ phase = "open" /\ phase' = "done"
            /\ \A i \in DOMAIN roster : call[i].req = "end"
            /\ UNCHANGED <<world, roster, results, call, harmed>>

-----------------------------------------------------------------------------
(***************************************************************************)
(* The goroutine of index i: peerCallTool, then results[idx] = nr.         *)
(***************************************************************************)

Url(i) == roster[i].AdvertiseURL

NextRequest(i, r) == [call[i] EXCEPT !.req = r, !.left = Timeout]

\* The daemon at the URL answers in time.  A session belongs to the process
\* that opened it; another one refuses its requests.
Served(i) ==
  /\ phase = "open" /\ call[i].req \in Requests
  /\ ~cancelled
  /\ LET who == running[Url(i)]
         c   == call[i]
     IN /\ who # 0
        /\ \/ /\ c.req = "initialize"
              /\ call' = [call EXCEPT ![i] =
                            [NextRequest(i, "tools/call") EXCEPT !.session = who]]
           \/ /\ c.req = "tools/call" /\ c.session = who
              /\ call' = [call EXCEPT ![i] =
                            [NextRequest(i, "delete") EXCEPT !.Field = "Text"]]
           \/ /\ c.req = "delete"
              /\ call' = [call EXCEPT ![i] = NextRequest(i, "store")]
  /\ UNCHANGED <<world, phase, roster, results, harmed>>

\* The tool of the member answers IsError.
ToolError(i) ==
  /\ phase = "open" /\ call[i].req = "tools/call"
  /\ ~cancelled
  /\ running[Url(i)] # 0 /\ call[i].session = running[Url(i)]
  /\ call' = [call EXCEPT ![i] = NextRequest(i, "delete")]
  /\ harmed' = harmed \cup {i}
  /\ UNCHANGED <<world, phase, roster, results>>

\* Seeded fault: one failed member cancels the context of the whole group.
FailAll(i) ==
  [j \in DOMAIN call |-> IF call[j].req \in Requests
                         THEN [call[j] EXCEPT !.req = "store"] ELSE call[j]]

\* Seeded fault: a close that fails is tried again.
FailRetriesClose(i) ==
  [call EXCEPT ![i] = NextRequest(i,
     IF call[i].req = "initialize" THEN "store" ELSE "delete")]

\* A request failed: without a session the call is over, with one it is still
\* closed (the deferred session.Close, whose error is dropped).
FailOne(i) ==
  [call EXCEPT ![i] = NextRequest(i,
     IF call[i].req = "initialize" \/ call[i].req = "delete"
     THEN "store" ELSE "delete")]

\* The address refuses, the session is unknown there, or ctx is cancelled.
Failed(i) ==
  /\ phase = "open" /\ call[i].req \in Requests
  /\ \/ cancelled
     \/ running[Url(i)] = 0
     \/ call[i].req # "initialize" /\ call[i].session # running[Url(i)]
  /\ call' = FailOne(i)
  /\ harmed' = harmed \cup {i}
  /\ UNCHANGED <<world, phase, roster, results>>

\* http.Client.Timeout: a hung member.
TimedOut(i) ==
  /\ phase = "open" /\ call[i].req \in Requests /\ call[i].left = 0
  /\ call' = FailOne(i)
  /\ harmed' = harmed \cup {i}
  /\ UNCHANGED <<world, phase, roster, results>>

\* Seeded fault: the goroutine captured the loop variable.
SlotShared(i) == Len(roster)

\* The index the goroutine was given.
Slot(i) == i

Store(i) ==
  /\ phase = "open" /\ call[i].req = "store"
  /\ results' = [results EXCEPT ![Slot(i)] =
       [NodeID |-> roster[i].NodeID, Self |-> roster[i].NodeID = SelfID,
        Field |-> call[i].Field]]
  /\ call' = [call EXCEPT ![i].req = "end"]
  /\ UNCHANGED <<world, phase, roster, harmed>>

Goroutine(i) == Served(i) \/ ToolError(i) \/ Failed(i) \/ TimedOut(i) \/ Store(i)

InFlight == {i \in DOMAIN roster : call[i].req \in Requests}

\* Time passes, never past a timer that is due.
Tick ==
  /\ phase = "open"
  /\ InFlight # {} /\ \A i \in InFlight : call[i].left > 0
  /\ call' = [i \in DOMAIN call |->
       IF i \in InFlight
       THEN [call[i] EXCEPT !.left = @ - 1] ELSE call[i]]
  /\ UNCHANGED <<world, phase, roster, results, harmed>>

-----------------------------------------------------------------------------
(***************************************************************************)
(* The world.                                                              *)
(***************************************************************************)

Change == /\ changes < MaxChanges /\ changes' = changes + 1
          /\ phase # "done"
          /\ UNCHANGED <<phase, roster, results, call, harmed>>

\* A daemon stops, or one starts under a new identity at a free address.
Stop(u) == /\ Change /\ running[u] \notin {0, SelfID}
           /\ running' = [running EXCEPT ![u] = 0]
           /\ UNCHANGED <<peers, cancelled>>

Start(n) == /\ Change /\ running[Home[n]] = 0
            /\ running' = [running EXCEPT ![Home[n]] = n]
            /\ UNCHANGED <<peers, cancelled>>

\* The registry gains or loses a member.
Register(n) == /\ Change /\ n # SelfID
               /\ peers' = IF n \in peers THEN peers \ {n} ELSE peers \cup {n}
               /\ UNCHANGED <<running, cancelled>>

Cancel == /\ Change /\ ~cancelled /\ cancelled' = TRUE
          /\ UNCHANGED <<peers, running>>

Next ==
  \/ Refuse \/ Ask \/ Conclude \/ Tick \/ Cancel
  \/ \E i \in DOMAIN roster : Goroutine(i)
  \/ \E u \in URLs : Stop(u)
  \/ \E n \in NodeIDs : Start(n) \/ Register(n)

\* The handler runs, timers fire and goroutines are scheduled.  No member is
\* assumed to answer.
Fairness == /\ WF_vars(Ask \/ Refuse) /\ WF_vars(Conclude) /\ WF_vars(Tick)
            /\ \A i \in 1 .. Cardinality(NodeIDs) :
                 WF_vars(i \in DOMAIN roster /\ (TimedOut(i) \/ Store(i)))

Spec == Init /\ [][Next]_vars

FairSpec == Spec /\ Fairness

-----------------------------------------------------------------------------
(***************************************************************************)
(* Properties                                                              *)
(***************************************************************************)

\* The query as the abstract gathering.
Promise == INSTANCE Gather WITH
  Rosters <- {r \in UNION {[1 .. k -> [NodeID : NodeIDs, AdvertiseURL : URLs]] :
                           k \in 1 .. Cardinality(NodeIDs)} :
              \A i, j \in DOMAIN r : i < j => r[i].NodeID < r[j].NodeID},
  Answers <- Result,
  asked   <- roster,
  answer  <- results

\* fleet_query keeps the promise of Gather: every member of the roster gets one
\* answer, under its own NodeID, before the query ends (results[idx] = nr,
\* wg.Wait).
QueryKeepsPromise == Promise!Spec

\* The query ends even if no member ever answers (the client timeout).
QueryEnds == Promise!Ends

\* A member is reported as an error only if that member failed or the caller
\* gave up: a slow, dead or restarted neighbour never costs it its answer (one
\* goroutine, session and client per member).
OthersUnharmed ==
  \A i \in DOMAIN roster :
    results[i] # None /\ results[i].Field = "Error" => i \in harmed
=============================================================================
