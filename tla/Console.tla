------------------------------ MODULE Console ------------------------------
(***************************************************************************)
(* The roster of the web console (internal/webui/static/app.js, fleet and  *)
(* the token form).  The code between two awaits is one step; what happens *)
(* during an await is everything else: another press of a button, another  *)
(* answer, an event, the interval.                                         *)
(*                                                                         *)
(* A call of connect is a number; it is also the name of the controller,   *)
(* of the stream and of the interval that this call makes.                 *)
(***************************************************************************)
EXTENDS Naturals, Sequences, FiniteSets, SequencesExt

CONSTANTS
  Nodes,         \* nodes of the fleet
  Tokens,        \* what may be typed: "right", "wrong", "none"
  MaxConnects,   \* bound on calls of connect
  MaxLoads,      \* bound on requests for /fleet/peers at one time
  MaxChanges,    \* bound on changes of the roster
  MaxFaults      \* bound on requests that fail and streams that end

VARIABLES
  token,           \* what currentToken returns
  tokenStatus,     \* the text beside the token
  enabled,         \* the daemon is in fleet mode
  roster,          \* the daemon's roster
  connects,        \* calls of connect: where each is, with which token
  streams,         \* the response of /fleet/events of each
  streamAbort,     \* the last controller, or 0
  heartbeatTimer,  \* the last interval, or 0
  timers,          \* the intervals that run
  loads,           \* calls of loadInitial that wait for their answer
  known,           \* the roster on the screen
  changes, faults, \* against the bounds
  overlapped       \* history: connect was called while one was under way

form   == <<token, tokenStatus>>
page   == <<connects, streamAbort, heartbeatTimer, timers, loads, known, overlapped>>
daemon == <<enabled, roster, streams, changes>>
vars   == <<form, page, daemon, faults>>

AllTokens == {"right", "wrong", "none"}

ConsoleAssumption ==
  /\ IsFiniteSet(Nodes) /\ Tokens \subseteq AllTokens
  /\ MaxConnects \in Nat /\ MaxLoads \in Nat /\ MaxChanges \in Nat /\ MaxFaults \in Nat

Live(c) == streams[c].open /\ ~connects[c].aborted

TypeOK ==
  /\ token \in Tokens
  /\ tokenStatus \in {"", "saved", "testing", "ok", "error"}
  /\ enabled \in BOOLEAN /\ roster \in SUBSET Nodes /\ known \in SUBSET Nodes
  /\ \A c \in DOMAIN connects :
       connects[c] \in [pc : {"load", "fetch", "done"}, aborted : BOOLEAN, token : Tokens]
  /\ Len(loads) <= MaxLoads + MaxConnects
  /\ heartbeatTimer # 0 => heartbeatTimer \in timers
  /\ streamAbort # 0 => ~connects[streamAbort].aborted

Init ==
  /\ token \in Tokens /\ tokenStatus = ""
  /\ enabled \in BOOLEAN /\ roster \in (IF enabled THEN SUBSET Nodes ELSE {{}})
  /\ connects = << >> /\ streams = << >> /\ loads = << >>
  /\ streamAbort = 0 /\ heartbeatTimer = 0 /\ timers = {} /\ known = {}
  /\ changes = 0 /\ faults = 0 /\ overlapped = FALSE

Fault == faults < MaxFaults /\ faults' = faults + 1

-----------------------------------------------------------------------------
(* connect and disconnect                                                  *)

Aborted == IF streamAbort = 0 THEN connects ELSE [connects EXCEPT ![streamAbort].aborted = TRUE]

\* Seeded fault: the interval is forgotten without being stopped.
disconnectLeaks == streamAbort' = 0 /\ heartbeatTimer' = 0 /\ UNCHANGED timers

\* What disconnect does besides the abort.
disconnect ==
  streamAbort' = 0 /\ timers' = timers \ {heartbeatTimer} /\ heartbeatTimer' = 0

\* A request of loadInitial, for connect (by = its number) or an interval (0).
Load(by) == [by |-> by, token |-> token, served |-> FALSE, body |-> {}]

\* connect up to its first await: disconnect, then loadInitial's request.
connect ==
  /\ Len(connects) < MaxConnects
  /\ disconnect
  /\ connects' = Append(Aborted, [pc |-> IF token = "none" THEN "done" ELSE "load",
                                  aborted |-> FALSE, token |-> token])
  /\ streams' = Append(streams, [open |-> FALSE, queue |-> << >>])
  /\ loads' = IF token = "none" THEN loads ELSE Append(loads, Load(Len(connects) + 1))
  /\ overlapped' = (overlapped \/ \E c \in DOMAIN connects : connects[c].pc # "done")
  /\ UNCHANGED <<known, enabled, roster, changes>>

\* The page is loaded with a token in the store, or the form is submitted.
Submit ==
  /\ connect
  /\ tokenStatus' = "saved" /\ UNCHANGED <<token, faults>>

\* The user types another token.
Edit ==
  /\ token' \in Tokens \ {token}
  /\ UNCHANGED <<tokenStatus, page, daemon, faults>>

-----------------------------------------------------------------------------
(* testToken                                                               *)

\* The button, up to the await of testToken, which throws without a token.
TestToken ==
  /\ tokenStatus # "testing"
  /\ tokenStatus' = IF token = "none" THEN "error" ELSE "testing"
  /\ UNCHANGED <<token, page, daemon, faults>>

\* The answer of /healthz, which is served without bearerAuth.
Tested ==
  /\ tokenStatus = "testing" /\ tokenStatus' = "ok"
  /\ connect
  /\ UNCHANGED <<token, faults>>

TestFails ==
  /\ tokenStatus = "testing" /\ tokenStatus' = "error"
  /\ Fault /\ UNCHANGED <<token, page, daemon>>

-----------------------------------------------------------------------------
(* loadInitial                                                             *)

\* The daemon answers with the roster it has at that moment.
Serve(i) ==
  /\ i \in DOMAIN loads /\ ~loads[i].served
  /\ loads' = [loads EXCEPT ![i].served = TRUE, ![i].body = roster]
  /\ UNCHANGED <<form, connects, streamAbort, heartbeatTimer, timers, known, overlapped,
                 daemon, faults>>

\* loadInitial returns; if connect called it, connect goes on to its second
\* await with a controller of its own.
Returned(i) ==
  /\ loads' = RemoveAt(loads, i)
  /\ LET c == loads[i].by IN
       IF c = 0 THEN UNCHANGED <<connects, streamAbort>>
       ELSE streamAbort' = c /\ connects' = [connects EXCEPT ![c].pc = "fetch"]
  /\ UNCHANGED <<form, heartbeatTimer, timers, overlapped, daemon>>

\* The answer arrives: the roster that known is replaced by, or 404 (nobody),
\* or 401 (an error, logged).
Apply(i) ==
  /\ i \in DOMAIN loads /\ loads[i].served
  /\ known' = IF loads[i].token = "right" THEN loads[i].body ELSE known
  /\ Returned(i) /\ UNCHANGED faults

LoadFails(i) ==
  /\ i \in DOMAIN loads /\ Fault
  /\ Returned(i) /\ UNCHANGED known

\* setInterval calls loadInitial.
Poll ==
  /\ timers # {} /\ token # "none" /\ Len(loads) < MaxLoads
  /\ loads' = Append(loads, Load(0))
  /\ UNCHANGED <<form, connects, streamAbort, heartbeatTimer, timers, known, overlapped,
                 daemon, faults>>

-----------------------------------------------------------------------------
(* The stream                                                              *)

\* The end of connect.
StartInterval(c) == timers' = timers \cup {c} /\ heartbeatTimer' = c

Fetching(c) ==
  /\ connects[c].pc = "fetch" /\ connects' = [connects EXCEPT ![c].pc = "done"]
  /\ UNCHANGED <<form, streamAbort, loads, known, overlapped, enabled, roster, changes>>

\* eventsHandler replays the roster and parseSSE starts reading.
Opened(c) ==
  /\ Fetching(c)
  /\ ~connects[c].aborted /\ connects[c].token = "right" /\ enabled
  /\ \E s \in SetToSeqs({<<"peer_added", n>> : n \in roster}) :
       streams' = [streams EXCEPT ![c] = [open |-> TRUE, queue |-> s]]
  /\ StartInterval(c) /\ UNCHANGED faults

\* 401 or 404: connect returns there.
Denied(c) ==
  /\ Fetching(c)
  /\ ~connects[c].aborted /\ ~(connects[c].token = "right" /\ enabled)
  /\ UNCHANGED <<streams, timers, heartbeatTimer, faults>>

\* Seeded fault: connect also returns when the fetch throws.
ThrownReturns(c) ==
  /\ Fetching(c)
  /\ IF connects[c].aborted THEN UNCHANGED faults ELSE Fault
  /\ UNCHANGED <<streams, timers, heartbeatTimer>>

\* The fetch throws, because it was aborted or the daemon is not there.
Thrown(c) ==
  /\ Fetching(c)
  /\ IF connects[c].aborted THEN UNCHANGED faults ELSE Fault
  /\ StartInterval(c) /\ UNCHANGED streams

\* parseSSE and handleFrame, one event.
handleFrame(c) ==
  /\ ~connects[c].aborted /\ streams[c].queue # << >>
  /\ LET e == Head(streams[c].queue) IN
       known' = IF e[1] = "peer_removed" THEN known \ {e[2]} ELSE known \cup {e[2]}
  /\ streams' = [streams EXCEPT ![c].queue = Tail(@)]
  /\ UNCHANGED <<form, connects, streamAbort, heartbeatTimer, timers, loads, overlapped,
                 enabled, roster, changes, faults>>

\* The stream ends; part of what was on its way arrives.  parseSSE returns
\* and nobody calls connect.
StreamEnds(c) ==
  /\ streams[c].open /\ Fault
  /\ \E k \in 0 .. Len(streams[c].queue) :
       streams' = [streams EXCEPT ![c] = [open |-> FALSE, queue |-> SubSeq(@.queue, 1, k)]]
  /\ UNCHANGED <<form, page, enabled, roster, changes>>

\* A node joins or leaves.  Subscribers are told, unless their buffer is full
\* or the change is one that is not announced.
Change(n) ==
  /\ enabled /\ changes < MaxChanges /\ changes' = changes + 1
  /\ roster' = IF n \in roster THEN roster \ {n} ELSE roster \cup {n}
  /\ LET e == <<IF n \in roster THEN "peer_removed" ELSE "peer_added", n>> IN
       \E told \in SUBSET {c \in DOMAIN streams : streams[c].open} :
         streams' = [c \in DOMAIN streams |->
                       IF c \in told THEN [streams[c] EXCEPT !.queue = Append(@, e)]
                       ELSE streams[c]]
  /\ UNCHANGED <<form, page, enabled, faults>>

Next ==
  \/ Submit \/ Edit \/ TestToken \/ Tested \/ TestFails \/ Poll
  \/ \E i \in DOMAIN loads : Serve(i) \/ Apply(i) \/ LoadFails(i)
  \/ \E c \in DOMAIN connects :
       Opened(c) \/ Denied(c) \/ Thrown(c) \/ handleFrame(c) \/ StreamEnds(c)
  \/ \E n \in Nodes : Change(n)

Spec == Init /\ [][Next]_vars

\* Intervals fire, requests are answered and events are read.  The user, the
\* fleet and the network owe nothing.
Fairness ==
  /\ WF_vars(Poll) /\ WF_vars(Serve(1)) /\ WF_vars(Apply(1))
  /\ \A c \in 1 .. MaxConnects :
       WF_vars(c \in DOMAIN connects /\ (Opened(c) \/ Denied(c) \/ Thrown(c) \/ handleFrame(c)))

FairSpec == Spec /\ Fairness

-----------------------------------------------------------------------------
(***************************************************************************)
(* Properties                                                              *)
(***************************************************************************)

Settled == token = "right" /\ connects # << >> /\ Last(connects).token = "right"

Accurate == known = roster

\* "so status stays accurate even if the SSE stream drops silently" (app.js):
\* once the roster no longer changes, the screen shows it for good, whatever
\* streams ended, events were lost, answers came late or out of order and
\* connects overlapped, provided the last connect had the right token.
StaysAccurate == <>[]Settled => <>[]Accurate

\* Unless connect is called while another is under way, the page has one
\* stream and one interval at most, however often the token is saved.
OneFollower ==
  overlapped \/ ( /\ Cardinality(timers) <= 1
                  /\ Cardinality({c \in DOMAIN connects : Live(c)}) <= 1 )
=============================================================================
