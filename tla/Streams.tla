------------------------------ MODULE Streams -------------------------------
(***************************************************************************)
(* The stream map of one Manager (internal/fleet/manager.go) at the grain  *)
(* of its lock: ensureStream, the two halves of cancelStream, and the tree *)
(* of contexts behind them.  The local-event loop, the prune loop and      *)
(* every stream's goroutine call them, each with the context it has: the   *)
(* loops with Run's, a stream with its own.  What the events say is left   *)
(* open; Fleet has the values.                                             *)
(***************************************************************************)
EXTENDS Naturals, FiniteSets

CONSTANTS
  Peers,     \* node ids of other nodes
  MaxCtx     \* bound on streams started

StreamsAssumption == MaxCtx \in Nat

VARIABLES
  ctx,       \* each stream started: its peer, its parent, is it cancelled
  running,   \* streams whose goroutine has not returned
  streams,   \* Manager.streams: the stream of each peer, 0 is none
  doing,     \* what each caller is in the middle of
  stopped    \* Run's context is cancelled

vars == <<ctx, running, streams, doing, stopped>>

Run == 0                      \* Run's context
local == MaxCtx + 1            \* localEventLoop
prune == MaxCtx + 2            \* pruneLoop
Callers == 1 .. MaxCtx + 2     \* the streams and the two loops
Started == DOMAIN ctx

Idle == [op |-> "idle", peer |-> "none", id |-> 0]

Cancelled(id) == IF id = Run THEN stopped ELSE ctx[id].cancelled

TypeOK ==
  /\ Started = 1 .. Cardinality(Started) /\ Cardinality(Started) <= MaxCtx
  /\ running \subseteq Started
  /\ \A id \in Started \ running : Cancelled(id)
  /\ \A p \in Peers : streams[p] \in {0} \cup {id \in Started : ctx[id].peer = p}
  /\ \A id \in Started : ctx[id].parent < id
  /\ stopped \in BOOLEAN

Init ==
  /\ ctx = [id \in {} |-> 0] /\ running = {}
  /\ streams = [p \in Peers |-> 0]
  /\ doing = [c \in Callers |-> Idle]
  /\ stopped = FALSE

\* The context a caller passes on.
ContextOf(c) == IF c \in {local, prune} THEN Run ELSE c

\* A caller that can take an event: the loops until Run's context ends, a
\* stream while its goroutine runs.  Events that its reader has buffered are
\* handled also when its context is cancelled meanwhile, but runStream does not
\* even connect when it was cancelled at the start.
Alive(c) == IF c \in {local, prune} THEN ~stopped
            ELSE c \in running /\ ~ctx[c].bornDead

Set(c, op, p, id) == doing' = [doing EXCEPT ![c] = [op |-> op, peer |-> p, id |-> id]]

\* MaxCtx bounds the streams started and being started.
Room == Cardinality(Started) + Cardinality({c \in Callers : doing[c].op = "ensure"}) < MaxCtx

\* An event arrives: of a peer that is alive, or of one that is gone.  The
\* prune loop only meets the latter.
TakeEvent(c, p, op) ==
  /\ doing[c] = Idle /\ Alive(c)
  /\ op = "ensure" => c # prune /\ Room
  /\ Set(c, op, p, 0)
  /\ UNCHANGED <<ctx, running, streams, stopped>>

\* Seeded fault: the stream gets a context of its own.
ParentDetached(c) == [cancelled |-> FALSE, parent |-> Run]

\* context.WithCancel of a context that is cancelled is cancelled.
Parent(c) == [cancelled |-> Cancelled(ContextOf(c)), parent |-> ContextOf(c)]

\* ensureStream, all of it under the lock.
ensureStream(c) ==
  /\ doing[c].op = "ensure"
  /\ LET p == doing[c].peer
         id == Cardinality(Started) + 1
     IN  IF streams[p] # 0 THEN UNCHANGED <<ctx, running, streams>>
         ELSE /\ ctx' = [i \in 1 .. id |-> IF i < id THEN ctx[i]
                           ELSE [peer |-> p, cancelled |-> Parent(c).cancelled,
                                 parent |-> Parent(c).parent,
                                 bornDead |-> Parent(c).cancelled]]
              /\ running' = running \cup {id}
              /\ streams' = [streams EXCEPT ![p] = id]
  /\ doing' = [doing EXCEPT ![c] = Idle]
  /\ UNCHANGED stopped

\* Seeded fault: the entry is deleted and its context is forgotten.
cancelStreamForgets(c) ==
  /\ doing[c].op = "cancel"
  /\ streams' = [streams EXCEPT ![doing[c].peer] = 0]
  /\ doing' = [doing EXCEPT ![c] = Idle]
  /\ UNCHANGED <<ctx, running, stopped>>

\* cancelStream takes the entry out under the lock ...
cancelStream(c) ==
  /\ doing[c].op = "cancel"
  /\ LET p == doing[c].peer IN
       /\ streams' = [streams EXCEPT ![p] = 0]
       /\ IF streams[p] # 0 THEN Set(c, "fire", p, streams[p])
          ELSE doing' = [doing EXCEPT ![c] = Idle]
  /\ UNCHANGED <<ctx, running, stopped>>

\* The streams whose context is id's or a descendant of it: the least set that
\* has id and every stream whose parent it has.
Below(id) ==
  LET Closed(S) == id \in S /\ \A e \in Started : ctx[e].parent \in S => e \in S
  IN  {d \in Started : \A S \in SUBSET Started : Closed(S) => d \in S}

\* Seeded fault: it looks the peer up again when it has let go of the lock.
FiredAgain(c) == IF streams[doing[c].peer] = 0 THEN {} ELSE Below(streams[doing[c].peer])

Fired(c) == Below(doing[c].id)

\* ... and cancels its context, with every context made from it, after that.
fire(c) ==
  /\ doing[c].op = "fire"
  /\ ctx' = [i \in Started |->
       IF i \in Fired(c) THEN [ctx[i] EXCEPT !.cancelled = TRUE] ELSE ctx[i]]
  /\ doing' = [doing EXCEPT ![c] = Idle]
  /\ UNCHANGED <<running, streams, stopped>>

\* Seeded fault: runStream gives up when the connection breaks.
runStreamGivesUp(id) ==
  /\ id \in running /\ doing[id] = Idle
  /\ running' = running \ {id}
  /\ UNCHANGED <<ctx, streams, doing, stopped>>

\* runStream returns once it is not in the middle of an event.
runStreamReturns(id) ==
  /\ id \in running /\ Cancelled(id) /\ doing[id] = Idle
  /\ running' = running \ {id}
  /\ UNCHANGED <<ctx, streams, doing, stopped>>

\* Run's context is cancelled, and every other one with it.
Stop ==
  /\ ~stopped /\ stopped' = TRUE
  /\ ctx' = [i \in Started |-> [ctx[i] EXCEPT !.cancelled = TRUE]]
  /\ UNCHANGED <<running, streams, doing>>

Step(c) == ensureStream(c) \/ cancelStream(c) \/ fire(c)

Next ==
  \/ Stop
  \/ \E c \in Callers :
       \/ Step(c)
       \/ \E p \in Peers, op \in {"ensure", "cancel"} : TakeEvent(c, p, op)
  \/ \E id \in Started : runStreamReturns(id)

Spec == Init /\ [][Next]_vars

\* Goroutines run: what a caller is in the middle of is completed, and a
\* goroutine whose context is cancelled returns.  The latter is strong, because
\* it may be handling buffered events again and again, but they are finite.
Fairness ==
  /\ \A c \in Callers : WF_vars(Step(c))
  /\ \A id \in 1 .. MaxCtx : SF_vars(id \in Started /\ runStreamReturns(id))

FairSpec == Spec /\ Fairness

-----------------------------------------------------------------------------
(***************************************************************************)
(* Properties                                                              *)
(***************************************************************************)

\* A context in the map is only cancelled from above: the cancel of an earlier
\* stream to the same peer, which comes after the lock is let go, never hits
\* the stream that replaced it.
CancelsOwn ==
  \A p \in Peers : streams[p] # 0 /\ Cancelled(streams[p]) =>
    Cancelled(ctx[streams[p]].parent)

Replaced(id) == id \in running /\ streams[ctx[id].peer] # id

\* No stream is left behind: one that is no longer in the map ends, although
\* it may go on for a while next to the one that replaced it.
NoneLeftBehind == \A id \in 1 .. MaxCtx : Replaced(id) ~> (id \notin running)

\* When Run's context ends every stream does, also one that is being started.
AllStop == stopped ~> (running = {})
=============================================================================
