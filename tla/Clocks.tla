------------------------------- MODULE Clocks -------------------------------
(***************************************************************************)
(* Heartbeats and eviction between two hosts whose clocks differ.  A       *)
(* heartbeat carries the sender's wall clock (TouchSelfHeartbeat), crosses *)
(* the stream as text, and pruneLoop of the receiver compares it with its  *)
(* own wall clock.  Fleet has one clock and many nodes; this module has    *)
(* one node that watches one other, in ticks finer than the interval, with *)
(* clocks that are set while the daemons run.                              *)
(***************************************************************************)
EXTENDS Integers, Sequences

CONSTANTS
  Interval,    \* HeartbeatInterval
  DeadAfter,   \* ManagerOptions.DeadAfter
  Delay,       \* the longest a heartbeat is on its way
  Fast,        \* a host's clock is 0 .. Fast ticks ahead of the slowest
  MaxNow       \* bound on time

ClocksAssumption ==
  /\ Interval \in Nat \ {0} /\ DeadAfter \in Nat /\ Delay \in Nat
  /\ Fast \in Nat /\ MaxNow \in Nat

\* A heartbeat arrives, at the latest, well before its sender is too old: the
\* defaults, 30 s against an interval of 10 s, leave 20 s for the way and the clocks.
ClocksMargin == Interval + Delay + Fast <= DeadAfter

VARIABLES
  now,         \* true time
  ahead,       \* how far each clock is ahead
  up, died,    \* the sender runs; since when it does not
  beat, prune, \* when the two tickers fire next
  stream,      \* heartbeats on their way: the stamp and when it was sent
  member,      \* the receiver has the sender in its registry
  last         \* the LastHeartbeat it has of it

vars == <<now, ahead, up, died, beat, prune, stream, member, last>>

Hosts == {"sender", "receiver"}

Clock(h) == now + ahead[h]

TypeOK ==
  /\ now \in 0 .. MaxNow /\ died \in 0 .. now
  /\ ahead \in [Hosts -> 0 .. Fast]
  /\ up \in BOOLEAN /\ member \in BOOLEAN
  /\ up => beat \in now .. now + Interval
  /\ prune \in now .. now + Interval
  /\ last \in 0 .. now + Fast
  /\ \A i \in 1 .. Len(stream) : stream[i].stamp \in 0 .. now + Fast /\ stream[i].sent \in 0 .. now

\* The sender has just been heard; the tickers are anywhere in their period.
Init ==
  /\ now = 0 /\ ahead \in [Hosts -> 0 .. Fast]
  /\ up = TRUE /\ died = 0
  /\ beat \in 1 .. Interval /\ prune \in 1 .. Interval
  /\ stream = <<>> /\ member = TRUE /\ last = Clock("sender")

-----------------------------------------------------------------------------

\* heartbeatLoop: TouchSelfHeartbeat with the ticker's time and Broadcast to
\* the receiver's stream, if there still is one.
heartbeatLoop ==
  /\ up /\ now = beat
  /\ beat' = beat + Interval
  /\ stream' = IF member THEN Append(stream, [stamp |-> Clock("sender"), sent |-> now])
               ELSE stream
  /\ UNCHANGED <<now, ahead, up, died, prune, member, last>>

\* handleRemoteEvent: Upsert takes the heartbeat's own time.
handleRemoteEvent ==
  /\ stream # <<>>
  /\ last' = Head(stream).stamp /\ stream' = Tail(stream)
  /\ UNCHANGED <<now, ahead, up, died, beat, prune, member>>

\* Seeded fault: as old as the threshold is too old.
StaleAtThreshold == Clock("receiver") - last >= DeadAfter

\* Seeded fault: the threshold counts twice.
StaleLate == Clock("receiver") - last > 2 * DeadAfter

\* PruneStale
Stale == Clock("receiver") - last > DeadAfter

\* pruneLoop: the entry goes and its stream with it.  The sender ignores the
\* peer_removed about itself, so nothing brings it back.
pruneLoop ==
  /\ now = prune
  /\ prune' = prune + Interval
  /\ IF member /\ Stale THEN member' = FALSE /\ stream' = <<>>
     ELSE UNCHANGED <<member, stream>>
  /\ UNCHANGED <<now, ahead, up, died, beat, last>>

-----------------------------------------------------------------------------
\* Time passes when the loops have run and no heartbeat is late.
Tick ==
  /\ now < MaxNow
  /\ up => now < beat
  /\ now < prune
  /\ stream # <<>> => now < Head(stream).sent + Delay
  /\ now' = now + 1
  /\ UNCHANGED <<ahead, up, died, beat, prune, stream, member, last>>

\* A host's clock is set.
SetClock(h) ==
  /\ \E a \in 0 .. Fast : ahead' = [ahead EXCEPT ![h] = a]
  /\ UNCHANGED <<now, up, died, beat, prune, stream, member, last>>

\* The sender dies; what it sent may still arrive.
Crash ==
  /\ up /\ up' = FALSE /\ died' = now
  /\ UNCHANGED <<now, ahead, beat, prune, stream, member, last>>

Next ==
  \/ heartbeatLoop \/ handleRemoteEvent \/ pruneLoop
  \/ Tick \/ Crash \/ \E h \in Hosts : SetClock(h)

Spec == Init /\ [][Next]_vars

-----------------------------------------------------------------------------
(***************************************************************************)
(* Properties                                                              *)
(***************************************************************************)

\* "peers with no heartbeat for 30 s are evicted" (README.md): a peer whose
\* heartbeats go out at every interval and arrive in time stays a member,
\* however the clocks are set meanwhile.
LiveKept == up => member

\* A peer that died is evicted, at the latest one interval after the slower
\* of its possible ages passed the threshold.
DeadEvicted == ~up /\ now > died + DeadAfter + Fast + Interval => ~member

\* PruneStale judges rightly although it compares two clocks.
EvictionTrue == LiveKept /\ DeadEvicted
=============================================================================
