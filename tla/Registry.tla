------------------------------ MODULE Registry ------------------------------
(***************************************************************************)
(* One node's Registry (internal/fleet/registry.go) under concurrency: the *)
(* peer map behind Registry.mu, the subscriber map and its channels behind *)
(* Registry.subMu, the goroutines that change the first and then publish   *)
(* on the second, and the /fleet/events handlers that subscribe, replay    *)
(* the roster and forward.                                                 *)
(*                                                                         *)
(* The two mutexes are never held together, so a change and the broadcast  *)
(* that announces it are separate steps: pending[g] is what goroutine g    *)
(* still has to broadcast.                                                 *)
(***************************************************************************)
EXTENDS RegistryOps, Sequences, FiniteSets

CONSTANTS
  SelfID,      \* the local node's identifier
  Updates,     \* peer records that joins and remote events carry
  Procs,       \* goroutines that change the registry
  Buffer,      \* capacity given to Subscribe
  DeadAfter,   \* staleness threshold of PruneStale
  MaxNow,      \* bound on the clock
  MaxSubs,     \* bound on subscriptions
  MaxSent      \* bound on broadcasts

ASSUME RegistryAssumption ==
  /\ SelfID \in NodeIDs
  /\ Updates \subseteq Peer
  /\ Buffer \in Nat /\ DeadAfter \in Nat
  /\ MaxNow \in Nat \ {0} /\ MaxSubs \in Nat /\ MaxSent \in Nat

VARIABLES
  now,          \* wall clock
  self,         \* Registry.self
  peers,        \* Registry.peers
  pending,      \* events each goroutine has yet to broadcast
  nextSubID,    \* Registry.nextSubID
  subscribers,  \* keys of Registry.subscribers
  chan,         \* the channel made for each subscription
  handler,      \* the /fleet/events handler reading that channel
  sent,         \* history: every event broadcast, in order
  known,        \* history: identifiers ever inserted
  silent        \* history: present entries that a heartbeat inserted

regVars  == <<self, peers, known, silent>>
subVars  == <<nextSubID, subscribers, chan, handler>>
vars     == <<now, self, peers, pending, nextSubID, subscribers, chan,
              handler, sent, known, silent>>

SubIDs == 0 .. nextSubID - 1

\* capacity of a channel: Subscribe replaces a size below one by 16
Capacity == IF Buffer < 1 THEN 16 ELSE Buffer

Channel == [buf : Seq(Event), closed : BOOLEAN]

\* An eventsHandler: how many broadcasts came before the next event it reads,
\* whether one was dropped, the roster it replayed, the events it forwarded
\* and the roster its reader makes of all that.
Handler == [pc   : {"subscribed", "forward", "done"},
            pos  : Nat,
            lost : BOOLEAN,
            snap : SUBSET NodeIDs,
            got  : SUBSET (EventType \X (NodeIDs \cup {0})),
            view : SUBSET (NodeIDs \cup {0})]

TypeOK ==
  /\ now \in 1 .. MaxNow
  /\ self \in Peer /\ self.NodeID = SelfID
  /\ PeerMap(SelfID, peers)
  /\ pending \in [Procs -> SUBSET Event]
  /\ nextSubID \in 0 .. MaxSubs
  /\ subscribers \subseteq SubIDs
  /\ chan \in [SubIDs -> Channel]
  /\ handler \in [SubIDs -> Handler]
  /\ sent \in Seq(Event)
  /\ known \subseteq NodeIDs /\ silent \subseteq NodeIDs

Init ==
  /\ now = 1
  /\ \E url \in URLs, v \in Versions, t \in ToolLists :
       self = [NodeID |-> SelfID, AdvertiseURL |-> url, Version |-> v,
               Tools |-> t, JoinedAt |-> 1, LastHeartbeat |-> 1]
  /\ peers = [id \in {} |-> self]
  /\ pending = [g \in Procs |-> {}]
  /\ nextSubID = 0 /\ subscribers = {}
  /\ chan = [i \in {} |-> [buf |-> << >>, closed |-> FALSE]]
  /\ handler = [i \in {} |-> << >>]
  /\ sent = << >>
  /\ known = {} /\ silent = {}

-----------------------------------------------------------------------------
(***************************************************************************)
(* Changing the registry.  Every operation is one critical section of mu.  *)
(***************************************************************************)

\* A goroutine with nothing left to broadcast may start an operation.  The
\* second conjunct bounds the history.
Idle(g) == /\ pending[g] = {}
           /\ Len(sent) + Cardinality({h \in Procs : pending[h] # {}}) < MaxSent

\* Bookkeeping shared by the operations that upsert.
Insert(p, byHeartbeat) ==
  /\ peers' = Upsert(SelfID, peers, p, now)
  /\ known' = known \cup (DOMAIN peers')
  /\ silent' = IF byHeartbeat THEN silent \cup (DOMAIN peers' \ DOMAIN peers)
               ELSE silent

\* joinHandler: the defaults for a request without times, then Upsert; the
\* broadcast follows when the registry changed.  A request without NodeID or
\* URL is answered with 400 and changes nothing.
JoinDefaults(p) ==
  LET joined == IF p.JoinedAt = 0 THEN now ELSE p.JoinedAt
  IN [p EXCEPT !.JoinedAt = joined,
               !.LastHeartbeat = IF @ = 0 THEN joined ELSE @]

Join(g, req) ==
  /\ Idle(g)
  /\ req.NodeID # 0 /\ req.AdvertiseURL # 0
  /\ LET p == JoinDefaults(req) IN
       /\ Insert(p, FALSE)
       /\ pending' = [pending EXCEPT ![g] =
            IF Changed(SelfID, peers, p)
            THEN {PeerAdded(Stored(SelfID, peers, p, now))} ELSE {}]
  /\ UNCHANGED <<now, self, subVars, sent>>

\* handleRemoteEvent, peer_added.
RemoteAdded(g, p) ==
  /\ Idle(g)
  /\ p.NodeID # SelfID
  /\ Insert(p, FALSE)
  /\ pending' = [pending EXCEPT ![g] =
       IF Changed(SelfID, peers, p)
       THEN {PeerAdded(Stored(SelfID, peers, p, now))} ELSE {}]
  /\ UNCHANGED <<now, self, subVars, sent>>

\* handleRemoteEvent, heartbeat: recorded, never re-broadcast.  It comes over
\* a stream to a peer that was in the registry when the stream was opened.
RemoteHeartbeat(g, beat) ==
  /\ Idle(g)
  /\ beat.NodeID \in known \ {SelfID}
  /\ Insert([beat EXCEPT !.LastHeartbeat = IF @ = 0 THEN now ELSE @], TRUE)
  /\ UNCHANGED <<now, self, pending, subVars, sent>>

\* Seeded fault: the removal is not broadcast.
RemoteRemovedSilently(g, id) ==
  /\ Idle(g)
  /\ id \in DOMAIN peers
  /\ peers' = Remove(peers, id)
  /\ silent' = silent \ {id}
  /\ UNCHANGED <<now, self, pending, subVars, sent, known>>

\* handleRemoteEvent, peer_removed.
RemoteRemoved(g, id) ==
  /\ Idle(g)
  /\ id \in DOMAIN peers
  /\ peers' = Remove(peers, id)
  /\ silent' = silent \ {id}
  /\ pending' = [pending EXCEPT ![g] = {PeerRemoved(peers[id])}]
  /\ UNCHANGED <<now, self, subVars, sent, known>>

\* One tick of heartbeatLoop.
TouchSelfHeartbeat(g) ==
  /\ Idle(g)
  /\ self' = [self EXCEPT !.LastHeartbeat = now]
  /\ pending' = [pending EXCEPT ![g] = {Heartbeat(self')}]
  /\ UNCHANGED <<now, peers, known, silent, subVars, sent>>

\* One tick of pruneLoop.
Prune(g) ==
  /\ Idle(g)
  /\ LET dead == Stale(peers, now, DeadAfter) IN
       /\ dead # {}
       /\ peers' = PruneStale(peers, now, DeadAfter)
       /\ silent' = silent \ dead
       /\ pending' = [pending EXCEPT ![g] = {PeerRemoved(peers[id]) : id \in dead}]
  /\ UNCHANGED <<now, self, subVars, sent, known>>

-----------------------------------------------------------------------------
(***************************************************************************)
(* Publishing: the critical sections of subMu.                             *)
(***************************************************************************)

\* Seeded fault: the last slot of a buffer is never used.
OfferShort(c, e) ==
  IF Len(c.buf) + 1 < Capacity THEN [c EXCEPT !.buf = Append(@, e)] ELSE c

\* A send that would block is skipped: the subscriber loses the event.
Offer(c, e) == IF Len(c.buf) < Capacity THEN [c EXCEPT !.buf = Append(@, e)] ELSE c

Broadcast(g) ==
  \E e \in pending[g] :
    /\ pending' = [pending EXCEPT ![g] = @ \ {e}]
    /\ chan' = [i \in SubIDs |-> IF i \in subscribers THEN Offer(chan[i], e)
                                 ELSE chan[i]]
    /\ handler' = [i \in SubIDs |->
         [handler[i] EXCEPT !.lost = @ \/ Len(chan[i].buf) >= Capacity]]
    /\ sent' = Append(sent, e)
    /\ UNCHANGED <<now, regVars, nextSubID, subscribers>>

\* The identifier is taken and the channel entered in the map in one section.
Subscribe ==
  /\ nextSubID < MaxSubs
  /\ nextSubID' = nextSubID + 1
  /\ subscribers' = subscribers \cup {nextSubID}
  /\ chan' = Put(chan, nextSubID, [buf |-> << >>, closed |-> FALSE])
  /\ handler' = Put(handler, nextSubID,
       [pc |-> "subscribed", pos |-> Len(sent), lost |-> FALSE,
        snap |-> {}, got |-> {}, view |-> {}])
  /\ UNCHANGED <<now, regVars, pending, sent>>

\* eventsHandler writes the whole roster before it reads the channel.
Replay(i) ==
  /\ handler[i].pc = "subscribed"
  /\ LET ids == {p.NodeID : p \in Roster(self, peers)} IN
       handler' = [handler EXCEPT ![i].pc = "forward", ![i].snap = ids,
                                  ![i].view = ids]
  /\ UNCHANGED <<now, regVars, pending, nextSubID, subscribers, chan, sent>>

\* eventsHandler forwards one event; the reader of the stream keeps a roster.
Forward(i) ==
  /\ handler[i].pc = "forward" /\ chan[i].buf # << >>
  /\ LET e == Head(chan[i].buf) IN
       /\ chan' = [chan EXCEPT ![i].buf = Tail(@)]
       /\ handler' = [handler EXCEPT
            ![i].pos = @ + 1,
            ![i].got = @ \cup {<<e.Type, e.Peer.NodeID>>},
            ![i].view = IF e.Type = "peer_removed" THEN @ \ {e.Peer.NodeID}
                        ELSE @ \cup {e.Peer.NodeID}]
  /\ UNCHANGED <<now, regVars, pending, nextSubID, subscribers, sent>>

\* Seeded fault: the channel is closed but stays in the map.
CancelKeepsEntry(i) ==
  /\ handler[i].pc # "done"
  /\ handler' = [handler EXCEPT ![i].pc = "done"]
  /\ chan' = [chan EXCEPT ![i].closed = TRUE]
  /\ UNCHANGED <<now, regVars, pending, nextSubID, subscribers, sent>>

\* The handler returns (client gone or write error) and its deferred cancel
\* runs: the channel leaves the map and is closed in one section.
Cancel(i) ==
  /\ handler[i].pc # "done"
  /\ handler' = [handler EXCEPT ![i].pc = "done"]
  /\ IF i \in subscribers
     THEN /\ subscribers' = subscribers \ {i}
          /\ chan' = [chan EXCEPT ![i].closed = TRUE]
     ELSE UNCHANGED <<subscribers, chan>>
  /\ UNCHANGED <<now, regVars, pending, nextSubID, sent>>

Tick == /\ now < MaxNow
        /\ now' = now + 1
        /\ UNCHANGED <<regVars, pending, subVars, sent>>

Next ==
  \/ \E g \in Procs :
       \/ \E p \in Updates : /\ p.LastHeartbeat <= now
                             /\ \/ Join(g, p)
                                \/ RemoteAdded(g, p)
                                \/ RemoteHeartbeat(g, p)
       \/ \E id \in NodeIDs : RemoteRemoved(g, id)
       \/ TouchSelfHeartbeat(g)
       \/ Prune(g)
       \/ Broadcast(g)
  \/ Subscribe
  \/ \E i \in SubIDs : Replay(i) \/ Forward(i) \/ Cancel(i)
  \/ Tick

Spec == Init /\ [][Next]_vars

-----------------------------------------------------------------------------
(***************************************************************************)
(* Properties.                                                             *)
(***************************************************************************)

\* Upsert "preserve[s] the original JoinedAt": as long as an entry stays in
\* the registry no join, gossip or heartbeat changes when it joined.
JoinedAtPreserved ==
  [][\A id \in DOMAIN peers \cap DOMAIN peers' :
       peers'[id].JoinedAt = peers[id].JoinedAt]_vars

\* Subscribe, Broadcast and cancel keep the channel map such that a send on a
\* closed channel or a second close, both of which panic in Go, cannot
\* happen: exactly the channels that left the map are closed.
ClosedIffUnsubscribed ==
  \A i \in SubIDs : chan[i].closed <=> i \notin subscribers

\* Broadcast and the handler's loop lose and reorder nothing: a subscriber
\* whose buffer was never full holds exactly the events broadcast since it
\* subscribed that it has not forwarded, in the order of the broadcasts.
DeliveredInOrder ==
  \A i \in subscribers :
    ~handler[i].lost =>
      /\ Len(sent) = handler[i].pos + Len(chan[i].buf)
      /\ \A k \in 1 .. Len(chan[i].buf) :
           chan[i].buf[k] = sent[handler[i].pos + k]

\* An event of type t about id has reached, or is on its way to, reader i.
Announced(t, id, i) ==
  \/ <<t, id>> \in handler[i].got
  \/ \E k \in 1 .. Len(chan[i].buf) :
       chan[i].buf[k].Type = t /\ chan[i].buf[k].Peer.NodeID = id
  \/ \E g \in Procs : \E e \in pending[g] : e.Type = t /\ e.Peer.NodeID = id

\* eventsHandler subscribes before it takes the roster, so no arrival or
\* departure falls between the two: a reader that lost nothing has seen every
\* member in the replay or is told of it by peer_added (members a heartbeat
\* re-inserted apart), and is told of every replayed member that has left.
NoChangeMissed ==
  \A i \in subscribers :
    handler[i].pc = "forward" /\ ~handler[i].lost =>
      /\ \A id \in DOMAIN peers \ (handler[i].snap \cup silent) :
           Announced("peer_added", id, i)
      /\ \A id \in handler[i].snap \ (DOMAIN peers \cup {SelfID}) :
           Announced("peer_removed", id, i)

\* README.md promises the console "a live view of the fleet roster, driven by
\* the /fleet/events SSE stream": when nothing is left to publish or forward,
\* a reader that lost nothing shows the registry's members.
LiveView ==
  \A i \in subscribers :
    (/\ handler[i].pc = "forward" /\ ~handler[i].lost
     /\ chan[i].buf = << >>
     /\ \A g \in Procs : pending[g] = {})
    => handler[i].view = DOMAIN peers \cup {SelfID}
=============================================================================
