------------------------------- MODULE Fleet -------------------------------
(***************************************************************************)
(* The mesh that fleet.Manager instances form (internal/fleet/manager.go,  *)
(* handlers.go, client.go): bootstrap and announce over POST /fleet/join,  *)
(* gossip and heartbeats over the SSE streams of GET /fleet/events,        *)
(* eviction of silent peers, crashes, restarts and broken connections.     *)
(*                                                                         *)
(* A member of NodeIDs is one process: NewNodeID draws a fresh identifier  *)
(* at every start, so a restarted daemon is another member with the same   *)
(* Host.  A handler is one step here; what happens between its critical    *)
(* sections inside one node is the subject of module Registry.             *)
(***************************************************************************)
EXTENDS RegistryOps, Sequences, FiniteSets

CONSTANTS
  Host,          \* Host[n]: advertise URL of process n
  BootstrapURL,  \* BootstrapURL[n]: its --join-url, 0 for a solo start
  DeadAfter,     \* eviction threshold in heartbeat intervals
  StreamCap,     \* events an SSE stream buffers before Broadcast drops
  LocalCap,      \* capacity of Manager.localEvents
  Timely,        \* TRUE: the clock waits for everything that is due
  FaultKinds,    \* faults the environment may inject
  MaxFaults,     \* how many of them
  MaxNow,        \* bound on the clock
  MaxBeat        \* bound: the last interval in which heartbeats are sent

ASSUME FleetAssumption ==
  /\ Host \in [NodeIDs -> URLs]
  /\ BootstrapURL \in [NodeIDs -> URLs \cup {0}]
  /\ \A n \in NodeIDs : BootstrapURL[n] # Host[n]
  /\ DeadAfter \in Nat /\ StreamCap \in Nat /\ LocalCap \in Nat
  /\ Timely \in BOOLEAN
  /\ FaultKinds \subseteq {"crash", "break", "join"}
  /\ MaxFaults \in Nat /\ MaxNow \in Nat \ {0} /\ MaxBeat \in Nat
  /\ 1 \in Versions /\ 1 \in ToolLists

VARIABLES
  now,       \* wall clock, in heartbeat intervals
  faults,    \* faults injected so far
  phase,     \* "off", "boot" (Run is in bootstrap), "run" (loops started), "dead"
  self,      \* Registry.self of each process
  peers,     \* Registry.peers of each process
  beaten,    \* when heartbeatLoop last fired
  boot,      \* progress of bootstrap / retryBootstrap
  evicting,  \* peers PruneStale returned that pruneLoop has not handled yet
  local,     \* Manager.localEvents
  streams,   \* Manager.streams with the goroutine behind each entry
  heard      \* history: latest heartbeat of each peer received on its stream

vars == <<now, faults, phase, self, peers, beaten, boot, evicting, local,
          streams, heard>>

\* The HTTP listener serves from the start of Serve, before Run is through
\* with its bootstrap.
Up(n) == phase[n] \in {"boot", "run"}

At(url) == {s \in NodeIDs : Up(s) /\ Host[s] = url}

-----------------------------------------------------------------------------
(***************************************************************************)
(* Streams.  An entry of Manager.streams is a goroutine under a context:   *)
(* anc holds the peers whose stream contexts are its ancestors.  "dead" is *)
(* an entry whose context was cancelled through an ancestor: runStream has *)
(* returned but nothing deleted the entry.                                 *)
(***************************************************************************)

Stream == [st     : {"dial", "open", "dead"},
           anc    : SUBSET NodeIDs,
           to     : NodeIDs \cup {0},
           replay : SUBSET Peer,
           q      : Seq(Event)]

Unconnected(st, anc) == [st |-> st, anc |-> anc, to |-> 0, replay |-> {}, q |-> << >>]

Dialing(anc) == Unconnected("dial", anc)

Dead == Unconnected("dead", {})

ensureStream(ss, n, id, anc) ==
  IF id \in DOMAIN ss[n] THEN ss
  ELSE [ss EXCEPT ![n] = Put(@, id, Dialing(anc))]

cancelStream(ss, n, id) ==
  [ss EXCEPT ![n] = [m \in DOMAIN @ \ {id} |->
                       IF id \in @[m].anc THEN Dead ELSE @[m]]]

\* Broadcast(e) at node n: to its SSE subscribers and to its own event loop.
\* A full buffer drops the event.  Both kinds of reader return at once on an
\* event about their own node, so such events are not queued for them.
Offer(q, e, cap) == IF Len(q) < cap THEN Append(q, e) ELSE q

\* Seeded fault: events about the reading node are not filtered out.
AboutNobody(n, p) == FALSE

About(n, p) == p.NodeID = n

ToStreams(ss, n, e) ==
  [k \in NodeIDs |-> [m \in DOMAIN ss[k] |->
     IF ss[k][m].to = n /\ ~About(k, e.Peer)
     THEN [ss[k][m] EXCEPT !.q = Offer(@, e, StreamCap)]
     ELSE ss[k][m]]]

ToLocal(n, e) == [local EXCEPT ![n] = Offer(@, e, LocalCap)]

Empty == [id \in {} |-> 0]

-----------------------------------------------------------------------------

NoPeer == [NodeID |-> 0, AdvertiseURL |-> 0, Version |-> 0, Tools |-> 0,
           JoinedAt |-> 0, LastHeartbeat |-> 0]

Boot == [pc     : {"idle", "retry", "join", "apply", "announce"},
         self   : Peer,
         todo   : SUBSET Peer,
         roster : SUBSET Peer]

NoBoot == [pc |-> "idle", self |-> NoPeer, todo |-> {}, roster |-> {}]

TypeOK ==
  /\ now \in 1 .. MaxNow
  /\ faults \in 0 .. MaxFaults
  /\ phase \in [NodeIDs -> {"off", "boot", "run", "dead"}]
  /\ self \in [NodeIDs -> Peer]
  /\ beaten \in [NodeIDs -> Nat]
  /\ DOMAIN peers = NodeIDs /\ DOMAIN streams = NodeIDs
  /\ \A n \in NodeIDs :
       /\ PeerMap(n, peers[n])
       /\ DOMAIN streams[n] \subseteq NodeIDs \ {n}
       /\ \A id \in DOMAIN streams[n] : streams[n][id] \in Stream
  /\ boot \in [NodeIDs -> Boot]
  /\ evicting \in [NodeIDs -> SUBSET Peer]
  /\ local \in [NodeIDs -> Seq(Event)]
  /\ heard \in [NodeIDs -> [NodeIDs -> Nat]]

\* buildFleet: the record a process advertises, at its start.
SelfPeer(n, t) ==
  [NodeID |-> n, AdvertiseURL |-> Host[n], Version |-> 1, Tools |-> 1,
   JoinedAt |-> t, LastHeartbeat |-> t]

Init ==
  /\ now = 1 /\ faults = 0
  /\ phase = [n \in NodeIDs |-> "off"]
  /\ self = [n \in NodeIDs |-> SelfPeer(n, 0)]
  /\ peers = [n \in NodeIDs |-> Empty]
  /\ beaten = [n \in NodeIDs |-> 0]
  /\ boot = [n \in NodeIDs |-> NoBoot]
  /\ evicting = [n \in NodeIDs |-> {}]
  /\ local = [n \in NodeIDs |-> << >>]
  /\ streams = [n \in NodeIDs |-> Empty]
  /\ heard = [n \in NodeIDs |-> [m \in NodeIDs |-> 0]]

Fault(kind) == /\ kind \in FaultKinds /\ faults < MaxFaults
               /\ faults' = faults + 1

-----------------------------------------------------------------------------
(***************************************************************************)
(* Start, bootstrap and announce.                                          *)
(***************************************************************************)

\* A daemon starts on a free address.  Run enters bootstrap when a join URL
\* is configured and starts its loops otherwise.
Start(n) ==
  /\ phase[n] = "off" /\ At(Host[n]) = {}
  /\ self' = [self EXCEPT ![n] = SelfPeer(n, now)]
  /\ IF BootstrapURL[n] = 0
     THEN /\ phase' = [phase EXCEPT ![n] = "run"]
          /\ UNCHANGED boot
     ELSE /\ phase' = [phase EXCEPT ![n] = "boot"]
          /\ boot' = [boot EXCEPT ![n].pc = "join", ![n].self = self'[n]]
  /\ UNCHANGED <<now, faults, peers, beaten, evicting, local, streams, heard>>

\* Seeded fault: the join is not broadcast.
ServeJoinSilently(s, p) ==
  /\ peers' = [peers EXCEPT ![s] = Upsert(s, @, p, now)]
  /\ UNCHANGED <<local, streams>>

\* joinHandler at server s for the record p.
ServeJoin(s, p) ==
  /\ peers' = [peers EXCEPT ![s] = Upsert(s, @, p, now)]
  /\ IF Changed(s, peers[s], p)
     THEN LET e == PeerAdded(Stored(s, peers[s], p, now)) IN
            /\ local' = ToLocal(s, e)
            /\ streams' = ToStreams(streams, s, e)
     ELSE UNCHANGED <<local, streams>>

\* Seeded fault: the failed bootstrap is not retried.
FailBootForGood(n) ==
  /\ boot' = [boot EXCEPT ![n] = NoBoot]
  /\ phase' = [phase EXCEPT ![n] = "run"]

\* bootstrap returned err: the first time Run goes on without it.
FailBoot(n) ==
  /\ boot' = [boot EXCEPT ![n] = [NoBoot EXCEPT !.pc = "retry"]]
  /\ phase' = [phase EXCEPT ![n] = "run"]

\* bootstrap, once the peers in todo are dealt with: apply the roster, then
\* announce to everyone in it but the bootstrap node and ourselves, then done.
Announcees(n) == {p \in boot[n].roster : p.AdvertiseURL # BootstrapURL[n]}

Proceed(n, pc, todo) ==
  \/ /\ todo # {}
     /\ boot' = [boot EXCEPT ![n].pc = pc, ![n].todo = todo]
     /\ UNCHANGED phase
  \/ /\ todo = {} /\ pc = "apply" /\ Announcees(n) # {}
     /\ boot' = [boot EXCEPT ![n].pc = "announce", ![n].todo = Announcees(n)]
     /\ UNCHANGED phase
  \/ /\ todo = {} /\ ~(pc = "apply" /\ Announcees(n) # {})
     /\ boot' = [boot EXCEPT ![n] = NoBoot]
     /\ phase' = [phase EXCEPT ![n] = "run"]

\* The bootstrap node handles the join and its roster comes back.
JoinServed(n) ==
  /\ Up(n) /\ boot[n].pc = "join"
  /\ \E s \in At(BootstrapURL[n]) :
       /\ ServeJoin(s, boot[n].self)
       /\ LET others == {p \in Roster(self[s], peers'[s]) : p.NodeID # n} IN
            boot' = [boot EXCEPT ![n].pc = "apply", ![n].todo = others,
                                 ![n].roster = others]
  /\ UNCHANGED <<now, faults, phase, self, beaten, evicting, heard>>

\* The join was handled but its response did not arrive in time.
JoinLost(n) ==
  /\ Up(n) /\ boot[n].pc = "join" /\ Fault("join")
  /\ \E s \in At(BootstrapURL[n]) : ServeJoin(s, boot[n].self)
  /\ FailBoot(n)
  /\ UNCHANGED <<now, self, beaten, evicting, heard>>

\* Nobody listens on the bootstrap URL.
JoinRefused(n) ==
  /\ Up(n) /\ boot[n].pc = "join" /\ At(BootstrapURL[n]) = {}
  /\ FailBoot(n)
  /\ UNCHANGED <<now, faults, self, peers, beaten, evicting, local, streams, heard>>

\* retryBootstrap's delay is over: bootstrap starts again with a fresh Self.
RetryBootstrap(n) ==
  /\ Up(n) /\ boot[n].pc = "retry"
  /\ boot' = [boot EXCEPT ![n].pc = "join", ![n].self = self[n]]
  /\ UNCHANGED <<now, faults, phase, self, peers, beaten, evicting, local, streams, heard>>

\* One round of bootstrap's first loop.
ApplyRoster(n) ==
  /\ Up(n) /\ boot[n].pc = "apply"
  /\ \E p \in boot[n].todo :
       LET stored == Stored(n, peers[n], p, now) IN
       /\ First(boot[n].todo, p)
       /\ peers' = [peers EXCEPT ![n] = Upsert(n, @, p, now)]
       /\ IF Changed(n, peers[n], p)
          THEN /\ local' = ToLocal(n, PeerAdded(stored))
               /\ streams' = ensureStream(ToStreams(streams, n, PeerAdded(stored)),
                                          n, stored.NodeID, {})
          ELSE /\ UNCHANGED local
               /\ streams' = ensureStream(streams, n, stored.NodeID, {})
       /\ Proceed(n, "apply", boot[n].todo \ {p})
  /\ UNCHANGED <<now, faults, self, beaten, evicting, heard>>

\* One round of bootstrap's second loop; a failed announcement is logged and
\* skipped.
Announce(n) ==
  /\ Up(n) /\ boot[n].pc = "announce"
  /\ \E p \in boot[n].todo :
       /\ First(boot[n].todo, p)
       /\ Proceed(n, "announce", boot[n].todo \ {p})
       /\ \/ /\ \E s \in At(p.AdvertiseURL) : ServeJoin(s, boot[n].self)
             /\ UNCHANGED faults
          \/ /\ IF At(p.AdvertiseURL) = {} THEN UNCHANGED faults ELSE Fault("join")
             /\ UNCHANGED <<peers, local, streams>>
  /\ UNCHANGED <<now, self, beaten, evicting, heard>>

-----------------------------------------------------------------------------
(***************************************************************************)
(* SSE streams.                                                            *)
(***************************************************************************)

\* StreamEvents connects; eventsHandler subscribes us and replays its roster.
Connect(n, m) ==
  /\ Up(n) /\ m \in DOMAIN streams[n] /\ streams[n][m].st = "dial"
  /\ \E s \in At(Host[m]) :
       streams' = [streams EXCEPT
         ![n][m].st = "open", ![n][m].to = s,
         ![n][m].replay = {p \in Roster(self[s], peers[s]) : ~About(n, p)}]
  /\ UNCHANGED <<now, faults, phase, self, peers, beaten, boot, evicting, local, heard>>

\* Seeded fault: runStream gives up when the connection breaks.
BreakForGood(n, m) ==
  /\ m \in DOMAIN streams[n] /\ streams[n][m].st = "open"
  /\ Fault("break")
  /\ streams' = [streams EXCEPT ![n][m] = Dead]
  /\ UNCHANGED <<now, phase, self, peers, beaten, boot, evicting, local, heard>>

\* The connection breaks; runStream will dial again.
Break(n, m) ==
  /\ m \in DOMAIN streams[n] /\ streams[n][m].st = "open"
  /\ Fault("break")
  /\ streams' = [streams EXCEPT ![n][m] = Dialing(@.anc)]
  /\ UNCHANGED <<now, phase, self, peers, beaten, boot, evicting, local, heard>>

\* handleRemoteEvent at node n for event e, read from the stream of peer m;
\* ss is the stream map once e is consumed.
handleRemoteEvent(n, m, e, ss) ==
  LET id     == e.Peer.NodeID
      stored == Stored(n, peers[n], e.Peer, now)
      anc    == ss[n][m].anc \cup {m}
  IN
  \/ /\ e.Type \in {"heartbeat", "peer_added"}
     /\ peers' = [peers EXCEPT ![n] = Upsert(n, @, e.Peer, now)]
     /\ IF Changed(n, peers[n], e.Peer) /\ e.Type = "peer_added"
        THEN /\ local' = ToLocal(n, PeerAdded(stored))
             /\ streams' = ensureStream(ToStreams(ss, n, PeerAdded(stored)), n, id, anc)
        ELSE /\ UNCHANGED local
             /\ streams' = ensureStream(ss, n, id, anc)
     /\ heard' = IF e.Type = "heartbeat"
                 THEN [heard EXCEPT ![n][id] = e.Peer.LastHeartbeat] ELSE heard
  \/ /\ e.Type = "peer_removed"
     /\ IF id \in DOMAIN peers[n]
        THEN /\ peers' = [peers EXCEPT ![n] = Remove(@, id)]
             /\ local' = ToLocal(n, PeerRemoved(peers[n][id]))
             /\ streams' = ToStreams(cancelStream(ss, n, id), n,
                                     PeerRemoved(peers[n][id]))
        ELSE /\ streams' = ss
             /\ UNCHANGED <<peers, local>>
     /\ UNCHANGED heard

\* The next event of an open stream: first the replayed roster in order, then
\* what was broadcast since.
Deliver(n, m) ==
  /\ Up(n) /\ m \in DOMAIN streams[n] /\ streams[n][m].st = "open"
  /\ \/ \E p \in streams[n][m].replay :
          /\ First(streams[n][m].replay, p)
          /\ handleRemoteEvent(n, m, PeerAdded(p),
                               [streams EXCEPT ![n][m].replay = @ \ {p}])
     \/ /\ streams[n][m].replay = {} /\ streams[n][m].q # << >>
        /\ handleRemoteEvent(n, m, Head(streams[n][m].q),
                             [streams EXCEPT ![n][m].q = Tail(@)])
  /\ UNCHANGED <<now, faults, phase, self, beaten, boot, evicting>>

-----------------------------------------------------------------------------
(***************************************************************************)
(* The three loops of Run.                                                 *)
(***************************************************************************)

localEventLoop(n) ==
  /\ phase[n] = "run" /\ local[n] # << >>
  /\ local' = [local EXCEPT ![n] = Tail(@)]
  /\ LET e == Head(local[n]) IN
       streams' = IF e.Type = "peer_removed"
                  THEN cancelStream(streams, n, e.Peer.NodeID)
                  ELSE ensureStream(streams, n, e.Peer.NodeID, {})
  /\ UNCHANGED <<now, faults, phase, self, peers, beaten, boot, evicting, heard>>

\* One beat: at once when the loop starts, then once per interval.
heartbeatLoop(n) ==
  /\ phase[n] = "run" /\ beaten[n] < now /\ now <= MaxBeat
  /\ beaten' = [beaten EXCEPT ![n] = now]
  /\ self' = [self EXCEPT ![n].LastHeartbeat = now]
  /\ streams' = ToStreams(streams, n, Heartbeat(self'[n]))
  /\ UNCHANGED <<now, faults, phase, peers, boot, evicting, local, heard>>

\* pruneLoop: PruneStale takes the silent peers out at once ...
PruneTick(n) ==
  /\ phase[n] = "run" /\ evicting[n] = {}
  /\ LET dead == Stale(peers[n], now, DeadAfter) IN
       /\ dead # {}
       /\ evicting' = [evicting EXCEPT ![n] = {peers[n][id] : id \in dead}]
       /\ peers' = [peers EXCEPT ![n] = PruneStale(@, now, DeadAfter)]
  /\ UNCHANGED <<now, faults, phase, self, beaten, boot, local, streams, heard>>

\* ... and the loop then stops each one's stream and broadcasts its removal.
Evict(n) ==
  /\ phase[n] = "run"
  /\ \E d \in evicting[n] :
       /\ evicting' = [evicting EXCEPT ![n] = @ \ {d}]
       /\ streams' = ToStreams(cancelStream(streams, n, d.NodeID), n, PeerRemoved(d))
       /\ local' = ToLocal(n, PeerRemoved(d))
  /\ UNCHANGED <<now, faults, phase, self, peers, beaten, boot, heard>>

-----------------------------------------------------------------------------

\* The process dies: its state is gone, connections to it break.
Crash(n) ==
  /\ Up(n) /\ Fault("crash")
  /\ phase' = [phase EXCEPT ![n] = "dead"]
  /\ peers' = [peers EXCEPT ![n] = Empty]
  /\ boot' = [boot EXCEPT ![n] = NoBoot]
  /\ evicting' = [evicting EXCEPT ![n] = {}]
  /\ local' = [local EXCEPT ![n] = << >>]
  /\ streams' = [k \in NodeIDs |->
       IF k = n THEN Empty
       ELSE [m \in DOMAIN streams[k] |->
               IF streams[k][m].to = n THEN Dialing(streams[k][m].anc)
               ELSE streams[k][m]]]
  /\ UNCHANGED <<now, self, beaten, heard>>

\* Nothing is due: every message is read, every loop has done its round.
Settled ==
  /\ \A n \in NodeIDs :
       /\ phase[n] # "boot"
       /\ phase[n] = "run" =>
            /\ beaten[n] = now \/ now > MaxBeat
            /\ local[n] = << >> /\ evicting[n] = {}
            /\ Stale(peers[n], now, DeadAfter) = {}
            /\ \/ boot[n].pc = "idle"
               \/ boot[n].pc = "retry" /\ At(BootstrapURL[n]) = {}
            /\ \A m \in DOMAIN streams[n] :
                 /\ streams[n][m].st = "dial" => At(Host[m]) = {}
                 /\ streams[n][m].st = "open" =>
                      streams[n][m].replay = {} /\ streams[n][m].q = << >>

Tick ==
  /\ now < MaxNow
  /\ Timely => Settled
  /\ now' = now + 1
  /\ UNCHANGED <<faults, phase, self, peers, beaten, boot, evicting, local, streams, heard>>

\* The goroutines of one node.
bootstrap(n) == \/ JoinServed(n) \/ JoinRefused(n) \/ RetryBootstrap(n)
                \/ ApplyRoster(n) \/ Announce(n)

pruneLoop(n) == PruneTick(n) \/ Evict(n)

runStream(n, m) == Connect(n, m) \/ Deliver(n, m)

Next ==
  \/ \E n \in NodeIDs :
       \/ Start(n)
       \/ bootstrap(n)
       \/ localEventLoop(n)
       \/ heartbeatLoop(n)
       \/ pruneLoop(n)
       \/ \E m \in NodeIDs : runStream(n, m) \/ Break(n, m)
       \/ JoinLost(n)
       \/ Crash(n)
  \/ Tick

Spec == Init /\ [][Next]_vars

\* Every goroutine that can go on is scheduled, every daemon is started and
\* time passes.  Nothing is assumed of the faults.
Fairness ==
  /\ \A n \in NodeIDs :
       /\ WF_vars(Start(n))
       /\ WF_vars(bootstrap(n))
       /\ WF_vars(localEventLoop(n))
       /\ WF_vars(heartbeatLoop(n))
       /\ WF_vars(pruneLoop(n))
       /\ \A m \in NodeIDs : WF_vars(runStream(n, m))
  /\ WF_vars(Tick)

FairSpec == Spec /\ Fairness

-----------------------------------------------------------------------------
(***************************************************************************)
(* Properties.                                                             *)
(***************************************************************************)

\* p says of its subject what the subject itself published: its address, when
\* it started, and a heartbeat it has really emitted.
Authentic(p) ==
  /\ p.NodeID \in NodeIDs /\ phase[p.NodeID] # "off"
  /\ p.AdvertiseURL = Host[p.NodeID]
  /\ p.JoinedAt = self[p.NodeID].JoinedAt
  /\ p.JoinedAt <= p.LastHeartbeat
  /\ p.LastHeartbeat <= self[p.NodeID].LastHeartbeat

\* However a record travelled (join, announce, roster, replay, gossip,
\* heartbeat, eviction), every copy of it in a registry, a buffer or a
\* goroutine is authentic: no node is invented and no heartbeat is newer than
\* the last one its owner sent, so a dead peer cannot look alive for longer
\* than DeadAfter.
Provenance ==
  \A n \in NodeIDs :
    /\ \A id \in DOMAIN peers[n] : Authentic(peers[n][id])
    /\ \A p \in evicting[n] \cup boot[n].todo \cup boot[n].roster : Authentic(p)
    /\ boot[n].pc \in {"join", "apply", "announce"} => Authentic(boot[n].self)
    /\ \A i \in 1 .. Len(local[n]) : Authentic(local[n][i].Peer)
    /\ \A id \in DOMAIN streams[n] :
         /\ \A p \in streams[n][id].replay : Authentic(p)
         /\ \A i \in 1 .. Len(streams[n][id].q) : Authentic(streams[n][id].q[i].Peer)

\* n knows m and follows it.
Linked(n, m) == /\ m \in DOMAIN peers[n] /\ m \in DOMAIN streams[n]
                /\ streams[n][m].st = "open"

\* "list_fleet on any of the three will then return all three members"
\* (README.md): whatever order the daemons start in, and after refused joins, lost
\* answers, broken streams and evictions, the running ones come to know and follow
\* each other for good.  That is so of two.  A restarted daemon is a third
\* process: the eviction of its first life may take its fresh stream with it
\* (StreamForEveryPeer) and leave the survivors apart.
MeshForms ==
  <>[](\A n, m \in NodeIDs : (n # m /\ Up(n) /\ Up(m)) => Linked(n, m))

\* The same as a safety property: whenever nothing is due, any two running
\* daemons that are through with their bootstrap know and follow each other.
MeshWhenSettled ==
  Settled =>
    \A n, m \in {k \in NodeIDs : Up(k) /\ boot[k].pc = "idle"} : n # m => Linked(n, m)

\* While heartbeats and their delivery are timely, pruneLoop never evicts a
\* node that is running, although a replay after a broken connection or a
\* retried join brings older heartbeats that Upsert lets overwrite newer ones.
NoFalseEviction ==
  \A n \in NodeIDs : \A p \in evicting[n] : ~Up(p.NodeID)

\* "peers with no heartbeat for 30 s are evicted" (README.md): a node that has
\* been dead for longer than DeadAfter is evicted everywhere, and no late
\* gossip brings it back.
DeadForgotten ==
  \A m \in NodeIDs :
    (phase[m] = "dead" /\ now - self[m].LastHeartbeat > DeadAfter)
      ~> [](\A n \in NodeIDs : m \notin DOMAIN peers[n])

\* "ensuring an outbound SSE stream exists for every peer we believe is alive"
\* (localEventLoop): once nothing is due, a running node follows every peer in
\* its registry that is still there to be followed.
StreamForEveryPeer ==
  Settled =>
    \A n, m \in NodeIDs :
      (phase[n] = "run" /\ m \in DOMAIN peers[n] /\ Up(m)) => Linked(n, m)

\* "peers with no heartbeat for 30 s are evicted" (README.md): pruneLoop takes
\* out nobody from whom this node received a heartbeat within DeadAfter.
OnlySilentEvicted ==
  [][\A n \in NodeIDs : \A p \in evicting'[n] \ evicting[n] :
       now - heard[n][p.NodeID] > DeadAfter]_vars
=============================================================================
