---------------------------- MODULE FleetProofs ----------------------------
(***************************************************************************)
(* Theorems about Fleet, for any number of processes, any buffer sizes and *)
(* any faults: the state is well-formed and every copy of a peer record,   *)
(* wherever it is, goes back to what its owner published.                  *)
(*                                                                         *)
(* Provenance is not inductive by itself.  The invariant IInv adds what a  *)
(* process knows of itself (SelfOK) and that nothing a node holds is about *)
(* the node itself, which is why it never follows or evicts itself.  Its   *)
(* data part is stated for any set A of records: a step first lets A grow  *)
(* from Published to Published' and then stays within it.                  *)
(*                                                                         *)
(* Of two processes whose clock waits for what is due, more holds: neither *)
(* evicts the other while it runs, and they end up following each other.   *)
(* This rests on PairInv, which bounds the age of every copy of a record.  *)
(***************************************************************************)
EXTENDS Fleet, RegistryOpsProofs, SequenceTheorems

\* The records their owners have published so far.
Published == {p \in Peer : Authentic(p)}

\* What the operations need of a set A of records to stay within it: identified
\* nodes, a joining time, and Upsert's merge of two records of a node.
Closed(A) ==
  /\ A \subseteq Peer
  /\ \A p \in A : p.NodeID \in NodeIDs /\ p.JoinedAt # 0
  /\ \A a, b \in A : a.NodeID = b.NodeID => Merge(a, b) \in A

\* Data of node n taken from A and never about n itself.
Foreign(A, n, p) == p \in A /\ p.NodeID # n

ForeignQueue(A, n, q) == q \in Seq(Event) /\ \A i \in 1 .. Len(q) : Foreign(A, n, q[i].Peer)

ForeignPeers(A, n, m) == PeerMap(n, m) /\ \A id \in DOMAIN m : Foreign(A, n, m[id])

ForeignStream(A, n, s) == /\ s \in Stream
                          /\ \A p \in s.replay : Foreign(A, n, p)
                          /\ ForeignQueue(A, n, s.q)

ForeignStreams(A, ss) ==
  /\ DOMAIN ss = NodeIDs
  /\ \A n \in NodeIDs : DOMAIN ss[n] \subseteq NodeIDs \ {n}
  /\ \A n \in NodeIDs : \A id \in DOMAIN ss[n] : ForeignStream(A, n, ss[n][id])

ForeignBoot(A, n, b) ==
  /\ \A p \in b.todo \cup b.roster : Foreign(A, n, p)
  /\ b.pc \in {"join", "apply", "announce"} => b.self \in A

\* The parts of the inductive invariant.
EnvOK == /\ now \in 1 .. MaxNow /\ faults \in 0 .. MaxFaults
         /\ phase \in [NodeIDs -> {"off", "boot", "run", "dead"}]
         /\ self \in [NodeIDs -> Peer]
         /\ beaten \in [NodeIDs -> Nat]
         /\ heard \in [NodeIDs -> [NodeIDs -> Nat]]

SelfOK == \A n \in NodeIDs :
            /\ self[n].NodeID = n /\ self[n].AdvertiseURL = Host[n]
            /\ self[n].JoinedAt <= self[n].LastHeartbeat
            /\ self[n].LastHeartbeat <= now
            /\ phase[n] # "off" => self[n].JoinedAt # 0

PeersOK(A, ps) == DOMAIN ps = NodeIDs /\ \A n \in NodeIDs : ForeignPeers(A, n, ps[n])

BootOK(A, bs) == /\ bs \in [NodeIDs -> Boot]
                 /\ \A n \in NodeIDs : ForeignBoot(A, n, bs[n])

EvictingOK(A, es) == /\ es \in [NodeIDs -> SUBSET Peer]
                     /\ \A n \in NodeIDs : \A p \in es[n] : Foreign(A, n, p)

LocalOK(A, ls) == /\ ls \in [NodeIDs -> Seq(Event)]
                  /\ \A n \in NodeIDs : ForeignQueue(A, n, ls[n])

IInv == /\ EnvOK /\ SelfOK
        /\ PeersOK(Published, peers)
        /\ BootOK(Published, boot)
        /\ EvictingOK(Published, evicting)
        /\ LocalOK(Published, local)
        /\ ForeignStreams(Published, streams)

-----------------------------------------------------------------------------
(***************************************************************************)
(* The operations stay within a closed set of records.                     *)
(***************************************************************************)

\* Whatever record of a node Upsert merges into another, the result is again
\* one its owner published: both agree on the address and the joining time,
\* and the heartbeat comes from one of the two.
LEMMA PublishedClosed == EnvOK /\ SelfOK => Closed(Published)
<1> SUFFICES ASSUME EnvOK, SelfOK PROVE Closed(Published)
  OBVIOUS
<1>1. ASSUME NEW a \in Published, NEW b \in Published, a.NodeID = b.NodeID
      PROVE  Merge(a, b) \in Published
  <2>1. /\ Merge(a, b).NodeID = a.NodeID /\ Merge(a, b).JoinedAt = a.JoinedAt
        /\ Merge(a, b).AdvertiseURL \in {a.AdvertiseURL, b.AdvertiseURL}
        /\ Merge(a, b).LastHeartbeat \in {a.LastHeartbeat, b.LastHeartbeat}
    BY DEF Merge, Peer, Published
  <2>2. Merge(a, b) \in Peer
    BY MergeType DEF Published
  <2>3. Authentic(Merge(a, b))
    BY <1>1, <2>1 DEF Authentic, Published
  <2> QED
    BY <2>2, <2>3 DEF Published
<1>2. ASSUME NEW p \in Published PROVE p.NodeID \in NodeIDs /\ p.JoinedAt # 0
  BY DEF Published, Authentic, SelfOK
<1> QED
  BY <1>1, <1>2 DEF Closed, Published

\* A process that was started has published its own record.
LEMMA SelfPublished ==
  EnvOK /\ SelfOK => \A n \in NodeIDs : phase[n] # "off" => self[n] \in Published
<1> SUFFICES ASSUME EnvOK, SelfOK, NEW n \in NodeIDs, phase[n] # "off"
             PROVE  self[n] \in Published
  OBVIOUS
<1>1. self[n] \in Peer
  BY DEF EnvOK
<1> QED
  BY <1>1 DEF SelfOK, Published, Authentic, Peer

\* PublishedClosed in the next state.
LEMMA PublishedClosedNext == (EnvOK /\ SelfOK => Closed(Published))'
BY PublishedClosed, PTL

\* SelfPublished in the next state.
LEMMA SelfPublishedNext ==
  (EnvOK /\ SelfOK => \A n \in NodeIDs : phase[n] # "off" => self[n] \in Published)'
BY SelfPublished, PTL

\* Upsert stores a record of a closed set when its inputs belong to the set.
LEMMA StoredIn ==
  ASSUME NEW A, Closed(A), NEW n \in NodeIDs, NEW m, ForeignPeers(A, n, m), NEW t,
         NEW p \in A
  PROVE  Stored(n, m, p, t) \in A
<1>1. CASE Ignored(n, p)
  BY <1>1 DEF Stored
<1>2. CASE ~Ignored(n, p) /\ p.NodeID \in DOMAIN m
  <2>1. m[p.NodeID] \in A /\ m[p.NodeID].NodeID = p.NodeID
    BY <1>2 DEF ForeignPeers, Foreign, PeerMap
  <2> QED
    BY <1>2, <2>1 DEF Stored, Closed
<1>3. CASE ~Ignored(n, p) /\ p.NodeID \notin DOMAIN m
  <2>1. Stored(n, m, p, t) = p
    BY <1>3 DEF Stored, Peer, Closed
  <2> QED
    BY <2>1
<1> QED
  BY <1>1, <1>2, <1>3

\* What Upsert stores about another node is authentic ...
LEMMA StoredForeign ==
  ASSUME NEW A, Closed(A), NEW n \in NodeIDs, NEW m, ForeignPeers(A, n, m), NEW t \in Nat,
         NEW p \in A, p.NodeID # n
  PROVE  Foreign(A, n, Stored(n, m, p, t)) /\ Stored(n, m, p, t).NodeID = p.NodeID
BY StoredIn, StoredType DEF Foreign, ForeignPeers, Closed

\* ... and so is the map it leaves.
LEMMA UpsertForeign ==
  ASSUME NEW A, Closed(A), NEW n \in NodeIDs, NEW m, ForeignPeers(A, n, m), NEW t \in Nat,
         NEW p \in A
  PROVE  ForeignPeers(A, n, Upsert(n, m, p, t))
<1>0. PeerMap(n, m)
  BY DEF ForeignPeers
<1>1. PeerMap(n, Upsert(n, m, p, t))
  BY <1>0, UpsertType DEF Closed
<1>2. ASSUME NEW id \in DOMAIN Upsert(n, m, p, t)
      PROVE  Foreign(A, n, Upsert(n, m, p, t)[id])
  <2>1. Upsert(n, m, p, t)[id] = IF id = p.NodeID THEN Stored(n, m, p, t) ELSE m[id]
    BY <1>0, UpsertEntry
  <2>2. id # n
    BY <1>1 DEF PeerMap
  <2>3. CASE id = p.NodeID
    BY <2>1, <2>2, <2>3, StoredForeign
  <2>4. CASE id # p.NodeID
    BY <2>1, <2>4, UpsertDomain DEF ForeignPeers
  <2> QED
    BY <2>3, <2>4
<1> QED
  BY <1>1, <1>2 DEF ForeignPeers

\* Removing entries (Remove, PruneStale) keeps a peer map foreign.
LEMMA DropForeign ==
  ASSUME NEW A, NEW n \in NodeIDs, NEW m, ForeignPeers(A, n, m), NEW ids
  PROVE  ForeignPeers(A, n, Drop(m, ids))
<1>0. PeerMap(n, m)
  BY DEF ForeignPeers
<1>1. /\ PeerMap(n, Drop(m, ids)) /\ DOMAIN Drop(m, ids) = DOMAIN m \ ids
      /\ \A id \in DOMAIN m \ ids : Drop(m, ids)[id] = m[id]
  BY <1>0, DropType
<1> QED
  BY <1>1 DEF ForeignPeers

\* An event that changes a registry is about a foreign, identified node.
LEMMA ChangedForeign ==
  ASSUME NEW n, NEW m, NEW p, Changed(n, m, p)
  PROVE  p.NodeID # n
BY DEF Changed, Ignored

\* The events about a foreign record are events about a foreign record.
LEMMA EventForeign ==
  ASSUME NEW A, A \subseteq Peer, NEW n, NEW p, Foreign(A, n, p)
  PROVE  /\ PeerAdded(p) \in Event /\ PeerRemoved(p) \in Event /\ Heartbeat(p) \in Event
         /\ Foreign(A, n, PeerAdded(p).Peer) /\ Foreign(A, n, PeerRemoved(p).Peer)
BY DEF PeerAdded, PeerRemoved, Heartbeat, Event, EventType, Foreign

\* A buffered or dropped event, and a consumed one.
LEMMA OfferForeign ==
  ASSUME NEW A, NEW n, NEW q, ForeignQueue(A, n, q), NEW e \in Event, Foreign(A, n, e.Peer), NEW cap
  PROVE  ForeignQueue(A, n, Offer(q, e, cap))
<1>1. q \in Seq(Event) /\ Len(q) \in Nat
  BY DEF ForeignQueue
<1>2. /\ Append(q, e) \in Seq(Event) /\ Len(Append(q, e)) = Len(q) + 1
      /\ \A i \in 1 .. Len(q) : Append(q, e)[i] = q[i]
      /\ Append(q, e)[Len(q) + 1] = e
  BY <1>1
<1>3. ASSUME NEW i \in 1 .. Len(Append(q, e)) PROVE Foreign(A, n, Append(q, e)[i].Peer)
  <2>1. CASE i = Len(q) + 1
    BY <1>2, <2>1
  <2>2. CASE i # Len(q) + 1
    <3>1. i \in 1 .. Len(q)
      BY <1>1, <1>2, <2>2
    <3> QED
      BY <1>2, <3>1 DEF ForeignQueue
  <2> QED
    BY <2>1, <2>2
<1>4. ForeignQueue(A, n, Append(q, e))
  BY <1>2, <1>3 DEF ForeignQueue
<1> QED
  BY <1>4 DEF Offer

\* The event read from a foreign queue is foreign ...
LEMMA HeadForeign ==
  ASSUME NEW A, NEW n, NEW q, ForeignQueue(A, n, q), q # << >>
  PROVE  Head(q) \in Event /\ Foreign(A, n, Head(q).Peer)
<1>1. q \in Seq(Event) /\ 1 \in 1 .. Len(q) /\ Head(q) = q[1]
  BY EmptySeq DEF ForeignQueue
<1> QED
  BY <1>1 DEF ForeignQueue

\* ... and so is what remains of the queue.
LEMMA TailForeign ==
  ASSUME NEW A, NEW n, NEW q, ForeignQueue(A, n, q), q # << >>
  PROVE  ForeignQueue(A, n, Tail(q))
<1>1. /\ q \in Seq(Event) /\ Len(q) \in Nat
      /\ Tail(q) \in Seq(Event) /\ Len(Tail(q)) = Len(q) - 1
      /\ \A i \in 1 .. Len(Tail(q)) : Tail(q)[i] = q[i + 1]
  BY HeadTailProperties DEF ForeignQueue
<1>2. ASSUME NEW i \in 1 .. Len(Tail(q)) PROVE Foreign(A, n, Tail(q)[i].Peer)
  <2>1. i + 1 \in 1 .. Len(q)
    BY <1>1
  <2> QED
    BY <1>1, <2>1 DEF ForeignQueue
<1> QED
  BY <1>1, <1>2 DEF ForeignQueue

-----------------------------------------------------------------------------
(***************************************************************************)
(* What they do to the streams.                                            *)
(***************************************************************************)

\* A stream that is not connected carries nothing.
LEMMA DialingForeign ==
  ASSUME NEW A, NEW n, NEW anc \in SUBSET NodeIDs
  PROVE  ForeignStream(A, n, Dialing(anc)) /\ ForeignStream(A, n, Dead)
<1>0. << >> \in Seq(Event)
  OBVIOUS
<1>1. Dialing(anc) \in Stream /\ Dead \in Stream
  BY <1>0 DEF Dialing, Dead, Unconnected, Stream
<1>2. /\ Dialing(anc).replay = {} /\ Dialing(anc).q = << >>
      /\ Dead.replay = {} /\ Dead.q = << >>
  BY DEF Dialing, Dead, Unconnected
<1> QED
  BY <1>1, <1>2 DEF ForeignStream, ForeignQueue

\* ensureStream adds a stream that carries nothing.
LEMMA ensureStreamForeign ==
  ASSUME NEW A, NEW ss, ForeignStreams(A, ss), NEW n \in NodeIDs, NEW id \in NodeIDs \ {n},
         NEW anc \in SUBSET NodeIDs
  PROVE  ForeignStreams(A, ensureStream(ss, n, id, anc))
<1>1. CASE id \in DOMAIN ss[n]
  BY <1>1 DEF ensureStream
<1>2. CASE id \notin DOMAIN ss[n]
  <2> DEFINE new == ensureStream(ss, n, id, anc)
  <2>1. /\ DOMAIN new = NodeIDs
        /\ new[n] = Put(ss[n], id, Dialing(anc))
        /\ \A k \in NodeIDs \ {n} : new[k] = ss[k]
    BY <1>2 DEF ensureStream, ForeignStreams
  <2>2. /\ DOMAIN new[n] = DOMAIN ss[n] \cup {id}
        /\ new[n][id] = Dialing(anc)
        /\ \A m \in DOMAIN ss[n] : new[n][m] = ss[n][m]
    BY <1>2, <2>1 DEF Put
  <2> HIDE DEF new
  <2>3. ForeignStreams(A, new)
    BY <2>1, <2>2, DialingForeign DEF ForeignStreams
  <2> QED
    BY <2>3 DEF new
<1> QED
  BY <1>1, <1>2

\* cancelStream removes one stream and empties the ones below it.
LEMMA cancelStreamForeign ==
  ASSUME NEW A, NEW ss, ForeignStreams(A, ss), NEW n \in NodeIDs, NEW id
  PROVE  ForeignStreams(A, cancelStream(ss, n, id))
<1> DEFINE new == cancelStream(ss, n, id)
<1>1. /\ DOMAIN new = NodeIDs
      /\ \A k \in NodeIDs \ {n} : new[k] = ss[k]
      /\ DOMAIN new[n] = DOMAIN ss[n] \ {id}
      /\ \A m \in DOMAIN new[n] : new[n][m] = ss[n][m] \/ new[n][m] = Dead
  BY DEF cancelStream, ForeignStreams
<1> HIDE DEF new
<1>2. ForeignStream(A, n, Dead)
  BY DialingForeign
<1>3. ForeignStreams(A, new)
  BY <1>1, <1>2 DEF ForeignStreams
<1> QED
  BY <1>3 DEF new

\* Broadcast appends to streams whose owner the event is not about.
LEMMA ToStreamsForeign ==
  ASSUME NEW A, NEW ss, ForeignStreams(A, ss), NEW n \in NodeIDs, NEW e \in Event, e.Peer \in A
  PROVE  ForeignStreams(A, ToStreams(ss, n, e))
<1> DEFINE new == ToStreams(ss, n, e)
<1>1. /\ DOMAIN new = NodeIDs
      /\ \A k \in NodeIDs : DOMAIN new[k] = DOMAIN ss[k]
      /\ \A k \in NodeIDs : \A m \in DOMAIN ss[k] :
           new[k][m] = IF ss[k][m].to = n /\ ~About(k, e.Peer)
                       THEN [ss[k][m] EXCEPT !.q = Offer(@, e, StreamCap)]
                       ELSE ss[k][m]
  BY DEF ToStreams, ForeignStreams
<1>2. ASSUME NEW k \in NodeIDs, NEW m \in DOMAIN ss[k], ~About(k, e.Peer)
      PROVE  ForeignStream(A, k, [ss[k][m] EXCEPT !.q = Offer(@, e, StreamCap)])
  <2> DEFINE old == ss[k][m]
             upd == [old EXCEPT !.q = Offer(old.q, e, StreamCap)]
  <2>1. ForeignStream(A, k, old)
    BY DEF ForeignStreams
  <2>2. Foreign(A, k, e.Peer)
    BY <1>2 DEF About, Foreign
  <2>3. ForeignQueue(A, k, Offer(old.q, e, StreamCap))
    BY <2>1, <2>2, OfferForeign DEF ForeignStream
  <2>4. upd \in Stream /\ upd.replay = old.replay /\ upd.q = Offer(old.q, e, StreamCap)
    BY <2>1, <2>3 DEF ForeignStream, ForeignQueue, Stream
  <2> HIDE DEF upd
  <2>5. ForeignStream(A, k, upd)
    BY <2>1, <2>3, <2>4 DEF ForeignStream
  <2> QED
    BY <2>5 DEF upd
<1> HIDE DEF new
<1>3. ASSUME NEW k \in NodeIDs, NEW m \in DOMAIN ss[k] PROVE ForeignStream(A, k, new[k][m])
  <2>1. CASE ss[k][m].to = n /\ ~About(k, e.Peer)
    BY <1>1, <1>2, <2>1
  <2>2. CASE ~(ss[k][m].to = n /\ ~About(k, e.Peer))
    BY <1>1, <2>2 DEF ForeignStreams
  <2> QED
    BY <2>1, <2>2
<1>4. ForeignStreams(A, new)
  BY <1>1, <1>3 DEF ForeignStreams
<1> QED
  BY <1>4 DEF new

\* Replacing one entry.
LEMMA SetStreamForeign ==
  ASSUME NEW A, NEW ss, ForeignStreams(A, ss), NEW n \in NodeIDs, NEW m \in DOMAIN ss[n],
         NEW s, ForeignStream(A, n, s)
  PROVE  ForeignStreams(A, [ss EXCEPT ![n][m] = s])
<1> DEFINE new == [ss EXCEPT ![n][m] = s]
<1>1. /\ DOMAIN new = NodeIDs
      /\ \A k \in NodeIDs : DOMAIN new[k] = DOMAIN ss[k]
      /\ \A k \in NodeIDs : \A j \in DOMAIN ss[k] :
           new[k][j] = IF k = n /\ j = m THEN s ELSE ss[k][j]
  BY DEF ForeignStreams
<1> HIDE DEF new
<1>2. ForeignStreams(A, new)
  BY <1>1 DEF ForeignStreams
<1> QED
  BY <1>2 DEF new

-----------------------------------------------------------------------------
(***************************************************************************)
(* The invariant.                                                          *)
(***************************************************************************)

\* The fields of the record buildFleet makes.
LEMMA SelfPeerFields ==
  ASSUME NEW n, NEW t
  PROVE  /\ SelfPeer(n, t).NodeID = n /\ SelfPeer(n, t).AdvertiseURL = Host[n]
         /\ SelfPeer(n, t).JoinedAt = t /\ SelfPeer(n, t).LastHeartbeat = t
BY DEF SelfPeer

\* Init establishes it: nothing is stored or in flight.
LEMMA InitIInv == Init => IInv
<1> SUFFICES ASSUME Init PROVE IInv
  OBVIOUS
<1> USE FleetAssumption
<1>1. \A n \in NodeIDs : SelfPeer(n, 0) \in Peer
  BY DEF SelfPeer, Peer
<1>2. EnvOK
  BY <1>1 DEF Init, EnvOK
<1>3. SelfOK
  <2>1. ASSUME NEW n \in NodeIDs
        PROVE  /\ self[n] = SelfPeer(n, 0) /\ phase[n] = "off" /\ now = 1
    BY DEF Init
  <2>2. ASSUME NEW n \in NodeIDs
        PROVE  /\ self[n].NodeID = n /\ self[n].AdvertiseURL = Host[n]
               /\ self[n].JoinedAt <= self[n].LastHeartbeat
               /\ self[n].LastHeartbeat <= now
               /\ phase[n] # "off" => self[n].JoinedAt # 0
    BY <2>1, SelfPeerFields
  <2> QED
    BY <2>2 DEF SelfOK
<1>4. PeersOK(Published, peers)
  BY DEF Init, PeersOK, ForeignPeers, PeerMap, Empty
<1>5. NoBoot \in Boot
  BY DEF NoBoot, NoPeer, Boot, Peer
<1>6. BootOK(Published, boot)
  BY <1>5 DEF Init, BootOK, ForeignBoot, NoBoot
<1>7. EvictingOK(Published, evicting)
  BY DEF Init, EvictingOK
<1>8. LocalOK(Published, local)
  BY DEF Init, LocalOK, ForeignQueue
<1>9. ForeignStreams(Published, streams)
  BY DEF Init, ForeignStreams, Empty
<1> QED
  BY <1>2, <1>3, <1>4, <1>6, <1>7, <1>8, <1>9 DEF IInv

\* A step changes nothing but a process's own record and its history: no record
\* that was authentic stops being so.
LEMMA SelfStays ==
  ASSUME EnvOK, SelfOK, EnvOK', self' = self, now <= now',
         \A n \in NodeIDs : phase[n] # "off" <=> phase'[n] # "off"
  PROVE  SelfOK' /\ Published \subseteq Published'
<1>1. SelfOK'
  <2> SUFFICES ASSUME NEW n \in NodeIDs
               PROVE  /\ self[n].NodeID = n /\ self[n].AdvertiseURL = Host[n]
                      /\ self[n].JoinedAt <= self[n].LastHeartbeat
                      /\ self[n].LastHeartbeat <= now'
                      /\ phase'[n] # "off" => self[n].JoinedAt # 0
    BY DEF SelfOK
  <2>1. self[n].LastHeartbeat \in Nat /\ now \in Nat /\ now' \in Nat
    BY DEF EnvOK, Peer
  <2> QED
    BY <2>1 DEF SelfOK
<1>2. ASSUME NEW p \in Published PROVE p \in Published'
  BY DEF Published, Authentic
<1> QED
  BY <1>1, <1>2

\* A daemon that starts publishes its own record; nothing published before is
\* lost.
LEMMA StartSelf ==
  ASSUME IInv, NEW n \in NodeIDs, Start(n)
  PROVE  EnvOK' /\ SelfOK' /\ Published \subseteq Published'
<1> USE FleetAssumption
<1>0. now \in Nat /\ now # 0 /\ phase[n] = "off"
  BY DEF IInv, EnvOK, Start
<1>1. SelfPeer(n, now) \in Peer
  BY <1>0 DEF SelfPeer, Peer
<1>2. /\ self' = [self EXCEPT ![n] = SelfPeer(n, now)]
      /\ phase' = [phase EXCEPT ![n] = phase'[n]] /\ phase'[n] \in {"run", "boot"}
      /\ UNCHANGED <<now, faults, beaten, heard>>
  BY DEF Start, IInv, EnvOK
<1>3. EnvOK'
  BY <1>1, <1>2 DEF IInv, EnvOK
<1>4. SelfOK'
  <2>1. ASSUME NEW k \in NodeIDs, k # n
        PROVE  self'[k] = self[k] /\ phase'[k] = phase[k]
    BY <1>2, <2>1 DEF IInv, EnvOK
  <2>2. self'[n] = SelfPeer(n, now)
    BY <1>2 DEF IInv, EnvOK
  <2> QED
    BY <1>0, <1>2, <2>1, <2>2 DEF IInv, SelfOK, SelfPeer
<1>5. ASSUME NEW p \in Published PROVE p \in Published'
  <2>1. p.NodeID \in NodeIDs /\ p.NodeID # n
    BY <1>0 DEF Published, Authentic
  <2>2. self'[p.NodeID] = self[p.NodeID] /\ phase'[p.NodeID] = phase[p.NodeID]
    BY <1>2, <2>1 DEF IInv, EnvOK
  <2> QED
    BY <2>2 DEF Published, Authentic
<1> QED
  BY <1>3, <1>4, <1>5

\* A beat publishes one more version of the node's own record.
LEMMA heartbeatLoopSelf ==
  ASSUME IInv, NEW n \in NodeIDs, heartbeatLoop(n)
  PROVE  EnvOK' /\ SelfOK' /\ Published \subseteq Published'
<1>0. now \in Nat /\ self[n] \in Peer
  BY DEF IInv, EnvOK
<1>1. /\ self' = [self EXCEPT ![n].LastHeartbeat = now]
      /\ UNCHANGED <<now, faults, phase, heard>>
      /\ beaten' = [beaten EXCEPT ![n] = now]
  BY DEF heartbeatLoop
<1>2. /\ self'[n] \in Peer /\ self'[n].LastHeartbeat = now
      /\ self'[n].NodeID = self[n].NodeID
      /\ self'[n].AdvertiseURL = self[n].AdvertiseURL
      /\ self'[n].JoinedAt = self[n].JoinedAt
  BY <1>0, <1>1 DEF IInv, EnvOK, Peer
<1>3. \A k \in NodeIDs : k # n => self'[k] = self[k]
  BY <1>1 DEF IInv, EnvOK
<1>4. EnvOK'
  <2>1. self' \in [NodeIDs -> Peer]
    BY <1>1, <1>2, <1>3 DEF IInv, EnvOK
  <2> QED
    BY <1>0, <1>1, <2>1 DEF IInv, EnvOK
<1>5. /\ self[n].JoinedAt \in Nat /\ self[n].LastHeartbeat \in Nat
      /\ self[n].JoinedAt <= self[n].LastHeartbeat /\ self[n].LastHeartbeat <= now
  BY <1>0 DEF IInv, SelfOK, Peer
<1>6. SelfOK'
  <2> SUFFICES ASSUME NEW k \in NodeIDs
               PROVE  /\ self'[k].NodeID = k /\ self'[k].AdvertiseURL = Host[k]
                      /\ self'[k].JoinedAt <= self'[k].LastHeartbeat
                      /\ self'[k].LastHeartbeat <= now
                      /\ phase[k] # "off" => self'[k].JoinedAt # 0
    BY <1>1 DEF SelfOK
  <2>1. CASE k = n
    BY <1>0, <1>2, <1>5, <2>1 DEF IInv, SelfOK
  <2>2. CASE k # n
    BY <1>3, <2>2 DEF IInv, SelfOK
  <2> QED
    BY <2>1, <2>2
<1>7. ASSUME NEW p \in Published PROVE p \in Published'
  <2>1. p.NodeID \in NodeIDs /\ p \in Peer
    BY DEF Published, Authentic
  <2>2. CASE p.NodeID = n
    <3>1. p.LastHeartbeat \in Nat /\ p.LastHeartbeat <= self[n].LastHeartbeat
      BY <2>1, <2>2 DEF Published, Authentic, Peer
    <3>2. p.LastHeartbeat <= self'[n].LastHeartbeat
      BY <1>0, <1>2, <1>5, <3>1
    <3> QED
      BY <1>1, <1>2, <2>2, <3>2 DEF Published, Authentic
  <2>3. CASE p.NodeID # n
    BY <1>1, <1>3, <2>1, <2>3 DEF Published, Authentic
  <2> QED
    BY <2>2, <2>3
<1> QED
  BY <1>4, <1>6, <1>7

-----------------------------------------------------------------------------
(***************************************************************************)
(* Every step stays within a closed set A that holds the data before it.   *)
(***************************************************************************)

\* What is foreign for a set of records is foreign for a larger one: streams ...
LEMMA GrowStreams ==
  ASSUME NEW A, NEW B, A \subseteq B, NEW ss, ForeignStreams(A, ss)
  PROVE  ForeignStreams(B, ss)
<1>1. \A n, p : Foreign(A, n, p) => Foreign(B, n, p)
  BY DEF Foreign
<1>2. \A n, s : ForeignStream(A, n, s) => ForeignStream(B, n, s)
  BY <1>1 DEF ForeignStream, ForeignQueue
<1> QED
  BY <1>2 DEF ForeignStreams

\* ... and the rest of the state.
LEMMA GrowData ==
  ASSUME NEW A, NEW B, A \subseteq B, PeersOK(A, peers), BootOK(A, boot),
         EvictingOK(A, evicting), LocalOK(A, local)
  PROVE  /\ PeersOK(B, peers) /\ BootOK(B, boot)
         /\ EvictingOK(B, evicting) /\ LocalOK(B, local)
<1>1. \A n, p : Foreign(A, n, p) => Foreign(B, n, p)
  BY DEF Foreign
<1>2. PeersOK(B, peers)
  BY <1>1 DEF PeersOK, ForeignPeers
<1>3. BootOK(B, boot)
  BY <1>1 DEF BootOK, ForeignBoot
<1>4. EvictingOK(B, evicting)
  BY <1>1 DEF EvictingOK
<1>5. LocalOK(B, local)
  BY <1>1 DEF LocalOK, ForeignQueue
<1> QED
  BY <1>2, <1>3, <1>4, <1>5

\* Replacing one node's peer map by a foreign one.
LEMMA SetPeersOK ==
  ASSUME NEW A, PeersOK(A, peers), NEW n \in NodeIDs, NEW m, ForeignPeers(A, n, m)
  PROVE  PeersOK(A, [peers EXCEPT ![n] = m])
<1>1. /\ DOMAIN [peers EXCEPT ![n] = m] = NodeIDs
      /\ \A k \in NodeIDs : [peers EXCEPT ![n] = m][k] = IF k = n THEN m ELSE peers[k]
  BY DEF PeersOK
<1> QED
  BY <1>1 DEF PeersOK

\* Replacing one node's local event queue by a foreign one.
LEMMA SetLocalOK ==
  ASSUME NEW A, LocalOK(A, local), NEW n \in NodeIDs, NEW q, ForeignQueue(A, n, q)
  PROVE  LocalOK(A, [local EXCEPT ![n] = q])
<1>1. q \in Seq(Event)
  BY DEF ForeignQueue
<1>2. \A k \in NodeIDs : [local EXCEPT ![n] = q][k] = IF k = n THEN q ELSE local[k]
  BY DEF LocalOK
<1>3. [local EXCEPT ![n] = q] \in [NodeIDs -> Seq(Event)]
  BY <1>1 DEF LocalOK
<1> QED
  BY <1>2, <1>3 DEF LocalOK

\* Broadcasting a foreign event to the local subscriber.
LEMMA ToLocalOK ==
  ASSUME NEW A, LocalOK(A, local), NEW n \in NodeIDs, NEW e \in Event, Foreign(A, n, e.Peer)
  PROVE  LocalOK(A, ToLocal(n, e))
<1>1. ForeignQueue(A, n, Offer(local[n], e, LocalCap))
  BY OfferForeign DEF LocalOK
<1>2. LocalOK(A, [local EXCEPT ![n] = Offer(local[n], e, LocalCap)])
  BY <1>1, SetLocalOK
<1> QED
  BY <1>2 DEF ToLocal

\* Broadcast of an event about a foreign node.
LEMMA BroadcastOK ==
  ASSUME NEW A, Closed(A), LocalOK(A, local), NEW ss, ForeignStreams(A, ss),
         NEW n \in NodeIDs, NEW p, Foreign(A, n, p)
  PROVE  /\ LocalOK(A, ToLocal(n, PeerAdded(p))) /\ LocalOK(A, ToLocal(n, PeerRemoved(p)))
         /\ ForeignStreams(A, ToStreams(ss, n, PeerAdded(p)))
         /\ ForeignStreams(A, ToStreams(ss, n, PeerRemoved(p)))
<1>1. /\ PeerAdded(p) \in Event /\ PeerRemoved(p) \in Event
      /\ PeerAdded(p).Peer = p /\ PeerRemoved(p).Peer = p
  BY EventForeign DEF Closed, PeerAdded, PeerRemoved
<1>2. p \in A
  BY DEF Foreign
<1>3. /\ LocalOK(A, ToLocal(n, PeerAdded(p))) /\ LocalOK(A, ToLocal(n, PeerRemoved(p)))
  BY <1>1, ToLocalOK
<1>4. /\ ForeignStreams(A, ToStreams(ss, n, PeerAdded(p)))
      /\ ForeignStreams(A, ToStreams(ss, n, PeerRemoved(p)))
  BY <1>1, <1>2, ToStreamsForeign
<1> QED
  BY <1>3, <1>4

\* Upsert at node n and, when it changed the registry, Broadcast.
LEMMA UpsertOK ==
  ASSUME NEW A, Closed(A), PeersOK(A, peers), now \in Nat, NEW n \in NodeIDs, NEW p \in A
  PROVE  /\ PeersOK(A, [peers EXCEPT ![n] = Upsert(n, @, p, now)])
         /\ p.NodeID # n => /\ Foreign(A, n, Stored(n, peers[n], p, now))
                            /\ Stored(n, peers[n], p, now).NodeID = p.NodeID
         /\ Changed(n, peers[n], p) => p.NodeID # n
<1>1. ForeignPeers(A, n, peers[n])
  BY DEF PeersOK
<1>2. ForeignPeers(A, n, Upsert(n, peers[n], p, now))
  BY <1>1, UpsertForeign
<1>3. PeersOK(A, [peers EXCEPT ![n] = Upsert(n, peers[n], p, now)])
  BY <1>2, SetPeersOK
<1>4. p.NodeID # n => /\ Foreign(A, n, Stored(n, peers[n], p, now))
                      /\ Stored(n, peers[n], p, now).NodeID = p.NodeID
  BY <1>1, StoredForeign
<1>5. Changed(n, peers[n], p) => p.NodeID # n
  BY ChangedForeign
<1> QED
  BY <1>3, <1>4, <1>5

\* joinHandler with a published record keeps the server's state foreign.
LEMMA ServeJoinOK ==
  ASSUME NEW A, Closed(A), PeersOK(A, peers), LocalOK(A, local), ForeignStreams(A, streams),
         now \in Nat, NEW s \in NodeIDs, NEW p \in A, ServeJoin(s, p)
  PROVE  PeersOK(A, peers') /\ LocalOK(A, local') /\ ForeignStreams(A, streams')
<1>1. PeersOK(A, peers')
  BY UpsertOK DEF ServeJoin
<1>2. CASE Changed(s, peers[s], p)
  <2>1. Foreign(A, s, Stored(s, peers[s], p, now))
    BY <1>2, UpsertOK
  <2>2. /\ local' = ToLocal(s, PeerAdded(Stored(s, peers[s], p, now)))
        /\ streams' = ToStreams(streams, s, PeerAdded(Stored(s, peers[s], p, now)))
    BY <1>2 DEF ServeJoin
  <2> QED
    BY <1>1, <2>1, <2>2, BroadcastOK
<1>3. CASE ~Changed(s, peers[s], p)
  BY <1>1, <1>3 DEF ServeJoin
<1> QED
  BY <1>2, <1>3

\* Replacing one node's bootstrap state by a foreign one.
LEMMA SetBootOK ==
  ASSUME NEW A, BootOK(A, boot), NEW n \in NodeIDs, NEW b \in Boot, ForeignBoot(A, n, b)
  PROVE  BootOK(A, [boot EXCEPT ![n] = b])
<1>1. \A k \in NodeIDs : [boot EXCEPT ![n] = b][k] = IF k = n THEN b ELSE boot[k]
  BY DEF BootOK
<1>2. [boot EXCEPT ![n] = b] \in [NodeIDs -> Boot]
  BY DEF BootOK
<1> QED
  BY <1>1, <1>2 DEF BootOK

\* A bootstrap that is idle or waits for its retry holds no records.
LEMMA NoBootOK ==
  ASSUME NEW A, NEW n
  PROVE  /\ NoBoot \in Boot /\ ForeignBoot(A, n, NoBoot)
         /\ [NoBoot EXCEPT !.pc = "retry"] \in Boot
         /\ ForeignBoot(A, n, [NoBoot EXCEPT !.pc = "retry"])
BY DEF NoBoot, NoPeer, Boot, Peer, ForeignBoot

\* bootstrap goes on to the next record, the announcements or the end.
LEMMA ProceedOK ==
  ASSUME NEW A, BootOK(A, boot), NEW n \in NodeIDs, NEW todo \in SUBSET boot[n].todo,
         boot[n].pc \in {"apply", "announce"}, Proceed(n, boot[n].pc, todo)
  PROVE  BootOK(A, boot')
<1> DEFINE b == boot[n]
<1>1. b \in Boot /\ ForeignBoot(A, n, b)
  BY DEF BootOK
<1>2. Announcees(n) \subseteq b.roster
  BY DEF Announcees
<1>3. CASE todo # {} /\ boot' = [boot EXCEPT ![n].pc = b.pc, ![n].todo = todo]
  <2> DEFINE c == [b EXCEPT !.pc = b.pc, !.todo = todo]
  <2>1. c \in Boot /\ ForeignBoot(A, n, c)
    BY <1>1 DEF Boot, ForeignBoot
  <2>2. boot' = [boot EXCEPT ![n] = c]
    BY <1>3 DEF BootOK
  <2> HIDE DEF b, c
  <2> QED
    BY <2>1, <2>2, SetBootOK
<1>4. CASE boot' = [boot EXCEPT ![n].pc = "announce", ![n].todo = Announcees(n)]
  <2> DEFINE c == [b EXCEPT !.pc = "announce", !.todo = Announcees(n)]
  <2>1. c \in Boot /\ ForeignBoot(A, n, c)
    BY <1>1, <1>2 DEF Boot, ForeignBoot
  <2>2. boot' = [boot EXCEPT ![n] = c]
    BY <1>4 DEF BootOK
  <2> HIDE DEF b, c
  <2> QED
    BY <2>1, <2>2, SetBootOK
<1>5. CASE boot' = [boot EXCEPT ![n] = NoBoot]
  BY <1>5, SetBootOK, NoBootOK
<1> QED
  BY <1>3, <1>4, <1>5 DEF Proceed

\* handleRemoteEvent, for an event read from stream m of node n.
LEMMA handleRemoteEventOK ==
  ASSUME NEW A, Closed(A), PeersOK(A, peers), LocalOK(A, local), now \in Nat,
         NEW n \in NodeIDs, NEW ss, ForeignStreams(A, ss), NEW m \in DOMAIN ss[n],
         NEW e \in Event, Foreign(A, n, e.Peer), handleRemoteEvent(n, m, e, ss)
  PROVE  PeersOK(A, peers') /\ LocalOK(A, local') /\ ForeignStreams(A, streams')
<1> DEFINE id == e.Peer.NodeID
           stored == Stored(n, peers[n], e.Peer, now)
           anc == ss[n][m].anc \cup {m}
<1>1. e.Peer \in A /\ id \in NodeIDs \ {n}
  BY DEF Foreign, Closed
<1>2. anc \in SUBSET NodeIDs
  BY DEF ForeignStreams, ForeignStream, Stream
<1>3. Foreign(A, n, stored)
  BY <1>1, UpsertOK
<1>4. PeersOK(A, [peers EXCEPT ![n] = Upsert(n, @, e.Peer, now)])
  BY <1>1, UpsertOK
<1>5. CASE /\ e.Type \in {"heartbeat", "peer_added"}
           /\ peers' = [peers EXCEPT ![n] = Upsert(n, @, e.Peer, now)]
           /\ \/ /\ local' = ToLocal(n, PeerAdded(stored))
                 /\ streams' = ensureStream(ToStreams(ss, n, PeerAdded(stored)), n, id, anc)
              \/ /\ local' = local
                 /\ streams' = ensureStream(ss, n, id, anc)
  <2> HIDE DEF id, stored, anc
  <2>1. /\ LocalOK(A, ToLocal(n, PeerAdded(stored)))
        /\ ForeignStreams(A, ToStreams(ss, n, PeerAdded(stored)))
    BY <1>3, BroadcastOK
  <2>2. /\ ForeignStreams(A, ensureStream(ss, n, id, anc))
        /\ ForeignStreams(A, ensureStream(ToStreams(ss, n, PeerAdded(stored)), n, id, anc))
    BY <1>1, <1>2, <2>1, ensureStreamForeign
  <2> QED
    BY <1>4, <1>5, <2>1, <2>2
<1>6. CASE /\ id \in DOMAIN peers[n]
           /\ peers' = [peers EXCEPT ![n] = Remove(@, id)]
           /\ local' = ToLocal(n, PeerRemoved(peers[n][id]))
           /\ streams' = ToStreams(cancelStream(ss, n, id), n, PeerRemoved(peers[n][id]))
  <2> HIDE DEF id, stored, anc
  <2>0. ForeignPeers(A, n, peers[n])
    BY DEF PeersOK
  <2>1. Foreign(A, n, peers[n][id])
    BY <1>6, <2>0 DEF ForeignPeers
  <2>2. ForeignPeers(A, n, Remove(peers[n], id))
    BY <2>0, DropForeign DEF Remove
  <2>3. PeersOK(A, [peers EXCEPT ![n] = Remove(peers[n], id)])
    BY <2>2, SetPeersOK
  <2>4. ForeignStreams(A, cancelStream(ss, n, id))
    BY cancelStreamForeign
  <2>5. /\ LocalOK(A, ToLocal(n, PeerRemoved(peers[n][id])))
        /\ ForeignStreams(A, ToStreams(cancelStream(ss, n, id), n, PeerRemoved(peers[n][id])))
    BY <2>1, <2>4, BroadcastOK
  <2> QED
    BY <1>6, <2>3, <2>5
<1>7. CASE streams' = ss /\ UNCHANGED <<peers, local>>
  BY <1>7
<1> QED
  BY <1>5, <1>6, <1>7 DEF handleRemoteEvent

\* The two ways an event leaves a stream: from the replayed roster and from the
\* queue behind it.
LEMMA DeliverOK ==
  ASSUME NEW A, Closed(A), PeersOK(A, peers), LocalOK(A, local), ForeignStreams(A, streams),
         now \in Nat, NEW n \in NodeIDs, NEW m \in NodeIDs, Deliver(n, m)
  PROVE  /\ PeersOK(A, peers') /\ LocalOK(A, local') /\ ForeignStreams(A, streams')
         /\ \/ heard' = heard
            \/ \E id \in NodeIDs, b \in Nat : heard' = [heard EXCEPT ![n][id] = b]
<1> DEFINE s == streams[n][m]
<1>1. m \in DOMAIN streams[n] /\ ForeignStream(A, n, s)
  BY DEF Deliver, ForeignStreams
<1>2. ASSUME NEW e \in Event, Foreign(A, n, e.Peer), NEW ss, handleRemoteEvent(n, m, e, ss)
      PROVE  \/ heard' = heard
             \/ \E id \in NodeIDs, b \in Nat : heard' = [heard EXCEPT ![n][id] = b]
  <2>1. e.Peer.NodeID \in NodeIDs /\ e.Peer.LastHeartbeat \in Nat
    BY <1>2 DEF Foreign, Closed, Peer
  <2> QED
    BY <1>2, <2>1 DEF handleRemoteEvent
<1>3. ASSUME NEW p \in s.replay,
             handleRemoteEvent(n, m, PeerAdded(p), [streams EXCEPT ![n][m].replay = @ \ {p}])
      PROVE  /\ PeersOK(A, peers') /\ LocalOK(A, local') /\ ForeignStreams(A, streams')
             /\ \/ heard' = heard
                \/ \E id \in NodeIDs, b \in Nat : heard' = [heard EXCEPT ![n][id] = b]
  <2> DEFINE rest == [s EXCEPT !.replay = s.replay \ {p}]
             ss == [streams EXCEPT ![n][m] = rest]
  <2>1. rest \in Stream /\ rest.replay = s.replay \ {p} /\ rest.q = s.q
    BY <1>1 DEF ForeignStream, Stream
  <2>2. ForeignStream(A, n, rest)
    BY <1>1, <2>1 DEF ForeignStream
  <2>3. PeerAdded(p) \in Event /\ Foreign(A, n, PeerAdded(p).Peer)
    BY <1>1, EventForeign DEF ForeignStream, Closed
  <2>4. [streams EXCEPT ![n][m].replay = @ \ {p}] = ss
    BY <1>1 DEF ForeignStreams
  <2>5. m \in DOMAIN ss[n]
    BY <1>1 DEF ForeignStreams
  <2> HIDE DEF rest
  <2>6. ForeignStreams(A, ss)
    BY <1>1, <2>2, SetStreamForeign
  <2> HIDE DEF ss
  <2> QED
    BY <1>2, <1>3, <2>3, <2>4, <2>5, <2>6, handleRemoteEventOK
<1>4. ASSUME s.q # << >>,
             handleRemoteEvent(n, m, Head(s.q), [streams EXCEPT ![n][m].q = Tail(@)])
      PROVE  /\ PeersOK(A, peers') /\ LocalOK(A, local') /\ ForeignStreams(A, streams')
             /\ \/ heard' = heard
                \/ \E id \in NodeIDs, b \in Nat : heard' = [heard EXCEPT ![n][id] = b]
  <2> DEFINE rest == [s EXCEPT !.q = Tail(s.q)]
             ss == [streams EXCEPT ![n][m] = rest]
  <2>0. ForeignQueue(A, n, Tail(s.q))
    BY <1>1, <1>4, TailForeign DEF ForeignStream
  <2>1. rest \in Stream /\ rest.replay = s.replay /\ rest.q = Tail(s.q)
    BY <1>1, <2>0 DEF ForeignStream, ForeignQueue, Stream
  <2>2. ForeignStream(A, n, rest)
    BY <1>1, <2>0, <2>1 DEF ForeignStream
  <2>3. Head(s.q) \in Event /\ Foreign(A, n, Head(s.q).Peer)
    BY <1>1, <1>4, HeadForeign DEF ForeignStream
  <2>4. [streams EXCEPT ![n][m].q = Tail(@)] = ss
    BY <1>1 DEF ForeignStreams
  <2>5. m \in DOMAIN ss[n]
    BY <1>1 DEF ForeignStreams
  <2> HIDE DEF rest
  <2>6. ForeignStreams(A, ss)
    BY <1>1, <2>2, SetStreamForeign
  <2> HIDE DEF ss, s
  <2> QED
    BY <1>2, <1>4, <2>3, <2>4, <2>5, <2>6, handleRemoteEventOK
<1> QED
  BY <1>3, <1>4 DEF Deliver

-----------------------------------------------------------------------------
(***************************************************************************)
(* The inductive step.                                                     *)
(***************************************************************************)

\* The actions of Next, one by one.
LEMMA NextCases ==
  ASSUME Next
  PROVE  \/ \E n \in NodeIDs : \/ Start(n) \/ JoinServed(n) \/ JoinLost(n) \/ JoinRefused(n)
                               \/ RetryBootstrap(n) \/ ApplyRoster(n) \/ Announce(n)
         \/ \E n \in NodeIDs : \/ localEventLoop(n) \/ heartbeatLoop(n)
                               \/ PruneTick(n) \/ Evict(n) \/ Crash(n)
         \/ \E n, m \in NodeIDs : Connect(n, m) \/ Deliver(n, m) \/ Break(n, m)
         \/ Tick
BY DEF Next, bootstrap, pruneLoop, runStream

\* What a step does to the clock and to a process's own record: authentic
\* records stay authentic.
LEMMA SelfStep ==
  ASSUME IInv, [Next]_vars
  PROVE  EnvOK' /\ SelfOK' /\ Published \subseteq Published'
<1>0. EnvOK /\ SelfOK /\ now \in Nat
  BY DEF IInv, EnvOK
<1>1. ASSUME self' = self, now' = now, beaten' = beaten, heard' = heard,
             \/ phase' = phase
             \/ \E n \in NodeIDs : \E v \in {"run", "dead"} :
                  phase[n] # "off" /\ phase' = [phase EXCEPT ![n] = v],
             faults' = faults \/ \E k : Fault(k)
      PROVE  EnvOK' /\ SelfOK' /\ Published \subseteq Published'
  <2>1. faults' \in 0 .. MaxFaults
    BY <1>0, <1>1, FleetAssumption DEF EnvOK, Fault
  <2>2. phase' \in [NodeIDs -> {"off", "boot", "run", "dead"}]
    BY <1>0, <1>1 DEF EnvOK
  <2>3. \A n \in NodeIDs : phase[n] # "off" <=> phase'[n] # "off"
    BY <1>0, <1>1 DEF EnvOK
  <2>4. EnvOK'
    BY <1>0, <1>1, <2>1, <2>2 DEF EnvOK
  <2> QED
    BY <1>0, <1>1, <2>3, <2>4, SelfStays
<1>2. ASSUME NEW n \in NodeIDs, NEW m \in NodeIDs, Deliver(n, m)
      PROVE  EnvOK' /\ SelfOK' /\ Published \subseteq Published'
  <2>1. \/ heard' = heard
        \/ \E id \in NodeIDs, b \in Nat : heard' = [heard EXCEPT ![n][id] = b]
    BY <1>0, <1>2, DeliverOK, PublishedClosed DEF IInv
  <2>2. heard' \in [NodeIDs -> [NodeIDs -> Nat]]
    BY <1>0, <2>1 DEF EnvOK
  <2>3. UNCHANGED <<now, faults, phase, self, beaten>>
    BY <1>2 DEF Deliver
  <2>4. EnvOK'
    BY <1>0, <2>2, <2>3 DEF EnvOK
  <2> QED
    BY <1>0, <2>3, <2>4, SelfStays
<1>3. ASSUME Tick PROVE EnvOK' /\ SelfOK' /\ Published \subseteq Published'
  <2>1. /\ UNCHANGED <<faults, phase, self, beaten, heard>>
        /\ now' = now + 1 /\ now < MaxNow
    BY <1>3 DEF Tick
  <2>2. EnvOK' /\ now <= now'
    BY <1>0, <2>1, FleetAssumption DEF EnvOK
  <2> QED
    BY <1>0, <2>1, <2>2, SelfStays
<1>4. ASSUME NEW n \in NodeIDs,
             \/ JoinServed(n) \/ JoinLost(n) \/ JoinRefused(n) \/ RetryBootstrap(n)
             \/ ApplyRoster(n) \/ Announce(n)
      PROVE  EnvOK' /\ SelfOK' /\ Published \subseteq Published'
  <2>1. phase[n] # "off" /\ UNCHANGED <<self, now, beaten, heard>>
    BY <1>4 DEF JoinServed, JoinLost, JoinRefused, RetryBootstrap, ApplyRoster, Announce, Up
  <2>2. phase' = phase \/ phase' = [phase EXCEPT ![n] = "run"]
    BY <1>4 DEF JoinServed, JoinLost, JoinRefused, RetryBootstrap, ApplyRoster, Announce,
                FailBoot, Proceed
  <2>3. faults' = faults \/ Fault("join")
    BY <1>4 DEF JoinServed, JoinLost, JoinRefused, RetryBootstrap, ApplyRoster, Announce
  <2> QED
    BY <1>1, <2>1, <2>2, <2>3
<1>5. ASSUME NEW n \in NodeIDs, localEventLoop(n) \/ PruneTick(n) \/ Evict(n) \/ Crash(n)
      PROVE  EnvOK' /\ SelfOK' /\ Published \subseteq Published'
  <2>1. /\ phase[n] # "off" /\ UNCHANGED <<self, now, beaten, heard>>
        /\ phase' = phase \/ phase' = [phase EXCEPT ![n] = "dead"]
        /\ faults' = faults \/ Fault("crash")
    BY <1>5 DEF localEventLoop, PruneTick, Evict, Crash, Up
  <2> QED
    BY <1>1, <2>1
<1>6. ASSUME NEW n \in NodeIDs, NEW m \in NodeIDs, Connect(n, m) \/ Break(n, m)
      PROVE  EnvOK' /\ SelfOK' /\ Published \subseteq Published'
  <2>1. /\ UNCHANGED <<phase, self, now, beaten, heard>>
        /\ faults' = faults \/ Fault("break")
    BY <1>6 DEF Connect, Break
  <2> QED
    BY <1>1, <2>1
<1>7. CASE UNCHANGED vars
  BY <1>1, <1>7 DEF vars
<1> QED
  BY <1>2, <1>3, <1>4, <1>5, <1>6, <1>7, NextCases, StartSelf, heartbeatLoopSelf

\* What every step below assumes of A: it is closed, it holds the data and each
\* running process's own record, before and after the step.
Within(A) ==
  /\ Closed(A) /\ EnvOK /\ SelfOK /\ now \in Nat
  /\ PeersOK(A, peers) /\ BootOK(A, boot) /\ EvictingOK(A, evicting)
  /\ LocalOK(A, local) /\ ForeignStreams(A, streams)
  /\ \A k \in NodeIDs : phase[k] # "off" => self[k] \in A

Kept(A) ==
  /\ PeersOK(A, peers') /\ BootOK(A, boot') /\ EvictingOK(A, evicting')
  /\ LocalOK(A, local') /\ ForeignStreams(A, streams')

\* The process that answers on an address is running there.
LEMMA AtUp ==
  ASSUME NEW url, NEW s \in At(url)
  PROVE  s \in NodeIDs /\ phase[s] # "off" /\ Host[s] = url
BY DEF At, Up

\* Start, bootstrap and announce.
LEMMA StartKeeps ==
  ASSUME NEW A, Within(A), NEW n \in NodeIDs, Start(n), self'[n] \in A
  PROVE  Kept(A)
<1>1. CASE boot' = boot
  BY <1>1 DEF Start, Within, Kept
<1>2. CASE boot' = [boot EXCEPT ![n].pc = "join", ![n].self = self'[n]]
  <2> DEFINE b == [boot[n] EXCEPT !.pc = "join", !.self = self'[n]]
  <2>1. boot[n] \in Boot /\ ForeignBoot(A, n, boot[n]) /\ self'[n] \in Peer
    BY DEF Within, BootOK, Closed
  <2>2. b \in Boot /\ ForeignBoot(A, n, b)
    BY <2>1 DEF Boot, ForeignBoot
  <2>3. boot' = [boot EXCEPT ![n] = b]
    BY <1>2 DEF Within, BootOK
  <2> HIDE DEF b
  <2>4. BootOK(A, boot')
    BY <2>2, <2>3, SetBootOK DEF Within
  <2> QED
    BY <2>4 DEF Start, Within, Kept
<1> QED
  BY <1>1, <1>2 DEF Start

\* One lemma per action: with every record in A before the step, every record
\* is in A after it.  Here the join and the roster it returns.
LEMMA JoinServedKeeps ==
  ASSUME NEW A, Within(A), NEW n \in NodeIDs, JoinServed(n)
  PROVE  Kept(A)
<1>1. PICK s \in At(BootstrapURL[n]) :
        /\ ServeJoin(s, boot[n].self)
        /\ LET others == {p \in Roster(self[s], peers'[s]) : p.NodeID # n} IN
             boot' = [boot EXCEPT ![n].pc = "apply", ![n].todo = others,
                                  ![n].roster = others]
  BY DEF JoinServed
<1>2. s \in NodeIDs /\ self[s] \in A
  BY <1>1, AtUp DEF Within
<1>3. boot[n] \in Boot /\ ForeignBoot(A, n, boot[n]) /\ boot[n].pc = "join"
  BY DEF Within, BootOK, JoinServed
<1>4. PeersOK(A, peers') /\ LocalOK(A, local') /\ ForeignStreams(A, streams')
  <2>1. boot[n].self \in A
    BY <1>3 DEF ForeignBoot
  <2> QED
    BY <1>1, <1>2, <2>1, ServeJoinOK DEF Within
<1> DEFINE others == {p \in Roster(self[s], peers'[s]) : p.NodeID # n}
           b == [boot[n] EXCEPT !.pc = "apply", !.todo = others, !.roster = others]
<1>5. \A p \in others : Foreign(A, n, p) /\ p \in Peer
  <2>1. \A id \in DOMAIN peers'[s] : peers'[s][id] \in A
    BY <1>2, <1>4 DEF PeersOK, ForeignPeers, Foreign
  <2>2. A \subseteq Peer
    BY DEF Within, Closed
  <2> QED
    BY <1>2, <2>1, <2>2 DEF Roster, Peers, Foreign
<1>6. boot' = [boot EXCEPT ![n] = b]
  BY <1>1 DEF Within, BootOK
<1> HIDE DEF others
<1>7. b \in Boot /\ ForeignBoot(A, n, b)
  BY <1>3, <1>5 DEF Boot, ForeignBoot
<1> HIDE DEF b
<1>8. BootOK(A, boot')
  BY <1>6, <1>7, SetBootOK DEF Within
<1> QED
  BY <1>4, <1>8 DEF JoinServed, Within, Kept

\* A failed bootstrap forgets its roster.
LEMMA FailBootKeeps ==
  ASSUME NEW A, BootOK(A, boot), NEW n \in NodeIDs, FailBoot(n)
  PROVE  BootOK(A, boot')
BY SetBootOK, NoBootOK DEF FailBoot

\* A join whose response is lost changes the server only.
LEMMA JoinLostKeeps ==
  ASSUME NEW A, Within(A), NEW n \in NodeIDs, JoinLost(n)
  PROVE  Kept(A)
<1>1. PICK s \in At(BootstrapURL[n]) : ServeJoin(s, boot[n].self)
  BY DEF JoinLost
<1>2. s \in NodeIDs
  BY AtUp
<1>3. boot[n].self \in A
  BY DEF Within, BootOK, ForeignBoot, JoinLost
<1>4. PeersOK(A, peers') /\ LocalOK(A, local') /\ ForeignStreams(A, streams')
  BY <1>1, <1>2, <1>3, ServeJoinOK DEF Within
<1>5. BootOK(A, boot')
  BY FailBootKeeps DEF JoinLost, Within
<1> QED
  BY <1>4, <1>5 DEF JoinLost, Within, Kept

\* A refused join changes the joiner's bootstrap state only.
LEMMA JoinRefusedKeeps ==
  ASSUME NEW A, Within(A), NEW n \in NodeIDs, JoinRefused(n)
  PROVE  Kept(A)
<1>1. BootOK(A, boot')
  BY FailBootKeeps DEF JoinRefused, Within
<1> QED
  BY <1>1 DEF JoinRefused, Within, Kept

\* The retry takes a fresh copy of the node's own record.
LEMMA RetryBootstrapKeeps ==
  ASSUME NEW A, Within(A), NEW n \in NodeIDs, RetryBootstrap(n)
  PROVE  Kept(A)
<1> DEFINE b == [boot[n] EXCEPT !.pc = "join", !.self = self[n]]
<1>1. boot[n] \in Boot /\ ForeignBoot(A, n, boot[n]) /\ self[n] \in Peer /\ self[n] \in A
  BY DEF Within, BootOK, EnvOK, RetryBootstrap, Up
<1>2. b \in Boot /\ ForeignBoot(A, n, b)
  BY <1>1 DEF Boot, ForeignBoot
<1>3. boot' = [boot EXCEPT ![n] = b]
  BY DEF RetryBootstrap, Within, BootOK
<1> HIDE DEF b
<1>4. BootOK(A, boot')
  BY <1>2, <1>3, SetBootOK DEF Within
<1> QED
  BY <1>4 DEF RetryBootstrap, Within, Kept

\* One round over the roster.
LEMMA ApplyRosterKeeps ==
  ASSUME NEW A, Within(A), NEW n \in NodeIDs, ApplyRoster(n)
  PROVE  Kept(A)
<1>1. PICK p \in boot[n].todo :
        LET stored == Stored(n, peers[n], p, now) IN
        /\ peers' = [peers EXCEPT ![n] = Upsert(n, @, p, now)]
        /\ IF Changed(n, peers[n], p)
           THEN /\ local' = ToLocal(n, PeerAdded(stored))
                /\ streams' = ensureStream(ToStreams(streams, n, PeerAdded(stored)),
                                           n, stored.NodeID, {})
           ELSE /\ UNCHANGED local
                /\ streams' = ensureStream(streams, n, stored.NodeID, {})
        /\ Proceed(n, "apply", boot[n].todo \ {p})
  BY DEF ApplyRoster
<1> DEFINE stored == Stored(n, peers[n], p, now)
<1>2. p \in A /\ p.NodeID \in NodeIDs \ {n}
  BY <1>1 DEF Within, BootOK, ForeignBoot, Foreign, Closed
<1>3. /\ PeersOK(A, peers') /\ Foreign(A, n, stored) /\ stored.NodeID \in NodeIDs \ {n}
  <2>1. /\ PeersOK(A, [peers EXCEPT ![n] = Upsert(n, @, p, now)])
        /\ Foreign(A, n, stored) /\ stored.NodeID = p.NodeID
    BY <1>2, UpsertOK DEF Within
  <2>2. peers' = [peers EXCEPT ![n] = Upsert(n, @, p, now)]
    BY <1>1
  <2> HIDE DEF stored
  <2> QED
    BY <1>2, <2>1, <2>2
<1>4. BootOK(A, boot')
  BY <1>1, ProceedOK DEF Within, ApplyRoster
<1> HIDE DEF stored
<1>5. /\ LocalOK(A, ToLocal(n, PeerAdded(stored)))
      /\ ForeignStreams(A, ToStreams(streams, n, PeerAdded(stored)))
  BY <1>3, BroadcastOK DEF Within
<1>6. /\ ForeignStreams(A, ensureStream(streams, n, stored.NodeID, {}))
      /\ ForeignStreams(A, ensureStream(ToStreams(streams, n, PeerAdded(stored)),
                                        n, stored.NodeID, {}))
  BY <1>3, <1>5, ensureStreamForeign DEF Within
<1>7. LocalOK(A, local') /\ ForeignStreams(A, streams')
  BY <1>1, <1>5, <1>6 DEF Within, stored
<1> QED
  BY <1>3, <1>4, <1>7 DEF ApplyRoster, Within, Kept

\* One announcement, served or failed.
LEMMA AnnounceKeeps ==
  ASSUME NEW A, Within(A), NEW n \in NodeIDs, Announce(n)
  PROVE  Kept(A)
<1>1. PICK p \in boot[n].todo :
        /\ Proceed(n, "announce", boot[n].todo \ {p})
        /\ \/ \E s \in At(p.AdvertiseURL) : ServeJoin(s, boot[n].self)
           \/ UNCHANGED <<peers, local, streams>>
  BY DEF Announce
<1>2. BootOK(A, boot')
  BY <1>1, ProceedOK DEF Within, Announce
<1>3. boot[n].self \in A
  BY DEF Within, BootOK, ForeignBoot, Announce
<1>4. PeersOK(A, peers') /\ LocalOK(A, local') /\ ForeignStreams(A, streams')
  <2>1. CASE \E s \in At(p.AdvertiseURL) : ServeJoin(s, boot[n].self)
    <3>1. PICK s \in At(p.AdvertiseURL) : ServeJoin(s, boot[n].self)
      BY <2>1
    <3>2. s \in NodeIDs
      BY AtUp
    <3> QED
      BY <1>3, <3>1, <3>2, ServeJoinOK DEF Within
  <2>2. CASE UNCHANGED <<peers, local, streams>>
    BY <2>2 DEF Within
  <2> QED
    BY <1>1, <2>1, <2>2
<1> QED
  BY <1>2, <1>4 DEF Announce, Within, Kept

\* The streams.
LEMMA ConnectKeeps ==
  ASSUME NEW A, Within(A), NEW n \in NodeIDs, NEW m \in NodeIDs, Connect(n, m)
  PROVE  Kept(A)
<1>1. PICK s \in At(Host[m]) :
        streams' = [streams EXCEPT
          ![n][m].st = "open", ![n][m].to = s,
          ![n][m].replay = {p \in Roster(self[s], peers[s]) : ~About(n, p)}]
  BY DEF Connect
<1>2. s \in NodeIDs /\ self[s] \in A /\ m \in DOMAIN streams[n]
  BY <1>1, AtUp DEF Within, Connect
<1> DEFINE old == streams[n][m]
           ps == {p \in Roster(self[s], peers[s]) : ~About(n, p)}
           new == [old EXCEPT !.st = "open", !.to = s, !.replay = ps]
<1>3. \A p \in ps : Foreign(A, n, p) /\ p \in Peer
  <2>1. \A id \in DOMAIN peers[s] : peers[s][id] \in A
    BY <1>2 DEF Within, PeersOK, ForeignPeers, Foreign
  <2>2. A \subseteq Peer
    BY DEF Within, Closed
  <2> QED
    BY <1>2, <2>1, <2>2 DEF Roster, Peers, Foreign, About
<1>4. ForeignStream(A, n, old)
  BY <1>2 DEF Within, ForeignStreams
<1>5. streams' = [streams EXCEPT ![n][m] = new]
  BY <1>1, <1>2 DEF Within, ForeignStreams
<1> HIDE DEF ps
<1>6. new \in Stream /\ new.replay = ps /\ new.q = old.q
  BY <1>2, <1>3, <1>4 DEF ForeignStream, Stream
<1>7. ForeignStream(A, n, new)
  BY <1>3, <1>4, <1>6 DEF ForeignStream
<1> HIDE DEF new
<1>8. ForeignStreams(A, streams')
  BY <1>2, <1>5, <1>7, SetStreamForeign DEF Within
<1> QED
  BY <1>8 DEF Connect, Within, Kept

\* A broken connection loses what it carried.
LEMMA BreakKeeps ==
  ASSUME NEW A, Within(A), NEW n \in NodeIDs, NEW m \in NodeIDs, Break(n, m)
  PROVE  Kept(A)
<1>1. m \in DOMAIN streams[n] /\ streams' = [streams EXCEPT ![n][m] = Dialing(@.anc)]
  BY DEF Break
<1>2. streams[n][m].anc \in SUBSET NodeIDs
  BY <1>1 DEF Within, ForeignStreams, ForeignStream, Stream
<1>3. ForeignStream(A, n, Dialing(streams[n][m].anc))
  BY <1>2, DialingForeign
<1> DEFINE new == Dialing(streams[n][m].anc)
<1>4. streams' = [streams EXCEPT ![n][m] = new]
  BY <1>1 DEF Within, ForeignStreams
<1> HIDE DEF new
<1>5. ForeignStream(A, n, new)
  BY <1>3 DEF new
<1>6. ForeignStreams(A, [streams EXCEPT ![n][m] = new])
  BY <1>1, <1>5, SetStreamForeign DEF Within
<1>7. ForeignStreams(A, streams')
  BY <1>4, <1>6
<1> QED
  BY <1>7 DEF Break, Within, Kept

\* One event of a stream.
LEMMA DeliverKeeps ==
  ASSUME NEW A, Within(A), NEW n \in NodeIDs, NEW m \in NodeIDs, Deliver(n, m)
  PROVE  Kept(A)
<1>1. PeersOK(A, peers') /\ LocalOK(A, local') /\ ForeignStreams(A, streams')
  BY DeliverOK DEF Within
<1> QED
  BY <1>1 DEF Deliver, Within, Kept

\* The loops of Run.
LEMMA localEventLoopKeeps ==
  ASSUME NEW A, Within(A), NEW n \in NodeIDs, localEventLoop(n)
  PROVE  Kept(A)
<1> DEFINE e == Head(local[n])
<1>1. ForeignQueue(A, n, local[n]) /\ local[n] # << >>
  BY DEF Within, LocalOK, localEventLoop
<1>2. e.Peer.NodeID \in NodeIDs \ {n}
  BY <1>1, HeadForeign DEF Foreign, Within, Closed
<1>3. LocalOK(A, local')
  <2>1. LocalOK(A, [local EXCEPT ![n] = Tail(local[n])])
    BY <1>1, TailForeign, SetLocalOK DEF Within
  <2> QED
    BY <2>1 DEF localEventLoop
<1>4. \/ streams' = cancelStream(streams, n, e.Peer.NodeID)
      \/ streams' = ensureStream(streams, n, e.Peer.NodeID, {})
  BY DEF localEventLoop
<1> HIDE DEF e
<1>5. ForeignStreams(A, streams')
  BY <1>2, <1>4, cancelStreamForeign, ensureStreamForeign DEF Within
<1> QED
  BY <1>3, <1>5 DEF localEventLoop, Within, Kept

\* A beat, for a set that contains the node's new record.
LEMMA heartbeatLoopKeeps ==
  ASSUME NEW A, Within(A), NEW n \in NodeIDs, heartbeatLoop(n), self'[n] \in A
  PROVE  Kept(A)
<1>1. self'[n] \in Peer
  BY DEF Within, Closed
<1>2. Heartbeat(self'[n]) \in Event /\ Heartbeat(self'[n]).Peer = self'[n]
  BY <1>1 DEF Heartbeat, Event, EventType
<1>3. ForeignStreams(A, streams')
  BY <1>2, ToStreamsForeign DEF heartbeatLoop, Within
<1> QED
  BY <1>3 DEF heartbeatLoop, Within, Kept

\* PruneStale moves records from the peer map to the loop.
LEMMA PruneTickKeeps ==
  ASSUME NEW A, Within(A), NEW n \in NodeIDs, PruneTick(n)
  PROVE  Kept(A)
<1> DEFINE dead == Stale(peers[n], now, DeadAfter)
           gone == {peers[n][id] : id \in dead}
<1>0. ForeignPeers(A, n, peers[n]) /\ A \subseteq Peer
  BY DEF Within, PeersOK, Closed
<1>1. dead \subseteq DOMAIN peers[n]
  BY DEF Stale
<1>2. evicting' = [evicting EXCEPT ![n] = gone]
  BY DEF PruneTick
<1>3. peers' = [peers EXCEPT ![n] = Drop(peers[n], dead)]
  BY DEF PruneTick, PruneStale
<1> HIDE DEF dead
<1>4. PeersOK(A, peers')
  <2>1. ForeignPeers(A, n, Drop(peers[n], dead))
    BY <1>0, DropForeign
  <2> QED
    BY <1>3, <2>1, SetPeersOK DEF Within
<1>5. \A p \in gone : Foreign(A, n, p) /\ p \in Peer
  BY <1>0, <1>1 DEF ForeignPeers, Foreign
<1> HIDE DEF gone
<1>6. EvictingOK(A, evicting')
  BY <1>2, <1>5 DEF Within, EvictingOK
<1> QED
  BY <1>4, <1>6 DEF PruneTick, Within, Kept

\* The loop broadcasts the removal of a record it holds.
LEMMA EvictKeeps ==
  ASSUME NEW A, Within(A), NEW n \in NodeIDs, Evict(n)
  PROVE  Kept(A)
<1>1. PICK d \in evicting[n] :
        /\ evicting' = [evicting EXCEPT ![n] = @ \ {d}]
        /\ streams' = ToStreams(cancelStream(streams, n, d.NodeID), n, PeerRemoved(d))
        /\ local' = ToLocal(n, PeerRemoved(d))
  BY DEF Evict
<1>2. Foreign(A, n, d)
  BY <1>1 DEF Within, EvictingOK
<1>3. EvictingOK(A, evicting')
  BY <1>1 DEF Within, EvictingOK
<1>4. ForeignStreams(A, cancelStream(streams, n, d.NodeID))
  BY cancelStreamForeign DEF Within
<1>5. LocalOK(A, local') /\ ForeignStreams(A, streams')
  BY <1>1, <1>2, <1>4, BroadcastOK DEF Within
<1> QED
  BY <1>3, <1>5 DEF Evict, Within, Kept

\* A crash empties the node's state and cuts the streams to it.
LEMMA CrashKeeps ==
  ASSUME NEW A, Within(A), NEW n \in NodeIDs, Crash(n)
  PROVE  Kept(A)
<1>1. PeersOK(A, peers')
  <2>1. ForeignPeers(A, n, Empty)
    BY DEF ForeignPeers, PeerMap, Empty
  <2> QED
    BY <2>1, SetPeersOK DEF Crash, Within
<1>2. BootOK(A, boot')
  BY NoBootOK, SetBootOK DEF Crash, Within
<1>3. EvictingOK(A, evicting')
  BY DEF Crash, Within, EvictingOK
<1>4. LocalOK(A, local')
  <2>1. ForeignQueue(A, n, << >>)
    BY DEF ForeignQueue
  <2> QED
    BY <2>1, SetLocalOK DEF Crash, Within
<1>5. /\ DOMAIN streams' = NodeIDs /\ DOMAIN streams'[n] = {}
      /\ \A k \in NodeIDs \ {n} :
           /\ DOMAIN streams'[k] = DOMAIN streams[k]
           /\ \A m \in DOMAIN streams[k] : \/ streams'[k][m] = streams[k][m]
                                           \/ streams'[k][m] = Dialing(streams[k][m].anc)
  BY DEF Crash, Empty
<1>6. \A k \in NodeIDs : \A m \in DOMAIN streams[k] :
        /\ ForeignStream(A, k, streams[k][m])
        /\ ForeignStream(A, k, Dialing(streams[k][m].anc))
  <2> SUFFICES ASSUME NEW k \in NodeIDs, NEW m \in DOMAIN streams[k]
               PROVE  /\ ForeignStream(A, k, streams[k][m])
                      /\ ForeignStream(A, k, Dialing(streams[k][m].anc))
    OBVIOUS
  <2>1. ForeignStream(A, k, streams[k][m])
    BY DEF Within, ForeignStreams
  <2>2. streams[k][m].anc \in SUBSET NodeIDs
    BY <2>1 DEF ForeignStream, Stream
  <2> QED
    BY <2>1, <2>2, DialingForeign
<1>7. ForeignStreams(A, streams')
  BY <1>5, <1>6 DEF ForeignStreams, Within
<1> QED
  BY <1>1, <1>2, <1>3, <1>4, <1>7 DEF Crash, Kept

-----------------------------------------------------------------------------

\* The invariant is inductive.
THEOREM Inductive == IInv /\ [Next]_vars => IInv'
<1> SUFFICES ASSUME IInv, [Next]_vars PROVE IInv'
  OBVIOUS
<1>1. EnvOK' /\ SelfOK' /\ Published \subseteq Published'
  BY SelfStep
<1>2. Closed(Published') /\ \A n \in NodeIDs : phase'[n] # "off" => self'[n] \in Published'
  BY <1>1, PublishedClosedNext, SelfPublishedNext
<1>3. Within(Published')
  <2>1. /\ PeersOK(Published', peers) /\ BootOK(Published', boot)
        /\ EvictingOK(Published', evicting) /\ LocalOK(Published', local)
    BY <1>1, GrowData DEF IInv
  <2>2. ForeignStreams(Published', streams)
    BY <1>1, GrowStreams DEF IInv
  <2>3. \A k \in NodeIDs : phase[k] # "off" => self[k] \in Published'
    BY <1>1, SelfPublished DEF IInv
  <2> QED
    BY <1>2, <2>1, <2>2, <2>3 DEF Within, IInv, EnvOK
<1>4. Kept(Published')
  <2>1. ASSUME NEW n \in NodeIDs, Start(n) PROVE Kept(Published')
    <3>1. phase'[n] # "off"
      BY <2>1 DEF Start, IInv, EnvOK
    <3> QED
      BY <1>2, <1>3, <2>1, <3>1, StartKeeps
  <2>2. ASSUME NEW n \in NodeIDs, heartbeatLoop(n) PROVE Kept(Published')
    <3>1. phase'[n] # "off"
      BY <2>2 DEF heartbeatLoop
    <3> QED
      BY <1>2, <1>3, <2>2, <3>1, heartbeatLoopKeeps
  <2>3. ASSUME UNCHANGED <<peers, boot, evicting, local, streams>> PROVE Kept(Published')
    BY <1>3, <2>3 DEF Within, Kept
  <2>4. Tick \/ UNCHANGED vars => UNCHANGED <<peers, boot, evicting, local, streams>>
    BY DEF Tick, vars
  <2> QED
    BY <1>3, <2>1, <2>2, <2>3, <2>4, NextCases, JoinServedKeeps, JoinLostKeeps,
       JoinRefusedKeeps, RetryBootstrapKeeps, ApplyRosterKeeps, AnnounceKeeps,
       ConnectKeeps, BreakKeeps, DeliverKeeps, localEventLoopKeeps, PruneTickKeeps,
       EvictKeeps, CrashKeeps
<1> QED
  BY <1>1, <1>4 DEF IInv, Kept

\* The invariant holds of every reachable state.
THEOREM Invariance == Spec => []IInv
BY InitIInv, Inductive, PTL DEF Spec

\* The inductive invariant implies the type invariant ...
LEMMA IInvTypeOK == IInv => TypeOK
<1> SUFFICES ASSUME IInv PROVE TypeOK
  OBVIOUS
<1>1. ASSUME NEW n \in NodeIDs
      PROVE  /\ PeerMap(n, peers[n])
             /\ DOMAIN streams[n] \subseteq NodeIDs \ {n}
             /\ \A id \in DOMAIN streams[n] : streams[n][id] \in Stream
  BY DEF IInv, PeersOK, ForeignPeers, ForeignStreams, ForeignStream
<1>2. DOMAIN peers = NodeIDs /\ DOMAIN streams = NodeIDs
  BY DEF IInv, PeersOK, ForeignStreams
<1>3. boot \in [NodeIDs -> Boot] /\ evicting \in [NodeIDs -> SUBSET Peer]
      /\ local \in [NodeIDs -> Seq(Event)]
  BY DEF IInv, BootOK, EvictingOK, LocalOK
<1> QED
  BY <1>1, <1>2, <1>3 DEF IInv, EnvOK, TypeOK

\* Type correctness: in every mesh the state is well-formed; no node is in its
\* own peer map and none opens a stream to itself.
THEOREM TypeCorrect == Spec => []TypeOK
BY Invariance, IInvTypeOK, PTL

\* ... and the authenticity of every record.
LEMMA IInvProvenance == IInv => Provenance
<1> SUFFICES ASSUME IInv, NEW n \in NodeIDs
             PROVE  /\ \A id \in DOMAIN peers[n] : Authentic(peers[n][id])
                    /\ \A p \in evicting[n] \cup boot[n].todo \cup boot[n].roster : Authentic(p)
                    /\ boot[n].pc \in {"join", "apply", "announce"} => Authentic(boot[n].self)
                    /\ \A i \in 1 .. Len(local[n]) : Authentic(local[n][i].Peer)
                    /\ \A id \in DOMAIN streams[n] :
                         /\ \A p \in streams[n][id].replay : Authentic(p)
                         /\ \A i \in 1 .. Len(streams[n][id].q) :
                              Authentic(streams[n][id].q[i].Peer)
  BY DEF Provenance
<1>1. \A p : p \in Published => Authentic(p)
  BY DEF Published
<1>2. \A id \in DOMAIN peers[n] : Authentic(peers[n][id])
  BY <1>1 DEF IInv, PeersOK, ForeignPeers, Foreign
<1>3. \A p \in evicting[n] \cup boot[n].todo \cup boot[n].roster : Authentic(p)
  BY <1>1 DEF IInv, EvictingOK, BootOK, ForeignBoot, Foreign
<1>4. boot[n].pc \in {"join", "apply", "announce"} => Authentic(boot[n].self)
  BY <1>1 DEF IInv, BootOK, ForeignBoot
<1>5. \A i \in 1 .. Len(local[n]) : Authentic(local[n][i].Peer)
  BY <1>1 DEF IInv, LocalOK, ForeignQueue, Foreign
<1>6. ASSUME NEW id \in DOMAIN streams[n]
      PROVE  /\ \A p \in streams[n][id].replay : Authentic(p)
             /\ \A i \in 1 .. Len(streams[n][id].q) : Authentic(streams[n][id].q[i].Peer)
  <2>1. ForeignStream(Published, n, streams[n][id])
    BY DEF IInv, ForeignStreams
  <2> QED
    BY <1>1, <2>1 DEF ForeignStream, ForeignQueue, Foreign
<1> QED
  BY <1>2, <1>3, <1>4, <1>5, <1>6

\* Provenance: in every mesh, whatever joins, gossip, heartbeats, retries,
\* crashes, restarts and broken connections did, each copy of a record says
\* only what its owner published; no peer is invented and none looks younger
\* or more alive than it was.
THEOREM RecordsAuthentic == Spec => []Provenance
BY Invariance, IInvProvenance, PTL

-----------------------------------------------------------------------------
(***************************************************************************)
(* A fleet of two processes.                                               *)
(***************************************************************************)

\* Each process is started at most once, so two of them are two daemons of which
\* neither is restarted.
TwoProcesses == \A a, b, c \in NodeIDs : a = b \/ b = c \/ a = c

\* The clock waits for what is due, every interval has its heartbeat, a peer may
\* miss two of them and no buffer is without a slot.
PromptFleet == /\ Timely /\ MaxNow <= MaxBeat /\ DeadAfter >= 2
               /\ StreamCap >= 1 /\ LocalCap >= 1

\* Of two processes that can run at once, one joins through the other.
JoinGraph == \A n, m \in NodeIDs : \/ n = m \/ Host[n] = Host[m]
                                   \/ BootstrapURL[n] = Host[m] \/ BootstrapURL[m] = Host[n]

\* At time t, p's heartbeat is at most k intervals old.
Aged(p, t, k) == p.LastHeartbeat + k >= t

\* A process that does not run holds nothing.
Quiet == \A n \in NodeIDs : ~Up(n) =>
           /\ DOMAIN peers[n] = {} /\ DOMAIN streams[n] = {}
           /\ boot[n] = NoBoot /\ evicting[n] = {} /\ local[n] = << >>

\* No two running processes share an address, a connection leads to the address
\* that was dialled, and nobody follows a process that was never started.
Addressed ==
  /\ \A n, m \in NodeIDs : (n # m /\ Up(n) /\ Up(m)) => Host[n] # Host[m]
  /\ \A n \in NodeIDs : \A id \in DOMAIN streams[n] :
       /\ phase[id] # "off"
       /\ streams[n][id].to # 0 => Host[streams[n][id].to] = Host[id]

\* A process beats in every interval in which it runs, and what its bootstrap
\* sends or applies dates from this interval or the one before.
Beating(n) ==
  /\ beaten[n] <= now
  /\ Up(n) =>
       /\ Aged(self[n], now, 1)
       /\ beaten[n] = now => Aged(self[n], now, 0)
       /\ boot[n].pc \in {"join", "apply", "announce"} =>
            boot[n].self.NodeID = n /\ Aged(boot[n].self, now, 1)
       /\ boot[n].pc \in {"idle", "retry"} => boot[n].todo = {} /\ boot[n].roster = {}
       /\ \A p \in boot[n].todo \cup boot[n].roster : Aged(p, now, 1)

\* A stream to the running process m at time t, when m last beat at b: dialling,
\* or open with a recent replay and at most the beat of this interval behind it.
Fed(s, m, t, b) ==
  \/ s.st = "dial" /\ s.to = 0 /\ s.replay = {} /\ s.q = << >>
  \/ /\ s.st = "open" /\ s.to = m
     /\ \A p \in s.replay : Aged(p, t, 1)
     /\ s.q # << >> => /\ b = t /\ Len(s.q) = 1
                       /\ s.q[1].Type = "heartbeat" /\ Aged(s.q[1].Peer, t, 1)

\* Everything that was sent is read.
Drained(s) == s.st = "open" /\ s.replay = {} /\ s.q = << >>

\* What the running process n holds of the running process m.  A replay or a
\* retried join may take n's record of m back by one interval, but once the beat
\* of this interval is through n's stream the record is at most that old; a
\* record without a stream has an event behind it that will open one.
Follows(n, m) ==
  /\ \A id \in DOMAIN streams[n] : Fed(streams[n][id], m, now, beaten[m])
  /\ \A i \in 1 .. Len(local[n]) : local[n][i].Type = "peer_added"
  /\ \A id \in DOMAIN peers[n] :
       /\ Aged(peers[n][id], now, 2)
       /\ id \in DOMAIN streams[n] \/ local[n] # << >>
       /\ (beaten[m] = now /\ id \in DOMAIN streams[n] /\ Drained(streams[n][id]))
            => Aged(peers[n][id], now, 1)

\* Once the join of n at m is answered, m knows n, and n knows m or is about to
\* apply the roster that says so.
Joined(n, m) ==
  (BootstrapURL[n] = Host[m] /\ boot[n].pc \in {"apply", "announce", "idle"}) =>
    /\ phase[m] # "off"
    /\ Up(m) => /\ n \in DOMAIN peers[m]
                /\ \/ m \in DOMAIN peers[n]
                   \/ boot[n].pc = "apply" /\ \E p \in boot[n].todo : p.NodeID = m

\* n and m are two running processes.
Both(n, m) == n # m /\ Up(n) /\ Up(m)

\* The inductive invariant of two processes, on top of IInv.
PairInv ==
  /\ Quiet /\ Addressed /\ NoFalseEviction
  /\ \A n \in NodeIDs : Beating(n)
  /\ \A n, m \in NodeIDs : Both(n, m) => Follows(n, m)
  /\ \A n, m \in NodeIDs : n # m /\ Up(n) => Joined(n, m)

\* The next state's types and publications, which every step keeps.
Sound == TwoProcesses /\ PromptFleet /\ IInv /\ IInv'

\* There is no third process.
LEMMA OtherIs ==
  ASSUME TwoProcesses, NEW n \in NodeIDs, NEW m \in NodeIDs, n # m, NEW k \in NodeIDs
  PROVE  k = n \/ k = m
BY DEF TwoProcesses

\* What is known of a published record.
LEMMA PublishedFacts ==
  ASSUME IInv, NEW p \in Published
  PROVE  /\ p \in Peer /\ p.NodeID \in NodeIDs
         /\ p.LastHeartbeat \in Nat /\ p.LastHeartbeat # 0
         /\ p.AdvertiseURL = Host[p.NodeID] /\ phase[p.NodeID] # "off"
<1>1. p \in Peer /\ Authentic(p)
  BY DEF Published
<1>2. p.NodeID \in NodeIDs /\ phase[p.NodeID] # "off"
  BY <1>1 DEF Authentic
<1>3. self[p.NodeID].JoinedAt # 0
  BY <1>2 DEF IInv, SelfOK
<1> QED
  BY <1>1, <1>2, <1>3 DEF Authentic, Peer

\* The clock and the beats are numbers.
LEMMA ClockTypes ==
  ASSUME IInv
  PROVE  /\ now \in Nat /\ \A n \in NodeIDs : beaten[n] \in Nat
         /\ \A n \in NodeIDs : self[n] \in Peer /\ self[n].LastHeartbeat \in Nat
BY DEF IInv, EnvOK, Peer

\* A record of the other process.
Of(m, p) == p \in Published /\ p.NodeID = m

\* All that a process holds is about the other one.
LEMMA PairData ==
  ASSUME TwoProcesses, IInv, NEW n \in NodeIDs, NEW m \in NodeIDs, n # m
  PROVE  /\ DOMAIN peers[n] \subseteq {m} /\ DOMAIN streams[n] \subseteq {m}
         /\ \A id \in DOMAIN peers[n] : Of(m, peers[n][id])
         /\ \A p \in boot[n].todo \cup boot[n].roster : Of(m, p)
         /\ \A p \in evicting[n] : Of(m, p)
         /\ local[n] \in Seq(Event) /\ Len(local[n]) \in Nat
         /\ \A i \in 1 .. Len(local[n]) : local[n][i] \in Event /\ Of(m, local[n][i].Peer)
<1>0. \A p : Foreign(Published, n, p) => Of(m, p)
  BY PublishedFacts, OtherIs DEF Foreign, Of
<1>1. DOMAIN peers[n] \subseteq {m} /\ \A id \in DOMAIN peers[n] : Of(m, peers[n][id])
  BY <1>0, OtherIs DEF IInv, PeersOK, ForeignPeers, PeerMap
<1>2. DOMAIN streams[n] \subseteq {m}
  BY OtherIs DEF IInv, ForeignStreams
<1>3. \A p \in boot[n].todo \cup boot[n].roster : Of(m, p)
  BY <1>0 DEF IInv, BootOK, ForeignBoot
<1>4. \A p \in evicting[n] : Of(m, p)
  BY <1>0 DEF IInv, EvictingOK
<1>5. ForeignQueue(Published, n, local[n])
  BY DEF IInv, LocalOK
<1>6. local[n] \in Seq(Event) /\ Len(local[n]) \in Nat
  BY <1>5 DEF ForeignQueue
<1>7. \A i \in 1 .. Len(local[n]) : local[n][i] \in Event /\ Of(m, local[n][i].Peer)
  BY <1>0, <1>5, <1>6 DEF ForeignQueue
<1> QED
  BY <1>1, <1>2, <1>3, <1>4, <1>6, <1>7

\* The same of what a stream carries.
LEMMA PairStream ==
  ASSUME TwoProcesses, IInv, NEW n \in NodeIDs, NEW m \in NodeIDs, n # m,
         m \in DOMAIN streams[n]
  PROVE  /\ streams[n][m] \in Stream /\ streams[n][m].to \in {0, n, m}
         /\ streams[n][m].q \in Seq(Event) /\ Len(streams[n][m].q) \in Nat
         /\ \A p \in streams[n][m].replay : Of(m, p)
         /\ \A i \in 1 .. Len(streams[n][m].q) : Of(m, streams[n][m].q[i].Peer)
<1>0. \A p : Foreign(Published, n, p) => Of(m, p)
  BY PublishedFacts, OtherIs DEF Foreign, Of
<1>1. ForeignStream(Published, n, streams[n][m])
  BY DEF IInv, ForeignStreams
<1>2. streams[n][m] \in Stream /\ streams[n][m].to \in {0, n, m}
  BY <1>1, OtherIs DEF ForeignStream, Stream
<1>3. \A p \in streams[n][m].replay : Of(m, p)
  BY <1>0, <1>1 DEF ForeignStream
<1>4. streams[n][m].q \in Seq(Event)
  BY <1>1 DEF ForeignStream, ForeignQueue
<1>5. \A i \in 1 .. Len(streams[n][m].q) : Of(m, streams[n][m].q[i].Peer)
  BY <1>0, <1>1 DEF ForeignStream, ForeignQueue
<1> QED
  BY <1>2, <1>3, <1>4, <1>5

\* Upsert of a published record leaves a record with just that heartbeat.
LEMMA UpsertFresh ==
  ASSUME IInv, NEW n \in NodeIDs, NEW p \in Published, p.NodeID # n
  PROVE  /\ DOMAIN Upsert(n, peers[n], p, now) = DOMAIN peers[n] \cup {p.NodeID}
         /\ Upsert(n, peers[n], p, now)[p.NodeID].LastHeartbeat = p.LastHeartbeat
         /\ Stored(n, peers[n], p, now).NodeID = p.NodeID
         /\ Stored(n, peers[n], p, now) \in Peer
         /\ p.NodeID \notin DOMAIN peers[n] => Changed(n, peers[n], p)
<1>1. /\ p \in Peer /\ p.NodeID \in NodeIDs /\ p.LastHeartbeat # 0 /\ p.NodeID # 0
  BY PublishedFacts, DataAssumption
<1>2. ~Ignored(n, p)
  BY <1>1 DEF Ignored
<1>3. PeerMap(n, peers[n]) /\ now \in Nat
  BY ClockTypes DEF IInv, PeersOK, ForeignPeers
<1>4. Upsert(n, peers[n], p, now) = Put(peers[n], p.NodeID, Stored(n, peers[n], p, now))
  BY <1>2 DEF Upsert
<1>5. Stored(n, peers[n], p, now).LastHeartbeat = p.LastHeartbeat
  <2>1. CASE p.NodeID \in DOMAIN peers[n]
    <3>1. peers[n][p.NodeID] \in Peer
      BY <1>3, <2>1 DEF PeerMap
    <3>2. Merge(peers[n][p.NodeID], p).LastHeartbeat = p.LastHeartbeat
      BY <1>1, <3>1 DEF Merge, Peer
    <3> QED
      BY <1>2, <2>1, <3>2 DEF Stored
  <2>2. CASE p.NodeID \notin DOMAIN peers[n]
    BY <1>1, <1>2, <2>2 DEF Stored, Peer
  <2> QED
    BY <2>1, <2>2
<1>6. /\ Stored(n, peers[n], p, now).NodeID = p.NodeID
      /\ Stored(n, peers[n], p, now) \in Peer
  BY <1>1, <1>3, StoredType
<1>7. p.NodeID \notin DOMAIN peers[n] => Changed(n, peers[n], p)
  BY <1>2 DEF Changed
<1> QED
  BY <1>4, <1>5, <1>6, <1>7 DEF Put

-----------------------------------------------------------------------------
(***************************************************************************)
(* What the operations do to the streams of two processes.                 *)
(***************************************************************************)

\* Every node has a map of streams.
TypedStreams(ss) ==
  /\ DOMAIN ss = NodeIDs
  /\ \A k \in NodeIDs : \A id \in DOMAIN ss[k] : ss[k][id] \in Stream

\* The streams tt come from ss by steps of node n: n may dial a process that was
\* started, and connections are kept, lost or made to the address that is dialled.
Rewired(n, ss, tt) ==
  /\ TypedStreams(tt)
  /\ \A k \in NodeIDs : \A id \in DOMAIN tt[k] :
       /\ id \in DOMAIN ss[k] \/ (k = n /\ id \in NodeIDs /\ phase[id] # "off")
       /\ \/ tt[k][id].to = 0 \/ Host[tt[k][id].to] = Host[id]
          \/ id \in DOMAIN ss[k] /\ tt[k][id].to = ss[k][id].to

\* ss and tt are the same streams.
SameStreams(ss, tt) ==
  \A k \in NodeIDs : /\ DOMAIN tt[k] = DOMAIN ss[k]
                     /\ \A id \in DOMAIN ss[k] : tt[k][id] = ss[k][id]

\* The invariant's streams are typed.
LEMMA StreamsTyped == IInv => TypedStreams(streams)
BY DEF IInv, ForeignStreams, ForeignStream, TypedStreams

\* Streams that stay as they are.
LEMMA RewiredSame ==
  ASSUME NEW n, NEW ss, TypedStreams(ss)
  PROVE  Rewired(n, ss, ss)
BY DEF Rewired, TypedStreams

\* One rewiring after another is a rewiring.
LEMMA RewiredTrans ==
  ASSUME NEW n, NEW ss, NEW tt, NEW uu, Rewired(n, ss, tt), Rewired(n, tt, uu)
  PROVE  Rewired(n, ss, uu)
BY DEF Rewired

\* A stream with another queue.
LEMMA QueueTyped ==
  ASSUME NEW s \in Stream, NEW q \in Seq(Event)
  PROVE  /\ [s EXCEPT !.q = q] \in Stream
         /\ [s EXCEPT !.q = q].to = s.to /\ [s EXCEPT !.q = q].st = s.st
         /\ [s EXCEPT !.q = q].replay = s.replay /\ [s EXCEPT !.q = q].q = q
BY DEF Stream

\* A stream that dials.
LEMMA DialingTyped ==
  ASSUME NEW anc \in SUBSET NodeIDs
  PROVE  /\ Dialing(anc) \in Stream /\ Dead \in Stream
         /\ Dialing(anc).st = "dial" /\ Dialing(anc).to = 0 /\ Dead.to = 0
         /\ Dialing(anc).replay = {} /\ Dialing(anc).q = << >>
<1>1. << >> \in Seq(Event)
  OBVIOUS
<1> QED
  BY <1>1 DEF Dialing, Dead, Unconnected, Stream

\* Broadcast only fills queues.
LEMMA ToStreamsRewired ==
  ASSUME NEW n, NEW ss, TypedStreams(ss), NEW a, NEW e \in Event
  PROVE  Rewired(n, ss, ToStreams(ss, a, e))
<1> DEFINE tt == ToStreams(ss, a, e)
<1>1. /\ DOMAIN tt = NodeIDs
      /\ \A k \in NodeIDs : DOMAIN tt[k] = DOMAIN ss[k]
      /\ \A k \in NodeIDs : \A id \in DOMAIN ss[k] :
           \/ tt[k][id] = ss[k][id]
           \/ tt[k][id] = [ss[k][id] EXCEPT !.q = Offer(@, e, StreamCap)]
  BY DEF ToStreams
<1>2. ASSUME NEW k \in NodeIDs, NEW id \in DOMAIN ss[k]
      PROVE  /\ [ss[k][id] EXCEPT !.q = Offer(@, e, StreamCap)] \in Stream
             /\ [ss[k][id] EXCEPT !.q = Offer(@, e, StreamCap)].to = ss[k][id].to
  <2>1. ss[k][id] \in Stream /\ ss[k][id].q \in Seq(Event)
    BY DEF TypedStreams, Stream
  <2>2. Offer(ss[k][id].q, e, StreamCap) \in Seq(Event)
    BY <2>1 DEF Offer
  <2> QED
    BY <2>1, <2>2, QueueTyped
<1> HIDE DEF tt
<1>3. \A k \in NodeIDs : \A id \in DOMAIN ss[k] :
        tt[k][id] \in Stream /\ tt[k][id].to = ss[k][id].to
  <2> SUFFICES ASSUME NEW k \in NodeIDs, NEW id \in DOMAIN ss[k]
               PROVE  tt[k][id] \in Stream /\ tt[k][id].to = ss[k][id].to
    OBVIOUS
  <2>1. CASE tt[k][id] = ss[k][id]
    BY <2>1 DEF TypedStreams
  <2>2. CASE tt[k][id] = [ss[k][id] EXCEPT !.q = Offer(@, e, StreamCap)]
    BY <1>2, <2>2
  <2> QED
    BY <1>1, <2>1, <2>2
<1>4. Rewired(n, ss, tt)
  BY <1>1, <1>3 DEF Rewired, TypedStreams
<1> QED
  BY <1>4 DEF tt

\* ensureStream dials a peer there is no stream to and leaves the others.
LEMMA ensureStreamRewired ==
  ASSUME NEW n \in NodeIDs, NEW ss, TypedStreams(ss), NEW id \in NodeIDs, phase[id] # "off",
         NEW anc \in SUBSET NodeIDs
  PROVE  /\ Rewired(n, ss, ensureStream(ss, n, id, anc))
         /\ \A k \in NodeIDs \ {n} : ensureStream(ss, n, id, anc)[k] = ss[k]
         /\ DOMAIN ensureStream(ss, n, id, anc)[n] = DOMAIN ss[n] \cup {id}
         /\ \A i \in DOMAIN ss[n] : ensureStream(ss, n, id, anc)[n][i] = ss[n][i]
         /\ id \notin DOMAIN ss[n] => ensureStream(ss, n, id, anc)[n][id] = Dialing(anc)
<1> DEFINE tt == ensureStream(ss, n, id, anc)
<1>1. CASE id \in DOMAIN ss[n]
  BY <1>1, RewiredSame DEF ensureStream
<1>2. CASE id \notin DOMAIN ss[n]
  <2>1. /\ DOMAIN tt = NodeIDs /\ tt[n] = Put(ss[n], id, Dialing(anc))
        /\ \A k \in NodeIDs \ {n} : tt[k] = ss[k]
    BY <1>2 DEF ensureStream, TypedStreams
  <2>2. /\ DOMAIN tt[n] = DOMAIN ss[n] \cup {id} /\ tt[n][id] = Dialing(anc)
        /\ \A i \in DOMAIN ss[n] : tt[n][i] = ss[n][i]
    BY <1>2, <2>1 DEF Put
  <2> HIDE DEF tt
  <2>3. Rewired(n, ss, tt)
    BY <2>1, <2>2, DialingTyped DEF Rewired, TypedStreams
  <2> QED
    BY <1>2, <2>1, <2>2, <2>3 DEF tt
<1> QED
  BY <1>1, <1>2

\* cancelStream only takes streams away, from the map or from their contexts.
LEMMA cancelStreamRewired ==
  ASSUME NEW n \in NodeIDs, NEW ss, TypedStreams(ss), NEW a, NEW id
  PROVE  Rewired(n, ss, cancelStream(ss, a, id))
<1> DEFINE tt == cancelStream(ss, a, id)
<1>1. DOMAIN tt = NodeIDs
  BY DEF cancelStream, TypedStreams
<1>2. \A k \in NodeIDs : /\ DOMAIN tt[k] \subseteq DOMAIN ss[k]
                         /\ \A i \in DOMAIN tt[k] : tt[k][i] = ss[k][i] \/ tt[k][i] = Dead
  BY DEF cancelStream, TypedStreams
<1> HIDE DEF tt
<1>3. Rewired(n, ss, tt)
  BY <1>1, <1>2, DialingTyped DEF Rewired, TypedStreams
<1> QED
  BY <1>3 DEF tt

\* Replacing one entry by a stream that leads to the same address or nowhere.
LEMMA SetStreamRewired ==
  ASSUME NEW n \in NodeIDs, NEW ss, TypedStreams(ss), NEW m \in DOMAIN ss[n],
         NEW s \in Stream, s.to \in {0, ss[n][m].to} \/ Host[s.to] = Host[m]
  PROVE  Rewired(n, ss, [ss EXCEPT ![n][m] = s])
<1> DEFINE tt == [ss EXCEPT ![n][m] = s]
<1>1. /\ DOMAIN tt = NodeIDs
      /\ \A k \in NodeIDs : DOMAIN tt[k] = DOMAIN ss[k]
      /\ \A k \in NodeIDs : \A j \in DOMAIN ss[k] :
           tt[k][j] = IF k = n /\ j = m THEN s ELSE ss[k][j]
  BY DEF TypedStreams
<1> HIDE DEF tt
<1>2. Rewired(n, ss, tt)
  BY <1>1 DEF Rewired, TypedStreams
<1> QED
  BY <1>2 DEF tt

\* What n broadcasts about the other process m reaches nobody: m reads no event
\* about itself, and n does not follow itself.
LEMMA BroadcastSilent ==
  ASSUME TwoProcesses, NEW n \in NodeIDs, NEW m \in NodeIDs, n # m, NEW ss,
         \A id \in DOMAIN ss[n] : ss[n][id].to # n, NEW e, e.Peer.NodeID = m
  PROVE  SameStreams(ss, ToStreams(ss, n, e))
<1>1. \A k \in NodeIDs : k # n => About(k, e.Peer)
  BY OtherIs DEF About
<1> QED
  BY <1>1 DEF ToStreams, SameStreams

-----------------------------------------------------------------------------
(***************************************************************************)
(* The parts of the invariant that a step leaves alone.                    *)
(***************************************************************************)

\* The same processes run and the same were never started.
SamePhases == \A k \in NodeIDs : /\ Up(k)' <=> Up(k)
                                 /\ phase'[k] = "off" <=> phase[k] = "off"

\* A step of a running process touches nobody's data but a running one's.
LEMMA FrameKept ==
  ASSUME PairInv, IInv, NEW n \in NodeIDs, Up(n), SamePhases,
         Rewired(n, streams, streams'),
         \A k \in NodeIDs : ~Up(k) => /\ peers'[k] = peers[k] /\ boot'[k] = boot[k]
                                      /\ local'[k] = local[k] /\ evicting'[k] = evicting[k],
         \A k \in NodeIDs : evicting'[k] \subseteq evicting[k]
  PROVE  Quiet' /\ Addressed' /\ NoFalseEviction'
<1>1. Quiet'
  <2> SUFFICES ASSUME NEW k \in NodeIDs, ~Up(k)'
               PROVE  /\ DOMAIN peers'[k] = {} /\ DOMAIN streams'[k] = {}
                      /\ boot'[k] = NoBoot /\ evicting'[k] = {} /\ local'[k] = << >>
    BY DEF Quiet
  <2>1. ~Up(k) /\ k # n
    BY DEF SamePhases
  <2>2. DOMAIN streams'[k] = {}
    BY <2>1 DEF Rewired, PairInv, Quiet
  <2> QED
    BY <2>1, <2>2 DEF PairInv, Quiet
<1>2. Addressed'
  <2>1. ASSUME NEW k \in NodeIDs, NEW id \in DOMAIN streams'[k]
        PROVE  /\ phase'[id] # "off"
               /\ streams'[k][id].to # 0 => Host[streams'[k][id].to] = Host[id]
    <3>1. id \in NodeIDs
      BY DEF Rewired, IInv, ForeignStreams
    <3> QED
      BY <3>1 DEF Rewired, PairInv, Addressed, SamePhases
  <2> QED
    BY <2>1 DEF Addressed, PairInv, SamePhases
<1>3. NoFalseEviction'
  <2> SUFFICES ASSUME NEW k \in NodeIDs, NEW p \in evicting'[k]
               PROVE  ~Up(p.NodeID)'
    BY DEF NoFalseEviction
  <2>1. p \in evicting[k] /\ p.NodeID \in NodeIDs
    BY PublishedFacts DEF IInv, EvictingOK, Foreign
  <2> QED
    BY <2>1 DEF PairInv, NoFalseEviction, SamePhases
<1> QED
  BY <1>1, <1>2, <1>3

\* What k's loops and bootstrap know is unchanged.
LEMMA BeatingKept ==
  ASSUME NEW k \in NodeIDs, Beating(k), now' = now, self'[k] = self[k],
         beaten'[k] = beaten[k], boot'[k] = boot[k], Up(k)' <=> Up(k)
  PROVE  Beating(k)'
BY DEF Beating

\* What n holds of m is unchanged.
LEMMA FollowsKept ==
  ASSUME NEW n \in NodeIDs, NEW m \in NodeIDs, Follows(n, m), now' = now,
         beaten'[m] = beaten[m], local'[n] = local[n], peers'[n] = peers[n],
         DOMAIN streams'[n] = DOMAIN streams[n],
         \A id \in DOMAIN streams[n] : streams'[n][id] = streams[n][id]
  PROVE  Follows(n, m)'
BY DEF Follows

\* What the join of n at m left is still there.
LEMMA JoinedKept ==
  ASSUME NEW n \in NodeIDs, NEW m \in NodeIDs, Joined(n, m), SamePhases, boot'[n] = boot[n],
         DOMAIN peers[n] \subseteq DOMAIN peers'[n], DOMAIN peers[m] \subseteq DOMAIN peers'[m]
  PROVE  Joined(n, m)'
BY DEF Joined, SamePhases

Announces(q) == \A i \in 1 .. Len(q) : q[i].Type = "peer_added"

\* A broadcast peer_added among peer_added events.
LEMMA OfferAdded ==
  ASSUME NEW q \in Seq(Event), Announces(q), NEW p \in Peer, NEW cap \in Nat, cap >= 1
  PROVE  /\ Offer(q, PeerAdded(p), cap) \in Seq(Event) /\ Offer(q, PeerAdded(p), cap) # << >>
         /\ Announces(Offer(q, PeerAdded(p), cap))
<1>1. PeerAdded(p) \in Event /\ PeerAdded(p).Type = "peer_added" /\ Len(q) \in Nat
  BY DEF PeerAdded, Event, EventType
<1>2. CASE Len(q) < cap
  <2> DEFINE r == Append(q, PeerAdded(p))
  <2>1. /\ r \in Seq(Event) /\ Len(r) = Len(q) + 1 /\ r[Len(q) + 1] = PeerAdded(p)
        /\ \A i \in 1 .. Len(q) : r[i] = q[i]
    BY <1>1
  <2> HIDE DEF r
  <2>2. r # << >>
    BY <1>1, <2>1
  <2>3. ASSUME NEW i \in 1 .. Len(r) PROVE r[i].Type = "peer_added"
    <3>1. i \in 1 .. Len(q) \/ i = Len(q) + 1
      BY <1>1, <2>1
    <3> QED
      BY <1>1, <2>1, <3>1 DEF Announces
  <2>4. Offer(q, PeerAdded(p), cap) = r
    BY <1>2 DEF Offer, r
  <2> QED
    BY <2>1, <2>2, <2>3, <2>4 DEF Announces
<1>3. CASE ~(Len(q) < cap)
  <2>1. q # << >>
    BY <1>1, <1>3
  <2> QED
    BY <1>3, <2>1 DEF Offer
<1> QED
  BY <1>2, <1>3

\* A recent record of m reaches n: its registry is up to date again, and a
\* stream to m is there or an event that will open it.
LEMMA FollowsRefreshed ==
  ASSUME Sound, NEW n \in NodeIDs, NEW m \in NodeIDs, n # m, Follows(n, m),
         NEW p, Of(m, p), Aged(p, now, 1), now' = now, beaten' = beaten,
         peers'[n] = Upsert(n, peers[n], p, now),
         \/ local'[n] = local[n]
         \/ local'[n] = Offer(local[n], PeerAdded(Stored(n, peers[n], p, now)), LocalCap),
         \A id \in DOMAIN streams'[n] : Fed(streams'[n][id], m, now, beaten[m]),
         m \in DOMAIN streams'[n] \/ local'[n] # << >>
  PROVE  Follows(n, m)'
<1>1. p \in Published /\ p.NodeID = m /\ p.NodeID # n
  BY DEF Of
<1>2. /\ DOMAIN peers'[n] = DOMAIN peers[n] \cup {m}
      /\ peers'[n][m].LastHeartbeat = p.LastHeartbeat
      /\ Stored(n, peers[n], p, now) \in Peer
  BY <1>1, UpsertFresh DEF Sound
<1>3. DOMAIN peers[n] \subseteq {m}
  BY PairData DEF Sound
<1>4. Aged(peers'[n][m], now, 1) /\ Aged(peers'[n][m], now, 2)
  <2>1. p.LastHeartbeat \in Nat /\ now \in Nat
    BY <1>1, PublishedFacts, ClockTypes DEF Sound
  <2> QED
    BY <1>2, <2>1 DEF Aged
<1>5. Announces(local'[n])
  <2>1. local[n] \in Seq(Event) /\ Announces(local[n]) /\ LocalCap \in Nat /\ LocalCap >= 1
    BY PairData, FleetAssumption DEF Sound, Follows, PromptFleet, Announces
  <2>2. CASE local'[n] = local[n]
    BY <2>1, <2>2
  <2>3. CASE local'[n] = Offer(local[n], PeerAdded(Stored(n, peers[n], p, now)), LocalCap)
    BY <1>2, <2>1, <2>3, OfferAdded
  <2> QED
    BY <2>2, <2>3
<1> QED
  BY <1>2, <1>3, <1>4, <1>5 DEF Follows, Announces

-----------------------------------------------------------------------------
(***************************************************************************)
(* Every action keeps the invariant: start, bootstrap and announce.        *)
(***************************************************************************)

\* While both run, what one broadcasts about the other reaches nobody.
LEMMA BothSilent ==
  ASSUME Sound, PairInv, NEW n \in NodeIDs, NEW m \in NodeIDs, Both(n, m),
         NEW e, e.Peer.NodeID = m
  PROVE  SameStreams(streams, ToStreams(streams, n, e))
<1>1. \A id \in DOMAIN streams[n] : Fed(streams[n][id], m, now, beaten[m])
  BY DEF PairInv, Follows
<1>2. n # 0 /\ n # m
  BY DataAssumption DEF Both
<1>3. \A id \in DOMAIN streams[n] : streams[n][id].to # n
  BY <1>1, <1>2 DEF Fed
<1> QED
  BY <1>2, <1>3, BroadcastSilent DEF Sound

\* A broadcast event about a known record.
LEMMA AddedEvent ==
  ASSUME NEW p \in Peer
  PROVE  PeerAdded(p) \in Event /\ PeerAdded(p).Peer = p /\ PeerAdded(p).Type = "peer_added"
BY DEF PeerAdded, Event, EventType

\* joinHandler at s for a recent record of the other process n.
LEMMA ServeJoinPair ==
  ASSUME Sound, PairInv, NEW s \in NodeIDs, NEW n \in NodeIDs, Both(s, n),
         NEW p, Of(n, p), Aged(p, now, 1), ServeJoin(s, p), now' = now, beaten' = beaten
  PROVE  /\ Follows(s, n)' /\ Follows(n, s)'
         /\ DOMAIN peers'[s] = DOMAIN peers[s] \cup {n} /\ DOMAIN peers'[n] = DOMAIN peers[n]
         /\ \A a : Rewired(a, streams, streams')
<1> DEFINE stored == Stored(s, peers[s], p, now)
<1>1. p \in Published /\ p.NodeID = n /\ p.NodeID # s
  BY DEF Of, Both
<1>2. /\ DOMAIN Upsert(s, peers[s], p, now) = DOMAIN peers[s] \cup {n}
      /\ stored.NodeID = n /\ stored \in Peer
      /\ n \notin DOMAIN peers[s] => Changed(s, peers[s], p)
  BY <1>1, UpsertFresh DEF Sound
<1>3. peers'[s] = Upsert(s, peers[s], p, now) /\ peers'[n] = peers[n]
  BY DEF ServeJoin, Sound, IInv, PeersOK, Both
<1>4. TypedStreams(streams)
  BY StreamsTyped DEF Sound
<1>5. /\ SameStreams(streams, streams') /\ \A a : Rewired(a, streams, streams')
      /\ local'[n] = local[n]
      /\ \/ local'[s] = local[s] /\ n \in DOMAIN peers[s]
         \/ local'[s] = Offer(local[s], PeerAdded(stored), LocalCap)
  <2>1. CASE Changed(s, peers[s], p)
    <3>1. /\ local' = ToLocal(s, PeerAdded(stored))
          /\ streams' = ToStreams(streams, s, PeerAdded(stored))
      BY <2>1 DEF ServeJoin
    <3>2. SameStreams(streams, streams')
      BY <1>2, <3>1, BothSilent, AddedEvent
    <3>3. \A a : Rewired(a, streams, streams')
      BY <1>2, <1>4, <3>1, ToStreamsRewired, AddedEvent
    <3>4. local' = [local EXCEPT ![s] = Offer(local[s], PeerAdded(stored), LocalCap)]
      BY <3>1 DEF ToLocal
    <3> HIDE DEF stored
    <3>5. local'[n] = local[n] /\ local'[s] = Offer(local[s], PeerAdded(stored), LocalCap)
      BY <3>4 DEF Sound, IInv, LocalOK, Both
    <3> QED
      BY <3>2, <3>3, <3>5
  <2>2. CASE ~Changed(s, peers[s], p)
    <3>1. local' = local /\ streams' = streams
      BY <2>2 DEF ServeJoin
    <3> QED
      BY <1>2, <1>4, <2>2, <3>1, RewiredSame DEF SameStreams
  <2> QED
    BY <2>1, <2>2
<1>6. Follows(s, n) /\ Follows(n, s)
  BY DEF PairInv, Both
<1>7. Follows(s, n)'
  <2>1. \A id \in DOMAIN streams'[s] : Fed(streams'[s][id], n, now, beaten[n])
    BY <1>5, <1>6 DEF Follows, SameStreams
  <2>2. n \in DOMAIN streams'[s] \/ local'[s] # << >>
    <3>1. CASE local'[s] = local[s] /\ n \in DOMAIN peers[s]
      BY <1>5, <1>6, <3>1 DEF Follows, SameStreams
    <3>2. CASE local'[s] = Offer(local[s], PeerAdded(stored), LocalCap)
      <4>1. /\ local[s] \in Seq(Event) /\ Announces(local[s])
            /\ LocalCap \in Nat /\ LocalCap >= 1
        BY <1>6, PairData, FleetAssumption DEF Sound, Follows, PromptFleet, Both, Announces
      <4> QED
        BY <1>2, <3>2, <4>1, OfferAdded
    <3> QED
      BY <1>5, <3>1, <3>2
  <2> QED
    BY <1>1, <1>3, <1>5, <1>6, <2>1, <2>2, FollowsRefreshed
<1>8. Follows(n, s)'
  BY <1>3, <1>5, <1>6, FollowsKept DEF SameStreams
<1> QED
  BY <1>2, <1>3, <1>5, <1>7, <1>8

\* A node that reaches itself ignores its own record.
LEMMA ServeJoinSelf ==
  ASSUME IInv, NEW n \in NodeIDs, NEW p, p.NodeID = n, ServeJoin(n, p)
  PROVE  /\ \A k \in NodeIDs : peers'[k] = peers[k]
         /\ local' = local /\ streams' = streams
<1>1. Ignored(n, p)
  BY DEF Ignored
<1>2. peers' = [peers EXCEPT ![n] = peers[n]]
  BY <1>1 DEF ServeJoin, Upsert
<1>3. local' = local /\ streams' = streams
  BY <1>1 DEF ServeJoin, Changed
<1> QED
  BY <1>2, <1>3 DEF IInv, PeersOK

\* A process that joins or announces itself reaches the other one, or itself.
LEMMA ServedJoin ==
  ASSUME Sound, PairInv, NEW n \in NodeIDs, Up(n), boot[n].pc \in {"join", "announce"},
         NEW s \in NodeIDs, Up(s), ServeJoin(s, boot[n].self), now' = now, beaten' = beaten
  PROVE  /\ \A a : Rewired(a, streams, streams')
         /\ \A k \in NodeIDs : ~Up(k) => peers'[k] = peers[k] /\ local'[k] = local[k]
         /\ \A k \in NodeIDs : DOMAIN peers[k] \subseteq DOMAIN peers'[k]
         /\ \A k, l \in NodeIDs : Both(k, l) => Follows(k, l)'
         /\ s # n => n \in DOMAIN peers'[s] /\ DOMAIN peers'[s] \subseteq {n}
<1>1. Of(n, boot[n].self) /\ Aged(boot[n].self, now, 1) /\ boot[n].self.NodeID = n
  <2>1. boot[n].self \in Published
    BY DEF Sound, IInv, BootOK, ForeignBoot
  <2> QED
    BY <2>1 DEF PairInv, Beating, Of
<1>2. CASE s = n
  <2>1. /\ \A k \in NodeIDs : peers'[k] = peers[k]
        /\ local' = local /\ streams' = streams
    BY <1>1, <1>2, ServeJoinSelf DEF Sound
  <2>2. \A a : Rewired(a, streams, streams')
    BY <2>1, StreamsTyped, RewiredSame DEF Sound
  <2>3. \A k, l \in NodeIDs : Both(k, l) => Follows(k, l)'
    BY <2>1, FollowsKept DEF PairInv
  <2> QED
    BY <1>2, <2>1, <2>2, <2>3
<1>3. CASE s # n
  <2>0. Both(s, n)
    BY <1>3 DEF Both
  <2>1. /\ Follows(s, n)' /\ Follows(n, s)'
        /\ DOMAIN peers'[s] = DOMAIN peers[s] \cup {n} /\ DOMAIN peers'[n] = DOMAIN peers[n]
        /\ \A a : Rewired(a, streams, streams')
    BY <1>1, <2>0, ServeJoinPair
  <2>2. \A k \in NodeIDs : k = n \/ k = s
    BY <1>3, OtherIs DEF Sound
  <2>3. \A k, l \in NodeIDs : Both(k, l) => Follows(k, l)'
    BY <2>1, <2>2 DEF Both
  <2>4. DOMAIN peers[s] \subseteq {n}
    BY <1>3, PairData DEF Sound
  <2> QED
    BY <2>1, <2>2, <2>3, <2>4
<1> QED
  BY <1>2, <1>3

\* A failed bootstrap waits for its retry.
LEMMA FailBootPair ==
  ASSUME Sound, PairInv, NEW n \in NodeIDs, Up(n), FailBoot(n),
         now' = now, self' = self, beaten' = beaten
  PROVE  /\ SamePhases /\ \A k \in NodeIDs : Beating(k)'
         /\ \A k \in NodeIDs \ {n} : boot'[k] = boot[k]
         /\ boot'[n].pc = "retry"
<1>1. /\ \A k \in NodeIDs \ {n} : boot'[k] = boot[k] /\ phase'[k] = phase[k]
      /\ boot'[n].pc = "retry" /\ boot'[n].todo = {} /\ boot'[n].roster = {}
      /\ phase'[n] = "run"
  BY DEF FailBoot, NoBoot, Sound, IInv, EnvOK, BootOK
<1>2. SamePhases
  BY <1>1 DEF SamePhases, Up
<1>3. \A k \in NodeIDs \ {n} : Beating(k)'
  BY <1>1, <1>2, BeatingKept DEF PairInv, SamePhases
<1>4. Beating(n)'
  BY <1>1 DEF PairInv, Beating
<1> QED
  BY <1>1, <1>2, <1>3, <1>4

\* bootstrap goes on.
LEMMA ProceedPair ==
  ASSUME Sound, PairInv, NEW n \in NodeIDs, Up(n), NEW p,
         boot[n].pc \in {"apply", "announce"}, Proceed(n, boot[n].pc, boot[n].todo \ {p}),
         now' = now, self' = self, beaten' = beaten
  PROVE  /\ SamePhases /\ \A k \in NodeIDs : Beating(k)'
         /\ \A k \in NodeIDs \ {n} : boot'[k] = boot[k]
         /\ boot'[n].pc \in {"apply", "announce", "idle"}
<1>0. boot \in [NodeIDs -> Boot] /\ phase \in [NodeIDs -> {"off", "boot", "run", "dead"}]
  BY DEF Sound, IInv, BootOK, EnvOK
<1>1. \A k \in NodeIDs \ {n} : boot'[k] = boot[k] /\ phase'[k] = phase[k]
  BY <1>0 DEF Proceed
<1>2. Up(n)' /\ SamePhases
  BY <1>0, <1>1 DEF Proceed, SamePhases, Up
<1>3. \A k \in NodeIDs \ {n} : Beating(k)'
  BY <1>1, <1>2, BeatingKept DEF PairInv, SamePhases
<1>4. \/ boot'[n] = NoBoot
      \/ /\ boot'[n].pc \in {"apply", "announce"} /\ boot'[n].self = boot[n].self
         /\ boot'[n].todo \subseteq boot[n].todo \cup boot[n].roster
         /\ boot'[n].roster = boot[n].roster
  BY <1>0 DEF Proceed, Boot, Announcees
<1>5. /\ boot[n].self.NodeID = n /\ Aged(boot[n].self, now, 1)
      /\ \A q \in boot[n].todo \cup boot[n].roster : Aged(q, now, 1)
      /\ beaten[n] <= now /\ Aged(self[n], now, 1)
      /\ beaten[n] = now => Aged(self[n], now, 0)
  BY DEF PairInv, Beating
<1>6. Beating(n)' /\ boot'[n].pc \in {"apply", "announce", "idle"}
  <2>1. CASE boot'[n] = NoBoot
    BY <1>5, <2>1 DEF Beating, NoBoot
  <2>2. CASE boot'[n] # NoBoot
    BY <1>4, <1>5, <2>2 DEF Beating
  <2> QED
    BY <2>1, <2>2
<1> QED
  BY <1>1, <1>2, <1>3, <1>6

\* The parts of the invariant make it up.
LEMMA PairParts ==
  ASSUME Quiet', Addressed', NoFalseEviction', SamePhases,
         \A k \in NodeIDs : Beating(k)',
         \A k, l \in NodeIDs : Both(k, l) => Follows(k, l)',
         \A k, l \in NodeIDs : k # l /\ Up(k) => Joined(k, l)'
  PROVE  PairInv'
BY DEF PairInv, SamePhases, Both

\* The process that answers on the bootstrap address is the other one.
LEMMA BootstrapIsOther ==
  ASSUME IInv, NEW n \in NodeIDs, NEW s \in At(BootstrapURL[n])
  PROVE  s \in NodeIDs /\ s # n /\ Up(s) /\ Host[s] = BootstrapURL[n]
BY FleetAssumption DEF At

\* The join is answered: each side has the other's record, the one that joins as
\* a roster to apply.
LEMMA JoinServedPair ==
  ASSUME Sound, PairInv, NEW n \in NodeIDs, JoinServed(n)
  PROVE  PairInv'
<1>1. PICK s \in At(BootstrapURL[n]) :
        /\ ServeJoin(s, boot[n].self)
        /\ LET others == {p \in Roster(self[s], peers'[s]) : p.NodeID # n} IN
             boot' = [boot EXCEPT ![n].pc = "apply", ![n].todo = others,
                                  ![n].roster = others]
  BY DEF JoinServed
<1>2. s \in NodeIDs /\ s # n /\ Up(s) /\ Host[s] = BootstrapURL[n]
  BY <1>1, BootstrapIsOther DEF Sound
<1>3. /\ Up(n) /\ boot[n].pc = "join"
      /\ UNCHANGED <<now, faults, phase, self, beaten, evicting, heard>>
  BY DEF JoinServed
<1>4. SamePhases
  BY <1>3 DEF SamePhases, Up
<1>5. /\ \A a : Rewired(a, streams, streams')
      /\ \A k \in NodeIDs : ~Up(k) => peers'[k] = peers[k] /\ local'[k] = local[k]
      /\ \A k \in NodeIDs : DOMAIN peers[k] \subseteq DOMAIN peers'[k]
      /\ \A k, l \in NodeIDs : Both(k, l) => Follows(k, l)'
      /\ n \in DOMAIN peers'[s] /\ DOMAIN peers'[s] \subseteq {n}
  BY <1>1, <1>2, <1>3, ServedJoin
<1>6. /\ \A k \in NodeIDs \ {n} : boot'[k] = boot[k]
      /\ boot'[n].pc = "apply" /\ boot'[n].self = boot[n].self
      /\ boot'[n].todo = {self[s]} /\ boot'[n].roster = {self[s]}
  <2>1. /\ self[s].NodeID = s
        /\ \A id \in DOMAIN peers'[s] : peers'[s][id].NodeID = n
    BY <1>2, <1>5 DEF Sound, IInv, SelfOK, PeersOK, ForeignPeers, PeerMap
  <2>2. {p \in Roster(self[s], peers'[s]) : p.NodeID # n} = {self[s]}
    BY <1>2, <2>1 DEF Roster, Peers
  <2>3. boot' = [boot EXCEPT ![n].pc = "apply", ![n].todo = {self[s]}, ![n].roster = {self[s]}]
    BY <1>1, <2>2
  <2>4. boot \in [NodeIDs -> Boot] /\ boot[n] \in Boot
    BY DEF Sound, IInv, BootOK
  <2> QED
    BY <2>3, <2>4 DEF Boot
<1>7. Quiet' /\ Addressed' /\ NoFalseEviction'
  BY <1>3, <1>4, <1>5, <1>6, FrameKept DEF Sound
<1>8. \A k \in NodeIDs : Beating(k)'
  <2>1. \A k \in NodeIDs \ {n} : Beating(k)'
    BY <1>3, <1>4, <1>6, BeatingKept DEF PairInv, SamePhases
  <2>2. Aged(self[s], now, 1) /\ Beating(n)
    BY <1>2 DEF PairInv, Beating
  <2>3. Beating(n)'
    BY <1>3, <1>6, <2>2 DEF Beating
  <2> QED
    BY <2>1, <2>3
<1>9. ASSUME NEW k \in NodeIDs, NEW l \in NodeIDs, k # l, Up(k) PROVE Joined(k, l)'
  <2>1. CASE k = n
    <3>1. l = s
      BY <1>2, <1>9, <2>1, OtherIs DEF Sound
    <3>2. self[s].NodeID = s /\ phase'[s] # "off"
      BY <1>2, <1>3 DEF Sound, IInv, SelfOK, Up
    <3> QED
      BY <1>5, <1>6, <2>1, <3>1, <3>2 DEF Joined
  <2>2. CASE k # n
    BY <1>4, <1>5, <1>6, <1>9, <2>2, JoinedKept DEF PairInv
  <2> QED
    BY <2>1, <2>2
<1> QED
  BY <1>4, <1>5, <1>7, <1>8, <1>9, PairParts

\* A join that is to be retried says nothing about the other process's registry.
LEMMA NotJoined ==
  ASSUME NEW n, NEW m, boot'[n].pc \notin {"apply", "announce", "idle"}
  PROVE  Joined(n, m)'
BY DEF Joined

\* The join was taken in and its answer lost: the server knows the joining node,
\* which will retry.
LEMMA JoinLostPair ==
  ASSUME Sound, PairInv, NEW n \in NodeIDs, JoinLost(n)
  PROVE  PairInv'
<1>1. PICK s \in At(BootstrapURL[n]) : ServeJoin(s, boot[n].self)
  BY DEF JoinLost
<1>2. s \in NodeIDs /\ s # n /\ Up(s)
  BY <1>1, BootstrapIsOther DEF Sound
<1>3. /\ Up(n) /\ boot[n].pc = "join" /\ FailBoot(n)
      /\ UNCHANGED <<now, self, beaten, evicting, heard>>
  BY DEF JoinLost
<1>4. /\ SamePhases /\ \A k \in NodeIDs : Beating(k)'
      /\ \A k \in NodeIDs \ {n} : boot'[k] = boot[k]
      /\ boot'[n].pc = "retry"
  BY <1>3, FailBootPair
<1>5. /\ \A a : Rewired(a, streams, streams')
      /\ \A k \in NodeIDs : ~Up(k) => peers'[k] = peers[k] /\ local'[k] = local[k]
      /\ \A k \in NodeIDs : DOMAIN peers[k] \subseteq DOMAIN peers'[k]
      /\ \A k, l \in NodeIDs : Both(k, l) => Follows(k, l)'
  BY <1>1, <1>2, <1>3, ServedJoin
<1>6. Quiet' /\ Addressed' /\ NoFalseEviction'
  BY <1>3, <1>4, <1>5, FrameKept DEF Sound
<1>7. ASSUME NEW k \in NodeIDs, NEW l \in NodeIDs, k # l, Up(k) PROVE Joined(k, l)'
  <2>1. CASE k = n
    BY <1>4, <2>1, NotJoined
  <2>2. CASE k # n
    BY <1>4, <1>5, <1>7, <2>2, JoinedKept DEF PairInv
  <2> QED
    BY <2>1, <2>2
<1> QED
  BY <1>4, <1>5, <1>6, <1>7, PairParts

\* Nobody answered the join.
LEMMA JoinRefusedPair ==
  ASSUME Sound, PairInv, NEW n \in NodeIDs, JoinRefused(n)
  PROVE  PairInv'
<1>1. /\ Up(n) /\ boot[n].pc = "join" /\ FailBoot(n)
      /\ UNCHANGED <<now, faults, self, peers, beaten, evicting, local, streams, heard>>
  BY DEF JoinRefused
<1>2. /\ SamePhases /\ \A k \in NodeIDs : Beating(k)'
      /\ \A k \in NodeIDs \ {n} : boot'[k] = boot[k]
      /\ boot'[n].pc = "retry"
  BY <1>1, FailBootPair
<1>3. Rewired(n, streams, streams')
  BY <1>1, StreamsTyped, RewiredSame DEF Sound
<1>4. Quiet' /\ Addressed' /\ NoFalseEviction'
  BY <1>1, <1>2, <1>3, FrameKept DEF Sound
<1>5. \A k, l \in NodeIDs : Both(k, l) => Follows(k, l)'
  BY <1>1, FollowsKept DEF PairInv
<1>6. ASSUME NEW k \in NodeIDs, NEW l \in NodeIDs, k # l, Up(k) PROVE Joined(k, l)'
  <2>1. CASE k = n
    BY <1>2, <2>1, NotJoined
  <2>2. CASE k # n
    BY <1>1, <1>2, <1>6, <2>2, JoinedKept DEF PairInv
  <2> QED
    BY <2>1, <2>2
<1> QED
  BY <1>2, <1>4, <1>5, <1>6, PairParts

\* The retried join carries the record of the last beat.
LEMMA RetryBootstrapPair ==
  ASSUME Sound, PairInv, NEW n \in NodeIDs, RetryBootstrap(n)
  PROVE  PairInv'
<1>1. /\ Up(n) /\ boot[n].pc = "retry"
      /\ boot' = [boot EXCEPT ![n].pc = "join", ![n].self = self[n]]
      /\ UNCHANGED <<now, faults, phase, self, peers, beaten, evicting, local, streams, heard>>
  BY DEF RetryBootstrap
<1>2. SamePhases
  BY <1>1 DEF SamePhases, Up
<1>3. /\ \A k \in NodeIDs \ {n} : boot'[k] = boot[k]
      /\ boot'[n].pc = "join" /\ boot'[n].self = self[n]
      /\ boot'[n].todo = boot[n].todo /\ boot'[n].roster = boot[n].roster
  BY <1>1 DEF Sound, IInv, BootOK, Boot
<1>4. Rewired(n, streams, streams')
  BY <1>1, StreamsTyped, RewiredSame DEF Sound
<1>5. Quiet' /\ Addressed' /\ NoFalseEviction'
  BY <1>1, <1>2, <1>3, <1>4, FrameKept DEF Sound
<1>6. \A k, l \in NodeIDs : Both(k, l) => Follows(k, l)'
  BY <1>1, FollowsKept DEF PairInv
<1>7. \A k \in NodeIDs : Beating(k)'
  <2>1. \A k \in NodeIDs \ {n} : Beating(k)'
    BY <1>1, <1>2, <1>3, BeatingKept DEF PairInv, SamePhases
  <2>2. self[n].NodeID = n
    BY DEF Sound, IInv, SelfOK
  <2>3. Beating(n)'
    BY <1>1, <1>3, <2>2 DEF PairInv, Beating
  <2> QED
    BY <2>1, <2>3
<1>8. ASSUME NEW k \in NodeIDs, NEW l \in NodeIDs, k # l, Up(k) PROVE Joined(k, l)'
  <2>1. CASE k = n
    BY <1>3, <2>1, NotJoined
  <2>2. CASE k # n
    BY <1>1, <1>2, <1>3, <1>8, <2>2, JoinedKept DEF PairInv
  <2> QED
    BY <2>1, <2>2
<1> QED
  BY <1>2, <1>5, <1>6, <1>7, <1>8, PairParts

\* n takes in a record p of m: Upsert, the broadcast when something changed, and
\* ensureStream, on the streams ss.
Takes(n, m, p, ss, anc) ==
  LET added == PeerAdded(Stored(n, peers[n], p, now)) IN
  /\ peers' = [peers EXCEPT ![n] = Upsert(n, @, p, now)]
  /\ \/ /\ local' = ToLocal(n, added)
        /\ streams' = ensureStream(ToStreams(ss, n, added), n, m, anc)
     \/ /\ UNCHANGED local
        /\ streams' = ensureStream(ss, n, m, anc)

\* Whether m runs or not, n knows m afterwards and nobody else is affected.
LEMMA TakesRewired ==
  ASSUME Sound, NEW n \in NodeIDs, NEW m \in NodeIDs, n # m, NEW p, Of(m, p),
         NEW ss, TypedStreams(ss), NEW anc \in SUBSET NodeIDs, Takes(n, m, p, ss, anc)
  PROVE  /\ Rewired(n, ss, streams')
         /\ peers'[n] = Upsert(n, peers[n], p, now)
         /\ DOMAIN peers'[n] = DOMAIN peers[n] \cup {m}
         /\ \A k \in NodeIDs \ {n} : peers'[k] = peers[k] /\ local'[k] = local[k]
         /\ \/ local'[n] = local[n]
            \/ local'[n] = Offer(local[n], PeerAdded(Stored(n, peers[n], p, now)), LocalCap)
<1> DEFINE added == PeerAdded(Stored(n, peers[n], p, now))
<1>1. p \in Published /\ p.NodeID = m
  BY DEF Of
<1>2. phase[m] # "off"
  BY <1>1, PublishedFacts DEF Sound
<1>3. Stored(n, peers[n], p, now) \in Peer /\ added \in Event
  BY <1>1, UpsertFresh, AddedEvent DEF Sound
<1>4. Rewired(n, ss, streams')
  <2>0. Rewired(n, ss, ToStreams(ss, n, added))
    BY <1>3, ToStreamsRewired
  <2>1. TypedStreams(ToStreams(ss, n, added))
    BY <2>0 DEF Rewired
  <2>2. Rewired(n, ToStreams(ss, n, added), ensureStream(ToStreams(ss, n, added), n, m, anc))
    BY <1>2, <2>1, ensureStreamRewired
  <2>3. Rewired(n, ss, ensureStream(ss, n, m, anc))
    BY <1>2, ensureStreamRewired
  <2> QED
    BY <2>0, <2>2, <2>3, RewiredTrans DEF Takes
<1>5. /\ peers'[n] = Upsert(n, peers[n], p, now)
      /\ \A k \in NodeIDs \ {n} : peers'[k] = peers[k]
  BY DEF Takes, Sound, IInv, PeersOK
<1>6. DOMAIN peers'[n] = DOMAIN peers[n] \cup {m}
  BY <1>1, <1>5, UpsertFresh DEF Sound
<1>7. /\ \A k \in NodeIDs \ {n} : local'[k] = local[k]
      /\ local'[n] = local[n] \/ local'[n] = Offer(local[n], added, LocalCap)
  <2>1. local' = local \/ local' = [local EXCEPT ![n] = Offer(local[n], added, LocalCap)]
    BY DEF Takes, ToLocal
  <2> HIDE DEF added
  <2> QED
    BY <2>1 DEF Sound, IInv, LocalOK
<1> QED
  BY <1>4, <1>5, <1>6, <1>7

\* When m runs and the record is recent, n follows m and m is not disturbed.
LEMMA TakesFollows ==
  ASSUME Sound, PairInv, NEW n \in NodeIDs, NEW m \in NodeIDs, Both(n, m),
         NEW p, Of(m, p), Aged(p, now, 1), now' = now, beaten' = beaten,
         NEW ss, TypedStreams(ss), NEW anc \in SUBSET NodeIDs, Takes(n, m, p, ss, anc),
         DOMAIN ss[n] \subseteq {m},
         \A id \in DOMAIN ss[n] : Fed(ss[n][id], m, now, beaten[m]),
         DOMAIN ss[m] = DOMAIN streams[m],
         \A id \in DOMAIN streams[m] : ss[m][id] = streams[m][id]
  PROVE  Follows(n, m)' /\ Follows(m, n)'
<1> DEFINE stored == Stored(n, peers[n], p, now)
<1>0. n # m /\ n # 0
  BY DataAssumption DEF Both
<1>1. /\ peers'[n] = Upsert(n, peers[n], p, now)
      /\ peers'[m] = peers[m] /\ local'[m] = local[m]
      /\ \/ local'[n] = local[n]
         \/ local'[n] = Offer(local[n], PeerAdded(stored), LocalCap)
  BY <1>0, TakesRewired
<1>2. stored.NodeID = m /\ stored \in Peer /\ phase[m] # "off"
  BY <1>0, UpsertFresh, PublishedFacts DEF Sound, Of
<1>3. PICK tt : /\ streams' = ensureStream(tt, n, m, anc)
                /\ SameStreams(ss, tt) /\ TypedStreams(tt)
  <2>1. CASE streams' = ensureStream(ss, n, m, anc)
    BY <2>1 DEF SameStreams
  <2>2. CASE streams' = ensureStream(ToStreams(ss, n, PeerAdded(stored)), n, m, anc)
    <3>1. PeerAdded(stored) \in Event /\ PeerAdded(stored).Peer = stored
      BY <1>2, AddedEvent
    <3>2. \A id \in DOMAIN ss[n] : ss[n][id].to # n
      BY <1>0 DEF Fed
    <3>3. SameStreams(ss, ToStreams(ss, n, PeerAdded(stored)))
      BY <1>0, <1>2, <3>1, <3>2, BroadcastSilent DEF Sound
    <3>4. TypedStreams(ToStreams(ss, n, PeerAdded(stored)))
      BY <3>1, ToStreamsRewired DEF Rewired
    <3> QED
      BY <2>2, <3>3, <3>4
  <2> QED
    BY <2>1, <2>2 DEF Takes
<1>4. /\ streams'[m] = tt[m]
      /\ DOMAIN streams'[n] = DOMAIN tt[n] \cup {m}
      /\ \A i \in DOMAIN tt[n] : streams'[n][i] = tt[n][i]
      /\ m \notin DOMAIN tt[n] => streams'[n][m] = Dialing(anc)
  BY <1>0, <1>2, <1>3, ensureStreamRewired
<1>5. \A id \in DOMAIN streams'[n] : Fed(streams'[n][id], m, now, beaten[m])
  <2>1. Fed(Dialing(anc), m, now, beaten[m])
    BY DialingTyped DEF Fed
  <2>2. DOMAIN tt[n] = DOMAIN ss[n] /\ \A id \in DOMAIN ss[n] : tt[n][id] = ss[n][id]
    BY <1>3 DEF SameStreams
  <2> QED
    BY <1>4, <2>1, <2>2
<1>6. Follows(n, m) /\ Follows(m, n)
  BY DEF PairInv, Both
<1>7. Follows(n, m)'
  BY <1>0, <1>1, <1>4, <1>5, <1>6, FollowsRefreshed
<1>8. Follows(m, n)'
  BY <1>1, <1>3, <1>4, <1>6, FollowsKept DEF SameStreams
<1> QED
  BY <1>7, <1>8

\* bootstrap takes in the roster: the joining node follows its bootstrap node.
LEMMA ApplyRosterPair ==
  ASSUME Sound, PairInv, NEW n \in NodeIDs, ApplyRoster(n)
  PROVE  PairInv'
<1>1. PICK p \in boot[n].todo :
        LET stored == Stored(n, peers[n], p, now) IN
        /\ peers' = [peers EXCEPT ![n] = Upsert(n, @, p, now)]
        /\ IF Changed(n, peers[n], p)
           THEN /\ local' = ToLocal(n, PeerAdded(stored))
                /\ streams' = ensureStream(ToStreams(streams, n, PeerAdded(stored)),
                                           n, stored.NodeID, {})
           ELSE /\ UNCHANGED local
                /\ streams' = ensureStream(streams, n, stored.NodeID, {})
        /\ Proceed(n, "apply", boot[n].todo \ {p})
  BY DEF ApplyRoster
<1>2. /\ Up(n) /\ boot[n].pc = "apply"
      /\ UNCHANGED <<now, faults, self, beaten, evicting, heard>>
  BY DEF ApplyRoster
<1> DEFINE m == p.NodeID
<1>3. p \in Published /\ m \in NodeIDs /\ n # m /\ Of(m, p) /\ Aged(p, now, 1)
  <2>1. p \in Published /\ p.NodeID # n
    BY DEF Sound, IInv, BootOK, ForeignBoot, Foreign
  <2> QED
    BY <1>2, <2>1, PublishedFacts DEF Sound, Of, PairInv, Beating
<1>4. Takes(n, m, p, streams, {})
  <2>1. Stored(n, peers[n], p, now).NodeID = m
    BY <1>3, UpsertFresh DEF Sound
  <2> QED
    BY <1>1, <2>1 DEF Takes
<1> HIDE DEF m
<1>5. TypedStreams(streams) /\ DOMAIN streams[n] \subseteq {m}
  BY <1>3, StreamsTyped, PairData DEF Sound
<1>6. /\ Rewired(n, streams, streams')
      /\ DOMAIN peers'[n] = DOMAIN peers[n] \cup {m}
      /\ \A k \in NodeIDs \ {n} : peers'[k] = peers[k] /\ local'[k] = local[k]
  BY <1>3, <1>4, <1>5, TakesRewired
<1>7. /\ SamePhases /\ \A k \in NodeIDs : Beating(k)'
      /\ \A k \in NodeIDs \ {n} : boot'[k] = boot[k]
  <2>1. Proceed(n, "apply", boot[n].todo \ {p})
    BY <1>1
  <2> QED
    BY <1>2, <2>1, ProceedPair
<1>8. Quiet' /\ Addressed' /\ NoFalseEviction'
  BY <1>2, <1>6, <1>7, FrameKept DEF Sound
<1>9. \A k \in NodeIDs : k = n \/ k = m
  BY <1>3, OtherIs DEF Sound
<1>10. \A k, l \in NodeIDs : Both(k, l) => Follows(k, l)'
  <2>1. ASSUME Both(n, m) PROVE Follows(n, m)' /\ Follows(m, n)'
    <3>1. \A id \in DOMAIN streams[n] : Fed(streams[n][id], m, now, beaten[m])
      BY <1>3, <2>1 DEF PairInv, Follows
    <3> QED
      BY <1>2, <1>3, <1>4, <1>5, <2>1, <3>1, TakesFollows
  <2> QED
    BY <1>3, <1>9, <2>1 DEF Both
<1>11. ASSUME NEW k \in NodeIDs, NEW l \in NodeIDs, k # l, Up(k) PROVE Joined(k, l)'
  <2>1. CASE k = n
    <3>1. l = m /\ Joined(n, m)
      BY <1>3, <1>9, <1>11, <2>1 DEF PairInv
    <3> QED
      BY <1>2, <1>3, <1>6, <1>7, <2>1, <3>1 DEF Joined, SamePhases
  <2>2. CASE k # n
    BY <1>6, <1>7, <1>9, <1>11, <2>2, JoinedKept DEF PairInv
  <2> QED
    BY <2>1, <2>2
<1> QED
  BY <1>7, <1>8, <1>10, <1>11, PairParts

\* bootstrap announces itself to a process it already knows, or to itself.
LEMMA AnnouncePair ==
  ASSUME Sound, PairInv, NEW n \in NodeIDs, Announce(n)
  PROVE  PairInv'
<1>1. PICK p \in boot[n].todo :
        /\ Proceed(n, "announce", boot[n].todo \ {p})
        /\ \/ \E s \in At(p.AdvertiseURL) : ServeJoin(s, boot[n].self)
           \/ UNCHANGED <<peers, local, streams>>
  BY DEF Announce
<1>2. /\ Up(n) /\ boot[n].pc = "announce"
      /\ UNCHANGED <<now, self, beaten, evicting, heard>>
  BY DEF Announce
<1>3. /\ SamePhases /\ \A k \in NodeIDs : Beating(k)'
      /\ \A k \in NodeIDs \ {n} : boot'[k] = boot[k]
      /\ boot'[n].pc \in {"apply", "announce", "idle"}
  BY <1>1, <1>2, ProceedPair
<1>4. /\ Rewired(n, streams, streams')
      /\ \A k \in NodeIDs : ~Up(k) => peers'[k] = peers[k] /\ local'[k] = local[k]
      /\ \A k \in NodeIDs : DOMAIN peers[k] \subseteq DOMAIN peers'[k]
      /\ \A k, l \in NodeIDs : Both(k, l) => Follows(k, l)'
  <2>1. CASE \E s \in At(p.AdvertiseURL) : ServeJoin(s, boot[n].self)
    <3>1. PICK s \in At(p.AdvertiseURL) : ServeJoin(s, boot[n].self)
      BY <2>1
    <3>2. s \in NodeIDs /\ Up(s)
      BY <3>1 DEF At
    <3> QED
      BY <1>2, <3>1, <3>2, ServedJoin
  <2>2. CASE UNCHANGED <<peers, local, streams>>
    <3>1. Rewired(n, streams, streams')
      BY <2>2, StreamsTyped, RewiredSame DEF Sound
    <3>2. \A k, l \in NodeIDs : Both(k, l) => Follows(k, l)'
      BY <1>2, <2>2, FollowsKept DEF PairInv
    <3> QED
      BY <2>2, <3>1, <3>2
  <2> QED
    BY <1>1, <2>1, <2>2
<1>5. Quiet' /\ Addressed' /\ NoFalseEviction'
  BY <1>2, <1>3, <1>4, FrameKept DEF Sound
<1>6. ASSUME NEW k \in NodeIDs, NEW l \in NodeIDs, k # l, Up(k) PROVE Joined(k, l)'
  <2>1. CASE k = n
    <3>1. Joined(n, l)
      BY <1>6, <2>1 DEF PairInv
    <3> QED
      BY <1>2, <1>3, <1>4, <2>1, <3>1 DEF Joined, SamePhases
  <2>2. CASE k # n
    BY <1>3, <1>4, <1>6, <2>2, JoinedKept DEF PairInv
  <2> QED
    BY <2>1, <2>2
<1> QED
  BY <1>3, <1>4, <1>5, <1>6, PairParts

-----------------------------------------------------------------------------
(***************************************************************************)
(* The streams.                                                            *)
(***************************************************************************)

\* A step that only replaces n's stream to m by one that is not drained.
LEMMA SetStreamPair ==
  ASSUME Sound, PairInv, NEW n \in NodeIDs, NEW m \in NodeIDs, Up(n), m \in DOMAIN streams[n],
         NEW s \in Stream, s.to \in {0, streams[n][m].to} \/ Host[s.to] = Host[m],
         Both(n, m) => Fed(s, m, now, beaten[m]) /\ ~Drained(s),
         streams' = [streams EXCEPT ![n][m] = s],
         UNCHANGED <<now, phase, self, peers, beaten, boot, evicting, local>>
  PROVE  PairInv'
<1>1. SamePhases
  BY DEF SamePhases, Up
<1>2. TypedStreams(streams) /\ Rewired(n, streams, streams')
  BY StreamsTyped, SetStreamRewired DEF Sound
<1>3. Quiet' /\ Addressed' /\ NoFalseEviction'
  BY <1>1, <1>2, FrameKept DEF Sound
<1>4. \A k \in NodeIDs : Beating(k)'
  BY <1>1, BeatingKept DEF PairInv, SamePhases
<1>5. n # m
  BY DEF Sound, IInv, ForeignStreams
<1>6. /\ \A k \in NodeIDs : DOMAIN streams'[k] = DOMAIN streams[k]
      /\ \A k \in NodeIDs : \A j \in DOMAIN streams[k] :
           streams'[k][j] = IF k = n /\ j = m THEN s ELSE streams[k][j]
  <2>1. \A k \in NodeIDs : DOMAIN [streams EXCEPT ![n][m] = s][k] = DOMAIN streams[k]
    BY <1>2 DEF TypedStreams
  <2>2. \A k \in NodeIDs : \A j \in DOMAIN streams[k] :
          [streams EXCEPT ![n][m] = s][k][j] = IF k = n /\ j = m THEN s ELSE streams[k][j]
    BY <1>2 DEF TypedStreams
  <2> QED
    BY <2>1, <2>2
<1>7. ASSUME NEW k \in NodeIDs, NEW l \in NodeIDs, Both(k, l) PROVE Follows(k, l)'
  <2>1. Follows(k, l)
    BY <1>7 DEF PairInv
  <2>2. CASE k = n
    <3>1. l = m /\ DOMAIN streams[n] \subseteq {m} /\ DOMAIN peers[n] \subseteq {m}
      BY <1>5, <1>7, <2>2, OtherIs, PairData DEF Sound, Both
    <3>2. streams'[n][m] = s /\ Fed(s, m, now, beaten[m]) /\ ~Drained(s)
      BY <1>6, <1>7, <2>2, <3>1
    <3>3. \A id \in DOMAIN streams'[n] : Fed(streams'[n][id], m, now, beaten[m])
      BY <1>6, <3>1, <3>2
    <3>4. \A id \in DOMAIN peers[n] : /\ Aged(peers[n][id], now, 2)
                                      /\ id \in DOMAIN streams'[n] \/ local[n] # << >>
                                      /\ ~Drained(streams'[n][id])
      BY <1>6, <2>1, <2>2, <3>1, <3>2 DEF Follows
    <3> QED
      BY <2>1, <2>2, <3>1, <3>3, <3>4 DEF Follows
  <2>3. CASE k # n
    BY <1>6, <2>1, <2>3, FollowsKept
  <2> QED
    BY <2>2, <2>3
<1>8. \A k, l \in NodeIDs : k # l /\ Up(k) => Joined(k, l)'
  BY <1>1, JoinedKept DEF PairInv
<1> QED
  BY <1>1, <1>3, <1>4, <1>7, <1>8, PairParts

\* The stream opens on the other process, whose own record is all it replays.
LEMMA ConnectPair ==
  ASSUME Sound, PairInv, NEW n \in NodeIDs, NEW m \in NodeIDs, Connect(n, m)
  PROVE  PairInv'
<1>1. PICK s \in At(Host[m]) :
        streams' = [streams EXCEPT
          ![n][m].st = "open", ![n][m].to = s,
          ![n][m].replay = {p \in Roster(self[s], peers[s]) : ~About(n, p)}]
  BY DEF Connect
<1>2. /\ Up(n) /\ m \in DOMAIN streams[n] /\ streams[n][m].st = "dial"
      /\ UNCHANGED <<now, phase, self, peers, beaten, boot, evicting, local>>
  BY DEF Connect
<1>3. s \in NodeIDs /\ Up(s) /\ Host[s] = Host[m]
  BY <1>1 DEF At
<1>4. n # m
  BY <1>2 DEF Sound, IInv, ForeignStreams
<1> DEFINE old == streams[n][m]
           ps == {p \in Roster(self[s], peers[s]) : ~About(n, p)}
           new == [old EXCEPT !.st = "open", !.to = s, !.replay = ps]
<1>5. old \in Stream
  BY <1>2, <1>4, PairStream DEF Sound
<1>6. streams' = [streams EXCEPT ![n][m] = new]
  <2>1. DOMAIN streams = NodeIDs
    BY DEF Sound, IInv, ForeignStreams
  <2> QED
    BY <1>1, <1>2, <2>1
<1>7. \A p \in ps : p \in Peer
  BY <1>3 DEF Sound, IInv, EnvOK, PeersOK, ForeignPeers, PeerMap, Roster, Peers
<1>8. Both(n, m) => s = m /\ ps = {self[m]}
  <2> SUFFICES ASSUME Both(n, m) PROVE s = m /\ ps = {self[m]}
    OBVIOUS
  <2>1. s = m
    BY <1>3 DEF PairInv, Addressed, Both
  <2>2. \A id \in DOMAIN peers[m] : peers[m][id].NodeID = n
    BY <1>4, PairData DEF Sound, Of
  <2>3. self[m].NodeID = m
    BY DEF Sound, IInv, SelfOK
  <2> QED
    BY <1>4, <2>1, <2>2, <2>3 DEF Roster, Peers, About
<1> HIDE DEF ps
<1>9. /\ new \in Stream /\ new.st = "open" /\ new.to = s /\ new.replay = ps /\ new.q = old.q
  BY <1>3, <1>5, <1>7 DEF Stream
<1> HIDE DEF new
<1>10. Both(n, m) => Fed(new, m, now, beaten[m]) /\ ~Drained(new)
  <2> SUFFICES ASSUME Both(n, m) PROVE Fed(new, m, now, beaten[m]) /\ ~Drained(new)
    OBVIOUS
  <2>1. Fed(old, m, now, beaten[m]) /\ old.q = << >>
    BY <1>2 DEF PairInv, Follows, Fed
  <2>2. Aged(self[m], now, 1)
    BY DEF PairInv, Beating, Both
  <2> QED
    BY <1>8, <1>9, <2>1, <2>2 DEF Fed, Drained
<1> QED
  BY <1>2, <1>3, <1>6, <1>9, <1>10, SetStreamPair

\* A broken connection is dialled again, and nothing has been read from it yet.
LEMMA BreakPair ==
  ASSUME Sound, PairInv, NEW n \in NodeIDs, NEW m \in NodeIDs, Break(n, m)
  PROVE  PairInv'
<1>1. /\ m \in DOMAIN streams[n] /\ streams' = [streams EXCEPT ![n][m] = Dialing(@.anc)]
      /\ UNCHANGED <<now, phase, self, peers, beaten, boot, evicting, local>>
  BY DEF Break
<1>2. Up(n) /\ n # m
  BY <1>1 DEF PairInv, Quiet, Sound, IInv, ForeignStreams
<1> DEFINE s == Dialing(streams[n][m].anc)
<1>3. streams[n][m].anc \in SUBSET NodeIDs
  BY <1>1, <1>2, PairStream DEF Sound, Stream
<1>4. s \in Stream /\ s.to = 0 /\ Fed(s, m, now, beaten[m]) /\ ~Drained(s)
  BY <1>3, DialingTyped DEF Fed, Drained
<1>5. streams' = [streams EXCEPT ![n][m] = s]
  BY <1>1 DEF Sound, IInv, ForeignStreams
<1> HIDE DEF s
<1> QED
  BY <1>1, <1>2, <1>4, <1>5, SetStreamPair

\* An event n reads about m: a removal, or a record taken in.
LEMMA handleRemoteEventCases ==
  ASSUME Sound, NEW n \in NodeIDs, NEW m \in NodeIDs, n # m, NEW ss, TypedStreams(ss),
         m \in DOMAIN ss[n], NEW e \in Event, Of(m, e.Peer), handleRemoteEvent(n, m, e, ss)
  PROVE  \E anc \in SUBSET NodeIDs :
         /\ \/ e.Type # "peer_removed" /\ Takes(n, m, e.Peer, ss, anc)
            \/ e.Type = "peer_removed"
         /\ Rewired(n, ss, streams')
         /\ \A k \in NodeIDs \ {n} : peers'[k] = peers[k] /\ local'[k] = local[k]
<1> DEFINE anc == ss[n][m].anc \cup {m}
<1>0. e.Peer.NodeID = m /\ anc \in SUBSET NodeIDs
  BY DEF Of, TypedStreams, Stream
<1>1. CASE e.Type = "peer_removed"
  <2>1. CASE m \in DOMAIN peers[n]
    <3> DEFINE gone == PeerRemoved(peers[n][m])
    <3>1. /\ peers' = [peers EXCEPT ![n] = Remove(@, m)] /\ local' = ToLocal(n, gone)
          /\ streams' = ToStreams(cancelStream(ss, n, m), n, gone)
      BY <1>0, <1>1, <2>1 DEF handleRemoteEvent
    <3>2. gone \in Event
      BY <2>1 DEF Sound, IInv, PeersOK, ForeignPeers, PeerMap, PeerRemoved, Event, EventType
    <3>3. Rewired(n, ss, cancelStream(ss, n, m))
      BY cancelStreamRewired
    <3>4. TypedStreams(cancelStream(ss, n, m))
      BY <3>3 DEF Rewired
    <3>5. Rewired(n, cancelStream(ss, n, m), streams')
      BY <3>1, <3>2, <3>4, ToStreamsRewired
    <3>6. \A k \in NodeIDs \ {n} : peers'[k] = peers[k] /\ local'[k] = local[k]
      BY <3>1 DEF ToLocal, Sound, IInv, PeersOK, LocalOK
    <3> QED
      BY <1>0, <1>1, <3>3, <3>5, <3>6, RewiredTrans
  <2>2. CASE m \notin DOMAIN peers[n]
    <3>1. streams' = ss /\ peers' = peers /\ local' = local
      BY <1>0, <1>1, <2>2 DEF handleRemoteEvent
    <3> QED
      BY <1>0, <1>1, <3>1, RewiredSame
  <2> QED
    BY <2>1, <2>2
<1>2. CASE e.Type # "peer_removed"
  <2>1. Takes(n, m, e.Peer, ss, anc)
    BY <1>0, <1>2 DEF handleRemoteEvent, Takes
  <2> HIDE DEF anc
  <2>2. /\ Rewired(n, ss, streams')
        /\ \A k \in NodeIDs \ {n} : peers'[k] = peers[k] /\ local'[k] = local[k]
    BY <1>0, <2>1, TakesRewired
  <2> QED
    BY <1>0, <1>2, <2>1, <2>2
<1> QED
  BY <1>1, <1>2

\* n reads the event e from its stream to m, of which s remains.
LEMMA ReadPair ==
  ASSUME Sound, PairInv, NEW n \in NodeIDs, NEW m \in NodeIDs, Up(n), m \in DOMAIN streams[n],
         NEW s \in Stream, s.to = streams[n][m].to, NEW e \in Event, Of(m, e.Peer),
         Both(n, m) => /\ Fed(s, m, now, beaten[m])
                       /\ e.Type # "peer_removed" /\ Aged(e.Peer, now, 1),
         handleRemoteEvent(n, m, e, [streams EXCEPT ![n][m] = s]),
         UNCHANGED <<now, phase, self, beaten, boot, evicting>>
  PROVE  PairInv'
<1> DEFINE ss == [streams EXCEPT ![n][m] = s]
<1>0. n # m /\ TypedStreams(streams)
  BY StreamsTyped DEF Sound, IInv, ForeignStreams
<1>1. SamePhases
  BY DEF SamePhases, Up
<1>2. Rewired(n, streams, ss) /\ TypedStreams(ss)
  <2>1. Rewired(n, streams, ss)
    BY <1>0, SetStreamRewired
  <2> QED
    BY <2>1 DEF Rewired
<1>3. /\ \A k \in NodeIDs : DOMAIN ss[k] = DOMAIN streams[k]
      /\ \A j \in DOMAIN streams[m] : ss[m][j] = streams[m][j]
      /\ ss[n][m] = s
  BY <1>0 DEF TypedStreams
<1> HIDE DEF ss
<1>4. PICK anc \in SUBSET NodeIDs :
        /\ \/ e.Type # "peer_removed" /\ Takes(n, m, e.Peer, ss, anc)
           \/ e.Type = "peer_removed"
        /\ Rewired(n, ss, streams')
        /\ \A k \in NodeIDs \ {n} : peers'[k] = peers[k] /\ local'[k] = local[k]
  <2>1. handleRemoteEvent(n, m, e, ss)
    BY DEF ss
  <2> QED
    BY <1>0, <1>2, <1>3, <2>1, handleRemoteEventCases
<1>5. Rewired(n, streams, streams')
  BY <1>2, <1>4, RewiredTrans
<1>6. Quiet' /\ Addressed' /\ NoFalseEviction'
  BY <1>1, <1>4, <1>5, FrameKept DEF Sound
<1>7. \A k \in NodeIDs : Beating(k)'
  BY <1>1, BeatingKept DEF PairInv, SamePhases
<1>8. \A k \in NodeIDs : k = n \/ k = m
  BY <1>0, OtherIs DEF Sound
<1>9. CASE Both(n, m)
  <2>1. Takes(n, m, e.Peer, ss, anc)
    BY <1>4, <1>9
  <2>2. DOMAIN ss[n] \subseteq {m}
    BY <1>0, <1>3, PairData DEF Sound
  <2>3. \A id \in DOMAIN ss[n] : Fed(ss[n][id], m, now, beaten[m])
    BY <1>3, <1>9, <2>2
  <2>4. Follows(n, m)' /\ Follows(m, n)'
    BY <1>2, <1>3, <1>9, <2>1, <2>2, <2>3, TakesFollows
  <2>5. \A k, l \in NodeIDs : Both(k, l) => Follows(k, l)'
    BY <1>8, <2>4 DEF Both
  <2>6. /\ DOMAIN peers'[n] = DOMAIN peers[n] \cup {m} /\ peers'[m] = peers[m]
    BY <1>0, <1>2, <1>4, <2>1, TakesRewired
  <2>7. \A k, l \in NodeIDs : k # l /\ Up(k) => Joined(k, l)'
    BY <1>1, <1>8, <2>6, JoinedKept DEF PairInv
  <2> QED
    BY <1>1, <1>6, <1>7, <2>5, <2>7, PairParts
<1>10. CASE ~Both(n, m)
  <2>1. ~Up(m)
    BY <1>0, <1>10 DEF Both
  <2>2. \A k, l \in NodeIDs : Both(k, l) => Follows(k, l)'
    BY <1>8, <2>1 DEF Both
  <2>3. \A k, l \in NodeIDs : k # l /\ Up(k) => Joined(k, l)'
    BY <1>1, <1>8, <2>1 DEF PairInv, Joined, SamePhases
  <2> QED
    BY <1>1, <1>6, <1>7, <2>2, <2>3, PairParts
<1> QED
  BY <1>9, <1>10

\* The only event of a queue is its last.
LEMMA TailOfOne ==
  ASSUME NEW q \in Seq(Event), Len(q) = 1
  PROVE  Tail(q) = << >>
<1>0. Len(<< >>) # Len(q)
  OBVIOUS
<1>1. q # << >>
  BY <1>0
<1>2. Tail(q) \in Seq(Event) /\ Len(Tail(q)) = 0
  BY <1>1, HeadTailProperties
<1>3. \A r \in Seq(Event) : r # << >> => Len(r) # 0
  BY EmptySeq
<1> QED
  BY <1>2, <1>3

\* handleRemoteEvent on what a stream replays and carries.
LEMMA DeliverPair ==
  ASSUME Sound, PairInv, NEW n \in NodeIDs, NEW m \in NodeIDs, Deliver(n, m)
  PROVE  PairInv'
<1> DEFINE s == streams[n][m]
<1>1. /\ Up(n) /\ m \in DOMAIN streams[n] /\ s.st = "open"
      /\ UNCHANGED <<now, phase, self, beaten, boot, evicting>>
  BY DEF Deliver
<1>2. n # m /\ DOMAIN streams = NodeIDs
  BY <1>1 DEF Sound, IInv, ForeignStreams
<1>3. /\ s \in Stream /\ s.q \in Seq(Event) /\ Len(s.q) \in Nat
      /\ \A p \in s.replay : Of(m, p)
      /\ \A i \in 1 .. Len(s.q) : Of(m, s.q[i].Peer)
  BY <1>1, <1>2, PairStream DEF Sound
<1>4. Both(n, m) => /\ s.to = m /\ \A p \in s.replay : Aged(p, now, 1)
                    /\ s.q # << >> => /\ beaten[m] = now /\ Len(s.q) = 1
                                      /\ s.q[1].Type = "heartbeat" /\ Aged(s.q[1].Peer, now, 1)
  BY <1>1 DEF PairInv, Follows, Fed
<1>5. ASSUME NEW p \in s.replay,
             handleRemoteEvent(n, m, PeerAdded(p), [streams EXCEPT ![n][m].replay = @ \ {p}])
      PROVE  PairInv'
  <2> DEFINE rest == [s EXCEPT !.replay = s.replay \ {p}]
  <2>1. /\ rest \in Stream /\ rest.to = s.to /\ rest.st = "open"
        /\ rest.replay = s.replay \ {p} /\ rest.q = s.q
    BY <1>1, <1>3 DEF Stream
  <2>2. /\ PeerAdded(p) \in Event /\ PeerAdded(p).Peer = p /\ PeerAdded(p).Type = "peer_added"
        /\ Of(m, p)
    BY <1>3, AddedEvent DEF Of, Published
  <2>3. [streams EXCEPT ![n][m].replay = @ \ {p}] = [streams EXCEPT ![n][m] = rest]
    BY <1>1, <1>2
  <2> HIDE DEF rest, s
  <2>4. Both(n, m) => Fed(rest, m, now, beaten[m]) /\ Aged(p, now, 1)
    BY <1>4, <1>5, <2>1 DEF Fed
  <2> QED
    BY <1>1, <1>5, <2>1, <2>2, <2>3, <2>4, ReadPair DEF s
<1>6. ASSUME s.q # << >>,
             handleRemoteEvent(n, m, Head(s.q), [streams EXCEPT ![n][m].q = Tail(@)])
      PROVE  PairInv'
  <2> DEFINE rest == [s EXCEPT !.q = Tail(s.q)]
  <2>1. /\ Tail(s.q) \in Seq(Event) /\ Len(s.q) # 0 /\ Len(Tail(s.q)) = Len(s.q) - 1
        /\ Head(s.q) = s.q[1] /\ Head(s.q) \in Event
    BY <1>3, <1>6, EmptySeq, HeadTailProperties
  <2>2. Len(s.q) = 1 => Tail(s.q) = << >>
    BY <1>3, TailOfOne
  <2>3. /\ rest \in Stream /\ rest.to = s.to /\ rest.st = "open"
        /\ rest.replay = s.replay /\ rest.q = Tail(s.q)
    BY <1>1, <1>3, <2>1, QueueTyped
  <2>4. Of(m, Head(s.q).Peer)
    BY <1>3, <2>1
  <2>5. [streams EXCEPT ![n][m].q = Tail(@)] = [streams EXCEPT ![n][m] = rest]
    BY <1>1, <1>2
  <2> HIDE DEF rest, s
  <2>6. Both(n, m) => /\ Fed(rest, m, now, beaten[m])
                      /\ Head(s.q).Type # "peer_removed" /\ Aged(Head(s.q).Peer, now, 1)
    <3> SUFFICES ASSUME Both(n, m)
                 PROVE  /\ Fed(rest, m, now, beaten[m])
                        /\ Head(s.q).Type # "peer_removed" /\ Aged(Head(s.q).Peer, now, 1)
      OBVIOUS
    <3>1. Tail(s.q) = << >> /\ Aged(Head(s.q).Peer, now, 1) /\ Head(s.q).Type = "heartbeat"
      BY <1>4, <1>6, <2>1, <2>2
    <3> QED
      BY <1>4, <1>6, <2>3, <3>1 DEF Fed
  <2> QED
    BY <1>1, <1>6, <2>1, <2>3, <2>4, <2>5, <2>6, ReadPair DEF s
<1> QED
  BY <1>5, <1>6 DEF Deliver

-----------------------------------------------------------------------------
(***************************************************************************)
(* The loops.                                                              *)
(***************************************************************************)

\* While no other process runs, all there is to keep is n's own state.
LEMMA AloneParts ==
  ASSUME Sound, PairInv, NEW n \in NodeIDs, \A m \in NodeIDs : m # n => ~Up(m), SamePhases,
         Quiet', Addressed', NoFalseEviction', \A k \in NodeIDs : Beating(k)',
         \A k \in NodeIDs : boot'[k] = boot[k]
  PROVE  PairInv'
<1>1. \A k, l \in NodeIDs : Both(k, l) => Follows(k, l)'
  BY DEF Both
<1>2. \A k, l \in NodeIDs : k # l /\ Up(k) => Joined(k, l)'
  BY DEF PairInv, Joined, SamePhases
<1> QED
  BY <1>1, <1>2, PairParts

\* While both run, it is what they hold of each other.
LEMMA BothParts ==
  ASSUME Sound, PairInv, NEW n \in NodeIDs, NEW m \in NodeIDs, Both(n, m), SamePhases,
         Quiet', Addressed', NoFalseEviction', \A k \in NodeIDs : Beating(k)',
         \A k \in NodeIDs : boot'[k] = boot[k],
         \A k \in NodeIDs : peers'[k] = peers[k],
         Follows(n, m)', Follows(m, n)'
  PROVE  PairInv'
<1>1. \A k \in NodeIDs : k = n \/ k = m
  BY OtherIs DEF Sound, Both
<1>2. \A k, l \in NodeIDs : Both(k, l) => Follows(k, l)'
  BY <1>1 DEF Both
<1>3. \A k, l \in NodeIDs : k # l /\ Up(k) => Joined(k, l)'
  BY JoinedKept DEF PairInv
<1> QED
  BY <1>2, <1>3, PairParts

\* localEventLoop opens the stream that an added peer was waiting for.
LEMMA localEventLoopPair ==
  ASSUME Sound, PairInv, NEW n \in NodeIDs, localEventLoop(n)
  PROVE  PairInv'
<1> DEFINE e == Head(local[n])
           q == local[n]
<1>1. /\ Up(n) /\ q # << >> /\ q \in Seq(Event)
      /\ UNCHANGED <<now, faults, phase, self, peers, beaten, boot, evicting, heard>>
  BY DEF localEventLoop, Up, Sound, IInv, LocalOK
<1>2. /\ Tail(q) \in Seq(Event) /\ Len(q) \in Nat /\ Len(Tail(q)) = Len(q) - 1 /\ Len(q) # 0
      /\ e = q[1]
      /\ \A i \in 1 .. Len(Tail(q)) : Tail(q)[i] = q[i + 1]
  BY <1>1, EmptySeq, HeadTailProperties
<1>3. \A i \in 1 .. Len(q) : q[i] \in Event /\ Foreign(Published, n, q[i].Peer)
  BY <1>2 DEF Sound, IInv, LocalOK, ForeignQueue
<1>4. PICK m \in NodeIDs : m = e.Peer.NodeID /\ n # m /\ phase[m] # "off"
  <2>1. Foreign(Published, n, e.Peer)
    BY <1>2, <1>3
  <2> QED
    BY <2>1, PublishedFacts DEF Sound, Foreign
<1>5. /\ local'[n] = Tail(q)
      /\ \A k \in NodeIDs \ {n} : local'[k] = local[k]
  BY DEF localEventLoop, Sound, IInv, LocalOK
<1>6. streams' = IF e.Type = "peer_removed" THEN cancelStream(streams, n, m)
                 ELSE ensureStream(streams, n, m, {})
  BY <1>4 DEF localEventLoop
<1>7. TypedStreams(streams)
  BY StreamsTyped DEF Sound
<1>0. /\ now' = now /\ beaten' = beaten
      /\ \A k \in NodeIDs : peers'[k] = peers[k] /\ boot'[k] = boot[k]
  BY <1>1
<1> HIDE DEF e, q
<1>8. Rewired(n, streams, streams')
  BY <1>4, <1>6, <1>7, cancelStreamRewired, ensureStreamRewired
<1>9. SamePhases
  BY <1>1 DEF SamePhases, Up
<1>10. Quiet' /\ Addressed' /\ NoFalseEviction'
  BY <1>1, <1>5, <1>8, <1>9, FrameKept DEF Sound
<1>11. \A k \in NodeIDs : Beating(k)'
  BY <1>1, <1>9, BeatingKept DEF PairInv, SamePhases
<1>12. CASE ~Up(m)
  <2>1. \A k \in NodeIDs : k # n => ~Up(k)
    BY <1>4, <1>12, OtherIs DEF Sound
  <2> QED
    BY <1>0, <1>9, <1>10, <1>11, <2>1, AloneParts
<1>13. CASE Up(m)
  <2>1. Both(n, m) /\ Follows(n, m) /\ Follows(m, n)
    BY <1>1, <1>4, <1>13 DEF Both, PairInv
  <2>2. \A i \in 1 .. Len(q) : q[i].Type = "peer_added"
    BY <2>1 DEF Follows, q
  <2>3. streams' = ensureStream(streams, n, m, {})
    BY <1>2, <1>6, <2>2
  <2>4. /\ \A k \in NodeIDs \ {n} : streams'[k] = streams[k]
        /\ DOMAIN streams'[n] = DOMAIN streams[n] \cup {m}
        /\ \A i \in DOMAIN streams[n] : streams'[n][i] = streams[n][i]
        /\ m \notin DOMAIN streams[n] => streams'[n][m] = Dialing({})
    BY <1>4, <1>7, <2>3, ensureStreamRewired
  <2>5. Follows(m, n)'
    BY <1>0, <1>4, <1>5, <2>1, <2>4, FollowsKept
  <2>6. DOMAIN peers[n] \subseteq {m} /\ DOMAIN streams[n] \subseteq {m}
    BY <1>4, PairData DEF Sound
  <2>7. Fed(Dialing({}), m, now, beaten[m]) /\ ~Drained(Dialing({}))
    BY DialingTyped DEF Fed, Drained
  <2>8. \A id \in DOMAIN streams'[n] : Fed(streams'[n][id], m, now, beaten[m])
    BY <2>1, <2>4, <2>6, <2>7 DEF Follows
  <2>9. \A i \in 1 .. Len(local'[n]) : local'[n][i].Type = "peer_added"
    BY <1>2, <1>5, <2>2
  <2>10. \A id \in DOMAIN peers[n] :
           /\ Aged(peers[n][id], now, 2) /\ id \in DOMAIN streams'[n]
           /\ (beaten[m] = now /\ Drained(streams'[n][id])) => Aged(peers[n][id], now, 1)
    BY <2>1, <2>4, <2>6, <2>7 DEF Follows
  <2>11. Follows(n, m)'
    BY <1>0, <1>1, <2>8, <2>9, <2>10 DEF Follows
  <2> QED
    BY <1>0, <1>4, <1>9, <1>10, <1>11, <2>1, <2>5, <2>11, BothParts
<1> QED
  BY <1>12, <1>13

\* A full interval's beat waits in a drained stream.
LEMMA HeartbeatQueued ==
  ASSUME PromptFleet, NEW s \in Stream, NEW m, NEW t, NEW b, Fed(s, m, t, b), b # t,
         s.st = "open", NEW e \in Event, e.Type = "heartbeat", Aged(e.Peer, t, 1)
  PROVE  /\ Fed([s EXCEPT !.q = Offer(@, e, StreamCap)], m, t, t)
         /\ ~Drained([s EXCEPT !.q = Offer(@, e, StreamCap)])
<1>1. s.q = << >> /\ s.to = m /\ \A p \in s.replay : Aged(p, t, 1)
  BY DEF Fed
<1>2. Offer(s.q, e, StreamCap) = << e >>
  <2>1. Len(s.q) = 0 /\ StreamCap \in Nat /\ StreamCap >= 1
    BY <1>1, FleetAssumption DEF PromptFleet
  <2> QED
    BY <1>1, <2>1 DEF Offer
<1>3. << e >> \in Seq(Event) /\ Len(<< e >>) = 1 /\ << e >>[1] = e
  OBVIOUS
<1>4. << e >> # << >>
  <2>1. Len(<< >>) # Len(<< e >>)
    OBVIOUS
  <2> QED
    BY <2>1
<1>5. [s EXCEPT !.q = Offer(@, e, StreamCap)] = [s EXCEPT !.q = << e >>]
  BY <1>2
<1> DEFINE r == [s EXCEPT !.q = << e >>]
<1>6. /\ r.to = s.to /\ r.st = s.st /\ r.replay = s.replay /\ r.q = << e >>
  BY <1>3, QueueTyped
<1> HIDE DEF r
<1>7. Fed(r, m, t, t) /\ ~Drained(r)
  BY <1>1, <1>3, <1>4, <1>6 DEF Fed, Drained
<1> QED
  BY <1>5, <1>7 DEF r

\* heartbeatLoop: the beat of this interval goes to the other process's stream.
LEMMA heartbeatLoopPair ==
  ASSUME Sound, PairInv, NEW n \in NodeIDs, heartbeatLoop(n)
  PROVE  PairInv'
<1>1. /\ Up(n) /\ beaten[n] # now
      /\ UNCHANGED <<now, faults, phase, peers, boot, evicting, local, heard>>
  BY ClockTypes DEF heartbeatLoop, Up, Sound
<1>2. /\ beaten'[n] = now /\ self'[n].LastHeartbeat = now
      /\ \A k \in NodeIDs \ {n} : beaten'[k] = beaten[k] /\ self'[k] = self[k]
  BY DEF heartbeatLoop, Sound, IInv, EnvOK, Peer
<1>3. PICK e \in Event : /\ streams' = ToStreams(streams, n, e)
                         /\ e.Type = "heartbeat" /\ e.Peer = self'[n]
                         /\ e.Peer.NodeID = n /\ Aged(e.Peer, now, 1)
  <2>1. self'[n] \in Peer /\ self'[n].NodeID = n
    BY DEF Sound, IInv, EnvOK, SelfOK
  <2>2. Heartbeat(self'[n]) \in Event
    BY <2>1 DEF Heartbeat, Event, EventType
  <2>3. Aged(self'[n], now, 1)
    BY <1>2, ClockTypes DEF Aged, Sound
  <2> QED
    BY <2>1, <2>2, <2>3 DEF heartbeatLoop, Heartbeat
<1>4. SamePhases
  BY <1>1 DEF SamePhases, Up
<1>5. TypedStreams(streams) /\ Rewired(n, streams, streams')
  BY <1>3, StreamsTyped, ToStreamsRewired DEF Sound
<1>6. Quiet' /\ Addressed' /\ NoFalseEviction'
  BY <1>1, <1>4, <1>5, FrameKept DEF Sound
<1>7. \A k \in NodeIDs : Beating(k)'
  <2>1. \A k \in NodeIDs \ {n} : Beating(k)'
    BY <1>1, <1>2, <1>4, BeatingKept DEF PairInv, SamePhases
  <2>2. Aged(self'[n], now, 0) /\ Aged(self'[n], now, 1) /\ now <= now
    BY <1>2, ClockTypes DEF Aged, Sound
  <2>3. Beating(n)'
    BY <1>1, <1>2, <2>2 DEF PairInv, Beating
  <2> QED
    BY <2>1, <2>3
<1>8. /\ now' = now
      /\ \A k \in NodeIDs : boot'[k] = boot[k] /\ peers'[k] = peers[k] /\ local'[k] = local[k]
  BY <1>1
<1>9. CASE \A m \in NodeIDs : m # n => ~Up(m)
  BY <1>4, <1>6, <1>7, <1>8, <1>9, AloneParts
<1>10. ASSUME NEW m \in NodeIDs, m # n, Up(m) PROVE PairInv'
  <2>1. Both(n, m) /\ Follows(n, m) /\ Follows(m, n) /\ n # 0
    BY <1>1, <1>10, DataAssumption DEF Both, PairInv
  <2>2. /\ \A k \in NodeIDs : DOMAIN streams'[k] = DOMAIN streams[k]
        /\ \A k \in NodeIDs : \A id \in DOMAIN streams[k] :
             streams'[k][id] = IF streams[k][id].to = n /\ ~About(k, e.Peer)
                               THEN [streams[k][id] EXCEPT !.q = Offer(@, e, StreamCap)]
                               ELSE streams[k][id]
    BY <1>3 DEF ToStreams, TypedStreams
  <2>3. \A id \in DOMAIN streams[n] : streams'[n][id] = streams[n][id]
    <3> SUFFICES ASSUME NEW id \in DOMAIN streams[n]
                 PROVE  streams'[n][id] = streams[n][id]
      OBVIOUS
    <3>1. streams[n][id].to \in {0, m}
      BY <2>1 DEF Follows, Fed
    <3> QED
      BY <1>10, <2>1, <2>2, <3>1
  <2>4. Follows(n, m)'
    BY <1>2, <1>8, <1>10, <2>1, <2>2, <2>3, FollowsKept
  <2>5. \A id \in DOMAIN streams[m] : /\ Fed(streams'[m][id], n, now, now)
                                      /\ ~Drained(streams'[m][id])
    <3> SUFFICES ASSUME NEW id \in DOMAIN streams[m]
                 PROVE  Fed(streams'[m][id], n, now, now) /\ ~Drained(streams'[m][id])
      OBVIOUS
    <3>1. streams[m][id] \in Stream /\ Fed(streams[m][id], n, now, beaten[n])
      BY <1>5, <2>1 DEF TypedStreams, Follows
    <3>2. CASE streams[m][id].st = "open"
      <4>1. streams'[m][id] = [streams[m][id] EXCEPT !.q = Offer(@, e, StreamCap)]
        BY <1>3, <1>10, <2>2, <3>1, <3>2 DEF Fed, About
      <4> QED
        BY <1>1, <1>3, <3>1, <3>2, <4>1, HeartbeatQueued DEF Sound
    <3>3. CASE streams[m][id].st # "open"
      <4>1. streams[m][id].to = 0 /\ Fed(streams[m][id], n, now, now)
        BY <3>1, <3>3 DEF Fed
      <4>2. streams'[m][id] = streams[m][id]
        BY <2>1, <2>2, <4>1
      <4> QED
        BY <3>3, <4>1, <4>2 DEF Drained
    <3> QED
      BY <3>2, <3>3
  <2>6. Follows(m, n)'
    BY <1>2, <1>8, <2>1, <2>2, <2>5 DEF Follows
  <2> QED
    BY <1>4, <1>6, <1>7, <1>8, <2>1, <2>4, <2>6, BothParts
<1> QED
  BY <1>9, <1>10

\* pruneLoop: a process that runs has beaten in one of the last two intervals,
\* so whom PruneStale takes out does not.
LEMMA PruneTickPair ==
  ASSUME Sound, PairInv, NEW n \in NodeIDs, PruneTick(n)
  PROVE  PairInv'
<1> DEFINE dead == Stale(peers[n], now, DeadAfter)
<1>1. /\ Up(n) /\ dead # {} /\ dead \subseteq DOMAIN peers[n]
      /\ UNCHANGED <<now, faults, phase, self, beaten, boot, local, streams, heard>>
  BY DEF PruneTick, Up, Stale
<1>2. PICK m \in dead : m \in DOMAIN peers[n] /\ m \in NodeIDs /\ m # n
  BY <1>1 DEF Sound, IInv, PeersOK, ForeignPeers, PeerMap
<1>3. ~Up(m)
  <2> SUFFICES ASSUME Up(m) PROVE FALSE
    OBVIOUS
  <2>1. Aged(peers[n][m], now, 2)
    BY <1>1, <1>2 DEF PairInv, Both, Follows
  <2>2. now - peers[n][m].LastHeartbeat > DeadAfter
    BY DEF Stale
  <2>3. peers[n][m].LastHeartbeat \in Nat /\ now \in Nat
    BY <1>2, ClockTypes DEF Sound, IInv, PeersOK, ForeignPeers, PeerMap, Peer
  <2>4. DeadAfter \in Nat /\ DeadAfter >= 2
    BY FleetAssumption DEF Sound, PromptFleet
  <2> QED
    BY <2>1, <2>2, <2>3, <2>4 DEF Aged
<1>4. \A k \in NodeIDs : k # n => ~Up(k)
  BY <1>2, <1>3, OtherIs DEF Sound
<1>5. \A k \in NodeIDs \ {n} : peers'[k] = peers[k] /\ evicting'[k] = evicting[k]
  BY DEF PruneTick, Sound, IInv, PeersOK, EvictingOK
<1>6. SamePhases
  BY <1>1 DEF SamePhases, Up
<1>7. Quiet'
  BY <1>1, <1>5, <1>6 DEF PairInv, Quiet, SamePhases
<1>8. Addressed'
  BY <1>1, <1>6 DEF PairInv, Addressed, SamePhases
<1>9. NoFalseEviction'
  <2> SUFFICES ASSUME NEW k \in NodeIDs, NEW p \in evicting'[k]
               PROVE  ~Up(p.NodeID)'
    BY DEF NoFalseEviction
  <2>1. k = n
    BY <1>4, <1>5 DEF PairInv, Quiet
  <2>2. p.NodeID \in NodeIDs /\ p.NodeID # n
    <3>1. Foreign(Published', n, p)
      BY <2>1 DEF Sound, IInv, EvictingOK
    <3> QED
      BY <3>1 DEF Foreign, Published, Authentic
  <2> QED
    BY <1>4, <1>6, <2>2 DEF SamePhases
<1>10. \A k \in NodeIDs : Beating(k)'
  BY <1>1, <1>6, BeatingKept DEF PairInv, SamePhases
<1>11. \A k \in NodeIDs : boot'[k] = boot[k]
  BY <1>1
<1> QED
  BY <1>4, <1>6, <1>7, <1>8, <1>9, <1>10, <1>11, AloneParts

\* pruneLoop goes on: the process whose stream it stops does not run.
LEMMA EvictPair ==
  ASSUME Sound, PairInv, NEW n \in NodeIDs, Evict(n)
  PROVE  PairInv'
<1>1. PICK d \in evicting[n] :
        /\ evicting' = [evicting EXCEPT ![n] = @ \ {d}]
        /\ streams' = ToStreams(cancelStream(streams, n, d.NodeID), n, PeerRemoved(d))
        /\ local' = ToLocal(n, PeerRemoved(d))
  BY DEF Evict
<1>2. Up(n) /\ UNCHANGED <<now, faults, phase, self, peers, beaten, boot, heard>>
  BY DEF Evict, Up
<1>3. d \in Peer /\ d.NodeID \in NodeIDs /\ d.NodeID # n /\ ~Up(d.NodeID)
  <2>1. Foreign(Published, n, d)
    BY DEF Sound, IInv, EvictingOK
  <2> QED
    BY <2>1, PublishedFacts DEF Sound, Foreign, PairInv, NoFalseEviction
<1>4. \A k \in NodeIDs : k # n => ~Up(k)
  BY <1>3, OtherIs DEF Sound
<1>5. Rewired(n, streams, streams')
  <2>1. PeerRemoved(d) \in Event
    BY <1>3 DEF PeerRemoved, Event, EventType
  <2>2. TypedStreams(streams) /\ Rewired(n, streams, cancelStream(streams, n, d.NodeID))
    BY StreamsTyped, cancelStreamRewired DEF Sound
  <2>3. TypedStreams(cancelStream(streams, n, d.NodeID))
    BY <2>2 DEF Rewired
  <2>4. Rewired(n, cancelStream(streams, n, d.NodeID), streams')
    BY <1>1, <2>1, <2>3, ToStreamsRewired
  <2> QED
    BY <2>2, <2>4, RewiredTrans
<1>6. /\ \A k \in NodeIDs \ {n} : local'[k] = local[k]
      /\ \A k \in NodeIDs : evicting'[k] \subseteq evicting[k]
      /\ \A k \in NodeIDs \ {n} : evicting'[k] = evicting[k]
  <2>1. local \in [NodeIDs -> Seq(Event)] /\ evicting \in [NodeIDs -> SUBSET Peer]
    BY DEF Sound, IInv, LocalOK, EvictingOK
  <2>2. \A k \in NodeIDs \ {n} : local'[k] = local[k]
    BY <1>1, <2>1 DEF ToLocal
  <2>3. \A k \in NodeIDs : evicting'[k] = IF k = n THEN evicting[n] \ {d} ELSE evicting[k]
    BY <1>1, <2>1
  <2> QED
    BY <2>2, <2>3
<1>7. SamePhases
  BY <1>2 DEF SamePhases, Up
<1>8. Quiet' /\ Addressed' /\ NoFalseEviction'
  BY <1>2, <1>5, <1>6, <1>7, FrameKept DEF Sound
<1>9. \A k \in NodeIDs : Beating(k)'
  BY <1>2, <1>7, BeatingKept DEF PairInv, SamePhases
<1>10. \A k \in NodeIDs : boot'[k] = boot[k]
  BY <1>2
<1> QED
  BY <1>4, <1>7, <1>8, <1>9, <1>10, AloneParts

-----------------------------------------------------------------------------
(***************************************************************************)
(* A crash, a start and the clock.                                         *)
(***************************************************************************)

\* A process that dies leaves the other one alone.
LEMMA CrashPair ==
  ASSUME Sound, PairInv, NEW n \in NodeIDs, Crash(n)
  PROVE  PairInv'
<1>1. UNCHANGED <<now, self, beaten, heard>>
  BY DEF Crash
<1>2. /\ phase'[n] = "dead" /\ \A k \in NodeIDs \ {n} : phase'[k] = phase[k]
      /\ DOMAIN peers'[n] = {} /\ \A k \in NodeIDs \ {n} : peers'[k] = peers[k]
      /\ boot'[n] = NoBoot /\ \A k \in NodeIDs \ {n} : boot'[k] = boot[k]
      /\ evicting'[n] = {} /\ \A k \in NodeIDs \ {n} : evicting'[k] = evicting[k]
      /\ local'[n] = << >> /\ \A k \in NodeIDs \ {n} : local'[k] = local[k]
  <2>1. phase'[n] = "dead" /\ \A k \in NodeIDs \ {n} : phase'[k] = phase[k]
    BY DEF Crash, Sound, IInv, EnvOK
  <2>2. DOMAIN peers'[n] = {} /\ \A k \in NodeIDs \ {n} : peers'[k] = peers[k]
    BY DEF Crash, Empty, Sound, IInv, PeersOK
  <2>3. boot'[n] = NoBoot /\ \A k \in NodeIDs \ {n} : boot'[k] = boot[k]
    BY DEF Crash, Sound, IInv, BootOK
  <2>4. evicting'[n] = {} /\ \A k \in NodeIDs \ {n} : evicting'[k] = evicting[k]
    BY DEF Crash, Sound, IInv, EvictingOK
  <2>5. local'[n] = << >> /\ \A k \in NodeIDs \ {n} : local'[k] = local[k]
    BY DEF Crash, Sound, IInv, LocalOK
  <2> QED
    BY <2>1, <2>2, <2>3, <2>4, <2>5
<1>3. /\ DOMAIN streams'[n] = {}
      /\ \A k \in NodeIDs \ {n} :
           /\ DOMAIN streams'[k] = DOMAIN streams[k]
           /\ \A id \in DOMAIN streams[k] : streams'[k][id].to \in {0, streams[k][id].to}
  <2>1. /\ DOMAIN streams'[n] = {}
        /\ \A k \in NodeIDs \ {n} :
             /\ DOMAIN streams'[k] = DOMAIN streams[k]
             /\ \A id \in DOMAIN streams[k] : \/ streams'[k][id] = streams[k][id]
                                              \/ streams'[k][id] = Dialing(streams[k][id].anc)
    BY DEF Crash, Empty
  <2>2. \A anc : Dialing(anc).to = 0
    BY DEF Dialing, Unconnected
  <2> QED
    BY <2>1, <2>2
<1>4. ~Up(n)' /\ \A k \in NodeIDs \ {n} : Up(k)' <=> Up(k)
  BY <1>2 DEF Up
<1>5. Quiet'
  <2> SUFFICES ASSUME NEW k \in NodeIDs, ~Up(k)'
               PROVE  /\ DOMAIN peers'[k] = {} /\ DOMAIN streams'[k] = {}
                      /\ boot'[k] = NoBoot /\ evicting'[k] = {} /\ local'[k] = << >>
    BY DEF Quiet
  <2>1. CASE k = n
    BY <1>2, <1>3, <2>1
  <2>2. CASE k # n
    BY <1>2, <1>3, <1>4, <2>2 DEF PairInv, Quiet
  <2> QED
    BY <2>1, <2>2
<1>6. Addressed'
  <2>1. \A k, l \in NodeIDs : (k # l /\ Up(k)' /\ Up(l)') => Host[k] # Host[l]
    BY <1>4 DEF PairInv, Addressed
  <2>2. ASSUME NEW k \in NodeIDs, NEW id \in DOMAIN streams'[k]
        PROVE  /\ phase'[id] # "off"
               /\ streams'[k][id].to # 0 => Host[streams'[k][id].to] = Host[id]
    <3>1. k # n /\ id \in DOMAIN streams[k] /\ id \in NodeIDs
      BY <1>3, <2>2 DEF Sound, IInv, ForeignStreams
    <3> QED
      BY <1>2, <1>3, <3>1 DEF PairInv, Addressed
  <2> QED
    BY <2>1, <2>2 DEF Addressed
<1>7. NoFalseEviction'
  <2> SUFFICES ASSUME NEW k \in NodeIDs, NEW p \in evicting'[k]
               PROVE  ~Up(p.NodeID)'
    BY DEF NoFalseEviction
  <2>1. p \in evicting[k] /\ p.NodeID \in NodeIDs
    BY <1>2, PublishedFacts DEF Sound, IInv, EvictingOK, Foreign
  <2> QED
    BY <1>4, <2>1 DEF PairInv, NoFalseEviction
<1>8. \A k \in NodeIDs : Beating(k)'
  <2>1. \A k \in NodeIDs \ {n} : Beating(k)'
    BY <1>1, <1>2, <1>4, BeatingKept DEF PairInv
  <2>2. Beating(n)'
    BY <1>1, <1>4 DEF PairInv, Beating
  <2> QED
    BY <2>1, <2>2
<1>9. ASSUME NEW k \in NodeIDs, NEW l \in NodeIDs, Both(k, l)' PROVE FALSE
  BY <1>4, <1>9, OtherIs DEF Both, Sound
<1>10. ASSUME NEW k \in NodeIDs, NEW l \in NodeIDs, k # l, Up(k)' PROVE Joined(k, l)'
  <2>1. k # n /\ l = n
    BY <1>4, <1>10, OtherIs DEF Sound
  <2> QED
    BY <1>2, <1>4, <2>1 DEF Joined
<1> QED
  BY <1>5, <1>6, <1>7, <1>8, <1>9, <1>10 DEF PairInv

\* Nobody holds anything about a process that was never started.
LEMMA UnheardOf ==
  ASSUME Sound, PairInv, NEW n \in NodeIDs, phase[n] = "off", NEW k \in NodeIDs, k # n
  PROVE  DOMAIN peers[k] = {} /\ DOMAIN streams[k] = {} /\ 1 .. Len(local[k]) = {}
<1>1. /\ DOMAIN peers[k] \subseteq {n} /\ DOMAIN streams[k] \subseteq {n}
      /\ \A id \in DOMAIN peers[k] : Of(n, peers[k][id])
      /\ \A i \in 1 .. Len(local[k]) : Of(n, local[k][i].Peer)
  BY PairData DEF Sound
<1>2. \A p : ~Of(n, p)
  BY PublishedFacts DEF Sound, Of
<1>3. n \notin DOMAIN streams[k]
  BY DEF PairInv, Addressed
<1> QED
  BY <1>1, <1>2, <1>3

\* A process that starts is unknown and knows nobody.
LEMMA StartPair ==
  ASSUME Sound, PairInv, NEW n \in NodeIDs, Start(n)
  PROVE  PairInv'
<1>1. /\ phase[n] = "off" /\ At(Host[n]) = {} /\ ~Up(n)
      /\ UNCHANGED <<now, faults, peers, beaten, evicting, local, streams, heard>>
  BY DEF Start, Up
<1>2. /\ self'[n] = SelfPeer(n, now) /\ \A k \in NodeIDs \ {n} : self'[k] = self[k]
      /\ phase'[n] \in {"run", "boot"} /\ \A k \in NodeIDs \ {n} : phase'[k] = phase[k]
      /\ \A k \in NodeIDs \ {n} : boot'[k] = boot[k]
  <2>1. phase \in [NodeIDs -> {"off", "boot", "run", "dead"}] /\ self \in [NodeIDs -> Peer]
        /\ boot \in [NodeIDs -> Boot]
    BY DEF Sound, IInv, EnvOK, BootOK
  <2> QED
    BY <2>1 DEF Start
<1>3. \/ BootstrapURL[n] = 0 /\ boot'[n] = NoBoot
      \/ /\ boot'[n].pc = "join" /\ boot'[n].self = self'[n]
         /\ boot'[n].todo = {} /\ boot'[n].roster = {}
  <2>1. boot \in [NodeIDs -> Boot] /\ boot[n] = NoBoot
    BY <1>1 DEF Sound, IInv, BootOK, PairInv, Quiet
  <2>2. boot[n].todo = {} /\ boot[n].roster = {}
    BY <2>1 DEF NoBoot
  <2> QED
    BY <2>1, <2>2 DEF Start, Boot
<1>4. Up(n)' /\ \A k \in NodeIDs \ {n} : Up(k)' <=> Up(k)
  BY <1>2 DEF Up
<1>5. Quiet'
  BY <1>1, <1>2, <1>4 DEF PairInv, Quiet
<1>6. Addressed'
  <2>1. \A k \in NodeIDs : Up(k) => Host[k] # Host[n]
    BY <1>1 DEF At
  <2>2. \A k, l \in NodeIDs : (k # l /\ Up(k)' /\ Up(l)') => Host[k] # Host[l]
    BY <1>4, <2>1 DEF PairInv, Addressed
  <2>3. ASSUME NEW k \in NodeIDs, NEW id \in DOMAIN streams[k]
        PROVE  /\ phase'[id] # "off"
               /\ streams[k][id].to # 0 => Host[streams[k][id].to] = Host[id]
    <3>1. id \in NodeIDs /\ phase[id] # "off"
      BY <2>3 DEF Sound, IInv, ForeignStreams, PairInv, Addressed
    <3> QED
      BY <1>1, <1>2, <3>1 DEF PairInv, Addressed
  <2> QED
    BY <1>1, <2>2, <2>3 DEF Addressed
<1>7. NoFalseEviction'
  <2> SUFFICES ASSUME NEW k \in NodeIDs, NEW p \in evicting[k]
               PROVE  ~Up(p.NodeID)'
    BY <1>1 DEF NoFalseEviction
  <2>1. p.NodeID \in NodeIDs /\ p.NodeID # n
    BY <1>1, PublishedFacts DEF Sound, IInv, EvictingOK, Foreign
  <2> QED
    BY <1>4, <2>1 DEF PairInv, NoFalseEviction
<1>8. \A k \in NodeIDs : Beating(k)'
  <2>1. \A k \in NodeIDs \ {n} : Beating(k)'
    BY <1>1, <1>2, <1>4, BeatingKept DEF PairInv
  <2>2. self'[n].NodeID = n /\ Aged(self'[n], now, 0) /\ Aged(self'[n], now, 1)
    <3>1. now \in Nat
      BY ClockTypes DEF Sound
    <3> QED
      BY <1>2, <3>1 DEF SelfPeer, Aged
  <2>3. Beating(n)'
    BY <1>1, <1>3, <2>2 DEF PairInv, Beating, NoBoot
  <2> QED
    BY <2>1, <2>3
<1>9. ASSUME NEW k \in NodeIDs, NEW l \in NodeIDs, Both(k, l)' PROVE Follows(k, l)'
  <2>1. DOMAIN peers[k] = {} /\ DOMAIN streams[k] = {} /\ 1 .. Len(local[k]) = {}
    <3>1. CASE k = n
      BY <1>1, <3>1, EmptySeq DEF PairInv, Quiet
    <3>2. CASE k # n
      BY <1>1, <3>2, UnheardOf
    <3> QED
      BY <3>1, <3>2
  <2> QED
    BY <1>1, <2>1 DEF Follows
<1>10. ASSUME NEW k \in NodeIDs, NEW l \in NodeIDs, k # l, Up(k)' PROVE Joined(k, l)'
  <2>1. CASE k = n
    <3>1. Host[l] # 0
      BY FleetAssumption, DataAssumption
    <3> QED
      BY <1>3, <2>1, <3>1 DEF Joined
  <2>2. CASE k # n
    <3>1. l = n /\ Joined(k, l)
      BY <1>4, <1>10, <2>2, OtherIs DEF Sound, PairInv
    <3> QED
      BY <1>1, <1>2, <2>2, <3>1 DEF Joined
  <2> QED
    BY <2>1, <2>2
<1> QED
  BY <1>5, <1>6, <1>7, <1>8, <1>9, <1>10 DEF PairInv

\* Once everything due is done, each record is of the last interval, and an
\* interval later of the one before.
LEMMA TickPair ==
  ASSUME Sound, PairInv, Tick
  PROVE  PairInv'
<1>1. /\ now' = now + 1 /\ Settled /\ now < MaxNow
      /\ UNCHANGED <<faults, phase, self, peers, beaten, boot, evicting, local, streams, heard>>
  BY DEF Tick, Sound, PromptFleet
<1>2. now \in Nat /\ \A k \in NodeIDs : beaten[k] \in Nat /\ self[k].LastHeartbeat \in Nat
  BY ClockTypes DEF Sound
<1>3. \A k \in NodeIDs : Up(k) =>
        /\ beaten[k] = now /\ local[k] = << >>
        /\ boot[k].pc = "idle" \/ boot[k].pc = "retry"
        /\ \A id \in DOMAIN streams[k] :
             /\ streams[k][id].st = "dial" => At(Host[id]) = {}
             /\ streams[k][id].st = "open" =>
                  streams[k][id].replay = {} /\ streams[k][id].q = << >>
  <2>1. ~(now > MaxBeat)
    BY <1>1, <1>2, FleetAssumption DEF Sound, PromptFleet
  <2> QED
    BY <1>1, <2>1 DEF Settled, Up
<1>4. Quiet' /\ Addressed' /\ NoFalseEviction'
  BY <1>1 DEF PairInv, Quiet, Addressed, NoFalseEviction, Up
<1>5. ASSUME NEW k \in NodeIDs PROVE Beating(k)'
  <2>1. beaten[k] <= now + 1 /\ beaten[k] <= now
    BY <1>2 DEF PairInv, Beating
  <2>2. CASE ~Up(k)
    BY <1>1, <2>1, <2>2 DEF Beating, Up
  <2>3. CASE Up(k)
    <3>1. beaten[k] = now /\ Aged(self[k], now, 0)
      BY <1>3, <2>3 DEF PairInv, Beating
    <3>2. Aged(self[k], now + 1, 1) /\ beaten[k] # now + 1
      BY <1>2, <3>1 DEF Aged
    <3>3. /\ boot[k].pc \notin {"join", "apply", "announce"}
          /\ boot[k].todo = {} /\ boot[k].roster = {}
      BY <1>3, <2>3 DEF PairInv, Beating
    <3> QED
      BY <1>1, <2>1, <3>2, <3>3 DEF Beating
  <2> QED
    BY <2>2, <2>3
<1>6. ASSUME NEW k \in NodeIDs, NEW l \in NodeIDs, Both(k, l) PROVE Follows(k, l)'
  <2>1. /\ Follows(k, l) /\ Up(k) /\ Up(l) /\ k # l
        /\ beaten[l] = now /\ beaten[l] # now + 1
    BY <1>2, <1>3, <1>6 DEF PairInv, Both
  <2>2. DOMAIN peers[k] \subseteq {l} /\ DOMAIN streams[k] \subseteq {l}
    BY <2>1, PairData DEF Sound
  <2>3. ASSUME NEW id \in DOMAIN streams[k]
        PROVE  Drained(streams[k][id]) /\ Fed(streams[k][id], l, now + 1, beaten[l])
    <3>1. Fed(streams[k][id], l, now, beaten[l]) /\ id = l
      BY <2>1, <2>2 DEF Follows
    <3>2. l \in At(Host[id])
      BY <2>1, <3>1 DEF At
    <3> QED
      BY <1>3, <2>1, <3>1, <3>2 DEF Fed, Drained
  <2>4. ASSUME NEW id \in DOMAIN peers[k]
        PROVE  Aged(peers[k][id], now + 1, 2) /\ id \in DOMAIN streams[k]
    <3>1. id \in DOMAIN streams[k]
      BY <1>3, <2>1 DEF Follows
    <3>2. Aged(peers[k][id], now, 1)
      BY <2>1, <2>3, <3>1 DEF Follows
    <3>3. peers[k][id].LastHeartbeat \in Nat
      BY DEF Sound, IInv, PeersOK, ForeignPeers, PeerMap, Peer
    <3> QED
      BY <1>2, <3>1, <3>2, <3>3 DEF Aged
  <2>5. \A i \in 1 .. Len(local[k]) : local[k][i].Type = "peer_added"
    BY <2>1 DEF Follows
  <2> QED
    BY <1>1, <2>1, <2>3, <2>4, <2>5 DEF Follows
<1>7. \A k, l \in NodeIDs : k # l /\ Up(k) => Joined(k, l)'
  BY <1>1 DEF PairInv, Joined, Up
<1>8. SamePhases
  BY <1>1 DEF SamePhases, Up
<1> QED
  BY <1>4, <1>5, <1>6, <1>7, <1>8, PairParts

-----------------------------------------------------------------------------
(***************************************************************************)
(* What holds of two processes.                                            *)
(***************************************************************************)

\* Before anything is started there is nothing to know.
LEMMA InitPair == Init => PairInv
<1> SUFFICES ASSUME Init PROVE PairInv
  OBVIOUS
<1>1. \A n \in NodeIDs : /\ phase[n] = "off" /\ beaten[n] = 0 /\ boot[n] = NoBoot
                         /\ evicting[n] = {} /\ local[n] = << >>
                         /\ DOMAIN peers[n] = {} /\ DOMAIN streams[n] = {}
  BY DEF Init, Empty
<1>2. now = 1 /\ \A n \in NodeIDs : ~Up(n)
  BY <1>1 DEF Init, Up
<1>3. Quiet /\ Addressed /\ NoFalseEviction
  BY <1>1, <1>2 DEF Quiet, Addressed, NoFalseEviction
<1>4. ASSUME NEW n \in NodeIDs PROVE Beating(n)
  <2>1. beaten[n] <= now /\ ~Up(n)
    BY <1>1, <1>2
  <2> QED
    BY <2>1 DEF Beating
<1> QED
  BY <1>2, <1>3, <1>4 DEF PairInv, Both

\* A step that changes nothing.
LEMMA StutterPair ==
  ASSUME PairInv, UNCHANGED vars
  PROVE  PairInv'
<1>1. UNCHANGED <<now, phase, self, peers, beaten, boot, evicting, local, streams>>
  BY DEF vars
<1>2. Quiet' /\ Addressed' /\ NoFalseEviction'
  BY <1>1 DEF PairInv, Quiet, Addressed, NoFalseEviction, Up
<1>3. \A n \in NodeIDs : Beating(n)'
  BY <1>1 DEF PairInv, Beating, Up
<1>4. \A n, m \in NodeIDs : Both(n, m)' => Follows(n, m)'
  BY <1>1 DEF PairInv, Both, Follows, Up
<1>5. \A n, m \in NodeIDs : n # m /\ Up(n)' => Joined(n, m)'
  BY <1>1 DEF PairInv, Joined, Up
<1> QED
  BY <1>2, <1>3, <1>4, <1>5 DEF PairInv

\* The invariant of two processes is inductive relative to IInv.
LEMMA PairInductive ==
  ASSUME TwoProcesses, PromptFleet
  PROVE  IInv /\ IInv' /\ PairInv /\ [Next]_vars => PairInv'
<1> SUFFICES ASSUME IInv, IInv', PairInv, [Next]_vars PROVE PairInv'
  OBVIOUS
<1>0. Sound
  BY DEF Sound
<1>1. CASE UNCHANGED vars
  BY <1>1, StutterPair
<1>2. ASSUME NEW n \in NodeIDs,
             \/ Start(n) \/ JoinServed(n) \/ JoinLost(n) \/ JoinRefused(n)
             \/ RetryBootstrap(n) \/ ApplyRoster(n) \/ Announce(n)
      PROVE  PairInv'
  BY <1>0, <1>2, StartPair, JoinServedPair, JoinLostPair, JoinRefusedPair,
     RetryBootstrapPair, ApplyRosterPair, AnnouncePair
<1>3. ASSUME NEW n \in NodeIDs,
             \/ localEventLoop(n) \/ heartbeatLoop(n)
             \/ PruneTick(n) \/ Evict(n) \/ Crash(n)
      PROVE  PairInv'
  BY <1>0, <1>3, localEventLoopPair, heartbeatLoopPair, PruneTickPair, EvictPair, CrashPair
<1>4. ASSUME NEW n \in NodeIDs, NEW m \in NodeIDs,
             Connect(n, m) \/ Deliver(n, m) \/ Break(n, m)
      PROVE  PairInv'
  BY <1>0, <1>4, ConnectPair, DeliverPair, BreakPair
<1>5. CASE Tick
  BY <1>0, <1>5, TickPair
<1> QED
  BY <1>1, <1>2, <1>3, <1>4, <1>5, NextCases

\* It holds of every reachable state.
LEMMA PairInvariance ==
  ASSUME TwoProcesses, PromptFleet
  PROVE  Spec => []PairInv
<1>1. Init => PairInv
  BY InitPair
<1>2. IInv /\ IInv' /\ PairInv /\ [Next]_vars => PairInv'
  BY PairInductive
<1> QED
  BY <1>1, <1>2, Invariance, PTL DEF Spec

\* pruneLoop of two daemons never evicts the one that is running: neither a
\* replay after a broken connection nor a retried join, both of which lower the
\* heartbeat the registry holds, ever takes it to the threshold.
THEOREM NobodyAliveEvicted ==
  ASSUME TwoProcesses, PromptFleet
  PROVE  Spec => []NoFalseEviction
<1>1. PairInv => NoFalseEviction
  BY DEF PairInv
<1> QED
  BY <1>1, PairInvariance, PTL

\* Of two processes that run, none of which is bootstrapping or has anything to
\* do, whoever knows the other one follows it.
LEMMA SettledFollows ==
  ASSUME IInv, PairInv, Settled, NEW n \in NodeIDs, NEW m \in NodeIDs, Both(n, m),
         m \in DOMAIN peers[n]
  PROVE  Linked(n, m)
<1>1. Follows(n, m) /\ phase[n] = "run"
  BY DEF PairInv, Both, Up, Settled
<1>2. m \in DOMAIN streams[n]
  BY <1>1 DEF Settled, Follows
<1>3. m \in At(Host[m])
  BY DEF Both, At
<1>4. streams[n][m].st # "dial"
  BY <1>1, <1>2, <1>3 DEF Settled
<1>5. streams[n][m].st = "open"
  BY <1>1, <1>2, <1>4 DEF Follows, Fed
<1> QED
  BY <1>2, <1>5 DEF Linked

\* localEventLoop's promise, an outbound stream for every peer we believe is
\* alive, which a crash breaks among three daemons (a cancelled context takes
\* the streams opened under it along), is kept by two.
THEOREM PairStreams ==
  ASSUME TwoProcesses, PromptFleet
  PROVE  Spec => []StreamForEveryPeer
<1>1. IInv /\ PairInv => StreamForEveryPeer
  <2> SUFFICES ASSUME IInv, PairInv, Settled, NEW n \in NodeIDs, NEW m \in NodeIDs,
                      phase[n] = "run", m \in DOMAIN peers[n], Up(m)
               PROVE  Linked(n, m)
    BY DEF StreamForEveryPeer
  <2>1. Both(n, m)
    BY DEF Both, Up, IInv, PeersOK, ForeignPeers, PeerMap
  <2> QED
    BY <2>1, SettledFollows
<1> QED
  BY <1>1, Invariance, PairInvariance, PTL

\* bootstrap, its retry, joinHandler and the loops make a mesh of two: whenever
\* nothing is due and both are through with their bootstrap, each knows and
\* follows the other, whatever joins, streams and events were lost before.
THEOREM PairMeshes ==
  ASSUME TwoProcesses, PromptFleet, JoinGraph
  PROVE  Spec => []MeshWhenSettled
<1>1. IInv /\ PairInv => MeshWhenSettled
  <2> SUFFICES ASSUME IInv, PairInv, Settled, NEW n \in NodeIDs, NEW m \in NodeIDs,
                      Both(n, m), boot[n].pc = "idle", boot[m].pc = "idle"
               PROVE  Linked(n, m)
    BY DEF MeshWhenSettled, Both
  <2>1. Joined(n, m) /\ Joined(m, n) /\ Host[n] # Host[m] /\ n # m
    BY DEF PairInv, Both, Addressed
  <2>2. BootstrapURL[n] = Host[m] \/ BootstrapURL[m] = Host[n]
    BY <2>1 DEF JoinGraph
  <2>3. m \in DOMAIN peers[n]
    BY <2>1, <2>2 DEF Joined, Both
  <2> QED
    BY <2>3, SettledFollows
<1> QED
  BY <1>1, Invariance, PairInvariance, PTL
=============================================================================
