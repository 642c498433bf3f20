--------------------------- MODULE RegistryProofs ---------------------------
(***************************************************************************)
(* Theorems about Registry, for any number of goroutines, subscriptions,   *)
(* peers and any buffer size.                                              *)
(***************************************************************************)
EXTENDS Registry, RegistryOpsProofs, SequenceTheorems

\* Every step names one action: the cases the proofs below go through.
LEMMA NextCases ==
  ASSUME Next
  PROVE  \/ \E g \in Procs, p \in Updates : Join(g, p)
         \/ \E g \in Procs, p \in Updates : RemoteAdded(g, p)
         \/ \E g \in Procs, p \in Updates : RemoteHeartbeat(g, p)
         \/ \E g \in Procs, id \in NodeIDs : RemoteRemoved(g, id)
         \/ \E g \in Procs : TouchSelfHeartbeat(g)
         \/ \E g \in Procs : Prune(g)
         \/ \E g \in Procs : Broadcast(g)
         \/ Subscribe
         \/ \E i \in SubIDs : Replay(i)
         \/ \E i \in SubIDs : Forward(i)
         \/ \E i \in SubIDs : Cancel(i)
         \/ Tick
BY DEF Next

\* The defaults joinHandler fills in keep the record well-formed.
LEMMA JoinDefaultsType ==
  ASSUME NEW p \in Peer, now \in Nat
  PROVE  JoinDefaults(p) \in Peer /\ JoinDefaults(p).NodeID = p.NodeID
BY DEF JoinDefaults, Peer

\* The three events about a peer record are events.
LEMMA EventTypes ==
  ASSUME NEW p \in Peer
  PROVE  PeerAdded(p) \in Event /\ PeerRemoved(p) \in Event /\ Heartbeat(p) \in Event
BY DEF PeerAdded, PeerRemoved, Heartbeat, Event, EventType

\* Insert keeps the peer map and the history sets well-formed.
LEMMA InsertType ==
  ASSUME TypeOK, NEW p \in Peer, NEW b \in BOOLEAN, Insert(p, b)
  PROVE  /\ PeerMap(SelfID, peers')
         /\ known' \subseteq NodeIDs /\ silent' \subseteq NodeIDs
<1>1. SelfID \in NodeIDs /\ PeerMap(SelfID, peers) /\ now \in Nat
  BY RegistryAssumption DEF TypeOK
<1>2. PeerMap(SelfID, peers')
  BY <1>1, UpsertType DEF Insert
<1>3. DOMAIN peers' \subseteq NodeIDs
  BY <1>2 DEF PeerMap
<1> QED
  BY <1>2, <1>3 DEF Insert, TypeOK

\* Type correctness: the state of Registry and of its channels is always
\* well-formed; the local node and blank identifiers never enter the peer map
\* and every record is stored under its own identifier.
THEOREM TypeCorrect == Spec => []TypeOK
<1>1. Init => TypeOK
  <2> SUFFICES ASSUME Init PROVE TypeOK
    OBVIOUS
  <2>1. self \in Peer /\ self.NodeID = SelfID
    BY RegistryAssumption DEF Init, Peer
  <2>2. PeerMap(SelfID, peers)
    BY DEF Init, PeerMap
  <2>3. now \in 1 .. MaxNow
    BY RegistryAssumption DEF Init
  <2> QED
    BY <2>1, <2>2, <2>3, RegistryAssumption DEF Init, TypeOK, SubIDs
<1>2. TypeOK /\ [Next]_vars => TypeOK'
  <2> SUFFICES ASSUME TypeOK, [Next]_vars PROVE TypeOK'
    OBVIOUS
  <2> USE RegistryAssumption
  <2>0. /\ PeerMap(SelfID, peers) /\ now \in Nat /\ SelfID \in NodeIDs
        /\ Updates \subseteq Peer
    BY DEF TypeOK
  <2>1. ASSUME NEW g \in Procs, NEW p \in Updates, Join(g, p) PROVE TypeOK'
    <3>1. JoinDefaults(p) \in Peer
      BY <2>0, JoinDefaultsType
    <3>2. Stored(SelfID, peers, JoinDefaults(p), now) \in Peer
      BY <2>0, <3>1, StoredType
    <3>3. pending' \in [Procs -> SUBSET Event]
      BY <2>1, <3>2, EventTypes DEF Join, TypeOK
    <3>4. PeerMap(SelfID, peers') /\ known' \subseteq NodeIDs /\ silent' \subseteq NodeIDs
      BY <2>1, <3>1, InsertType DEF Join
    <3> QED
      BY <2>1, <3>3, <3>4 DEF Join, TypeOK, subVars, SubIDs
  <2>2. ASSUME NEW g \in Procs, NEW p \in Updates, RemoteAdded(g, p) PROVE TypeOK'
    <3>1. p \in Peer
      BY <2>0
    <3>2. Stored(SelfID, peers, p, now) \in Peer
      BY <2>0, <3>1, StoredType
    <3>3. pending' \in [Procs -> SUBSET Event]
      BY <2>2, <3>2, EventTypes DEF RemoteAdded, TypeOK
    <3>4. PeerMap(SelfID, peers') /\ known' \subseteq NodeIDs /\ silent' \subseteq NodeIDs
      BY <2>2, <3>1, InsertType DEF RemoteAdded
    <3> QED
      BY <2>2, <3>3, <3>4 DEF RemoteAdded, TypeOK, subVars, SubIDs
  <2>3. ASSUME NEW g \in Procs, NEW p \in Updates, RemoteHeartbeat(g, p) PROVE TypeOK'
    <3>1. [p EXCEPT !.LastHeartbeat = IF @ = 0 THEN now ELSE @] \in Peer
      BY <2>0 DEF Peer
    <3>2. PeerMap(SelfID, peers') /\ known' \subseteq NodeIDs /\ silent' \subseteq NodeIDs
      BY <2>3, <3>1, InsertType DEF RemoteHeartbeat
    <3> QED
      BY <2>3, <3>2 DEF RemoteHeartbeat, TypeOK, subVars, SubIDs
  <2>4. ASSUME NEW g \in Procs, NEW id \in NodeIDs, RemoteRemoved(g, id) PROVE TypeOK'
    <3>1. PeerMap(SelfID, peers')
      BY <2>0, <2>4, DropType DEF RemoteRemoved, Remove
    <3>2. PeerRemoved(peers[id]) \in Event
      BY <2>0, <2>4, EventTypes DEF RemoteRemoved, PeerMap
    <3> QED
      BY <2>4, <3>1, <3>2 DEF RemoteRemoved, TypeOK, subVars, SubIDs
  <2>5. ASSUME NEW g \in Procs, TouchSelfHeartbeat(g) PROVE TypeOK'
    <3>1. self' \in Peer /\ self'.NodeID = SelfID
      BY <2>0, <2>5 DEF TouchSelfHeartbeat, TypeOK, Peer
    <3>2. Heartbeat(self') \in Event
      BY <3>1, EventTypes
    <3> QED
      BY <2>5, <3>1, <3>2 DEF TouchSelfHeartbeat, TypeOK, subVars, SubIDs
  <2>6. ASSUME NEW g \in Procs, Prune(g) PROVE TypeOK'
    <3>1. PeerMap(SelfID, peers')
      BY <2>0, <2>6, DropType DEF Prune, PruneStale
    <3>2. \A id \in DOMAIN peers : PeerRemoved(peers[id]) \in Event
      BY <2>0, EventTypes DEF PeerMap
    <3>3. {PeerRemoved(peers[id]) : id \in Stale(peers, now, DeadAfter)} \subseteq Event
      BY <3>2 DEF Stale
    <3>4. pending' \in [Procs -> SUBSET Event] /\ silent' \subseteq NodeIDs
      BY <2>6, <3>3 DEF Prune, TypeOK
    <3> QED
      BY <2>6, <3>1, <3>4 DEF Prune, TypeOK, subVars, SubIDs
  <2>7. ASSUME NEW g \in Procs, Broadcast(g) PROVE TypeOK'
    <3>1. PICK e \in pending[g] :
            /\ pending' = [pending EXCEPT ![g] = @ \ {e}]
            /\ chan' = [i \in SubIDs |-> IF i \in subscribers THEN Offer(chan[i], e)
                                         ELSE chan[i]]
            /\ handler' = [i \in SubIDs |->
                 [handler[i] EXCEPT !.lost = @ \/ Len(chan[i].buf) >= Capacity]]
            /\ sent' = Append(sent, e)
            /\ UNCHANGED <<now, regVars, nextSubID, subscribers>>
      BY <2>7 DEF Broadcast
    <3>2. e \in Event
      BY <3>1 DEF TypeOK
    <3>3. pending' \in [Procs -> SUBSET Event] /\ sent' \in Seq(Event)
      BY <3>1, <3>2 DEF TypeOK
    <3>4. ASSUME NEW i \in SubIDs
          PROVE  chan'[i] \in Channel /\ handler'[i] \in Handler
      <4>1. chan[i] \in Channel /\ handler[i] \in Handler
        BY DEF TypeOK
      <4> DEFINE b == Append(chan[i].buf, e)
      <4>2. chan'[i] = chan[i] \/ chan'[i] = [chan[i] EXCEPT !.buf = b]
        BY <3>1 DEF Offer
      <4>5. b \in Seq(Event)
        BY <3>2, <4>1 DEF Channel
      <4> HIDE DEF b
      <4>3. chan'[i] \in Channel
        BY <4>1, <4>2, <4>5 DEF Channel
      <4>4. handler'[i] =
              [handler[i] EXCEPT !.lost = @ \/ Len(chan[i].buf) >= Capacity]
        BY <3>1
      <4> QED
        BY <4>1, <4>3, <4>4 DEF Handler
    <3>6. chan' \in [SubIDs -> Channel] /\ handler' \in [SubIDs -> Handler]
      BY <3>1, <3>4
    <3> QED
      BY <3>1, <3>3, <3>4, <3>6 DEF TypeOK, regVars, SubIDs
  <2>8. ASSUME Subscribe PROVE TypeOK'
    <3>1. [buf |-> << >>, closed |-> FALSE] \in Channel
      BY DEF Channel
    <3>2. [pc |-> "subscribed", pos |-> Len(sent), lost |-> FALSE,
           snap |-> {}, got |-> {}, view |-> {}] \in Handler
      BY DEF Handler, TypeOK
    <3>3. SubIDs' = SubIDs \cup {nextSubID} /\ nextSubID' \in 0 .. MaxSubs
      BY <2>8 DEF Subscribe, SubIDs, TypeOK
    <3>4. chan' \in [SubIDs' -> Channel]
      BY <2>8, <3>1, <3>3 DEF Subscribe, Put, TypeOK
    <3>5. handler' \in [SubIDs' -> Handler]
      BY <2>8, <3>2, <3>3 DEF Subscribe, Put, TypeOK
    <3> QED
      BY <2>8, <3>3, <3>4, <3>5 DEF Subscribe, TypeOK, regVars
  <2>9. ASSUME NEW i \in SubIDs, Replay(i) PROVE TypeOK'
    <3>1. {p.NodeID : p \in Roster(self, peers)} \subseteq NodeIDs
      BY <2>0 DEF TypeOK, PeerMap, Roster, Peers
    <3>2. handler[i] \in Handler
      BY DEF TypeOK
    <3>3. handler' \in [SubIDs -> Handler]
      BY <2>9, <3>1, <3>2 DEF Replay, Handler, TypeOK
    <3> QED
      BY <2>9, <3>3 DEF Replay, TypeOK, regVars, SubIDs
  <2>10. ASSUME NEW i \in SubIDs, Forward(i) PROVE TypeOK'
    <3>1. chan[i] \in Channel /\ handler[i] \in Handler /\ chan[i].buf # << >>
      BY <2>10 DEF TypeOK, Forward
    <3>2. Head(chan[i].buf) \in Event /\ Tail(chan[i].buf) \in Seq(Event)
      BY <3>1 DEF Channel
    <3>3. /\ <<Head(chan[i].buf).Type, Head(chan[i].buf).Peer.NodeID>>
               \in EventType \X (NodeIDs \cup {0})
          /\ Head(chan[i].buf).Peer.NodeID \in NodeIDs \cup {0}
      BY <3>2 DEF Event, Peer
    <3>4. chan' \in [SubIDs -> Channel]
      BY <2>10, <3>1, <3>2 DEF Forward, Channel, TypeOK
    <3> DEFINE id == Head(chan[i].buf).Peer.NodeID
               got == handler[i].got \cup {<<Head(chan[i].buf).Type, id>>}
               view == IF Head(chan[i].buf).Type = "peer_removed"
                       THEN handler[i].view \ {id} ELSE handler[i].view \cup {id}
    <3>6. /\ got \subseteq EventType \X (NodeIDs \cup {0})
          /\ view \subseteq NodeIDs \cup {0}
      BY <3>1, <3>3 DEF Handler
    <3>7. handler' = [handler EXCEPT ![i].pos = @ + 1, ![i].got = got, ![i].view = view]
      BY <2>10 DEF Forward
    <3> HIDE DEF got, view
    <3>8. handler[i].pos + 1 \in Nat
      BY <3>1 DEF Handler
    <3>9. handler' = [handler EXCEPT ![i] =
                        [handler[i] EXCEPT !.pos = @ + 1, !.got = got, !.view = view]]
      BY <3>7 DEF TypeOK
    <3>10. [handler[i] EXCEPT !.pos = @ + 1, !.got = got, !.view = view] \in Handler
      BY <3>1, <3>6, <3>8 DEF Handler
    <3>5. handler' \in [SubIDs -> Handler]
      BY <3>9, <3>10 DEF TypeOK
    <3> QED
      BY <2>10, <3>4, <3>5 DEF Forward, TypeOK, regVars, SubIDs
  <2>11. ASSUME NEW i \in SubIDs, Cancel(i) PROVE TypeOK'
    <3>1. chan' \in [SubIDs -> Channel]
      BY <2>11 DEF Cancel, TypeOK, Channel
    <3>2. [handler[i] EXCEPT !.pc = "done"] \in Handler
      BY DEF TypeOK, Handler
    <3>3. handler' \in [SubIDs -> Handler]
      BY <2>11, <3>2 DEF Cancel, TypeOK
    <3> QED
      BY <2>11, <3>1, <3>3 DEF Cancel, TypeOK, regVars, SubIDs
  <2>12. CASE Tick
    BY <2>12 DEF Tick, TypeOK, regVars, subVars, SubIDs
  <2>13. CASE UNCHANGED vars
    BY <2>13 DEF vars, TypeOK, SubIDs
  <2> QED
    BY <2>1, <2>2, <2>3, <2>4, <2>5, <2>6, <2>7, <2>8, <2>9, <2>10, <2>11,
       <2>12, <2>13, NextCases
<1> QED
  BY <1>1, <1>2, PTL DEF Spec

-----------------------------------------------------------------------------

\* Upsert preserves JoinedAt and the deletions touch no other entry, so no
\* step of any goroutine changes when a present entry joined.
THEOREM JoinedAtIsPreserved == Spec => JoinedAtPreserved
<1> DEFINE Kept == \A id \in DOMAIN peers \cap DOMAIN peers' :
                     peers'[id].JoinedAt = peers[id].JoinedAt
<1>1. TypeOK /\ [Next]_vars => [Kept]_vars
  <2> SUFFICES ASSUME TypeOK, Next PROVE Kept
    BY DEF vars
  <2>0. /\ PeerMap(SelfID, peers) /\ now \in Nat /\ SelfID \in NodeIDs
        /\ Updates \subseteq Peer
    BY RegistryAssumption DEF TypeOK
  <2>1. ASSUME NEW p \in Peer, NEW b, Insert(p, b) PROVE Kept
    BY <2>0, <2>1, UpsertJoinedAt DEF Insert
  <2>2. ASSUME NEW ids, peers' = Drop(peers, ids) PROVE Kept
    BY <2>2 DEF Drop
  <2>3. ASSUME NEW g \in Procs, NEW p \in Updates, Join(g, p) PROVE Kept
    BY <2>0, <2>1, <2>3, JoinDefaultsType DEF Join
  <2>4. ASSUME NEW g \in Procs, NEW p \in Updates, RemoteAdded(g, p) PROVE Kept
    BY <2>0, <2>1, <2>4 DEF RemoteAdded
  <2>5. ASSUME NEW g \in Procs, NEW p \in Updates, RemoteHeartbeat(g, p) PROVE Kept
    <3>1. [p EXCEPT !.LastHeartbeat = IF @ = 0 THEN now ELSE @] \in Peer
      BY <2>0 DEF Peer
    <3> QED
      BY <2>1, <2>5, <3>1 DEF RemoteHeartbeat
  <2>6. ASSUME NEW g \in Procs, NEW id \in NodeIDs, RemoteRemoved(g, id) PROVE Kept
    BY <2>2, <2>6 DEF RemoteRemoved, Remove
  <2>7. ASSUME NEW g \in Procs, Prune(g) PROVE Kept
    BY <2>2, <2>7 DEF Prune, PruneStale
  <2>8. ASSUME peers' = peers PROVE Kept
    BY <2>8
  <2> QED
    BY <2>3, <2>4, <2>5, <2>6, <2>7, <2>8, NextCases
       DEF TouchSelfHeartbeat, Broadcast, Subscribe, Replay, Forward, Cancel, Tick,
           regVars
<1> QED
  BY <1>1, TypeCorrect, PTL DEF Spec, JoinedAtPreserved

\* No interleaving of Broadcast with cancel sends on a closed channel or closes
\* one twice: a channel is closed in the same critical section in which it
\* leaves the map, and identifiers are not reused.
THEOREM ChannelsSafe == Spec => []ClosedIffUnsubscribed
<1>1. Init => ClosedIffUnsubscribed
  BY DEF Init, ClosedIffUnsubscribed, SubIDs
<1>2. TypeOK /\ ClosedIffUnsubscribed /\ [Next]_vars => ClosedIffUnsubscribed'
  <2> SUFFICES ASSUME TypeOK, ClosedIffUnsubscribed, [Next]_vars
               PROVE  ClosedIffUnsubscribed'
    OBVIOUS
  <2>1. ASSUME UNCHANGED subVars PROVE ClosedIffUnsubscribed'
    BY <2>1 DEF ClosedIffUnsubscribed, subVars, SubIDs
  <2>2. ASSUME NEW g \in Procs, Broadcast(g) PROVE ClosedIffUnsubscribed'
    <3>1. \A i \in SubIDs : chan'[i].closed = chan[i].closed
      BY <2>2 DEF Broadcast, Offer, TypeOK, Channel
    <3> QED
      BY <2>2, <3>1 DEF Broadcast, ClosedIffUnsubscribed, SubIDs
  <2>3. ASSUME Subscribe PROVE ClosedIffUnsubscribed'
    <3>1. SubIDs' = SubIDs \cup {nextSubID} /\ nextSubID \notin SubIDs
      BY <2>3 DEF Subscribe, SubIDs, TypeOK
    <3>2. chan'[nextSubID].closed = FALSE /\ nextSubID \in subscribers'
      BY <2>3 DEF Subscribe, Put
    <3>3. \A i \in SubIDs : chan'[i] = chan[i] /\ (i \in subscribers' <=> i \in subscribers)
      BY <2>3, <3>1 DEF Subscribe, Put, TypeOK
    <3> QED
      BY <3>1, <3>2, <3>3 DEF ClosedIffUnsubscribed
  <2>4. ASSUME NEW i \in SubIDs, Replay(i) PROVE ClosedIffUnsubscribed'
    BY <2>4 DEF Replay, ClosedIffUnsubscribed, SubIDs
  <2>5. ASSUME NEW i \in SubIDs, Forward(i) PROVE ClosedIffUnsubscribed'
    BY <2>5 DEF Forward, ClosedIffUnsubscribed, SubIDs, TypeOK, Channel
  <2>6. ASSUME NEW i \in SubIDs, Cancel(i) PROVE ClosedIffUnsubscribed'
    BY <2>6 DEF Cancel, ClosedIffUnsubscribed, SubIDs, TypeOK, Channel
  <2> QED
    BY <2>1, <2>2, <2>3, <2>4, <2>5, <2>6, NextCases
       DEF Join, RemoteAdded, RemoteHeartbeat, RemoteRemoved, TouchSelfHeartbeat,
           Prune, Tick, vars, subVars
<1> QED
  BY <1>1, <1>2, TypeCorrect, PTL DEF Spec

\* A queue q holds what a log has after position n.
Matches(q, log, n) ==
  /\ Len(log) = n + Len(q)
  /\ \A k \in 1 .. Len(q) : q[k] = log[n + k]

\* One more event on both keeps them matched.
LEMMA AppendKeepsMatch ==
  ASSUME NEW e \in Event, NEW log \in Seq(Event), NEW q \in Seq(Event), NEW n \in Nat,
         Matches(q, log, n)
  PROVE  Matches(Append(q, e), Append(log, e), n)
<1>1. Len(log) \in Nat /\ Len(q) \in Nat /\ Len(log) = n + Len(q)
  BY DEF Matches
<1>2. Len(Append(log, e)) = Len(log) + 1 /\ Len(Append(q, e)) = Len(q) + 1
  OBVIOUS
<1>3. ASSUME NEW k \in 1 .. Len(Append(q, e))
      PROVE  Append(q, e)[k] = Append(log, e)[n + k]
  <2>1. CASE k = Len(q) + 1
    BY <1>1, <2>1
  <2>2. CASE k # Len(q) + 1
    <3>1. k \in 1 .. Len(q) /\ n + k \in 1 .. Len(log)
      BY <1>1, <1>2, <2>2
    <3> QED
      BY <3>1 DEF Matches
  <2> QED
    BY <2>1, <2>2
<1> QED
  BY <1>1, <1>2, <1>3 DEF Matches

\* Reading one event from the queue moves the position by one.
LEMMA TailKeepsMatch ==
  ASSUME NEW log \in Seq(Event), NEW q \in Seq(Event), NEW n \in Nat, q # << >>,
         Matches(q, log, n)
  PROVE  Matches(Tail(q), log, n + 1)
<1>1. Len(q) \in Nat /\ Len(Tail(q)) = Len(q) - 1 /\ Len(log) = n + Len(q)
  BY HeadTailProperties DEF Matches
<1>2. ASSUME NEW k \in 1 .. Len(Tail(q)) PROVE Tail(q)[k] = log[(n + 1) + k]
  <2>1. Tail(q)[k] = q[k + 1]
    BY <1>1, HeadTailProperties
  <2>2. k + 1 \in 1 .. Len(q) /\ n + (k + 1) = (n + 1) + k
    BY <1>1
  <2> QED
    BY <2>1, <2>2 DEF Matches
<1> QED
  BY <1>1, <1>2 DEF Matches

\* A subscriber whose buffer was never full misses nothing and gets everything
\* in the order in which it was broadcast.
THEOREM DeliveryInOrder == Spec => []DeliveredInOrder
<1>1. Init => DeliveredInOrder
  BY DEF Init, DeliveredInOrder
<1>2. TypeOK /\ DeliveredInOrder /\ [Next]_vars => DeliveredInOrder'
  <2> SUFFICES ASSUME TypeOK, DeliveredInOrder, [Next]_vars
               PROVE  DeliveredInOrder'
    OBVIOUS
  <2> DEFINE OK(i, h, c, s) ==
        ~h.lost => Matches(c.buf, s, h.pos)
  <2>0. \A i \in subscribers : i \in SubIDs /\ OK(i, handler[i], chan[i], sent)
    BY DEF DeliveredInOrder, TypeOK, Matches
  <2>1. ASSUME UNCHANGED <<subVars, sent>> PROVE DeliveredInOrder'
    BY <2>1 DEF DeliveredInOrder, subVars
  <2>2. ASSUME NEW g \in Procs, Broadcast(g) PROVE DeliveredInOrder'
    <3> SUFFICES ASSUME NEW i \in subscribers', ~handler'[i].lost
                 PROVE  Matches(chan'[i].buf, sent', handler'[i].pos)
      BY DEF DeliveredInOrder, Matches
    <3>1. PICK e \in pending[g] :
            /\ chan' = [j \in SubIDs |-> IF j \in subscribers THEN Offer(chan[j], e)
                                         ELSE chan[j]]
            /\ handler' = [j \in SubIDs |->
                 [handler[j] EXCEPT !.lost = @ \/ Len(chan[j].buf) >= Capacity]]
            /\ sent' = Append(sent, e)
            /\ subscribers' = subscribers
      BY <2>2 DEF Broadcast
    <3>2. i \in SubIDs /\ handler[i] \in Handler /\ chan[i] \in Channel
      BY <2>0, <3>1 DEF TypeOK
    <3>3. /\ ~handler[i].lost /\ Len(chan[i].buf) < Capacity
          /\ handler'[i].pos = handler[i].pos
      <4>1. handler'[i] = [handler[i] EXCEPT !.lost = @ \/ Len(chan[i].buf) >= Capacity]
        BY <3>1, <3>2
      <4>2. /\ handler'[i].lost = (handler[i].lost \/ Len(chan[i].buf) >= Capacity)
            /\ handler'[i].pos = handler[i].pos
        BY <3>2, <4>1 DEF Handler
      <4>3. Len(chan[i].buf) \in Nat /\ Capacity \in Nat
        BY <3>2, RegistryAssumption DEF Channel, Capacity
      <4>4. ~handler[i].lost /\ ~(Len(chan[i].buf) >= Capacity)
        BY <4>2
      <4> QED
        BY <4>2, <4>3, <4>4
    <3>4. chan'[i].buf = Append(chan[i].buf, e)
      BY <3>1, <3>2, <3>3 DEF Offer, Channel
    <3>5. e \in Event /\ sent \in Seq(Event) /\ chan[i].buf \in Seq(Event)
          /\ handler[i].pos \in Nat
      BY <3>1, <3>2 DEF TypeOK, Channel, Handler
    <3>6. Matches(chan[i].buf, sent, handler[i].pos)
      BY <2>0, <3>1, <3>3
    <3> HIDE DEF OK
    <3>7. sent' = Append(sent, e)
      BY <3>1
    <3>8. Matches(Append(chan[i].buf, e), Append(sent, e), handler[i].pos)
      BY <3>5, <3>6, AppendKeepsMatch
    <3> QED
      BY <3>3, <3>4, <3>7, <3>8
  <2>3. ASSUME Subscribe PROVE DeliveredInOrder'
    <3>1. \A i \in subscribers : i # nextSubID /\ chan'[i] = chan[i] /\ handler'[i] = handler[i]
      BY <2>0, <2>3 DEF Subscribe, Put, TypeOK, SubIDs
    <3>2. /\ chan'[nextSubID].buf = << >>
          /\ handler'[nextSubID].pos = Len(sent) /\ Len(sent) \in Nat
      BY <2>3 DEF Subscribe, Put, TypeOK
    <3>3. subscribers' = subscribers \cup {nextSubID} /\ sent' = sent
      BY <2>3 DEF Subscribe
    <3>4. ASSUME NEW i \in subscribers PROVE OK(i, handler'[i], chan'[i], sent')
      BY <2>0, <3>1, <3>3
    <3>5. OK(nextSubID, handler'[nextSubID], chan'[nextSubID], sent')
      BY <3>2, <3>3 DEF Matches
    <3> QED
      BY <3>3, <3>4, <3>5 DEF DeliveredInOrder, Matches
  <2>4. ASSUME NEW i \in SubIDs, Replay(i) PROVE DeliveredInOrder'
    <3>1. \A j \in SubIDs : /\ handler'[j].lost = handler[j].lost
                            /\ handler'[j].pos = handler[j].pos
      BY <2>4 DEF Replay, TypeOK, Handler
    <3>2. chan' = chan /\ subscribers' = subscribers /\ sent' = sent
      BY <2>4 DEF Replay
    <3>3. ASSUME NEW j \in subscribers PROVE OK(j, handler'[j], chan'[j], sent')
      BY <2>0, <3>1, <3>2
    <3> QED
      BY <3>2, <3>3 DEF DeliveredInOrder, Matches
  <2>5. ASSUME NEW i \in SubIDs, Forward(i) PROVE DeliveredInOrder'
    <3>1. /\ \A j \in SubIDs \ {i} : chan'[j] = chan[j] /\ handler'[j] = handler[j]
          /\ subscribers' = subscribers /\ sent' = sent
      BY <2>5 DEF Forward, TypeOK
    <3>2. /\ chan'[i].buf = Tail(chan[i].buf) /\ chan[i].buf # << >>
          /\ handler'[i].pos = handler[i].pos + 1
          /\ handler'[i].lost = handler[i].lost
      BY <2>5 DEF Forward, TypeOK, Channel, Handler
    <3>3. chan[i].buf \in Seq(Event) /\ handler[i].pos \in Nat /\ sent \in Seq(Event)
      BY DEF TypeOK, Channel, Handler
    <3>4. ASSUME i \in subscribers, ~handler'[i].lost
          PROVE  Matches(chan'[i].buf, sent, handler'[i].pos)
      <4>1. Matches(chan[i].buf, sent, handler[i].pos)
        BY <2>0, <3>2, <3>4
      <4> HIDE DEF OK
      <4> QED
        BY <3>2, <3>3, <4>1, TailKeepsMatch
    <3>5. ASSUME NEW j \in subscribers \ {i} PROVE OK(j, handler'[j], chan'[j], sent')
      BY <2>0, <3>1
    <3> QED
      BY <3>1, <3>4, <3>5 DEF DeliveredInOrder, Matches
  <2>6. ASSUME NEW i \in SubIDs, Cancel(i) PROVE DeliveredInOrder'
    <3>1. \A j \in SubIDs : /\ handler'[j].lost = handler[j].lost
                            /\ handler'[j].pos = handler[j].pos
                            /\ chan'[j].buf = chan[j].buf
      BY <2>6 DEF Cancel, TypeOK, Handler, Channel
    <3> QED
      BY <2>0, <2>6, <3>1 DEF Cancel, DeliveredInOrder
  <2> QED
    BY <2>1, <2>2, <2>3, <2>4, <2>5, <2>6, NextCases
       DEF Join, RemoteAdded, RemoteHeartbeat, RemoteRemoved, TouchSelfHeartbeat,
           Prune, Tick, vars, subVars
<1> QED
  BY <1>1, <1>2, TypeCorrect, PTL DEF Spec

-----------------------------------------------------------------------------
(***************************************************************************)
(* NoChangeMissed.  It is inductive with TypeOK: every change of the peer  *)
(* map leaves its event in pending, Broadcast moves it to the channel of   *)
(* every subscriber that is not marked lost and Forward to the reader.     *)
(***************************************************************************)

\* Some goroutine still has to broadcast an event of type t about id.
Queued(t, id) == \E g \in Procs : \E e \in pending[g] : e.Type = t /\ e.Peer.NodeID = id

\* What is announced to a reader stays announced as long as nothing is taken
\* from its channel or from a goroutine's pending events.
LEMMA AnnouncedStays ==
  ASSUME NEW i, chan'[i].buf = chan[i].buf, handler'[i].got = handler[i].got,
         \A g \in Procs : pending[g] \subseteq pending'[g],
         NEW t, NEW id, Announced(t, id, i)
  PROVE  Announced(t, id, i)'
BY DEF Announced

\* A step of mu that queues an event for each entry it adds or deletes, apart
\* from the entries it marks silent, misses nothing.
LEMMA RegistryStep ==
  ASSUME NoChangeMissed, UNCHANGED subVars,
         \A g \in Procs : pending[g] \subseteq pending'[g],
         \A id \in DOMAIN peers' \ DOMAIN peers : id \in silent' \/ Queued("peer_added", id)',
         \A id \in DOMAIN peers \ DOMAIN peers' : Queued("peer_removed", id)',
         silent \cap (DOMAIN peers') \subseteq silent'
  PROVE  NoChangeMissed'
<1> SUFFICES ASSUME NEW i \in subscribers', handler'[i].pc = "forward", ~handler'[i].lost
             PROVE  /\ \A id \in (DOMAIN peers') \ (handler'[i].snap \cup silent') :
                         Announced("peer_added", id, i)'
                    /\ \A id \in handler'[i].snap \ (DOMAIN peers' \cup {SelfID}) :
                         Announced("peer_removed", id, i)'
  BY DEF NoChangeMissed
<1>1. /\ i \in subscribers /\ handler'[i] = handler[i] /\ chan'[i] = chan[i]
      /\ handler[i].pc = "forward" /\ ~handler[i].lost
  BY DEF subVars
<1>2. \A t, id : Queued(t, id)' => Announced(t, id, i)'
  BY DEF Queued, Announced
<1>3. \A t, id : Announced(t, id, i) => Announced(t, id, i)'
  BY <1>1, AnnouncedStays
<1>4. /\ \A id \in DOMAIN peers \ (handler[i].snap \cup silent) :
           Announced("peer_added", id, i)
      /\ \A id \in handler[i].snap \ (DOMAIN peers \cup {SelfID}) :
           Announced("peer_removed", id, i)
  BY <1>1 DEF NoChangeMissed
<1> QED
  BY <1>1, <1>2, <1>3, <1>4

\* An insertion either changes the registry or adds no entry.
LEMMA NewEntryIsChange ==
  ASSUME TypeOK, NEW p, NEW id \in DOMAIN Upsert(SelfID, peers, p, now) \ DOMAIN peers
  PROVE  id = p.NodeID /\ Changed(SelfID, peers, p)
BY UpsertDomain DEF Upsert, Changed

\* Join and peer_added gossip queue the event of what they insert.
LEMMA QueuedInsert ==
  ASSUME TypeOK, NEW g \in Procs, NEW p \in Peer, pending[g] = {}, Insert(p, FALSE),
         pending' = [pending EXCEPT ![g] =
           IF Changed(SelfID, peers, p)
           THEN {PeerAdded(Stored(SelfID, peers, p, now))} ELSE {}],
         NoChangeMissed, UNCHANGED subVars
  PROVE  NoChangeMissed'
<1>1. \A h \in Procs : pending[h] \subseteq pending'[h]
  BY DEF TypeOK
<1>2. Stored(SelfID, peers, p, now).NodeID = p.NodeID
  BY StoredType, RegistryAssumption DEF TypeOK
<1>3. ASSUME NEW id \in DOMAIN peers' \ DOMAIN peers PROVE Queued("peer_added", id)'
  <2>1. id = p.NodeID /\ Changed(SelfID, peers, p)
    BY NewEntryIsChange DEF Insert
  <2>2. pending'[g] = {PeerAdded(Stored(SelfID, peers, p, now))}
    BY <2>1 DEF TypeOK
  <2>3. /\ PeerAdded(Stored(SelfID, peers, p, now)).Type = "peer_added"
        /\ PeerAdded(Stored(SelfID, peers, p, now)).Peer.NodeID = id
    BY <1>2, <2>1 DEF PeerAdded
  <2> QED
    BY <2>2, <2>3 DEF Queued
<1>4. DOMAIN peers \subseteq DOMAIN peers' /\ silent' = silent
  BY UpsertDomain DEF Insert
<1> QED
  BY <1>1, <1>3, <1>4, RegistryStep

\* A reader that lost nothing is told of every arrival and departure since the
\* roster it replayed: Subscribe comes before the replay.
THEOREM ChangesAnnounced == Spec => []NoChangeMissed
<1>1. Init => NoChangeMissed
  BY DEF Init, NoChangeMissed
<1>2. TypeOK /\ NoChangeMissed /\ [Next]_vars => NoChangeMissed'
  <2> SUFFICES ASSUME TypeOK, NoChangeMissed, [Next]_vars PROVE NoChangeMissed'
    OBVIOUS
  <2>0. now \in Nat /\ SelfID \in NodeIDs /\ Updates \subseteq Peer
    BY RegistryAssumption DEF TypeOK
  <2>1. ASSUME NEW g \in Procs, NEW p \in Updates, Join(g, p) PROVE NoChangeMissed'
    <3>1. JoinDefaults(p) \in Peer
      BY <2>0, JoinDefaultsType
    <3> QED
      BY <2>1, <3>1, QueuedInsert DEF Join, Idle
  <2>2. ASSUME NEW g \in Procs, NEW p \in Updates, RemoteAdded(g, p) PROVE NoChangeMissed'
    BY <2>0, <2>2, QueuedInsert DEF RemoteAdded, Idle
  <2>3. ASSUME NEW g \in Procs, NEW p \in Updates, RemoteHeartbeat(g, p)
        PROVE  NoChangeMissed'
    <3>1. DOMAIN peers \subseteq DOMAIN peers'
      BY <2>3, UpsertDomain DEF RemoteHeartbeat, Insert
    <3>2. silent' = silent \cup (DOMAIN peers' \ DOMAIN peers)
      BY <2>3 DEF RemoteHeartbeat, Insert
    <3> QED
      BY <2>3, <3>1, <3>2, RegistryStep DEF RemoteHeartbeat
  <2>4. ASSUME NEW g \in Procs, NEW id \in NodeIDs, RemoteRemoved(g, id)
        PROVE  NoChangeMissed'
    <3>1. DOMAIN peers' = DOMAIN peers \ {id}
      BY <2>0, <2>4, DropType DEF RemoteRemoved, Remove, TypeOK
    <3>2. pending'[g] = {PeerRemoved(peers[id])} /\ peers[id].NodeID = id
      BY <2>4 DEF RemoteRemoved, TypeOK, PeerMap
    <3>3. Queued("peer_removed", id)'
      <4>1. /\ PeerRemoved(peers[id]).Type = "peer_removed"
            /\ PeerRemoved(peers[id]).Peer.NodeID = id
        BY <3>2 DEF PeerRemoved
      <4> QED
        BY <3>2, <4>1 DEF Queued
    <3>4. \A h \in Procs : pending[h] \subseteq pending'[h]
      BY <2>4 DEF RemoteRemoved, Idle, TypeOK
    <3> QED
      BY <2>4, <3>1, <3>3, <3>4, RegistryStep DEF RemoteRemoved
  <2>5. ASSUME NEW g \in Procs, TouchSelfHeartbeat(g) PROVE NoChangeMissed'
    <3>1. \A h \in Procs : pending[h] \subseteq pending'[h]
      BY <2>5 DEF TouchSelfHeartbeat, Idle, TypeOK
    <3> QED
      BY <2>5, <3>1, RegistryStep DEF TouchSelfHeartbeat
  <2>6. ASSUME NEW g \in Procs, Prune(g) PROVE NoChangeMissed'
    <3> DEFINE dead == Stale(peers, now, DeadAfter)
    <3>0. dead \subseteq DOMAIN peers /\ peers' = Drop(peers, dead)
      BY <2>6 DEF Prune, PruneStale, Stale
    <3>1. DOMAIN peers' = DOMAIN peers \ dead /\ dead \subseteq DOMAIN peers
      BY <3>0 DEF Drop
    <3>2. pending'[g] = {PeerRemoved(peers[id]) : id \in dead}
      BY <2>6 DEF Prune, TypeOK
    <3>3. \A h \in Procs : pending[h] \subseteq pending'[h]
      BY <2>6 DEF Prune, Idle, TypeOK
    <3>4. silent' = silent \ dead
      BY <2>6 DEF Prune
    <3>5. ASSUME NEW id \in dead PROVE Queued("peer_removed", id)'
      <4>1. PeerRemoved(peers[id]) \in pending'[g] /\ peers[id].NodeID = id
        BY <3>1, <3>2 DEF TypeOK, PeerMap
      <4>2. /\ PeerRemoved(peers[id]).Type = "peer_removed"
            /\ PeerRemoved(peers[id]).Peer.NodeID = id
        BY <4>1 DEF PeerRemoved
      <4> QED
        BY <4>1, <4>2 DEF Queued
    <3> HIDE DEF dead
    <3> QED
      BY <2>6, <3>1, <3>3, <3>4, <3>5, RegistryStep DEF Prune
  <2>7. ASSUME NEW g \in Procs, Broadcast(g) PROVE NoChangeMissed'
    <3>1. PICK e \in pending[g] :
            /\ pending' = [pending EXCEPT ![g] = @ \ {e}]
            /\ chan' = [j \in SubIDs |-> IF j \in subscribers THEN Offer(chan[j], e)
                                         ELSE chan[j]]
            /\ handler' = [j \in SubIDs |->
                 [handler[j] EXCEPT !.lost = @ \/ Len(chan[j].buf) >= Capacity]]
            /\ UNCHANGED <<regVars, subscribers>>
      BY <2>7 DEF Broadcast
    <3> SUFFICES ASSUME NEW i \in subscribers, handler'[i].pc = "forward", ~handler'[i].lost
                 PROVE  /\ \A id \in DOMAIN peers \ (handler'[i].snap \cup silent) :
                             Announced("peer_added", id, i)'
                        /\ \A id \in handler'[i].snap \ (DOMAIN peers \cup {SelfID}) :
                             Announced("peer_removed", id, i)'
      BY <3>1 DEF NoChangeMissed, regVars
    <3>2. i \in SubIDs /\ handler[i] \in Handler /\ chan[i] \in Channel /\ e \in Event
      BY <3>1 DEF TypeOK
    <3>3. handler'[i] = [handler[i] EXCEPT !.lost = @ \/ Len(chan[i].buf) >= Capacity]
      BY <3>1, <3>2
    <3>4. /\ handler'[i].lost = (handler[i].lost \/ Len(chan[i].buf) >= Capacity)
          /\ handler'[i].pc = handler[i].pc /\ handler'[i].snap = handler[i].snap
          /\ handler'[i].got = handler[i].got
      BY <3>2, <3>3 DEF Handler
    <3>5. ~handler[i].lost /\ ~(Len(chan[i].buf) >= Capacity)
      BY <3>4
    <3>6. Len(chan[i].buf) \in Nat /\ Capacity \in Nat /\ chan[i].buf \in Seq(Event)
      BY <3>2, RegistryAssumption DEF Channel, Capacity
    <3>7. chan'[i].buf = Append(chan[i].buf, e)
      BY <3>1, <3>2, <3>5, <3>6 DEF Offer, Channel
    <3>8. \A k \in 1 .. Len(chan[i].buf) : k \in 1 .. Len(chan'[i].buf) /\ chan'[i].buf[k] = chan[i].buf[k]
      BY <3>2, <3>6, <3>7
    <3>9. Len(chan'[i].buf) \in 1 .. Len(chan'[i].buf) /\ chan'[i].buf[Len(chan'[i].buf)] = e
      BY <3>2, <3>6, <3>7
    <3>10. ASSUME NEW t, NEW id, Announced(t, id, i) PROVE Announced(t, id, i)'
      <4>1. CASE <<t, id>> \in handler[i].got
        BY <3>4, <4>1 DEF Announced
      <4>2. CASE \E k \in 1 .. Len(chan[i].buf) :
                   chan[i].buf[k].Type = t /\ chan[i].buf[k].Peer.NodeID = id
        BY <3>8, <4>2 DEF Announced
      <4>3. CASE \E h \in Procs : \E f \in pending[h] : f.Type = t /\ f.Peer.NodeID = id
        <5>0. PICK h \in Procs : \E f \in pending[h] : f.Type = t /\ f.Peer.NodeID = id
          BY <4>3
        <5>1. PICK f \in pending[h] : f.Type = t /\ f.Peer.NodeID = id
          BY <5>0
        <5>2. CASE f = e
          BY <3>9, <5>1, <5>2 DEF Announced
        <5>3. CASE f # e
          <6>1. f \in pending'[h]
            BY <3>1, <5>1, <5>3 DEF TypeOK
          <6> QED
            BY <5>1, <6>1 DEF Announced
        <5> QED
          BY <5>2, <5>3
      <4> QED
        BY <3>10, <4>1, <4>2, <4>3 DEF Announced
    <3>11. /\ \A id \in DOMAIN peers \ (handler[i].snap \cup silent) :
                Announced("peer_added", id, i)
           /\ \A id \in handler[i].snap \ (DOMAIN peers \cup {SelfID}) :
                Announced("peer_removed", id, i)
      BY <3>4, <3>5 DEF NoChangeMissed
    <3> QED
      BY <3>4, <3>10, <3>11
  <2>8. ASSUME Subscribe PROVE NoChangeMissed'
    <3>1. \A i \in subscribers : i # nextSubID /\ chan'[i] = chan[i] /\ handler'[i] = handler[i]
      BY <2>8 DEF Subscribe, Put, TypeOK, SubIDs
    <3>2. handler'[nextSubID].pc = "subscribed"
      BY <2>8 DEF Subscribe, Put
    <3>3. /\ subscribers' = subscribers \cup {nextSubID} /\ pending' = pending
          /\ peers' = peers /\ silent' = silent
      BY <2>8 DEF Subscribe, regVars
    <3>4. \A i \in subscribers : \A t, id : Announced(t, id, i) => Announced(t, id, i)'
      BY <3>1, <3>3, AnnouncedStays
    <3> QED
      BY <3>1, <3>2, <3>3, <3>4 DEF NoChangeMissed
  <2>9. ASSUME NEW i \in SubIDs, Replay(i) PROVE NoChangeMissed'
    <3>1. /\ chan' = chan /\ pending' = pending /\ subscribers' = subscribers
          /\ peers' = peers /\ silent' = silent /\ self' = self
      BY <2>9 DEF Replay, regVars
    <3>2. \A j \in SubIDs \ {i} : handler'[j] = handler[j]
      BY <2>9 DEF Replay, TypeOK
    <3>3. handler'[i].snap = {p.NodeID : p \in Roster(self, peers)}
      BY <2>9 DEF Replay, TypeOK, Handler
    <3>4. {p.NodeID : p \in Roster(self, peers)} = DOMAIN peers \cup {SelfID}
      BY DEF TypeOK, PeerMap, Roster, Peers
    <3>5. \A j \in subscribers \ {i} : \A t, id : Announced(t, id, j) => Announced(t, id, j)'
      BY <3>1, <3>2, AnnouncedStays DEF TypeOK
    <3> QED
      BY <3>1, <3>2, <3>3, <3>4, <3>5 DEF NoChangeMissed, TypeOK
  <2>10. ASSUME NEW i \in SubIDs, Forward(i) PROVE NoChangeMissed'
    <3>1. /\ pending' = pending /\ subscribers' = subscribers
          /\ peers' = peers /\ silent' = silent
      BY <2>10 DEF Forward, regVars
    <3>2. \A j \in SubIDs \ {i} : chan'[j] = chan[j] /\ handler'[j] = handler[j]
      BY <2>10 DEF Forward, TypeOK
    <3>3. \A j \in subscribers \ {i} : \A t, id : Announced(t, id, j) => Announced(t, id, j)'
      BY <3>1, <3>2, AnnouncedStays DEF TypeOK
    <3> DEFINE e == Head(chan[i].buf)
    <3>4. /\ chan'[i].buf = Tail(chan[i].buf) /\ chan[i].buf # << >>
          /\ handler'[i].got = handler[i].got \cup {<<e.Type, e.Peer.NodeID>>}
          /\ handler'[i].lost = handler[i].lost /\ handler'[i].pc = handler[i].pc
          /\ handler'[i].snap = handler[i].snap
      BY <2>10 DEF Forward, TypeOK, Channel, Handler
    <3>5. chan[i].buf \in Seq(Event)
      BY DEF TypeOK, Channel
    <3>6. ASSUME NEW t, NEW id, Announced(t, id, i) PROVE Announced(t, id, i)'
      <4>1. CASE <<t, id>> \in handler[i].got
        BY <3>4, <4>1 DEF Announced
      <4>2. CASE \E k \in 1 .. Len(chan[i].buf) :
                   chan[i].buf[k].Type = t /\ chan[i].buf[k].Peer.NodeID = id
        <5>1. PICK k \in 1 .. Len(chan[i].buf) :
                chan[i].buf[k].Type = t /\ chan[i].buf[k].Peer.NodeID = id
          BY <4>2
        <5>2. CASE k = 1
          <6>1. e = chan[i].buf[1]
            BY <3>4, <3>5
          <6> HIDE DEF e
          <6> QED
            BY <3>4, <5>1, <5>2, <6>1 DEF Announced
        <5>3. CASE k # 1
          <6>1. k - 1 \in 1 .. Len(Tail(chan[i].buf)) /\ Tail(chan[i].buf)[k - 1] = chan[i].buf[k]
            BY <3>4, <3>5, <5>1, <5>3, HeadTailProperties
          <6> QED
            BY <3>4, <5>1, <6>1 DEF Announced
        <5> QED
          BY <5>2, <5>3
      <4>3. CASE \E h \in Procs : \E f \in pending[h] : f.Type = t /\ f.Peer.NodeID = id
        BY <3>1, <4>3 DEF Announced
      <4> QED
        BY <3>6, <4>1, <4>2, <4>3 DEF Announced
    <3> HIDE DEF e
    <3> QED
      BY <3>1, <3>2, <3>3, <3>4, <3>6 DEF NoChangeMissed, TypeOK
  <2>11. ASSUME NEW i \in SubIDs, Cancel(i) PROVE NoChangeMissed'
    <3>1. /\ pending' = pending /\ subscribers' \subseteq subscribers \ {i}
          /\ peers' = peers /\ silent' = silent
      BY <2>11 DEF Cancel, regVars
    <3>2. \A j \in SubIDs \ {i} : chan'[j] = chan[j] /\ handler'[j] = handler[j]
      BY <2>11 DEF Cancel, TypeOK
    <3>3. \A j \in subscribers \ {i} : \A t, id : Announced(t, id, j) => Announced(t, id, j)'
      BY <3>1, <3>2, AnnouncedStays DEF TypeOK
    <3> QED
      BY <3>1, <3>2, <3>3 DEF NoChangeMissed, TypeOK
  <2>12. ASSUME UNCHANGED <<regVars, pending, subVars>> PROVE NoChangeMissed'
    <3>1. \A i, t, id : Announced(t, id, i) => Announced(t, id, i)'
      BY <2>12, AnnouncedStays DEF subVars
    <3> QED
      BY <2>12, <3>1 DEF NoChangeMissed, regVars, subVars
  <2> QED
    BY <2>1, <2>2, <2>3, <2>4, <2>5, <2>6, <2>7, <2>8, <2>9, <2>10, <2>11, <2>12, NextCases
       DEF Tick, vars, regVars, subVars
<1> QED
  BY <1>1, <1>2, TypeCorrect, PTL DEF Spec

=============================================================================
