------------------------- MODULE RegistryOpsProofs -------------------------
(***************************************************************************)
(* What the operations on a peer map return and preserve, for any set of   *)
(* identifiers, URLs, versions and tool lists.                             *)
(***************************************************************************)
EXTENDS RegistryOps, TLAPS

\* Upsert's merge keeps the identity and the joining time of an entry and
\* yields a well-formed record.
LEMMA MergeType ==
  ASSUME NEW prev \in Peer, NEW p \in Peer
  PROVE  /\ Merge(prev, p) \in Peer
         /\ Merge(prev, p).NodeID = prev.NodeID
         /\ Merge(prev, p).JoinedAt = prev.JoinedAt
<1> DEFINE a == IF p.AdvertiseURL # 0 THEN p.AdvertiseURL ELSE prev.AdvertiseURL
           v == IF p.Version # 0 THEN p.Version ELSE prev.Version
           t == IF p.Tools # 0 THEN p.Tools ELSE prev.Tools
           h == IF p.LastHeartbeat # 0 THEN p.LastHeartbeat ELSE prev.LastHeartbeat
<1>1. /\ a \in URLs \cup {0} /\ v \in Versions \cup {0} /\ t \in ToolLists \cup {0} /\ h \in Nat
  BY DEF Peer
<1>2. Merge(prev, p) = [prev EXCEPT !.AdvertiseURL = a, !.Version = v, !.Tools = t,
                                    !.LastHeartbeat = h]
  BY DEF Merge
<1> HIDE DEF a, v, t, h
<1> QED
  BY <1>1, <1>2 DEF Peer

\* What Upsert returns is a record about the node it was given.
LEMMA StoredType ==
  ASSUME NEW self \in NodeIDs, NEW m, PeerMap(self, m),
         NEW p \in Peer, NEW now \in Nat
  PROVE  /\ Stored(self, m, p, now) \in Peer
         /\ Stored(self, m, p, now).NodeID = p.NodeID
<1>1. CASE Ignored(self, p)
  BY <1>1 DEF Stored
<1>2. CASE ~Ignored(self, p) /\ p.NodeID \in DOMAIN m
  <2>1. m[p.NodeID] \in Peer /\ m[p.NodeID].NodeID = p.NodeID
    BY <1>2 DEF PeerMap
  <2> QED
    BY <1>2, <2>1, MergeType DEF Stored
<1>3. CASE ~Ignored(self, p) /\ p.NodeID \notin DOMAIN m
  <2>1. Stored(self, m, p, now)
          = [p EXCEPT !.JoinedAt = IF p.JoinedAt = 0 THEN now ELSE p.JoinedAt]
    BY <1>3 DEF Stored
  <2> QED
    BY <2>1 DEF Peer
<1> QED
  BY <1>1, <1>2, <1>3

\* Upsert's result, whatever it does with p: the old keys are still there,
\* the only possible new key is p's, p's entry is the stored record and every
\* other entry is the old one.
LEMMA UpsertDomain ==
  ASSUME NEW self, NEW m, NEW p, NEW now
  PROVE  /\ DOMAIN m \subseteq DOMAIN Upsert(self, m, p, now)
         /\ DOMAIN Upsert(self, m, p, now) \subseteq DOMAIN m \cup {p.NodeID}
BY DEF Upsert, Put

\* What Upsert leaves under a key: the stored record under the update's own
\* identifier, the old one under every other.
LEMMA UpsertEntry ==
  ASSUME NEW self \in NodeIDs, NEW m, PeerMap(self, m), NEW p, NEW now,
         NEW id \in DOMAIN Upsert(self, m, p, now)
  PROVE  Upsert(self, m, p, now)[id]
           = IF id = p.NodeID THEN Stored(self, m, p, now) ELSE m[id]
<1>1. CASE Ignored(self, p)
  <2>1. Upsert(self, m, p, now) = m
    BY <1>1 DEF Upsert
  <2>2. id \in NodeIDs \ {self} /\ 0 \notin NodeIDs
    BY <2>1, DataAssumption DEF PeerMap
  <2> QED
    BY <1>1, <2>1, <2>2 DEF Ignored
<1>2. CASE ~Ignored(self, p)
  BY <1>2 DEF Upsert, Put
<1> QED
  BY <1>1, <1>2

\* The result of Upsert is a peer map of the same node.
LEMMA UpsertType ==
  ASSUME NEW self \in NodeIDs, NEW m, PeerMap(self, m),
         NEW p \in Peer, NEW now \in Nat
  PROVE  PeerMap(self, Upsert(self, m, p, now))
<1>1. CASE Ignored(self, p)
  BY <1>1 DEF Upsert
<1>2. CASE ~Ignored(self, p)
  <2>1. p.NodeID \in NodeIDs \ {self}
    BY <1>2 DEF Ignored, Peer
  <2>2. DOMAIN m \subseteq NodeIDs \ {self}
    BY DEF PeerMap
  <2>3. Stored(self, m, p, now) \in Peer /\ Stored(self, m, p, now).NodeID = p.NodeID
    BY StoredType
  <2>4. ASSUME NEW id \in DOMAIN Upsert(self, m, p, now)
        PROVE  /\ Upsert(self, m, p, now)[id] \in Peer
               /\ Upsert(self, m, p, now)[id].NodeID = id
    <3>1. CASE id = p.NodeID
      BY <2>3, <3>1, UpsertEntry
    <3>2. CASE id # p.NodeID
      <4>1. Upsert(self, m, p, now)[id] = m[id] /\ id \in DOMAIN m
        BY <3>2, UpsertEntry, UpsertDomain
      <4> QED
        BY <4>1 DEF PeerMap
    <3> QED
      BY <3>1, <3>2
  <2>5. DOMAIN Upsert(self, m, p, now) \subseteq NodeIDs \ {self}
    BY <2>1, <2>2, UpsertDomain
  <2> QED
    BY <2>4, <2>5 DEF PeerMap
<1> QED
  BY <1>1, <1>2

\* Upsert never changes when an entry joined.
LEMMA UpsertJoinedAt ==
  ASSUME NEW self \in NodeIDs, NEW m, PeerMap(self, m),
         NEW p \in Peer, NEW now \in Nat, NEW id \in DOMAIN m
  PROVE  Upsert(self, m, p, now)[id].JoinedAt = m[id].JoinedAt
<1>1. id \in DOMAIN Upsert(self, m, p, now)
  BY UpsertDomain
<1>2. m[id] \in Peer /\ ~(id = 0) /\ id # self
  BY DataAssumption DEF PeerMap
<1>3. CASE id # p.NodeID
  BY <1>1, <1>3, UpsertEntry
<1>4. CASE id = p.NodeID
  <2>1. Stored(self, m, p, now) = Merge(m[id], p)
    BY <1>2, <1>4 DEF Stored, Ignored
  <2>2. Merge(m[id], p).JoinedAt = m[id].JoinedAt
    BY <1>2, MergeType
  <2> QED
    BY <1>1, <1>4, <2>1, <2>2, UpsertEntry
<1> QED
  BY <1>3, <1>4

\* Deleting keys (Remove, PruneStale) leaves the other entries as they were.
LEMMA DropType ==
  ASSUME NEW self \in NodeIDs, NEW m, PeerMap(self, m), NEW ids
  PROVE  /\ PeerMap(self, Drop(m, ids))
         /\ DOMAIN Drop(m, ids) = DOMAIN m \ ids
         /\ \A id \in DOMAIN m \ ids : Drop(m, ids)[id] = m[id]
BY DEF Drop, PeerMap

=============================================================================
