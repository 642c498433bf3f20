---------------------------- MODULE RegistryOps ----------------------------
(***************************************************************************)
(* The data operations of internal/fleet/registry.go as constant           *)
(* operators: what one critical section of Registry.mu does to the map of  *)
(* remote peers.  Modules with state (Registry, Fleet) use them in their   *)
(* actions.                                                                *)
(*                                                                         *)
(* A Go map[string]Peer is a function whose domain is the set of keys.     *)
(* Node identifiers, URLs, versions and tool lists are positive numbers    *)
(* and 0 is Go's zero value: the empty string, the empty list and the zero *)
(* time.  Node identifiers are ordered because a roster is sorted by them. *)
(***************************************************************************)
EXTENDS Integers

CONSTANTS
  NodeIDs,     \* identifiers NewNodeID may have generated
  URLs,        \* advertise URLs
  Versions,    \* daemon versions
  ToolLists    \* non-empty lists of tool names, compared as a whole

ASSUME DataAssumption ==
  /\ NodeIDs \subseteq Nat \ {0}
  /\ URLs \subseteq Nat \ {0}
  /\ Versions \subseteq Nat \ {0}
  /\ ToolLists \subseteq Nat \ {0}

Peer == [NodeID        : NodeIDs \cup {0},
         AdvertiseURL  : URLs \cup {0},
         Version       : Versions \cup {0},
         Tools         : ToolLists \cup {0},
         JoinedAt      : Nat,
         LastHeartbeat : Nat]

EventType == {"heartbeat", "peer_added", "peer_removed"}

Event == [Type : EventType, Peer : Peer]

Heartbeat(p)   == [Type |-> "heartbeat", Peer |-> p]
PeerAdded(p)   == [Type |-> "peer_added", Peer |-> p]
PeerRemoved(p) == [Type |-> "peer_removed", Peer |-> p]

-----------------------------------------------------------------------------

\* Seeded fault: the local node is not filtered out.
IgnoredBlankOnly(self, p) == p.NodeID = 0

\* Upsert ignores the local node and a blank identifier.
Ignored(self, p) == p.NodeID = 0 \/ p.NodeID = self

\* Seeded fault: JoinedAt is refreshed like the other fields.
MergeRejoins(prev, p) ==
  [p EXCEPT !.JoinedAt = IF @ = 0 THEN prev.JoinedAt ELSE @]

\* Seeded fault: LastHeartbeat is not refreshed.
MergeKeepsHeartbeat(prev, p) ==
  [prev EXCEPT !.AdvertiseURL = IF p.AdvertiseURL # 0 THEN p.AdvertiseURL ELSE @]

\* The record an existing entry becomes: JoinedAt stays, the other fields are
\* taken from the update when it carries them.
Merge(prev, p) ==
  [prev EXCEPT
     !.AdvertiseURL  = IF p.AdvertiseURL # 0 THEN p.AdvertiseURL ELSE @,
     !.Version       = IF p.Version # 0 THEN p.Version ELSE @,
     !.Tools         = IF p.Tools # 0 THEN p.Tools ELSE @,
     !.LastHeartbeat = IF p.LastHeartbeat # 0 THEN p.LastHeartbeat ELSE @]

samePeer(a, b) == [a EXCEPT !.JoinedAt = 0] = [b EXCEPT !.JoinedAt = 0]

\* The map m with key id bound to p.
Put(m, id, p) == [k \in DOMAIN m \cup {id} |-> IF k = id THEN p ELSE m[k]]

\* The map m without the keys of ids.
Drop(m, ids) == [k \in DOMAIN m \ ids |-> m[k]]

\* m can be the peer map of the node with identifier self: remote nodes only,
\* each record under its own identifier.
PeerMap(self, m) ==
  /\ DOMAIN m \subseteq NodeIDs \ {self}
  /\ \A id \in DOMAIN m : m[id] \in Peer /\ m[id].NodeID = id

\* Seeded fault: a new entry is stamped with the receiver's clock.
StoredNow(self, peers, p, now) ==
  IF Ignored(self, p) THEN p
  ELSE IF p.NodeID \in DOMAIN peers THEN Merge(peers[p.NodeID], p)
  ELSE [p EXCEPT !.JoinedAt = now]

\* The three results of Upsert(p) at time now: the stored record, whether the
\* registry changed, and the map of peers afterwards.
Stored(self, peers, p, now) ==
  IF Ignored(self, p) THEN p
  ELSE IF p.NodeID \in DOMAIN peers THEN Merge(peers[p.NodeID], p)
  ELSE [p EXCEPT !.JoinedAt = IF @ = 0 THEN now ELSE @]

Changed(self, peers, p) ==
  /\ ~Ignored(self, p)
  /\ p.NodeID \in DOMAIN peers =>
       ~samePeer(peers[p.NodeID], Merge(peers[p.NodeID], p))

Upsert(self, peers, p, now) ==
  IF Ignored(self, p) THEN peers
  ELSE Put(peers, p.NodeID, Stored(self, peers, p, now))

Remove(peers, id) == Drop(peers, {id})

\* Seeded fault: the test for a zero heartbeat is inverted.
StaleInverted(peers, now, deadAfter) ==
  {id \in DOMAIN peers : /\ peers[id].LastHeartbeat = 0
                         /\ now - peers[id].LastHeartbeat > deadAfter}

\* The keys PruneStale evicts: entries with a heartbeat older than deadAfter.
Stale(peers, now, deadAfter) ==
  {id \in DOMAIN peers : /\ peers[id].LastHeartbeat # 0
                         /\ now - peers[id].LastHeartbeat > deadAfter}

\* Seeded fault: stale entries are returned but not deleted.
PruneStaleKeeps(peers, now, deadAfter) == peers

PruneStale(peers, now, deadAfter) == Drop(peers, Stale(peers, now, deadAfter))

\* Every record of the map, and of the roster, which adds the local node.
Peers(peers) == {peers[id] : id \in DOMAIN peers}

Roster(self, peers) == {self} \cup Peers(peers)

\* The record a loop over a sorted roster reaches first.
First(ps, p) == p \in ps /\ \A q \in ps : p.NodeID <= q.NodeID

=============================================================================
