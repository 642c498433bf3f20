----------------------------- MODULE MCRegistry -----------------------------
(***************************************************************************)
(* An instance of Registry for TLC: one remote node that joins, is         *)
(* gossiped and heartbeats with two different times, a partial record as a *)
(* peer may send it, a blank identifier and the local node's own record.   *)
(***************************************************************************)
EXTENDS Registry

MCPeer(id, url, joined, beat) ==
  [NodeID |-> id, AdvertiseURL |-> url, Version |-> 1, Tools |-> 1,
   JoinedAt |-> joined, LastHeartbeat |-> beat]

\* The times of the partial record are left to the server.
MCUpdates == {MCPeer(2, 1, 1, 2),
              [MCPeer(2, 0, 0, 0) EXCEPT !.Version = 0, !.Tools = 0],
              MCPeer(0, 1, 1, 1), MCPeer(1, 1, 1, 2)}

=============================================================================
