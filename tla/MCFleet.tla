------------------------------ MODULE MCFleet ------------------------------
(***************************************************************************)
(* Instances of Fleet for TLC.                                             *)
(***************************************************************************)
EXTENDS Fleet

\* Every process on an address of its own; the others join through node 1.
MCHost == [n \in NodeIDs |-> n]
MCStar == [n \in NodeIDs |-> IF n = 1 THEN 0 ELSE 1]

\* The nodes in up have started, those in mesh know and follow each other, the one
\* in early was refused by the address of node 1 and waits for its retry.
Begun(up, mesh, early) ==
  /\ now = 1
  /\ phase = [n \in NodeIDs |-> IF n \in up THEN "run" ELSE "off"]
  /\ self = [n \in NodeIDs |-> SelfPeer(n, IF n \in up THEN 1 ELSE 0)]
  /\ boot = [n \in NodeIDs |-> IF n \in early THEN [NoBoot EXCEPT !.pc = "retry"] ELSE NoBoot]
  /\ LET others(n) == IF n \in mesh THEN mesh \ {n} ELSE {} IN
       /\ peers = [n \in NodeIDs |-> [m \in others(n) |-> SelfPeer(m, 1)]]
       /\ streams = [n \in NodeIDs |-> [m \in others(n) |->
                       [Dialing({}) EXCEPT !.st = "open", !.to = m]]]
  /\ beaten = [n \in NodeIDs |-> 0]
  /\ evicting = [n \in NodeIDs |-> {}]
  /\ local = [n \in NodeIDs |-> << >>]
  /\ heard = [n \in NodeIDs |-> [m \in NodeIDs |-> 0]]

\* Two nodes join node 1, one of them perhaps early, and nothing fails; or node 3
\* joins the other two, and its announcements and answers may fail or streams break.
JoinInit ==
  \/ faults = MaxFaults /\ \E early \in SUBSET {2} : Begun({1} \cup early, {}, early)
  \/ faults = 0 /\ Begun({1, 2}, {1, 2}, {})

JoinSpec == JoinInit /\ [][Next]_vars

\* A settled mesh in which node 1 brought the others together: what one of
\* them learned of another over its stream to node 1 may have made that stream
\* the parent context.
MeshInit ==
  /\ now = 1 /\ faults = 0
  /\ phase = [n \in NodeIDs |-> "run"]
  /\ self = [n \in NodeIDs |-> SelfPeer(n, 1)]
  /\ peers = [n \in NodeIDs |-> [m \in NodeIDs \ {n} |-> SelfPeer(m, 1)]]
  /\ beaten = [n \in NodeIDs |-> 1]
  /\ boot = [n \in NodeIDs |-> NoBoot]
  /\ evicting = [n \in NodeIDs |-> {}]
  /\ local = [n \in NodeIDs |-> << >>]
  /\ \E viaFirst \in SUBSET {nm \in NodeIDs \X NodeIDs : 1 \notin {nm[1], nm[2]}} :
       streams = [n \in NodeIDs |-> [m \in NodeIDs \ {n} |->
         [Dialing(IF <<n, m>> \in viaFirst THEN {1} ELSE {})
            EXCEPT !.st = "open", !.to = m]]]
  /\ heard = [n \in NodeIDs |-> [m \in NodeIDs |-> IF m = n THEN 0 ELSE 1]]

MeshSpec == MeshInit /\ [][Next]_vars

FairMeshSpec == MeshSpec /\ Fairness

\* Node 3 of a settled mesh died right after its first beat, the others beat
\* on and it has just become stale.
StaleInit ==
  LET lost == 3
      t    == DeadAfter + 2
      rec(m) == [SelfPeer(m, 1) EXCEPT !.LastHeartbeat = IF m = lost THEN 1 ELSE t]
  IN
  /\ now = t /\ faults = 0
  /\ phase = [n \in NodeIDs |-> IF n = lost THEN "dead" ELSE "run"]
  /\ self = [n \in NodeIDs |-> rec(n)]
  /\ peers = [n \in NodeIDs |-> [m \in (IF n = lost THEN {} ELSE NodeIDs \ {n}) |-> rec(m)]]
  /\ beaten = [n \in NodeIDs |-> rec(n).LastHeartbeat]
  /\ boot = [n \in NodeIDs |-> NoBoot]
  /\ evicting = [n \in NodeIDs |-> {}]
  /\ local = [n \in NodeIDs |-> << >>]
  /\ streams = [n \in NodeIDs |-> [m \in (IF n = lost THEN {} ELSE NodeIDs \ {n}) |->
       IF m = lost THEN Dialing({})
       ELSE [Dialing({}) EXCEPT !.st = "open", !.to = m]]]
  /\ heard = [n \in NodeIDs |-> [m \in NodeIDs |-> IF m = n THEN 0 ELSE rec(m).LastHeartbeat]]

FairStaleSpec == StaleInit /\ [][Next]_vars /\ Fairness

=============================================================================
