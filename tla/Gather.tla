------------------------------- MODULE Gather -------------------------------
(***************************************************************************)
(* What the fleet_query tool promises its caller: the members asked are    *)
(* the roster of one moment, every one of them gets exactly one answer     *)
(* under its own name, an answer never changes, and the query ends when    *)
(* all are in, which happens whatever the members do.                      *)
(***************************************************************************)
EXTENDS Naturals, Sequences

CONSTANTS
  Rosters,   \* what the registry may list: sequences of members
  Answers,   \* possible answers
  None       \* no answer yet

VARIABLES phase, asked, answer

vars == <<phase, asked, answer>>

Init == phase = "idle" /\ asked = << >> /\ answer = << >>

\* A query that cannot be asked (no fleet, no tool) is answered at once.
Refuse == /\ phase = "idle" /\ phase' = "done"
          /\ UNCHANGED <<asked, answer>>

Ask == /\ phase = "idle" /\ phase' = "open"
       /\ asked' \in Rosters
       /\ answer' = [i \in DOMAIN asked' |-> None]

Answer(i) == /\ phase = "open"
             /\ answer[i] = None
             /\ \E a \in Answers :
                  /\ a.NodeID = asked[i].NodeID
                  /\ answer' = [answer EXCEPT ![i] = a]
             /\ UNCHANGED <<phase, asked>>

Conclude == /\ phase = "open" /\ phase' = "done"
            /\ \A i \in DOMAIN asked : answer[i] # None
            /\ UNCHANGED <<asked, answer>>

Next == Refuse \/ Ask \/ Conclude \/ \E i \in DOMAIN asked : Answer(i)

Spec == Init /\ [][Next]_vars

\* Asked or refused, the query ends.
Ends == <>(phase = "done")
=============================================================================
