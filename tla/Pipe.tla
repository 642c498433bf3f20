-------------------------------- MODULE Pipe --------------------------------
(***************************************************************************)
(* What GET /fleet/events promises its reader: on each connection, the     *)
(* events it was sent, whole, in order and without gaps, up to the point   *)
(* where the connection is lost.                                           *)
(***************************************************************************)
EXTENDS Naturals, Sequences

CONSTANTS Events,    \* what is sent
          MaxSent    \* bound on the events of a connection

VARIABLES
  sent,       \* the events of this connection, in the order they were sent
  delivered   \* the events that were delivered

Init == sent = << >> /\ delivered = << >>

Send == /\ Len(sent) < MaxSent
        /\ \E e \in Events : sent' = Append(sent, e)
        /\ UNCHANGED delivered

\* The next one is delivered.
Deliver == /\ Len(delivered) < Len(sent)
           /\ delivered' = Append(delivered, sent[Len(delivered) + 1])
           /\ UNCHANGED sent

\* A new connection; what was not delivered is lost.
Reconnect == sent' = << >> /\ delivered' = << >>

Next == Send \/ Deliver \/ Reconnect

Spec == Init /\ [][Next]_<<sent, delivered>>
=============================================================================
