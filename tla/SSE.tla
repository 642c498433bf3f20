-------------------------------- MODULE SSE ---------------------------------
(***************************************************************************)
(* One event stream between two nodes, line by line: writeSSE              *)
(* (internal/fleet/handlers.go) on one side, the reader of StreamEvents    *)
(* (internal/fleet/client.go) on the other.  The connection breaks at any  *)
(* byte, and StreamEvents is called again.                                 *)
(*                                                                         *)
(* A line is [tag, val]: "event" with a type, "data" with a peer, "blank", *)
(* or "part", the beginning of a line that was cut.                        *)
(***************************************************************************)
EXTENDS Naturals, Sequences

CONSTANTS
  Types, Peers,   \* event types, and peers as JSON
  MaxSent,        \* bound on the events of a connection
  MaxConns        \* bound on connections

SSEAssumption == MaxSent \in Nat /\ MaxConns \in Nat \ {0}

VARIABLES
  sent,       \* the events written to this connection
  wire,       \* the lines that are on their way
  open,       \* the connection is up
  conns,      \* connections made
  reader,     \* evtType and dataBuf of StreamEvents
  got         \* the events onEvent was called with, on this connection

vars == <<sent, wire, open, conns, reader, got>>

Events == [type : Types, peer : Peers]

NoType == "none"

Fresh == [evtType |-> NoType, dataBuf |-> << >>]

TypeOK ==
  /\ sent \in Seq(Events) /\ Len(sent) <= MaxSent
  /\ conns \in 1 .. MaxConns /\ open \in BOOLEAN
  /\ reader.evtType \in Types \cup {NoType}
  /\ reader.dataBuf \in Seq(Peers) /\ got \in Seq(Events)

Init == /\ sent = << >> /\ wire = << >> /\ open = TRUE /\ conns = 1
        /\ reader = Fresh /\ got = << >>

Line(tag, val) == [tag |-> tag, val |-> val]

-----------------------------------------------------------------------------
\* writeSSE: "event: <type>\ndata: <peer>\n\n" in one write.
Frame(e) == <<Line("event", e.type), Line("data", e.peer), Line("blank", NoType)>>

writeSSE ==
  /\ open /\ Len(sent) < MaxSent
  /\ \E e \in Events : /\ sent' = Append(sent, e)
                       /\ wire' = wire \o Frame(e)
  /\ UNCHANGED <<open, conns, reader, got>>

\* The connection breaks: some of what is on its way still arrives, and the
\* last line of that may be cut short.
Cut ==
  /\ open /\ open' = FALSE
  /\ \E k \in 0 .. Len(wire) :
       \/ wire' = SubSeq(wire, 1, k)
       \/ k < Len(wire) /\ wire' = Append(SubSeq(wire, 1, k), Line("part", NoType))
  /\ UNCHANGED <<sent, conns, reader, got>>

\* Seeded fault: the buffer is not emptied.
AfterEventKeepsData(r) == [r EXCEPT !.evtType = NoType]

AfterEvent(r) == Fresh

\* json.Unmarshal of what the data lines add up to: a peer, if they are one.
Decodes(r) == Len(r.dataBuf) = 1

Dispatches(l) == l.tag = "blank" /\ reader.dataBuf # << >>

Dispatch ==
  /\ reader' = AfterEvent(reader)
  /\ got' = IF Decodes(reader)
            THEN Append(got, [type |-> reader.evtType, peer |-> reader.dataBuf[1]])
            ELSE got

\* A line without a newline is not one: ReadString returns an error with it.
Whole(l) == l.tag # "part"

\* The loop of StreamEvents, one line.
ReadLine ==
  /\ wire # << >> /\ Whole(Head(wire))
  /\ LET l == Head(wire) IN
       IF Dispatches(l) THEN Dispatch
       ELSE /\ reader' = CASE l.tag = "event" -> [reader EXCEPT !.evtType = l.val]
                           [] l.tag = "data"  -> [reader EXCEPT !.dataBuf = Append(@, l.val)]
                           [] OTHER -> reader
            /\ UNCHANGED got
  /\ wire' = Tail(wire)
  /\ UNCHANGED <<sent, open, conns>>

\* Seeded fault: the reader's state outlives the connection.
NewReaderKept == reader

NewReader == Fresh

\* StreamEvents returns and runStream calls it again.
Reconnect ==
  /\ ~open /\ conns < MaxConns
  /\ wire # << >> => ~Whole(Head(wire))
  /\ open' = TRUE /\ conns' = conns + 1
  /\ sent' = << >> /\ wire' = << >> /\ got' = << >>
  /\ reader' = NewReader

Next == writeSSE \/ Cut \/ ReadLine \/ Reconnect

Spec == Init /\ [][Next]_vars

\* The reader reads and dials again; nothing is promised of the writer or of
\* the connection.
FairSpec == Spec /\ WF_vars(ReadLine) /\ WF_vars(Reconnect)

-----------------------------------------------------------------------------
(***************************************************************************)
(* Properties                                                              *)
(***************************************************************************)

\* What is sent and what onEvent was called with, as the abstract pipe.
Promise == INSTANCE Pipe WITH delivered <- got

\* The stream keeps the promise of Pipe: whatever arrives on a connection is
\* a prefix of what was sent on it.  The type of one event is never joined to
\* the peer of another, and no event is made of the beginning of one, on this
\* connection or across two.
StreamKeepsPromise == Promise!Spec

\* As long as the connection lasts, everything sent is delivered.
AllDelivered ==
  \A n \in 1 .. MaxSent : (Len(sent) >= n /\ open) ~> (Len(got) >= n \/ ~open)
=============================================================================
