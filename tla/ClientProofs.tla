---------------------------- MODULE ClientProofs ----------------------------
(***************************************************************************)
(* Theorems about the clients of a daemon: another node that reads its     *)
(* event stream (SSE implements Pipe), for any event types, any peers, and *)
(* any number of events and connections; and the pages of the web console, *)
(* its roster (Console) and its chat (Chat), for any number of connects,   *)
(* requests, messages and faults.                                          *)
(***************************************************************************)
EXTENDS SSE, Integers, FiniteSets, FiniteSetTheorems, SequenceTheorems,
        WellFoundedInduction, TLAPS

CONSTANTS
  Nodes, Tokens, MaxConnects, MaxLoads, MaxChanges, MaxFaults,       \* Console
  Providers, MAX_TOOL_ROUND_TRIPS, MaxUses, MaxSends, MaxClears,     \* Chat
  MaxSwitches, MaxLosses, ChatFaults

VARIABLES
  token, tokenStatus, enabled, roster, connects, streams, streamAbort, heartbeatTimer,
  timers, loads, known, rosterChanges, faults, overlapped,
  provider, messages, await, then, drive, mcp, sid, sessions, refusals, expired,
  disturbed, count

Console == INSTANCE Console WITH changes <- rosterChanges
Chat    == INSTANCE Chat WITH pc <- await, MaxFaults <- ChatFaults

-----------------------------------------------------------------------------
(***************************************************************************)
(* The event stream                                                        *)
(***************************************************************************)

Lines == [tag : {"event", "data", "blank", "part"}, val : Types \cup Peers \cup {NoType}]

\* onEvent was called with the beginning of what was sent.
Prefix == Len(got) <= Len(sent) /\ \A i \in 1 .. Len(got) : got[i] = sent[i]

\* What the reader remembers after r lines of the next event.
Remembers(r) ==
  LET e == sent[Len(got) + 1]
  IN  /\ r = 0 => reader = Fresh
      /\ r = 1 => reader = [evtType |-> e.type, dataBuf |-> << >>]
      /\ r = 2 => reader = [evtType |-> e.type, dataBuf |-> <<e.peer>>]

\* The first line on the wire is line number n + 1 of the connection: each line
\* is the one writeSSE wrote at its place, unless it was cut, and none is missing
\* while the connection is up.
Follows(n) ==
  /\ n + Len(wire) <= 3 * Len(sent)
  /\ open => n + Len(wire) = 3 * Len(sent)
  /\ open => \A i \in 1 .. Len(wire) : Whole(wire[i])
  /\ \A i \in 1 .. Len(wire), m \in 1 .. Len(sent), k \in 1 .. 3 :
       n + i = 3 * (m - 1) + k /\ Whole(wire[i]) => wire[i] = Frame(sent[m])[k]

\* Of the event after those delivered the reader has read r lines, and the wire
\* goes on from there.
InStep(r) == Remembers(r) /\ Follows(3 * Len(got) + r)

SSEInv ==
  /\ TypeOK /\ wire \in Seq(Lines)
  /\ Prefix /\ \E r \in 0 .. 2 : InStep(r)

\* writeSSE writes an event as three lines.
LEMMA FrameLines ==
  ASSUME NEW e \in Events
  PROVE  /\ Frame(e) \in Seq(Lines) /\ Len(Frame(e)) = 3
         /\ Frame(e)[1] = Line("event", e.type) /\ Frame(e)[2] = Line("data", e.peer)
         /\ Frame(e)[3] = Line("blank", NoType)
         /\ \A k \in 1 .. 3 : Whole(Frame(e)[k])
<1>1. /\ Line("event", e.type) \in Lines /\ Line("data", e.peer) \in Lines
      /\ Line("blank", NoType) \in Lines
  BY DEF Line, Lines, Events
<1>2. /\ Frame(e) \in Seq(Lines) /\ Len(Frame(e)) = 3
      /\ Frame(e)[1] = Line("event", e.type) /\ Frame(e)[2] = Line("data", e.peer)
      /\ Frame(e)[3] = Line("blank", NoType)
  BY <1>1 DEF Frame
<1>3. \A k \in 1 .. 3 : k = 1 \/ k = 2 \/ k = 3
  OBVIOUS
<1> QED
  BY <1>2, <1>3 DEF Whole, Line

\* The first connection, on which nothing was sent yet.
LEMMA SSEInit == ASSUME SSEAssumption, Init PROVE SSEInv
<1>1. Len(sent) = 0 /\ Len(wire) = 0 /\ Len(got) = 0
  BY DEF Init
<1>2. InStep(0)
  BY <1>1 DEF Init, InStep, Remembers, Follows
<1>3. TypeOK
  BY <1>1 DEF Init, TypeOK, Fresh, SSEAssumption
<1> QED
  BY <1>1, <1>2, <1>3 DEF Init, SSEInv, Prefix

\* What the types of the variables come to.
LEMMA SSETyped ==
  ASSUME SSEInv
  PROVE  /\ sent \in Seq(Events) /\ got \in Seq(Events) /\ wire \in Seq(Lines)
         /\ Len(sent) \in Nat /\ Len(got) \in Nat /\ Len(wire) \in Nat
         /\ Len(got) <= Len(sent) /\ open \in BOOLEAN
         /\ \A i \in 1 .. Len(sent) : sent[i] \in Events
BY DEF SSEInv, TypeOK, Prefix

\* writeSSE
LEMMA WriteStep == ASSUME SSEAssumption, SSEInv, writeSSE PROVE SSEInv' /\ Promise!Send
<1>1. PICK e \in Events : sent' = Append(sent, e) /\ wire' = wire \o Frame(e)
  BY DEF writeSSE
<1>2. open = TRUE /\ open' = TRUE /\ conns' = conns /\ reader' = reader /\ got' = got
      /\ Len(sent) < MaxSent
  BY SSETyped DEF writeSSE
<1>3. /\ sent' \in Seq(Events) /\ Len(sent') = Len(sent) + 1 /\ sent'[Len(sent) + 1] = e
      /\ \A i \in 1 .. Len(sent) : sent'[i] = sent[i]
  BY <1>1, SSETyped
<1>4. /\ wire' \in Seq(Lines) /\ Len(wire') = Len(wire) + 3
      /\ \A i \in 1 .. Len(wire) + 3 :
           wire'[i] = IF i <= Len(wire) THEN wire[i] ELSE Frame(e)[i - Len(wire)]
  <2> DEFINE f == Frame(e)
  <2>1. f \in Seq(Lines) /\ Len(f) = 3
    BY FrameLines
  <2>2. wire' = wire \o f
    BY <1>1
  <2> HIDE DEF f
  <2>3. wire \in Seq(Lines)
    BY SSETyped
  <2>4. /\ wire \o f \in Seq(Lines) /\ Len(wire \o f) = Len(wire) + Len(f)
        /\ \A i \in 1 .. Len(wire) + Len(f) :
             (wire \o f)[i] = IF i <= Len(wire) THEN wire[i] ELSE f[i - Len(wire)]
    BY <2>1, <2>3, ConcatProperties
  <2> QED
    BY <2>1, <2>2, <2>4 DEF f
<1>5. PICK r \in 0 .. 2 : InStep(r)
  BY DEF SSEInv
<1>6. PICK n \in Nat : n = 3 * Len(got) + r
  BY SSETyped
<1>7. /\ Follows(n) /\ n + Len(wire) = 3 * Len(sent)
  BY <1>2, <1>5, <1>6 DEF InStep, Follows
<1>8. Remembers(r)'
  <2>1. r # 0 => Len(got) + 1 \in 1 .. Len(sent)
    BY <1>6, <1>7, SSETyped
  <2>2. r # 0 => sent'[Len(got) + 1] = sent[Len(got) + 1]
    BY <1>3, <2>1
  <2> QED
    BY <1>2, <1>5, <2>2 DEF InStep, Remembers
<1>9. Follows(n)'
  <2>0. /\ Len(sent') = Len(sent) + 1 /\ Len(wire') = Len(wire) + 3
        /\ n + Len(wire) = 3 * Len(sent)
        /\ Len(sent) \in Nat /\ Len(wire) \in Nat
    <3>1. Len(sent) \in Nat /\ Len(wire) \in Nat
      BY SSETyped
    <3> QED
      BY <1>3, <1>4, <1>7, <3>1
  <2>1. n + Len(wire') = 3 * Len(sent')
    BY <2>0
  <2>2. ASSUME NEW i \in 1 .. Len(wire'), i <= Len(wire)
        PROVE  i \in 1 .. Len(wire) /\ wire'[i] = wire[i]
    BY <1>4, <2>2, SSETyped
  <2>3. ASSUME NEW i \in 1 .. Len(wire'), ~(i <= Len(wire))
        PROVE  i - Len(wire) \in 1 .. 3 /\ wire'[i] = Frame(e)[i - Len(wire)]
    BY <1>4, <2>3, SSETyped
  <2>4. ASSUME NEW i \in 1 .. Len(wire') PROVE Whole(wire'[i])
    BY <1>2, <1>7, <2>2, <2>3, FrameLines DEF Follows
  <2>5. ASSUME NEW i \in 1 .. Len(wire'), NEW m \in 1 .. Len(sent'), NEW k \in 1 .. 3,
               n + i = 3 * (m - 1) + k, Whole(wire'[i])
        PROVE  wire'[i] = Frame(sent'[m])[k]
    <3>1. CASE i <= Len(wire)
      <4>1. m \in 1 .. Len(sent)
        <5>1. n + i <= 3 * Len(sent)
          BY <1>7, <3>1, SSETyped
        <5> QED
          BY <2>5, <5>1, SSETyped
      <4>2. sent'[m] = sent[m]
        BY <1>3, <4>1, SSETyped
      <4>3. i \in 1 .. Len(wire) /\ wire'[i] = wire[i]
        BY <2>2, <3>1
      <4>4. wire[i] = Frame(sent[m])[k]
        BY <1>7, <2>5, <4>1, <4>3 DEF Follows
      <4> QED
        BY <4>2, <4>3, <4>4
    <3>2. CASE ~(i <= Len(wire))
      <4>1. m = Len(sent) + 1 /\ k = i - Len(wire)
        BY <1>3, <1>4, <1>7, <2>5, <3>2, SSETyped
      <4> QED
        BY <1>3, <2>3, <3>2, <4>1
    <3> QED
      BY <3>1, <3>2
  <2>6. n + Len(wire') <= 3 * Len(sent')
    BY <2>0
  <2> QED
    BY <2>1, <2>4, <2>5, <2>6 DEF Follows
<1>10. TypeOK' /\ Prefix'
  <2>1. Len(sent') <= MaxSent
    BY <1>2, <1>3, SSETyped DEF SSEAssumption
  <2> QED
    BY <1>2, <1>3, <2>1, SSETyped DEF SSEInv, TypeOK, Prefix
<1>11. InStep(r)'
  BY <1>2, <1>6, <1>8, <1>9 DEF InStep
<1>12. Promise!Send
  BY <1>1, <1>2 DEF Promise!Send
<1> QED
  BY <1>4, <1>10, <1>11, <1>12 DEF SSEInv

\* The connection breaks.
LEMMA CutStep ==
  ASSUME SSEInv, Cut
  PROVE  SSEInv' /\ UNCHANGED <<sent, got>>
<1>1. /\ open' = FALSE /\ sent' = sent /\ got' = got /\ conns' = conns /\ reader' = reader
  BY DEF Cut
<1>2. PICK j \in 0 .. Len(wire) :
        \/ wire' = SubSeq(wire, 1, j)
        \/ j < Len(wire) /\ wire' = Append(SubSeq(wire, 1, j), Line("part", NoType))
  BY DEF Cut
<1>3. /\ SubSeq(wire, 1, j) \in Seq(Lines) /\ Len(SubSeq(wire, 1, j)) = j
      /\ \A i \in 1 .. j : SubSeq(wire, 1, j)[i] = wire[i]
  BY SSETyped
<1>4. Line("part", NoType) \in Lines /\ ~Whole(Line("part", NoType))
  BY DEF Lines, Line, Whole
<1>5. /\ wire' \in Seq(Lines) /\ Len(wire') <= Len(wire)
      /\ \A i \in 1 .. Len(wire') : ~Whole(wire'[i]) \/ (i \in 1 .. Len(wire) /\ wire'[i] = wire[i])
  <2>1. CASE wire' = SubSeq(wire, 1, j)
    BY <1>3, <2>1, SSETyped
  <2>2. CASE j < Len(wire) /\ wire' = Append(SubSeq(wire, 1, j), Line("part", NoType))
    <3>1. /\ wire' \in Seq(Lines) /\ Len(wire') = j + 1 /\ wire'[j + 1] = Line("part", NoType)
          /\ \A i \in 1 .. j : wire'[i] = wire[i]
      BY <1>3, <1>4, <2>2
    <3> QED
      BY <1>4, <2>2, <3>1, SSETyped
  <2> QED
    BY <1>2, <2>1, <2>2
<1>6. PICK r \in 0 .. 2 : InStep(r)
  BY DEF SSEInv
<1>7. PICK n \in Nat : n = 3 * Len(got) + r
  BY SSETyped
<1>8. Follows(n)'
  <2>1. Follows(n)
    BY <1>6, <1>7 DEF InStep
  <2>2. n + Len(wire') <= 3 * Len(sent')
    BY <1>1, <1>5, <2>1, SSETyped DEF Follows
  <2>3. ASSUME NEW i \in 1 .. Len(wire'), NEW m \in 1 .. Len(sent), NEW k \in 1 .. 3,
               n + i = 3 * (m - 1) + k, Whole(wire'[i])
        PROVE  wire'[i] = Frame(sent[m])[k]
    BY <1>5, <2>1, <2>3 DEF Follows
  <2>4. ~open' /\ Len(sent') = Len(sent)
    BY <1>1
  <2> QED
    BY <1>1, <2>2, <2>3, <2>4 DEF Follows
<1>9. InStep(r)'
  BY <1>1, <1>6, <1>7, <1>8 DEF InStep, Remembers
<1>10. TypeOK' /\ Prefix'
  BY <1>1 DEF SSEInv, TypeOK, Prefix
<1> QED
  BY <1>1, <1>5, <1>9, <1>10 DEF SSEInv

\* A line that arrives whole is the next one of the event the reader is at.
LEMMA NextLine ==
  ASSUME SSEInv, ReadLine, NEW r \in 0 .. 2, InStep(r)
  PROVE  /\ Len(got) + 1 \in 1 .. Len(sent)
         /\ Head(wire) = Frame(sent[Len(got) + 1])[r + 1]
<1>1. wire # << >> /\ Whole(Head(wire))
  BY DEF ReadLine
<1>2. Len(wire) >= 1 /\ 1 \in 1 .. Len(wire) /\ Head(wire) = wire[1]
  BY <1>1, SSETyped
<1>3. PICK n \in Nat : n = 3 * Len(got) + r
  BY SSETyped
<1>4. Follows(n)
  BY <1>3 DEF InStep
<1>5. n + Len(wire) <= 3 * Len(sent)
  BY <1>4 DEF Follows
<1>6. PICK m \in 1 .. Len(sent) : m = Len(got) + 1
  BY <1>2, <1>3, <1>5, SSETyped
<1>7. PICK k \in 1 .. 3 : k = r + 1
  OBVIOUS
<1>8. n + 1 = 3 * (m - 1) + k
  BY <1>3, <1>6, <1>7, SSETyped
<1> QED
  BY <1>1, <1>2, <1>4, <1>6, <1>7, <1>8 DEF Follows

\* What is left on the wire follows what has been read.
LEMMA WireAfter ==
  ASSUME SSEInv, ReadLine, NEW n \in Nat, Follows(n)
  PROVE  wire' \in Seq(Lines) /\ Follows(n + 1)'
<1>1. /\ wire # << >> /\ wire' = Tail(wire) /\ sent' = sent /\ (open' <=> open)
  BY DEF ReadLine
<1>2. /\ wire' \in Seq(Lines) /\ Len(wire') = Len(wire) - 1
      /\ \A i \in 1 .. Len(wire') : i + 1 \in 1 .. Len(wire) /\ wire'[i] = wire[i + 1]
  BY <1>1, SSETyped
<1>3. /\ n + 1 + Len(wire') <= 3 * Len(sent)
      /\ open => n + 1 + Len(wire') = 3 * Len(sent)
  <2>1. n + Len(wire) <= 3 * Len(sent) /\ (open => n + Len(wire) = 3 * Len(sent))
    BY DEF Follows
  <2>2. n + 1 + Len(wire') = n + Len(wire)
    BY <1>2, SSETyped
  <2> QED
    BY <2>1, <2>2
<1>4. ASSUME open, NEW i \in 1 .. Len(wire') PROVE Whole(wire'[i])
  BY <1>2, <1>4 DEF Follows
<1>5. ASSUME NEW i \in 1 .. Len(wire'), NEW m \in 1 .. Len(sent), NEW k \in 1 .. 3,
             n + 1 + i = 3 * (m - 1) + k, Whole(wire'[i])
      PROVE  wire'[i] = Frame(sent[m])[k]
  <2>1. i + 1 \in 1 .. Len(wire) /\ wire'[i] = wire[i + 1]
    BY <1>2
  <2>2. i \in Nat
    BY <1>2, SSETyped
  <2>3. n + (i + 1) = n + 1 + i
    BY <2>2
  <2>4. n + (i + 1) = 3 * (m - 1) + k /\ Whole(wire[i + 1])
    BY <1>5, <2>1, <2>3
  <2>5. wire[i + 1] = Frame(sent[m])[k]
    BY <2>1, <2>4 DEF Follows
  <2> QED
    BY <2>1, <2>5
<1> QED
  BY <1>1, <1>2, <1>3, <1>4, <1>5 DEF Follows

\* The loop of StreamEvents
LEMMA ReadStep ==
  ASSUME SSEInv, ReadLine
  PROVE  SSEInv' /\ (Promise!Deliver \/ UNCHANGED <<sent, got>>)
<1>1. PICK r \in 0 .. 2 : InStep(r)
  BY DEF SSEInv
<1> DEFINE e == sent[Len(got) + 1]
           l == Head(wire)
<1>2. Len(got) + 1 \in 1 .. Len(sent) /\ e \in Events /\ l = Frame(e)[r + 1]
  BY <1>1, NextLine, SSETyped
<1>3. PICK n \in Nat : n = 3 * Len(got) + r
  BY SSETyped
<1>4. wire' \in Seq(Lines) /\ Follows(n + 1)'
  BY <1>1, <1>3, WireAfter DEF InStep
<1>5. sent' = sent /\ open' = open /\ conns' = conns
  BY DEF ReadLine
<1>6. CASE r = 0
  <2>1. reader = Fresh /\ l = Line("event", e.type)
    BY <1>1, <1>2, <1>6, FrameLines DEF InStep, Remembers
  <2>2. reader' = [evtType |-> e.type, dataBuf |-> << >>] /\ got' = got
    BY <2>1 DEF ReadLine, Dispatches, Line, Fresh
  <2>3. InStep(1)'
    BY <1>3, <1>4, <1>5, <1>6, <2>2, SSETyped DEF InStep, Remembers
  <2>4. TypeOK' /\ Prefix'
    BY <1>2, <1>5, <2>2 DEF SSEInv, TypeOK, Prefix, Events
  <2> QED
    BY <1>4, <1>5, <2>2, <2>3, <2>4 DEF SSEInv
<1>7. CASE r = 1
  <2>1. reader = [evtType |-> e.type, dataBuf |-> << >>] /\ l = Line("data", e.peer)
    BY <1>1, <1>2, <1>7, FrameLines DEF InStep, Remembers
  <2>2. reader' = [evtType |-> e.type, dataBuf |-> <<e.peer>>] /\ got' = got
    BY <2>1 DEF ReadLine, Dispatches, Line
  <2>3. InStep(2)'
    BY <1>3, <1>4, <1>5, <1>7, <2>2, SSETyped DEF InStep, Remembers
  <2>4. TypeOK' /\ Prefix'
    BY <1>2, <1>5, <2>2 DEF SSEInv, TypeOK, Prefix, Events
  <2> QED
    BY <1>4, <1>5, <2>2, <2>3, <2>4 DEF SSEInv
<1>8. CASE r = 2
  <2>1. reader = [evtType |-> e.type, dataBuf |-> <<e.peer>>] /\ l = Line("blank", NoType)
    BY <1>1, <1>2, <1>8, FrameLines DEF InStep, Remembers
  <2>2. reader' = Fresh /\ got' = Append(got, e)
    <3>1. Dispatches(l) /\ Decodes(reader)
      BY <2>1 DEF Dispatches, Decodes, Line
    <3>2. [type |-> reader.evtType, peer |-> reader.dataBuf[1]] = e
      BY <1>2, <2>1 DEF Events
    <3> QED
      BY <3>1, <3>2 DEF ReadLine, Dispatch, AfterEvent
  <2>3. /\ got' \in Seq(Events) /\ Len(got') = Len(got) + 1 /\ got'[Len(got) + 1] = e
        /\ \A i \in 1 .. Len(got) : got'[i] = got[i]
    BY <1>2, <2>2, SSETyped
  <2>4. InStep(0)'
    <3>1. n + 1 = 3 * Len(got') + 0
      BY <1>3, <1>8, <2>3, SSETyped
    <3> QED
      BY <1>4, <2>2, <3>1 DEF InStep, Remembers
  <2>5. TypeOK' /\ Prefix'
    BY <1>2, <1>5, <2>2, <2>3, SSETyped DEF SSEInv, TypeOK, Prefix, Fresh
  <2>6. Promise!Deliver
    BY <1>2, <1>5, <2>2, SSETyped DEF Promise!Deliver
  <2> QED
    BY <1>4, <2>4, <2>5, <2>6 DEF SSEInv
<1> QED
  BY <1>6, <1>7, <1>8

\* Every step keeps the invariant and is a step of the pipe, or none.
LEMMA SSEStep ==
  ASSUME SSEAssumption, SSEInv, [Next]_vars
  PROVE  SSEInv' /\ [Promise!Next]_<<sent, got>>
<1>1. CASE Reconnect
  <2>1. /\ sent' = << >> /\ wire' = << >> /\ got' = << >> /\ reader' = Fresh
        /\ open' = TRUE /\ conns' \in 1 .. MaxConns /\ MaxSent \in Nat
    BY <1>1 DEF Reconnect, NewReader, SSEInv, TypeOK, SSEAssumption
  <2>2. Len(sent') = 0 /\ Len(wire') = 0 /\ Len(got') = 0
    BY <2>1
  <2>3. InStep(0)'
    BY <2>1, <2>2 DEF InStep, Remembers, Follows
  <2>4. TypeOK'
    BY <2>1, <2>2 DEF TypeOK, Fresh
  <2>5. SSEInv'
    BY <2>1, <2>2, <2>3, <2>4 DEF SSEInv, Prefix
  <2>6. Promise!Reconnect
    BY <1>1 DEF Reconnect, Promise!Reconnect
  <2> QED
    BY <2>5, <2>6 DEF Promise!Next
<1>2. CASE UNCHANGED vars
  <2>1. /\ sent' = sent /\ wire' = wire /\ got' = got /\ reader' = reader
        /\ (open' <=> open) /\ conns' = conns /\ open' \in BOOLEAN
    BY <1>2 DEF vars, SSEInv, TypeOK
  <2>2. TypeOK' /\ Prefix'
    BY <2>1 DEF SSEInv, TypeOK, Prefix
  <2>3. ASSUME NEW r \in 0 .. 2, InStep(r) PROVE InStep(r)'
    BY <2>1, <2>3 DEF InStep, Remembers, Follows
  <2> QED
    BY <2>1, <2>2, <2>3 DEF SSEInv
<1>3. CASE writeSSE
  BY <1>3, WriteStep DEF Promise!Next
<1>4. CASE Cut
  BY <1>4, CutStep
<1>5. CASE ReadLine
  BY <1>5, ReadStep DEF Promise!Next
<1> QED
  BY <1>1, <1>2, <1>3, <1>4, <1>5 DEF Next

\* Type correctness of an event stream.
THEOREM StreamTypeCorrect ==
  ASSUME SSEAssumption
  PROVE  Spec => []TypeOK
<1>1. Init => SSEInv
  BY SSEInit
<1>2. SSEInv /\ [Next]_vars => SSEInv'
  BY SSEStep
<1>3. SSEInv => TypeOK
  BY DEF SSEInv
<1> QED
  BY <1>1, <1>2, <1>3, PTL DEF Spec

\* writeSSE and StreamEvents implement the pipe: wherever a connection breaks,
\* in the middle of a line, of an event or between two, onEvent gets a prefix of
\* what was sent on it, every event whole, in order and with its own peer.
THEOREM StreamImplementsPipe ==
  ASSUME SSEAssumption
  PROVE  Spec => StreamKeepsPromise
<1>1. Init => SSEInv
  BY SSEInit
<1>2. SSEInv /\ [Next]_vars => SSEInv' /\ [Promise!Next]_<<sent, got>>
  BY SSEStep
<1>3. Init => Promise!Init
  BY DEF Init, Promise!Init
<1> QED
  BY <1>1, <1>2, <1>3, PTL DEF Spec, StreamKeepsPromise, Promise!Spec

-----------------------------------------------------------------------------
(***************************************************************************)
(* The roster of the web console                                           *)
(***************************************************************************)

Connect == [pc : {"load", "fetch", "done"}, aborted : BOOLEAN, token : Tokens]
Frames  == {"peer_added", "peer_removed"} \X Nodes
Stream  == [open : BOOLEAN, queue : Seq(Frames)]
Request == [by : Nat, token : Tokens, served : BOOLEAN, body : SUBSET Nodes]

\* The types of the page's state and of what is on its way to it.
ConsoleTyped ==
  /\ token \in Tokens /\ tokenStatus \in {"", "saved", "testing", "ok", "error"}
  /\ enabled \in BOOLEAN /\ roster \in SUBSET Nodes /\ known \in SUBSET Nodes
  /\ connects \in Seq(Connect) /\ streams \in Seq(Stream)
  /\ Len(streams) = Len(connects) /\ Len(connects) <= MaxConnects
  /\ streamAbort \in 0 .. Len(connects) /\ heartbeatTimer \in Nat /\ timers \in SUBSET (Nat \ {0})
  /\ loads \in Seq(Request) /\ Len(loads) <= MaxLoads + Len(connects)
  /\ overlapped \in BOOLEAN

\* Each connect that waits for the roster has one request; the last controller
\* and the last interval are in use.
Paged ==
  /\ \A i, j \in 1 .. Len(loads) : loads[i].by = loads[j].by /\ loads[i].by # 0 => i = j
  /\ \A i \in 1 .. Len(loads) : loads[i].by # 0 =>
       loads[i].by <= Len(connects) /\ connects[loads[i].by].pc = "load"
  /\ \A c \in 1 .. Len(connects) : connects[c].aborted => connects[c].pc # "load"
  /\ streamAbort # 0 => ~connects[streamAbort].aborted /\ connects[streamAbort].pc # "load"
  /\ heartbeatTimer # 0 => heartbeatTimer \in timers

\* Unless connects overlapped, only the last one is under way, what went before
\* it has been stopped, and only the last controller's stream is read.
Followed ==
  overlapped \/
    /\ \A t \in timers : t = heartbeatTimer
    /\ \A c \in 1 .. Len(connects) : connects[c].pc # "done" => c = Len(connects) /\ timers = {}
    /\ \A c \in 1 .. Len(connects) : connects[c].pc = "load" => streamAbort = 0
    /\ \A c \in 1 .. Len(connects) : connects[c].pc = "fetch" => streamAbort = c
    /\ \A c \in 1 .. Len(connects) : streams[c].open /\ ~connects[c].aborted => streamAbort = c

\* A function on the first n numbers is a sequence of that length.
LEMMA FunctionSeq ==
  ASSUME NEW n \in Nat, NEW T, NEW f \in [1 .. n -> T]
  PROVE  f \in Seq(T) /\ Len(f) = n
OBVIOUS

\* A request that has been answered is taken off the list.
LEMMA Removed ==
  ASSUME NEW T, NEW s \in Seq(T), NEW i \in 1 .. Len(s)
  PROVE  /\ Console!RemoveAt(s, i) \in Seq(T) /\ Len(Console!RemoveAt(s, i)) = Len(s) - 1
         /\ \A k \in 1 .. Len(s) - 1 :
              Console!RemoveAt(s, i)[k] = IF k < i THEN s[k] ELSE s[k + 1]
<1>1. PICK n \in Nat : n = Len(s)
  OBVIOUS
<1> DEFINE a == SubSeq(s, 1, i - 1)
           b == SubSeq(s, i + 1, Len(s))
<1>2. a \in Seq(T) /\ Len(a) = i - 1 /\ \A k \in 1 .. i - 1 : a[k] = s[k]
  BY <1>1
<1>3. b \in Seq(T) /\ Len(b) = n - i /\ \A k \in 1 .. n - i : b[k] = s[k + i]
  BY <1>1
<1>4. Console!RemoveAt(s, i) = a \o b
  BY DEF Console!RemoveAt
<1> HIDE DEF a, b
<1>5. /\ a \o b \in Seq(T) /\ Len(a \o b) = n - 1
      /\ \A k \in 1 .. n - 1 : (a \o b)[k] = IF k <= i - 1 THEN a[k] ELSE b[k - (i - 1)]
  BY <1>1, <1>2, <1>3, ConcatProperties
<1>6. ASSUME NEW k \in 1 .. n - 1
      PROVE  (a \o b)[k] = IF k < i THEN s[k] ELSE s[k + 1]
  <2>1. CASE k < i
    BY <1>1, <1>2, <1>5, <2>1
  <2>2. CASE ~(k < i)
    <3>1. k - (i - 1) \in 1 .. n - i /\ (k - (i - 1)) + i = k + 1
      BY <1>1, <2>2
    <3> QED
      BY <1>1, <1>3, <1>5, <2>2, <3>1
  <2> QED
    BY <2>1, <2>2
<1> QED
  BY <1>1, <1>4, <1>5, <1>6

\* disconnect aborts the last controller.
LEMMA Abortion ==
  ASSUME ConsoleTyped
  PROVE  /\ Console!Aborted \in Seq(Connect) /\ Len(Console!Aborted) = Len(connects)
         /\ \A c \in 1 .. Len(connects) :
              /\ Console!Aborted[c].pc = connects[c].pc
              /\ Console!Aborted[c].aborted <=> connects[c].aborted \/ c = streamAbort
<1>1. connects \in Seq(Connect) /\ streamAbort \in 0 .. Len(connects)
  BY DEF ConsoleTyped
<1>2. CASE streamAbort = 0
  BY <1>1, <1>2 DEF Console!Aborted, Connect
<1>3. CASE streamAbort # 0
  <2>1. Console!Aborted = [connects EXCEPT ![streamAbort].aborted = TRUE]
    BY <1>3 DEF Console!Aborted
  <2>2. connects \in [1 .. Len(connects) -> Connect] /\ Len(connects) \in Nat
        /\ streamAbort \in 1 .. Len(connects)
    BY <1>1, <1>3
  <2>3. Console!Aborted \in [1 .. Len(connects) -> Connect]
    BY <2>1, <2>2 DEF Connect
  <2>4. Console!Aborted \in Seq(Connect) /\ Len(Console!Aborted) = Len(connects)
    BY <2>2, <2>3, FunctionSeq
  <2>5. ASSUME NEW c \in 1 .. Len(connects)
        PROVE  /\ Console!Aborted[c].pc = connects[c].pc
               /\ Console!Aborted[c].aborted <=> connects[c].aborted \/ c = streamAbort
    BY <2>1, <2>2, <2>5 DEF Connect
  <2> QED
    BY <2>4, <2>5
<1> QED
  BY <1>2, <1>3

\* connect up to its first await.
Connected ==
  /\ Len(connects') = Len(connects) + 1
  /\ \A c \in 1 .. Len(connects) :
       /\ connects'[c].pc = connects[c].pc
       /\ connects'[c].aborted <=> connects[c].aborted \/ c = streamAbort
  /\ ~connects'[Len(connects) + 1].aborted
  /\ \A c \in 1 .. Len(connects) : streams'[c] = streams[c]
  /\ ~streams'[Len(connects) + 1].open
  /\ streamAbort' = 0 /\ heartbeatTimer' = 0 /\ timers' = timers \ {heartbeatTimer}
  /\ \/ connects'[Len(connects) + 1].pc = "done" /\ loads' = loads
     \/ /\ connects'[Len(connects) + 1].pc = "load" /\ Len(loads') = Len(loads) + 1
        /\ \A i \in 1 .. Len(loads) : loads'[i] = loads[i]
        /\ loads'[Len(loads) + 1].by = Len(connects) + 1
  /\ overlapped' <=> overlapped \/ \E c \in 1 .. Len(connects) : connects[c].pc # "done"

LEMMA Connects ==
  ASSUME Console!ConsoleAssumption, ConsoleTyped, Console!connect, UNCHANGED token,
         tokenStatus' \in {"saved", "ok"}
  PROVE  ConsoleTyped' /\ Connected
<1>0. /\ connects \in Seq(Connect) /\ streams \in Seq(Stream) /\ loads \in Seq(Request)
      /\ Len(streams) = Len(connects) /\ token \in Tokens
      /\ Len(connects) \in Nat /\ Len(loads) \in Nat /\ MaxConnects \in Nat /\ MaxLoads \in Nat
      /\ Len(loads) <= MaxLoads + Len(connects)
  <2>1. /\ connects \in Seq(Connect) /\ streams \in Seq(Stream) /\ loads \in Seq(Request)
        /\ Len(streams) = Len(connects) /\ token \in Tokens
        /\ Len(loads) <= MaxLoads + Len(connects)
    BY DEF ConsoleTyped
  <2>2. Len(connects) \in Nat /\ Len(loads) \in Nat
    BY <2>1
  <2> QED
    BY <2>1, <2>2 DEF Console!ConsoleAssumption
<1>1. PICK n \in Nat : n = Len(connects)
  BY <1>0
<1> DEFINE c == [pc |-> IF token = "none" THEN "done" ELSE "load", aborted |-> FALSE,
                 token |-> token]
           s == [open |-> FALSE, queue |-> << >>]
           r == [by |-> n + 1, token |-> token, served |-> FALSE, body |-> {}]
<1>2. c \in Connect /\ s \in Stream /\ r \in Request /\ ~c.aborted /\ ~s.open /\ r.by = n + 1
      /\ c.pc = IF token = "none" THEN "done" ELSE "load"
  BY <1>0, <1>1 DEF Connect, Stream, Request
<1>3. /\ connects' = Append(Console!Aborted, c) /\ streams' = Append(streams, s)
      /\ loads' = IF token = "none" THEN loads ELSE Append(loads, r)
      /\ streamAbort' = 0 /\ heartbeatTimer' = 0 /\ timers' = timers \ {heartbeatTimer}
      /\ UNCHANGED <<known, enabled, roster>> /\ n < MaxConnects
  BY <1>1 DEF Console!connect, Console!disconnect, Console!Load
<1> HIDE DEF c, s, r
<1>4. overlapped' \in BOOLEAN
      /\ (overlapped' <=> overlapped \/ \E x \in 1 .. Len(connects) : connects[x].pc # "done")
  <2>1. overlapped' = (overlapped \/ \E x \in DOMAIN connects : connects[x].pc # "done")
    BY DEF Console!connect
  <2>2. DOMAIN connects = 1 .. Len(connects)
    BY <1>0
  <2> QED
    BY <2>1, <2>2
<1>5. /\ connects' \in Seq(Connect) /\ Len(connects') = n + 1 /\ connects'[n + 1] = c
      /\ \A x \in 1 .. n : /\ connects'[x].pc = connects[x].pc
                           /\ connects'[x].aborted <=> connects[x].aborted \/ x = streamAbort
  <2>1. /\ Console!Aborted \in Seq(Connect) /\ Len(Console!Aborted) = n
        /\ \A x \in 1 .. n : /\ Console!Aborted[x].pc = connects[x].pc
                             /\ Console!Aborted[x].aborted <=> connects[x].aborted \/ x = streamAbort
    BY <1>1, Abortion
  <2>2. /\ connects' \in Seq(Connect) /\ Len(connects') = n + 1 /\ connects'[n + 1] = c
        /\ \A x \in 1 .. n : connects'[x] = Console!Aborted[x]
    <3>1. connects' = Append(Console!Aborted, c)
      BY <1>3
    <3> QED
      BY <1>2, <2>1, <3>1, AppendProperties
  <2> QED
    BY <2>1, <2>2
<1>6. /\ streams' \in Seq(Stream) /\ Len(streams') = n + 1 /\ streams'[n + 1] = s
      /\ \A x \in 1 .. n : streams'[x] = streams[x]
  BY <1>0, <1>1, <1>2, <1>3, AppendProperties
<1>7. token # "none" =>
         /\ Len(loads') = Len(loads) + 1 /\ loads'[Len(loads) + 1] = r
         /\ \A i \in 1 .. Len(loads) : loads'[i] = loads[i]
  BY <1>0, <1>2, <1>3, AppendProperties
<1>8. loads' \in Seq(Request) /\ Len(loads') <= MaxLoads + (n + 1)
  <2>1. loads' \in Seq(Request) /\ Len(loads') \in {Len(loads), Len(loads) + 1}
    BY <1>0, <1>2, <1>3, AppendProperties
  <2> QED
    BY <1>0, <1>1, <2>1
<1>9. timers' \in SUBSET (Nat \ {0})
  BY <1>3 DEF ConsoleTyped
<1>10. Connected
  BY <1>1, <1>2, <1>3, <1>4, <1>5, <1>6, <1>7 DEF Connected
<1>11. ConsoleTyped'
  <2>1. /\ Len(streams') = Len(connects') /\ Len(connects') <= MaxConnects
        /\ streamAbort' \in 0 .. Len(connects') /\ heartbeatTimer' \in Nat
    BY <1>0, <1>1, <1>3, <1>5, <1>6
  <2>2. /\ enabled' \in BOOLEAN /\ roster' \in SUBSET Nodes /\ known' \in SUBSET Nodes
        /\ token' \in Tokens /\ tokenStatus' \in {"", "saved", "testing", "ok", "error"}
    BY <1>3 DEF ConsoleTyped
  <2> QED
    BY <1>4, <1>5, <1>6, <1>8, <1>9, <2>1, <2>2 DEF ConsoleTyped
<1> QED
  BY <1>10, <1>11

\* loadInitial returns, to connect or to the interval.
Returns ==
  \E i \in 1 .. Len(loads) :
    /\ Len(loads') = Len(loads) - 1
    /\ \A k \in 1 .. Len(loads) - 1 : loads'[k] = IF k < i THEN loads[k] ELSE loads[k + 1]
    /\ Len(connects') = Len(connects)
    /\ \/ loads[i].by = 0 /\ connects' = connects /\ streamAbort' = streamAbort
       \/ /\ loads[i].by # 0 /\ streamAbort' = loads[i].by /\ connects'[loads[i].by].pc = "fetch"
          /\ \A c \in 1 .. Len(connects) :
               /\ connects'[c].aborted <=> connects[c].aborted
               /\ c # loads[i].by => connects'[c].pc = connects[c].pc
    /\ UNCHANGED <<streams, heartbeatTimer, timers, overlapped>>

LEMMA ReturnsTo ==
  ASSUME Console!ConsoleAssumption, ConsoleTyped, Paged, NEW i \in DOMAIN loads, Console!Returned(i), UNCHANGED streams,
         known' \in SUBSET Nodes
  PROVE  ConsoleTyped' /\ Returns
<1>0. /\ connects \in Seq(Connect) /\ loads \in Seq(Request) /\ i \in 1 .. Len(loads)
      /\ connects \in [1 .. Len(connects) -> Connect]
      /\ Len(connects) \in Nat /\ Len(loads) \in Nat
  <2>1. connects \in Seq(Connect) /\ loads \in Seq(Request)
    BY DEF ConsoleTyped
  <2> QED
    BY <2>1
<1>1. PICK c \in Nat : c = loads[i].by
  <2>1. loads[i] \in Request
    BY <1>0
  <2> QED
    BY <2>1 DEF Request
<1>2. /\ loads' = Console!RemoveAt(loads, i)
      /\ c = 0 => UNCHANGED <<connects, streamAbort>>
      /\ c # 0 => streamAbort' = c /\ connects' = [connects EXCEPT ![c].pc = "fetch"]
      /\ UNCHANGED <<token, tokenStatus, heartbeatTimer, timers, overlapped, enabled, roster>>
  BY <1>1 DEF Console!Returned, Console!form, Console!daemon
<1>3. c # 0 => c \in 1 .. Len(connects)
  BY <1>0, <1>1 DEF Paged
<1>4. /\ connects' \in Seq(Connect) /\ Len(connects') = Len(connects)
      /\ streamAbort' \in 0 .. Len(connects)
      /\ c # 0 => /\ connects'[c].pc = "fetch"
                  /\ \A x \in 1 .. Len(connects) :
                       /\ connects'[x].aborted <=> connects[x].aborted
                       /\ x # c => connects'[x].pc = connects[x].pc
  <2>1. CASE c = 0
    BY <1>0, <1>2, <2>1 DEF ConsoleTyped
  <2>2. CASE c # 0
    <3>1. connects' \in [1 .. Len(connects) -> Connect]
      <4>1. c \in 1 .. Len(connects) /\ connects[c] \in Connect
        BY <1>0, <1>3, <2>2
      <4>2. [connects[c] EXCEPT !.pc = "fetch"] \in Connect
        BY <4>1 DEF Connect
      <4>3. connects' = [connects EXCEPT ![c] = [connects[c] EXCEPT !.pc = "fetch"]]
        BY <1>2, <2>2
      <4> QED
        BY <1>0, <4>1, <4>2, <4>3
    <3>2. connects' \in Seq(Connect) /\ Len(connects') = Len(connects)
      BY <1>0, <3>1, FunctionSeq
    <3> QED
      BY <1>0, <1>2, <1>3, <2>2, <3>1, <3>2 DEF Connect
  <2> QED
    BY <2>1, <2>2
<1>5. /\ loads' \in Seq(Request) /\ Len(loads') = Len(loads) - 1
      /\ \A k \in 1 .. Len(loads) - 1 : loads'[k] = IF k < i THEN loads[k] ELSE loads[k + 1]
  BY <1>0, <1>2, Removed
<1>6. Returns
  BY <1>0, <1>1, <1>2, <1>4, <1>5 DEF Returns
<1>7. ConsoleTyped'
  <2>1. Len(loads') <= MaxLoads + Len(connects')
    <3>1. Len(loads) <= MaxLoads + Len(connects) /\ MaxLoads \in Nat
      BY DEF ConsoleTyped, Console!ConsoleAssumption
    <3> QED
      BY <1>0, <1>4, <1>5, <3>1
  <2> QED
    BY <1>2, <1>4, <1>5, <2>1 DEF ConsoleTyped
<1> QED
  BY <1>6, <1>7

\* The stream's request is answered or throws: the end of a connect.
Fetched ==
  \E c \in 1 .. Len(connects) :
    /\ connects[c].pc = "fetch"
    /\ Len(connects') = Len(connects) /\ connects'[c].pc = "done"
    /\ \A x \in 1 .. Len(connects) :
         /\ connects'[x].aborted <=> connects[x].aborted
         /\ x # c => connects'[x].pc = connects[x].pc
         /\ x # c => streams'[x] = streams[x]
    /\ UNCHANGED <<loads, streamAbort, overlapped>>
    /\ \/ UNCHANGED <<timers, heartbeatTimer>> /\ streams' = streams
       \/ timers' = timers \cup {c} /\ heartbeatTimer' = c

LEMMA Fetches ==
  ASSUME Console!ConsoleAssumption, ConsoleTyped, NEW c \in DOMAIN connects,
         Console!Opened(c) \/ Console!Denied(c) \/ Console!Thrown(c)
  PROVE  ConsoleTyped' /\ Fetched
<1>0. /\ connects \in [1 .. Len(connects) -> Connect] /\ streams \in Seq(Stream)
      /\ streams \in [1 .. Len(connects) -> Stream]
      /\ c \in 1 .. Len(connects) /\ Len(connects) \in Nat
  <2>1. connects \in Seq(Connect) /\ streams \in Seq(Stream) /\ Len(streams) = Len(connects)
    BY DEF ConsoleTyped
  <2> QED
    BY <2>1
<1>1. /\ connects[c].pc = "fetch" /\ connects' = [connects EXCEPT ![c].pc = "done"]
      /\ UNCHANGED <<token, tokenStatus, streamAbort, loads, known, overlapped, enabled, roster>>
  BY DEF Console!Opened, Console!Denied, Console!Thrown, Console!Fetching, Console!form
<1>2. /\ connects' \in Seq(Connect) /\ Len(connects') = Len(connects)
      /\ connects'[c].pc = "done"
      /\ \A x \in 1 .. Len(connects) : /\ connects'[x].aborted <=> connects[x].aborted
                                       /\ x # c => connects'[x].pc = connects[x].pc
  <2>1. connects' \in [1 .. Len(connects) -> Connect]
    BY <1>0, <1>1 DEF Connect
  <2>2. connects' \in Seq(Connect) /\ Len(connects') = Len(connects)
    BY <1>0, <2>1, FunctionSeq
  <2> QED
    BY <1>0, <1>1, <2>1, <2>2 DEF Connect
<1>3. /\ streams' \in Seq(Stream) /\ Len(streams') = Len(streams)
      /\ \A x \in 1 .. Len(connects) : x # c => streams'[x] = streams[x]
      /\ \/ UNCHANGED <<timers, heartbeatTimer>> /\ streams' = streams
         \/ timers' = timers \cup {c} /\ heartbeatTimer' = c
  <2>1. CASE Console!Denied(c) \/ Console!Thrown(c)
    BY <1>0, <2>1 DEF Console!Denied, Console!Thrown, Console!StartInterval
  <2>2. CASE Console!Opened(c)
    <3> DEFINE R == {<<"peer_added", n>> : n \in roster}
    <3>1. PICK s \in Console!SetToSeqs(R) :
            streams' = [streams EXCEPT ![c] = [open |-> TRUE, queue |-> s]]
      BY <2>2 DEF Console!Opened
    <3>2. IsFiniteSet(R)
      <4>1. IsFiniteSet(roster)
        <5>1. roster \subseteq Nodes
          BY DEF ConsoleTyped
        <5>2. IsFiniteSet(Nodes)
          BY DEF Console!ConsoleAssumption, Console!IsFiniteSet, IsFiniteSet
        <5> QED
          BY <5>1, <5>2, FS_Subset
      <4> DEFINE f == [n \in roster |-> <<"peer_added", n>>]
      <4>2. f \in Surjection(roster, R)
        BY DEF Surjection
      <4> QED
        BY <4>1, <4>2, FS_Surjection DEF ExistsSurjection
    <3>3. Console!Cardinality(R) \in Nat
      BY <3>2, FS_CardinalityType DEF Console!Cardinality, Cardinality
    <3>4. R \subseteq Frames
      <4>1. roster \subseteq Nodes
        BY DEF ConsoleTyped
      <4> QED
        BY <4>1 DEF Frames
    <3>5. s \in Seq(Frames)
      BY <3>1, <3>3, <3>4 DEF Console!SetToSeqs
    <3>6. [open |-> TRUE, queue |-> s] \in Stream
      BY <3>5 DEF Stream
    <3>7. streams' \in [1 .. Len(connects) -> Stream]
      BY <1>0, <3>1, <3>6
    <3>8. streams' \in Seq(Stream) /\ Len(streams') = Len(connects)
      BY <1>0, <3>7, FunctionSeq
    <3>9. timers' = timers \cup {c} /\ heartbeatTimer' = c
      BY <2>2 DEF Console!Opened, Console!StartInterval
    <3> QED
      BY <1>0, <3>1, <3>8, <3>9 DEF ConsoleTyped
  <2> QED
    BY <2>1, <2>2
<1>4. heartbeatTimer' \in Nat /\ timers' \in SUBSET (Nat \ {0})
  <2>1. heartbeatTimer \in Nat /\ timers \in SUBSET (Nat \ {0}) /\ c \in Nat \ {0}
    <3>1. c \in Nat \ {0}
      BY <1>0
    <3> QED
      BY <3>1 DEF ConsoleTyped
  <2> QED
    BY <1>3, <2>1
<1>5. ConsoleTyped'
  BY <1>1, <1>2, <1>3, <1>4 DEF ConsoleTyped
<1> QED
  BY <1>0, <1>1, <1>2, <1>3, <1>5 DEF Fetched

\* Every other step: an interval's request may be added, streams may end.
Goes ==
  /\ UNCHANGED <<connects, streamAbort, heartbeatTimer, timers, overlapped>>
  /\ \A c \in 1 .. Len(connects) : streams'[c].open => streams[c].open
  /\ Len(loads') >= Len(loads)
  /\ \A i \in 1 .. Len(loads) : loads'[i].by = loads[i].by
  /\ \A i \in 1 .. Len(loads') : i \notin 1 .. Len(loads) => loads'[i].by = 0

\* They keep the types.
LEMMA GoesOn ==
  ASSUME Console!ConsoleAssumption, ConsoleTyped,
         \/ Console!Edit \/ Console!TestToken \/ Console!TestFails \/ Console!Poll
         \/ \E i \in DOMAIN loads : Console!Serve(i)
         \/ \E c \in DOMAIN connects : Console!handleFrame(c) \/ Console!StreamEnds(c)
         \/ \E n \in Nodes : Console!Change(n)
  PROVE  ConsoleTyped' /\ Goes
<1>0. /\ connects \in Seq(Connect) /\ streams \in Seq(Stream) /\ loads \in Seq(Request)
      /\ Len(streams) = Len(connects) /\ Len(connects) \in Nat /\ Len(loads) \in Nat
      /\ loads \in [1 .. Len(loads) -> Request] /\ streams \in [1 .. Len(connects) -> Stream]
      /\ MaxLoads \in Nat /\ Len(loads) <= MaxLoads + Len(connects)
  <2>1. /\ connects \in Seq(Connect) /\ streams \in Seq(Stream) /\ loads \in Seq(Request)
        /\ Len(streams) = Len(connects) /\ Len(loads) <= MaxLoads + Len(connects)
    BY DEF ConsoleTyped
  <2>2. MaxLoads \in Nat
    BY DEF Console!ConsoleAssumption
  <2> QED
    BY <2>1, <2>2
<1>1. CASE Console!Edit \/ Console!TestToken \/ Console!TestFails
  <2>1. /\ UNCHANGED <<connects, streams, streamAbort, heartbeatTimer, timers, loads, known,
                       overlapped, enabled, roster>>
        /\ token' \in Tokens /\ tokenStatus' \in {"", "saved", "testing", "ok", "error"}
    BY <1>1 DEF Console!Edit, Console!TestToken, Console!TestFails, Console!page, Console!daemon,
         ConsoleTyped
  <2> QED
    <3>1. ConsoleTyped'
      BY <2>1 DEF ConsoleTyped
    <3>2. /\ streams' = streams /\ loads' = loads
          /\ UNCHANGED <<connects, streamAbort, heartbeatTimer, timers, overlapped>>
      BY <2>1
    <3>3. Len(loads') >= Len(loads)
      BY <1>0, <3>2
    <3>4. Goes
      BY <3>2, <3>3 DEF Goes
    <3> QED
      BY <3>1, <3>4
<1>2. CASE Console!Poll
  <2> DEFINE r == [by |-> 0, token |-> token, served |-> FALSE, body |-> {}]
  <2>1. /\ Len(loads) < MaxLoads /\ loads' = Append(loads, r)
        /\ UNCHANGED <<token, tokenStatus, connects, streams, streamAbort, heartbeatTimer, timers,
                       known, overlapped, enabled, roster>>
    BY <1>2 DEF Console!Poll, Console!Load, Console!form, Console!daemon
  <2>2. r \in Request /\ r.by = 0
    BY DEF Request, ConsoleTyped
  <2> HIDE DEF r
  <2>3. /\ loads' \in Seq(Request) /\ Len(loads') = Len(loads) + 1
        /\ loads'[Len(loads) + 1] = r /\ \A i \in 1 .. Len(loads) : loads'[i] = loads[i]
    BY <1>0, <2>1, <2>2, AppendProperties
  <2>4. Len(loads') <= MaxLoads + Len(connects')
    BY <1>0, <2>1, <2>3
  <2>5. ConsoleTyped'
    BY <2>1, <2>3, <2>4 DEF ConsoleTyped
  <2> QED
    BY <1>0, <2>1, <2>2, <2>3, <2>5 DEF Goes
<1>3. ASSUME NEW k \in DOMAIN loads, Console!Serve(k)
      PROVE  ConsoleTyped' /\ Goes
  <2>1. /\ loads' = [loads EXCEPT ![k].served = TRUE, ![k].body = roster]
        /\ UNCHANGED <<token, tokenStatus, connects, streams, streamAbort, heartbeatTimer, timers,
                       known, overlapped, enabled, roster>>
    BY <1>3 DEF Console!Serve, Console!form, Console!daemon
  <2>2. loads' \in [1 .. Len(loads) -> Request] /\ \A i \in 1 .. Len(loads) : loads'[i].by = loads[i].by
    BY <1>0, <2>1 DEF Request, ConsoleTyped
  <2>3. loads' \in Seq(Request) /\ Len(loads') = Len(loads)
    BY <1>0, <2>2, FunctionSeq
  <2>4. ConsoleTyped'
    BY <2>1, <2>3 DEF ConsoleTyped
  <2> QED
    BY <1>0, <2>1, <2>2, <2>3, <2>4 DEF Goes
<1>4. ASSUME NEW c \in DOMAIN connects, Console!handleFrame(c)
      PROVE  ConsoleTyped' /\ Goes
  <2>0. c \in 1 .. Len(connects) /\ streams[c] \in Stream
    BY <1>0
  <2>1. /\ streams[c].queue # << >> /\ streams[c].queue \in Seq(Frames)
        /\ streams' = [streams EXCEPT ![c].queue = Tail(@)]
        /\ UNCHANGED <<token, tokenStatus, connects, loads, streamAbort, heartbeatTimer, timers,
                       overlapped, enabled, roster>>
    BY <1>4, <2>0 DEF Console!handleFrame, Console!form, Stream
  <2>2. Tail(streams[c].queue) \in Seq(Frames) /\ Head(streams[c].queue) \in Frames
    BY <2>1
  <2>3. /\ streams' \in [1 .. Len(connects) -> Stream]
        /\ \A x \in 1 .. Len(connects) : streams'[x].open = streams[x].open
    BY <1>0, <2>0, <2>1, <2>2 DEF Stream
  <2>4. streams' \in Seq(Stream) /\ Len(streams') = Len(connects)
    BY <1>0, <2>3, FunctionSeq
  <2>5. known' \in SUBSET Nodes
    <3>1. Head(streams[c].queue)[2] \in Nodes
      BY <2>2 DEF Frames
    <3> QED
      BY <1>4, <3>1 DEF Console!handleFrame, ConsoleTyped
  <2>6. ConsoleTyped'
    BY <2>1, <2>4, <2>5 DEF ConsoleTyped
  <2> QED
    BY <1>0, <2>1, <2>3, <2>6 DEF Goes
<1>5. ASSUME NEW c \in DOMAIN connects, Console!StreamEnds(c)
      PROVE  ConsoleTyped' /\ Goes
  <2>0. c \in 1 .. Len(connects) /\ streams[c] \in Stream /\ streams[c].queue \in Seq(Frames)
    BY <1>0 DEF Stream
  <2>1. /\ streams[c].open
        /\ UNCHANGED <<token, tokenStatus, connects, loads, streamAbort, heartbeatTimer, timers,
                       known, overlapped, enabled, roster>>
    BY <1>5 DEF Console!StreamEnds, Console!form, Console!page
  <2>2. PICK k \in 0 .. Len(streams[c].queue) :
          streams' = [streams EXCEPT ![c] = [open |-> FALSE,
                                             queue |-> SubSeq(streams[c].queue, 1, k)]]
    BY <1>0, <1>5, <2>0 DEF Console!StreamEnds
  <2>3. SubSeq(streams[c].queue, 1, k) \in Seq(Frames)
    BY <2>0, <2>2
  <2>4. /\ streams' \in [1 .. Len(connects) -> Stream]
        /\ \A x \in 1 .. Len(connects) : streams'[x].open => streams[x].open
    BY <1>0, <2>0, <2>1, <2>2, <2>3 DEF Stream
  <2>5. streams' \in Seq(Stream) /\ Len(streams') = Len(connects)
    BY <1>0, <2>4, FunctionSeq
  <2>6. ConsoleTyped'
    BY <2>1, <2>5 DEF ConsoleTyped
  <2> QED
    BY <1>0, <2>1, <2>4, <2>6 DEF Goes
<1>6. ASSUME NEW n \in Nodes, Console!Change(n)
      PROVE  ConsoleTyped' /\ Goes
  <2> DEFINE e == <<IF n \in roster THEN "peer_removed" ELSE "peer_added", n>>
  <2>1. /\ roster' = IF n \in roster THEN roster \ {n} ELSE roster \cup {n}
        /\ UNCHANGED <<token, tokenStatus, connects, loads, streamAbort, heartbeatTimer, timers,
                       known, overlapped, enabled>>
    BY <1>6 DEF Console!Change, Console!form, Console!page
  <2>2. PICK told : streams' = [c \in DOMAIN streams |->
                      IF c \in told THEN [streams[c] EXCEPT !.queue = Append(@, e)]
                      ELSE streams[c]]
    BY <1>6 DEF Console!Change
  <2>3. e \in Frames
    BY DEF Frames
  <2> HIDE DEF e
  <2>4. ASSUME NEW c \in 1 .. Len(connects)
        PROVE  streams'[c] \in Stream /\ streams'[c].open = streams[c].open
    <3>1. streams[c] \in Stream /\ streams[c].queue \in Seq(Frames)
      BY <1>0 DEF Stream
    <3>2. Append(streams[c].queue, e) \in Seq(Frames)
      BY <2>3, <3>1
    <3>3. streams'[c] = IF c \in told THEN [streams[c] EXCEPT !.queue = Append(@, e)]
                        ELSE streams[c]
      BY <1>0, <2>2
    <3> QED
      BY <3>1, <3>2, <3>3 DEF Stream
  <2>5. streams' \in [1 .. Len(connects) -> Stream]
    BY <1>0, <2>2, <2>4
  <2>6. streams' \in Seq(Stream) /\ Len(streams') = Len(connects)
    BY <1>0, <2>5, FunctionSeq
  <2>7. roster' \in SUBSET Nodes
    BY <2>1 DEF ConsoleTyped
  <2>8. ConsoleTyped'
    BY <2>1, <2>6, <2>7 DEF ConsoleTyped
  <2> QED
    BY <1>0, <2>1, <2>4, <2>8 DEF Goes
<1> QED
  BY <1>1, <1>2, <1>3, <1>4, <1>5, <1>6

\* The four kinds of steps.
LEMMA ConsoleCases ==
  ASSUME Console!ConsoleAssumption, ConsoleTyped, Paged, Console!Next
  PROVE  ConsoleTyped' /\ (Connected \/ Returns \/ Fetched \/ Goes)
<1>1. CASE Console!Submit
  BY <1>1, Connects DEF Console!Submit
<1>2. CASE Console!Tested
  BY <1>2, Connects DEF Console!Tested
<1>3. ASSUME NEW i \in DOMAIN loads, Console!Apply(i)
      PROVE  ConsoleTyped' /\ Returns
  <2>1. loads[i] \in Request
    <3>1. loads \in Seq(Request)
      BY DEF ConsoleTyped
    <3> QED
      BY <3>1
  <2>2. known' \in SUBSET Nodes
    BY <1>3, <2>1 DEF Console!Apply, ConsoleTyped, Request
  <2>3. Console!Returned(i) /\ UNCHANGED streams
    BY <1>3 DEF Console!Apply, Console!Returned, Console!daemon
  <2> QED
    BY <2>2, <2>3, ReturnsTo
<1>4. ASSUME NEW i \in DOMAIN loads, Console!LoadFails(i)
      PROVE  ConsoleTyped' /\ Returns
  <2>1. Console!Returned(i) /\ UNCHANGED streams /\ known' = known
    BY <1>4 DEF Console!LoadFails, Console!Returned, Console!daemon
  <2>2. known' \in SUBSET Nodes
    BY <2>1 DEF ConsoleTyped
  <2> QED
    BY <2>1, <2>2, ReturnsTo
<1> QED
  BY <1>1, <1>2, <1>3, <1>4, Fetches, GoesOn DEF Console!Next

\* Each connect waits for a request of its own.
LEMMA PagedStep ==
  ASSUME Console!ConsoleAssumption, ConsoleTyped, Paged, [Console!Next]_Console!vars
  PROVE  Paged'
<1>0. /\ Len(connects) \in Nat /\ Len(loads) \in Nat
      /\ streamAbort \in 0 .. Len(connects)
      /\ \A i \in 1 .. Len(loads) : loads[i].by \in Nat
  <2>1. connects \in Seq(Connect) /\ loads \in Seq(Request) /\ streamAbort \in 0 .. Len(connects)
    BY DEF ConsoleTyped
  <2>2. \A r \in Request : r.by \in Nat
    BY DEF Request
  <2> QED
    BY <2>1, <2>2
<1>9. PICK n \in Nat, l \in Nat : n = Len(connects) /\ l = Len(loads)
  BY <1>0
<1> USE DEF Paged
<1>1. CASE UNCHANGED Console!vars
  BY <1>1 DEF Console!vars, Console!page
<1> DEFINE Alone  == \A i, j \in 1 .. Len(loads) :
                       loads[i].by = loads[j].by /\ loads[i].by # 0 => i = j
           Waited == \A i \in 1 .. Len(loads) : loads[i].by # 0 =>
                       loads[i].by <= Len(connects) /\ connects[loads[i].by].pc = "load"
           Unspoilt == \A c \in 1 .. Len(connects) : connects[c].aborted => connects[c].pc # "load"
           Latest == streamAbort # 0 => /\ ~connects[streamAbort].aborted
                                        /\ connects[streamAbort].pc # "load"
           Timed  == heartbeatTimer # 0 => heartbeatTimer \in timers
<1>10. Paged' <=> Alone' /\ Waited' /\ Unspoilt' /\ Latest' /\ Timed'
  OBVIOUS
<1>2. CASE Connected
  <2>0. /\ Len(connects') = n + 1 /\ \A c \in 1 .. n : connects'[c].pc = connects[c].pc
        /\ streamAbort' = 0 /\ heartbeatTimer' = 0
        /\ \/ loads' = loads
           \/ /\ connects'[n + 1].pc = "load" /\ Len(loads') = l + 1
              /\ \A i \in 1 .. l : loads'[i] = loads[i]
              /\ loads'[l + 1].by = n + 1
    BY <1>2, <1>9 DEF Connected
  <2>1. ASSUME NEW i \in 1 .. l, loads[i].by # 0
        PROVE  loads[i].by \in 1 .. n /\ connects'[loads[i].by].pc = "load"
    <3>1. loads[i].by \in 1 .. n /\ connects[loads[i].by].pc = "load"
      BY <1>0, <1>9, <2>1
    <3> QED
      BY <2>0, <3>1
  <2>2. Alone' /\ Waited'
    <3>1. CASE loads' = loads
      <4>1. Alone'
        BY <1>9, <3>1
      <4>2. Waited'
        BY <1>9, <2>0, <2>1, <3>1
      <4> QED
        BY <4>1, <4>2
    <3>2. CASE /\ connects'[n + 1].pc = "load" /\ Len(loads') = l + 1
               /\ \A i \in 1 .. l : loads'[i] = loads[i]
               /\ loads'[l + 1].by = n + 1
      <4>1. \A i \in 1 .. l + 1 : i \in 1 .. l \/ i = l + 1
        OBVIOUS
      <4>2. Alone'
        BY <1>9, <2>1, <3>2, <4>1
      <4>3. Waited'
        BY <1>9, <2>0, <2>1, <3>2, <4>1
      <4> QED
        BY <4>2, <4>3
    <3> QED
      BY <2>0, <3>1, <3>2
  <2>3. Unspoilt'
    <3>1. SUFFICES ASSUME NEW c \in 1 .. n + 1, connects'[c].aborted
                   PROVE  connects'[c].pc # "load"
      BY <2>0
    <3>2. c \in 1 .. n /\ (connects[c].aborted \/ c = streamAbort)
      BY <1>2, <1>9, <3>1 DEF Connected
    <3> QED
      BY <1>9, <2>0, <3>2
  <2>4. Latest' /\ Timed'
    BY <2>0
  <2> HIDE DEF Alone, Waited, Unspoilt, Latest, Timed, Paged
  <2> QED
    BY <1>10, <2>2, <2>3, <2>4
<1>3. CASE Returns
  <2>1. PICK i \in 1 .. l :
          /\ Len(loads') = l - 1
          /\ \A k \in 1 .. l - 1 : loads'[k] = IF k < i THEN loads[k] ELSE loads[k + 1]
          /\ Len(connects') = n
          /\ \/ loads[i].by = 0 /\ connects' = connects /\ streamAbort' = streamAbort
             \/ /\ loads[i].by # 0 /\ streamAbort' = loads[i].by
                /\ connects'[loads[i].by].pc = "fetch"
                /\ \A c \in 1 .. n :
                     /\ connects'[c].aborted <=> connects[c].aborted
                     /\ c # loads[i].by => connects'[c].pc = connects[c].pc
          /\ UNCHANGED <<heartbeatTimer, timers>>
    BY <1>3, <1>9 DEF Returns
  <2>2. ASSUME NEW k \in 1 .. l - 1
        PROVE  \E j \in 1 .. l : j # i /\ loads'[k] = loads[j] /\ j = IF k < i THEN k ELSE k + 1
    <3>1. PICK j \in 1 .. l : j = IF k < i THEN k ELSE k + 1
      OBVIOUS
    <3>2. j # i
      BY <3>1
    <3>3. loads'[k] = loads[j]
      BY <2>1, <3>1
    <3> QED
      BY <3>1, <3>2, <3>3
  <2>3. Alone'
    <3>1. SUFFICES ASSUME NEW k \in 1 .. l - 1, NEW m \in 1 .. l - 1,
                          loads'[k].by = loads'[m].by, loads'[k].by # 0
                   PROVE  k = m
      BY <2>1
    <3>2. PICK j \in 1 .. l : loads'[k] = loads[j] /\ j = IF k < i THEN k ELSE k + 1
      BY <2>2
    <3>3. PICK h \in 1 .. l : loads'[m] = loads[h] /\ h = IF m < i THEN m ELSE m + 1
      BY <2>2
    <3>4. j = h
      BY <1>9, <3>1, <3>2, <3>3
    <3> QED
      BY <3>2, <3>3, <3>4
  <2>4. Waited'
    <3>1. SUFFICES ASSUME NEW k \in 1 .. l - 1, loads'[k].by # 0
                   PROVE  loads'[k].by <= n /\ connects'[loads'[k].by].pc = "load"
      BY <2>1
    <3>2. PICK j \in 1 .. l : j # i /\ loads'[k] = loads[j]
      BY <2>2
    <3>3. loads[j].by \in 1 .. n /\ connects[loads[j].by].pc = "load" /\ loads[j].by # loads[i].by
      BY <1>0, <1>9, <3>1, <3>2
    <3> QED
      BY <2>1, <3>2, <3>3
  <2>5. Unspoilt'
    <3>1. SUFFICES ASSUME NEW c \in 1 .. n, connects'[c].aborted
                   PROVE  connects'[c].pc # "load"
      BY <2>1
    <3>2. connects[c].aborted /\ (c # loads[i].by => connects'[c].pc = connects[c].pc)
      BY <2>1, <3>1
    <3>3. connects[c].pc # "load"
      BY <1>9, <3>2
    <3>4. CASE c = loads[i].by /\ connects' # connects
      BY <2>1, <3>4
    <3> QED
      BY <3>2, <3>3, <3>4
  <2>6. Latest'
    <3>1. CASE loads[i].by = 0
      BY <2>1, <3>1
    <3>2. CASE loads[i].by # 0
      <4>1. loads[i].by \in 1 .. n /\ connects[loads[i].by].pc = "load"
        BY <1>0, <1>9, <3>2
      <4> QED
        BY <1>9, <2>1, <3>2, <4>1
    <3> QED
      BY <3>1, <3>2
  <2>7. Timed'
    BY <2>1
  <2> HIDE DEF Alone, Waited, Unspoilt, Latest, Timed, Paged
  <2> QED
    BY <1>10, <2>3, <2>4, <2>5, <2>6, <2>7
<1>4. CASE Fetched
  <2>1. PICK c \in 1 .. n :
          /\ connects[c].pc = "fetch" /\ Len(connects') = n /\ connects'[c].pc = "done"
          /\ \A x \in 1 .. n : /\ connects'[x].aborted <=> connects[x].aborted
                               /\ x # c => connects'[x].pc = connects[x].pc
          /\ UNCHANGED <<loads, streamAbort>>
          /\ \/ UNCHANGED <<timers, heartbeatTimer>>
             \/ timers' = timers \cup {c} /\ heartbeatTimer' = c
    BY <1>4, <1>9 DEF Fetched
  <2>2. Alone'
    BY <2>1
  <2>3. Waited'
    <3>1. SUFFICES ASSUME NEW k \in 1 .. l, loads[k].by # 0
                   PROVE  loads[k].by <= n /\ connects'[loads[k].by].pc = "load"
      BY <1>9, <2>1
    <3>2. loads[k].by \in 1 .. n /\ connects[loads[k].by].pc = "load"
      BY <1>0, <1>9, <3>1
    <3> QED
      BY <2>1, <3>2
  <2>4. Unspoilt'
    BY <1>9, <2>1
  <2>5. Latest'
    <3>1. streamAbort # 0 => streamAbort \in 1 .. n
      BY <1>0, <1>9
    <3> QED
      BY <2>1, <3>1
  <2>6. Timed'
    BY <2>1
  <2> HIDE DEF Alone, Waited, Unspoilt, Latest, Timed, Paged
  <2> QED
    BY <1>10, <2>2, <2>3, <2>4, <2>5, <2>6
<1>5. CASE Goes
  <2>1. /\ UNCHANGED <<connects, streamAbort, heartbeatTimer, timers>>
        /\ \A i \in 1 .. l : loads'[i].by = loads[i].by
        /\ \A i \in 1 .. Len(loads') : i \notin 1 .. l => loads'[i].by = 0
    BY <1>5, <1>9 DEF Goes
  <2>2. \A i \in 1 .. Len(loads') : loads'[i].by # 0 => i \in 1 .. l /\ loads'[i].by = loads[i].by
    BY <2>1
  <2>3. Alone'
    BY <1>9, <2>1, <2>2
  <2>4. Waited'
    BY <1>9, <2>1, <2>2
  <2>5. Unspoilt' /\ Latest' /\ Timed'
    BY <2>1
  <2> HIDE DEF Alone, Waited, Unspoilt, Latest, Timed, Paged
  <2> QED
    BY <1>10, <2>3, <2>4, <2>5
<1> QED
  BY <1>1, <1>2, <1>3, <1>4, <1>5, ConsoleCases

\* So the page follows one stream, with one interval.
LEMMA FollowedStep ==
  ASSUME Console!ConsoleAssumption, ConsoleTyped, Paged, Followed, [Console!Next]_Console!vars
  PROVE  Followed'
<1>0. /\ Len(connects) \in Nat /\ Len(streams) = Len(connects)
      /\ streamAbort \in 0 .. Len(connects)
      /\ \A c \in 1 .. Len(connects) : connects[c].pc \in {"load", "fetch", "done"}
  <2>1. connects \in Seq(Connect) /\ streamAbort \in 0 .. Len(connects)
        /\ Len(streams) = Len(connects)
    BY DEF ConsoleTyped
  <2>2. \A c \in Connect : c.pc \in {"load", "fetch", "done"}
    BY DEF Connect
  <2> QED
    BY <2>1, <2>2
<1>9. PICK n \in Nat : n = Len(connects)
  BY <1>0
<1>1. CASE UNCHANGED Console!vars
  BY <1>1 DEF Followed, Console!vars, Console!page, Console!daemon
<1>2. CASE Connected
  <2>1. SUFFICES ASSUME ~overlapped' PROVE Followed'
    BY DEF Followed
  <2>2. ~overlapped /\ \A c \in 1 .. n : connects[c].pc = "done"
    BY <1>2, <1>9, <2>1 DEF Connected
  <2>3. /\ Len(connects') = n + 1 /\ streamAbort' = 0 /\ timers' = {}
        /\ \A c \in 1 .. n : /\ connects'[c].pc = "done" /\ streams'[c] = streams[c]
                             /\ connects'[c].aborted <=> connects[c].aborted \/ c = streamAbort
        /\ connects'[n + 1].pc \in {"load", "done"} /\ ~streams'[n + 1].open
    BY <1>2, <1>9, <2>2 DEF Connected, Followed
  <2>4. \A c \in 1 .. n + 1 : c \in 1 .. n \/ c = n + 1
    OBVIOUS
  <2>5. \A c \in 1 .. n : ~(streams'[c].open /\ ~connects'[c].aborted)
    BY <1>9, <2>2, <2>3 DEF Followed
  <2> QED
    BY <2>3, <2>4, <2>5 DEF Followed
<1>3. CASE Returns
  <2>1. SUFFICES ASSUME ~overlapped' PROVE Followed'
    BY DEF Followed
  <2>2. /\ ~overlapped /\ UNCHANGED <<streams, heartbeatTimer, timers>> /\ Len(connects') = n
    BY <1>3, <1>9, <2>1 DEF Returns
  <2>3. CASE connects' = connects /\ streamAbort' = streamAbort
    BY <2>2, <2>3 DEF Followed
  <2>4. ASSUME NEW i \in 1 .. Len(loads), loads[i].by # 0, streamAbort' = loads[i].by,
               connects'[loads[i].by].pc = "fetch",
               \A c \in 1 .. n : /\ connects'[c].aborted <=> connects[c].aborted
                                 /\ c # loads[i].by => connects'[c].pc = connects[c].pc
        PROVE  Followed'
    <3>1. PICK c \in 1 .. n : c = loads[i].by /\ connects[c].pc = "load"
      <4>1. loads[i].by \in Nat
        <5>1. loads \in Seq(Request)
          BY DEF ConsoleTyped
        <5>2. loads[i] \in Request
          BY <5>1
        <5> QED
          BY <5>2 DEF Request
      <4> QED
        BY <1>9, <2>4, <4>1 DEF Paged
    <3>2. c = n /\ timers = {} /\ streamAbort = 0
      BY <1>9, <2>2, <3>1 DEF Followed
    <3>3. \A x \in 1 .. n : x # c => connects[x].pc = "done"
      BY <1>9, <2>2, <3>2 DEF Followed
    <3>4. \A x \in 1 .. n : ~(streams[x].open /\ ~connects[x].aborted)
      BY <1>9, <2>2, <3>2 DEF Followed
    <3> QED
      BY <2>2, <2>4, <3>1, <3>2, <3>3, <3>4 DEF Followed
  <2> QED
    BY <1>3, <1>9, <2>3, <2>4 DEF Returns
<1>4. CASE Fetched
  <2>1. SUFFICES ASSUME ~overlapped' PROVE Followed'
    BY DEF Followed
  <2>2. PICK c \in 1 .. n :
          /\ connects[c].pc = "fetch" /\ Len(connects') = n /\ connects'[c].pc = "done"
          /\ \A x \in 1 .. n : /\ connects'[x].aborted <=> connects[x].aborted
                               /\ x # c => connects'[x].pc = connects[x].pc
                               /\ x # c => streams'[x] = streams[x]
          /\ UNCHANGED <<streamAbort, overlapped>>
          /\ \/ UNCHANGED <<timers, heartbeatTimer>> /\ streams' = streams
             \/ timers' = timers \cup {c} /\ heartbeatTimer' = c
    BY <1>4, <1>9 DEF Fetched
  <2>3. ~overlapped /\ c = n /\ timers = {} /\ streamAbort = c
    BY <1>9, <2>1, <2>2 DEF Followed
  <2>4. \A x \in 1 .. n : connects'[x].pc = "done"
    BY <1>9, <2>2, <2>3 DEF Followed
  <2>5. \A x \in 1 .. n : streams'[x].open /\ ~connects'[x].aborted => streamAbort = x
    BY <1>9, <2>2, <2>3 DEF Followed
  <2>6. \A t \in timers' : t = heartbeatTimer'
    BY <2>2, <2>3
  <2> QED
    BY <2>2, <2>4, <2>5, <2>6 DEF Followed
<1>5. CASE Goes
  BY <1>5, <1>9 DEF Goes, Followed
<1> QED
  BY <1>1, <1>2, <1>3, <1>4, <1>5, ConsoleCases

LEMMA ConsoleBegins ==
  ASSUME Console!ConsoleAssumption, Console!Init
  PROVE  ConsoleTyped /\ Paged /\ Followed
<1>1. /\ connects = << >> /\ streams = << >> /\ loads = << >> /\ streamAbort = 0
      /\ heartbeatTimer = 0 /\ timers = {} /\ known = {} /\ overlapped = FALSE
      /\ token \in Tokens /\ tokenStatus = "" /\ enabled \in BOOLEAN
  BY DEF Console!Init
<1>2. roster \in SUBSET Nodes
  BY DEF Console!Init
<1>3. Len(connects) = 0 /\ Len(streams) = 0 /\ Len(loads) = 0
  BY <1>1
<1>4. ConsoleTyped
  <2>1. connects \in Seq(Connect) /\ streams \in Seq(Stream) /\ loads \in Seq(Request)
    BY <1>1, EmptySeq
  <2>2. MaxConnects \in Nat /\ MaxLoads \in Nat
    BY DEF Console!ConsoleAssumption
  <2>3. /\ Len(streams) = Len(connects) /\ Len(connects) <= MaxConnects
        /\ Len(loads) <= MaxLoads + Len(connects) /\ streamAbort \in 0 .. Len(connects)
    <3>1. streamAbort = 0
      BY <1>1
    <3> QED
      BY <1>3, <2>2, <3>1
  <2>4. heartbeatTimer \in Nat /\ timers \in SUBSET (Nat \ {0}) /\ overlapped \in BOOLEAN
    BY <1>1
  <2> QED
    BY <1>1, <1>2, <2>1, <2>3, <2>4 DEF ConsoleTyped
<1>5. Paged /\ Followed
  <2>1. 1 .. Len(connects) = {} /\ 1 .. Len(loads) = {}
    BY <1>3
  <2> QED
    BY <1>1, <2>1 DEF Paged, Followed
<1> QED
  BY <1>4, <1>5

\* A set of which all members are equal has one at most.
LEMMA OneAtMost ==
  ASSUME NEW S, NEW x, \A t \in S : t = x
  PROVE  Console!Cardinality(S) <= 1
<1>1. Console!Cardinality(S) = Cardinality(S)
  BY DEF Console!Cardinality, Cardinality
<1>2. S = {} \/ S = {x}
  OBVIOUS
<1> QED
  BY <1>1, <1>2, FS_EmptySet, FS_Singleton

\* connect, loadInitial, testToken: the types of the page's state; as many
\* requests wait as were made, the interval in use runs and the controller in use
\* has not been aborted.
THEOREM ConsoleTypeCorrect ==
  ASSUME Console!ConsoleAssumption
  PROVE  Console!Spec => []Console!TypeOK
<1>1. Console!Init => ConsoleTyped /\ Paged
  BY ConsoleBegins
<1>2. ConsoleTyped /\ Paged /\ [Console!Next]_Console!vars => (ConsoleTyped /\ Paged)'
  <2> SUFFICES ASSUME ConsoleTyped, Paged, [Console!Next]_Console!vars
               PROVE  ConsoleTyped' /\ Paged'
    OBVIOUS
  <2>1. CASE UNCHANGED Console!vars
    BY <2>1, PagedStep DEF ConsoleTyped, Console!vars, Console!form, Console!page, Console!daemon
  <2> QED
    BY <2>1, PagedStep, ConsoleCases
<1>3. ConsoleTyped /\ Paged => Console!TypeOK
  <2> SUFFICES ASSUME ConsoleTyped, Paged PROVE Console!TypeOK
    OBVIOUS
  <2>0. connects \in Seq(Connect)
    BY DEF ConsoleTyped
  <2>1. /\ DOMAIN connects = 1 .. Len(connects) /\ Len(connects) \in Nat
        /\ \A c \in DOMAIN connects : connects[c] \in Connect
    BY <2>0
  <2>2. \A c \in DOMAIN connects :
          connects[c] \in [pc : {"load", "fetch", "done"}, aborted : BOOLEAN, token : Tokens]
    BY <2>1 DEF Connect
  <2>3. Len(loads) <= MaxLoads + MaxConnects
    <3>1. loads \in Seq(Request) /\ Len(loads) <= MaxLoads + Len(connects)
          /\ Len(connects) <= MaxConnects
      BY DEF ConsoleTyped
    <3>2. MaxLoads \in Nat /\ MaxConnects \in Nat /\ Len(loads) \in Nat /\ Len(connects) \in Nat
      BY <2>1, <3>1 DEF Console!ConsoleAssumption
    <3> QED
      BY <3>1, <3>2
  <2> QED
    BY <2>2, <2>3 DEF ConsoleTyped, Paged, Console!TypeOK
<1> QED
  BY <1>1, <1>2, <1>3, PTL DEF Console!Spec

\* connect and disconnect: unless connect is called while another is under way,
\* the page reads one stream and runs one interval at most, whatever requests
\* fail, streams end and nodes come and go.
THEOREM FollowsOne ==
  ASSUME Console!ConsoleAssumption
  PROVE  Console!Spec => []Console!OneFollower
<1>1. Console!Init => ConsoleTyped /\ Paged /\ Followed
  BY ConsoleBegins
<1>2. ConsoleTyped /\ Paged /\ Followed /\ [Console!Next]_Console!vars
        => (ConsoleTyped /\ Paged /\ Followed)'
  <2> SUFFICES ASSUME ConsoleTyped, Paged, Followed, [Console!Next]_Console!vars
               PROVE  ConsoleTyped' /\ Paged' /\ Followed'
    OBVIOUS
  <2>1. CASE UNCHANGED Console!vars
    BY <2>1, PagedStep, FollowedStep
       DEF ConsoleTyped, Console!vars, Console!form, Console!page, Console!daemon
  <2> QED
    BY <2>1, PagedStep, FollowedStep, ConsoleCases
<1>3. ConsoleTyped /\ Followed => Console!OneFollower
  <2> SUFFICES ASSUME ConsoleTyped, Followed, ~overlapped PROVE Console!OneFollower
    BY DEF Console!OneFollower
  <2>0. connects \in Seq(Connect) /\ Len(streams) = Len(connects)
    BY DEF ConsoleTyped
  <2>1. DOMAIN connects = 1 .. Len(connects)
    BY <2>0
  <2>2. Console!Cardinality(timers) <= 1
    <3>1. \A t \in timers : t = heartbeatTimer
      BY DEF Followed
    <3> QED
      BY <3>1, OneAtMost
  <2>3. Console!Cardinality({c \in DOMAIN connects : Console!Live(c)}) <= 1
    <3>1. \A c \in {c \in DOMAIN connects : Console!Live(c)} : c = streamAbort
      BY <2>1 DEF Followed, Console!Live
    <3> QED
      BY <3>1, OneAtMost
  <2> QED
    BY <2>2, <2>3 DEF Console!OneFollower
<1> QED
  BY <1>1, <1>2, <1>3, PTL DEF Console!Spec

-----------------------------------------------------------------------------
(***************************************************************************)
(* The chat of the web console                                             *)
(***************************************************************************)

\* The types of the session on both sides.
ChatTyped ==
  /\ await \in Chat!Rpcs \cup {"idle", "llm"} /\ then \in {"list", "call"}
  /\ sessions \in Seq({"new", "ready", "gone"})
  /\ mcp \in [sessionId : 0 .. Len(sessions), initialized : BOOLEAN, toolsCache : BOOLEAN]
  /\ sid \in 0 .. Len(sessions)
  /\ expired \in BOOLEAN /\ disturbed \in BOOLEAN /\ refusals \in 0 .. 2

\* Unless the daemon forgot the session or Clear was pressed during a send, both
\* sides agree about it.
Agreed ==
  expired \/ disturbed \/
    /\ refusals = 0
    /\ mcp.sessionId # 0 => sessions[mcp.sessionId] # "gone"
    /\ mcp.initialized => mcp.sessionId # 0 /\ sessions[mcp.sessionId] = "ready"
    /\ await # "idle" => sid = mcp.sessionId
    /\ await = "initialized" => sid # 0
    /\ await \in {"list", "call"} => mcp.initialized

\* Where a send goes on: with the identifier of that moment.
Onward(m) ==
  /\ mcp' = m /\ sid' = m.sessionId
  /\ await' \in Chat!Rpcs \cup {"idle", "llm"} /\ then' \in {"list", "call"}
  /\ await' # "initialized" /\ (await' \in {"list", "call"} => m.initialized)

LEMMA Ensured ==
  ASSUME NEW for \in {"list", "call"}, NEW m, Chat!ensureInitialized(for, m)
  PROVE  Onward(m)
BY DEF Chat!ensureInitialized, Chat!Await, Chat!Rpcs, Onward

LEMMA Asked ==
  ASSUME ChatTyped, NEW m, NEW d, NEW log, Chat!AskModel(d, log, m) \/ Chat!End(log, m)
  PROVE  Onward(m)
BY DEF ChatTyped, Chat!AskModel, Chat!End, Chat!Await, Onward

LEMMA CalledOn ==
  ASSUME ChatTyped, NEW m, NEW d, Chat!NextCall(d, m)
  PROVE  Onward(m)
BY Ensured, Asked DEF Chat!NextCall, Chat!EndRound

\* What an answer does.
LEMMA Resumed ==
  ASSUME ChatTyped, NEW ok, NEW header, Chat!Resume(ok, header), await \in Chat!Rpcs
  PROVE  LET m == IF header = 0 THEN mcp ELSE [mcp EXCEPT !.sessionId = header] IN
         \/ /\ ok /\ await = "initialize" /\ await' = "initialized" /\ mcp' = m
            /\ sid' = m.sessionId /\ then' = then
         \/ /\ ok /\ await = "initialized" /\ await' = then
            /\ mcp' = [m EXCEPT !.initialized = TRUE] /\ sid' = mcp'.sessionId /\ then' = then
         \/ ok /\ await = "list" /\ Onward([m EXCEPT !.toolsCache = TRUE])
         \/ (ok => await = "call") /\ Onward(m)
<1> DEFINE m == IF header = 0 THEN mcp ELSE [mcp EXCEPT !.sessionId = header]
<1>0. await \in {"initialize", "initialized", "list", "call"}
  BY DEF Chat!Rpcs
<1> HIDE DEF m
<1>1. CASE ok
  <2>1. CASE await = "initialize"
    BY <1>1, <2>1 DEF Chat!Resume, Chat!Await, m
  <2>2. CASE await = "initialized"
    BY <1>1, <2>2 DEF Chat!Resume, Chat!Await, m
  <2>3. CASE await = "list"
    <3>1. Chat!StartDrive(drive.provider, messages, [m EXCEPT !.toolsCache = TRUE])
      BY <1>1, <2>3 DEF Chat!Resume, m
    <3> QED
      BY <1>1, <2>3, <3>1, Asked DEF Chat!StartDrive, m
  <2>4. CASE await = "call"
    <3>1. Chat!NextCall(Chat!Answered(drive, TRUE), m)
      BY <1>1, <2>4 DEF Chat!Resume, m
    <3> QED
      BY <1>1, <2>4, <3>1, CalledOn DEF m
  <2> QED
    BY <1>0, <2>1, <2>2, <2>3, <2>4
<1>2. CASE ~ok
  <2>1. Onward(m)
    BY <1>2, CalledOn, Asked DEF Chat!Resume, m
  <2> QED
    BY <1>2, <2>1 DEF m
<1> QED
  BY <1>1, <1>2

\* What the daemon answers.
LEMMA Answers ==
  ASSUME ChatTyped, NEW o \in Chat!Outcomes
  PROVE  \/ /\ sid = 0 /\ (o.ok <=> await = "initialize")
            /\ o.header = Len(sessions) + 1 /\ o.sessions = Append(sessions, "new")
         \/ /\ sid # 0 /\ sessions[sid] = "gone"
            /\ ~o.ok /\ o.header = 0 /\ o.sessions = sessions
         \/ /\ sid # 0 /\ sessions[sid] # "gone" /\ o.header \in {0, sid}
            /\ o.ok <=> (await \in {"list", "call"} => sessions[sid] = "ready")
            /\ o.sessions = IF await = "initialized" THEN [sessions EXCEPT ![sid] = "ready"]
                            ELSE sessions
<1>1. CASE sid = 0
  <2>1. o = [ok |-> await = "initialize", header |-> Len(sessions) + 1,
             sessions |-> Append(sessions, "new")]
    BY <1>1 DEF Chat!Outcomes
  <2> QED
    BY <1>1, <2>1
<1>2. CASE sid # 0 /\ sessions[sid] = "gone"
  <2>1. o = [ok |-> FALSE, header |-> 0, sessions |-> sessions]
    BY <1>2 DEF Chat!Outcomes
  <2> QED
    BY <1>2, <2>1
<1>3. CASE sid # 0 /\ sessions[sid] # "gone"
  <2>1. PICK h \in {0, sid} :
          o = [ok |-> await \in {"list", "call"} => sessions[sid] = "ready", header |-> h,
               sessions |-> IF await = "initialized" THEN [sessions EXCEPT ![sid] = "ready"]
                            ELSE sessions]
    BY <1>3 DEF Chat!Outcomes
  <2> QED
    BY <1>3, <2>1
<1> QED
  BY <1>1, <1>2, <1>3

\* Its sessions stay a sequence of states, and no identifier is taken back.
LEMMA SessionsTyped ==
  ASSUME ChatTyped, NEW o \in Chat!Outcomes
  PROVE  /\ o.sessions \in Seq({"new", "ready", "gone"})
         /\ Len(o.sessions) >= Len(sessions) /\ o.header \in 0 .. Len(o.sessions)
         /\ Len(sessions) \in Nat /\ Len(o.sessions) \in Nat
<1>1. sessions \in Seq({"new", "ready", "gone"}) /\ sid \in 0 .. Len(sessions)
  BY DEF ChatTyped
<1>2. Append(sessions, "new") \in Seq({"new", "ready", "gone"})
      /\ Len(Append(sessions, "new")) = Len(sessions) + 1
  BY <1>1
<1>3. ASSUME sid # 0
      PROVE  /\ [sessions EXCEPT ![sid] = "ready"] \in Seq({"new", "ready", "gone"})
             /\ Len([sessions EXCEPT ![sid] = "ready"]) = Len(sessions)
  <2>1. sid \in 1 .. Len(sessions) /\ Len(sessions) \in Nat
    BY <1>1, <1>3
  <2> QED
    BY <1>1, <2>1
<1>4. CASE o.sessions = sessions /\ o.header \in {0, sid}
  BY <1>1, <1>4
<1>5. CASE o.sessions = Append(sessions, "new") /\ o.header = Len(sessions) + 1
  BY <1>1, <1>2, <1>5
<1>6. CASE sid # 0 /\ o.sessions = [sessions EXCEPT ![sid] = "ready"] /\ o.header \in {0, sid}
  BY <1>1, <1>3, <1>6
<1> QED
  BY <1>4, <1>5, <1>6, Answers

\* Every step keeps the types.
LEMMA ChatTypedStep ==
  ASSUME ChatTyped, [Chat!Next]_Chat!vars
  PROVE  ChatTyped'
<1> DEFINE Mcp(n) == [sessionId : 0 .. n, initialized : BOOLEAN, toolsCache : BOOLEAN]
<1>0. /\ sessions \in Seq({"new", "ready", "gone"}) /\ Len(sessions) \in Nat
      /\ mcp \in Mcp(Len(sessions)) /\ sid \in 0 .. Len(sessions)
      /\ then \in {"list", "call"} /\ refusals \in 0 .. 2
      /\ expired \in BOOLEAN /\ disturbed \in BOOLEAN
  BY DEF ChatTyped
<1>1. CASE UNCHANGED Chat!vars
  BY <1>1 DEF ChatTyped, Chat!vars
<1>2. ASSUME NEW n \in Nat, sessions' \in Seq({"new", "ready", "gone"}), Len(sessions') = n,
             n >= Len(sessions), NEW m \in Mcp(n), Onward(m), refusals' \in 0 .. 2,
             UNCHANGED <<expired, disturbed>>
      PROVE  ChatTyped'
  BY <1>0, <1>2 DEF ChatTyped, Onward
<1>3. ASSUME NEW m \in Mcp(Len(sessions)), Onward(m),
             UNCHANGED <<sessions, refusals, expired, disturbed>>
      PROVE  ChatTyped'
  BY <1>0, <1>2, <1>3
<1>4. CASE Chat!send
  <2>1. Onward(mcp)
    BY <1>4, Ensured, Asked DEF Chat!send, Chat!StartDrive
  <2> QED
    BY <1>0, <1>3, <1>4, <2>1 DEF Chat!send
<1>5. ASSUME NEW n \in 0 .. MaxUses, Chat!ModelReplies(n)
      PROVE  ChatTyped'
  <2>1. Onward(mcp)
    BY <1>5, Ensured, Asked DEF Chat!ModelReplies
  <2> QED
    BY <1>0, <1>3, <1>5, <2>1 DEF Chat!ModelReplies
<1>6. CASE Chat!ModelFails
  <2>1. Onward(mcp)
    BY <1>6, Asked DEF Chat!ModelFails
  <2> QED
    BY <1>0, <1>3, <1>6, <2>1 DEF Chat!ModelFails
<1>7. ASSUME NEW ok, NEW h, NEW n \in Nat, Chat!Resume(ok, h), await \in Chat!Rpcs,
             sessions' \in Seq({"new", "ready", "gone"}), Len(sessions') = n,
             n >= Len(sessions), h \in 0 .. n, refusals' \in 0 .. 2,
             UNCHANGED <<expired, disturbed>>
      PROVE  ChatTyped'
  <2> DEFINE m == IF h = 0 THEN mcp ELSE [mcp EXCEPT !.sessionId = h]
  <2>1. m \in Mcp(n) /\ [m EXCEPT !.toolsCache = TRUE] \in Mcp(n)
        /\ [m EXCEPT !.initialized = TRUE] \in Mcp(n)
    <3>1. mcp \in Mcp(n)
      BY <1>0, <1>7
    <3> QED
      BY <1>7, <3>1
  <2>2. \/ /\ await' \in {"initialized", "list", "call"} /\ then' = then
           /\ mcp' \in {m, [m EXCEPT !.initialized = TRUE]} /\ sid' = mcp'.sessionId
        \/ Onward([m EXCEPT !.toolsCache = TRUE]) \/ Onward(m)
    BY <1>0, <1>7, Resumed
  <2> HIDE DEF m
  <2>3. CASE /\ await' \in {"initialized", "list", "call"} /\ then' = then
             /\ mcp' \in {m, [m EXCEPT !.initialized = TRUE]} /\ sid' = mcp'.sessionId
    <3>1. mcp' \in Mcp(n)
      BY <2>1, <2>3
    <3>2. sid' \in 0 .. n
      BY <2>3, <3>1
    <3> QED
      BY <1>0, <1>7, <2>3, <3>1, <3>2 DEF ChatTyped, Chat!Rpcs
  <2> QED
    BY <1>2, <1>7, <2>1, <2>2, <2>3
<1>8. CASE Chat!RpcReplies
  <2>1. PICK o \in Chat!Outcomes :
          Chat!Resume(o.ok, o.header) /\ sessions' = o.sessions /\ refusals' = Chat!Refusals(o.ok)
    BY <1>8 DEF Chat!RpcReplies
  <2>2. refusals' \in 0 .. 2
    BY <1>0, <2>1 DEF Chat!Refusals
  <2> QED
    BY <1>7, <1>8, <2>1, <2>2, SessionsTyped DEF Chat!RpcReplies
<1>9. CASE Chat!RpcFails
  <2>1. /\ Chat!Resume(FALSE, 0) /\ await \in Chat!Rpcs
        /\ UNCHANGED <<sessions, refusals, expired, disturbed>>
    BY <1>9 DEF Chat!RpcFails
  <2>2. /\ sessions' \in Seq({"new", "ready", "gone"}) /\ Len(sessions') = Len(sessions)
        /\ Len(sessions) >= Len(sessions) /\ 0 \in 0 .. Len(sessions) /\ refusals' \in 0 .. 2
    BY <1>0, <2>1
  <2> QED
    BY <1>0, <1>7, <2>1, <2>2
<1>10. CASE Chat!LoseSessions
  <2>1. sessions' \in Seq({"new", "ready", "gone"}) /\ Len(sessions') = Len(sessions)
    BY <1>0, <1>10 DEF Chat!LoseSessions
  <2>2. expired' \in BOOLEAN
    BY <1>10 DEF Chat!LoseSessions
  <2> QED
    BY <1>10, <2>1, <2>2 DEF ChatTyped, Chat!LoseSessions
<1>11. CASE Chat!reset
  <2>1. mcp' \in Mcp(Len(sessions)) /\ refusals' \in 0 .. 2
    BY <1>0, <1>11 DEF Chat!reset, Chat!Forgotten, Chat!Cleared
  <2>2. disturbed' \in BOOLEAN /\ expired' \in BOOLEAN
    BY <1>11 DEF Chat!reset
  <2> QED
    BY <1>11, <2>1, <2>2 DEF ChatTyped, Chat!reset
<1>12. CASE Chat!Switch
  BY <1>12 DEF ChatTyped, Chat!Switch
<1> QED
  BY <1>1, <1>4, <1>5, <1>6, <1>8, <1>9, <1>10, <1>11, <1>12 DEF Chat!Next

\* Both sides keep agreeing until the daemon forgets or Clear is pressed.
LEMMA AgreedStep ==
  ASSUME ChatTyped, Agreed, [Chat!Next]_Chat!vars
  PROVE  Agreed'
<1> DEFINE Opened(m, s) ==
       /\ m.sessionId # 0 => s[m.sessionId] # "gone"
       /\ m.initialized => m.sessionId # 0 /\ s[m.sessionId] = "ready"
<1>0. /\ sessions \in Seq({"new", "ready", "gone"}) /\ Len(sessions) \in Nat
      /\ mcp \in [sessionId : 0 .. Len(sessions), initialized : BOOLEAN, toolsCache : BOOLEAN]
      /\ sid \in 0 .. Len(sessions) /\ then \in {"list", "call"}
  BY DEF ChatTyped
<1>1. CASE UNCHANGED Chat!vars
  BY <1>1 DEF Agreed, Chat!vars
<1>2. ASSUME NEW m, Onward(m), refusals' = 0, Opened(m, sessions')
      PROVE  Agreed'
  BY <1>2 DEF Agreed, Onward
<1>3. ASSUME Onward(mcp), UNCHANGED <<sessions, refusals, expired, disturbed>>
      PROVE  Agreed'
  BY <1>2, <1>3 DEF Agreed
<1>4. CASE Chat!send
  BY <1>3, <1>4, Ensured, Asked DEF Chat!send, Chat!StartDrive
<1>5. ASSUME NEW n \in 0 .. MaxUses, Chat!ModelReplies(n)
      PROVE  Agreed'
  BY <1>3, <1>5, Ensured, Asked DEF Chat!ModelReplies
<1>6. CASE Chat!ModelFails
  BY <1>3, <1>6, Asked DEF Chat!ModelFails
<1>9. CASE Chat!RpcFails
  <2>1. Onward(mcp)
    BY <1>9, Resumed DEF Chat!RpcFails
  <2> QED
    BY <1>3, <1>9, <2>1 DEF Chat!RpcFails
<1>10. CASE Chat!LoseSessions
  BY <1>0, <1>10 DEF Agreed, Chat!LoseSessions
<1>11. CASE Chat!reset
  BY <1>11 DEF Agreed, Chat!reset, Chat!Forgotten, Chat!Cleared
<1>12. CASE Chat!Switch
  BY <1>12 DEF Agreed, Chat!Switch
<1>8. CASE Chat!RpcReplies
  <2>0. SUFFICES ASSUME ~expired, ~disturbed PROVE Agreed'
    BY <1>8 DEF Agreed, Chat!RpcReplies
  <2>1. PICK o \in Chat!Outcomes :
          Chat!Resume(o.ok, o.header) /\ sessions' = o.sessions /\ refusals' = Chat!Refusals(o.ok)
    BY <1>8 DEF Chat!RpcReplies
  <2>2. /\ refusals = 0 /\ Opened(mcp, sessions) /\ sid = mcp.sessionId
        /\ await = "initialized" => sid # 0
        /\ await \in {"list", "call"} => mcp.initialized /\ sid # 0 /\ sessions[sid] = "ready"
        /\ await \in {"initialize", "initialized", "list", "call"}
    BY <1>8, <2>0 DEF Agreed, Chat!RpcReplies, Chat!Rpcs
  <2> DEFINE m == IF o.header = 0 THEN mcp ELSE [mcp EXCEPT !.sessionId = o.header]
  <2>3. /\ o.ok /\ refusals' = 0
        /\ m.initialized = mcp.initialized
        /\ m.sessionId # 0
        /\ await = "initialize" => Opened(m, sessions')
        /\ await = "initialized" => m.sessionId # 0 /\ sessions'[m.sessionId] = "ready"
        /\ await \in {"list", "call"} => m = mcp /\ sessions' = sessions
    <3>1. CASE sid = 0
      <4>1. /\ o.ok /\ await = "initialize" /\ ~mcp.initialized
            /\ o.header = Len(sessions) + 1 /\ sessions' = Append(sessions, "new")
        BY <2>1, <2>2, <3>1, Answers
      <4>2. sessions'[o.header] = "new" /\ o.header # 0
        BY <1>0, <4>1
      <4>3. m.sessionId = o.header /\ m.initialized = mcp.initialized
        BY <1>0, <4>2
      <4> QED
        BY <2>1, <4>1, <4>2, <4>3 DEF Chat!Refusals
    <3>2. CASE sid # 0
      <4>1. /\ o.ok /\ o.header \in {0, sid}
            /\ sessions' = IF await = "initialized" THEN [sessions EXCEPT ![sid] = "ready"]
                           ELSE sessions
        BY <2>1, <2>2, <3>2, Answers
      <4>2. m = mcp
        BY <1>0, <2>2, <4>1
      <4>3. await = "initialized" => sessions'[sid] = "ready"
        BY <1>0, <3>2, <4>1
      <4> QED
        BY <2>1, <2>2, <3>2, <4>1, <4>2, <4>3 DEF Chat!Refusals
    <3> QED
      BY <3>1, <3>2
  <2>9. await \in Chat!Rpcs
    BY <1>8 DEF Chat!RpcReplies
  <2>4. \/ /\ await = "initialize" /\ await' = "initialized" /\ mcp' = m /\ sid' = m.sessionId
        \/ /\ await = "initialized" /\ await' = then
           /\ mcp' = [m EXCEPT !.initialized = TRUE] /\ sid' = mcp'.sessionId
        \/ await = "list" /\ Onward([m EXCEPT !.toolsCache = TRUE])
        \/ await = "call" /\ Onward(m)
    BY <2>1, <2>3, <2>9, Resumed
  <2>10. m \in [sessionId : Nat, initialized : BOOLEAN, toolsCache : BOOLEAN]
    <3>1. o.header \in Nat
      BY <2>1, SessionsTyped
    <3> QED
      BY <1>0, <3>1
  <2> HIDE DEF m
  <2>5. CASE await = "initialize" /\ await' = "initialized" /\ mcp' = m /\ sid' = m.sessionId
    BY <2>3, <2>5 DEF Agreed
  <2>6. CASE /\ await = "initialized" /\ await' = then
             /\ mcp' = [m EXCEPT !.initialized = TRUE] /\ sid' = mcp'.sessionId
    <3>1. mcp'.initialized /\ mcp'.sessionId = m.sessionId
      BY <2>6, <2>10
    <3> QED
      BY <1>0, <2>3, <2>6, <3>1 DEF Agreed
  <2>7. CASE await = "list" /\ Onward([m EXCEPT !.toolsCache = TRUE])
    <3> DEFINE t == [m EXCEPT !.toolsCache = TRUE]
    <3>1. t.sessionId = mcp.sessionId /\ t.initialized = mcp.initialized
      BY <2>3, <2>7, <2>10
    <3>2. Onward(t)
      BY <2>7
    <3> HIDE DEF t
    <3>3. Opened(t, sessions')
      BY <2>2, <2>3, <2>7, <3>1
    <3> QED
      BY <1>2, <2>3, <3>2, <3>3
  <2>8. CASE await = "call" /\ Onward(m)
    <3>1. Opened(m, sessions')
      BY <2>2, <2>3, <2>8
    <3> QED
      BY <1>2, <2>3, <2>8, <3>1
  <2> QED
    BY <2>4, <2>5, <2>6, <2>7, <2>8
<1> QED
  BY <1>1, <1>4, <1>5, <1>6, <1>8, <1>9, <1>10, <1>11, <1>12 DEF Chat!Next

\* mcp.reset: after Clear the daemon refuses a request only if it has forgotten
\* the session since, or Clear was pressed during a send, whatever the user, the
\* model and the network do.
THEOREM ClearAlwaysRepairs ==
  Chat!Spec => []Chat!ClearRepairs
<1>1. Chat!Init => ChatTyped /\ Agreed
  <2> SUFFICES ASSUME Chat!Init PROVE ChatTyped /\ Agreed
    OBVIOUS
  <2>1. /\ mcp = [sessionId |-> 0, initialized |-> FALSE, toolsCache |-> FALSE]
        /\ sessions = << >> /\ sid = 0 /\ await = "idle" /\ then = "list"
        /\ refusals = 0 /\ expired = FALSE /\ disturbed = FALSE
    BY DEF Chat!Init, Chat!Cleared
  <2>2. Len(sessions) = 0 /\ sessions \in Seq({"new", "ready", "gone"})
    BY <2>1
  <2>3. /\ mcp.sessionId = 0 /\ ~mcp.initialized
        /\ mcp \in [sessionId : 0 .. 0, initialized : BOOLEAN, toolsCache : BOOLEAN]
    BY <2>1
  <2>4. expired \in BOOLEAN /\ disturbed \in BOOLEAN
    BY <2>1
  <2>5. ChatTyped
    BY <2>1, <2>2, <2>3, <2>4 DEF ChatTyped
  <2>6. Agreed
    BY <2>1, <2>3 DEF Agreed
  <2> QED
    BY <2>5, <2>6
<1>2. ChatTyped /\ Agreed /\ [Chat!Next]_Chat!vars => (ChatTyped /\ Agreed)'
  BY ChatTypedStep, AgreedStep
<1>3. Agreed => Chat!ClearRepairs
  BY DEF Agreed, Chat!ClearRepairs
<1> QED
  BY <1>1, <1>2, <1>3, PTL DEF Chat!Spec

-----------------------------------------------------------------------------
(***************************************************************************)
(* What the chat sends to the model                                        *)
(***************************************************************************)

\* Every set of numbers has a least element.
LEMMA LeastNat ==
  ASSUME NEW S \in SUBSET Nat, S # {}
  PROVE  \E n \in S : \A m \in S : n <= m
<1>1. PICK n \in S : \A m \in S : ~(<<m, n>> \in OpToRel(<, Nat))
  BY NatLessThanWellFounded, WFMin
<1>2. \A m \in S : ~(m < n)
  BY <1>1 DEF OpToRel
<1> QED
  BY <1>2

\* The partial results of FlattenSeq.
Sums(s, n, g) ==
  /\ g = [i \in 1 .. n |-> g[i]]
  /\ \A i \in 1 .. n : g[i] = IF i = 1 THEN s[i] ELSE g[i - 1] \o s[i]

\* There are partial results up to each length, and they are sequences.
LEMMA SumsExist ==
  ASSUME NEW T, NEW s \in Seq(Seq(T)), NEW n \in 0 .. Len(s)
  PROVE  \E g : Sums(s, n, g)
<1> DEFINE Summed(k) == \E g : Sums(s, k, g)
           Bad == {k \in 0 .. Len(s) : ~Summed(k)}
<1>1. SUFFICES ASSUME Bad # {} PROVE FALSE
  OBVIOUS
<1> HIDE DEF Summed
<1>0. Bad \in SUBSET Nat
  OBVIOUS
<1>2. PICK k \in Bad : \A m \in Bad : k <= m
  <2> HIDE DEF Bad
  <2> QED
    BY <1>0, <1>1, LeastNat
<1>5. k \in 0 .. Len(s) /\ ~Summed(k)
  OBVIOUS
<1>3. CASE k = 0
  <2> DEFINE g == [i \in 1 .. 0 |-> << >>]
  <2>1. Sums(s, 0, g)
    BY DEF Sums
  <2> QED
    BY <1>3, <1>5, <2>1 DEF Summed
<1>4. CASE k # 0
  <2>1. k \in 1 .. Len(s) /\ k - 1 \in 0 .. Len(s) /\ ~(k <= k - 1)
    BY <1>4, <1>5
  <2>2. PICK g : Sums(s, k - 1, g)
    <3>1. Summed(k - 1)
      BY <1>2, <2>1
    <3> QED
      BY <3>1 DEF Summed
  <2> DEFINE h == [i \in 1 .. k |-> IF i < k THEN g[i] ELSE IF k = 1 THEN s[1] ELSE g[k - 1] \o s[k]]
  <2>3. \A i \in 1 .. k : h[i] = IF i = 1 THEN s[i] ELSE h[i - 1] \o s[i]
    <3>1. ASSUME NEW i \in 1 .. k PROVE h[i] = IF i = 1 THEN s[i] ELSE h[i - 1] \o s[i]
      <4>1. CASE i = k
        BY <2>1, <4>1
      <4>2. CASE i # k
        <5>1. i \in 1 .. k - 1 /\ (i # 1 => i - 1 \in 1 .. k - 1) /\ h[i] = g[i]
          BY <2>1, <4>2
        <5>2. i # 1 => h[i - 1] = g[i - 1]
          BY <2>1, <5>1
        <5> QED
          BY <2>2, <5>1, <5>2 DEF Sums
      <4> QED
        BY <4>1, <4>2
    <3> QED
      BY <3>1
  <2>4. h = [i \in 1 .. k |-> h[i]]
    OBVIOUS
  <2>5. Sums(s, k, h)
    <3> HIDE DEF h
    <3> QED
      BY <2>3, <2>4 DEF Sums
  <2> QED
    BY <1>5, <2>5 DEF Summed
<1> QED
  BY <1>3, <1>4

LEMMA SumsAgree ==
  ASSUME NEW T, NEW s \in Seq(Seq(T)), NEW t \in Seq(Seq(T)), NEW n \in 0 .. Len(s),
         NEW m \in n .. Len(t), \A i \in 1 .. n : s[i] = t[i],
         NEW g, NEW h, Sums(s, n, g), Sums(t, m, h), NEW i \in 1 .. n
  PROVE  g[i] = h[i] /\ g[i] \in Seq(T)
<1> DEFINE Same(k) == g[k] = h[k] /\ g[k] \in Seq(T)
           Bad == {k \in 1 .. n : ~Same(k)}
<1>1. SUFFICES ASSUME Bad # {} PROVE FALSE
  OBVIOUS
<1> HIDE DEF Same
<1>0. Bad \in SUBSET Nat
  OBVIOUS
<1>2. PICK k \in Bad : \A q \in Bad : k <= q
  <2> HIDE DEF Bad
  <2> QED
    BY <1>0, <1>1, LeastNat
<1>3. s[k] = t[k] /\ s[k] \in Seq(T) /\ k \in 1 .. n /\ k \in 1 .. m /\ ~Same(k)
  OBVIOUS
<1>4. CASE k = 1
  BY <1>3, <1>4 DEF Sums, Same
<1>5. CASE k # 1
  <2>1. k - 1 \in 1 .. n /\ ~(k <= k - 1)
    BY <1>3, <1>5
  <2>2. g[k - 1] = h[k - 1] /\ g[k - 1] \in Seq(T)
    BY <1>2, <2>1 DEF Same
  <2>3. g[k] = g[k - 1] \o s[k] /\ h[k] = h[k - 1] \o t[k]
    BY <1>3, <1>5 DEF Sums
  <2>4. g[k - 1] \o s[k] \in Seq(T)
    BY <1>3, <2>2
  <2> QED
    BY <1>3, <2>2, <2>3, <2>4 DEF Same
<1> QED
  BY <1>4, <1>5

LEMMA FlattenIs ==
  ASSUME NEW T, NEW s \in Seq(Seq(T)), Len(s) # 0
  PROVE  \E g : Sums(s, Len(s), g) /\ Chat!FlattenSeq(s) = g[Len(s)]
<1>1. PICK g : Sums(s, Len(s), g)
  BY SumsExist
<1> DEFINE f == CHOOSE f : f = [i \in 1 .. Len(s) |-> IF i = 1 THEN s[i] ELSE f[i - 1] \o s[i]]
<1>2. g = [i \in 1 .. Len(s) |-> IF i = 1 THEN s[i] ELSE g[i - 1] \o s[i]]
  BY <1>1 DEF Sums
<1>3. f = [i \in 1 .. Len(s) |-> IF i = 1 THEN s[i] ELSE f[i - 1] \o s[i]]
  BY <1>2
<1>4. Chat!FlattenSeq(s) = f[Len(s)]
  BY DEF Chat!FlattenSeq
<1> HIDE DEF f
<1>5. Sums(s, Len(s), f)
  BY <1>3 DEF Sums
<1> QED
  BY <1>4, <1>5

LEMMA FlattenAppend ==
  ASSUME NEW T, NEW s \in Seq(Seq(T)), NEW x \in Seq(T)
  PROVE  /\ Chat!FlattenSeq(Append(s, x)) = Chat!FlattenSeq(s) \o x
         /\ Chat!FlattenSeq(s) \in Seq(T)
<1> DEFINE t == Append(s, x)
<1>1. /\ t \in Seq(Seq(T)) /\ Len(t) = Len(s) + 1 /\ t[Len(t)] = x
      /\ \A i \in 1 .. Len(s) : s[i] = t[i]
  OBVIOUS
<1> HIDE DEF t
<1>2. PICK h : Sums(t, Len(t), h) /\ Chat!FlattenSeq(t) = h[Len(t)]
  BY <1>1, FlattenIs
<1>3. CASE Len(s) = 0
  <2>1. Chat!FlattenSeq(s) = s /\ s = << >>
    BY <1>3 DEF Chat!FlattenSeq
  <2>2. h[1] = t[1]
    BY <1>1, <1>2, <1>3 DEF Sums
  <2> QED
    BY <1>1, <1>2, <1>3, <2>1, <2>2 DEF t
<1>4. CASE Len(s) # 0
  <2>1. PICK g : Sums(s, Len(s), g) /\ Chat!FlattenSeq(s) = g[Len(s)]
    BY <1>4, FlattenIs
  <2>2. Len(s) \in Nat /\ Len(s) \in 1 .. Len(s) /\ Len(t) \in Len(s) .. Len(t)
    BY <1>1, <1>4
  <2>3. g[Len(s)] = h[Len(s)] /\ g[Len(s)] \in Seq(T)
    <3>1. Len(s) \in 0 .. Len(s)
      BY <2>2
    <3>2. \A i \in 1 .. Len(s) : g[i] = h[i] /\ g[i] \in Seq(T)
      BY <1>1, <1>2, <2>1, <2>2, <3>1, SumsAgree
    <3> QED
      BY <2>2, <3>2
  <2>4. h[Len(t)] = h[Len(s)] \o x
    <3>1. Len(t) \in 1 .. Len(t) /\ Len(t) # 1 /\ Len(t) - 1 = Len(s)
      BY <1>1, <2>2
    <3> QED
      BY <1>1, <1>2, <3>1 DEF Sums
  <2> QED
    BY <1>2, <2>1, <2>3, <2>4 DEF t
<1> QED
  BY <1>3, <1>4

\* What a request to p is made of, so far: only messages p knows begin with the user
\* and have every call followed by its result.
Both == {"anthropic", "openai"}

Neutral(p, a) == \A i \in DOMAIN a : a[i].native \in {"any", p}

Fit(p, a) == Neutral(p, a) => Chat!Paired(a, p) /\ (a # << >> => a[1] = Chat!User)

Fits(log)  == \A p \in Both : Fit(p, Chat!Api(p, log))
Begun(log) == \A p \in Both : Chat!Api(p, log) # << >>

\* The message of a reply with n calls, and k of their results, as driveOpenAI keeps them.
Calls(n, k) == [i \in 1 .. k + 1 |-> IF i = 1 THEN Chat!Reply("openai", n) ELSE Chat!Tool(i - 1)]

\* driver d calls the tools a reply has asked for: driveAnthropic has logged the reply,
\* driveOpenAI keeps it with the results so far.
UnderWay(d, log) ==
  IF d.provider = "anthropic"
  THEN LET old == SubSeq(log, 1, Len(log) - 1) IN
       /\ Fits(old) /\ Begun(old)
       /\ log = Append(old, Chat!Entry("anthropic", <<Chat!Reply("anthropic", d.uses)>>))
       /\ d.api = Chat!Api("anthropic", log)
  ELSE /\ Fits(log) /\ Begun(log)
       /\ d.sub = Calls(d.uses, d.done) /\ d.api = Chat!Api("openai", log) \o d.sub

\* The await that a send is in belongs to what it was called for.
Turn ==
  /\ await # "idle" => drive.provider \in Providers
  /\ await \in {"list", "call"} => await = then
  /\ await \in Chat!Rpcs /\ then = "call" => drive.done < drive.uses

\* Unless Clear was pressed during the send, the log makes a good request for either
\* provider, but for the round under way; and what is sent is made of the log.
Talk ==
  disturbed \/
    /\ IF await \in Chat!Rpcs /\ then = "call" THEN UnderWay(drive, messages)
       ELSE Fits(messages) /\ (await # "idle" => Begun(messages))
    /\ await = "llm" => drive.api = Chat!Api(drive.provider, messages)

ChatInv == Chat!TypeOK /\ Turn /\ Talk

\* The messages the page makes.
LEMMA ItemsMade ==
  ASSUME Chat!ChatAssumption, NEW n \in 0 .. MaxUses
  PROVE  /\ Chat!User \in Chat!Items /\ Chat!Text \in Chat!Items
         /\ \A p \in Both : Chat!Reply(p, n) \in Chat!Items
         /\ Chat!Results(n) \in Chat!Items /\ Chat!Tool(n) \in Chat!Items
<1>1. MaxUses \in Nat /\ 0 \in 0 .. MaxUses
  BY DEF Chat!ChatAssumption
<1> QED
  BY <1>1 DEF Chat!User, Chat!Text, Chat!Reply, Chat!Results, Chat!Tool, Chat!Item, Chat!Items, Both

LEMMA CallsTyped ==
  ASSUME Chat!ChatAssumption, NEW n \in 0 .. MaxUses, NEW k \in 0 .. MaxUses
  PROVE  Calls(n, k) \in Seq(Chat!Items) /\ Len(Calls(n, k)) = k + 1
<1>1. MaxUses \in Nat /\ k \in Nat /\ "openai" \in Both
  BY DEF Chat!ChatAssumption, Both
<1>2. ASSUME NEW i \in 1 .. k + 1
      PROVE  (IF i = 1 THEN Chat!Reply("openai", n) ELSE Chat!Tool(i - 1)) \in Chat!Items
  <2>1. i - 1 \in 0 .. MaxUses
    BY <1>1
  <2> QED
    BY <1>1, <2>1, ItemsMade
<1>3. Calls(n, k) \in [1 .. k + 1 -> Chat!Items]
  BY <1>2 DEF Calls
<1> QED
  BY <1>1, <1>3

\* A message more.
LEMMA ApiGrows ==
  ASSUME Chat!ChatAssumption, NEW p \in Both, NEW log \in Seq(Chat!Entries)
  PROVE  /\ Chat!Api(p, log) \in Seq(Chat!Items)
         /\ \A e \in Chat!Entries :
              /\ Chat!Translated(p, e) \in Seq(Chat!Items)
              /\ Chat!Api(p, Append(log, e)) = Chat!Api(p, log) \o Chat!Translated(p, e)
<1>0. <<Chat!Text>> \in Seq(Chat!Items)
  <2>1. 0 \in 0 .. MaxUses
    BY DEF Chat!ChatAssumption
  <2> QED
    BY <2>1, ItemsMade
<1>1. ASSUME NEW e \in Chat!Entries PROVE Chat!Translated(p, e) \in Seq(Chat!Items)
  BY <1>0 DEF Chat!Translated, Chat!Entries
<1> DEFINE T == Chat!Items
           s == [i \in DOMAIN log |-> Chat!Translated(p, log[i])]
<1>2. s \in Seq(Seq(T)) /\ Len(s) = Len(log)
  <2>1. \A i \in DOMAIN log : Chat!Translated(p, log[i]) \in Seq(T)
    BY <1>1
  <2>2. DOMAIN log = 1 .. Len(log) /\ Len(log) \in Nat
    OBVIOUS
  <2> QED
    BY <2>1, <2>2
<1>3. Chat!Api(p, log) = Chat!FlattenSeq(s)
  BY DEF Chat!Api
<1>4. ASSUME NEW e \in Chat!Entries
      PROVE  Chat!Api(p, Append(log, e)) = Chat!Api(p, log) \o Chat!Translated(p, e)
  <2> DEFINE t == [i \in DOMAIN Append(log, e) |-> Chat!Translated(p, Append(log, e)[i])]
  <2>1. t = Append(s, Chat!Translated(p, e))
    <3> DEFINE u == Append(s, Chat!Translated(p, e))
    <3>0. Len(log) \in Nat /\ DOMAIN log = 1 .. Len(log)
      OBVIOUS
    <3>1. DOMAIN t = 1 .. Len(log) + 1 /\ DOMAIN u = 1 .. Len(log) + 1
      BY <1>2, <3>0
    <3>2. ASSUME NEW i \in 1 .. Len(log) + 1 PROVE t[i] = u[i]
      <4>1. CASE i = Len(log) + 1
        BY <1>2, <3>0, <4>1
      <4>2. CASE i # Len(log) + 1
        <5>1. i \in DOMAIN log /\ Append(log, e)[i] = log[i]
          BY <3>0, <4>2
        <5>2. u[i] = s[i]
          BY <1>2, <3>0, <4>2
        <5> QED
          BY <3>1, <5>1, <5>2
      <4> QED
        BY <4>1, <4>2
    <3>3. t = [i \in 1 .. Len(log) + 1 |-> t[i]] /\ u = [i \in 1 .. Len(log) + 1 |-> u[i]]
      BY <1>1, <1>2, <3>0, <3>1
    <3> HIDE DEF t, u
    <3> QED
      BY <3>2, <3>3 DEF u
  <2>2. Chat!Api(p, Append(log, e)) = Chat!FlattenSeq(t)
    BY DEF Chat!Api
  <2> HIDE DEF s, t
  <2> QED
    BY <1>1, <1>2, <1>3, <2>1, <2>2, FlattenAppend
<1>5. Chat!Api(p, log) \in Seq(T)
  <2>1. << >> \in Seq(T)
    OBVIOUS
  <2> HIDE DEF s
  <2> QED
    BY <1>2, <1>3, <2>1, FlattenAppend
<1> QED
  BY <1>1, <1>4, <1>5

\* Pairs stay pairs when more pairs follow.
LEMMA PairsFollow ==
  ASSUME Chat!ChatAssumption, NEW p \in Both,
         NEW a \in Seq(Chat!Items), NEW b \in Seq(Chat!Items),
         Chat!Paired(a, p), Chat!Paired(b, p)
  PROVE  Chat!Paired(a \o b, p)
<1> DEFINE c == a \o b
<1>1. /\ c \in Seq(Chat!Items) /\ Len(c) = Len(a) + Len(b) /\ Len(a) \in Nat /\ Len(b) \in Nat
      /\ \A i \in 1 .. Len(a) : c[i] = a[i]
      /\ \A i \in 1 .. Len(b) : c[Len(a) + i] = b[i]
      /\ DOMAIN c = 1 .. Len(a) + Len(b) /\ DOMAIN a = 1 .. Len(a) /\ DOMAIN b = 1 .. Len(b)
  OBVIOUS
<1>2. /\ \A i \in 1 .. Len(a) : a[i].uses \in Nat /\ a[i].res \in Nat
      /\ \A i \in 1 .. Len(b) : b[i].uses \in Nat /\ b[i].res \in Nat
  <2>1. \A x \in Chat!Items : x.uses \in Nat /\ x.res \in Nat
    BY DEF Chat!Items
  <2> QED
    BY <2>1
<1> HIDE DEF c
<1>3. ASSUME NEW i \in 1 .. Len(a) + Len(b)
      PROVE  IF p = "anthropic"
             THEN /\ c[i].uses > 0 => i < Len(c) /\ c[i + 1].res = c[i].uses
                  /\ c[i].res > 0 => i > 1 /\ c[i - 1].uses = c[i].res
             ELSE /\ \A j \in 1 .. c[i].uses : i + j <= Len(c) /\ c[i + j].res = j
                  /\ c[i].res > 0 => i > c[i].res /\ c[i - c[i].res].uses >= c[i].res
  <2>1. CASE i \in 1 .. Len(a)
    <3>1. c[i] = a[i]
      BY <1>1, <2>1
    <3>2. CASE p = "anthropic"
      <4>1. /\ a[i].uses > 0 => i < Len(a) /\ a[i + 1].res = a[i].uses
            /\ a[i].res > 0 => i > 1 /\ a[i - 1].uses = a[i].res
        BY <1>1, <2>1, <3>2 DEF Chat!Paired
      <4>2. i < Len(a) => c[i + 1] = a[i + 1]
        BY <1>1, <2>1
      <4>3. i > 1 => c[i - 1] = a[i - 1]
        BY <1>1, <2>1
      <4> QED
        BY <1>1, <2>1, <3>1, <3>2, <4>1, <4>2, <4>3
    <3>3. CASE p # "anthropic"
      <4>1. /\ \A j \in 1 .. a[i].uses : i + j <= Len(a) /\ a[i + j].res = j
            /\ a[i].res > 0 => i > a[i].res /\ a[i - a[i].res].uses >= a[i].res
        BY <1>1, <2>1, <3>3 DEF Chat!Paired
      <4>2. ASSUME NEW j \in 1 .. a[i].uses PROVE i + j <= Len(c) /\ c[i + j].res = j
        <5>1. i + j \in 1 .. Len(a) /\ a[i + j].res = j
          BY <1>1, <1>2, <2>1, <4>1
        <5> QED
          BY <1>1, <5>1
      <4>3. ASSUME a[i].res > 0 PROVE i > a[i].res /\ c[i - a[i].res].uses >= a[i].res
        <5>1. i - a[i].res \in 1 .. Len(a)
          BY <1>1, <1>2, <2>1, <4>1, <4>3
        <5> QED
          BY <1>1, <4>1, <4>3, <5>1
      <4> QED
        BY <3>1, <3>3, <4>2, <4>3
    <3> QED
      BY <3>2, <3>3
  <2>2. CASE i \notin 1 .. Len(a)
    <3> DEFINE k == i - Len(a)
    <3>1. k \in 1 .. Len(b) /\ i = Len(a) + k /\ c[i] = b[k]
      BY <1>1, <2>2
    <3> HIDE DEF k
    <3>2. CASE p = "anthropic"
      <4>1. /\ b[k].uses > 0 => k < Len(b) /\ b[k + 1].res = b[k].uses
            /\ b[k].res > 0 => k > 1 /\ b[k - 1].uses = b[k].res
        BY <1>1, <3>1, <3>2 DEF Chat!Paired
      <4>2. ASSUME k < Len(b) PROVE i < Len(c) /\ c[i + 1] = b[k + 1]
        <5>1. k + 1 \in 1 .. Len(b) /\ i + 1 = Len(a) + (k + 1)
          BY <1>1, <3>1, <4>2
        <5>2. c[Len(a) + (k + 1)] = b[k + 1]
          BY <1>1, <5>1
        <5> QED
          BY <1>1, <3>1, <5>1, <5>2
      <4>3. ASSUME k > 1 PROVE i > 1 /\ c[i - 1] = b[k - 1]
        <5>1. k - 1 \in 1 .. Len(b) /\ i - 1 = Len(a) + (k - 1)
          BY <1>1, <3>1, <4>3
        <5>2. c[Len(a) + (k - 1)] = b[k - 1]
          BY <1>1, <5>1
        <5> QED
          BY <1>1, <3>1, <5>1, <5>2
      <4> QED
        BY <3>1, <3>2, <4>1, <4>2, <4>3
    <3>3. CASE p # "anthropic"
      <4>1. /\ \A j \in 1 .. b[k].uses : k + j <= Len(b) /\ b[k + j].res = j
            /\ b[k].res > 0 => k > b[k].res /\ b[k - b[k].res].uses >= b[k].res
        BY <1>1, <3>1, <3>3 DEF Chat!Paired
      <4>2. ASSUME NEW j \in 1 .. b[k].uses PROVE i + j <= Len(c) /\ c[i + j].res = j
        <5>1. k + j \in 1 .. Len(b) /\ b[k + j].res = j /\ i + j = Len(a) + (k + j)
          BY <1>1, <1>2, <3>1, <4>1
        <5> QED
          BY <1>1, <5>1
      <4>3. ASSUME b[k].res > 0 PROVE i > b[k].res /\ c[i - b[k].res].uses >= b[k].res
        <5>0. b[k].res \in Nat /\ k \in Nat /\ Len(a) \in Nat /\ Len(b) \in Nat
          BY <1>1, <1>2, <3>1
        <5>1. k - b[k].res \in 1 .. Len(b) /\ i - b[k].res = Len(a) + (k - b[k].res)
          <6> DEFINE q == b[k].res
          <6>1. q \in Nat /\ q > 0 /\ k > q /\ k <= Len(b) /\ i = Len(a) + k
            BY <3>1, <4>1, <4>3, <5>0
          <6> HIDE DEF q
          <6>2. k - q \in 1 .. Len(b) /\ i - q = Len(a) + (k - q)
            BY <5>0, <6>1
          <6> QED
            BY <6>2 DEF q
        <5>2. c[i - b[k].res] = b[k - b[k].res]
          BY <1>1, <5>1
        <5> QED
          BY <1>1, <1>2, <3>1, <4>1, <4>3, <5>2
      <4> QED
        BY <3>1, <3>3, <4>2, <4>3
    <3> QED
      BY <3>2, <3>3
  <2> QED
    BY <2>1, <2>2
<1> QED
  BY <1>1, <1>3 DEF Chat!Paired, c

\* So a request stays fit when fit messages follow.
LEMMA FitFollows ==
  ASSUME Chat!ChatAssumption, NEW p \in Both,
         NEW a \in Seq(Chat!Items), NEW b \in Seq(Chat!Items), b # << >>,
         Fit(p, a), Neutral(p, b) => Chat!Paired(b, p) /\ (a # << >> \/ b[1] = Chat!User)
  PROVE  Fit(p, a \o b) /\ a \o b # << >>
<1> DEFINE c == a \o b
<1>1. /\ c \in Seq(Chat!Items) /\ Len(c) = Len(a) + Len(b) /\ Len(a) \in Nat /\ Len(b) \in Nat
      /\ \A i \in 1 .. Len(a) : c[i] = a[i]
      /\ \A i \in 1 .. Len(b) : c[Len(a) + i] = b[i]
      /\ DOMAIN c = 1 .. Len(a) + Len(b) /\ DOMAIN a = 1 .. Len(a) /\ DOMAIN b = 1 .. Len(b)
  OBVIOUS
<1>2. Len(b) # 0 /\ (a = << >> <=> Len(a) = 0)
  BY <1>1
<1> HIDE DEF c
<1>3. ASSUME Neutral(p, c) PROVE Neutral(p, a) /\ Neutral(p, b)
  <2>1. \A i \in 1 .. Len(a) : a[i].native \in {"any", p}
    BY <1>1, <1>3 DEF Neutral
  <2>2. \A i \in 1 .. Len(b) : b[i].native \in {"any", p}
    <3>1. ASSUME NEW i \in 1 .. Len(b) PROVE b[i].native \in {"any", p}
      <4>1. Len(a) + i \in DOMAIN c
        BY <1>1
      <4> QED
        BY <1>1, <1>3, <4>1 DEF Neutral
    <3> QED
      BY <3>1
  <2> QED
    BY <1>1, <2>1, <2>2 DEF Neutral
<1>4. ASSUME Neutral(p, c) PROVE Chat!Paired(c, p) /\ c[1] = Chat!User
  <2>1. Chat!Paired(a, p) /\ Chat!Paired(b, p)
    BY <1>3, <1>4 DEF Fit
  <2>2. Chat!Paired(c, p)
    BY <2>1, PairsFollow DEF c
  <2>3. CASE a # << >>
    <3>1. a[1] = Chat!User /\ 1 \in 1 .. Len(a)
      BY <1>1, <1>2, <1>3, <1>4, <2>3 DEF Fit
    <3> QED
      BY <1>1, <2>2, <3>1
  <2>4. CASE a = << >>
    <3>1. b[1] = Chat!User /\ 1 \in 1 .. Len(b) /\ Len(a) + 1 = 1
      BY <1>1, <1>2, <1>3, <1>4, <2>4
    <3> QED
      BY <1>1, <2>2, <3>1
  <2> QED
    BY <2>3, <2>4
<1>5. c # << >>
  BY <1>1, <1>2
<1> QED
  BY <1>4, <1>5 DEF Fit, c

\* What a round adds is paired.
LEMMA PairsMade ==
  ASSUME Chat!ChatAssumption, NEW n \in 0 .. MaxUses
  PROVE  /\ \A p \in Both : Chat!Paired(<<Chat!User>>, p) /\ Chat!Paired(<<Chat!Text>>, p)
         /\ n > 0 => Chat!Paired(<<Chat!Reply("anthropic", n), Chat!Results(n)>>, "anthropic")
         /\ Chat!Paired(Calls(n, n), "openai")
<1>1. n \in Nat
  BY DEF Chat!ChatAssumption
<1>2. ASSUME NEW p \in Both
      PROVE  Chat!Paired(<<Chat!User>>, p) /\ Chat!Paired(<<Chat!Text>>, p)
  BY DEF Chat!Paired, Chat!User, Chat!Text, Chat!Item
<1>3. n > 0 => Chat!Paired(<<Chat!Reply("anthropic", n), Chat!Results(n)>>, "anthropic")
  <2> DEFINE a == <<Chat!Reply("anthropic", n), Chat!Results(n)>>
  <2>1. /\ Len(a) = 2 /\ DOMAIN a = {1, 2} /\ a[1].uses = n /\ a[1].res = 0
        /\ a[2].uses = 0 /\ a[2].res = n
    BY DEF Chat!Reply, Chat!Results, Chat!Item
  <2> HIDE DEF a
  <2>2. Chat!Paired(a, "anthropic")
    <3>1. ASSUME NEW i \in DOMAIN a
          PROVE  /\ a[i].uses > 0 => i < Len(a) /\ a[i + 1].res = a[i].uses
                 /\ a[i].res > 0 => i > 1 /\ a[i - 1].uses = a[i].res
      BY <1>1, <2>1
    <3> QED
      BY <3>1 DEF Chat!Paired
  <2> QED
    BY <2>2 DEF a
<1>4. Chat!Paired(Calls(n, n), "openai")
  <2> DEFINE a == Calls(n, n)
  <2>1. /\ DOMAIN a = 1 .. n + 1 /\ Len(a) = n + 1 /\ a[1].uses = n /\ a[1].res = 0
        /\ \A i \in 2 .. n + 1 : a[i].uses = 0 /\ a[i].res = i - 1
    BY <1>1, CallsTyped DEF Calls, Chat!Reply, Chat!Tool, Chat!Item
  <2> HIDE DEF a
  <2>2. ASSUME NEW i \in DOMAIN a
        PROVE  /\ \A j \in 1 .. a[i].uses : i + j <= Len(a) /\ a[i + j].res = j
               /\ a[i].res > 0 => i > a[i].res /\ a[i - a[i].res].uses >= a[i].res
    <3>1. CASE i = 1
      BY <1>1, <2>1, <3>1
    <3>2. CASE i # 1
      <4>1. i \in 2 .. n + 1 /\ a[i].uses = 0 /\ a[i].res = i - 1 /\ i - a[i].res = 1
        BY <1>1, <2>1, <3>2
      <4> QED
        BY <1>1, <2>1, <4>1
    <3> QED
      BY <3>1, <3>2
  <2>3. Chat!Paired(a, "openai")
    BY <2>2 DEF Chat!Paired
  <2> QED
    BY <2>3 DEF a
<1> QED
  BY <1>2, <1>3, <1>4

\* An entry more in the log.
LEMMA LogGrows ==
  ASSUME Chat!ChatAssumption, NEW log \in Seq(Chat!Entries), NEW e \in Chat!Entries, Fits(log),
         \A p \in Both :
           /\ Chat!Translated(p, e) # << >>
           /\ Neutral(p, Chat!Translated(p, e)) =>
                /\ Chat!Paired(Chat!Translated(p, e), p)
                /\ Begun(log) \/ Chat!Translated(p, e)[1] = Chat!User
  PROVE  LET all == Append(log, e) IN all \in Seq(Chat!Entries) /\ Fits(all) /\ Begun(all)
<1> DEFINE all == Append(log, e)
<1>1. ASSUME NEW p \in Both PROVE Fit(p, Chat!Api(p, all)) /\ Chat!Api(p, all) # << >>
  <2> DEFINE a == Chat!Api(p, log)
             b == Chat!Translated(p, e)
  <2>1. a \in Seq(Chat!Items) /\ b \in Seq(Chat!Items) /\ Chat!Api(p, all) = a \o b
    BY ApiGrows
  <2>2. Fit(p, a) /\ b # << >>
    BY DEF Fits
  <2>3. Neutral(p, b) => Chat!Paired(b, p) /\ (a # << >> \/ b[1] = Chat!User)
    BY DEF Begun
  <2> HIDE DEF a, b, all
  <2> QED
    BY <2>1, <2>2, <2>3, FitFollows
<1> QED
  BY <1>1 DEF Fits, Begun

\* The user's message.
LEMMA UserSpeaks ==
  ASSUME Chat!ChatAssumption, NEW log \in Seq(Chat!Entries), Fits(log)
  PROVE  LET all == Append(log, Chat!Entry("plain", <<Chat!User>>))
         IN  all \in Seq(Chat!Entries) /\ Fits(all) /\ Begun(all)
<1> DEFINE e == Chat!Entry("plain", <<Chat!User>>)
<1>1. 0 \in 0 .. MaxUses
  BY DEF Chat!ChatAssumption
<1>2. <<Chat!User>> \in Seq(Chat!Items)
  BY <1>1, ItemsMade
<1>3. e \in Chat!Entries
  BY <1>2 DEF Chat!Entry, Chat!Entries
<1>4. \A p \in Both : Chat!Translated(p, e) = <<Chat!User>>
  BY DEF Chat!Translated, Chat!Entry
<1>5. \A p \in Both : Chat!Paired(<<Chat!User>>, p)
  BY <1>1, PairsMade
<1>6. <<Chat!User>> # << >> /\ <<Chat!User>>[1] = Chat!User
  OBVIOUS
<1> HIDE DEF e
<1>7. \A p \in Both :
        /\ Chat!Translated(p, e) # << >>
        /\ Neutral(p, Chat!Translated(p, e)) =>
             /\ Chat!Paired(Chat!Translated(p, e), p)
             /\ Begun(log) \/ Chat!Translated(p, e)[1] = Chat!User
  BY <1>4, <1>5, <1>6, Zenon
<1>8. LET all == Append(log, e) IN all \in Seq(Chat!Entries) /\ Fits(all) /\ Begun(all)
  BY <1>3, <1>7, LogGrows
<1> QED
  BY <1>8 DEF e

\* A reply without calls.
LEMMA TextEnds ==
  ASSUME Chat!ChatAssumption, NEW log \in Seq(Chat!Entries), Fits(log), Begun(log), NEW p \in Both
  PROVE  LET all == Append(log, Chat!Entry(p, <<Chat!Reply(p, 0)>>))
         IN  all \in Seq(Chat!Entries) /\ Fits(all) /\ Begun(all)
<1> DEFINE e == Chat!Entry(p, <<Chat!Reply(p, 0)>>)
<1>1. 0 \in 0 .. MaxUses
  BY DEF Chat!ChatAssumption
<1>2. Chat!Reply(p, 0) = Chat!Text
  BY DEF Chat!Reply, Chat!Text
<1>3. <<Chat!Text>> \in Seq(Chat!Items)
  BY <1>1, ItemsMade
<1>4. e \in Chat!Entries
  BY <1>2, <1>3 DEF Chat!Entry, Chat!Entries, Both
<1>5. \A q \in Both : Chat!Translated(q, e) = <<Chat!Text>>
  BY <1>2 DEF Chat!Translated, Chat!Entry
<1>6. \A q \in Both : Chat!Paired(<<Chat!Text>>, q)
  BY <1>1, PairsMade
<1>7. <<Chat!Text>> # << >>
  OBVIOUS
<1> HIDE DEF e
<1>8. \A q \in Both :
        /\ Chat!Translated(q, e) # << >>
        /\ Neutral(q, Chat!Translated(q, e)) =>
             /\ Chat!Paired(Chat!Translated(q, e), q)
             /\ Begun(log) \/ Chat!Translated(q, e)[1] = Chat!User
  BY <1>5, <1>6, <1>7
<1>9. LET all == Append(log, e) IN all \in Seq(Chat!Entries) /\ Fits(all) /\ Begun(all)
  BY <1>4, <1>8, LogGrows
<1> QED
  BY <1>9 DEF e

\* A round of driveOpenAI goes into the log at once.
LEMMA OpenAIRound ==
  ASSUME Chat!ChatAssumption, NEW log \in Seq(Chat!Entries), Fits(log), Begun(log),
         NEW n \in 1 .. MaxUses
  PROVE  LET all == Append(log, Chat!Entry("openai", Calls(n, n)))
         IN  /\ all \in Seq(Chat!Entries) /\ Fits(all) /\ Begun(all)
             /\ Chat!Api("openai", all) = Chat!Api("openai", log) \o Calls(n, n)
<1> DEFINE e == Chat!Entry("openai", Calls(n, n))
<1>1. /\ n \in 0 .. MaxUses /\ 0 \in 0 .. MaxUses /\ n \in Nat /\ "openai" \in Both
      /\ "anthropic" \in Both
  BY DEF Chat!ChatAssumption, Both
<1>2. Calls(n, n) \in Seq(Chat!Items) /\ Len(Calls(n, n)) = n + 1
  BY <1>1, CallsTyped
<1>3. e \in Chat!Entries
  BY <1>2 DEF Chat!Entry, Chat!Entries
<1>4. /\ Chat!Translated("openai", e) = Calls(n, n)
      /\ Chat!Translated("anthropic", e) = <<Chat!Text>>
  BY DEF Chat!Translated, Chat!Entry
<1>5. Chat!Paired(Calls(n, n), "openai") /\ Chat!Paired(<<Chat!Text>>, "anthropic")
  BY <1>1, PairsMade
<1>6. <<Chat!Text>> # << >> /\ Calls(n, n) # << >>
  BY <1>1, <1>2
<1> HIDE DEF e
<1>7. LET all == Append(log, e) IN all \in Seq(Chat!Entries) /\ Fits(all) /\ Begun(all)
  BY <1>3, <1>4, <1>5, <1>6, LogGrows DEF Both
<1>8. Chat!Api("openai", Append(log, e)) = Chat!Api("openai", log) \o Calls(n, n)
  BY <1>1, <1>3, <1>4, ApiGrows
<1> QED
  BY <1>7, <1>8 DEF e

\* A round of driveAnthropic goes into the log in two steps, which are one for what is sent.
LEMMA AnthropicRound ==
  ASSUME Chat!ChatAssumption, NEW old \in Seq(Chat!Entries), Fits(old), Begun(old),
         NEW n \in 1 .. MaxUses
  PROVE  LET log == Append(old, Chat!Entry("anthropic", <<Chat!Reply("anthropic", n)>>))
             all == Append(log, Chat!Entry("anthropic", <<Chat!Results(n)>>))
         IN  /\ log \in Seq(Chat!Entries)
             /\ Chat!Api("anthropic", log)
                  = Append(Chat!Api("anthropic", old), Chat!Reply("anthropic", n))
             /\ all \in Seq(Chat!Entries) /\ Fits(all) /\ Begun(all)
             /\ Chat!Api("anthropic", all) = Append(Chat!Api("anthropic", log), Chat!Results(n))
<1> DEFINE r == Chat!Reply("anthropic", n)
           s == Chat!Results(n)
           e == Chat!Entry("anthropic", <<r>>)
           f == Chat!Entry("anthropic", <<s>>)
           log == Append(old, e)
           all == Append(log, f)
<1>1. n \in 0 .. MaxUses /\ n \in Nat /\ n > 0 /\ "anthropic" \in Both
  BY DEF Chat!ChatAssumption, Both
<1>2. r \in Chat!Items /\ s \in Chat!Items
  BY <1>1, ItemsMade
<1>3. r.native = "anthropic"
  BY <1>1 DEF Chat!Reply, Chat!Item
<1>4. Chat!Paired(<<r, s>>, "anthropic")
  BY <1>1, PairsMade
<1> HIDE DEF r, s
<1>5. e \in Chat!Entries /\ f \in Chat!Entries
  BY <1>2 DEF Chat!Entry, Chat!Entries
<1>6. \A p \in Both : Chat!Translated(p, e) = <<r>> /\ Chat!Translated(p, f) = <<s>>
  BY DEF Chat!Translated, Chat!Entry
<1> HIDE DEF e, f
<1>7. log \in Seq(Chat!Entries) /\ all \in Seq(Chat!Entries)
  BY <1>5
<1>8. ASSUME NEW p \in Both
      PROVE  /\ Chat!Api(p, old) \in Seq(Chat!Items)
             /\ Chat!Api(p, log) = Chat!Api(p, old) \o <<r>>
             /\ Chat!Api(p, all) = Chat!Api(p, log) \o <<s>>
  <2> HIDE DEF log
  <2>1. Chat!Api(p, all) = Chat!Api(p, log) \o <<s>>
    BY <1>5, <1>6, <1>7, ApiGrows
  <2>2. Chat!Api(p, old) \in Seq(Chat!Items) /\ Chat!Api(p, log) = Chat!Api(p, old) \o <<r>>
    BY <1>5, <1>6, ApiGrows DEF log
  <2> QED
    BY <2>1, <2>2
<1> HIDE DEF log, all
<1>9. ASSUME NEW p \in Both PROVE Fit(p, Chat!Api(p, all)) /\ Chat!Api(p, all) # << >>
  <2> DEFINE a == Chat!Api(p, old)
             b == <<r, s>>
  <2>1. a \in Seq(Chat!Items) /\ b \in Seq(Chat!Items) /\ b # << >>
    BY <1>2, <1>8, <1>9
  <2>2. Chat!Api(p, all) = (a \o <<r>>) \o <<s>>
    BY <1>8, <1>9
  <2>3. Fit(p, a) /\ a # << >>
    BY <1>9 DEF Fits, Begun
  <2>4. Neutral(p, b) => Chat!Paired(b, p)
    <3>1. CASE p = "anthropic"
      BY <1>4, <3>1
    <3>2. CASE p = "openai"
      <4>1. 1 \in DOMAIN b /\ b[1] = r
        OBVIOUS
      <4> QED
        BY <1>3, <3>2, <4>1 DEF Neutral
    <3> QED
      BY <1>9, <3>1, <3>2 DEF Both
  <2> HIDE DEF a
  <2>5. (a \o <<r>>) \o <<s>> = a \o b
    <3>1. <<r>> \in Seq(Chat!Items) /\ <<s>> \in Seq(Chat!Items)
      BY <1>2
    <3>2. b = Append(<<r>>, s)
      OBVIOUS
    <3>3. Append(<<r>>, s) = <<r>> \o <<s>>
      BY <1>2, <3>1, AppendIsConcat
    <3> HIDE DEF b
    <3> QED
      BY <2>1, <3>1, <3>2, <3>3, ConcatAssociative
  <2> HIDE DEF b
  <2> QED
    BY <2>1, <2>2, <2>3, <2>4, <2>5, FitFollows
<1>10. /\ Chat!Api("anthropic", log) = Append(Chat!Api("anthropic", old), r)
       /\ Chat!Api("anthropic", all) = Append(Chat!Api("anthropic", log), s)
  <2>1. Chat!Api("anthropic", old) \in Seq(Chat!Items)
    BY <1>1, <1>8
  <2>2. Chat!Api("anthropic", log) \in Seq(Chat!Items)
    BY <1>1, <1>7, ApiGrows
  <2>3. \A a \in Seq(Chat!Items), x \in Chat!Items : a \o <<x>> = Append(a, x)
    BY AppendIsConcat
  <2> QED
    BY <1>1, <1>2, <1>8, <2>1, <2>2, <2>3
<1>11. Fits(all) /\ Begun(all)
  BY <1>9 DEF Fits, Begun
<1> QED
  BY <1>7, <1>10, <1>11 DEF r, s, e, f, log, all

\* What a step of the conversation keeps.
Keeps == /\ messages' \in Seq(Chat!Entries) /\ drive' \in Chat!Drives
         /\ Turn' /\ (Talk /\ ~disturbed => Talk')

LEMMA ProvidersKnown ==
  ASSUME Chat!ChatAssumption PROVE Providers \subseteq Both /\ MaxUses \in Nat
BY DEF Chat!ChatAssumption, Both

\* Where a step leads: to a request to the model, to the end of the send, to a call.
LEMMA ModelAsked ==
  ASSUME ChatTyped, NEW d \in Chat!Drives, d.provider \in Providers,
         NEW log \in Seq(Chat!Entries), NEW m, Chat!AskModel(d, log, m)
  PROVE  /\ messages' \in Seq(Chat!Entries) /\ drive' \in Chat!Drives /\ Turn'
         /\ Fits(log) /\ Begun(log) /\ d.api = Chat!Api(d.provider, log) => Talk'
<1>1. drive' = d /\ messages' = log /\ await' = "llm"
  BY DEF Chat!AskModel, Chat!Await
<1>2. await' \notin Chat!Rpcs /\ await' \notin {"list", "call", "idle"}
  BY <1>1 DEF Chat!Rpcs
<1>3. Turn'
  BY <1>1, <1>2 DEF Turn
<1>4. ASSUME Fits(log), Begun(log), d.api = Chat!Api(d.provider, log) PROVE Talk'
  <2>1. Fits(messages') /\ Begun(messages') /\ drive'.api = Chat!Api(drive'.provider, messages')
    BY <1>1, <1>4
  <2> QED
    BY <1>2, <2>1 DEF Talk, Chat!Rpcs, Fits, Begun
<1> QED
  BY <1>1, <1>3, <1>4

LEMMA SendOver ==
  ASSUME Chat!ChatAssumption, ChatTyped, NEW log \in Seq(Chat!Entries), NEW m, Chat!End(log, m)
  PROVE  /\ messages' \in Seq(Chat!Entries) /\ drive' \in Chat!Drives /\ Turn'
         /\ Fits(log) => Talk'
<1>1. drive' = Chat!NoDrive /\ messages' = log /\ await' = "idle"
  BY DEF Chat!End, Chat!Await
<1>2. await' \notin Chat!Rpcs /\ await' \notin {"list", "call", "llm"}
  BY <1>1 DEF Chat!Rpcs
<1>3. Chat!NoDrive \in Chat!Drives
  BY DEF Chat!NoDrive, Chat!Drives, Chat!ChatAssumption
<1>4. Turn'
  BY <1>1, <1>2 DEF Turn
<1>5. ASSUME Fits(log) PROVE Talk'
  <2>1. Fits(messages')
    BY <1>1, <1>5
  <2> QED
    BY <1>1, <1>2, <2>1 DEF Talk, Chat!Rpcs, Fits
<1> QED
  BY <1>1, <1>3, <1>4, <1>5

LEMMA CallMade ==
  ASSUME NEW m, Chat!ensureInitialized("call", m),
         drive'.provider \in Providers, drive'.done < drive'.uses
  PROVE  Turn' /\ (UnderWay(drive', messages') => Talk')
<1>1. then' = "call" /\ await' \in {"initialize", "call"}
  BY DEF Chat!ensureInitialized, Chat!Await
<1>2. await' \in Chat!Rpcs /\ await' \notin {"list", "llm"}
  BY <1>1 DEF Chat!Rpcs
<1>3. Turn'
  BY <1>1, <1>2 DEF Turn
<1>4. ASSUME UnderWay(drive', messages') PROVE Talk'
  BY <1>1, <1>2, <1>4 DEF Talk, Chat!Rpcs, UnderWay, Fits, Begun
<1> QED
  BY <1>3, <1>4

\* The result of a call.
LEMMA AnswerKept ==
  ASSUME Chat!ChatAssumption, NEW d \in Chat!Drives, d.provider \in Providers, d.done < d.uses,
         NEW ok, NEW log
  PROVE  LET e == Chat!Answered(d, ok)
         IN  /\ e \in Chat!Drives /\ e.provider = d.provider /\ e.uses = d.uses
             /\ e.done = d.done + 1 /\ e.done <= e.uses /\ e.uses > 0
             /\ log \in Seq(Chat!Entries) /\ UnderWay(d, log) => UnderWay(e, log)
<1> DEFINE r == IF d.provider = "openai" THEN <<Chat!Tool(d.done + 1)>> ELSE << >>
           e == [d EXCEPT !.api = @ \o r, !.sub = @ \o r, !.done = @ + 1]
<1>1. Chat!Answered(d, ok) = e
  BY DEF Chat!Answered
<1>2. /\ d.api \in Seq(Chat!Items) /\ d.sub \in Seq(Chat!Items) /\ d.uses \in 0 .. MaxUses
      /\ d.done \in 0 .. MaxUses /\ MaxUses \in Nat /\ d.provider \in Both
  BY ProvidersKnown DEF Chat!Drives
<1>3. d.done + 1 \in 0 .. MaxUses /\ d.done + 1 <= d.uses /\ d.uses > 0
  BY <1>2
<1>4. Chat!Tool(d.done + 1) \in Chat!Items
  BY <1>3, ItemsMade
<1>5. r \in Seq(Chat!Items)
  BY <1>4
<1> HIDE DEF r
<1>6. /\ e.api = d.api \o r /\ e.sub = d.sub \o r /\ e.done = d.done + 1
      /\ e.provider = d.provider /\ e.uses = d.uses
  BY DEF Chat!Drives
<1>7. e \in Chat!Drives
  <2>1. d.api \o r \in Seq(Chat!Items) /\ d.sub \o r \in Seq(Chat!Items)
    BY <1>2, <1>5
  <2> QED
    BY <1>3, <2>1 DEF Chat!Drives
<1> HIDE DEF e
<1>8. ASSUME log \in Seq(Chat!Entries), UnderWay(d, log) PROVE UnderWay(e, log)
  <2>1. CASE d.provider = "anthropic"
    <3>1. r = << >>
      BY <2>1 DEF r
    <3>2. e.api = d.api
      BY <1>2, <1>6, <3>1
    <3> QED
      BY <1>6, <1>8, <2>1, <3>2 DEF UnderWay
  <2>2. CASE d.provider # "anthropic"
    <3>1. d.provider = "openai" /\ r = <<Chat!Tool(d.done + 1)>>
      BY <1>2, <2>2 DEF Both, r
    <3>2. /\ Fits(log) /\ Begun(log) /\ d.sub = Calls(d.uses, d.done)
          /\ d.api = Chat!Api("openai", log) \o d.sub
      BY <1>8, <2>2 DEF UnderWay
    <3>3. d.sub \o r = Calls(d.uses, d.done + 1)
      <4> DEFINE c == d.sub \o r
                 x == Calls(d.uses, d.done + 1)
                 k == d.done
      <4>1. k \in Nat /\ d.sub \in Seq(Chat!Items) /\ Len(d.sub) = k + 1 /\ d.sub = Calls(d.uses, k)
        <5>1. Calls(d.uses, d.done) \in Seq(Chat!Items) /\ Len(Calls(d.uses, d.done)) = d.done + 1
          BY <1>2, CallsTyped
        <5> QED
          BY <1>2, <3>2, <5>1
      <4>2. x \in Seq(Chat!Items) /\ Len(x) = k + 2
        <5>1. d.uses \in 0 .. MaxUses /\ k + 1 \in 0 .. MaxUses /\ k + 1 + 1 = k + 2
          BY <1>2, <1>3
        <5> QED
          BY <5>1, CallsTyped
      <4>3. /\ c \in Seq(Chat!Items) /\ Len(c) = k + 2
            /\ \A i \in 1 .. k + 2 : c[i] = IF i <= k + 1 THEN d.sub[i] ELSE r[i - (k + 1)]
        <5>1. Len(r) = 1 /\ k + 1 + 1 = k + 2
          BY <3>1, <4>1
        <5>2. /\ c \in Seq(Chat!Items) /\ Len(c) = Len(d.sub) + Len(r)
              /\ \A i \in 1 .. Len(d.sub) + Len(r) :
                   c[i] = IF i <= Len(d.sub) THEN d.sub[i] ELSE r[i - Len(d.sub)]
          <6>1. d.sub \in Seq(Chat!Items)
            BY <4>1
          <6> QED
            BY <1>5, <6>1, ConcatProperties
        <5> HIDE DEF c
        <5> QED
          BY <4>1, <5>1, <5>2
      <4> HIDE DEF c
      <4>4. ASSUME NEW i \in 1 .. k + 2 PROVE c[i] = x[i]
        <5>1. CASE i = k + 2
          <6>1. c[i] = Chat!Tool(k + 1)
            <7>1. ~(i <= k + 1) /\ i - (k + 1) = 1
              BY <4>1, <5>1
            <7> QED
              BY <3>1, <4>3, <7>1
          <6>2. x[i] = Chat!Tool(k + 1)
            BY <4>1, <5>1 DEF Calls
          <6> QED
            BY <6>1, <6>2
        <5>2. CASE i # k + 2
          <6>1. i \in 1 .. k + 1
            BY <4>1, <5>2
          <6>2. c[i] = d.sub[i]
            BY <4>1, <4>3, <6>1
          <6>3. d.sub[i] = x[i]
            <7>1. Calls(d.uses, k)[i] = x[i]
              BY <4>1, <6>1 DEF Calls
            <7> QED
              BY <4>1, <7>1
          <6> QED
            BY <6>2, <6>3
        <5> QED
          BY <5>1, <5>2
      <4> HIDE DEF x, k
      <4>5. c = x
        BY <4>2, <4>3, <4>4, SeqEqual
      <4> QED
        BY <4>5 DEF c, x
    <3>4. (Chat!Api("openai", log) \o d.sub) \o r = Chat!Api("openai", log) \o (d.sub \o r)
      <4>1. Chat!Api("openai", log) \in Seq(Chat!Items)
        BY <1>8, ApiGrows DEF Both
      <4>2. \A a, b, c \in Seq(Chat!Items) : (a \o b) \o c = a \o (b \o c)
        BY ConcatAssociative
      <4> QED
        BY <1>2, <1>5, <4>1, <4>2
    <3>5. e.sub = Calls(e.uses, e.done) /\ e.api = Chat!Api("openai", log) \o e.sub
      BY <1>6, <3>2, <3>3, <3>4
    <3> QED
      BY <1>6, <2>2, <3>2, <3>5 DEF UnderWay
  <2> QED
    BY <2>1, <2>2
<1> QED
  BY <1>1, <1>3, <1>6, <1>7, <1>8

\* The next call, or the end of the round.
LEMMA CallsGoOn ==
  ASSUME Chat!ChatAssumption, ChatTyped, messages \in Seq(Chat!Entries),
         NEW d \in Chat!Drives, d.provider \in Providers, d.done <= d.uses, d.uses > 0,
         NEW m, Chat!NextCall(d, m)
  PROVE  /\ messages' \in Seq(Chat!Entries) /\ drive' \in Chat!Drives /\ Turn'
         /\ UnderWay(d, messages) => Talk'
<1>1. /\ d.uses \in 1 .. MaxUses /\ d.uses \in 0 .. MaxUses /\ d.done \in 0 .. MaxUses
      /\ MaxUses \in Nat /\ d.provider \in Both /\ d.api \in Seq(Chat!Items)
      /\ d.sub \in Seq(Chat!Items) /\ d.round \in 0 .. MAX_TOOL_ROUND_TRIPS - 1
      /\ MAX_TOOL_ROUND_TRIPS \in Nat \ {0}
  <2>1. MAX_TOOL_ROUND_TRIPS \in Nat \ {0} /\ MaxUses \in Nat /\ d.provider \in Both
    BY ProvidersKnown DEF Chat!ChatAssumption
  <2>2. /\ d.uses \in 0 .. MaxUses /\ d.done \in 0 .. MaxUses /\ d.api \in Seq(Chat!Items)
        /\ d.sub \in Seq(Chat!Items) /\ d.round \in 0 .. MAX_TOOL_ROUND_TRIPS - 1
    BY DEF Chat!Drives
  <2> QED
    BY <2>1, <2>2
<1>2. CASE d.done < d.uses
  <2>1. drive' = d /\ messages' = messages /\ Chat!ensureInitialized("call", m)
    BY <1>2 DEF Chat!NextCall
  <2>2. Turn' /\ (UnderWay(drive', messages') => Talk')
    BY <1>2, <2>1, CallMade
  <2> QED
    BY <2>1, <2>2
<1>3. CASE ~(d.done < d.uses)
  <2> DEFINE s == Chat!Results(d.uses)
             entry == IF d.provider = "openai" THEN Chat!Entry("openai", d.sub)
                      ELSE Chat!Entry("anthropic", <<s>>)
             more == IF d.provider = "openai" THEN d.api ELSE Append(d.api, s)
             all == Append(messages, entry)
             e == [d EXCEPT !.api = more, !.sub = << >>, !.round = @ + 1, !.uses = 0, !.done = 0]
  <2>1. IF d.round + 1 = MAX_TOOL_ROUND_TRIPS THEN Chat!End(all, m) ELSE Chat!AskModel(e, all, m)
    BY <1>3 DEF Chat!NextCall, Chat!EndRound, Chat!LastRound
  <2>2. d.done = d.uses /\ s \in Chat!Items
    BY <1>1, <1>3, ItemsMade
  <2>3. entry \in Chat!Entries /\ more \in Seq(Chat!Items)
    BY <1>1, <2>2 DEF Chat!Entry, Chat!Entries
  <2>4. all \in Seq(Chat!Entries)
    BY <2>3
  <2>5. d.round + 1 # MAX_TOOL_ROUND_TRIPS => e \in Chat!Drives
    <3>1. ASSUME d.round + 1 # MAX_TOOL_ROUND_TRIPS PROVE e \in Chat!Drives
      <4>1. /\ d.round + 1 \in 0 .. MAX_TOOL_ROUND_TRIPS - 1 /\ 0 \in 0 .. MaxUses
            /\ << >> \in Seq(Chat!Items)
        BY <1>1, <3>1
      <4> HIDE DEF more
      <4> QED
        BY <2>3, <4>1 DEF Chat!Drives
    <3> QED
      BY <3>1
  <2>6. e.provider = d.provider /\ e.api = more
    BY DEF Chat!Drives
  <2>7. ASSUME UnderWay(d, messages)
        PROVE  Fits(all) /\ Begun(all) /\ more = Chat!Api(d.provider, all)
    <3>1. CASE d.provider = "anthropic"
      <4> DEFINE old == SubSeq(messages, 1, Len(messages) - 1)
      <4>1. /\ Fits(old) /\ Begun(old) /\ d.api = Chat!Api("anthropic", messages)
            /\ messages = Append(old, Chat!Entry("anthropic", <<Chat!Reply("anthropic", d.uses)>>))
        BY <2>7, <3>1 DEF UnderWay
      <4>2. old \in Seq(Chat!Entries)
        OBVIOUS
      <4>3. all = Append(messages, Chat!Entry("anthropic", <<s>>)) /\ more = Append(d.api, s)
        BY <3>1
      <4> HIDE DEF old, all, more, s
      <4>4. /\ Fits(all) /\ Begun(all)
            /\ Chat!Api("anthropic", all) = Append(Chat!Api("anthropic", messages), s)
        BY <1>1, <4>1, <4>2, <4>3, AnthropicRound DEF s
      <4> QED
        BY <3>1, <4>1, <4>3, <4>4
    <3>2. CASE d.provider = "openai"
      <4>1. /\ Fits(messages) /\ Begun(messages) /\ d.sub = Calls(d.uses, d.uses)
            /\ d.api = Chat!Api("openai", messages) \o d.sub
        BY <2>2, <2>7, <3>2 DEF UnderWay
      <4>2. all = Append(messages, Chat!Entry("openai", Calls(d.uses, d.uses))) /\ more = d.api
        BY <3>2, <4>1
      <4> HIDE DEF all, more, s
      <4>3. /\ Fits(all) /\ Begun(all)
            /\ Chat!Api("openai", all) = Chat!Api("openai", messages) \o Calls(d.uses, d.uses)
        BY <1>1, <4>1, <4>2, OpenAIRound
      <4> QED
        BY <3>2, <4>1, <4>2, <4>3
    <3> QED
      BY <1>1, <3>1, <3>2 DEF Both
  <2> HIDE DEF all, more, e
  <2>8. CASE d.round + 1 = MAX_TOOL_ROUND_TRIPS
    BY <2>1, <2>4, <2>7, <2>8, SendOver
  <2>9. CASE d.round + 1 # MAX_TOOL_ROUND_TRIPS
    BY <2>1, <2>4, <2>5, <2>6, <2>7, <2>9, ModelAsked
  <2> QED
    BY <2>8, <2>9
<1> QED
  BY <1>2, <1>3

\* An empty log is an empty request.
LEMMA EmptyLog == ASSUME NEW p PROVE Chat!Api(p, << >>) = << >>
<1>1. [i \in DOMAIN << >> |-> Chat!Translated(p, << >>[i])] = << >>
  OBVIOUS
<1> QED
  BY <1>1 DEF Chat!Api, Chat!FlattenSeq

\* The driver begins with what the log makes of it.
LEMMA DriveStarts ==
  ASSUME Chat!ChatAssumption, ChatTyped, NEW p \in Providers, NEW log \in Seq(Chat!Entries),
         NEW m, Chat!StartDrive(p, log, m)
  PROVE  /\ messages' \in Seq(Chat!Entries) /\ drive' \in Chat!Drives /\ Turn'
         /\ Fits(log) /\ Begun(log) => Talk'
<1> DEFINE d == [Chat!NoDrive EXCEPT !.provider = p, !.api = Chat!Api(p, log)]
<1>1. Chat!AskModel(d, log, m)
  BY DEF Chat!StartDrive
<1>2. d.provider = p /\ d.api = Chat!Api(p, log)
  BY DEF Chat!NoDrive
<1>3. Chat!Api(p, log) \in Seq(Chat!Items)
  BY ProvidersKnown, ApiGrows
<1>4. d \in Chat!Drives
  <2>1. /\ 0 \in 0 .. MAX_TOOL_ROUND_TRIPS - 1 /\ 0 \in 0 .. MaxUses
        /\ << >> \in Seq(Chat!Items)
    BY DEF Chat!ChatAssumption
  <2> QED
    BY <1>3, <2>1 DEF Chat!NoDrive, Chat!Drives
<1> HIDE DEF d
<1> QED
  BY <1>1, <1>2, <1>4, ModelAsked

\* The types of the conversation.
LEMMA TalkTyped ==
  ASSUME Chat!TypeOK
  PROVE  /\ ChatTyped /\ messages \in Seq(Chat!Entries) /\ drive \in Chat!Drives
         /\ provider \in Providers
BY DEF Chat!TypeOK, ChatTyped

LEMMA TalkSend ==
  ASSUME Chat!ChatAssumption, Chat!TypeOK, Turn, Chat!send
  PROVE  Keeps
<1>0. /\ ChatTyped /\ messages \in Seq(Chat!Entries) /\ provider \in Providers
      /\ await = "idle" /\ await \notin Chat!Rpcs
  BY TalkTyped DEF Chat!send, Chat!Rpcs
<1> DEFINE log == Append(messages, Chat!Entry("plain", <<Chat!User>>))
<1>1. Talk /\ ~disturbed => Fits(log) /\ Begun(log)
  <2>1. Talk /\ ~disturbed => Fits(messages)
    BY <1>0 DEF Talk
  <2> QED
    BY <1>0, <2>1, UserSpeaks
<1>2. log \in Seq(Chat!Entries)
  <2>1. 0 \in 0 .. MaxUses
    BY DEF Chat!ChatAssumption
  <2>2. <<Chat!User>> \in Seq(Chat!Items)
    BY <2>1, ItemsMade
  <2> QED
    BY <1>0, <2>2 DEF Chat!Entry, Chat!Entries
<1>3. CASE mcp.toolsCache
  <2>1. Chat!StartDrive(provider, log, mcp)
    BY <1>3 DEF Chat!send
  <2> HIDE DEF log
  <2> QED
    BY <1>0, <1>1, <1>2, <2>1, DriveStarts DEF Keeps
<1>4. CASE ~mcp.toolsCache
  <2>1. /\ messages' = log /\ drive' = [Chat!NoDrive EXCEPT !.provider = provider]
        /\ then' = "list" /\ await' \in {"initialize", "list"}
    BY <1>4 DEF Chat!send, Chat!ensureInitialized, Chat!Await
  <2>2. drive' \in Chat!Drives /\ drive'.provider = provider
    <3>1. /\ 0 \in 0 .. MAX_TOOL_ROUND_TRIPS - 1 /\ 0 \in 0 .. MaxUses
          /\ << >> \in Seq(Chat!Items)
      BY DEF Chat!ChatAssumption
    <3> QED
      BY <1>0, <2>1, <3>1 DEF Chat!NoDrive, Chat!Drives
  <2> HIDE DEF log
  <2>3. Turn'
    BY <1>0, <2>1, <2>2 DEF Turn, Chat!Rpcs
  <2>4. Talk /\ ~disturbed => Talk'
    <3>1. Fits(log) /\ Begun(log) => Fits(messages') /\ Begun(messages')
      BY <2>1
    <3>2. Fits(messages') /\ Begun(messages') => Talk'
      BY <2>1 DEF Talk, Fits, Begun, Chat!Rpcs
    <3> QED
      BY <1>1, <3>1, <3>2
  <2> QED
    BY <1>2, <2>1, <2>2, <2>3, <2>4 DEF Keeps
<1> QED
  BY <1>3, <1>4

\* driveAnthropic and driveOpenAI, when the model has answered.
LEMMA TalkReply ==
  ASSUME Chat!ChatAssumption, Chat!TypeOK, Turn, NEW n \in 0 .. MaxUses, Chat!ModelReplies(n)
  PROVE  Keeps
<1> DEFINE p == drive.provider
           r == Chat!Reply(p, n)
           d == [drive EXCEPT !.api = Append(@, r), !.sub = <<r>>, !.uses = n, !.done = 0]
           said == Append(messages, Chat!Entry(p, <<r>>))
           log == IF p = "anthropic" THEN said ELSE IF n = 0 THEN said ELSE messages
<1>0. /\ ChatTyped /\ messages \in Seq(Chat!Entries) /\ drive \in Chat!Drives /\ p \in Providers
      /\ p \in Both /\ await = "llm" /\ await \notin Chat!Rpcs /\ MaxUses \in Nat
  BY TalkTyped, ProvidersKnown DEF Turn, Chat!ModelReplies, Chat!Rpcs
<1>1. IF n = 0 THEN Chat!End(log, mcp)
      ELSE drive' = d /\ messages' = log /\ Chat!ensureInitialized("call", mcp)
  BY DEF Chat!ModelReplies
<1>2. r \in Chat!Items
  BY <1>0, ItemsMade
<1>3. said \in Seq(Chat!Entries) /\ log \in Seq(Chat!Entries)
  <2>1. <<r>> \in Seq(Chat!Items)
    BY <1>2
  <2>2. Chat!Entry(p, <<r>>) \in Chat!Entries
    BY <1>0, <2>1 DEF Chat!Entry, Chat!Entries, Both
  <2> QED
    BY <1>0, <2>2
<1>4. Talk /\ ~disturbed => Fits(messages) /\ Begun(messages) /\ drive.api = Chat!Api(p, messages)
  BY <1>0 DEF Talk
<1>5. CASE n = 0
  <2>1. Chat!End(said, mcp)
    BY <1>1, <1>5
  <2>2. Fits(messages) /\ Begun(messages) => Fits(said)
    BY <1>0, <1>5, TextEnds
  <2> HIDE DEF said, p
  <2> QED
    BY <1>0, <1>3, <1>4, <2>1, <2>2, SendOver DEF Keeps
<1>6. CASE n # 0
  <2>1. n \in 1 .. MaxUses /\ n \in Nat
    BY <1>0, <1>6
  <2>2. drive' = d /\ messages' = log /\ Chat!ensureInitialized("call", mcp)
    BY <1>1, <1>6
  <2>3. /\ d \in Chat!Drives /\ d.provider = p /\ d.uses = n /\ d.done = 0 /\ d.sub = <<r>>
        /\ d.api = Append(drive.api, r)
    <3>1. /\ drive.api \in Seq(Chat!Items) /\ Append(drive.api, r) \in Seq(Chat!Items)
          /\ <<r>> \in Seq(Chat!Items) /\ 0 \in 0 .. MaxUses
      BY <1>0, <1>2 DEF Chat!Drives
    <3> HIDE DEF r
    <3> QED
      BY <1>0, <3>1 DEF Chat!Drives
  <2>4. ASSUME Fits(messages), Begun(messages), drive.api = Chat!Api(p, messages)
        PROVE  UnderWay(d, log)
    <3>1. CASE p = "anthropic"
      <4>1. log = Append(messages, Chat!Entry("anthropic", <<Chat!Reply("anthropic", n)>>))
        BY <3>1
      <4>2. Chat!Api("anthropic", log) = d.api
        <5>1. Chat!Api("anthropic", log)
                = Append(Chat!Api("anthropic", messages), Chat!Reply("anthropic", n))
          <6> HIDE DEF log
          <6> QED
            BY <1>0, <2>1, <2>4, <4>1, AnthropicRound
        <5> QED
          BY <2>3, <2>4, <3>1, <5>1
      <4> HIDE DEF log, d
      <4>3. SubSeq(log, 1, Len(log) - 1) = messages
        <5>1. \A x \in Chat!Entries : LET l == Append(messages, x)
                                      IN  SubSeq(l, 1, Len(l) - 1) = messages
          BY <1>0
        <5>2. Chat!Entry("anthropic", <<Chat!Reply("anthropic", n)>>) \in Chat!Entries
          <6>1. <<Chat!Reply("anthropic", n)>> \in Seq(Chat!Items)
            BY <1>2, <3>1
          <6> QED
            BY <6>1 DEF Chat!Entry, Chat!Entries
        <5> QED
          BY <4>1, <5>1, <5>2
      <4> QED
        BY <2>3, <2>4, <3>1, <4>1, <4>2, <4>3 DEF UnderWay
    <3>2. CASE p = "openai"
      <4>1. log = messages /\ r = Chat!Reply("openai", n)
        BY <1>6, <3>2
      <4>2. d.sub = Calls(n, 0)
        <5>1. Calls(n, 0) \in Seq(Chat!Items) /\ Len(Calls(n, 0)) = 1
          <6>1. 0 \in 0 .. MaxUses
            BY <1>0
          <6>2. Calls(n, 0) \in Seq(Chat!Items) /\ Len(Calls(n, 0)) = 0 + 1
            BY <6>1, CallsTyped, Zenon
          <6> QED
            BY <6>2
        <5>2. Calls(n, 0)[1] = r
          BY <4>1 DEF Calls
        <5> HIDE DEF d, r
        <5>3. Calls(n, 0) = <<r>>
          BY <5>1, <5>2
        <5> QED
          BY <2>3, <5>3
      <4>3. d.api = Chat!Api("openai", messages) \o d.sub
        <5>1. \A a \in Seq(Chat!Items), x \in Chat!Items : a \o <<x>> = Append(a, x)
          BY AppendIsConcat
        <5>2. drive.api \in Seq(Chat!Items)
          BY <1>0 DEF Chat!Drives
        <5> HIDE DEF d, r
        <5> QED
          BY <1>2, <2>3, <2>4, <3>2, <5>1, <5>2
      <4> HIDE DEF log, d
      <4> QED
        BY <2>3, <2>4, <3>2, <4>1, <4>2, <4>3 DEF UnderWay
    <3> QED
      BY <1>0, <3>1, <3>2 DEF Both
  <2> HIDE DEF d, log, p
  <2>5. Turn' /\ (UnderWay(drive', messages') => Talk')
    BY <1>0, <2>1, <2>2, <2>3, CallMade
  <2>6. Talk /\ ~disturbed => UnderWay(drive', messages')
    BY <1>4, <2>2, <2>4
  <2> QED
    BY <1>3, <2>2, <2>3, <2>5, <2>6 DEF Keeps
<1> QED
  BY <1>5, <1>6

\* rpc returns or throws.
LEMMA TalkResumes ==
  ASSUME Chat!ChatAssumption, Chat!TypeOK, Turn, NEW ok, NEW header,
         Chat!Resume(ok, header), await \in Chat!Rpcs
  PROVE  Keeps
<1> DEFINE m == IF header = 0 THEN mcp ELSE [mcp EXCEPT !.sessionId = header]
<1>0. /\ ChatTyped /\ messages \in Seq(Chat!Entries) /\ drive \in Chat!Drives
      /\ drive.provider \in Providers /\ then \in {"list", "call"}
      /\ await \in {"initialize", "initialized", "list", "call"}
  BY TalkTyped DEF Turn, ChatTyped, Chat!Rpcs
<1>1. /\ then = "call" => drive.done < drive.uses
      /\ await \in {"list", "call"} => await = then
  BY DEF Turn
<1>2. Talk /\ ~disturbed => IF then = "call" THEN UnderWay(drive, messages)
                            ELSE Fits(messages) /\ Begun(messages)
  BY <1>0 DEF Talk, Chat!Rpcs
<1> HIDE DEF m
<1>3. ASSUME NEW b, then = "call", Chat!NextCall(Chat!Answered(drive, b), m) PROVE Keeps
  <2> DEFINE e == Chat!Answered(drive, b)
  <2>1. /\ e \in Chat!Drives /\ e.provider \in Providers /\ e.done <= e.uses /\ e.uses > 0
        /\ UnderWay(drive, messages) => UnderWay(e, messages)
    BY <1>0, <1>1, <1>3, AnswerKept
  <2>2. Chat!NextCall(e, m)
    BY <1>3
  <2> HIDE DEF e
  <2>3. /\ messages' \in Seq(Chat!Entries) /\ drive' \in Chat!Drives /\ Turn'
        /\ UnderWay(e, messages) => Talk'
    BY <1>0, <2>1, <2>2, CallsGoOn
  <2> QED
    BY <1>2, <1>3, <2>1, <2>3 DEF Keeps
<1>4. ASSUME UNCHANGED <<messages, drive, then>>, await' \in {"initialized", then} PROVE Keeps
  <2>1. await' \in Chat!Rpcs /\ await' \notin {"idle", "llm"}
    BY <1>0, <1>4 DEF Chat!Rpcs
  <2>2. Turn'
    BY <1>0, <1>1, <1>4, <2>1 DEF Turn
  <2>3. Talk /\ ~disturbed => Talk'
    BY <1>0, <1>2, <1>4, <2>1 DEF Talk, UnderWay, Fits, Begun, Chat!Rpcs
  <2> QED
    BY <1>0, <1>4, <2>2, <2>3 DEF Keeps
<1>5. CASE ok /\ await \in {"initialize", "initialized"}
  BY <1>4, <1>5 DEF Chat!Resume, Chat!Await
<1>6. CASE ok /\ await = "list"
  <2>1. Chat!StartDrive(drive.provider, messages, [m EXCEPT !.toolsCache = TRUE])
    BY <1>6 DEF Chat!Resume, m
  <2>2. /\ messages' \in Seq(Chat!Entries) /\ drive' \in Chat!Drives /\ Turn'
        /\ Fits(messages) /\ Begun(messages) => Talk'
    BY <1>0, <2>1, DriveStarts
  <2> QED
    BY <1>1, <1>2, <1>6, <2>2 DEF Keeps
<1>7. CASE ok /\ await = "call"
  <2>1. Chat!NextCall(Chat!Answered(drive, TRUE), m)
    BY <1>7 DEF Chat!Resume, m
  <2> QED
    BY <1>1, <1>3, <1>7, <2>1
<1>8. CASE ~ok /\ then = "call"
  <2>1. Chat!NextCall(Chat!Answered(drive, FALSE), m)
    BY <1>8 DEF Chat!Resume, m
  <2> QED
    BY <1>3, <1>8, <2>1
<1>9. CASE ~ok /\ then # "call"
  <2>1. Chat!End(messages, m)
    BY <1>9 DEF Chat!Resume, m
  <2> QED
    BY <1>0, <1>2, <1>9, <2>1, SendOver DEF Keeps
<1> QED
  BY <1>0, <1>5, <1>6, <1>7, <1>8, <1>9

LEMMA ChatInvStep ==
  ASSUME Chat!ChatAssumption, ChatInv, [Chat!Next]_Chat!vars
  PROVE  ChatInv'
<1>0. /\ Chat!TypeOK /\ Turn /\ Talk /\ ChatTyped /\ messages \in Seq(Chat!Entries)
      /\ drive \in Chat!Drives /\ provider \in Providers
  BY TalkTyped DEF ChatInv
<1>1. ChatTyped'
  BY <1>0, ChatTypedStep
<1>2. ASSUME messages' \in Seq(Chat!Entries), drive' \in Chat!Drives, provider' \in Providers,
             Turn', Talk'
      PROVE  ChatInv'
  BY <1>1, <1>2 DEF ChatInv, Chat!TypeOK, ChatTyped, Turn, Chat!Rpcs
<1>3. ASSUME Keeps, UNCHANGED <<provider, disturbed>> PROVE ChatInv'
  <2>1. disturbed => Talk'
    BY <1>3 DEF Talk
  <2> QED
    BY <1>0, <1>2, <1>3, <2>1 DEF Keeps
<1>4. ASSUME UNCHANGED <<messages, await, then, drive, disturbed>> PROVE Turn' /\ Talk'
  BY <1>0, <1>4 DEF Turn, Talk, UnderWay, Fits, Begun
<1>5. CASE UNCHANGED Chat!vars
  BY <1>0, <1>2, <1>4, <1>5 DEF Chat!vars
<1>6. CASE Chat!send
  BY <1>0, <1>3, <1>6, TalkSend DEF Chat!send
<1>7. ASSUME NEW n \in 0 .. MaxUses, Chat!ModelReplies(n) PROVE ChatInv'
  BY <1>0, <1>3, <1>7, TalkReply DEF Chat!ModelReplies
<1>8. CASE Chat!ModelFails
  <2>1. Chat!End(messages, mcp) /\ await = "llm" /\ UNCHANGED <<provider, disturbed>>
    BY <1>8 DEF Chat!ModelFails
  <2>2. ~disturbed => Fits(messages)
    BY <1>0, <2>1 DEF Talk, Chat!Rpcs
  <2>3. Keeps
    BY <1>0, <2>1, <2>2, SendOver DEF Keeps
  <2> QED
    BY <1>3, <2>1, <2>3
<1>9. CASE Chat!RpcReplies
  <2>1. PICK o \in Chat!Outcomes : Chat!Resume(o.ok, o.header)
    BY <1>9 DEF Chat!RpcReplies
  <2>2. await \in Chat!Rpcs /\ UNCHANGED <<provider, disturbed>>
    BY <1>9 DEF Chat!RpcReplies
  <2> QED
    BY <1>0, <1>3, <2>1, <2>2, TalkResumes
<1>10. CASE Chat!RpcFails
  <2>1. await \in Chat!Rpcs /\ Chat!Resume(FALSE, 0) /\ UNCHANGED <<provider, disturbed>>
    BY <1>10 DEF Chat!RpcFails
  <2> QED
    BY <1>0, <1>3, <2>1, TalkResumes
<1>11. CASE Chat!LoseSessions
  BY <1>0, <1>2, <1>4, <1>11 DEF Chat!LoseSessions
<1>12. CASE Chat!reset
  <2>1. /\ messages' = << >> /\ disturbed' = (await # "idle")
        /\ UNCHANGED <<provider, await, then, drive>>
    BY <1>12 DEF Chat!reset
  <2>2. Turn'
    BY <1>0, <2>1 DEF Turn
  <2>3. Talk'
    <3>1. CASE await # "idle"
      BY <2>1, <3>1 DEF Talk
    <3>2. CASE await = "idle"
      <4>1. \A p \in Both : Chat!Api(p, << >>) = << >>
        BY EmptyLog
      <4>2. \A p \in Both : Fit(p, << >>)
        BY DEF Fit, Chat!Paired
      <4>3. Fits(messages')
        BY <2>1, <4>1, <4>2 DEF Fits
      <4> QED
        BY <2>1, <3>2, <4>3 DEF Talk, Fits, Chat!Rpcs
    <3> QED
      BY <3>1, <3>2
  <2>4. messages' \in Seq(Chat!Entries)
    BY <2>1
  <2> QED
    BY <1>0, <1>2, <2>1, <2>2, <2>3, <2>4
<1>13. CASE Chat!Switch
  <2>1. provider' \in Providers /\ UNCHANGED <<messages, await, then, drive, disturbed>>
    BY <1>13 DEF Chat!Switch
  <2> QED
    BY <1>0, <1>2, <1>4, <2>1
<1> QED
  BY <1>5, <1>6, <1>7, <1>8, <1>9, <1>10, <1>11, <1>12, <1>13 DEF Chat!Next

\* The invariant of the conversation.
LEMMA ChatInvariant ==
  ASSUME Chat!ChatAssumption
  PROVE  Chat!Spec => []ChatInv
<1>1. Chat!Init => ChatInv
  <2> SUFFICES ASSUME Chat!Init PROVE ChatInv
    OBVIOUS
  <2>1. /\ provider \in Providers /\ messages = << >> /\ await = "idle" /\ then = "list"
        /\ drive = Chat!NoDrive /\ mcp = Chat!Cleared /\ sid = 0 /\ sessions = << >>
        /\ refusals = 0 /\ expired = FALSE /\ disturbed = FALSE
    BY DEF Chat!Init
  <2>2. drive \in Chat!Drives
    BY <2>1 DEF Chat!NoDrive, Chat!Drives, Chat!ChatAssumption
  <2>3. sessions \in Seq({"new", "ready", "gone"}) /\ Len(sessions) = 0
    BY <2>1
  <2>4. messages \in Seq(Chat!Entries)
    BY <2>1
  <2>5. mcp \in [sessionId : 0 .. Len(sessions), initialized : BOOLEAN, toolsCache : BOOLEAN]
    BY <2>1, <2>3 DEF Chat!Cleared
  <2>6. Chat!TypeOK
    <3>1. sid \in 0 .. Len(sessions) /\ refusals \in 0 .. 2
      BY <2>1, <2>3
    <3>2. await \in Chat!Rpcs \cup {"idle", "llm"} /\ await # "call"
      BY <2>1
    <3>3. expired \in BOOLEAN /\ disturbed \in BOOLEAN /\ then \in {"list", "call"}
      BY <2>1
    <3> QED
      BY <2>1, <2>2, <2>3, <2>4, <2>5, <3>1, <3>2, <3>3, Zenon DEF Chat!TypeOK
  <2>7. Turn
    BY <2>1 DEF Turn, Chat!Rpcs
  <2>8. \A p \in Both : Chat!Api(p, messages) = << >>
    BY <2>1, EmptyLog
  <2>9. Talk
    BY <2>1, <2>8 DEF Talk, Fits, Fit, Chat!Paired, Chat!Rpcs
  <2> QED
    BY <2>6, <2>7, <2>9 DEF ChatInv
<1>2. ChatInv /\ [Chat!Next]_Chat!vars => ChatInv'
  BY ChatInvStep
<1> QED
  BY <1>1, <1>2, PTL DEF Chat!Spec

\* Page, driver and daemon keep their types.
THEOREM ChatTypeCorrect ==
  ASSUME Chat!ChatAssumption
  PROVE  Chat!Spec => []Chat!TypeOK
<1>1. ChatInv => Chat!TypeOK
  BY DEF ChatInv
<1> QED
  BY <1>1, ChatInvariant, PTL

\* Every request to the model begins with the user and has its calls and results paired,
\* unless Clear was pressed during the send or the log has calls of another provider
\* (driveAnthropic, driveOpenAI).
THEOREM RequestsArePaired ==
  ASSUME Chat!ChatAssumption
  PROVE  Chat!Spec => []Chat!RequestsPaired
<1>1. ChatInv => Chat!RequestsPaired
  <2> SUFFICES ASSUME ChatInv, await = "llm", ~disturbed, Chat!LogNeutral
               PROVE  /\ drive.api # << >> /\ drive.api[1] = Chat!User
                      /\ Chat!Paired(drive.api, drive.provider)
    BY DEF Chat!RequestsPaired
  <2>1. drive.provider \in Both
    BY ProvidersKnown DEF ChatInv, Turn
  <2>2. Fits(messages) /\ Begun(messages) /\ drive.api = Chat!Api(drive.provider, messages)
    BY DEF ChatInv, Talk, Chat!Rpcs
  <2>3. Fit(drive.provider, drive.api) /\ drive.api # << >>
    BY <2>1, <2>2 DEF Fits, Begun
  <2>4. Neutral(drive.provider, drive.api)
    BY DEF Chat!LogNeutral, Neutral
  <2> QED
    BY <2>3, <2>4 DEF Fit
<1> QED
  BY <1>1, ChatInvariant, PTL
=============================================================================
