-------------------------- MODULE FleetQueryProofs --------------------------
(***************************************************************************)
(* Theorems about the fleet_query tool, for any fleet, any addresses and   *)
(* any timeout: FleetQuery implements Gather, and a member is never blamed *)
(* for what another did.                                                   *)
(***************************************************************************)
EXTENDS FleetQuery, Integers, FiniteSetTheorems, WellFoundedInduction, TLAPS

-----------------------------------------------------------------------------
(***************************************************************************)
(* The roster                                                              *)
(***************************************************************************)

\* Every set of numbers has a least one.
LEMMA LeastNat ==
  ASSUME NEW S \in SUBSET Nat, S # {}
  PROVE  \E n \in S : \A m \in S : n <= m
<1>1. PICK n \in S : \A m \in S : ~(<<m, n>> \in OpToRel(<, Nat))
  BY NatLessThanWellFounded, WFMin
<1>2. \A m \in S : ~(m < n)
  BY <1>1 DEF OpToRel
<1> QED
  BY <1>2

\* A set of one element fewer can be listed, and the least element before it.
LEMMA LeastFirst ==
  ASSUME NEW S \in SUBSET Nat, IsFiniteSet(S), NEW x \in S, \A y \in S : x <= y,
         NEW t \in Sorted(S \ {x})
  PROVE  Sorted(S) # {}
<1> DEFINE n == Cardinality(S)
           s == [i \in 1 .. n |-> IF i = 1 THEN x ELSE t[i - 1]]
<1>1. n \in Nat /\ Cardinality(S \ {x}) = n - 1 /\ n - 1 \in Nat
  <2>1. n \in Nat
    BY FS_CardinalityType
  <2>2. Cardinality(S \ {x}) = n - 1
    BY FS_RemoveElement
  <2>3. Cardinality(S \ {x}) \in Nat
    BY FS_RemoveElement, FS_CardinalityType
  <2> QED
    BY <2>1, <2>2, <2>3
<1> HIDE DEF n
<1>2. /\ t \in [1 .. n - 1 -> S \ {x}]
      /\ \A i, j \in 1 .. n - 1 : i < j => t[i] < t[j]
  BY <1>1 DEF Sorted
<1>3. s \in [1 .. n -> S]
  <2>1. ASSUME NEW i \in 1 .. n, i # 1 PROVE t[i - 1] \in S
    BY <1>1, <1>2, <2>1
  <2> QED
    BY <2>1
<1>4. ASSUME NEW i \in 1 .. n, NEW j \in 1 .. n, i < j PROVE s[i] < s[j]
  <2>1. j - 1 \in 1 .. n - 1 /\ s[j] = t[j - 1] /\ t[j - 1] \in S \ {x}
    BY <1>1, <1>2, <1>4
  <2>2. CASE i = 1
    <3>1. s[i] = x
      BY <2>2, <1>1
    <3>2. x <= t[j - 1] /\ x # t[j - 1] /\ t[j - 1] \in Nat /\ x \in Nat
      BY <2>1
    <3> QED
      BY <2>1, <3>1, <3>2
  <2>3. CASE i # 1
    <3>1. i - 1 \in 1 .. n - 1 /\ i - 1 < j - 1 /\ s[i] = t[i - 1]
      BY <1>1, <1>4, <2>3
    <3> QED
      BY <1>2, <2>1, <3>1
  <2> QED
    BY <2>2, <2>3
<1> HIDE DEF s
<1>5. s \in Sorted(S)
  BY <1>3, <1>4 DEF Sorted, n
<1> QED
  BY <1>5

\* Every finite set of NodeIDs can be listed in order: consider a smallest one
\* that cannot.
LEMMA SortedExists ==
  ASSUME NEW S \in SUBSET Nat, IsFiniteSet(S)
  PROVE  Sorted(S) # {}
<1> DEFINE Bad   == {T \in SUBSET S : Sorted(T) = {}}
           Sizes == {Cardinality(T) : T \in Bad}
<1>1. SUFFICES ASSUME Sorted(S) = {} PROVE FALSE
  OBVIOUS
<1>2. \A T \in SUBSET S : IsFiniteSet(T) /\ Cardinality(T) \in Nat
  BY FS_Subset, FS_CardinalityType
<1>3. S \in Bad
  BY <1>1
<1>4. Sizes \in SUBSET Nat /\ Sizes # {}
  BY <1>2, <1>3
<1>5. PICK n \in Sizes : \A m \in Sizes : n <= m
  BY <1>4, LeastNat
<1>6. PICK T \in Bad : Cardinality(T) = n
  OBVIOUS
<1>7. T \in SUBSET Nat /\ IsFiniteSet(T) /\ Sorted(T) = {} /\ T \subseteq S
  BY <1>2
<1>8. CASE T = {}
  <2>1. Cardinality({}) = 0
    BY FS_EmptySet
  <2>2. << >> \in Sorted({})
    BY <2>1 DEF Sorted
  <2> QED
    BY <1>7, <1>8, <2>2
<1>9. CASE T # {}
  <2>1. PICK x \in T : \A y \in T : x <= y
    BY <1>7, <1>9, LeastNat
  <2>2. Cardinality(T \ {x}) = Cardinality(T) - 1
    BY <1>7, FS_RemoveElement
  <2>3. Sorted(T \ {x}) # {}
    <3>1. SUFFICES ASSUME Sorted(T \ {x}) = {} PROVE FALSE
      OBVIOUS
    <3>2. T \ {x} \in Bad
      BY <1>7, <3>1
    <3>3. Cardinality(T \ {x}) \in Sizes
      BY <3>2
    <3>4. n \in Nat
      BY <1>4
    <3> HIDE DEF Sizes, Bad
    <3> QED
      BY <1>5, <1>6, <2>2, <3>3, <3>4
  <2> QED
    BY <1>7, <2>1, <2>3, LeastFirst
<1> QED
  BY <1>8, <1>9

\* An entry of the roster.
Listed == [NodeID : NodeIDs, AdvertiseURL : URLs]

\* Registry.Roster lists self and the peers once each, in the order of their
\* NodeIDs.
LEMMA RosterListed ==
  ASSUME FleetQueryAssumption, peers \subseteq NodeIDs \ {SelfID}
  PROVE  \E k \in 1 .. Cardinality(NodeIDs) :
           /\ Roster \in [1 .. k -> Listed]
           /\ \A i, j \in 1 .. k : i < j => Roster[i].NodeID < Roster[j].NodeID
<1> DEFINE S == peers \cup {SelfID}
           k == Cardinality(S)
           s == CHOOSE s \in Sorted(S) : TRUE
<1>1. S \subseteq NodeIDs /\ S \in SUBSET Nat /\ SelfID \in S
  BY DEF FleetQueryAssumption
<1>2. IsFiniteSet(S) /\ k <= Cardinality(NodeIDs) /\ k \in Nat /\ Cardinality(NodeIDs) \in Nat
  BY <1>1, FS_Subset, FS_CardinalityType DEF FleetQueryAssumption
<1>3. k # 0
  BY <1>1, <1>2, FS_EmptySet
<1>4. s \in Sorted(S)
  BY <1>1, <1>2, SortedExists
<1>5. Roster = [i \in 1 .. k |-> Member(s[i])]
  BY DEF Roster
<1> HIDE DEF S, k, s
<1>6. /\ s \in [1 .. k -> S]
      /\ \A i, j \in 1 .. k : i < j => s[i] < s[j]
  BY <1>4 DEF Sorted, k
<1>7. \A i \in 1 .. k : Member(s[i]) \in Listed /\ Member(s[i]).NodeID = s[i]
  BY <1>1, <1>6 DEF Member, Listed, FleetQueryAssumption
<1>8. Roster \in [1 .. k -> Listed]
  BY <1>5, <1>7
<1>9. \A i, j \in 1 .. k : i < j => Roster[i].NodeID < Roster[j].NodeID
  BY <1>5, <1>6, <1>7
<1>10. k \in 1 .. Cardinality(NodeIDs)
  BY <1>2, <1>3
<1> QED
  BY <1>8, <1>9, <1>10

-----------------------------------------------------------------------------
(***************************************************************************)
(* The goroutines                                                          *)
(***************************************************************************)

\* A goroutine ends with its answer, which says how its call went; a call that
\* is over without a text was harmed.
Sound(i) ==
  /\ call[i].req = "end" <=> results[i] # None
  /\ results[i] # None => results[i].Field = call[i].Field
  /\ call[i].req \in {"delete", "store", "end"} /\ call[i].Field = "Error" => i \in harmed

QueryInv ==
  /\ TypeOK /\ \A i \in DOMAIN roster : Sound(i)
  /\ phase = "idle" => harmed = {}

\* Nothing was asked yet.
LEMMA QueryInit == ASSUME FleetQueryAssumption, Init PROVE QueryInv
<1>1. PICK up \in SUBSET NodeIDs :
        running = [u \in URLs |-> IF \E n \in up : Home[n] = u
                                  THEN CHOOSE n \in up : Home[n] = u ELSE 0]
  BY DEF Init
<1>2. running \in [URLs -> NodeIDs \cup {0}]
  <2>1. ASSUME NEW u \in URLs, \E n \in up : Home[n] = u
        PROVE  (CHOOSE n \in up : Home[n] = u) \in NodeIDs
    BY <2>1
  <2> QED
    BY <1>1, <2>1
<1>3. /\ peers \subseteq NodeIDs \ {SelfID} /\ changes \in 0 .. MaxChanges
      /\ cancelled \in BOOLEAN /\ phase = "idle"
      /\ roster = << >> /\ results = << >> /\ call = << >> /\ harmed = {}
  <2>1. 0 \in 0 .. MaxChanges
    BY DEF FleetQueryAssumption
  <2> QED
    BY <2>1 DEF Init
<1>4. DOMAIN roster = {}
  BY <1>3
<1>5. roster \in Seq([NodeID : NodeIDs, AdvertiseURL : URLs])
  BY <1>3
<1>6. results \in [{} -> Result \cup {None}] /\ call \in [{} -> Call]
  BY <1>3
<1> QED
  BY <1>2, <1>3, <1>4, <1>5, <1>6 DEF QueryInv, TypeOK

\* An entry of the roster has an address, and its goroutine a call.
LEMMA QueryTyped ==
  ASSUME QueryInv, NEW i \in DOMAIN roster
  PROVE  /\ roster[i] \in Listed /\ Url(i) \in URLs /\ running[Url(i)] \in NodeIDs \cup {0}
         /\ call[i] \in Call /\ results[i] \in Result \cup {None}
<1>1. roster[i] \in Listed
  <2>1. roster \in Seq(Listed)
    BY DEF QueryInv, TypeOK, Listed
  <2> QED
    BY <2>1
<1>2. Url(i) \in URLs
  BY <1>1 DEF Url, Listed
<1> QED
  BY <1>1, <1>2 DEF QueryInv, TypeOK

\* The next exchange of a session starts with a fresh timer.
LEMMA NextRequestTyped ==
  ASSUME FleetQueryAssumption, QueryInv, NEW i \in DOMAIN roster,
         NEW r \in Requests \cup {"store", "end"}
  PROVE  /\ NextRequest(i, r) \in Call /\ NextRequest(i, r).req = r
         /\ NextRequest(i, r).session = call[i].session
         /\ NextRequest(i, r).Field = call[i].Field
<1>1. call[i] \in Call
  BY QueryTyped
<1>2. Timeout \in 0 .. Timeout
  BY DEF FleetQueryAssumption
<1> QED
  BY <1>1, <1>2 DEF NextRequest, Call

\* A goroutine whose call goes on, without an answer yet, keeps the invariant.
LEMMA GoesOn ==
  ASSUME QueryInv, NEW i \in DOMAIN roster, NEW c \in Call,
         phase = "open", call[i].req \in Requests, c.req \in Requests \cup {"store"},
         call' = [call EXCEPT ![i] = c], UNCHANGED <<world, phase, roster, results>>,
         harmed' \in {harmed, harmed \cup {i}},
         c.req \in {"delete", "store"} /\ c.Field = "Error" => i \in harmed'
  PROVE  QueryInv'
<1>1. /\ call \in [DOMAIN roster -> Call] /\ harmed \subseteq DOMAIN roster
  BY DEF QueryInv, TypeOK
<1>2. /\ call' \in [DOMAIN roster -> Call] /\ call'[i] = c
      /\ \A j \in DOMAIN roster : j # i => call'[j] = call[j]
  BY <1>1
<1>3. TypeOK'
  BY <1>1, <1>2 DEF world, QueryInv, TypeOK
<1>4. ASSUME NEW j \in DOMAIN roster PROVE Sound(j)'
  <2>1. roster' = roster /\ results' = results
    OBVIOUS
  <2>2. CASE j = i
    <3>1. results[i] = None
      BY DEF QueryInv, Sound, Requests
    <3>2. c.req # "end"
      BY DEF Requests
    <3> QED
      BY <1>2, <2>1, <2>2, <3>1, <3>2 DEF Sound
  <2>3. CASE j # i
    <3>1. Sound(j)
      BY DEF QueryInv
    <3> QED
      BY <1>2, <2>1, <2>3, <3>1 DEF Sound
  <2> QED
    BY <2>2, <2>3
<1> QED
  BY <1>3, <1>4 DEF QueryInv

\* A request that fails harms the member it was made to, and no other.
LEMMA FailStep ==
  ASSUME FleetQueryAssumption, QueryInv, NEW i \in DOMAIN roster,
         phase = "open", call[i].req \in Requests, call' = FailOne(i), harmed' = harmed \cup {i},
         UNCHANGED <<world, phase, roster, results>>
  PROVE  QueryInv'
<1> DEFINE r == IF call[i].req = "initialize" \/ call[i].req = "delete"
                THEN "store" ELSE "delete"
<1>1. r \in {"store", "delete"} /\ r \in Requests \cup {"store", "end"}
  BY DEF Requests
<1>2. call' = [call EXCEPT ![i] = NextRequest(i, r)]
  BY DEF FailOne
<1> HIDE DEF r
<1>3. NextRequest(i, r) \in Call /\ NextRequest(i, r).req = r
  BY <1>1, NextRequestTyped
<1> QED
  BY <1>1, <1>2, <1>3, GoesOn DEF Requests

\* An answer of the daemon at the member's address moves its own call on.
LEMMA ServedStep ==
  ASSUME FleetQueryAssumption, QueryInv, NEW i \in DOMAIN roster, Served(i)
  PROVE  QueryInv'
<1> DEFINE who == running[Url(i)]
<1>1. /\ phase = "open" /\ call[i].req \in Requests /\ who # 0 /\ harmed' = harmed
      /\ UNCHANGED <<world, phase, roster, results>>
  BY DEF Served
<1>2. who \in NodeIDs
  BY <1>1, QueryTyped
<1>3. CASE /\ call[i].req = "initialize"
           /\ call' = [call EXCEPT ![i] = [NextRequest(i, "tools/call") EXCEPT !.session = who]]
  <2> DEFINE c == [NextRequest(i, "tools/call") EXCEPT !.session = who]
  <2>1. NextRequest(i, "tools/call") \in Call /\ NextRequest(i, "tools/call").req = "tools/call"
    BY NextRequestTyped DEF Requests
  <2>2. c \in Call /\ c.req = "tools/call"
    BY <1>2, <2>1 DEF Call
  <2>3. call' = [call EXCEPT ![i] = c]
    BY <1>3
  <2> HIDE DEF c
  <2> QED
    BY <1>1, <2>2, <2>3, GoesOn DEF Requests
<1>4. CASE /\ call[i].req = "tools/call"
           /\ call' = [call EXCEPT ![i] = [NextRequest(i, "delete") EXCEPT !.Field = "Text"]]
  <2> DEFINE c == [NextRequest(i, "delete") EXCEPT !.Field = "Text"]
  <2>1. NextRequest(i, "delete") \in Call /\ NextRequest(i, "delete").req = "delete"
    BY NextRequestTyped DEF Requests
  <2>2. c \in Call /\ c.req = "delete" /\ c.Field = "Text"
    BY <2>1 DEF Call
  <2>3. call' = [call EXCEPT ![i] = c]
    BY <1>4
  <2> HIDE DEF c
  <2> QED
    BY <1>1, <2>2, <2>3, GoesOn DEF Requests
<1>5. CASE call[i].req = "delete" /\ call' = [call EXCEPT ![i] = NextRequest(i, "store")]
  <2> DEFINE c == NextRequest(i, "store")
  <2>1. c \in Call /\ c.req = "store" /\ c.Field = call[i].Field
    BY NextRequestTyped
  <2>2. call' = [call EXCEPT ![i] = c]
    BY <1>5
  <2>3. c.Field = "Error" => i \in harmed
    BY <1>5, <2>1 DEF QueryInv, Sound
  <2> HIDE DEF c
  <2> QED
    BY <1>1, <2>1, <2>2, <2>3, GoesOn
<1> QED
  BY <1>3, <1>4, <1>5 DEF Served

\* A tool that answers IsError harms its own member.
LEMMA ToolErrorStep ==
  ASSUME FleetQueryAssumption, QueryInv, NEW i \in DOMAIN roster, ToolError(i)
  PROVE  QueryInv'
<1>1. /\ phase = "open" /\ call[i].req \in Requests /\ harmed' = harmed \cup {i}
      /\ call' = [call EXCEPT ![i] = NextRequest(i, "delete")]
      /\ UNCHANGED <<world, phase, roster, results>>
  BY DEF ToolError, Requests
<1>2. NextRequest(i, "delete") \in Call /\ NextRequest(i, "delete").req = "delete"
  BY NextRequestTyped DEF Requests
<1> QED
  BY <1>1, <1>2, GoesOn DEF Requests

\* results[idx] = nr
LEMMA StoreStep ==
  ASSUME FleetQueryAssumption, QueryInv, NEW i \in DOMAIN roster, Store(i)
  PROVE  QueryInv' /\ Promise!Answer(i)
<1> DEFINE a == [NodeID |-> roster[i].NodeID, Self |-> roster[i].NodeID = SelfID,
                 Field |-> call[i].Field]
<1>1. /\ phase = "open" /\ call[i].req = "store" /\ results' = [results EXCEPT ![i] = a]
      /\ call' = [call EXCEPT ![i].req = "end"]
      /\ UNCHANGED <<world, phase, roster, harmed>>
  BY DEF Store, Slot
<1>2. roster[i].NodeID \in NodeIDs /\ call[i].Field \in {"Text", "Error"}
  BY QueryTyped DEF Listed, Call
<1>3. a \in Result /\ a.NodeID = roster[i].NodeID /\ a.Field = call[i].Field
  BY <1>2 DEF Result
<1>4. a # None
  BY <1>2, <1>3 DEF None, FleetQueryAssumption
<1> HIDE DEF a
<1>5. PICK c \in Call : c = [call[i] EXCEPT !.req = "end"] /\ c.req = "end"
                          /\ c.Field = call[i].Field
  <2> DEFINE d == [call[i] EXCEPT !.req = "end"]
  <2>1. call[i] \in Call
    BY QueryTyped
  <2>2. d \in Call /\ d.req = "end" /\ d.Field = call[i].Field
    BY <2>1 DEF Call
  <2> HIDE DEF d
  <2>3. d = [call[i] EXCEPT !.req = "end"]
    BY DEF d
  <2> QED
    BY <2>2, <2>3
<1>6. /\ call' \in [DOMAIN roster -> Call] /\ call'[i] = c
      /\ \A j \in DOMAIN roster : j # i => call'[j] = call[j]
  BY <1>1, <1>5 DEF QueryInv, TypeOK
<1>7. /\ results' \in [DOMAIN roster -> Result \cup {None}] /\ results'[i] = a
      /\ \A j \in DOMAIN roster : j # i => results'[j] = results[j]
  BY <1>1, <1>3 DEF QueryInv, TypeOK
<1>8. TypeOK'
  BY <1>1, <1>6, <1>7 DEF world, QueryInv, TypeOK
<1>9. ASSUME NEW j \in DOMAIN roster PROVE Sound(j)'
  <2>1. Sound(j) /\ harmed' = harmed
    BY <1>1 DEF QueryInv
  <2>2. CASE j = i
    BY <1>1, <1>3, <1>4, <1>5, <1>6, <1>7, <2>1, <2>2 DEF Sound
  <2>3. CASE j # i
    BY <1>6, <1>7, <2>1, <2>3 DEF Sound
  <2> QED
    BY <2>2, <2>3
<1>10. Promise!Answer(i)
  <2>1. results[i] = None
    BY <1>1 DEF QueryInv, Sound
  <2> QED
    BY <1>1, <1>3, <2>1 DEF Promise!Answer
<1> QED
  BY <1>1, <1>8, <1>9, <1>10 DEF QueryInv

\* The registry's list is what the handler asks.
LEMMA AskStep ==
  ASSUME FleetQueryAssumption, QueryInv, Ask
  PROVE  QueryInv' /\ Promise!Ask
<1>1. PICK k \in 1 .. Cardinality(NodeIDs) :
        /\ Roster \in [1 .. k -> Listed]
        /\ \A i, j \in 1 .. k : i < j => Roster[i].NodeID < Roster[j].NodeID
  BY RosterListed DEF QueryInv, TypeOK
<1> DEFINE c == [req |-> "initialize", session |-> 0, left |-> Timeout, Field |-> "Error"]
<1>2. /\ phase = "idle" /\ phase' = "open" /\ roster' = Roster
      /\ results' = [i \in DOMAIN roster' |-> None] /\ call' = [i \in DOMAIN roster' |-> c]
      /\ UNCHANGED <<world, harmed>>
  BY DEF Ask
<1>3. c \in Call /\ c.req = "initialize"
  BY DEF Call, Requests, FleetQueryAssumption
<1> HIDE DEF c
<1>4. roster' \in [1 .. k -> Listed] /\ DOMAIN roster' = 1 .. k
  BY <1>1, <1>2
<1>5. roster' \in Seq(Listed)
  BY <1>4
<1>6. harmed = {}
  BY <1>2 DEF QueryInv
<1>7. TypeOK'
  BY <1>2, <1>3, <1>4, <1>5, <1>6 DEF world, QueryInv, TypeOK, Listed
<1>8. \A i \in DOMAIN roster' : Sound(i)'
  BY <1>2, <1>3 DEF Sound
<1>9. Promise!Ask
  <2>1. /\ roster' \in UNION {[1 .. n -> Listed] : n \in 1 .. Cardinality(NodeIDs)}
        /\ \A i, j \in DOMAIN roster' : i < j => roster'[i].NodeID < roster'[j].NodeID
    BY <1>1, <1>2, <1>4
  <2> QED
    BY <1>2, <2>1 DEF Promise!Ask, Listed
<1> QED
  BY <1>2, <1>7, <1>8, <1>9 DEF QueryInv

\* The steps of the handler that ask nothing, of the clock and of the world.
LEMMA QuietStep ==
  ASSUME QueryInv, UNCHANGED <<roster, results, harmed>>, phase' \in {"idle", "open", "done"},
         phase' = "idle" => phase = "idle",
         peers' \subseteq NodeIDs \ {SelfID}, running' \in [URLs -> NodeIDs \cup {0}],
         changes' \in 0 .. MaxChanges, cancelled' \in BOOLEAN,
         call' \in [DOMAIN roster -> Call],
         \A i \in DOMAIN roster : call'[i].req = call[i].req /\ call'[i].Field = call[i].Field
  PROVE  QueryInv'
<1>1. TypeOK'
  BY DEF QueryInv, TypeOK
<1>2. \A i \in DOMAIN roster' : Sound(i)'
  BY DEF QueryInv, Sound
<1> QED
  BY <1>1, <1>2 DEF QueryInv

\* Time passes for the requests in flight.
LEMMA TickStep ==
  ASSUME FleetQueryAssumption, QueryInv, Tick
  PROVE  QueryInv' /\ UNCHANGED <<phase, roster, results>>
<1>1. /\ UNCHANGED <<world, phase, roster, results, harmed>>
      /\ \A i \in InFlight : call[i].left > 0
      /\ call' = [i \in DOMAIN call |->
                    IF i \in InFlight THEN [call[i] EXCEPT !.left = @ - 1] ELSE call[i]]
  BY DEF Tick
<1>2. DOMAIN call = DOMAIN roster
  BY DEF QueryInv, TypeOK
<1>3. ASSUME NEW i \in DOMAIN roster
      PROVE  call'[i] \in Call /\ call'[i].req = call[i].req /\ call'[i].Field = call[i].Field
  <2>1. call[i] \in Call
    BY QueryTyped
  <2>2. CASE i \in InFlight
    <3>1. call[i].left - 1 \in 0 .. Timeout
      <4>1. call[i].left \in 0 .. Timeout /\ call[i].left > 0
        BY <1>1, <2>1, <2>2 DEF Call
      <4> QED
        BY <4>1 DEF FleetQueryAssumption
    <3>2. call'[i] = [call[i] EXCEPT !.left = call[i].left - 1]
      BY <1>1, <1>2, <2>2
    <3> QED
      BY <2>1, <3>1, <3>2 DEF Call
  <2>3. CASE i \notin InFlight
    BY <1>1, <1>2, <2>1, <2>3
  <2> QED
    BY <2>2, <2>3
<1>4. call' \in [DOMAIN roster -> Call]
  BY <1>1, <1>2, <1>3
<1> QED
  BY <1>1, <1>3, <1>4, QuietStep DEF world, QueryInv, TypeOK

\* A daemon or the registry changes, or the caller gives up.
LEMMA WorldStep ==
  ASSUME FleetQueryAssumption, QueryInv,
         Cancel \/ (\E u \in URLs : Stop(u)) \/ (\E n \in NodeIDs : Start(n) \/ Register(n))
  PROVE  QueryInv' /\ UNCHANGED <<phase, roster, results>>
<1>1. /\ changes < MaxChanges /\ changes' = changes + 1
      /\ UNCHANGED <<phase, roster, results, call, harmed>>
  BY DEF Cancel, Stop, Start, Register, Change
<1>2. changes' \in 0 .. MaxChanges
  BY <1>1 DEF QueryInv, TypeOK, FleetQueryAssumption
<1>3. /\ peers \subseteq NodeIDs \ {SelfID} /\ running \in [URLs -> NodeIDs \cup {0}]
      /\ cancelled \in BOOLEAN /\ call \in [DOMAIN roster -> Call]
      /\ phase \in {"idle", "open", "done"}
  BY DEF QueryInv, TypeOK
<1>4. /\ peers' \subseteq NodeIDs \ {SelfID} /\ running' \in [URLs -> NodeIDs \cup {0}]
      /\ cancelled' \in BOOLEAN
  BY <1>3 DEF Cancel, Stop, Start, Register, Change
<1>5. /\ call' \in [DOMAIN roster -> Call] /\ phase' \in {"idle", "open", "done"}
      /\ phase' = phase /\ call' = call
  BY <1>1, <1>3
<1> QED
  BY <1>1, <1>2, <1>4, <1>5, QuietStep

\* Every step keeps the invariant and is a step of the gathering, or none.
LEMMA QueryStep ==
  ASSUME FleetQueryAssumption, QueryInv, [Next]_vars
  PROVE  QueryInv' /\ [Promise!Next]_<<phase, roster, results>>
<1>1. CASE Ask
  BY <1>1, AskStep DEF Promise!Next
<1>2. CASE Refuse
  <2>1. Promise!Refuse
    BY <1>2 DEF Refuse, Promise!Refuse
  <2>2. QueryInv'
    BY <1>2, QuietStep DEF Refuse, world, QueryInv, TypeOK
  <2> QED
    BY <2>1, <2>2 DEF Promise!Next
<1>3. CASE Conclude
  <2>1. Promise!Conclude
    BY <1>3 DEF Conclude, Promise!Conclude, QueryInv, Sound
  <2>2. QueryInv'
    BY <1>3, QuietStep DEF Conclude, world, QueryInv, TypeOK
  <2> QED
    BY <2>1, <2>2 DEF Promise!Next
<1>4. CASE Tick
  BY <1>4, TickStep
<1>5. ASSUME NEW i \in DOMAIN roster, Served(i)
      PROVE  QueryInv' /\ UNCHANGED <<phase, roster, results>>
  BY <1>5, ServedStep DEF Served
<1>6. ASSUME NEW i \in DOMAIN roster, ToolError(i)
      PROVE  QueryInv' /\ UNCHANGED <<phase, roster, results>>
  BY <1>6, ToolErrorStep DEF ToolError
<1>7. ASSUME NEW i \in DOMAIN roster, Failed(i) \/ TimedOut(i)
      PROVE  QueryInv' /\ UNCHANGED <<phase, roster, results>>
  <2>1. /\ phase = "open" /\ call[i].req \in Requests /\ call' = FailOne(i)
        /\ harmed' = harmed \cup {i} /\ UNCHANGED <<world, phase, roster, results>>
    BY <1>7 DEF Failed, TimedOut
  <2> QED
    BY <2>1, FailStep
<1>8. ASSUME NEW i \in DOMAIN roster, Store(i)
      PROVE  QueryInv' /\ Promise!Next
  BY <1>8, StoreStep DEF Promise!Next
<1>9. CASE Cancel \/ (\E u \in URLs : Stop(u)) \/ (\E n \in NodeIDs : Start(n) \/ Register(n))
  BY <1>9, WorldStep
<1>10. CASE UNCHANGED vars
  <2>1. UNCHANGED <<peers, running, changes, cancelled, phase, roster, results, call, harmed>>
    BY <1>10 DEF vars
  <2> QED
    BY <2>1, QuietStep DEF QueryInv, TypeOK
<1> QED
  BY <1>1, <1>2, <1>3, <1>4, <1>5, <1>6, <1>7, <1>8, <1>9, <1>10 DEF Next, Goroutine

\* Type correctness of a query and of the daemons it goes to.
THEOREM QueryTypeCorrect ==
  ASSUME FleetQueryAssumption
  PROVE  Spec => []TypeOK
<1>1. Init => QueryInv
  BY QueryInit
<1>2. QueryInv /\ [Next]_vars => QueryInv'
  BY QueryStep
<1>3. QueryInv => TypeOK
  BY DEF QueryInv
<1> QED
  BY <1>1, <1>2, <1>3, PTL DEF Spec

\* fleet_query reports a member as an error only if that member failed or the
\* caller gave up: whichever of the others are slow, dead, restarted or new at
\* their address, they do not cost it its answer.
THEOREM NobodyBlamed ==
  ASSUME FleetQueryAssumption
  PROVE  Spec => []OthersUnharmed
<1>1. Init => QueryInv
  BY QueryInit
<1>2. QueryInv /\ [Next]_vars => QueryInv'
  BY QueryStep
<1>3. QueryInv => OthersUnharmed
  BY DEF QueryInv, Sound, OthersUnharmed
<1> QED
  BY <1>1, <1>2, <1>3, PTL DEF Spec

\* The handler and its goroutines implement the gathering: they ask the roster of
\* one moment, each member gets one answer under its own NodeID, no answer is
\* overwritten, and the query ends with all of them.
THEOREM QueryImplementsGather ==
  ASSUME FleetQueryAssumption
  PROVE  Spec => QueryKeepsPromise
<1>1. Init => QueryInv
  BY QueryInit
<1>2. QueryInv /\ [Next]_vars => QueryInv' /\ [Promise!Next]_<<phase, roster, results>>
  BY QueryStep
<1>3. Init => Promise!Init
  BY DEF Init, Promise!Init
<1> QED
  BY <1>1, <1>2, <1>3, PTL DEF Spec, QueryKeepsPromise, Promise!Spec, Promise!vars
=============================================================================
