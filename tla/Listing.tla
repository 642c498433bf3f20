------------------------------- MODULE Listing ------------------------------
(***************************************************************************)
(* The tools that list what the host has: processes, units, timers, unit   *)
(* start-up times, packages, network interfaces, PCI and USB devices,      *)
(* sensors.  Each asks for the names first and reads the attributes of     *)
(* each name after that, while entries come, go and change; then it sorts, *)
(* filters and cuts off.                                                   *)
(*                                                                         *)
(* An entry has an identity (the n-th to bear its name, or the program it  *)
(* runs), a size to sort by and a kind to filter by.                       *)
(***************************************************************************)
EXTENDS Integers, Sequences, FiniteSets

CONSTANTS
  Names,      \* pids, unit names, paths: numbers, in directory order
  Sizes,      \* resident set sizes, start-up times; 0 is none
  Kinds,      \* process states, unit states
  Tools,      \* the tools considered
  Limits,     \* limit and top arguments
  Wants,      \* filter arguments, "" is none
  Default, MaxLimit,  \* of a limit: 500 and 2000 for units
  MaxEvents   \* bound on changes of the host

VARIABLES
  world,    \* what the host has: each name's entry
  ids,      \* identities given out
  stable,   \* names whose entry has been there, unchanged, since the call began
  seen,     \* the entries there were during the call, with their names
  events,   \* changes so far
  tool, arg,  \* the tool and its arguments
  call      \* the call: step, names still to read, rows read, answer

vars == <<world, ids, stable, seen, events, tool, arg, call>>

-----------------------------------------------------------------------------
(***************************************************************************)
(* The tools                                                               *)
(*   gone    what becomes of a name whose entry is gone when it is read:   *)
(*           no row, or a row without attributes; "listed" if the names    *)
(*           come with their attributes                                    *)
(*   torn    what becomes of one that is gone, or another, at the second   *)
(*           read: a row with blanks or of both; "timed" if the size is    *)
(*           made of the two reads and there is no row without both        *)
(*   order   "size" in any order of equals, "stable" in directory order of *)
(*           equals, "name" or as read                                     *)
(*   filter  how the filter compares                                       *)
(*   limit   how the limit is read                                         *)
(***************************************************************************)

list_processes ==
  [gone |-> "skip", torn |-> "row", order |-> "size", filter |-> "text",
   limit |-> "either"]

boot_blame ==
  [gone |-> "skip", torn |-> "timed", order |-> "stable", filter |-> "timed",
   limit |-> "default"]

list_systemd_units ==
  [gone |-> "listed", torn |-> "row", order |-> "name", filter |-> "kind",
   limit |-> "default"]

list_timers ==
  [gone |-> "keep", torn |-> "row", order |-> "name", filter |-> "none",
   limit |-> "none"]

\* list_upgradable_packages and list_installed_packages
list_packages ==
  [gone |-> "listed", torn |-> "row", order |-> "name", filter |-> "kind",
   limit |-> "bounded"]

list_network_interfaces ==
  [gone |-> "keep", torn |-> "row", order |-> "read", filter |-> "none",
   limit |-> "none"]

list_pci_devices ==
  [gone |-> "keep", torn |-> "row", order |-> "read", filter |-> "none",
   limit |-> "none"]

list_usb_devices ==
  [gone |-> "skip", torn |-> "row", order |-> "read", filter |-> "none",
   limit |-> "none"]

list_sensors ==
  [gone |-> "skip", torn |-> "row", order |-> "read", filter |-> "none",
   limit |-> "none"]

AllTools ==
  {list_processes, boot_blame, list_systemd_units, list_timers, list_packages,
   list_network_interfaces, list_pci_devices, list_usb_devices, list_sensors}

Refused == -1
NoLimit == 0

\* effectiveLimit
effectiveLimit(limit, top) ==
  IF limit > 0 /\ top > 0 THEN (IF top < limit THEN top ELSE limit)
  ELSE IF limit > 0 THEN limit ELSE IF top > 0 THEN top ELSE NoLimit

\* boundedLimit
boundedLimit(in) ==
  IF in = 0 THEN Default ELSE IF in < 0 \/ in > MaxLimit THEN Refused ELSE in

\* list_systemd_units and boot_blame
defaultLimit(in) ==
  IF in <= 0 THEN Default ELSE IF in > MaxLimit THEN Refused ELSE in

limit == CASE tool.limit = "either"  -> effectiveLimit(arg.limit, arg.top)
           [] tool.limit = "bounded" -> boundedLimit(arg.limit)
           [] tool.limit = "default" -> defaultLimit(arg.limit)
           [] OTHER -> NoLimit

\* /proc/<pid>/status has "State: S (sleeping)"; the filter is a letter, and
\* the two texts are compared.
stateText(kind) == <<kind, "(name of the state)">>

\* Start-up times of zero are not listed.
Matches(row) ==
  CASE tool.filter = "text"  -> arg.want = "" \/ stateText(row.kind) = <<arg.want>>
    [] tool.filter = "kind"  -> arg.want = "" \/ row.kind = arg.want
    [] tool.filter = "timed" -> row.size > 0
    [] OTHER -> TRUE

ListingAssumption ==
  /\ Names \subseteq Nat /\ Sizes \subseteq Nat /\ Limits \subseteq Int
  /\ Default \in Nat \ {0} /\ MaxLimit \in Nat /\ MaxEvents \in Nat
  /\ IsFiniteSet(Names) /\ Tools \subseteq AllTools

-----------------------------------------------------------------------------
None == [id |-> 0, size |-> 0, kind |-> ""]

Row(n, e) == [name |-> n, id |-> e.id, size |-> e.size, kind |-> e.kind]

Present == {n \in Names : world[n] # None}

Entries == {None} \cup [id : 1 .. ids, size : Sizes, kind : Kinds]

TheRows == [name : Names, id : 0 .. ids, size : Sizes \cup {0}, kind : Kinds \cup {""}]

TypeOK ==
  /\ world \in [Names -> Entries] /\ ids \in Nat /\ events \in 0 .. MaxEvents
  /\ stable \subseteq Present /\ seen \subseteq Names \X (1 .. ids)
  /\ tool \in Tools /\ arg \in [limit : Limits, top : Limits \cup {0}, want : Wants \cup {""}]
  /\ call \in [pc : {"idle", "reading", "done", "refused"}, todo : SUBSET Names,
              first : Entries, half : BOOLEAN, rows : SUBSET TheRows, answer : Seq(TheRows)]
  /\ \A r, q \in call.rows : r.name = q.name => r = q

Init ==
  /\ \E there \in SUBSET Names :
       \E s \in [there -> Sizes], k \in [there -> Kinds] :
         world = [n \in Names |-> IF n \in there
                    THEN [id |-> 1, size |-> s[n], kind |-> k[n]] ELSE None]
  /\ ids = 1
  /\ stable = {} /\ seen = {} /\ events = 0
  /\ tool \in Tools
  /\ arg \in [limit : Limits, top : IF tool.limit = "either" THEN Limits ELSE {0},
              want : IF tool.filter \in {"text", "kind"} THEN Wants ELSE {""}]
  /\ call = [pc |-> "idle", todo |-> {}, first |-> None, half |-> FALSE,
             rows |-> {}, answer |-> << >>]

\* Something happens to an entry: it goes, a new one takes the name, or it
\* changes (a process runs another program, a unit starts again).
Change(n, e) ==
  /\ events < MaxEvents /\ call.pc = "reading"
  /\ events' = events + 1
  /\ world' = [world EXCEPT ![n] = e]
  /\ stable' = stable \ {n}
  /\ seen' = IF e = None THEN seen ELSE seen \cup {<<n, e.id>>}
  /\ UNCHANGED <<tool, arg, call>>

Vanish(n) == world[n] # None /\ Change(n, None) /\ UNCHANGED ids

Appear(n) ==
  /\ ids' = ids + 1
  /\ \E s \in Sizes, k \in Kinds : Change(n, [id |-> ids', size |-> s, kind |-> k])

-----------------------------------------------------------------------------
(***************************************************************************)
(* The call                                                                *)
(***************************************************************************)

host == <<world, ids, events, tool, arg>>

\* The names are read in directory order.
next == CHOOSE n \in call.todo : \A m \in call.todo : n <= m

\* The arguments are checked, and the names are read.
Begin ==
  /\ call.pc = "idle"
  /\ stable' = Present
  /\ seen' = {<<n, world[n].id>> : n \in Present}
  /\ call' = IF limit = Refused THEN [call EXCEPT !.pc = "refused"]
             ELSE IF tool.gone = "listed"
             THEN [call EXCEPT !.pc = "reading", !.rows = {Row(n, world[n]) : n \in Present}]
             ELSE [call EXCEPT !.pc = "reading", !.todo = Present]
  /\ UNCHANGED host

\* Seeded fault: a name that is gone ends the listing.
PassOverEnds == [call EXCEPT !.todo = {}]

\* Seeded fault: the error is ignored.
PassOverKeeps == [call EXCEPT !.first = None, !.half = TRUE]

\* A name whose first read fails, in a tool that leaves it out.
PassOver == [call EXCEPT !.todo = @ \ {next}]

\* The first attributes of the next name: /proc/<pid>/status, TimerProperties,
\* UnitTimings, idVendor ...
ReadFirst ==
  /\ call.pc = "reading" /\ call.todo # {} /\ ~call.half
  /\ LET e == world[next] IN
     call' = IF e = None /\ tool.gone = "skip" THEN PassOver
             ELSE [call EXCEPT !.first = e, !.half = TRUE]
  /\ UNCHANGED <<host, stable, seen>>

\* The rows that the second read makes of a name: one or, without both times of
\* a unit, none.  Times of two activations give any start-up time.
Rows(n) ==
  LET e == world[n]
      row == Row(n, call.first)
  IN  IF tool.torn = "row" THEN {{row}}
      ELSE IF e = None THEN {{}}
      ELSE {{[row EXCEPT !.size = s]} : s \in IF e = call.first THEN {e.size} ELSE Sizes}

\* The others: /proc/<pid>/cmdline, TriggersUnit, idProduct ...  Without them
\* the row has blanks.
ReadSecond ==
  /\ call.pc = "reading" /\ call.half
  /\ \E rows \in Rows(next) :
       call' = [call EXCEPT !.rows = @ \cup rows, !.todo = @ \ {next},
                            !.first = None, !.half = FALSE]
  /\ UNCHANGED <<host, stable, seen>>

\* Row a must come before row b.
Before(a, b) ==
  CASE tool.order = "size"   -> a.size > b.size
    [] tool.order = "stable" -> a.size > b.size \/ (a.size = b.size /\ a.name < b.name)
    [] OTHER -> a.name < b.name

Sorted(rows) ==
  {s \in [1 .. Cardinality(rows) -> rows] :
     \A i, j \in DOMAIN s : i < j => s[i] # s[j] /\ ~Before(s[j], s[i])}

Cut(rows) == IF limit > 0 /\ Len(rows) > limit THEN SubSeq(rows, 1, limit) ELSE rows

\* Some tools sort first and some filter first, which is the same; all cut last.
Answers(rows) == {Cut(s) : s \in Sorted({r \in rows : Matches(r)})}

Finish ==
  /\ call.pc = "reading" /\ call.todo = {}
  /\ \E rows \in Answers(call.rows) :
       call' = [call EXCEPT !.pc = "done", !.answer = rows]
  /\ UNCHANGED <<host, stable, seen>>

-----------------------------------------------------------------------------
Next == Begin \/ ReadFirst \/ ReadSecond \/ Finish
          \/ \E n \in Names : Vanish(n) \/ Appear(n)

Spec == Init /\ [][Next]_vars

-----------------------------------------------------------------------------
(***************************************************************************)
(* Properties                                                              *)
(***************************************************************************)

Done == call.pc = "done"

Listed == {call.answer[i].name : i \in 1 .. Len(call.answer)}

\* What the documentation of a filter asks for.
Asked(n) ==
  CASE tool.filter \in {"text", "kind"} -> arg.want = "" \/ world[n].kind = arg.want
    [] tool.filter = "timed" -> world[n].size > 0
    [] OTHER -> TRUE

\* It is listed; or the list is full, of rows none of which it should come before.
Kept(n) ==
  \/ n \in Listed
  \/ /\ limit > 0 /\ Len(call.answer) = limit
     /\ \A i \in 1 .. Len(call.answer) : ~Before(Row(n, world[n]), call.answer[i])

\* What was there, unchanged, throughout the call and is asked for is kept, whatever
\* else came and went; except that list_processes, asked for a state, finds nothing.
StableListed ==
  Done => \A n \in stable :
    Asked(n) /\ ~(tool.filter = "text" /\ arg.want # "") => Kept(n)

\* The exception, as process.go:22 documents it: "keep only processes in this /proc
\* state".  process.go:80 compares the letter with the whole text of the state.
StateKept ==
  Done /\ tool.filter = "text" => \A n \in stable : Asked(n) => Kept(n)

\* Nothing is listed that was not there at some moment of the call under that
\* name; only the tools that keep rows of what is gone have blank ones, and
\* only when something went.
NothingInvented ==
  Done => \A i \in 1 .. Len(call.answer) :
    LET row == call.answer[i] IN
      \/ <<row.name, row.id>> \in seen /\ (tool.filter # "none" => Matches(row))
      \/ row.id = 0 /\ tool.gone = "keep" /\ row.name \notin stable
=============================================================================
