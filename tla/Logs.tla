-------------------------------- MODULE Logs --------------------------------
(***************************************************************************)
(* read_journal and read_dmesg of internal/tools/logs.go: the requests     *)
(* that are refused, the arguments made of the others for journalctl and   *)
(* what it answers, and the tail of what dmesg prints.  Both logs grow, a  *)
(* line or an entry at a time, and the host may boot again.                *)
(***************************************************************************)
EXTENDS Integers, Sequences, FiniteSets, FiniteSetsExt

CONSTANTS
  Units, Priorities,  \* units, and priorities as numbers (0 is emerg)
  Times, Patterns,    \* moments, and regular expressions
  Lines,              \* values of the lines argument
  Boots,              \* values of the boot argument
  MaxBack,            \* how many boots one may ask back: 10
  DefaultLines, MaxLines,  \* 200 and 5000 for dmesg, 100 and 5000 for the journal
  MaxChars, MaxEntries,    \* bounds on the logs
  MaxBoots            \* bound on the number of boots

LogsAssumption ==
  /\ Lines \subseteq Int /\ Times \subseteq Int
  /\ Boots \subseteq Int /\ MaxBack \in Nat
  /\ DefaultLines \in 1 .. MaxLines /\ MaxLines \in Nat /\ MaxBoots \in Nat \ {0}

VARIABLES
  dmesg,    \* the text of the ring buffer: characters "c" and newlines "n"
  journal,  \* the entries: unit, priority, time, the patterns they match, boot
  boot      \* the number of this boot

vars == <<dmesg, journal, boot>>

Refused == 0

\* The lines argument of both tools.
LinesOf(n) == IF n <= 0 THEN DefaultLines ELSE IF n > MaxLines THEN Refused ELSE n

Entries == [unit : Units, priority : Priorities, time : Times,
            matches : SUBSET Patterns, boot : 1 .. boot]

TypeOK == /\ dmesg \in Seq({"c", "n"}) /\ boot \in 1 .. MaxBoots
          /\ journal \in Seq(Entries)
          /\ \A n \in Lines : LinesOf(n) \in 0 .. MaxLines

Init == dmesg = << >> /\ journal = << >> /\ boot = 1

\* The kernel prints a line; dmesg terminates every line.
Log == /\ Len(dmesg) < MaxChars
       /\ \E l \in {<<"n">>, <<"c", "n">>, <<"c", "c", "n">>} : dmesg' = dmesg \o l
       /\ UNCHANGED <<journal, boot>>

\* An entry is made, at any time: the clock may be set.
Record == /\ Len(journal) < MaxEntries
          /\ \E e \in Entries : e.boot = boot /\ journal' = Append(journal, e)
          /\ UNCHANGED <<dmesg, boot>>

Reboot == /\ boot < MaxBoots /\ boot' = boot + 1 /\ dmesg' = << >>
          /\ UNCHANGED journal

Next == Log \/ Record \/ Reboot

Spec == Init /\ [][Next]_vars

-----------------------------------------------------------------------------
Newlines(s, i) == Cardinality({j \in i .. Len(s) : s[j] = "n"})

\* Seeded fault: the newline that ends the text is not counted.
CutsEarly(s, n) == {i \in 1 .. Len(s) : s[i] = "n" /\ Newlines(s, i) >= n}

\* Where the walk from the end has met more than n newlines.
Cuts(s, n) == {i \in 1 .. Len(s) : s[i] = "n" /\ Newlines(s, i) > n}

tailLines(s, n) ==
  IF n <= 0 \/ Cuts(s, n) = {} THEN s ELSE SubSeq(s, Max(Cuts(s, n)) + 1, Len(s))

\* An option that is not given is the empty set.
Given(x) == {x}
NotGiven == {}

Options(S) == {NotGiven} \cup {Given(x) : x \in S}

\* wellFormed: the texts of the request are of the kind asked for (unitRE, a
\* priority there is, sinceRE, a regular expression of 200 characters at most).
Requests == [lines : Lines, unit : Options(Units), priority : Options(Priorities),
             since : Options(Times), boot : Boots, match : Options(Patterns),
             wellFormed : BOOLEAN]

\* Seeded fault: a boot in the future is not refused.
RefusesPast(in) ==
  \/ ~in.wellFormed \/ LinesOf(in.lines) = Refused
  \/ in.boot < -MaxBack

Refuses(in) ==
  \/ ~in.wellFormed \/ LinesOf(in.lines) = Refused
  \/ in.boot # 0 /\ (in.boot < -MaxBack \/ in.boot > 0)

\* The command line, or none.  Options that are not given stay out of it, and so
\* does -b 0.
journalArgs(in) ==
  IF Refuses(in) THEN NotGiven
  ELSE Given([n |-> LinesOf(in.lines), unit |-> in.unit, priority |-> in.priority,
              since |-> in.since, match |-> in.match,
              b |-> IF in.boot # 0 THEN Given(in.boot) ELSE NotGiven])

\* journalctl: all boots without -b, priorities up to -p, the last -n entries (the
\* last first with --grep).  What it prints is where those stand in the journal;
\* a boot the journal has not is an error, and no entries either way.
Shown(a, e) ==
  /\ a.unit \subseteq {e.unit} /\ a.match \subseteq e.matches
  /\ \A p \in a.priority : e.priority <= p
  /\ \A t \in a.since : e.time >= t
  /\ \A b \in a.b : e.boot = boot + b

\* Where the last n of the entries in S are.
Latest(S, n) == {i \in S : Cardinality({j \in S : j > i}) < n}

journalctl(a) == Latest({i \in 1 .. Len(journal) : Shown(a, journal[i])}, a.n)

-----------------------------------------------------------------------------
(***************************************************************************)
(* Properties                                                              *)
(***************************************************************************)

\* Where the lines of a text end: at its newlines, and at its own end.
LineEnds(s) == {i \in 1 .. Len(s) : s[i] = "n" \/ i = Len(s)}

\* read_dmesg answers with the last n lines of the text, blank ones among them,
\* and with all of the text when it has no more.  (Of a text whose last line is not
\* terminated tailLines would return n + 1 lines; dmesg prints none, and an output
\* that was cut off is an error of the runner.)
TailExact ==
  \A k \in Lines : LinesOf(k) # Refused =>
    LET n == LinesOf(k)
        t == tailLines(dmesg, n)
        rest == Len(dmesg) - Len(t)
    IN  /\ t = SubSeq(dmesg, rest + 1, Len(dmesg))
        /\ Cardinality(LineEnds(t)) = Min({n, Cardinality(LineEnds(dmesg))})
        /\ rest > 0 => dmesg[rest] = "n"

\* What readJournalIn allows.
Allowed(in) == in.lines <= MaxLines /\ in.boot \in -MaxBack .. 0 /\ in.wellFormed

\* read_journal refuses a request when it is not allowed, and only then.  Any other
\* it answers with entries that meet all of its conditions together, of unit,
\* priority, time, pattern and a boot in the past: with the latest of those, and
\* with all unless there are more than it may answer with.  Boot 0, the default, is
\* no condition: the entries are of every boot, as logs.go:112 makes it, where
\* logs.go:22 says of the current one.
ConditionsMet ==
  \A in \in Requests :
    LET meets(e) == /\ in.unit \in {NotGiven, Given(e.unit)}
                    /\ \A p \in in.priority : e.priority <= p
                    /\ \A t \in in.since : t <= e.time
                    /\ in.match \cap e.matches = in.match
                    /\ in.boot # 0 => e.boot = boot + in.boot
        met == {i \in 1 .. Len(journal) : meets(journal[i])}
    IN  /\ Allowed(in) <=> journalArgs(in) # {}
        /\ \A a \in journalArgs(in) :
             LET got == journalctl(a) IN
               /\ got \subseteq met
               /\ \A i \in got, j \in met \ got : j < i
               /\ Cardinality(got) = Min({LinesOf(in.lines), Cardinality(met)})
=============================================================================
