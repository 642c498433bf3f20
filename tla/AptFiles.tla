------------------------------ MODULE AptFiles ------------------------------
(***************************************************************************)
(* The line parsers of internal/aptdb, readStanzas and parseReleaseFile,   *)
(* checked against what the file formats mean over every file of at most   *)
(* MaxLines lines.                                                         *)
(*                                                                         *)
(* A line is one of                                                        *)
(*   [is |-> "blank"], [is |-> "more"] (it begins with a space),           *)
(*   [is |-> "junk"] (no colon), [is |-> "armor"] ("-----BEGIN PGP ..."),  *)
(*   [is |-> "field", key, val].                                           *)
(* A field's value is followed by the number of lines folded into it.      *)
(***************************************************************************)
EXTENDS Naturals, Sequences, SequencesExt, FiniteSets, FiniteSetsExt, Functions

CONSTANTS Fields,     \* the field lines considered
          MaxLines    \* bound on the length of a file

AptFilesAssumption == MaxLines \in Nat

VARIABLE file         \* the lines of the file read

Line(kind) == [is |-> kind, key |-> "", val |-> ""]

Lines == {Line("blank"), Line("more"), Line("junk"), Line("armor")} \cup Fields

-----------------------------------------------------------------------------
(***************************************************************************)
(* readStanzas                                                             *)
(***************************************************************************)

NoKey == ""

Empty == << >>    \* the stanza without fields

Start == [cur |-> Empty, lastKey |-> NoKey, out |-> << >>]

Emit(st) ==
  IF st.cur = Empty THEN st
  ELSE [cur |-> Empty, lastKey |-> NoKey, out |-> Append(st.out, st.cur)]

\* Seeded fault: a field that comes again does not replace the first.
SetFirst(cur, key, val) == cur @@ (key :> [val |-> val, more |-> 0])

Set(cur, key, val) == (key :> [val |-> val, more |-> 0]) @@ cur

Scan(st, line) ==
  CASE line.is = "blank" -> Emit(st)
    [] line.is = "more"  -> IF st.lastKey = NoKey THEN st
                            ELSE [st EXCEPT !.cur[st.lastKey].more = @ + 1]
    [] line.is = "field" -> [st EXCEPT !.cur = Set(@, line.key, line.val),
                                       !.lastKey = line.key]
    [] OTHER             -> st

readStanzas(lines) == Emit(FoldLeft(Scan, Start, lines)).out

-----------------------------------------------------------------------------
(***************************************************************************)
(* parseReleaseFile                                                        *)
(***************************************************************************)

Unlabelled == [state |-> "first", origin |-> "", suite |-> ""]

\* Seeded fault: whichever of Suite and Codename comes last is taken.
LabelLast(st, line) ==
  CASE line.key = "Origin" -> [st EXCEPT !.origin = line.val]
    [] line.key \in {"Suite", "Codename"} -> [st EXCEPT !.suite = line.val]
    [] OTHER -> st

Label(st, line) ==
  CASE line.key = "Origin" -> [st EXCEPT !.origin = line.val]
    [] line.key = "Suite"  -> [st EXCEPT !.suite = line.val]
    [] line.key = "Codename" /\ st.suite = "" -> [st EXCEPT !.suite = line.val]
    [] OTHER -> st

\* Seeded fault: the lines of the envelope's header are read as fields.
InHeaderReads(st, line) ==
  IF line.is = "blank" THEN [st EXCEPT !.state = "body"] ELSE Label(st, line)

\* Inside the envelope, up to the blank line that ends its header.
InHeader(st, line) ==
  IF line.is = "blank" THEN [st EXCEPT !.state = "body"] ELSE st

\* inEnvelope and pastEnvelopeHeader are "first", "header", "body"; "end" is
\* after the break.  An armor line is the signature's in "body", and it opens
\* the envelope wherever else it comes.
ScanRelease(st, line) ==
  CASE st.state = "end"    -> st
    [] st.state = "header" -> InHeader(st, line)
    [] st.state = "first" /\ line.is = "armor" -> [st EXCEPT !.state = "header"]
    [] line.is = "blank" \/ line.is = "armor"  -> [st EXCEPT !.state = "end"]
    [] line.is = "field" -> Label(st, line)
    [] OTHER -> st

parseReleaseFile(lines) ==
  LET st == FoldLeft(ScanRelease, Unlabelled, lines)
  IN  [origin |-> st.origin, suite |-> st.suite]

-----------------------------------------------------------------------------
Init == file = << >>

\* The next line of the file.
Next == Len(file) < MaxLines /\ \E l \in Lines : file' = Append(file, l)

Spec == Init /\ [][Next]_file

-----------------------------------------------------------------------------
(***************************************************************************)
(* Properties                                                              *)
(***************************************************************************)

\* The last field line of key k among lines a .. b, and what follows it up to
\* the next field line.
LastOf(k, a, b) == Max({i \in a .. b : file[i].is = "field" /\ file[i].key = k})

Folded(i, b) ==
  Cardinality({j \in i + 1 .. b :
    file[j].is = "more" /\ \A m \in i + 1 .. j : file[m].is # "field"})

\* The blocks of lines between blank ones that have a field.
Blocks ==
  {ab \in (1 .. Len(file)) \X (1 .. Len(file)) :
     /\ ab[1] <= ab[2]
     /\ \A i \in ab[1] .. ab[2] : file[i].is # "blank"
     /\ ab[1] = 1 \/ file[ab[1] - 1].is = "blank"
     /\ ab[2] = Len(file) \/ file[ab[2] + 1].is = "blank"
     /\ \E i \in ab[1] .. ab[2] : file[i].is = "field"}

Meaning(a, b) ==
  [k \in {file[i].key : i \in {j \in a .. b : file[j].is = "field"}} |->
     [val |-> file[LastOf(k, a, b)].val, more |-> Folded(LastOf(k, a, b), b)]]

\* The stanzas are the blocks of lines that have a field, in order; a field has
\* its last value with the continuation lines that follow it, and no line of
\* one stanza is folded into another, whatever else the file holds.
StanzasMeant ==
  readStanzas(file) =
    LET bs == SetToSortSeq(Blocks, LAMBDA x, y : x[1] < y[1])
    IN  [n \in 1 .. Len(bs) |-> Meaning(bs[n][1], bs[n][2])]

Envelope(lines) ==
  <<Line("armor"), [is |-> "field", key |-> "Suite", val |-> "envelope"], Line("blank")>>
    \o lines \o <<Line("armor")>>

Plain(lines) == \A i \in 1 .. Len(lines) : lines[i].is # "armor"

\* The label is the same from a Release file and from the InRelease file that
\* wraps it in a signed envelope: no line of the envelope is taken for a field.
EnvelopeTransparent ==
  Plain(file) => parseReleaseFile(Envelope(file)) = parseReleaseFile(file)

Header == {i \in 1 .. Len(file) : \A j \in 1 .. i : file[j].is # "blank"}

ValuesOf(key) == {file[i].val : i \in {j \in Header : file[j].key = key}}

\* Suite is preferred to Codename in either order of the lines, and a file that
\* has one of them is never without a label.
SuitePreferred ==
  Plain(file) =>
    LET suite == parseReleaseFile(file).suite IN
      IF ValuesOf("Suite") # {} THEN suite \in ValuesOf("Suite")
      ELSE IF ValuesOf("Codename") # {} THEN suite \in ValuesOf("Codename")
      ELSE suite = ""
=============================================================================
