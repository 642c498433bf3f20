----------------------------- MODULE DebVersion -----------------------------
(***************************************************************************)
(* CompareVersions (internal/aptdb/version.go) and the order it has to     *)
(* compute.  A version is a sequence of bytes.                             *)
(***************************************************************************)
EXTENDS Integers, Sequences, SequencesExt, FiniteSetsExt

CONSTANTS
  Bytes,    \* the bytes versions are made of
  MaxA,     \* bounds on the lengths of the two versions
  MaxB

DebVersionAssumption ==
  Bytes \subseteq 1 .. 255 /\ MaxA \in Nat /\ MaxB \in Nat

VARIABLES a, b,   \* two versions
          res     \* their comparison: -1, 0, 1; 2 before it is made

vars == <<a, b, res>>

isDigit(c)  == c \in 48 .. 57
isLetter(c) == c \in 97 .. 122 \cup 65 .. 90

Tilde == 126
Colon == 58
Dash  == 45
Plus  == 43

compareInt(x, y) == IF x < y THEN -1 ELSE IF x > y THEN 1 ELSE 0

\* Seeded fault: the tilde is a byte like the others.
weightNoTilde(c) == IF c = 0 THEN 0 ELSE IF isLetter(c) THEN c ELSE c + 256

weight(c) == IF c = 0 THEN 0
             ELSE IF c = Tilde THEN -1
             ELSE IF isLetter(c) THEN c ELSE c + 256

\* The byte at k, zero behind the end.
At(s, k) == IF k <= Len(s) THEN s[k] ELSE 0

Differ(s, t) == {k \in 1 .. Max({Len(s), Len(t)}) : At(s, k) # At(t, k)}

compareNonDigit(s, t) ==
  IF Differ(s, t) = {} THEN 0
  ELSE LET k == Min(Differ(s, t)) IN compareInt(weight(At(s, k)), weight(At(t, k)))

Number(ds) == FoldLeft(LAMBDA n, d : 10 * n + d - 48, 0, ds)

TrimZeros(s) == SubSeq(s, 1 + Max({k \in 0 .. Len(s) : \A i \in 1 .. k : s[i] = 48}),
                       Len(s))

\* Without leading zeros the longer run is the larger number; of two equally
\* long ones the string order decides.
compareDigits(s, t) ==
  LET x == TrimZeros(s)
      y == TrimZeros(t)
      d == Differ(x, y)
  IN IF Len(x) # Len(y) THEN compareInt(Len(x), Len(y))
     ELSE IF d = {} THEN 0 ELSE compareInt(x[Min(d)], y[Min(d)])

\* Length of the longest prefix of digits, or of other bytes.
Run(s, digits) ==
  Max({k \in 0 .. Len(s) : \A i \in 1 .. k : isDigit(s[i]) = digits})

Upto(s, k) == SubSeq(s, 1, k)
From(s, k)  == SubSeq(s, k + 1, Len(s))

RECURSIVE compareUpstream(_, _)
compareUpstream(s, t) ==
  LET i  == Run(s, FALSE)
      j  == Run(t, FALSE)
      s1 == From(s, i)
      t1 == From(t, j)
      m  == Run(s1, TRUE)
      n  == Run(t1, TRUE)
      nd == compareNonDigit(Upto(s, i), Upto(t, j))
      dg == compareDigits(Upto(s1, m), Upto(t1, n))
  IN IF s = << >> /\ t = << >> THEN 0
     ELSE IF nd # 0 THEN nd
     ELSE IF dg # 0 THEN dg
     ELSE compareUpstream(From(s1, m), From(t1, n))

Positions(s, c) == {k \in 1 .. Len(s) : s[k] = c}

\* strconv.Atoi: an optional sign and at least one digit.
IsInt(s) == LET u == IF s # << >> /\ s[1] \in {Plus, Dash} THEN Tail(s) ELSE s
            IN u # << >> /\ \A k \in 1 .. Len(u) : isDigit(u[k])

Atoi(s) == IF s[1] = Dash THEN -Number(Tail(s))
           ELSE IF s[1] = Plus THEN Number(Tail(s)) ELSE Number(s)

\* The epoch ends at the first colon, the revision starts behind the last dash.
split(v) ==
  LET colons == Positions(v, Colon)
      has    == colons # {} /\ IsInt(Upto(v, Min(colons) - 1))
      rest   == IF has THEN From(v, Min(colons)) ELSE v
      dashes == Positions(rest, Dash)
  IN [epoch    |-> IF has THEN Atoi(Upto(v, Min(colons) - 1)) ELSE 0,
      upstream |-> IF dashes = {} THEN rest ELSE Upto(rest, Max(dashes) - 1),
      revision |-> IF dashes = {} THEN << >> ELSE From(rest, Max(dashes))]

CompareVersions(v, w) ==
  LET x == split(v)
      y == split(w)
      e == compareInt(x.epoch, y.epoch)
      u == compareUpstream(x.upstream, y.upstream)
  IN IF e # 0 THEN e ELSE IF u # 0 THEN u
     ELSE compareUpstream(x.revision, y.revision)

-----------------------------------------------------------------------------
Versions(max) == UNION {[1 .. k -> Bytes] : k \in 0 .. max}

Init == a \in Versions(MaxA) /\ b \in Versions(MaxB) /\ res = 2

Compare == /\ res = 2 /\ res' = CompareVersions(a, b)
           /\ UNCHANGED <<a, b>>

Spec == Init /\ [][Compare]_vars

-----------------------------------------------------------------------------
(***************************************************************************)
(* The order of deb-version(7), stated once for whole strings: a part is   *)
(* the list of the ranks of its non-digits, a zero, the number that        *)
(* follows, and so on; lists are ordered lexicographically, a missing      *)
(* element counting as zero.                                               *)
(***************************************************************************)
Rank(c) == IF c = Tilde THEN -1 ELSE IF isLetter(c) THEN c ELSE 1000 + c

Key(s) ==
  LET last == FoldLeft(LAMBDA acc, c :
                IF isDigit(c)
                THEN IF acc.num >= 0 THEN [acc EXCEPT !.num = 10 * @ + c - 48]
                     ELSE [key |-> Append(acc.key, 0), num |-> c - 48]
                ELSE [key |-> (IF acc.num >= 0 THEN Append(acc.key, acc.num)
                               ELSE acc.key) \o <<Rank(c)>>,
                      num |-> -1],
                [key |-> << >>, num |-> -1], s)
  IN IF last.num >= 0 THEN Append(last.key, last.num) ELSE last.key

KeyOrder(k, l) == IF Differ(k, l) = {} THEN 0
                  ELSE LET i == Min(Differ(k, l)) IN compareInt(At(k, i), At(l, i))

Order(v, w) ==
  LET x == split(v)
      y == split(w)
  IN IF x.epoch # y.epoch THEN compareInt(x.epoch, y.epoch)
     ELSE IF KeyOrder(Key(x.upstream), Key(y.upstream)) # 0
     THEN KeyOrder(Key(x.upstream), Key(y.upstream))
     ELSE KeyOrder(Key(x.revision), Key(y.revision))

\* CompareVersions, which alternates between runs of digits and others, is the
\* order of deb-version(7), so it is transitive and a largest candidate exists
\* whatever the order of the indexes: tildes before the end, leading zeros,
\* empty runs and missing revisions included.
SameOrder == res # 2 => res = Order(a, b)
=============================================================================
