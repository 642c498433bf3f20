----------------------------- MODULE ToolProofs -----------------------------
(***************************************************************************)
(* Theorems about the tools that answer from a host which changes under    *)
(* them: apt_update_status (Apt), for any packages, pockets, directory     *)
(* orders and any number of changes, boot_critical_chain and boot_time     *)
(* (Boot), for any units, any After= and any boot, the tools that list     *)
(* what the host has (Listing), for any entries, limits and filters, and   *)
(* read_dmesg and read_journal (Logs), for logs of any length.             *)
(***************************************************************************)
EXTENDS Integers, Sequences, FiniteSets, FiniteSetTheorems, SequenceTheorems,
        WellFoundedInduction, NaturalsInduction, TLAPS

CONSTANTS
  Pockets, Orders, Versions, Archs, Kinds, MaxEvents,                \* Apt
  Units, Target, Graphs, BootEnd, Phases, MaxDepth, MaxChanges,      \* Boot
  Names, Sizes, RowKinds, Tools, Limits, Wants, Default, MaxLimit,
  ListEvents,                                                        \* Listing
  LogUnits, Priorities, Times, Patterns, Lines, Boots, DefaultLines,
  MaxLines, MaxChars, MaxEntries, MaxBoots, MaxBack                  \* Logs

VARIABLES
  order, status, index, release, reboot, stamp, events, saw, call,
  after, unit, bt, unitChanges, quiet, walk,
  world, ids, stable, seen, listEvents, tool, arg, listCall,
  dmesg, journal, boot

Apt  == INSTANCE Apt
Boot == INSTANCE Boot WITH changes <- unitChanges
List == INSTANCE Listing WITH
  Kinds <- RowKinds, MaxEvents <- ListEvents, events <- listEvents, call <- listCall
Logs == INSTANCE Logs WITH Units <- LogUnits

-----------------------------------------------------------------------------
(***************************************************************************)
(* apt_update_status                                                       *)
(***************************************************************************)

Ranks  == Versions \cup {0}
Arch   == {"own", "all", "foreign"}
Suites == Pockets \cup {Apt!Unknown}

\* The types of the host's files and of the call's data.
AptTyped ==
  /\ order \in Seq(Pockets) /\ \A p \in Pockets : \E i \in DOMAIN order : order[i] = p
  /\ status \in [version : Versions, state : Apt!States]
  /\ index \in [Pockets -> [version : Ranks, arch : Arch]]
  /\ release \in [Pockets -> SUBSET {"InRelease", "Release"}]
  /\ reboot \in BOOLEAN /\ stamp \in Nat /\ events \in 0 .. MaxEvents
  /\ saw \in [pending : BOOLEAN, always : BOOLEAN, security : BOOLEAN, upToDate : BOOLEAN]
  /\ call \in [pc : Apt!Steps, version : Ranks, files : SUBSET Pockets,
               releases : SUBSET Pockets, suite : [Pockets -> Suites],
               cands : Seq([version : Ranks, arch : Arch, suite : Suites]),
               answer : [pending : BOOLEAN, candidate : Ranks, security : BOOLEAN,
                         reboot : BOOLEAN, last : Nat]]
  /\ call.answer.security => call.answer.pending
  /\ call.answer.pending => call.answer.candidate \in Versions

\* Versions are ranks, and 0 is none.
LEMMA RanksNat ==
  ASSUME Apt!AptAssumption
  PROVE  /\ Ranks \subseteq Nat /\ Versions \subseteq Ranks
         /\ \A v \in Ranks : v # 0 => v \in Versions
         /\ \A v \in Versions : v > 0
<1>1. Versions \subseteq Nat \ {0}
  BY DEF Apt!AptAssumption
<1> QED
  BY <1>1 DEF Ranks

\* Every set of numbers has a least one.
LEMMA LeastNat ==
  ASSUME NEW S \in SUBSET Nat, S # {}
  PROVE  \E n \in S : \A m \in S : n <= m
<1>1. PICK n \in S : \A m \in S : ~(<<m, n>> \in OpToRel(<, Nat))
  BY NatLessThanWellFounded, WFMin
<1>2. \A m \in S : ~(m < n)
  BY <1>1 DEF OpToRel
<1> QED
  BY <1>2

\* The directory lists every pocket, so a set of them has a first one.
LEMMA FirstListed ==
  ASSUME AptTyped, NEW S \in SUBSET Pockets, S # {}
  PROVE  Apt!First(S) \in S
<1> DEFINE At == {i \in DOMAIN order : order[i] \in S}
<1>1. At \in SUBSET Nat /\ At # {}
  BY DEF AptTyped
<1>2. PICK i \in At : \A j \in At : i <= j
  BY <1>1, LeastNat
<1>3. i \in DOMAIN order /\ order[i] \in S /\ \A j \in 1 .. i - 1 : order[j] \notin S
  BY <1>2 DEF AptTyped
<1> QED
  BY <1>3 DEF Apt!First

\* What is said of one candidate in the loop of UpgradablePackages.
LEMMA ChooseTyped ==
  ASSUME NEW best \in [pending : BOOLEAN, candidate : Ranks, security : BOOLEAN,
                       reboot : BOOLEAN, last : Nat],
         NEW c \in [version : Ranks, arch : Arch, suite : Suites],
         AptTyped, Apt!AptAssumption,
         best.security => best.pending, best.pending => best.candidate \in Versions
  PROVE  LET b == Apt!Choose(best, c) IN
           /\ b \in [pending : BOOLEAN, candidate : Ranks, security : BOOLEAN,
                     reboot : BOOLEAN, last : Nat]
           /\ b.security => b.pending
           /\ b.pending => b.candidate \in Versions
           /\ b.reboot = best.reboot
<1>1. CASE ~Apt!Eligible(c) \/ ~Apt!Better(c, best)
  BY <1>1 DEF Apt!Choose
<1>2. CASE Apt!Eligible(c) /\ Apt!Better(c, best)
  <2>1. Versions \subseteq Nat /\ call.version \in Ranks /\ c.version \in Ranks
    BY DEF AptTyped, Apt!AptAssumption
  <2>2. c.version > call.version
    BY <1>2 DEF Apt!Eligible
  <2>4. c.version \in Versions
    <3>1. call.version \in Nat /\ c.version \in Nat
      BY <2>1, RanksNat
    <3>2. c.version # 0
      BY <2>2, <3>1
    <3> QED
      BY <2>1, <3>2, RanksNat
  <2>3. (c.suite = "security") \in BOOLEAN
    OBVIOUS
  <2> QED
    BY <1>2, <2>4, <2>3 DEF Apt!Choose, Ranks
<1> QED
  BY <1>1, <1>2

\* The host starts with its package installed and the call not made.
LEMMA AptTypedInit == ASSUME Apt!AptAssumption, Apt!Init PROVE AptTyped
<1>1. order \in Seq(Pockets) /\ \A p \in Pockets : \E i \in DOMAIN order : order[i] = p
  BY DEF Apt!AptAssumption, Apt!Init
<1>2. index \in [Pockets -> [version : Ranks, arch : Arch]]
  BY DEF Apt!AptAssumption, Apt!Init, Ranks, Arch
<1>3. release \in [Pockets -> SUBSET {"InRelease", "Release"}]
  BY DEF Apt!Init
<1>4. call.suite \in [Pockets -> Suites]
  BY DEF Apt!Init, Suites
<1>5. call.cands \in Seq([version : Ranks, arch : Arch, suite : Suites])
  BY DEF Apt!Init
<1>6. status \in [version : Versions, state : Apt!States]
  BY DEF Apt!Init, Apt!States
<1>7. /\ reboot \in BOOLEAN /\ stamp \in Nat
      /\ saw \in [pending : BOOLEAN, always : BOOLEAN, security : BOOLEAN, upToDate : BOOLEAN]
  BY DEF Apt!Init
<1>11. events \in 0 .. MaxEvents
  <2>1. events = 0 /\ MaxEvents \in Nat
    BY DEF Apt!AptAssumption, Apt!Init
  <2> QED
    BY <2>1
<1>8. /\ call.answer = Apt!Answer
      /\ call.answer \in [pending : BOOLEAN, candidate : Ranks, security : BOOLEAN,
                          reboot : BOOLEAN, last : Nat]
  BY DEF Apt!Init, Apt!Answer, Ranks
<1>9. /\ call = [pc |-> "idle", version |-> 0, files |-> {}, releases |-> {},
                 suite |-> call.suite, cands |-> call.cands, answer |-> call.answer]
  BY DEF Apt!Init
<1>10. call \in [pc : Apt!Steps, version : Ranks, files : SUBSET Pockets,
               releases : SUBSET Pockets, suite : [Pockets -> Suites],
               cands : Seq([version : Ranks, arch : Arch, suite : Suites]),
               answer : [pending : BOOLEAN, candidate : Ranks, security : BOOLEAN,
                         reboot : BOOLEAN, last : Nat]]
  BY <1>4, <1>5, <1>8, <1>9 DEF Apt!Steps, Ranks
<1> QED
  BY <1>1, <1>2, <1>3, <1>6, <1>7, <1>8, <1>10, <1>11 DEF AptTyped, Apt!Answer

\* A newer index has the version of a package.
LEMMA NewerVersion ==
  ASSUME Apt!AptAssumption, AptTyped, NEW p \in Pockets, Apt!Newer(p)
  PROVE  index[p].version \in Versions
<1>1. status.version \in Ranks /\ index[p].version \in Ranks
  BY RanksNat DEF AptTyped
<1>2. index[p].version > status.version
  BY DEF Apt!Newer
<1>3. index[p].version \in Nat /\ status.version \in Nat
  BY <1>1, RanksNat
<1>4. index[p].version # 0
  BY <1>2, <1>3
<1> QED
  BY <1>1, <1>4, RanksNat

\* What apt and dpkg write has its type.
LEMMA AptTypedEvent ==
  ASSUME Apt!AptAssumption, AptTyped,
         Apt!Upgrade \/ Apt!Unpack \/ \E p \in Pockets :
           Apt!Update(p) \/ Apt!DropIndex(p) \/ Apt!DropRelease(p)
  PROVE  AptTyped'
<1>1. /\ UNCHANGED <<order, call>> /\ events < MaxEvents /\ events' = events + 1
      /\ Apt!Observe
  BY DEF Apt!Upgrade, Apt!Unpack, Apt!Update, Apt!DropIndex, Apt!DropRelease, Apt!Event
<1>2. saw' \in [pending : BOOLEAN, always : BOOLEAN, security : BOOLEAN, upToDate : BOOLEAN]
  <2>1. /\ Apt!PendingNow' \in BOOLEAN /\ Apt!SecurityNow' \in BOOLEAN
        /\ Apt!UpToDateNow' \in BOOLEAN
    BY DEF Apt!PendingNow, Apt!SecurityNow, Apt!UpToDateNow
  <2>2. /\ (saw.pending \/ Apt!PendingNow') \in BOOLEAN
        /\ (saw.always /\ Apt!PendingNow') \in BOOLEAN
        /\ (saw.security /\ Apt!SecurityNow') \in BOOLEAN
        /\ (saw.upToDate \/ Apt!UpToDateNow') \in BOOLEAN
    BY <2>1
  <2> QED
    BY <1>1, <2>2 DEF Apt!Observe
<1>3. events' \in 0 .. MaxEvents
  BY <1>1 DEF AptTyped, Apt!AptAssumption
<1>4. status' \in [version : Versions, state : Apt!States]
  <2> USE DEF AptTyped
  <2>1. CASE Apt!Upgrade
    BY <2>1, NewerVersion DEF Apt!Upgrade
  <2>2. CASE Apt!Unpack
    <3>1. CASE \E s \in Apt!States : status' = [status EXCEPT !.state = s]
      BY <3>1
    <3>2. ASSUME NEW p \in Pockets, Apt!Newer(p),
                 status' = [version |-> index[p].version, state |-> "unpacked"]
          PROVE  status' \in [version : Versions, state : Apt!States]
      BY <3>2, NewerVersion DEF Apt!States
    <3> QED
      BY <2>2, <3>1, <3>2 DEF Apt!Unpack, Apt!States
  <2> QED
    BY <2>1, <2>2 DEF Apt!Update, Apt!DropIndex, Apt!DropRelease
<1>5. index' \in [Pockets -> [version : Ranks, arch : Arch]]
  <2>1. index \in [Pockets -> [version : Ranks, arch : Arch]]
    BY DEF AptTyped
  <2>2. ASSUME NEW p \in Pockets, Apt!Update(p)
        PROVE  index' \in [Pockets -> [version : Ranks, arch : Arch]]
    BY <2>1, <2>2 DEF Apt!Update, Ranks
  <2>3. ASSUME NEW p \in Pockets, Apt!DropIndex(p)
        PROVE  index' \in [Pockets -> [version : Ranks, arch : Arch]]
    BY <2>1, <2>3 DEF Apt!DropIndex, Apt!Gone, Ranks, Arch
  <2> QED
    BY <2>1, <2>2, <2>3 DEF Apt!Upgrade, Apt!Unpack, Apt!DropRelease
<1>6. release' \in [Pockets -> SUBSET {"InRelease", "Release"}]
  <2>1. release \in [Pockets -> SUBSET {"InRelease", "Release"}]
    BY DEF AptTyped
  <2>2. ASSUME NEW p \in Pockets, Apt!DropRelease(p)
        PROVE  release' \in [Pockets -> SUBSET {"InRelease", "Release"}]
    BY <2>1, <2>2 DEF Apt!DropRelease
  <2> QED
    BY <2>1, <2>2 DEF Apt!Update, Apt!DropIndex, Apt!Upgrade, Apt!Unpack
<1>7. reboot' \in BOOLEAN /\ stamp' \in Nat
  <2>1. reboot \in BOOLEAN /\ stamp \in Nat
    BY DEF AptTyped
  <2>2. reboot' \in {reboot, TRUE}
    BY DEF Apt!Update, Apt!DropIndex, Apt!Upgrade, Apt!Unpack, Apt!DropRelease
  <2>3. stamp' \in {stamp, stamp + 1}
    BY DEF Apt!Update, Apt!DropIndex, Apt!Upgrade, Apt!Unpack, Apt!DropRelease
  <2>4. reboot' \in BOOLEAN
    BY <2>1, <2>2, Zenon
  <2>5. stamp' \in Nat
    BY <2>1, <2>3
  <2> QED
    BY <2>4, <2>5
<1> QED
  BY <1>1, <1>2, <1>3, <1>4, <1>5, <1>6, <1>7 DEF AptTyped

\* So has what the call makes of what it reads.
LEMMA AptTypedTool ==
  ASSUME Apt!AptAssumption, AptTyped, Apt!Tool
  PROVE  AptTyped'
<1> DEFINE CandT   == [version : Ranks, arch : Arch, suite : Suites]
           AnswerT == [pending : BOOLEAN, candidate : Ranks, security : BOOLEAN,
                       reboot : BOOLEAN, last : Nat]
           CallT   == [pc : Apt!Steps, version : Ranks, files : SUBSET Pockets,
                       releases : SUBSET Pockets, suite : [Pockets -> Suites],
                       cands : Seq(CandT), answer : AnswerT]
<1>1. call \in CallT
  BY DEF AptTyped
<1>2. /\ status \in [version : Versions, state : Apt!States]
      /\ index \in [Pockets -> [version : Ranks, arch : Arch]]
      /\ reboot \in BOOLEAN /\ stamp \in Nat
      /\ call.answer.security => call.answer.pending
      /\ call.answer.pending => call.answer.candidate \in Versions
  BY DEF AptTyped
<1>3. UNCHANGED <<order, status, index, release, reboot, stamp, events>>
  BY DEF Apt!Tool, Apt!Start, Apt!ReadStatus, Apt!ReadDir, Apt!LoadRelease,
         Apt!ParsePackagesIndex, Apt!Join, Apt!ReadReboot, Apt!ReadStamp, Apt!Go, Apt!disk
<1>4. saw' \in [pending : BOOLEAN, always : BOOLEAN, security : BOOLEAN, upToDate : BOOLEAN]
  <2>1. /\ Apt!PendingNow \in BOOLEAN /\ Apt!SecurityNow \in BOOLEAN
        /\ Apt!UpToDateNow \in BOOLEAN
    BY DEF Apt!PendingNow, Apt!SecurityNow, Apt!UpToDateNow
  <2>2. CASE Apt!Start
    BY <2>1, <2>2 DEF Apt!Start
  <2>3. CASE UNCHANGED saw
    BY <2>3 DEF AptTyped
  <2> QED
    BY <2>2, <2>3 DEF Apt!Tool, Apt!ReadStatus, Apt!ReadDir, Apt!LoadRelease,
         Apt!ParsePackagesIndex, Apt!Join, Apt!ReadReboot, Apt!ReadStamp
<1> DEFINE Good(c) == /\ c \in CallT
                      /\ c.answer.security => c.answer.pending
                      /\ c.answer.pending => c.answer.candidate \in Versions
<1>5. Good(call')
  <2>1. CASE Apt!Start
    BY <1>1, <1>2, <2>1 DEF Apt!Start, Apt!Go, Apt!Then, Apt!Steps
  <2>2. CASE Apt!ReadStatus
    BY <1>1, <1>2, <2>2 DEF Apt!ReadStatus, Apt!Go, Apt!Steps, Ranks
  <2>3. CASE Apt!ReadDir
    BY <1>1, <1>2, <2>3 DEF Apt!ReadDir, Apt!Go, Apt!Steps
  <2>4. CASE Apt!LoadRelease
    <3>1. CASE call.releases = {}
      BY <1>1, <1>2, <2>4, <3>1 DEF Apt!LoadRelease, Apt!Go, Apt!Steps
    <3>2. CASE call.releases # {}
      <4> DEFINE p == Apt!First(call.releases)
      <4>1. p \in Pockets
        BY <1>1, <3>2, FirstListed
      <4> HIDE DEF p
      <4>2. PICK s \in Suites : call' = [call EXCEPT !.releases = @ \ {p}, !.suite[p] = s]
        BY <2>4, <3>2, <4>1 DEF Apt!LoadRelease, Apt!Go, Suites, p
      <4> QED
        BY <1>1, <1>2, <4>1, <4>2
    <3> QED
      BY <3>1, <3>2
  <2>5. CASE Apt!ParsePackagesIndex
    <3>1. CASE call.files = {}
      BY <1>1, <1>2, <2>5, <3>1 DEF Apt!ParsePackagesIndex, Apt!Go, Apt!Steps
    <3>2. CASE call.files # {}
      <4> DEFINE p == Apt!First(call.files)
                 c == [version |-> index[p].version, arch |-> index[p].arch,
                       suite |-> call.suite[p]]
      <4>1. p \in Pockets
        BY <1>1, <3>2, FirstListed
      <4>2. c \in CandT
        BY <1>1, <1>2, <4>1
      <4>3. \/ call' = [call EXCEPT !.pc = "error"]
            \/ call' = [call EXCEPT !.files = @ \ {p}, !.cands = Append(@, c)]
        BY <2>5, <3>2 DEF Apt!ParsePackagesIndex, Apt!Go, Apt!lookupRelease
      <4> HIDE DEF p, c, CandT, AnswerT
      <4>4. Append(call.cands, c) \in Seq(CandT)
        BY <1>1, <4>2
      <4>5. CASE call' = [call EXCEPT !.pc = "error"]
        BY <1>1, <1>2, <4>5 DEF Apt!Steps
      <4>6. CASE call' = [call EXCEPT !.files = @ \ {p}, !.cands = Append(@, c)]
        BY <1>1, <1>2, <4>4, <4>6
      <4> QED
        BY <4>3, <4>5, <4>6
    <3> QED
      BY <3>1, <3>2
  <2>6. CASE Apt!Join
    <3>1. CASE call.version = 0 \/ call.cands = << >>
      <4>1. call' = [call EXCEPT !.pc = "reboot", !.cands = << >>]
        BY <2>6, <3>1 DEF Apt!Join, Apt!Go, Apt!Then
      <4> HIDE DEF CandT, AnswerT
      <4>2. << >> \in Seq(CandT)
        OBVIOUS
      <4> QED
        BY <1>1, <1>2, <4>1, <4>2 DEF Apt!Steps
    <3>2. CASE call.version # 0 /\ call.cands # << >>
      <4> DEFINE c == Head(call.cands)
                 b == Apt!Choose(call.answer, c)
      <4>1. c \in CandT /\ Tail(call.cands) \in Seq(CandT)
        <5> HIDE DEF CandT, AnswerT
        <5>1. call.cands \in Seq(CandT)
          BY <1>1
        <5> QED
          BY <3>2, <5>1
      <4>2. b \in AnswerT /\ (b.security => b.pending) /\ (b.pending => b.candidate \in Versions)
        BY <1>1, <1>2, <4>1, ChooseTyped
      <4>3. call' = [call EXCEPT !.answer = b, !.cands = Tail(@)]
        BY <2>6, <3>2 DEF Apt!Join, Apt!Go
      <4> HIDE DEF c, b, CandT, AnswerT
      <4> QED
        BY <1>1, <4>1, <4>2, <4>3
    <3> QED
      BY <3>1, <3>2
  <2>7. CASE Apt!ReadReboot
    BY <1>1, <1>2, <2>7 DEF Apt!ReadReboot, Apt!Go, Apt!Then, Apt!Steps
  <2>8. CASE Apt!ReadStamp
    BY <1>1, <1>2, <2>8 DEF Apt!ReadStamp, Apt!Go, Apt!Then, Apt!Steps
  <2> QED
    BY <2>1, <2>2, <2>3, <2>4, <2>5, <2>6, <2>7, <2>8 DEF Apt!Tool
<1>6. /\ order \in Seq(Pockets) /\ \A p \in Pockets : \E i \in DOMAIN order : order[i] = p
      /\ release \in [Pockets -> SUBSET {"InRelease", "Release"}]
      /\ events \in 0 .. MaxEvents
  BY DEF AptTyped
<1> QED
  BY <1>2, <1>3, <1>4, <1>5, <1>6 DEF AptTyped

\* Every step keeps the types.
LEMMA AptTypedStep ==
  ASSUME Apt!AptAssumption, AptTyped, [Apt!Next]_Apt!vars
  PROVE  AptTyped'
<1>1. CASE UNCHANGED Apt!vars
  BY <1>1 DEF AptTyped, Apt!vars
<1> QED
  BY <1>1, AptTypedEvent, AptTypedTool DEF Apt!Next

\* The status has been read; so has the directory.
Begun  == call.pc \notin {"idle", "status"}
Listed == call.pc \in {"releases", "indexes", "join", "reboot", "stamp", "done"}

\* A candidate that was read and not yet looked at is an update.
Awaiting == \E i \in DOMAIN call.cands : Apt!Eligible(call.cands[i])

\* An update is on its way to the answer: it is there, was read, or will be, if
\* its index does not fail the call.
Coming ==
  \/ call.answer.pending \/ Awaiting
  \/ \E p \in call.files : p # "backports" /\
       (index[p] = Apt!Gone \/ (index[p].arch # "foreign" /\ index[p].version > call.version))

\* Nothing is left behind when the call goes on.
InTurn ==
  /\ call.pc \in {"join", "reboot", "stamp", "done"} => call.files = {}
  /\ call.pc \in {"idle", "status", "dir", "reboot", "stamp", "done"} => call.cands = << >>
  /\ \A p \in Pockets : call.suite[p] \in {p, Apt!Unknown}
  /\ call.pc \notin {"join", "reboot", "stamp", "done"} => ~call.answer.pending
  /\ call.answer.pending \/ call.answer.candidate = 0

\* As long as there has been an update throughout the call, one is on its way.
Reported ==
  /\ call.pc # "idle" /\ saw.always => Apt!PendingNow
  /\ Begun /\ saw.always => call.version # 0 /\ call.version <= status.version
  /\ Listed /\ saw.always => Coming

\* The Release files stay, so every index that was labelled has its pocket.
Labelled ==
  /\ \A p \in Pockets : release[p] # {}
  /\ call.pc = "releases" => \A p \in Pockets \ call.releases : call.suite[p] = p
  /\ call.pc = "indexes" => \A p \in Pockets : call.suite[p] = p

\* What is reported was there; a package that is newer than when its status was
\* read had an update before.
Real ==
  /\ call.pc # "idle" /\ Apt!PendingNow => saw.pending
  /\ Begun /\ call.version # 0 =>
       /\ call.version <= status.version
       /\ call.version = status.version => status.state # "unpacked"
       /\ call.version < status.version => saw.pending
       /\ Awaiting => saw.pending
  /\ call.answer.pending => saw.pending

\* Unless the host was up to date, an update is on its way or a reboot is due.
Current ==
  /\ status.state = "installed" /\ (Begun => call.version # 0)
  /\ call.pc # "idle" /\ Apt!UpToDateNow => saw.upToDate
  /\ Begun /\ ~reboot => call.version = status.version
  /\ Listed /\ ~saw.upToDate => Coming \/ reboot
  /\ call.pc \in {"stamp", "done"} /\ ~saw.upToDate => Coming \/ call.answer.reboot

\* As long as there has been a security update throughout the call, it is on its
\* way and no other candidate is newer.
Flagged ==
  /\ call.pc # "idle" /\ saw.security => Apt!SecurityNow
  /\ Begun /\ saw.security => call.version # 0 /\ call.version <= status.version
  /\ Listed /\ saw.security =>
       /\ call.answer.candidate <= index["security"].version
       /\ \A i \in DOMAIN call.cands : Apt!Eligible(call.cands[i]) =>
            call.cands[i].version <= index["security"].version
       /\ \/ "security" \in call.files
          \/ \E i \in DOMAIN call.cands :
               call.cands[i] = [version |-> index["security"].version,
                                arch |-> index["security"].arch, suite |-> "security"]
          \/ call.answer.security /\ call.answer.candidate = index["security"].version

\* A step of apt or dpkg leaves the call alone.  Versions only grow, and grow
\* only where there was an update; an index grows or is gone.
Moved ==
  /\ UNCHANGED call /\ Apt!Observe
  /\ status'.version >= status.version
  /\ status'.version # status.version => Apt!PendingNow
  /\ status'.version = status.version /\ status'.state = "unpacked" => status.state = "unpacked"
  /\ \A p \in Pockets :
       \/ index'[p] = Apt!Gone
       \/ /\ index[p] # Apt!Gone /\ index'[p].arch = index[p].arch
          /\ index'[p].version >= index[p].version
  /\ reboot => reboot'
  /\ "unlabel" \notin Kinds => release' = release
  /\ "unpack" \notin Kinds => status'.state = status.state /\ (status' = status \/ reboot')
  /\ "update" \notin Kinds => \A p \in Pockets : index'[p] \in {index[p], Apt!Gone}

\* Every step of apt and dpkg is one of those.
LEMMA HostMoves ==
  ASSUME Apt!AptAssumption, AptTyped,
         Apt!Upgrade \/ Apt!Unpack \/ \E p \in Pockets :
           Apt!Update(p) \/ Apt!DropIndex(p) \/ Apt!DropRelease(p)
  PROVE  Moved
<1>1. UNCHANGED call /\ Apt!Observe
  BY DEF Apt!Upgrade, Apt!Unpack, Apt!Update, Apt!DropIndex, Apt!DropRelease, Apt!Event
<1>2. /\ status \in [version : Versions, state : Apt!States] /\ status.version \in Nat
      /\ index \in [Pockets -> [version : Ranks, arch : Arch]]
      /\ \A p \in Pockets : index[p].version \in Nat
  BY RanksNat DEF AptTyped
<1>3. ASSUME NEW p \in Pockets
      PROVE  index[p] = Apt!Gone \/ index[p].version >= index[p].version
  BY <1>2
<1>4. CASE Apt!Upgrade
  <2>1. PICK p \in Pockets : Apt!Newer(p) /\ status' = [status EXCEPT !.version = index[p].version]
    BY <1>4 DEF Apt!Upgrade
  <2>2. index[p].version > status.version /\ index[p].version \in Nat
    BY <1>2, <2>1 DEF Apt!Newer
  <2>3. /\ status'.version > status.version /\ status'.state = status.state
        /\ status'.version \in Nat
    BY <1>2, <2>1, <2>2
  <2>4. Apt!PendingNow /\ reboot' /\ UNCHANGED <<index, release>>
    BY <1>4 DEF Apt!Upgrade
  <2> QED
    BY <1>1, <1>2, <1>3, <2>3, <2>4 DEF Moved
<1>5. CASE Apt!Unpack
  <2>1. UNCHANGED <<index, release>> /\ "unpack" \in Kinds /\ (reboot => reboot')
    BY <1>5 DEF Apt!Unpack, Apt!Event
  <2>2. CASE /\ status.state = "installed" /\ Apt!PendingNow
             /\ status' = [status EXCEPT !.state = "half-installed"]
    BY <1>1, <1>2, <1>3, <2>1, <2>2 DEF Moved
  <2>3. CASE status.state = "unpacked" /\ status' = [status EXCEPT !.state = "installed"]
    BY <1>1, <1>2, <1>3, <2>1, <2>3 DEF Moved
  <2>4. ASSUME status.state = "half-installed", NEW p \in Pockets, Apt!Newer(p),
               status' = [version |-> index[p].version, state |-> "unpacked"]
        PROVE  Moved
    <3>1. index[p].version > status.version /\ index[p].version \in Nat
      BY <1>2, <2>4 DEF Apt!Newer
    <3>2. Apt!PendingNow
      BY <2>4 DEF Apt!PendingNow
    <3>3. status'.version > status.version /\ status'.version \in Nat
      BY <1>2, <2>4, <3>1
    <3> QED
      BY <1>1, <1>2, <1>3, <2>1, <3>2, <3>3 DEF Moved
  <2> QED
    BY <1>5, <2>2, <2>3, <2>4 DEF Apt!Unpack
<1>6. ASSUME NEW p \in Pockets, Apt!Update(p)
      PROVE  Moved
  <2>1. PICK v \in Versions : v > index[p].version /\ index' = [index EXCEPT ![p].version = v]
    BY <1>6 DEF Apt!Update
  <2>2. v \in Nat
    BY RanksNat
  <2>3. /\ "update" \in Kinds /\ index[p] # Apt!Gone /\ UNCHANGED <<status, release, reboot>>
    BY <1>6 DEF Apt!Update, Apt!Event
  <2>4. \A q \in Pockets :
          \/ index'[q] = index[q]
          \/ /\ index[q] # Apt!Gone /\ index'[q].arch = index[q].arch
             /\ index'[q].version >= index[q].version
    BY <1>2, <2>1, <2>2, <2>3
  <2> QED
    BY <1>1, <1>2, <1>3, <2>3, <2>4 DEF Moved
<1>7. ASSUME NEW p \in Pockets, Apt!DropIndex(p)
      PROVE  Moved
  <2>1. index' = [index EXCEPT ![p] = Apt!Gone] /\ UNCHANGED <<status, release, reboot>>
    BY <1>7 DEF Apt!DropIndex
  <2>2. \A q \in Pockets : index'[q] = index[q] \/ index'[q] = Apt!Gone
    BY <1>2, <2>1
  <2> QED
    BY <1>1, <1>2, <1>3, <2>1, <2>2 DEF Moved
<1>8. ASSUME NEW p \in Pockets, Apt!DropRelease(p)
      PROVE  Moved
  <2>1. "unlabel" \in Kinds /\ UNCHANGED <<status, index, reboot>>
    BY <1>8 DEF Apt!DropRelease, Apt!Event
  <2> QED
    BY <1>1, <1>2, <1>3, <2>1 DEF Moved
<1> QED
  BY <1>4, <1>5, <1>6, <1>7, <1>8

\* parsePackagesIndex, one index: the call fails or has one more candidate.
LEMMA ParsedOne ==
  ASSUME Apt!AptAssumption, AptTyped, Apt!ParsePackagesIndex, call.files # {}
  PROVE  \E p \in call.files :
           \/ index[p] = Apt!Gone /\ call' = [call EXCEPT !.pc = "error"]
           \/ /\ index[p] # Apt!Gone
              /\ call' = [call EXCEPT !.files = @ \ {p},
                   !.cands = Append(@, [version |-> index[p].version, arch |-> index[p].arch,
                                        suite |-> call.suite[p]])]
<1>1. Apt!First(call.files) \in call.files
  BY FirstListed DEF AptTyped
<1> QED
  BY <1>1 DEF Apt!ParsePackagesIndex, Apt!Go, Apt!lookupRelease

\* loadReleaseFiles, one prefix.
LEMMA LoadedOne ==
  ASSUME Apt!AptAssumption, AptTyped, Apt!LoadRelease, call.releases # {}
  PROVE  \E p \in call.releases :
           call' = [call EXCEPT !.releases = @ \ {p},
                      !.suite[p] = IF release[p] # {} THEN p ELSE Apt!Unknown]
<1>1. Apt!First(call.releases) \in call.releases
  BY FirstListed DEF AptTyped
<1> QED
  BY <1>1 DEF Apt!LoadRelease, Apt!Go

\* A candidate appended, and one looked at.
LEMMA Appended ==
  ASSUME NEW T, NEW s \in Seq(T), NEW c \in T
  PROVE  /\ Len(s) + 1 \in DOMAIN Append(s, c) /\ Append(s, c)[Len(s) + 1] = c
         /\ \A i \in DOMAIN s : i \in DOMAIN Append(s, c) /\ Append(s, c)[i] = s[i]
         /\ \A i \in DOMAIN Append(s, c) : i = Len(s) + 1 \/ i \in DOMAIN s
OBVIOUS

LEMMA Advanced ==
  ASSUME NEW T, NEW s \in Seq(T), s # << >>
  PROVE  /\ Head(s) \in T /\ Tail(s) \in Seq(T) /\ 1 \in DOMAIN s /\ s[1] = Head(s)
         /\ \A i \in DOMAIN Tail(s) : i + 1 \in DOMAIN s /\ Tail(s)[i] = s[i + 1]
         /\ \A i \in DOMAIN s : i = 1 \/ (i - 1 \in DOMAIN Tail(s) /\ Tail(s)[i - 1] = s[i])
OBVIOUS

\* The types of the call, one by one.
LEMMA CallTyped ==
  ASSUME Apt!AptAssumption, AptTyped
  PROVE  /\ call.version \in Nat /\ call.answer.candidate \in Nat
         /\ status.version \in Nat /\ status.version > 0
         /\ \A p \in Pockets : index[p].version \in Nat
         /\ \A i \in DOMAIN call.cands : call.cands[i].version \in Nat
         /\ call.files \subseteq Pockets /\ call.releases \subseteq Pockets
         /\ DOMAIN call.suite = Pockets
         /\ call.cands \in Seq([version : Ranks, arch : Arch, suite : Suites])
<1>1. /\ call.version \in Ranks /\ call.answer.candidate \in Ranks
      /\ status.version \in Versions
      /\ \A p \in Pockets : index[p].version \in Ranks
      /\ call.files \subseteq Pockets /\ call.releases \subseteq Pockets
      /\ DOMAIN call.suite = Pockets
  BY DEF AptTyped
<1> DEFINE T == [version : Ranks, arch : Arch, suite : Suites]
<1>2. call.cands \in Seq(T)
  BY DEF AptTyped
<1>3. \A c \in T : c.version \in Ranks
  OBVIOUS
<1> HIDE DEF T
<1>4. \A i \in DOMAIN call.cands : call.cands[i] \in T
  BY <1>2
<1> QED
  BY <1>1, <1>2, <1>3, <1>4, RanksNat DEF T

\* An eligible candidate makes the answer one that reports an update, and
\* nothing takes that back.
LEMMA ChoosePending ==
  ASSUME NEW best \in [pending : BOOLEAN, candidate : Nat, security : BOOLEAN,
                       reboot : BOOLEAN, last : Nat],
         NEW c, c.version \in Nat, call.version \in Nat,
         best.pending \/ best.candidate = 0
  PROVE  LET b == Apt!Choose(best, c) IN
           /\ b.pending <=> best.pending \/ Apt!Eligible(c)
           /\ b.pending \/ b.candidate = 0
           /\ b.reboot = best.reboot
<1>1. CASE ~Apt!Eligible(c) \/ ~Apt!Better(c, best)
  BY <1>1 DEF Apt!Choose, Apt!Eligible, Apt!Better
<1>2. CASE Apt!Eligible(c) /\ Apt!Better(c, best)
  BY <1>2 DEF Apt!Choose
<1> QED
  BY <1>1, <1>2

\* The loop over the candidates, one of them.
LEMMA JoinedOne ==
  ASSUME Apt!AptAssumption, AptTyped, InTurn, Apt!Join, call.version # 0, call.cands # << >>
  PROVE  /\ call' = [call EXCEPT !.answer = Apt!Choose(call.answer, Head(call.cands)),
                                 !.cands = Tail(@)]
         /\ call'.answer.pending <=> call.answer.pending \/ Apt!Eligible(Head(call.cands))
         /\ call'.answer.pending \/ call'.answer.candidate = 0
<1>1. call' = [call EXCEPT !.answer = Apt!Choose(call.answer, Head(call.cands)),
                           !.cands = Tail(@)]
  BY DEF Apt!Join, Apt!Go
<1>2. Head(call.cands).version \in Nat /\ call.version \in Nat
  BY CallTyped
<1>3. call.answer \in [pending : BOOLEAN, candidate : Nat, security : BOOLEAN,
                       reboot : BOOLEAN, last : Nat]
  <2>1. call.answer \in [pending : BOOLEAN, candidate : Ranks, security : BOOLEAN,
                         reboot : BOOLEAN, last : Nat]
    BY DEF AptTyped
  <2> QED
    BY <2>1, RanksNat
<1>4. call.answer.pending \/ call.answer.candidate = 0
  BY DEF InTurn
<1>5. call'.answer = Apt!Choose(call.answer, Head(call.cands))
  BY <1>1 DEF AptTyped
<1> QED
  BY <1>1, <1>2, <1>3, <1>4, <1>5, ChoosePending

\* The call reads one thing after the other.
LEMMA InTurnStep ==
  ASSUME Apt!AptAssumption, AptTyped, InTurn, [Apt!Next]_Apt!vars
  PROVE  InTurn'
<1> USE DEF InTurn
<1>0. call \in [pc : Apt!Steps, version : Ranks, files : SUBSET Pockets,
                releases : SUBSET Pockets, suite : [Pockets -> Suites],
                cands : Seq([version : Ranks, arch : Arch, suite : Suites]),
                answer : [pending : BOOLEAN, candidate : Ranks, security : BOOLEAN,
                          reboot : BOOLEAN, last : Nat]]
  BY DEF AptTyped
<1>1. CASE UNCHANGED call
  BY <1>1
<1>2. CASE Apt!Start
  BY <1>0, <1>2 DEF Apt!Start, Apt!Go, Apt!Then
<1>3. CASE Apt!ReadStatus
  BY <1>0, <1>3 DEF Apt!ReadStatus, Apt!Go
<1>4. CASE Apt!ReadDir
  BY <1>0, <1>4 DEF Apt!ReadDir, Apt!Go
<1>5. CASE Apt!LoadRelease
  <2>1. CASE call.releases = {}
    BY <1>0, <1>5, <2>1 DEF Apt!LoadRelease, Apt!Go
  <2>2. CASE call.releases # {}
    <3>1. PICK p \in call.releases : call' = [call EXCEPT !.releases = @ \ {p},
                      !.suite[p] = IF release[p] # {} THEN p ELSE Apt!Unknown]
      BY <1>5, <2>2, LoadedOne
    <3>2. call.pc = "releases"
      BY <1>5 DEF Apt!LoadRelease
    <3>3. \A q \in Pockets : call'.suite[q] \in {q, Apt!Unknown}
      BY <1>0, <3>1
    <3> QED
      BY <1>0, <3>1, <3>2, <3>3
  <2> QED
    BY <2>1, <2>2
<1>6. CASE Apt!ParsePackagesIndex
  <2>1. CASE call.files = {}
    BY <1>0, <1>6, <2>1 DEF Apt!ParsePackagesIndex, Apt!Go
  <2>2. CASE call.files # {}
    <3>1. call.pc = "indexes"
      BY <1>6 DEF Apt!ParsePackagesIndex
    <3>2. /\ call'.pc \in {"indexes", "error"} /\ call'.suite = call.suite
          /\ call'.answer = call.answer
      BY <1>0, <1>6, <2>2, <3>1, ParsedOne
    <3> QED
      BY <3>1, <3>2
  <2> QED
    BY <2>1, <2>2
<1>7. CASE Apt!Join
  <2>1. CASE call.version = 0 \/ call.cands = << >>
    <3>1. call' = [call EXCEPT !.pc = "reboot", !.cands = << >>]
      BY <1>7, <2>1 DEF Apt!Join, Apt!Go, Apt!Then
    <3> QED
      BY <1>0, <1>7, <3>1 DEF Apt!Join
  <2>2. CASE call.version # 0 /\ call.cands # << >>
    <3>1. /\ call'.files = call.files /\ call'.suite = call.suite /\ call'.pc = call.pc
          /\ call'.answer.pending \/ call'.answer.candidate = 0
      BY <1>0, <1>7, <2>2, JoinedOne
    <3> QED
      BY <1>7, <3>1 DEF Apt!Join
  <2> QED
    BY <2>1, <2>2
<1>8. CASE Apt!ReadReboot
  BY <1>0, <1>8 DEF Apt!ReadReboot, Apt!Go, Apt!Then
<1>9. CASE Apt!ReadStamp
  BY <1>0, <1>9 DEF Apt!ReadStamp, Apt!Go, Apt!Then
<1>10. CASE \/ Apt!Upgrade \/ Apt!Unpack
            \/ \E p \in Pockets : Apt!Update(p) \/ Apt!DropIndex(p) \/ Apt!DropRelease(p)
  BY <1>1, <1>10, HostMoves DEF Moved
<1> QED
  BY <1>1, <1>2, <1>3, <1>4, <1>5, <1>6, <1>7, <1>8, <1>9, <1>10
  DEF Apt!Next, Apt!Tool, Apt!vars

\* Nothing that apt and dpkg do takes an update away that is on its way.
LEMMA ComingHost ==
  ASSUME Apt!AptAssumption, AptTyped, AptTyped', Moved, Coming
  PROVE  Coming'
<1>1. call' = call
  BY DEF Moved
<1>2. CASE call.answer.pending \/ Awaiting
  BY <1>1, <1>2 DEF Coming, Awaiting, Apt!Eligible
<1>3. CASE \E p \in call.files : p # "backports" /\
         (index[p] = Apt!Gone \/ (index[p].arch # "foreign" /\ index[p].version > call.version))
  <2>1. PICK p \in call.files : p # "backports" /\
         (index[p] = Apt!Gone \/ (index[p].arch # "foreign" /\ index[p].version > call.version))
    BY <1>3
  <2>2. /\ p \in Pockets /\ index[p].version \in Nat /\ call.version \in Nat
        /\ index'[p].version \in Nat
    <3>1. p \in Pockets /\ index[p].version \in Nat /\ call.version \in Nat
      BY <2>1, CallTyped
    <3>2. index'[p].version \in Ranks
      BY <3>1 DEF AptTyped
    <3> QED
      BY <3>1, <3>2, RanksNat
  <2>3. \/ index'[p] = Apt!Gone
        \/ index'[p].arch # "foreign" /\ index'[p].version > call.version
    BY <2>1, <2>2 DEF Moved
  <2> QED
    BY <1>1, <2>1, <2>3 DEF Coming
<1> QED
  BY <1>2, <1>3 DEF Coming

\* Nor does the call lose it, if there is a package at all.
LEMMA ComingTool ==
  ASSUME Apt!AptAssumption, AptTyped, InTurn, Apt!Tool, Listed, Listed', Coming,
         call.version # 0
  PROVE  Coming'
<1>0. call \in [pc : Apt!Steps, version : Ranks, files : SUBSET Pockets,
                releases : SUBSET Pockets, suite : [Pockets -> Suites],
                cands : Seq([version : Ranks, arch : Arch, suite : Suites]),
                answer : [pending : BOOLEAN, candidate : Ranks, security : BOOLEAN,
                          reboot : BOOLEAN, last : Nat]]
  BY DEF AptTyped
<1>1. index' = index
  BY DEF Apt!Tool, Apt!Start, Apt!ReadStatus, Apt!ReadDir, Apt!LoadRelease,
         Apt!ParsePackagesIndex, Apt!Join, Apt!ReadReboot, Apt!ReadStamp, Apt!Go, Apt!disk
<1>2. CASE /\ call'.files = call.files /\ call'.cands = call.cands
           /\ call'.version = call.version /\ call'.answer.pending = call.answer.pending
  BY <1>1, <1>2 DEF Coming, Awaiting, Apt!Eligible
<1>3. CASE Apt!LoadRelease
  <2>1. call.releases = {} => call' = [call EXCEPT !.pc = "indexes"]
    BY <1>3 DEF Apt!LoadRelease, Apt!Go
  <2> QED
    BY <1>0, <1>2, <1>3, <2>1, LoadedOne
<1>4. CASE Apt!ParsePackagesIndex
  <2>1. CASE call.files = {}
    BY <1>0, <1>2, <1>4, <2>1 DEF Apt!ParsePackagesIndex, Apt!Go
  <2>2. CASE call.files # {}
    <3>1. PICK p \in call.files :
           \/ index[p] = Apt!Gone /\ call' = [call EXCEPT !.pc = "error"]
           \/ /\ index[p] # Apt!Gone
              /\ call' = [call EXCEPT !.files = @ \ {p},
                   !.cands = Append(@, [version |-> index[p].version, arch |-> index[p].arch,
                                        suite |-> call.suite[p]])]
      BY <1>4, <2>2, ParsedOne
    <3> DEFINE c == [version |-> index[p].version, arch |-> index[p].arch,
                     suite |-> call.suite[p]]
               T == [version : Ranks, arch : Arch, suite : Suites]
    <3>2. p \in Pockets /\ call.cands \in Seq(T) /\ c \in T
      BY <1>0 DEF AptTyped
    <3>3. /\ index[p] # Apt!Gone /\ call'.files = call.files \ {p}
          /\ call'.cands = Append(call.cands, c)
          /\ call'.version = call.version /\ call'.answer = call.answer
      BY <1>0, <3>1 DEF Listed
    <3>4. c.version = index[p].version /\ c.arch = index[p].arch /\ c.suite \in {p, Apt!Unknown}
      BY <3>2 DEF InTurn
    <3> HIDE DEF c, T
    <3>5. CASE call.answer.pending
      BY <3>3, <3>5 DEF Coming
    <3>6. CASE Awaiting
      BY <3>2, <3>3, <3>6, Appended DEF Coming, Awaiting, Apt!Eligible
    <3>7. CASE /\ p # "backports" /\ index[p].arch # "foreign"
               /\ index[p].version > call.version
      <4>1. c.arch # "foreign" /\ c.suite # "backports" /\ c.version > call'.version
        BY <3>3, <3>4, <3>7 DEF Apt!Unknown
      <4> QED
        BY <3>2, <3>3, <4>1, Appended DEF Coming, Awaiting, Apt!Eligible
    <3>8. ASSUME NEW q \in call.files, q # p, q # "backports",
                 index[q] = Apt!Gone \/ (index[q].arch # "foreign" /\ index[q].version > call.version)
          PROVE  Coming'
      <4>1. q \in call'.files
        BY <3>3, <3>8
      <4> QED
        BY <1>1, <3>3, <3>8, <4>1 DEF Coming
    <3> QED
      BY <3>3, <3>5, <3>6, <3>7, <3>8 DEF Coming
  <2> QED
    BY <2>1, <2>2
<1>5. CASE Apt!Join
  <2>0. call.files = {}
    BY <1>5 DEF Apt!Join, InTurn
  <2>1. CASE call.cands = << >>
    <3>1. call' = [call EXCEPT !.pc = "reboot", !.cands = << >>]
      BY <1>5, <2>1 DEF Apt!Join, Apt!Go, Apt!Then
    <3> QED
      BY <1>0, <1>2, <2>1, <3>1
  <2>2. CASE call.cands # << >>
    <3> DEFINE T == [version : Ranks, arch : Arch, suite : Suites]
    <3>1. call.cands \in Seq(T)
      BY <1>0
    <3> HIDE DEF T
    <3>2. /\ call'.cands = Tail(call.cands) /\ call'.version = call.version
          /\ call'.answer.pending <=> call.answer.pending \/ Apt!Eligible(Head(call.cands))
      BY <1>0, <1>5, <2>2, JoinedOne
    <3>3. CASE call.answer.pending
      BY <3>2, <3>3 DEF Coming
    <3>4. CASE Awaiting
      <4>1. PICK i \in DOMAIN call.cands : Apt!Eligible(call.cands[i])
        BY <3>4 DEF Awaiting
      <4>2. CASE i = 1
        BY <2>2, <3>1, <3>2, <4>1, <4>2, Advanced DEF Coming
      <4>3. CASE i # 1
        <5>1. i - 1 \in DOMAIN call'.cands /\ call'.cands[i - 1] = call.cands[i]
          BY <2>2, <3>1, <3>2, <4>3, Advanced
        <5> QED
          BY <3>2, <4>1, <5>1 DEF Coming, Awaiting, Apt!Eligible
      <4> QED
        BY <4>2, <4>3
    <3> QED
      BY <2>0, <3>3, <3>4 DEF Coming
  <2> QED
    BY <2>1, <2>2
<1>6. CASE Apt!ReadReboot
  BY <1>0, <1>2, <1>6 DEF Apt!ReadReboot, Apt!Go
<1>7. CASE Apt!ReadStamp
  BY <1>0, <1>2, <1>7 DEF Apt!ReadStamp, Apt!Go
<1> QED
  BY <1>3, <1>4, <1>5, <1>6, <1>7 DEF Apt!Tool, Apt!Start, Apt!ReadStatus, Apt!ReadDir, Listed

\* A step of the call leaves the host alone, and after its start what was seen.
LEMMA ToolStill ==
  ASSUME Apt!AptAssumption, AptTyped, Apt!Tool
  PROVE  /\ UNCHANGED <<status, index, release, reboot>>
         /\ Apt!PendingNow' <=> Apt!PendingNow
         /\ Apt!SecurityNow' <=> Apt!SecurityNow
         /\ Apt!UpToDateNow' <=> Apt!UpToDateNow
         /\ call'.pc # "idle"
         /\ ~Apt!Start => /\ saw' = saw /\ call.pc # "idle"
                          /\ call.pc # "status" => call'.version = call.version /\ Begun'
<1>0. call \in [pc : Apt!Steps, version : Ranks, files : SUBSET Pockets,
                releases : SUBSET Pockets, suite : [Pockets -> Suites],
                cands : Seq([version : Ranks, arch : Arch, suite : Suites]),
                answer : [pending : BOOLEAN, candidate : Ranks, security : BOOLEAN,
                          reboot : BOOLEAN, last : Nat]]
  BY DEF AptTyped
<1>1. UNCHANGED <<status, index, release, reboot>>
  BY DEF Apt!Tool, Apt!Start, Apt!ReadStatus, Apt!ReadDir, Apt!LoadRelease,
         Apt!ParsePackagesIndex, Apt!Join, Apt!ReadReboot, Apt!ReadStamp, Apt!Go, Apt!disk
<1>2. /\ Apt!PendingNow' <=> Apt!PendingNow
      /\ Apt!SecurityNow' <=> Apt!SecurityNow
      /\ Apt!UpToDateNow' <=> Apt!UpToDateNow
  BY <1>1 DEF Apt!PendingNow, Apt!SecurityNow, Apt!UpToDateNow, Apt!Newer
<1>3. CASE Apt!Start
  BY <1>0, <1>1, <1>2, <1>3 DEF Apt!Start, Apt!Go, Apt!Then
<1>4. CASE Apt!ReadStatus
  BY <1>0, <1>1, <1>2, <1>4 DEF Apt!ReadStatus, Apt!Go, Begun
<1>5. CASE Apt!ReadDir
  BY <1>0, <1>1, <1>2, <1>5 DEF Apt!ReadDir, Apt!Go, Begun
<1>6. CASE Apt!LoadRelease
  <2>1. call'.version = call.version /\ call'.pc \in {"releases", "indexes"}
    BY <1>0, <1>6 DEF Apt!LoadRelease, Apt!Go
  <2> QED
    BY <1>1, <1>2, <1>6, <2>1 DEF Apt!LoadRelease, Begun
<1>7. CASE Apt!ParsePackagesIndex
  <2>1. call'.version = call.version /\ call'.pc \in {"indexes", "join", "error"}
    BY <1>0, <1>7 DEF Apt!ParsePackagesIndex, Apt!Go
  <2> QED
    BY <1>1, <1>2, <1>7, <2>1 DEF Apt!ParsePackagesIndex, Begun
<1>8. CASE Apt!Join
  <2>1. call'.version = call.version /\ call'.pc \in {"join", "reboot"}
    BY <1>0, <1>8 DEF Apt!Join, Apt!Go, Apt!Then
  <2> QED
    BY <1>1, <1>2, <1>8, <2>1 DEF Apt!Join, Begun
<1>9. CASE Apt!ReadReboot
  BY <1>0, <1>1, <1>2, <1>9 DEF Apt!ReadReboot, Apt!Go, Apt!Then, Begun
<1>10. CASE Apt!ReadStamp
  BY <1>0, <1>1, <1>2, <1>10 DEF Apt!ReadStamp, Apt!Go, Apt!Then, Begun
<1> QED
  BY <1>3, <1>4, <1>5, <1>6, <1>7, <1>8, <1>9, <1>10 DEF Apt!Tool

\* What a step of apt or dpkg adds to what was seen.
LEMMA Observed ==
  ASSUME AptTyped, AptTyped', Moved
  PROVE  /\ saw'.pending <=> saw.pending \/ Apt!PendingNow'
         /\ saw'.always <=> saw.always /\ Apt!PendingNow'
         /\ saw'.security <=> saw.security /\ Apt!SecurityNow'
         /\ saw'.upToDate <=> saw.upToDate \/ Apt!UpToDateNow'
BY DEF Moved, Apt!Observe

\* What the start of the call sees.
LEMMA Started ==
  ASSUME AptTyped, AptTyped', Apt!Start
  PROVE  /\ saw'.pending <=> Apt!PendingNow
         /\ saw'.always <=> Apt!PendingNow
         /\ saw'.security <=> Apt!SecurityNow
         /\ saw'.upToDate <=> Apt!UpToDateNow
         /\ call'.pc = "status" /\ call'.answer = call.answer
         /\ call.pc = "idle"
BY DEF Apt!Start, Apt!Go, Apt!Then, AptTyped

\* The status that is read.
LEMMA StatusRead ==
  ASSUME Apt!AptAssumption, AptTyped, Apt!ReadStatus
  PROVE  /\ call'.pc = "dir" /\ ~Listed'
         /\ call'.version = IF status.state = "unpacked" THEN 0 ELSE status.version
         /\ call'.answer = call.answer /\ call'.cands = call.cands
<1>1. call' = [call EXCEPT !.pc = "dir", !.version = IF Apt!Installed THEN status.version ELSE 0]
  BY DEF Apt!ReadStatus, Apt!Go
<1>2. Apt!Installed <=> status.state # "unpacked"
  BY DEF AptTyped, Apt!Installed, Apt!States
<1>3. call.version \in Ranks
  BY DEF AptTyped
<1> QED
  BY <1>1, <1>2 DEF AptTyped, Listed

\* An update that is there when the directory is read is on its way.
LEMMA DirectoryRead ==
  ASSUME Apt!AptAssumption, AptTyped, Apt!ReadDir, Apt!PendingNow,
         call.version <= status.version
  PROVE  Coming'
<1>1. PICK p \in Pockets : Apt!Newer(p)
  BY DEF Apt!PendingNow
<1>2. /\ p # "backports" /\ index[p].arch # "foreign" /\ index[p].version > status.version
      /\ index[p].version \in Nat /\ status.version \in Nat /\ call.version \in Nat
  BY <1>1, CallTyped DEF Apt!Newer
<1>3. index[p] # Apt!Gone
  BY <1>2 DEF Apt!Gone
<1>4. index' = index /\ call' = [call EXCEPT !.pc = "releases", !.releases = Pockets,
                                    !.files = {q \in Pockets : index[q] # Apt!Gone}]
  BY DEF Apt!ReadDir, Apt!Go, Apt!disk
<1>5. p \in call'.files /\ call'.version = call.version
  BY <1>3, <1>4 DEF AptTyped
<1>6. index'[p].version > call'.version
  BY <1>2, <1>4, <1>5
<1> QED
  BY <1>2, <1>4, <1>5, <1>6 DEF Coming

\* The steps of the call before its lists are read, and the others.
LEMMA ToolCases ==
  ASSUME Apt!Tool
  PROVE  Apt!Start \/ Apt!ReadStatus \/ Apt!ReadDir \/ (Listed /\ ~Apt!Start /\ Begun)
BY DEF Apt!Tool, Apt!LoadRelease, Apt!ParsePackagesIndex, Apt!Join, Apt!ReadReboot,
       Apt!ReadStamp, Apt!Start, Listed, Begun

LEMMA ReportedStep ==
  ASSUME Apt!AptAssumption, AptTyped, InTurn, Reported, AptTyped', [Apt!Next]_Apt!vars
  PROVE  Reported'
<1> USE DEF Reported
<1>1. CASE UNCHANGED Apt!vars
  BY <1>1 DEF Apt!vars, Begun, Listed, Coming, Awaiting, Apt!Eligible, Apt!PendingNow, Apt!Newer
<1>2. CASE Moved
  <2>1. call' = call /\ (saw'.always => saw.always /\ Apt!PendingNow')
    BY <1>2, Observed DEF Moved
  <2>2. /\ call.version \in Nat /\ status.version \in Nat
        /\ status'.version \in Nat /\ status'.version >= status.version
    <3>1. status'.version \in Ranks
      BY RanksNat DEF AptTyped
    <3> QED
      BY <1>2, <3>1, CallTyped, RanksNat DEF Moved
  <2>3. Listed' <=> Listed
    BY <2>1 DEF Listed
  <2>4. Begun' <=> Begun
    BY <2>1 DEF Begun
  <2> QED
    BY <1>2, <2>1, <2>2, <2>3, <2>4, ComingHost
<1>3. CASE Apt!Start
  <2>1. Apt!PendingNow' <=> Apt!PendingNow
    BY <1>3, ToolStill DEF Apt!Tool
  <2> QED
    BY <1>3, <2>1, Started DEF Begun, Listed
<1>4. CASE Apt!ReadStatus
  <2>1. /\ Apt!PendingNow' <=> Apt!PendingNow
        /\ saw' = saw /\ status' = status /\ call.pc = "status"
    BY <1>4, ToolStill DEF Apt!Tool, Apt!ReadStatus, Apt!Start
  <2>2. saw.always => status.state # "unpacked"
    BY <2>1 DEF Apt!PendingNow
  <2>3. status.version \in Nat /\ status.version > 0
    BY CallTyped
  <2> QED
    BY <1>4, <2>1, <2>2, <2>3, StatusRead
<1>5. CASE Apt!ReadDir
  <2>1. /\ Apt!PendingNow' <=> Apt!PendingNow
        /\ saw' = saw /\ status' = status /\ call.pc = "dir" /\ call'.version = call.version
    BY <1>5, ToolStill DEF Apt!Tool, Apt!ReadDir, Apt!Start
  <2>2. Begun /\ (saw.always => Apt!PendingNow)
    BY <2>1 DEF Begun
  <2> QED
    BY <1>5, <2>1, <2>2, DirectoryRead
<1>6. CASE Apt!Tool /\ Listed /\ ~Apt!Start
  <2>1. /\ Apt!PendingNow' <=> Apt!PendingNow
        /\ saw' = saw /\ status' = status /\ call.pc # "idle"
        /\ Begun /\ call'.version = call.version
    BY <1>6, ToolStill DEF Listed, Begun
  <2> QED
    BY <1>6, <2>1, ComingTool
<1> QED
  BY <1>1, <1>2, <1>3, <1>4, <1>5, <1>6, HostMoves, ToolCases DEF Apt!Next

\* The steps that touch neither the candidates nor what the answer says of them.
LEMMA OtherReads ==
  ASSUME Apt!AptAssumption, AptTyped,
         Apt!ReadDir \/ Apt!LoadRelease \/ Apt!ReadReboot \/ Apt!ReadStamp
  PROVE  /\ call'.cands = call.cands /\ call'.version = call.version
         /\ call'.answer.pending = call.answer.pending
         /\ call'.answer.security = call.answer.security
         /\ call'.answer.candidate = call.answer.candidate
         /\ ~Apt!ReadDir => call'.files = call.files
         /\ Awaiting' <=> Awaiting
<1>1. call \in [pc : Apt!Steps, version : Ranks, files : SUBSET Pockets,
                releases : SUBSET Pockets, suite : [Pockets -> Suites],
                cands : Seq([version : Ranks, arch : Arch, suite : Suites]),
                answer : [pending : BOOLEAN, candidate : Ranks, security : BOOLEAN,
                          reboot : BOOLEAN, last : Nat]]
  BY DEF AptTyped
<1>2. /\ call'.cands = call.cands /\ call'.version = call.version
      /\ call'.answer.pending = call.answer.pending
      /\ call'.answer.security = call.answer.security
      /\ call'.answer.candidate = call.answer.candidate
      /\ ~Apt!ReadDir => call'.files = call.files
  <2>1. CASE Apt!ReadDir
    BY <1>1, <2>1 DEF Apt!ReadDir, Apt!Go
  <2>2. CASE Apt!LoadRelease
    <3>1. call.releases = {} => call' = [call EXCEPT !.pc = "indexes"]
      BY <2>2 DEF Apt!LoadRelease, Apt!Go
    <3> QED
      BY <1>1, <2>2, <3>1, LoadedOne
  <2>3. CASE Apt!ReadReboot
    BY <1>1, <2>3 DEF Apt!ReadReboot, Apt!Go
  <2>4. CASE Apt!ReadStamp
    BY <1>1, <2>4 DEF Apt!ReadStamp, Apt!Go
  <2> QED
    BY <2>1, <2>2, <2>3, <2>4
<1>3. Awaiting' <=> Awaiting
  BY <1>2 DEF Awaiting, Apt!Eligible
<1> QED
  BY <1>2, <1>3

\* As long as no Release file goes, every index is labelled.
LEMMA LabelledStep ==
  ASSUME Apt!AptAssumption, "unlabel" \notin Kinds, AptTyped, Labelled,
         [Apt!Next]_Apt!vars
  PROVE  Labelled'
<1> USE DEF Labelled
<1>0. call \in [pc : Apt!Steps, version : Ranks, files : SUBSET Pockets,
                releases : SUBSET Pockets, suite : [Pockets -> Suites],
                cands : Seq([version : Ranks, arch : Arch, suite : Suites]),
                answer : [pending : BOOLEAN, candidate : Ranks, security : BOOLEAN,
                          reboot : BOOLEAN, last : Nat]]
  BY DEF AptTyped
<1>1. CASE UNCHANGED Apt!vars
  BY <1>1 DEF Apt!vars
<1>2. CASE Moved
  BY <1>2 DEF Moved
<1>3. CASE Apt!ReadDir
  BY <1>0, <1>3 DEF Apt!ReadDir, Apt!Go, Apt!disk
<1>4. CASE Apt!LoadRelease
  <2>0. call.pc = "releases" /\ release' = release
    BY <1>4 DEF Apt!LoadRelease, Apt!Go, Apt!disk
  <2>1. CASE call.releases = {}
    <3>1. call' = [call EXCEPT !.pc = "indexes"]
      BY <1>4, <2>1 DEF Apt!LoadRelease, Apt!Go
    <3> QED
      BY <1>0, <2>0, <2>1, <3>1
  <2>2. CASE call.releases # {}
    <3>1. PICK p \in call.releases : call' = [call EXCEPT !.releases = @ \ {p},
                      !.suite[p] = IF release[p] # {} THEN p ELSE Apt!Unknown]
      BY <1>4, <2>2, LoadedOne
    <3>2. p \in Pockets /\ release[p] # {}
      BY <1>0, <3>1
    <3>3. call'.releases = call.releases \ {p} /\ call'.suite = [call.suite EXCEPT ![p] = p]
      BY <1>0, <3>1, <3>2
    <3>4. \A q \in Pockets \ call'.releases : call'.suite[q] = q
      BY <1>0, <2>0, <3>3
    <3>5. call'.pc = "releases"
      BY <1>0, <2>0, <3>1
    <3> QED
      BY <2>0, <3>4, <3>5
  <2> QED
    BY <2>1, <2>2
<1>5. CASE Apt!ParsePackagesIndex
  <2>1. call'.suite = call.suite /\ call'.pc # "releases" /\ call.pc = "indexes" /\ release' = release
    BY <1>0, <1>5 DEF Apt!ParsePackagesIndex, Apt!Go, Apt!disk
  <2> QED
    BY <2>1
<1>6. CASE Apt!Start \/ Apt!ReadStatus \/ Apt!Join \/ Apt!ReadReboot \/ Apt!ReadStamp
  <2>1. release' = release
    BY <1>6 DEF Apt!Start, Apt!ReadStatus, Apt!Join, Apt!ReadReboot, Apt!ReadStamp, Apt!Go, Apt!disk
  <2>2. call'.pc \notin {"releases", "indexes"}
    BY <1>0, <1>6 DEF Apt!Start, Apt!ReadStatus, Apt!Join, Apt!ReadReboot, Apt!ReadStamp,
                      Apt!Go, Apt!Then
  <2> QED
    BY <2>1, <2>2
<1> QED
  BY <1>1, <1>2, <1>3, <1>4, <1>5, <1>6, HostMoves DEF Apt!Next, Apt!Tool

\* What the call finds was there.
LEMMA RealStep ==
  ASSUME Apt!AptAssumption, "unlabel" \notin Kinds, AptTyped, InTurn, Labelled, Real,
         AptTyped', [Apt!Next]_Apt!vars
  PROVE  Real'
<1> USE DEF Real
<1>1. CASE UNCHANGED Apt!vars
  BY <1>1 DEF Apt!vars, Begun, Awaiting, Apt!Eligible, Apt!PendingNow, Apt!Newer
<1>2. CASE Moved
  <2>1. call' = call /\ (saw'.pending <=> saw.pending \/ Apt!PendingNow')
    BY <1>2, Observed DEF Moved
  <2>2. /\ call.version \in Nat /\ status.version \in Nat
        /\ status'.version \in Nat /\ status'.version >= status.version
    <3>1. status'.version \in Ranks
      BY RanksNat DEF AptTyped
    <3> QED
      BY <1>2, <3>1, CallTyped, RanksNat DEF Moved
  <2>3. /\ status'.version # status.version => Apt!PendingNow
        /\ status'.version = status.version /\ status'.state = "unpacked"
             => status.state = "unpacked"
    BY <1>2 DEF Moved
  <2>4. (Begun' <=> Begun) /\ (Awaiting' <=> Awaiting)
    BY <2>1 DEF Begun, Awaiting, Apt!Eligible
  <2>5. Begun => call.pc # "idle"
    BY DEF Begun
  <2> QED
    BY <2>1, <2>2, <2>3, <2>4, <2>5
<1>3. CASE Apt!Start
  <2>1. Apt!PendingNow' <=> Apt!PendingNow
    BY <1>3, ToolStill DEF Apt!Tool
  <2>2. ~call'.answer.pending
    BY <1>3, Started DEF InTurn
  <2> QED
    BY <1>3, <2>1, <2>2, Started DEF Begun
<1>4. CASE Apt!ReadStatus
  <2>1. /\ Apt!PendingNow' <=> Apt!PendingNow
        /\ saw' = saw /\ status' = status /\ call.pc = "status"
    BY <1>4, ToolStill DEF Apt!Tool, Apt!ReadStatus, Apt!Start
  <2>2. ~call'.answer.pending /\ ~Awaiting'
    BY <1>4, <2>1, StatusRead DEF InTurn, Awaiting
  <2>3. status.version \in Nat
    BY CallTyped
  <2> QED
    BY <1>4, <2>1, <2>2, <2>3, StatusRead
<1>5. CASE Apt!Tool /\ ~Apt!Start /\ ~Apt!ReadStatus
  <2>0. call \in [pc : Apt!Steps, version : Ranks, files : SUBSET Pockets,
                releases : SUBSET Pockets, suite : [Pockets -> Suites],
                cands : Seq([version : Ranks, arch : Arch, suite : Suites]),
                answer : [pending : BOOLEAN, candidate : Ranks, security : BOOLEAN,
                          reboot : BOOLEAN, last : Nat]]
    BY DEF AptTyped
  <2>1. /\ Apt!PendingNow' <=> Apt!PendingNow
        /\ saw' = saw /\ status' = status /\ index' = index /\ call.pc # "idle"
        /\ Begun /\ call'.version = call.version
    BY <1>5, ToolCases, ToolStill DEF Listed, Begun, Apt!ReadDir
  <2>2. SUFFICES /\ call.version # 0 /\ Awaiting' => saw.pending
                 /\ call'.answer.pending => saw.pending
    BY <2>1
  <2>3. CASE Apt!ReadDir \/ Apt!LoadRelease \/ Apt!ReadReboot \/ Apt!ReadStamp
    BY <2>1, <2>3, OtherReads
  <2>4. CASE Apt!ParsePackagesIndex
    <3>1. CASE call.files = {}
      <4>1. call'.cands = call.cands /\ call'.answer = call.answer
        BY <2>0, <2>4, <3>1 DEF Apt!ParsePackagesIndex, Apt!Go
      <4> QED
        BY <2>1, <4>1 DEF Awaiting, Apt!Eligible
    <3>2. CASE call.files # {}
      <4>1. PICK p \in call.files :
           \/ index[p] = Apt!Gone /\ call' = [call EXCEPT !.pc = "error"]
           \/ /\ index[p] # Apt!Gone
              /\ call' = [call EXCEPT !.files = @ \ {p},
                   !.cands = Append(@, [version |-> index[p].version, arch |-> index[p].arch,
                                        suite |-> call.suite[p]])]
        BY <2>4, <3>2, ParsedOne
      <4> DEFINE c == [version |-> index[p].version, arch |-> index[p].arch,
                       suite |-> call.suite[p]]
                 T == [version : Ranks, arch : Arch, suite : Suites]
      <4>2. p \in Pockets /\ call.cands \in Seq(T) /\ c \in T
        BY <2>0 DEF AptTyped
      <4>3. /\ call'.answer = call.answer
            /\ call'.cands = call.cands \/ call'.cands = Append(call.cands, c)
        BY <2>0, <4>1
      <4>4. c.version = index[p].version /\ c.arch = index[p].arch /\ c.suite = p
        BY <2>4, <4>2 DEF Labelled, Apt!ParsePackagesIndex
      <4>5. ASSUME call.version # 0, c.arch # "foreign", c.suite # "backports",
                   c.version > call.version
            PROVE  saw.pending
        <5>1. index[p].version \in Nat /\ status.version \in Nat /\ call.version \in Nat
          BY <4>2, CallTyped
        <5>2. CASE call.version < status.version
          BY <2>1, <4>5, <5>2
        <5>3. CASE call.version = status.version
          <6>1. Apt!Newer(p) /\ status.state # "unpacked"
            BY <2>1, <4>4, <4>5, <5>3 DEF Apt!Newer
          <6> QED
            BY <2>1, <4>2, <6>1 DEF Apt!PendingNow
        <5> QED
          BY <2>1, <4>5, <5>1, <5>2, <5>3
      <4> HIDE DEF c, T
      <4>6. ASSUME call.version # 0, NEW i \in DOMAIN call'.cands, Apt!Eligible(call.cands[i])'
            PROVE  saw.pending
        <5>1. CASE i \in DOMAIN call.cands /\ call'.cands[i] = call.cands[i]
          BY <2>1, <4>6, <5>1 DEF Awaiting, Apt!Eligible
        <5>2. CASE call'.cands[i] = c
          BY <2>1, <4>5, <4>6, <5>2 DEF Apt!Eligible
        <5> QED
          BY <4>2, <4>3, <4>6, <5>1, <5>2, Appended
      <4> QED
        BY <2>1, <4>3, <4>6 DEF Awaiting
    <3> QED
      BY <3>1, <3>2
  <2>5. CASE Apt!Join
    <3>1. CASE call.version = 0 \/ call.cands = << >>
      <4>1. call' = [call EXCEPT !.pc = "reboot", !.cands = << >>]
        BY <2>5, <3>1 DEF Apt!Join, Apt!Go, Apt!Then
      <4>2. call'.cands = << >> /\ call'.answer = call.answer
        BY <2>0, <4>1
      <4> QED
        BY <2>1, <4>2 DEF Awaiting
    <3>2. CASE call.version # 0 /\ call.cands # << >>
      <4> DEFINE T == [version : Ranks, arch : Arch, suite : Suites]
      <4>1. call.cands \in Seq(T)
        BY <2>0
      <4> HIDE DEF T
      <4>2. /\ call'.cands = Tail(call.cands)
            /\ call'.answer.pending <=> call.answer.pending \/ Apt!Eligible(Head(call.cands))
        BY <2>0, <2>5, <3>2, JoinedOne
      <4>3. Apt!Eligible(Head(call.cands)) => Awaiting
        BY <3>2, <4>1, Advanced DEF Awaiting
      <4>4. Awaiting' => Awaiting
        <5>1. ASSUME NEW i \in DOMAIN call'.cands, Apt!Eligible(call.cands[i])'
              PROVE  Awaiting
          <6>1. i + 1 \in DOMAIN call.cands /\ call'.cands[i] = call.cands[i + 1]
            BY <3>2, <4>1, <4>2, <5>1, Advanced
          <6> QED
            BY <2>1, <5>1, <6>1 DEF Awaiting, Apt!Eligible
        <5> QED
          BY <5>1 DEF Awaiting
      <4> QED
        BY <2>1, <3>2, <4>2, <4>3, <4>4
    <3> QED
      BY <3>1, <3>2
  <2> QED
    BY <1>5, <2>3, <2>4, <2>5 DEF Apt!Tool
<1> QED
  BY <1>1, <1>2, <1>3, <1>4, <1>5, HostMoves DEF Apt!Next

\* Unless dpkg is caught half-way, the host was up to date or the answer says
\* otherwise.
LEMMA CurrentStep ==
  ASSUME Apt!AptAssumption, "unpack" \notin Kinds, AptTyped, InTurn, Current,
         AptTyped', [Apt!Next]_Apt!vars
  PROVE  Current'
<1> USE DEF Current
<1>1. CASE UNCHANGED Apt!vars
  BY <1>1 DEF Apt!vars, Begun, Listed, Coming, Awaiting, Apt!Eligible, Apt!PendingNow,
              Apt!Newer, Apt!UpToDateNow
<1>2. CASE Moved
  <2>1. call' = call /\ (saw'.upToDate <=> saw.upToDate \/ Apt!UpToDateNow')
    BY <1>2, Observed DEF Moved
  <2>2. /\ reboot => reboot'
        /\ status'.state = status.state /\ (status' = status \/ reboot')
    BY <1>2 DEF Moved
  <2>3. (Listed' <=> Listed) /\ (Begun' <=> Begun)
    BY <2>1 DEF Listed, Begun
  <2>4. Coming => Coming'
    BY <1>2, ComingHost
  <2> QED
    BY <2>1, <2>2, <2>3, <2>4
<1>3. CASE Apt!Start
  <2>1. (Apt!UpToDateNow' <=> Apt!UpToDateNow) /\ status' = status
    BY <1>3, ToolStill DEF Apt!Tool
  <2> QED
    BY <1>3, <2>1, Started DEF Begun, Listed
<1>4. CASE Apt!ReadStatus
  <2>1. /\ Apt!UpToDateNow' <=> Apt!UpToDateNow
        /\ saw' = saw /\ status' = status /\ call.pc = "status"
    BY <1>4, ToolStill DEF Apt!Tool, Apt!ReadStatus, Apt!Start
  <2>2. status.version > 0 /\ status.version \in Nat
    BY CallTyped
  <2> QED
    BY <1>4, <2>1, <2>2, StatusRead
<1>5. CASE Apt!ReadDir
  <2>1. /\ Apt!UpToDateNow' <=> Apt!UpToDateNow
        /\ saw' = saw /\ status' = status /\ reboot' = reboot /\ call.pc = "dir"
        /\ call'.version = call.version
    BY <1>5, ToolStill DEF Apt!Tool, Apt!ReadDir, Apt!Start
  <2>2. Begun /\ call'.pc = "releases"
    BY <1>5, <2>1 DEF Begun, Apt!ReadDir, Apt!Go, AptTyped
  <2>3. ~saw.upToDate /\ ~reboot => Coming'
    <3>1. SUFFICES ASSUME ~saw.upToDate, ~reboot PROVE Coming'
      OBVIOUS
    <3>2. Apt!PendingNow
      BY <2>1, <3>1 DEF Apt!UpToDateNow
    <3>3. call.version = status.version /\ status.version \in Nat
      BY <2>2, <3>1, CallTyped
    <3> QED
      BY <1>5, <3>2, <3>3, DirectoryRead
  <2> QED
    BY <2>1, <2>2, <2>3
<1>6. CASE Apt!Tool /\ Listed /\ ~Apt!Start
  <2>0. call \in [pc : Apt!Steps, version : Ranks, files : SUBSET Pockets,
                releases : SUBSET Pockets, suite : [Pockets -> Suites],
                cands : Seq([version : Ranks, arch : Arch, suite : Suites]),
                answer : [pending : BOOLEAN, candidate : Ranks, security : BOOLEAN,
                          reboot : BOOLEAN, last : Nat]]
    BY DEF AptTyped
  <2>1. /\ Apt!UpToDateNow' <=> Apt!UpToDateNow
        /\ saw' = saw /\ status' = status /\ reboot' = reboot /\ call.pc # "idle"
        /\ Begun /\ call'.version = call.version
    BY <1>6, ToolStill DEF Listed, Begun
  <2>2. Listed' /\ Coming => Coming'
    BY <1>6, <2>1, ComingTool
  <2>3. CASE call'.pc \notin {"stamp", "done"}
    BY <1>6, <2>1, <2>2, <2>3
  <2>4. CASE Apt!ReadReboot
    <3>1. call'.pc = "stamp" /\ (call'.answer.reboot <=> reboot)
      BY <2>0, <2>4 DEF Apt!ReadReboot, Apt!Go, Apt!Then, AptTyped
    <3> QED
      BY <1>6, <2>1, <2>2, <3>1 DEF Listed
  <2>5. CASE Apt!ReadStamp
    <3>1. call.pc = "stamp" /\ call'.pc = "done" /\ call'.answer.reboot = call.answer.reboot
      BY <2>0, <2>5 DEF Apt!ReadStamp, Apt!Go, Apt!Then
    <3> QED
      BY <1>6, <2>1, <2>2, <3>1 DEF Listed
  <2>6. CASE Apt!LoadRelease \/ Apt!ParsePackagesIndex \/ Apt!Join
    <3>1. call'.pc \notin {"stamp", "done"}
      BY <2>0, <2>6 DEF Apt!LoadRelease, Apt!ParsePackagesIndex, Apt!Join, Apt!Go, Apt!Then
    <3> QED
      BY <2>3, <3>1
  <2> QED
    BY <1>6, <2>4, <2>5, <2>6 DEF Apt!Tool, Apt!ReadStatus, Apt!ReadDir, Listed
<1> QED
  BY <1>1, <1>2, <1>3, <1>4, <1>5, <1>6, HostMoves, ToolCases DEF Apt!Next

\* The candidate of the security pocket, once it has been read.
Secure == [version |-> index["security"].version, arch |-> index["security"].arch,
           suite |-> "security"]

\* A security update that stays the newest wins over every other candidate.
LEMMA FlaggedStep ==
  ASSUME Apt!AptAssumption, Kinds \cap {"update", "unlabel"} = {}, AptTyped, InTurn,
         Labelled, Flagged, AptTyped', [Apt!Next]_Apt!vars
  PROVE  Flagged'
<1> USE DEF Flagged
<1>0. call \in [pc : Apt!Steps, version : Ranks, files : SUBSET Pockets,
                releases : SUBSET Pockets, suite : [Pockets -> Suites],
                cands : Seq([version : Ranks, arch : Arch, suite : Suites]),
                answer : [pending : BOOLEAN, candidate : Ranks, security : BOOLEAN,
                          reboot : BOOLEAN, last : Nat]]
  BY DEF AptTyped
<1>1. CASE UNCHANGED Apt!vars
  BY <1>1 DEF Apt!vars, Begun, Listed, Apt!Eligible, Apt!PendingNow,
              Apt!Newer, Apt!SecurityNow
<1>9. ASSUME Apt!SecurityNow
      PROVE  /\ "security" \in Pockets /\ status.state # "unpacked"
             /\ index["security"].arch # "foreign"
             /\ index["security"].version \in Nat
             /\ index["security"].version > status.version
             /\ \A q \in Pockets : Apt!Newer(q) =>
                  index[q].version <= index["security"].version
  BY <1>9, CallTyped DEF Apt!SecurityNow, Apt!PendingNow, Apt!Newer
<1>2. CASE Moved
  <2>1. call' = call /\ (saw'.security => saw.security /\ Apt!SecurityNow')
    BY <1>2, Observed DEF Moved
  <2>2. /\ call.version \in Nat /\ status.version \in Nat
        /\ status'.version \in Nat /\ status'.version >= status.version
    <3>1. status'.version \in Ranks
      BY RanksNat DEF AptTyped
    <3> QED
      BY <1>2, <3>1, CallTyped, RanksNat DEF Moved
  <2>3. (Listed' <=> Listed) /\ (Begun' <=> Begun)
    BY <2>1 DEF Listed, Begun
  <2>4. saw'.security => index'["security"] = index["security"]
    <3>1. SUFFICES ASSUME Apt!SecurityNow' PROVE index'["security"] = index["security"]
      BY <2>1
    <3>2. "security" \in Pockets /\ index'["security"].version > status'.version
      BY <3>1 DEF Apt!SecurityNow, Apt!Newer
    <3>3. index'["security"] \in {index["security"], Apt!Gone}
      BY <1>2, <3>2 DEF Moved
    <3> QED
      BY <2>2, <3>2, <3>3 DEF Apt!Gone
  <2> QED
    BY <2>1, <2>2, <2>3, <2>4 DEF Apt!Eligible
<1>3. CASE Apt!Start
  <2>1. Apt!SecurityNow' <=> Apt!SecurityNow
    BY <1>3, ToolStill DEF Apt!Tool
  <2> QED
    BY <1>3, <2>1, Started DEF Begun, Listed
<1>4. CASE Apt!ReadStatus
  <2>1. /\ Apt!SecurityNow' <=> Apt!SecurityNow
        /\ saw' = saw /\ status' = status /\ call.pc = "status"
    BY <1>4, ToolStill DEF Apt!Tool, Apt!ReadStatus, Apt!Start
  <2>2. saw.security => status.state # "unpacked"
    BY <1>9, <2>1
  <2>3. status.version \in Nat /\ status.version > 0
    BY CallTyped
  <2> QED
    BY <1>4, <2>1, <2>2, <2>3, StatusRead
<1>5. CASE Apt!Tool /\ ~Apt!Start /\ ~Apt!ReadStatus
  <2>1. /\ Apt!SecurityNow' <=> Apt!SecurityNow
        /\ saw' = saw /\ status' = status /\ index' = index /\ call.pc # "idle"
        /\ Begun /\ call'.version = call.version
    BY <1>5, ToolCases, ToolStill DEF Listed, Begun, Apt!ReadDir
  <2> DEFINE s == index["security"].version
  <2>2. SUFFICES ASSUME Listed', saw.security
                 PROVE  /\ call'.answer.candidate <= s
                        /\ \A i \in DOMAIN call'.cands : Apt!Eligible(call.cands[i])' =>
                             call'.cands[i].version <= s
                        /\ \/ "security" \in call'.files
                           \/ \E i \in DOMAIN call'.cands : call'.cands[i] = Secure
                           \/ call'.answer.security /\ call'.answer.candidate = s
    BY <2>1 DEF Secure
  <2>3. Apt!SecurityNow /\ call.version # 0 /\ call.version <= status.version
    BY <2>1, <2>2
  <2>4. /\ "security" \in Pockets /\ Secure.arch # "foreign"
        /\ s \in Nat /\ s > status.version /\ status.version \in Nat /\ call.version \in Nat
        /\ \A q \in Pockets : Apt!Newer(q) => index[q].version <= s
    BY <1>9, <2>3, CallTyped DEF Secure
  <2>5. CASE Apt!ReadDir
    <3>1. call'.cands = << >> /\ call'.answer.candidate = 0
      BY <2>5, OtherReads DEF InTurn, Apt!ReadDir
    <3>2. index["security"] # Apt!Gone
      BY <2>4 DEF Apt!Gone
    <3>3. "security" \in call'.files
      BY <1>0, <2>4, <2>5, <3>2 DEF Apt!ReadDir, Apt!Go
    <3> QED
      BY <2>4, <3>1, <3>3
  <2>6. CASE Apt!LoadRelease \/ Apt!ReadReboot \/ Apt!ReadStamp
    <3>1. Listed /\ ~Apt!ReadDir
      BY <2>6 DEF Listed, Apt!LoadRelease, Apt!ReadReboot, Apt!ReadStamp, Apt!ReadDir
    <3> QED
      BY <2>1, <2>2, <2>6, <3>1, OtherReads DEF Apt!Eligible, Secure
  <2>7. CASE Apt!ParsePackagesIndex
    <3>0. Listed
      BY <2>7 DEF Listed, Apt!ParsePackagesIndex
    <3>1. CASE call.files = {}
      <4>1. call'.cands = call.cands /\ call'.answer = call.answer
        BY <1>0, <2>7, <3>1 DEF Apt!ParsePackagesIndex, Apt!Go
      <4> QED
        BY <2>1, <2>2, <3>0, <3>1, <4>1 DEF Apt!Eligible, Secure
    <3>2. CASE call.files # {}
      <4>1. PICK p \in call.files :
           \/ index[p] = Apt!Gone /\ call' = [call EXCEPT !.pc = "error"]
           \/ /\ index[p] # Apt!Gone
              /\ call' = [call EXCEPT !.files = @ \ {p},
                   !.cands = Append(@, [version |-> index[p].version, arch |-> index[p].arch,
                                        suite |-> call.suite[p]])]
        BY <2>7, <3>2, ParsedOne
      <4> DEFINE c == [version |-> index[p].version, arch |-> index[p].arch,
                       suite |-> call.suite[p]]
                 T == [version : Ranks, arch : Arch, suite : Suites]
      <4>2. p \in Pockets /\ call.cands \in Seq(T) /\ c \in T
        BY <1>0 DEF AptTyped
      <4>3. /\ call'.answer = call.answer /\ call'.files = call.files \ {p}
            /\ call'.cands = Append(call.cands, c)
        BY <1>0, <2>2, <4>1 DEF Listed
      <4>4. c.version = index[p].version /\ c.arch = index[p].arch /\ c.suite = p
        BY <2>7, <4>2 DEF Labelled, Apt!ParsePackagesIndex
      <4>5. ASSUME c.arch # "foreign", c.suite # "backports"
            PROVE  c.version <= s
        <5>1. index[p].version \in Nat
          BY <4>2, CallTyped
        <5>2. CASE index[p].version > status.version
          BY <2>4, <4>2, <4>4, <4>5, <5>2 DEF Apt!Newer
        <5>3. CASE ~(index[p].version > status.version)
          BY <2>4, <4>4, <5>1, <5>3
        <5> QED
          BY <5>2, <5>3
      <4>6. p = "security" => c = Secure
        BY <4>4 DEF Secure
      <4> HIDE DEF c, T, s
      <4>7. ASSUME NEW i \in DOMAIN call'.cands, Apt!Eligible(call.cands[i])'
            PROVE  call'.cands[i].version <= s
        <5>1. CASE i \in DOMAIN call.cands /\ call'.cands[i] = call.cands[i]
          BY <2>1, <2>2, <3>0, <4>7, <5>1 DEF Apt!Eligible, s
        <5>2. CASE call'.cands[i] = c
          BY <4>5, <4>7, <5>2 DEF Apt!Eligible
        <5> QED
          BY <4>2, <4>3, <4>7, <5>1, <5>2, Appended
      <4>8. \/ "security" \in call'.files
            \/ \E i \in DOMAIN call'.cands : call'.cands[i] = Secure
            \/ call'.answer.security /\ call'.answer.candidate = s
        <5>1. CASE p = "security"
          BY <4>2, <4>3, <4>6, <5>1, Appended
        <5>2. CASE p # "security" /\ "security" \in call.files
          BY <4>3, <5>2
        <5>3. CASE \E i \in DOMAIN call.cands : call.cands[i] = Secure
          BY <4>2, <4>3, <5>3, Appended
        <5>4. CASE call.answer.security /\ call.answer.candidate = s
          BY <4>3, <5>4
        <5> QED
          BY <2>2, <3>0, <5>1, <5>2, <5>3, <5>4 DEF Secure, s
      <4>9. call'.answer.candidate <= s
        BY <2>2, <3>0, <4>3 DEF s
      <4> QED
        BY <4>7, <4>8, <4>9 DEF s
    <3> QED
      BY <3>1, <3>2
  <2>8. CASE Apt!Join
    <3>0. Listed /\ call.files = {}
      BY <2>8 DEF Listed, InTurn, Apt!Join
    <3>1. CASE call.cands = << >>
      <4>1. call' = [call EXCEPT !.pc = "reboot", !.cands = << >>]
        BY <2>8, <3>1 DEF Apt!Join, Apt!Go, Apt!Then
      <4>2. call'.cands = << >> /\ call'.answer = call.answer
        BY <1>0, <4>1
      <4> QED
        BY <2>2, <3>0, <3>1, <4>2
    <3>2. CASE call.cands # << >>
      <4> DEFINE T == [version : Ranks, arch : Arch, suite : Suites]
                 c == Head(call.cands)
      <4>1. call.cands \in Seq(T)
        BY <1>0
      <4> HIDE DEF T, c
      <4>2. /\ call'.cands = Tail(call.cands)
            /\ call'.answer = Apt!Choose(call.answer, c)
        BY <1>0, <2>3, <2>8, <3>2, JoinedOne DEF c
      <4>3. /\ 1 \in DOMAIN call.cands /\ call.cands[1] = c
            /\ c.version \in Nat /\ call.answer.candidate \in Nat
        BY <3>2, <4>1, Advanced, CallTyped DEF c
      <4>4. /\ call.answer.candidate <= s
            /\ Apt!Eligible(c) => c.version <= s
        BY <2>2, <3>0, <4>3
      <4>5. /\ call'.answer.candidate \in {call.answer.candidate, c.version}
            /\ call'.answer.candidate <= s
        <5>1. CASE ~Apt!Eligible(c) \/ ~Apt!Better(c, call.answer)
          BY <4>2, <4>4, <5>1 DEF Apt!Choose
        <5>2. CASE Apt!Eligible(c) /\ Apt!Better(c, call.answer)
          <6>1. call'.answer.candidate = c.version
            BY <1>0, <4>2, <5>2 DEF Apt!Choose
          <6> QED
            BY <4>4, <5>2, <6>1
        <5> QED
          BY <5>1, <5>2
      <4>6. ASSUME NEW i \in DOMAIN call'.cands, Apt!Eligible(call.cands[i])'
            PROVE  call'.cands[i].version <= s
        <5>1. i + 1 \in DOMAIN call.cands /\ call'.cands[i] = call.cands[i + 1]
          BY <3>2, <4>1, <4>2, <4>6, Advanced
        <5> QED
          BY <2>1, <2>2, <3>0, <4>6, <5>1 DEF Apt!Eligible
      <4>7. CASE call.answer.security /\ call.answer.candidate = s
        <5>1. CASE ~Apt!Eligible(c) \/ ~Apt!Better(c, call.answer)
          <6>1. call'.answer = call.answer
            BY <4>2, <5>1 DEF Apt!Choose
          <6> QED
            BY <4>5, <4>6, <4>7, <6>1
        <5>2. CASE Apt!Eligible(c) /\ Apt!Better(c, call.answer)
          <6>1. c.version = s /\ c.suite = "security"
            BY <2>4, <4>3, <4>4, <4>7, <5>2 DEF Apt!Better
          <6>2. /\ call'.answer.candidate = c.version
                /\ call'.answer.security = (c.suite = "security")
            BY <1>0, <4>2, <5>2 DEF Apt!Choose
          <6>3. call'.answer.security
            BY <6>1, <6>2, Zenon
          <6> QED
            BY <4>5, <4>6, <6>1, <6>2, <6>3
        <5> QED
          BY <5>1, <5>2
      <4>8. CASE c = Secure
        <5>1. c.version = s /\ c.suite = "security" /\ c.arch # "foreign"
          BY <2>4, <4>8 DEF Secure
        <5>2. c.version > call.version
          BY <2>3, <2>4, <5>1
        <5>3. Apt!Eligible(c) /\ Apt!Better(c, call.answer)
          BY <2>4, <4>3, <4>4, <5>1, <5>2 DEF Apt!Eligible, Apt!Better
        <5> QED
          BY <1>0, <4>2, <4>5, <4>6, <5>1, <5>3 DEF Apt!Choose
      <4>9. ASSUME NEW i \in DOMAIN call.cands, call.cands[i] = Secure, i # 1
            PROVE  \E j \in DOMAIN call'.cands : call'.cands[j] = Secure
        <5>1. i - 1 \in DOMAIN call'.cands /\ call'.cands[i - 1] = call.cands[i]
          BY <3>2, <4>1, <4>2, <4>9, Advanced
        <5> QED
          BY <4>9, <5>1
      <4> QED
        BY <2>2, <3>0, <4>3, <4>5, <4>6, <4>7, <4>8, <4>9 DEF Secure
    <3> QED
      BY <3>1, <3>2
  <2> QED
    BY <1>5, <2>5, <2>6, <2>7, <2>8 DEF Apt!Tool
<1> QED
  BY <1>1, <1>2, <1>3, <1>4, <1>5, HostMoves DEF Apt!Next

\* Before the call nothing has been read.
LEMMA AptBegins ==
  ASSUME Apt!AptAssumption, Apt!Init
  PROVE  InTurn /\ Reported /\ Real /\ Current /\ Flagged /\ Labelled
<1>1. /\ call.pc = "idle" /\ call.cands = << >> /\ call.answer = Apt!Answer
      /\ \A p \in Pockets : call.suite[p] = Apt!Unknown
      /\ status.state = "installed"
  BY DEF Apt!Init
<1>4. \A p \in Pockets : release[p] # {}
  <2>1. PICK files \in {{"InRelease"}, {"InRelease", "Release"}} :
          release = [p \in Pockets |-> files]
    BY DEF Apt!Init
  <2> QED
    BY <2>1
<1>2. ~Begun /\ ~Listed
  BY <1>1 DEF Begun, Listed
<1>3. ~call.answer.pending /\ call.answer.candidate = 0
  BY <1>1 DEF Apt!Answer
<1> QED
  BY <1>1, <1>2, <1>3, <1>4 DEF InTurn, Reported, Real, Current, Flagged, Labelled

\* The values of apt_update_status have their types: what it calls a security
\* update is pending, and a pending update has a version (apt.go, aptdb.go).
THEOREM AptTypeCorrect ==
  ASSUME Apt!AptAssumption
  PROVE  Apt!Spec => []Apt!TypeOK
<1>1. Apt!Init => AptTyped
  BY AptTypedInit
<1>2. AptTyped /\ [Apt!Next]_Apt!vars => AptTyped'
  BY AptTypedStep
<1>3. AptTyped => Apt!TypeOK
  BY DEF AptTyped, Apt!TypeOK
<1> QED
  BY <1>1, <1>2, <1>3, PTL DEF Apt!Spec

\* When the call is answered nothing is on its way any more.
LEMMA NothingComing ==
  ASSUME InTurn, call.pc = "done"
  PROVE  Coming <=> call.answer.pending
BY DEF InTurn, Coming, Awaiting

\* UpgradablePackages: an update that was pending throughout the call is
\* reported, or the call fails, whatever apt and dpkg do to the files meanwhile.
THEOREM PendingIsReported ==
  ASSUME Apt!AptAssumption
  PROVE  Apt!Spec => []Apt!PendingReported
<1>1. Apt!Init => AptTyped /\ InTurn /\ Reported
  BY AptTypedInit, AptBegins
<1>2. AptTyped /\ InTurn /\ Reported /\ [Apt!Next]_Apt!vars => (AptTyped /\ InTurn /\ Reported)'
  BY AptTypedStep, InTurnStep, ReportedStep
<1>3. AptTyped /\ InTurn /\ Reported => Apt!PendingReported
  BY NothingComing DEF Reported, Listed, Apt!PendingReported, Apt!Done
<1> QED
  BY <1>1, <1>2, <1>3, PTL DEF Apt!Spec

\* UpgradablePackages: as long as no Release file is taken away, so that every
\* candidate keeps its suite, a reported update was pending during the call, and
\* one that was pending throughout is reported.
THEOREM PendingIsTrue ==
  ASSUME Apt!AptAssumption, "unlabel" \notin Kinds
  PROVE  Apt!Spec => []Apt!PendingTrue
<1>1. Apt!Init => AptTyped /\ InTurn /\ Labelled /\ Real
  BY AptTypedInit, AptBegins
<1>2. AptTyped /\ InTurn /\ Labelled /\ Real /\ [Apt!Next]_Apt!vars
        => (AptTyped /\ InTurn /\ Labelled /\ Real)'
  BY AptTypedStep, InTurnStep, LabelledStep, RealStep
<1>3. AptTyped /\ InTurn /\ Labelled /\ Real => Apt!PendingReal
  BY DEF Real, Apt!PendingReal
<1> QED
  BY <1>1, <1>2, <1>3, PendingIsReported, PTL DEF Apt!Spec, Apt!PendingTrue

\* apt_update_status: as long as dpkg is not caught half-way, a host that is
\* reported up to date was so at some moment of the call.
THEOREM UpToDateIsReal ==
  ASSUME Apt!AptAssumption, "unpack" \notin Kinds
  PROVE  Apt!Spec => []Apt!UpToDateReal
<1>1. Apt!Init => AptTyped /\ InTurn /\ Current
  BY AptTypedInit, AptBegins
<1>2. AptTyped /\ InTurn /\ Current /\ [Apt!Next]_Apt!vars => (AptTyped /\ InTurn /\ Current)'
  BY AptTypedStep, InTurnStep, CurrentStep
<1>3. AptTyped /\ InTurn /\ Current => Apt!UpToDateReal
  BY NothingComing DEF Current, Apt!UpToDateReal, Apt!Done
<1> QED
  BY <1>1, <1>2, <1>3, PTL DEF Apt!Spec

\* UpgradablePackages: while the lists stand still, an update that was a security
\* update throughout the call is reported as one, in whichever order the directory
\* lists the pockets that have it.
THEOREM SecurityIsReported ==
  ASSUME Apt!AptAssumption, Kinds \cap {"update", "unlabel"} = {}
  PROVE  Apt!Spec => []Apt!SecurityReported
<1>1. Apt!Init => AptTyped /\ InTurn /\ Labelled /\ Flagged
  BY AptTypedInit, AptBegins
<1>2. "unlabel" \notin Kinds
  OBVIOUS
<1>3. AptTyped /\ InTurn /\ Labelled /\ Flagged /\ [Apt!Next]_Apt!vars
        => (AptTyped /\ InTurn /\ Labelled /\ Flagged)'
  BY <1>2, AptTypedStep, InTurnStep, LabelledStep, FlaggedStep
<1>4. AptTyped /\ InTurn /\ Flagged => Apt!SecurityReported
  BY DEF InTurn, Flagged, Listed, Apt!SecurityReported, Apt!Done
<1> QED
  BY <1>1, <1>3, <1>4, PTL DEF Apt!Spec

-----------------------------------------------------------------------------
(***************************************************************************)
(* boot_critical_chain and boot_time                                       *)
(***************************************************************************)

Hops == [unit : Units, activeAt : Nat, startup : Nat]

\* The types of what systemd knows and of the walk's data.
BootTyped ==
  /\ after \in [Units -> SUBSET Units]
  /\ unit \in [Units -> [loaded : BOOLEAN, exit : Nat, enter : Nat]]
  /\ bt \in [firmware : Nat, loader : Nat, initrd : Nat, userspace : Nat, finish : Nat]
  /\ unitChanges \in 0 .. MaxChanges /\ quiet \in BOOLEAN
  /\ walk \in [pc : Boot!Steps, cur : Units, out : Seq(Hops), exit : Nat,
               scan : SUBSET Units, next : Units \cup {0}, when : Nat]
  /\ Len(walk.out) <= MaxDepth

LastHop == walk.out[Len(walk.out)].unit

\* The chain so far is a path that visits no unit twice, and the walk goes on
\* from its end.
Chained ==
  /\ walk.pc = "call" => walk.out = << >>
  /\ walk.out = << >> => walk.cur = Target
  /\ walk.out # << >> => walk.out[1].unit = Target
  /\ \A k \in 1 .. Len(walk.out) - 1 : walk.out[k + 1].unit \in after[walk.out[k].unit]
  /\ \A j, k \in 1 .. Len(walk.out) : walk.out[j].unit = walk.out[k].unit => j = k
  /\ walk.pc \in {"exit", "enter"} => walk.cur \notin Boot!visited /\ Len(walk.out) # MaxDepth
  /\ walk.pc \in {"visit", "exit", "enter"} /\ walk.out # << >> => walk.cur \in after[LastHop]
  /\ walk.pc \in {"after", "scan"} => walk.out # << >> /\ walk.cur = LastHop
  /\ walk.pc = "scan" => /\ walk.scan \subseteq after[walk.cur]
                         /\ walk.next = 0 \/ walk.next \in after[walk.cur]

\* With the units as in u, v is when the last of S that is loaded was active, 0 if none is.
Top(u, S, v) ==
  /\ v = 0 \/ \E x \in S : u[x].loaded /\ u[x].enter = v
  /\ \A x \in S : u[x].loaded => u[x].enter <= v

\* While nothing changes, the walk has gone and goes to the unit that was active
\* last, and a unit it has read from stays loaded.
Steady ==
  quiet =>
    /\ \A k \in 1 .. Len(walk.out) - 1 :
         Top(unit, after[walk.out[k].unit], unit[walk.out[k + 1].unit].enter)
    /\ walk.pc \in {"visit", "exit", "enter"} /\ walk.out # << >> =>
         unit[walk.cur].loaded /\ Top(unit, after[LastHop], unit[walk.cur].enter)
    /\ walk.pc \in {"exit", "enter", "after"} => unit[walk.cur].loaded
    /\ walk.pc = "scan" =>
         /\ Top(unit, after[walk.cur] \ walk.scan, walk.when)
         /\ walk.next = 0 => walk.when = 0
         /\ walk.next # 0 => unit[walk.next].loaded /\ unit[walk.next].enter = walk.when
    /\ walk.pc = "done" /\ Len(walk.out) < MaxDepth =>
         /\ walk.out # << >>
         /\ \/ Top(unit, after[LastHop], 0)
            \/ /\ walk.cur \in after[LastHop] /\ walk.cur \in Boot!visited
               /\ Top(unit, after[LastHop], unit[walk.cur].enter)
    /\ walk.pc = "error" => ~unit[Target].loaded

\* The predecessors are read one by one, in the order of their names.
LEMMA LeastUnit ==
  ASSUME Boot!BootAssumption, NEW S \in SUBSET Units, S # {}
  PROVE  Boot!Min(S) \in S
<1>1. S \in SUBSET Nat
  BY DEF Boot!BootAssumption
<1> QED
  BY <1>1, LeastNat DEF Boot!Min

\* Every step keeps the types, and the depth limit.
LEMMA BootTypedStep ==
  ASSUME Boot!BootAssumption, BootTyped, Chained, [Boot!Next]_Boot!vars
  PROVE  BootTyped'
<1> DEFINE Walk == [pc : Boot!Steps, cur : Units, out : Seq(Hops), exit : Nat,
                    scan : SUBSET Units, next : Units \cup {0}, when : Nat]
<1>0. /\ walk \in Walk /\ unit \in [Units -> [loaded : BOOLEAN, exit : Nat, enter : Nat]]
      /\ after \in [Units -> SUBSET Units] /\ Len(walk.out) <= MaxDepth
      /\ Units \subseteq Nat /\ BootEnd \in Nat /\ MaxChanges \in Nat /\ MaxDepth \in Nat
      /\ unitChanges \in 0 .. MaxChanges
  BY DEF BootTyped, Boot!BootAssumption
<1>1. CASE UNCHANGED Boot!vars
  BY <1>1 DEF BootTyped, Boot!vars
<1>2. ASSUME NEW u \in Units, NEW r \in [loaded : BOOLEAN, exit : Nat, enter : Nat],
             Boot!Change(u, r)
      PROVE  BootTyped'
  <2>1. quiet' \in BOOLEAN
    BY <1>2 DEF Boot!Change
  <2>2. unitChanges' \in 0 .. MaxChanges
    BY <1>0, <1>2 DEF Boot!Change
  <2>3. unit' \in [Units -> [loaded : BOOLEAN, exit : Nat, enter : Nat]]
    BY <1>0, <1>2 DEF Boot!Change
  <2> QED
    BY <1>2, <2>1, <2>2, <2>3 DEF BootTyped, Boot!Change
<1>3. Boot!Now \in Nat
  BY <1>0 DEF Boot!Now
<1>4. ASSUME NEW u \in Units, Boot!Activating(u) \/ Boot!Active(u) \/ Boot!Unload(u)
      PROVE  BootTyped'
  BY <1>0, <1>2, <1>3, <1>4 DEF Boot!Activating, Boot!Active, Boot!Unload
<1>5. ASSUME NEW w \in Walk, Len(w.out) <= MaxDepth, Boot!Go(w)
      PROVE  BootTyped'
  BY <1>5 DEF BootTyped, Boot!Go
<1>6. CASE Boot!Call
  BY <1>0, <1>5, <1>6 DEF Boot!Call, Boot!Steps
<1>7. CASE Boot!Visit
  BY <1>0, <1>5, <1>7 DEF Boot!Visit, Boot!Steps
<1>8. CASE Boot!ReadExit
  BY <1>0, <1>5, <1>8 DEF Boot!ReadExit, Boot!Steps
<1>9. CASE Boot!ReadEnter
  <2>1. CASE unit[walk.cur].loaded
    <3> DEFINE e == [unit |-> walk.cur, activeAt |-> unit[walk.cur].enter,
                     startup |-> Boot!StartupUsec(walk.exit, unit[walk.cur].enter)]
    <3>1. Boot!StartupUsec(walk.exit, unit[walk.cur].enter) \in Nat
      <4>1. PICK x \in Nat : x = walk.exit
        BY <1>0
      <4>2. PICK n \in Nat : n = unit[walk.cur].enter
        BY <1>0
      <4> QED
        BY <4>1, <4>2 DEF Boot!StartupUsec
    <3>2. e \in Hops
      BY <1>0, <3>1 DEF Hops
    <3>3. Boot!Go([walk EXCEPT !.pc = "after", !.out = Append(@, e)])
      BY <1>9, <2>1 DEF Boot!ReadEnter
    <3> HIDE DEF e
    <3>4. /\ walk.out \in Seq(Hops) /\ Append(walk.out, e) \in Seq(Hops)
          /\ Len(Append(walk.out, e)) = Len(walk.out) + 1
      BY <1>0, <3>2
    <3>5. Len(walk.out) \in Nat /\ Len(walk.out) # MaxDepth
      BY <1>9, <3>4 DEF Chained, Boot!ReadEnter
    <3>6. Len(Append(walk.out, e)) <= MaxDepth
      BY <1>0, <3>4, <3>5
    <3> QED
      BY <1>0, <1>5, <3>3, <3>4, <3>6 DEF Boot!Steps
  <2>2. CASE ~unit[walk.cur].loaded
    BY <1>0, <1>5, <1>9, <2>2 DEF Boot!ReadEnter, Boot!Steps
  <2> QED
    BY <2>1, <2>2
<1>10. CASE Boot!ReadAfter
  BY <1>0, <1>5, <1>10 DEF Boot!ReadAfter, Boot!Steps
<1>11. CASE Boot!Scan
  <2> DEFINE x == Boot!Min(walk.scan)
  <2>1. x \in Units
    BY <1>0, <1>11, LeastUnit DEF Boot!Scan
  <2>2. Boot!Go([walk EXCEPT !.scan = @ \ {x},
                             !.next = IF Boot!Later(x) THEN x ELSE @,
                             !.when = IF Boot!Later(x) THEN unit[x].enter ELSE @])
    BY <1>11 DEF Boot!Scan
  <2> HIDE DEF x
  <2> QED
    BY <1>0, <1>5, <2>1, <2>2
<1>12. CASE Boot!Hop
  BY <1>0, <1>5, <1>12 DEF Boot!Hop, Boot!Steps
<1> QED
  BY <1>1, <1>4, <1>6, <1>7, <1>8, <1>9, <1>10, <1>11, <1>12 DEF Boot!Next, Boot!Walk

\* The walk follows After= from the target and visits no unit twice, whatever
\* happens to the units.
LEMMA ChainedStep ==
  ASSUME Boot!BootAssumption, BootTyped, Chained, [Boot!Next]_Boot!vars
  PROVE  Chained'
<1> USE DEF Chained
<1>0. /\ walk \in [pc : Boot!Steps, cur : Units, out : Seq(Hops), exit : Nat,
                   scan : SUBSET Units, next : Units \cup {0}, when : Nat]
      /\ after \in [Units -> SUBSET Units]
      /\ Units \subseteq Nat /\ MaxDepth \in Nat
  BY DEF BootTyped, Boot!BootAssumption
<1>1. CASE UNCHANGED <<walk, after>>
  BY <1>1 DEF LastHop, Boot!visited
<1>2. ASSUME Boot!Walk, walk'.out = walk.out
      PROVE  after' = after /\ LastHop' = LastHop /\ Boot!visited' = Boot!visited
  BY <1>2 DEF Boot!Walk, Boot!Call, Boot!Visit, Boot!ReadExit, Boot!ReadEnter, Boot!ReadAfter,
       Boot!Scan, Boot!Hop, Boot!Go, LastHop, Boot!visited
<1>3. CASE Boot!Call
  BY <1>0, <1>2, <1>3 DEF Boot!Call, Boot!Go, Boot!Walk
<1>4. CASE Boot!Visit
  BY <1>0, <1>2, <1>4 DEF Boot!Visit, Boot!Go, Boot!Walk, Boot!DeepEnough, Boot!Revisits
<1>5. CASE Boot!ReadExit
  BY <1>0, <1>2, <1>5 DEF Boot!ReadExit, Boot!Go, Boot!Walk
<1>6. CASE Boot!ReadEnter
  <2>1. CASE unit[walk.cur].loaded
    <3> DEFINE e == [unit |-> walk.cur, activeAt |-> unit[walk.cur].enter,
                     startup |-> Boot!StartupUsec(walk.exit, unit[walk.cur].enter)]
    <3>1. e.unit = walk.cur
      OBVIOUS
    <3>2. walk' = [walk EXCEPT !.pc = "after", !.out = Append(@, e)] /\ after' = after
      BY <1>6, <2>1 DEF Boot!ReadEnter, Boot!Go
    <3> HIDE DEF e
    <3>3. PICK n \in Nat : n = Len(walk.out)
      BY <1>0
    <3>4. /\ walk'.out = Append(walk.out, e) /\ Len(walk'.out) = n + 1
          /\ walk'.out[n + 1] = e /\ \A k \in 1 .. n : walk'.out[k] = walk.out[k]
          /\ walk'.cur = walk.cur /\ walk'.pc = "after" /\ walk'.out # << >>
      BY <1>0, <3>2, <3>3
    <3>5. walk.cur \notin Boot!visited /\ (walk.out # << >> => walk.cur \in after[LastHop])
      BY <1>6 DEF Boot!ReadEnter
    <3>6. LastHop' = walk.cur
      BY <3>1, <3>4 DEF LastHop
    <3>7. \A k \in 1 .. n : walk.out[k].unit # walk.cur
      BY <3>3, <3>5 DEF Boot!visited
    <3>8. walk'.out[1].unit = Target
      <4>1. CASE n = 0
        <5>1. walk.out = << >>
          BY <1>0, <3>3, <4>1, EmptySeq
        <5> QED
          BY <3>1, <3>4, <4>1, <5>1
      <4>2. CASE n # 0
        <5>1. walk.out # << >>
          BY <1>0, <3>3, <4>2
        <5> QED
          BY <3>4, <4>2, <5>1
      <4> QED
        BY <4>1, <4>2
    <3>9. ASSUME NEW k \in 1 .. n
          PROVE  walk'.out[k + 1].unit \in after'[walk'.out[k].unit]
      <4>1. CASE k = n
        <5>1. walk'.out[k] = walk.out[n] /\ walk'.out[k + 1].unit = walk.cur
          BY <3>1, <3>4, <4>1
        <5>2. walk.out # << >> /\ LastHop = walk.out[n].unit
          BY <1>0, <3>3, <4>1 DEF LastHop
        <5> QED
          BY <3>2, <3>5, <5>1, <5>2
      <4>2. CASE k # n
        BY <3>2, <3>3, <3>4, <4>2
      <4> QED
        BY <4>1, <4>2
    <3>10. ASSUME NEW j \in 1 .. n + 1, NEW k \in 1 .. n + 1,
                  walk'.out[j].unit = walk'.out[k].unit
           PROVE  j = k
      <4>1. CASE j # n + 1 /\ k # n + 1
        <5>1. j \in 1 .. n /\ k \in 1 .. n
          BY <4>1
        <5> QED
          BY <3>3, <3>4, <3>10, <5>1
      <4>2. CASE j = n + 1 /\ k # n + 1
        <5>1. k \in 1 .. n
          BY <4>2
        <5> QED
          BY <3>1, <3>4, <3>7, <3>10, <4>2, <5>1
      <4>3. CASE j # n + 1 /\ k = n + 1
        <5>1. j \in 1 .. n
          BY <4>3
        <5> QED
          BY <3>1, <3>4, <3>7, <3>10, <4>3, <5>1
      <4> QED
        BY <4>1, <4>2, <4>3
    <3> QED
      BY <3>4, <3>6, <3>8, <3>9, <3>10
  <2>2. CASE ~unit[walk.cur].loaded
    BY <1>0, <1>2, <1>6, <2>2 DEF Boot!ReadEnter, Boot!Go, Boot!Walk
  <2> QED
    BY <2>1, <2>2
<1>7. CASE Boot!ReadAfter
  BY <1>0, <1>2, <1>7 DEF Boot!ReadAfter, Boot!Go, Boot!Walk
<1>8. CASE Boot!Scan
  <2> DEFINE x == Boot!Min(walk.scan)
  <2>1. x \in walk.scan
    BY <1>0, <1>8, LeastUnit DEF Boot!Scan
  <2>2. walk' = [walk EXCEPT !.scan = @ \ {x},
                             !.next = IF Boot!Later(x) THEN x ELSE @,
                             !.when = IF Boot!Later(x) THEN unit[x].enter ELSE @]
    BY <1>8 DEF Boot!Scan, Boot!Go
  <2> HIDE DEF x
  <2>3. /\ walk'.out = walk.out /\ walk'.pc = "scan" /\ walk'.cur = walk.cur
        /\ walk'.scan \subseteq walk.scan /\ walk'.next \in {walk.next, x} /\ walk.pc = "scan"
    BY <1>0, <1>8, <2>2 DEF Boot!Scan
  <2> QED
    BY <1>2, <1>8, <2>1, <2>3 DEF Boot!Walk
<1>9. CASE Boot!Hop
  BY <1>0, <1>2, <1>9 DEF Boot!Hop, Boot!Go, Boot!Walk
<1> QED
  BY <1>1, <1>3, <1>4, <1>5, <1>6, <1>7, <1>8, <1>9
     DEF Boot!Next, Boot!Walk, Boot!Activating, Boot!Active, Boot!Unload, Boot!Change, Boot!vars

\* Of a set of activation times the greatest is the latest.
LEMMA TopLatest ==
  ASSUME Boot!BootAssumption, BootTyped, NEW u \in Units, NEW v \in Nat, Top(unit, after[u], v)
  PROVE  Boot!Latest(u) = v
<1> DEFINE T == {0} \cup {unit[x].enter : x \in {y \in after[u] : unit[y].loaded}}
<1>1. \A x \in after[u] : unit[x].enter \in Nat
  BY DEF BootTyped
<1>2. v \in T /\ \A t \in T : t <= v
  BY <1>1 DEF Top
<1>3. T \subseteq Nat
  BY <1>1
<1> HIDE DEF T
<1>4. \A w \in T : (\A t \in T : w >= t) => w = v
  BY <1>2, <1>3
<1>5. \A t \in T : v >= t
  BY <1>2, <1>3
<1>6. Boot!Max(T) = v
  BY <1>2, <1>4, <1>5 DEF Boot!Max
<1> QED
  BY <1>6 DEF Boot!Latest, T

\* One more unit is read: it is the latest so far, or it is not.
LEMMA TopAdds ==
  ASSUME Boot!BootAssumption, BootTyped, NEW S \in SUBSET Units, NEW v \in Nat, Top(unit, S, v),
         NEW x \in Units
  PROVE  /\ unit[x].loaded /\ unit[x].enter > v => Top(unit, S \cup {x}, unit[x].enter)
         /\ ~(unit[x].loaded /\ unit[x].enter > v) => Top(unit, S \cup {x}, v)
<1>1. \A y \in Units : unit[y].enter \in Nat
  BY DEF BootTyped
<1> QED
  BY <1>1 DEF Top

\* As long as nothing changes, the walk takes the bottleneck at every hop.
LEMMA SteadyStep ==
  ASSUME Boot!BootAssumption, BootTyped, Chained, Steady, [Boot!Next]_Boot!vars
  PROVE  Steady'
<1>0. /\ walk \in [pc : Boot!Steps, cur : Units, out : Seq(Hops), exit : Nat,
                   scan : SUBSET Units, next : Units \cup {0}, when : Nat]
      /\ after \in [Units -> SUBSET Units] /\ \A u \in Units : unit[u].enter \in Nat
      /\ Units \subseteq Nat \ {0} /\ MaxDepth \in Nat
  BY DEF BootTyped, Boot!BootAssumption
<1>1. CASE UNCHANGED Boot!vars
  BY <1>1 DEF LastHop, Boot!visited, Boot!vars, Steady, Top
<1>2. CASE \E u \in Units : Boot!Activating(u) \/ Boot!Active(u) \/ Boot!Unload(u)
  <2>1. walk' = walk /\ walk.pc \notin {"done", "error"} /\ (quiet' => walk.pc = "call")
    BY <1>2 DEF Boot!Activating, Boot!Active, Boot!Unload, Boot!Change
  <2>2. SUFFICES ASSUME quiet' PROVE Steady'
    BY DEF Steady
  <2>3. walk'.pc = "call" /\ walk'.out = << >>
    BY <2>1, <2>2 DEF Chained
  <2>4. 1 .. Len(walk'.out) - 1 = {}
    BY <2>3
  <2> QED
    BY <2>3, <2>4 DEF Steady
<1>3. CASE Boot!Walk
  <2>1. UNCHANGED <<after, unit, quiet>>
    BY <1>3 DEF Boot!Walk, Boot!Call, Boot!Visit, Boot!ReadExit, Boot!ReadEnter,
         Boot!ReadAfter, Boot!Scan, Boot!Hop, Boot!Go
  <2>2. SUFFICES ASSUME quiet PROVE Steady'
    BY <2>1 DEF Steady
  <2>4. ASSUME walk'.out = walk.out
        PROVE  /\ \A k \in 1 .. Len(walk'.out) - 1 :
                    Top(unit', after'[walk'.out[k].unit], unit'[walk'.out[k + 1].unit].enter)
               /\ LastHop' = LastHop /\ Boot!visited' = Boot!visited
    BY <2>1, <2>2, <2>4 DEF Steady, LastHop, Boot!visited
  <2>5. CASE Boot!Call
    <3>1. walk'.out = walk.out /\ walk'.pc = "visit" /\ walk'.out = << >>
      BY <1>0, <2>5 DEF Boot!Call, Boot!Go, Chained
    <3> QED
      BY <2>4, <3>1 DEF Steady
  <2>6. CASE Boot!Visit
    <3>1. /\ walk'.out = walk.out /\ walk'.cur = walk.cur /\ walk.pc = "visit"
          /\ walk'.pc \in {"done", "exit", "error"}
      BY <1>0, <2>6 DEF Boot!Visit, Boot!Go
    <3>2. CASE Boot!DeepEnough \/ Boot!Revisits
      <4>1. walk'.pc = "done"
        BY <1>0, <2>6, <3>2 DEF Boot!Visit, Boot!Go
      <4>2. ASSUME Len(walk.out) < MaxDepth
            PROVE  /\ walk.out # << >> /\ walk.cur \in after[LastHop]
                   /\ walk.cur \in Boot!visited
                   /\ Top(unit, after[LastHop], unit[walk.cur].enter)
        <5>1. walk.cur \in Boot!visited
          BY <1>0, <3>2, <4>2 DEF Boot!DeepEnough, Boot!Revisits
        <5>2. walk.out # << >>
          BY <5>1 DEF Boot!visited
        <5> QED
          BY <2>2, <3>1, <5>1, <5>2 DEF Steady, Chained
      <4> QED
        BY <2>1, <2>4, <3>1, <4>1, <4>2 DEF Steady
    <3>3. CASE ~(Boot!DeepEnough \/ Boot!Revisits)
      <4>1. walk'.pc = IF unit[walk.cur].loaded THEN "exit" ELSE "error"
        BY <1>0, <2>6, <3>3 DEF Boot!Visit, Boot!Go
      <4>2. walk.out = << >> \/ unit[walk.cur].loaded
        BY <2>2, <3>1 DEF Steady
      <4>3. walk.out = << >> => walk.cur = Target
        BY DEF Chained
      <4>4. CASE unit[walk.cur].loaded
        <5>1. walk'.pc = "exit"
          BY <4>1, <4>4
        <5> QED
          BY <2>1, <2>2, <2>4, <3>1, <4>4, <5>1 DEF Steady
      <4>5. CASE ~unit[walk.cur].loaded
        <5>1. walk'.pc = "error"
          BY <4>1, <4>5
        <5> QED
          BY <2>1, <2>4, <3>1, <4>2, <4>3, <4>5, <5>1 DEF Steady
      <4> QED
        BY <4>4, <4>5
    <3> QED
      BY <3>2, <3>3
  <2>7. CASE Boot!ReadExit
    <3>1. unit[walk.cur].loaded /\ walk.pc = "exit"
      BY <2>2, <2>7 DEF Boot!ReadExit, Steady
    <3>2. walk'.out = walk.out /\ walk'.cur = walk.cur /\ walk'.pc = "enter"
      BY <1>0, <2>7, <3>1 DEF Boot!ReadExit, Boot!Go
    <3> QED
      BY <2>1, <2>2, <2>4, <3>1, <3>2 DEF Steady
  <2>8. CASE Boot!ReadEnter
    <3>1. unit[walk.cur].loaded /\ walk.pc = "enter"
      BY <2>2, <2>8 DEF Boot!ReadEnter, Steady
    <3> DEFINE e == [unit |-> walk.cur, activeAt |-> unit[walk.cur].enter,
                     startup |-> Boot!StartupUsec(walk.exit, unit[walk.cur].enter)]
    <3>2. e.unit = walk.cur
      OBVIOUS
    <3>3. walk' = [walk EXCEPT !.pc = "after", !.out = Append(@, e)]
      BY <2>8, <3>1 DEF Boot!ReadEnter, Boot!Go
    <3> HIDE DEF e
    <3>4. PICK n \in Nat : n = Len(walk.out)
      BY <1>0
    <3>5. /\ walk'.out = Append(walk.out, e) /\ Len(walk'.out) = n + 1
          /\ walk'.out[n + 1] = e /\ \A k \in 1 .. n : walk'.out[k] = walk.out[k]
          /\ walk'.cur = walk.cur /\ walk'.pc = "after"
      BY <1>0, <3>3, <3>4
    <3>6. ASSUME NEW k \in 1 .. n
          PROVE  Top(unit', after'[walk'.out[k].unit], unit'[walk'.out[k + 1].unit].enter)
      <4>1. CASE k = n
        <5>1. walk.out # << >> /\ LastHop = walk.out[n].unit
          BY <1>0, <3>4, <4>1 DEF LastHop
        <5>2. Top(unit, after[LastHop], unit[walk.cur].enter)
          BY <2>2, <3>1, <5>1 DEF Steady
        <5>3. /\ after'[walk'.out[k].unit] = after[LastHop]
              /\ unit'[walk'.out[k + 1].unit].enter = unit[walk.cur].enter
          BY <2>1, <3>2, <3>5, <4>1, <5>1
        <5> QED
          BY <2>1, <5>2, <5>3
      <4>2. CASE k # n
        <5>1. k \in 1 .. n - 1 /\ k + 1 \in 1 .. n
          BY <4>2
        <5>2. Top(unit, after[walk.out[k].unit], unit[walk.out[k + 1].unit].enter)
          BY <2>2, <3>4, <5>1 DEF Steady
        <5>3. /\ after'[walk'.out[k].unit] = after[walk.out[k].unit]
              /\ unit'[walk'.out[k + 1].unit].enter = unit[walk.out[k + 1].unit].enter
          BY <2>1, <3>5, <5>1
        <5> QED
          BY <2>1, <5>2, <5>3
      <4> QED
        BY <4>1, <4>2
    <3>7. Len(walk'.out) - 1 = n
      BY <3>5
    <3> QED
      BY <2>1, <3>1, <3>5, <3>6, <3>7 DEF Steady
  <2>9. CASE Boot!ReadAfter
    <3>1. unit[walk.cur].loaded /\ walk.pc = "after" /\ walk.out # << >> /\ walk.cur = LastHop
      BY <2>2, <2>9 DEF Boot!ReadAfter, Steady, Chained
    <3>2. CASE after[walk.cur] = {}
      <4>1. walk'.out = walk.out /\ walk'.pc = "done"
        BY <1>0, <2>9, <3>2 DEF Boot!ReadAfter, Boot!Go
      <4>2. Top(unit, after[LastHop], 0)
        BY <3>1, <3>2 DEF Top
      <4> QED
        BY <2>1, <2>4, <3>1, <4>1, <4>2 DEF Steady
    <3>3. CASE after[walk.cur] # {}
      <4>1. /\ walk'.out = walk.out /\ walk'.pc = "scan" /\ walk'.cur = walk.cur
            /\ walk'.scan = after[walk.cur] /\ walk'.next = 0 /\ walk'.when = 0
        BY <1>0, <2>9, <3>1, <3>3 DEF Boot!ReadAfter, Boot!Go
      <4>2. after'[walk'.cur] \ walk'.scan = {} /\ Top(unit', {}, 0)
        BY <2>1, <4>1 DEF Top
      <4> QED
        BY <2>1, <2>4, <4>1, <4>2 DEF Steady
    <3> QED
      BY <3>2, <3>3
  <2>10. CASE Boot!Scan
    <3> DEFINE x == Boot!Min(walk.scan)
    <3>1. x \in walk.scan /\ walk.pc = "scan"
      BY <1>0, <2>10, LeastUnit DEF Boot!Scan
    <3>2. walk' = [walk EXCEPT !.scan = @ \ {x},
                               !.next = IF Boot!Later(x) THEN x ELSE @,
                               !.when = IF Boot!Later(x) THEN unit[x].enter ELSE @]
      BY <2>10 DEF Boot!Scan, Boot!Go
    <3> HIDE DEF x
    <3>3. /\ walk'.out = walk.out /\ walk'.pc = "scan" /\ walk'.cur = walk.cur
          /\ walk'.scan = walk.scan \ {x}
          /\ walk'.next = IF Boot!Later(x) THEN x ELSE walk.next
          /\ walk'.when = IF Boot!Later(x) THEN unit[x].enter ELSE walk.when
      BY <1>0, <3>1, <3>2
    <3>4. /\ Top(unit, after[walk.cur] \ walk.scan, walk.when)
          /\ walk.next = 0 => walk.when = 0
          /\ walk.next # 0 => unit[walk.next].loaded /\ unit[walk.next].enter = walk.when
      BY <2>2, <3>1 DEF Steady
    <3>5. PICK S \in SUBSET Units : S = after[walk.cur] \ walk.scan
      BY <1>0
    <3>6. x \in after[walk.cur] /\ x \in Units /\ x # 0
      BY <1>0, <3>1 DEF Chained
    <3>7. after'[walk'.cur] \ walk'.scan = S \cup {x}
      BY <2>1, <3>3, <3>5, <3>6
    <3>8. Top(unit', S \cup {x}, walk'.when)
      BY <1>0, <2>1, <3>3, <3>4, <3>5, <3>6, TopAdds DEF Boot!Later
    <3>9. /\ walk'.next = 0 => walk'.when = 0
          /\ walk'.next # 0 => unit'[walk'.next].loaded /\ unit'[walk'.next].enter = walk'.when
      BY <2>1, <3>3, <3>4, <3>6 DEF Boot!Later
    <3> QED
      BY <2>1, <2>4, <3>3, <3>7, <3>8, <3>9 DEF Steady
  <2>11. CASE Boot!Hop
    <3>1. /\ walk.pc = "scan" /\ walk.scan = {} /\ walk.out # << >> /\ walk.cur = LastHop
          /\ walk'.out = walk.out
      BY <1>0, <2>11 DEF Boot!Hop, Boot!Go, Chained
    <3>2. /\ Top(unit, after[LastHop], walk.when)
          /\ walk.next = 0 => walk.when = 0
          /\ walk.next # 0 => unit[walk.next].loaded /\ unit[walk.next].enter = walk.when
      <4>1. after[LastHop] \ walk.scan = after[LastHop]
        BY <3>1
      <4> QED
        BY <2>2, <3>1, <4>1 DEF Steady
    <3>3. CASE walk.next = 0
      <4>1. walk'.pc = "done"
        BY <1>0, <2>11, <3>3 DEF Boot!Hop, Boot!Go
      <4> QED
        BY <2>1, <2>4, <3>1, <3>2, <3>3, <4>1 DEF Steady
    <3>4. CASE walk.next # 0
      <4>1. walk'.pc = "visit" /\ walk'.cur = walk.next
        BY <1>0, <2>11, <3>4 DEF Boot!Hop, Boot!Go
      <4> QED
        BY <2>1, <2>4, <3>1, <3>2, <3>4, <4>1 DEF Steady
    <3> QED
      BY <3>3, <3>4
  <2> QED
    BY <1>3, <2>5, <2>6, <2>7, <2>8, <2>9, <2>10, <2>11 DEF Boot!Walk
<1> QED
  BY <1>1, <1>2, <1>3 DEF Boot!Next

\* systemd's state is read from the start.
LEMMA BootBegins ==
  ASSUME Boot!BootAssumption, Boot!Init
  PROVE  BootTyped /\ Chained /\ Steady
<1>1. /\ walk = [pc |-> "call", cur |-> Target, out |-> << >>, exit |-> 0,
                 scan |-> {}, next |-> 0, when |-> 0]
      /\ unitChanges = 0 /\ quiet = TRUE /\ bt \in Phases /\ after \in Graphs
  BY DEF Boot!Init
<1>2. unit \in [Units -> [loaded : BOOLEAN, exit : Nat, enter : Nat]]
  <2>1. \A r \in Boot!Timings : Boot!Started(r) \in [loaded : BOOLEAN, exit : Nat, enter : Nat]
    BY DEF Boot!BootAssumption, Boot!Timings, Boot!Started
  <2> QED
    BY <2>1 DEF Boot!Init
<1>3. BootTyped
  BY <1>1, <1>2 DEF BootTyped, Boot!BootAssumption, Boot!Steps
<1>4. Chained
  BY <1>1 DEF Chained
<1>5. Steady
  BY <1>1 DEF Steady
<1> QED
  BY <1>3, <1>4, <1>5

LEMMA SameCount == ASSUME NEW S PROVE Boot!Cardinality(S) = Cardinality(S)
BY DEF Boot!Cardinality, Cardinality

\* A path that visits no unit twice has as many units as hops.
LEMMA ChainLength ==
  ASSUME BootTyped, Chained
  PROVE  /\ Cardinality(Boot!visited) = Len(walk.out)
         /\ Len(Boot!chain) = Len(walk.out)
         /\ \A k \in 1 .. Len(walk.out) : Boot!chain[k] = walk.out[k].unit
<1>1. walk.out \in Seq(Hops) /\ Len(walk.out) \in Nat
  BY DEF BootTyped
<1> DEFINE f == [k \in 1 .. Len(walk.out) |-> walk.out[k].unit]
<1>2. f \in Bijection(1 .. Len(walk.out), Boot!visited)
  <2>1. f \in Surjection(1 .. Len(walk.out), Boot!visited)
    BY DEF Surjection, Boot!visited
  <2>2. f \in Injection(1 .. Len(walk.out), Boot!visited)
    BY DEF Injection, IsInjective, Boot!visited, Chained
  <2> QED
    BY <2>1, <2>2 DEF Bijection
<1>3. Cardinality(Boot!visited) = Len(walk.out)
  BY <1>1, <1>2, FS_CountingElements DEF ExistsBijection
<1>4. Len(Boot!chain) = Len(walk.out)
  BY <1>1 DEF Boot!chain
<1> QED
  BY <1>3, <1>4 DEF Boot!chain

\* composeBootTime: the phases add up.
LEMMA PhasesAddUp ==
  ASSUME BootTyped
  PROVE  Boot!TotalIsWallTime
<1> SUFFICES ASSUME bt.initrd <= bt.userspace, bt.userspace <= bt.finish
             PROVE  Boot!total(bt) = Boot!Max({bt.firmware, bt.loader}) + bt.finish
  BY DEF Boot!TotalIsWallTime
<1>1. PICK f, l, i, u, e \in Nat : /\ f = bt.firmware /\ l = bt.loader /\ i = bt.initrd
                                   /\ u = bt.userspace /\ e = bt.finish
  BY DEF BootTyped
<1>2. Boot!Max({f, l}) = IF f > l THEN f ELSE l
  <2>1. \A w \in {f, l} : (\A t \in {f, l} : w >= t) => w = IF f > l THEN f ELSE l
    BY <1>1
  <2>2. \A t \in {f, l} : (IF f > l THEN f ELSE l) >= t
    BY <1>1
  <2> QED
    BY <2>1, <2>2 DEF Boot!Max
<1>3. PICK p : p = Boot!PhasesOf(bt)
  OBVIOUS
<1>4. /\ p.firmware = IF f > l THEN f - l ELSE 0
      /\ p.loader = l
      /\ p.kernel = IF i > 0 THEN i ELSE u
      /\ p.initrd = IF i > 0 /\ u > i THEN u - i ELSE 0
      /\ p.userspace = IF e > u THEN e - u ELSE 0
  BY <1>1, <1>3 DEF Boot!PhasesOf
<1>5. /\ p.firmware + p.loader = IF f > l THEN f ELSE l
      /\ p.firmware \in Nat /\ p.loader \in Nat
  BY <1>1, <1>4
<1>6. p.kernel + p.initrd = u /\ p.kernel \in Nat /\ p.initrd \in Nat
  BY <1>1, <1>4
<1>7. p.userspace = e - u
  BY <1>1, <1>4
<1>8. p.firmware + p.loader + p.kernel + p.initrd + p.userspace = (IF f > l THEN f ELSE l) + e
  BY <1>1, <1>5, <1>6, <1>7
<1> QED
  BY <1>1, <1>2, <1>3, <1>8 DEF Boot!total

\* walkCriticalChain, UnitTimings, UnitAfter: the types of the walk's data, and
\* no chain is longer than maxDepth.
THEOREM BootTypeCorrect ==
  ASSUME Boot!BootAssumption
  PROVE  Boot!Spec => []Boot!TypeOK
<1>1. BootTyped => Boot!TypeOK
  <2> SUFFICES ASSUME BootTyped PROVE Boot!TypeOK
    OBVIOUS
  <2>1. walk.out \in Seq(Hops)
    BY DEF BootTyped
  <2>2. \A k \in 1 .. Len(walk.out) : walk.out[k].startup \in Nat
    <3>1. \A h \in Hops : h.startup \in Nat
      BY DEF Hops
    <3> QED
      BY <2>1, <3>1
  <2> QED
    BY <2>2 DEF BootTyped, Boot!TypeOK
<1>2. Boot!Init => BootTyped /\ Chained
  BY BootBegins
<1>3. BootTyped /\ Chained /\ [Boot!Next]_Boot!vars => (BootTyped /\ Chained)'
  BY BootTypedStep, ChainedStep
<1> QED
  BY <1>1, <1>2, <1>3, PTL DEF Boot!Spec

\* boot_critical_chain and boot_time: however the units change under the walk, the
\* chain is a path of After= from the target that names no unit twice; if they
\* do not, it takes the unit that was active last at every hop and ends where it
\* must; an error means that a unit was not there; the phases add up.
THEOREM BootIsTrue ==
  ASSUME Boot!BootAssumption
  PROVE  Boot!Spec => []Boot!BootTrue
<1>1. Boot!Init => BootTyped /\ Chained /\ Steady
  BY BootBegins
<1>2. BootTyped /\ Chained /\ Steady /\ [Boot!Next]_Boot!vars => (BootTyped /\ Chained /\ Steady)'
  BY BootTypedStep, ChainedStep, SteadyStep
<1>3. BootTyped /\ Chained /\ Steady => Boot!BootTrue
  <2> SUFFICES ASSUME BootTyped, Chained, Steady
               PROVE  Boot!BootTrue
    OBVIOUS
  <2>0. PICK n \in Nat : n = Len(walk.out)
    BY DEF BootTyped
  <2>1. /\ Cardinality(Boot!visited) = n /\ Len(Boot!chain) = n
        /\ \A k \in 1 .. n : Boot!chain[k] = walk.out[k].unit
        /\ \A k \in 1 .. n - 1 : /\ Boot!chain[k] = walk.out[k].unit
                                 /\ Boot!chain[k + 1] = walk.out[k + 1].unit
    BY <2>0, ChainLength
  <2>2. Boot!chain # << >> <=> n # 0
    BY <2>1
  <2>3. walk.out # << >> <=> n # 0
    BY <2>0, EmptySeq DEF BootTyped
  <2>4. \A k \in 1 .. n : walk.out[k].unit \in Units
    <3>1. \A h \in Hops : h.unit \in Units
      BY DEF Hops
    <3>2. walk.out \in Seq(Hops)
      BY DEF BootTyped
    <3> QED
      BY <2>0, <3>1, <3>2
  <2>5. \A u \in Units : unit[u].enter \in Nat
    BY DEF BootTyped
  <2>6. Boot!ChainSound
    <3>1. \A k \in 1 .. n - 1 : Boot!chain[k + 1] \in after[Boot!chain[k]]
      BY <2>0, <2>1 DEF Chained
    <3>2. n # 0 => Boot!chain[1] = Target
      BY <2>0, <2>1, <2>3 DEF Chained
    <3> QED
      BY <2>1, <2>2, <3>1, <3>2, SameCount DEF Boot!ChainSound
  <2>7. Boot!Bottleneck
    <3> SUFFICES ASSUME quiet PROVE Boot!Bottleneck
      BY DEF Boot!Bottleneck
    <3>1. ASSUME NEW k \in 1 .. n - 1
          PROVE  unit[Boot!chain[k + 1]].enter = Boot!Latest(Boot!chain[k])
      <4>1. Top(unit, after[walk.out[k].unit], unit[walk.out[k + 1].unit].enter)
        BY <2>0 DEF Steady
      <4>2. walk.out[k].unit \in Units /\ walk.out[k + 1].unit \in Units
        BY <2>4
      <4> QED
        BY <2>1, <2>5, <4>1, <4>2, TopLatest
    <3>2. ASSUME walk.pc = "done", n < MaxDepth,
                 Boot!Latest(Boot!chain[Len(Boot!chain)]) > 0
          PROVE  \E x \in after[Boot!chain[n]] \cap Boot!visited :
                   unit[x].enter = Boot!Latest(Boot!chain[n])
      <4>1. /\ n # 0
            /\ \/ Top(unit, after[LastHop], 0)
               \/ /\ walk.cur \in after[LastHop] /\ walk.cur \in Boot!visited
                  /\ Top(unit, after[LastHop], unit[walk.cur].enter)
        BY <2>0, <2>3, <3>2 DEF Steady
      <4>2. LastHop = Boot!chain[n] /\ LastHop \in Units
        BY <2>0, <2>1, <2>4, <4>1 DEF LastHop
      <4>3. ~Top(unit, after[LastHop], 0)
        BY <2>1, <3>2, <4>2, TopLatest
      <4>4. walk.cur \in Units
        BY DEF BootTyped
      <4> QED
        BY <2>5, <4>1, <4>2, <4>3, <4>4, TopLatest
    <3> QED
      BY <2>1, <3>1, <3>2 DEF Boot!Bottleneck
  <2>8. Boot!ErrorNeedsRace
    BY DEF Boot!ErrorNeedsRace, Steady
  <2> QED
    BY <2>6, <2>7, <2>8, PhasesAddUp DEF Boot!BootTrue
<1> QED
  BY <1>1, <1>2, <1>3, PTL DEF Boot!Spec

-----------------------------------------------------------------------------
(***************************************************************************)
(* The tools that list                                                     *)
(***************************************************************************)

Reading == listCall.pc = "reading"

\* A call that has not begun has read nothing, and names that come with their attributes
\* are not read.
Unread ==
  /\ listCall.pc = "idle" => listCall.todo = {} /\ listCall.rows = {}
  /\ tool.gone = "listed" => listCall.todo = {}

\* What has been there since the call began is still to be read or has its row.
StableComes ==
  Reading => \A n \in stable :
    n \in listCall.todo \/ List!Row(n, world[n]) \in listCall.rows

\* A name that is half read has what was there at the first read.
HalfRead ==
  listCall.half =>
    /\ Reading /\ listCall.todo # {} /\ tool.gone # "listed"
    /\ IF listCall.first = List!None THEN tool.gone = "keep" /\ List!next \notin stable
       ELSE <<List!next, listCall.first.id>> \in seen
    /\ List!next \in stable => listCall.first = world[List!next]

\* What is there was there during the call.
PresentSeen == Reading => \A n \in List!Present : <<n, world[n].id>> \in seen

\* Every row has a source.
Sourced(row) ==
  \/ <<row.name, row.id>> \in seen
  \/ row.id = 0 /\ tool.gone = "keep" /\ row.name \notin stable

RowsSourced ==
  /\ Reading => \A row \in listCall.rows : Sourced(row) /\ row.name \notin listCall.todo
  /\ IsFiniteSet(listCall.rows)

ListInv ==
  /\ List!TypeOK /\ Unread /\ StableComes /\ HalfRead /\ PresentSeen /\ RowsSourced
  /\ List!StableListed /\ List!NothingInvented

LEMMA ListCount == ASSUME NEW S PROVE List!Cardinality(S) = Cardinality(S)
BY DEF List!Cardinality, Cardinality

LEMMA ListFinite == ASSUME NEW S PROVE List!IsFiniteSet(S) <=> IsFiniteSet(S)
BY DEF List!IsFiniteSet, IsFiniteSet

\* The tools that keep a row of what is gone do not filter, and those that make a size of
\* two reads leave out what is gone.
LEMMA ToolKinds ==
  ASSUME List!ListingAssumption, tool \in Tools
  PROVE  /\ tool.gone \in {"skip", "keep", "listed"} /\ tool.torn \in {"row", "timed"}
         /\ tool.filter \in {"text", "kind", "timed", "none"}
         /\ tool.limit \in {"either", "default", "bounded", "none"}
         /\ tool.gone = "keep" => tool.filter = "none"
         /\ tool.torn = "timed" => tool.gone = "skip"
<1>1. tool \in List!AllTools
  BY DEF List!ListingAssumption
<1> QED
  BY <1>1 DEF List!AllTools, List!list_processes, List!boot_blame, List!list_systemd_units,
     List!list_timers, List!list_packages, List!list_network_interfaces,
     List!list_pci_devices, List!list_usb_devices, List!list_sensors

LEMMA LimitTyped ==
  ASSUME List!ListingAssumption, tool \in Tools,
         arg.limit \in Limits, arg.top \in Limits \cup {0}
  PROVE  List!limit \in Int
<1>1. arg.limit \in Int /\ arg.top \in Int /\ Default \in Nat
  <2>1. Limits \subseteq Int /\ Default \in Nat
    BY DEF List!ListingAssumption
  <2>2. arg.limit \in Int
    BY <2>1
  <2>3. CASE arg.top \in Limits
    BY <2>1, <2>2, <2>3
  <2>4. CASE arg.top = 0
    BY <2>1, <2>2, <2>4
  <2> QED
    BY <2>3, <2>4
<1>2. tool.limit \in {"either", "default", "bounded", "none"}
  BY ToolKinds
<1>3. CASE tool.limit = "either"
  <2>1. List!limit = List!effectiveLimit(arg.limit, arg.top)
    BY <1>3, Zenon DEF List!limit
  <2> QED
    BY <1>1, <2>1 DEF List!effectiveLimit, List!NoLimit
<1>4. CASE tool.limit = "bounded"
  <2>1. List!limit = List!boundedLimit(arg.limit)
    BY <1>4 DEF List!limit
  <2> QED
    BY <1>1, <2>1 DEF List!boundedLimit, List!Refused
<1>5. CASE tool.limit = "default"
  <2>1. List!limit = List!defaultLimit(arg.limit)
    BY <1>5 DEF List!limit
  <2> QED
    BY <1>1, <2>1 DEF List!defaultLimit, List!Refused
<1>6. CASE tool.limit = "none"
  <2>1. List!limit = List!NoLimit
    BY <1>6 DEF List!limit
  <2> QED
    BY <2>1 DEF List!NoLimit
<1> QED
  BY <1>2, <1>3, <1>4, <1>5, <1>6

\* There is a next name while names are to be read.
LEMMA NextName ==
  ASSUME List!ListingAssumption, listCall.todo \in SUBSET Names, listCall.todo # {}
  PROVE  List!next \in listCall.todo
<1>1. listCall.todo \in SUBSET Nat
  BY DEF List!ListingAssumption
<1>2. \E n \in listCall.todo : \A m \in listCall.todo : n <= m
  BY <1>1, LeastNat
<1> QED
  BY <1>2, Zenon DEF List!next

\* What is sorted is listed whole.
LEMMA SortedWhole ==
  ASSUME NEW F, IsFiniteSet(F), NEW s \in List!Sorted(F)
  PROVE  /\ s \in Seq(F)
         /\ \A r \in F : \E i \in 1 .. Len(s) : s[i] = r
         /\ \A i, j \in 1 .. Len(s) : i < j => ~List!Before(s[j], s[i])
<1> DEFINE c == Cardinality(F)
<1>1. c \in Nat
  BY FS_CardinalityType
<1>2. /\ s \in [1 .. c -> F]
      /\ \A i, j \in 1 .. c : i < j => s[i] # s[j] /\ ~List!Before(s[j], s[i])
  BY ListCount DEF List!Sorted
<1>3. IsFiniteSet(1 .. c) /\ Cardinality(1 .. c) = c
  BY <1>1, FS_Interval
<1>4. s \in Injection(1 .. c, F)
  <2>1. ASSUME NEW i \in 1 .. c, NEW j \in 1 .. c, s[i] = s[j] PROVE i = j
    <3>1. ~(i < j) /\ ~(j < i)
      BY <1>2, <2>1
    <3> QED
      BY <1>1, <3>1
  <2> QED
    BY <1>2, <2>1 DEF Injection, IsInjective
<1>5. s \in Surjection(1 .. c, F)
  <2>1. Cardinality(1 .. c) = Cardinality(F)
    BY <1>3
  <2> HIDE DEF c
  <2> QED
    BY <1>4, <2>1, FS_Injection
<1> HIDE DEF c
<1>6. s \in Seq(F) /\ Len(s) = c
  BY <1>1, <1>2
<1> QED
  BY <1>2, <1>5, <1>6 DEF Surjection

\* Room for one identity more.
LEMMA MoreIds ==
  ASSUME List!TypeOK, ids' \in Nat, ids <= ids'
  PROVE  /\ List!Entries \subseteq List!Entries' /\ List!TheRows \subseteq List!TheRows'
         /\ listCall \in [pc : {"idle", "reading", "done", "refused"}, todo : SUBSET Names,
                          first : List!Entries', half : BOOLEAN, rows : SUBSET List!TheRows',
                          answer : Seq(List!TheRows')]
         /\ seen \subseteq Names \X (1 .. ids')
<1>1. ids \in Nat /\ seen \subseteq Names \X (1 .. ids)
  BY DEF List!TypeOK
<1>2. 1 .. ids \subseteq 1 .. ids' /\ 0 .. ids \subseteq 0 .. ids'
  BY <1>1
<1>3. List!Entries \subseteq List!Entries'
  BY <1>2 DEF List!Entries, List!None
<1>4. List!TheRows \subseteq List!TheRows'
  BY <1>2 DEF List!TheRows
<1>5. listCall \in [pc : {"idle", "reading", "done", "refused"}, todo : SUBSET Names,
                    first : List!Entries, half : BOOLEAN, rows : SUBSET List!TheRows,
                    answer : Seq(List!TheRows)]
  BY DEF List!TypeOK
<1>6. listCall.answer \in Seq(List!TheRows')
  BY <1>4, <1>5, SeqMonotonic
<1>7. Names \X (1 .. ids) \subseteq Names \X (1 .. ids')
  BY <1>2
<1> QED
  BY <1>1, <1>3, <1>4, <1>5, <1>6, <1>7

LEMMA ListBegins ==
  ASSUME List!ListingAssumption, List!Init
  PROVE  ListInv
<1>1. world \in [Names -> List!Entries]
  <2>1. PICK there \in SUBSET Names :
          \E s \in [there -> Sizes], k \in [there -> RowKinds] :
            world = [n \in Names |-> IF n \in there
                       THEN [id |-> 1, size |-> s[n], kind |-> k[n]] ELSE List!None]
    BY DEF List!Init
  <2>2. PICK s \in [there -> Sizes], k \in [there -> RowKinds] :
          world = [n \in Names |-> IF n \in there
                     THEN [id |-> 1, size |-> s[n], kind |-> k[n]] ELSE List!None]
    BY <2>1
  <2>3. 1 \in 1 .. ids
    <3>1. ids = 1
      BY DEF List!Init
    <3> QED
      BY <3>1
  <2>4. ASSUME NEW n \in there
        PROVE  [id |-> 1, size |-> s[n], kind |-> k[n]] \in List!Entries
    BY <2>3 DEF List!Entries
  <2>5. List!None \in List!Entries
    BY DEF List!Entries
  <2> HIDE DEF List!None, List!Entries
  <2> QED
    BY <2>2, <2>4, <2>5
<1>2. arg \in [limit : Limits, top : Limits \cup {0}, want : Wants \cup {""}]
  BY DEF List!Init
<1>3. List!TypeOK
  <2>1. listCall \in [pc : {"idle", "reading", "done", "refused"}, todo : SUBSET Names,
                      first : List!Entries, half : BOOLEAN, rows : SUBSET List!TheRows,
                      answer : Seq(List!TheRows)]
    <3>1. List!None \in List!Entries /\ << >> \in Seq(List!TheRows)
      BY DEF List!Entries
    <3> QED
      BY <3>1 DEF List!Init
  <2>2. ids \in Nat /\ listEvents \in 0 .. ListEvents /\ tool \in Tools
    <3>1. ids = 1 /\ listEvents = 0 /\ tool \in Tools
      BY DEF List!Init
    <3>2. ListEvents \in Nat
      BY DEF List!ListingAssumption
    <3> QED
      BY <3>1, <3>2
  <2>3. stable = {} /\ seen = {} /\ listCall.rows = {}
    BY DEF List!Init
  <2> QED
    BY <1>1, <1>2, <2>1, <2>2, <2>3 DEF List!TypeOK
<1>4. /\ listCall.pc = "idle" /\ listCall.half = FALSE /\ listCall.rows = {}
      /\ listCall.todo = {}
  BY DEF List!Init
<1> QED
  BY <1>3, <1>4, FS_EmptySet DEF ListInv, Unread, StableComes, HalfRead, PresentSeen,
     RowsSourced, Reading, List!StableListed, List!NothingInvented, List!Done

\* Only the host changes the entries, and only while a call reads.
LEMMA ListChange ==
  ASSUME List!ListingAssumption, ListInv, NEW n \in Names, NEW e, List!Change(n, e),
         ids' \in Nat, ids <= ids', e = List!None \/ e \in [id : 1 .. ids', size : Sizes, kind : RowKinds]
  PROVE  ListInv'
<1>1. /\ Reading /\ listEvents < ListEvents /\ listEvents' = listEvents + 1
      /\ world' = [world EXCEPT ![n] = e] /\ stable' = stable \ {n}
      /\ seen' = IF e = List!None THEN seen ELSE seen \cup {<<n, e.id>>}
      /\ tool' = tool /\ arg' = arg /\ listCall' = listCall
  BY DEF List!Change, Reading
<1>2. List!TypeOK
  BY DEF ListInv
<1>3. /\ world \in [Names -> List!Entries] /\ stable \subseteq List!Present
      /\ listEvents \in 0 .. ListEvents /\ ListEvents \in Nat
  BY <1>2 DEF List!TypeOK, List!ListingAssumption
<1>4. e \in List!Entries'
  BY DEF List!Entries
<1>5. world' \in [Names -> List!Entries']
  BY <1>1, <1>2, <1>3, <1>4, MoreIds
<1>6. \A m \in Names : m # n => world'[m] = world[m]
  BY <1>1, <1>3
<1>7. world'[n] = e
  BY <1>1, <1>3
<1>8. stable' \subseteq List!Present'
  BY <1>1, <1>3, <1>6 DEF List!Present
<1>9. seen' \subseteq Names \X (1 .. ids')
  BY <1>1, <1>2, MoreIds
<1>10. seen \subseteq seen'
  BY <1>1
<1>11. List!TypeOK'
  <2>1. listEvents' \in 0 .. ListEvents
    BY <1>1, <1>3
  <2>2. listCall' \in [pc : {"idle", "reading", "done", "refused"}, todo : SUBSET Names,
                       first : List!Entries', half : BOOLEAN, rows : SUBSET List!TheRows',
                       answer : Seq(List!TheRows')]
    BY <1>1, <1>2, MoreIds
  <2>3. /\ tool' \in Tools
        /\ arg' \in [limit : Limits, top : Limits \cup {0}, want : Wants \cup {""}]
        /\ \A r, q \in listCall'.rows : r.name = q.name => r = q
    BY <1>1, <1>2 DEF List!TypeOK
  <2> QED
    BY <1>5, <1>8, <1>9, <2>1, <2>2, <2>3 DEF List!TypeOK
<1>12. StableComes'
  BY <1>1, <1>3, <1>6 DEF ListInv, StableComes, Reading, List!Row, List!Present
<1>13. HalfRead'
  <2>1. List!next' = List!next
    BY <1>1, Zenon DEF List!next
  <2>2. SUFFICES ASSUME listCall.half
                 PROVE  /\ Reading' /\ listCall'.todo # {} /\ tool'.gone # "listed"
                        /\ IF listCall'.first = List!None
                           THEN tool'.gone = "keep" /\ List!next' \notin stable'
                           ELSE <<List!next', listCall'.first.id>> \in seen'
                        /\ List!next' \in stable' => listCall'.first = world'[List!next']
    BY <1>1 DEF HalfRead, List!None
  <2>3. List!next \in Names
    BY <1>2, <2>2, NextName DEF ListInv, HalfRead, List!TypeOK
  <2> QED
    BY <1>1, <1>6, <1>10, <2>1, <2>2, <2>3 DEF ListInv, HalfRead, Reading
<1>14. PresentSeen'
  <2>1. ASSUME NEW m \in Names, world'[m] # List!None PROVE <<m, world'[m].id>> \in seen'
    <3>1. CASE m = n
      BY <1>1, <1>7, <2>1, <3>1
    <3>2. CASE m # n
      BY <1>1, <1>6, <1>10, <2>1, <3>2 DEF ListInv, PresentSeen, List!Present
    <3> QED
      BY <3>1, <3>2
  <2> QED
    BY <2>1 DEF PresentSeen, List!Present, List!None
<1>15. RowsSourced'
  BY <1>1, <1>10 DEF ListInv, RowsSourced, Reading, Sourced
<1>16. ~List!Done' /\ Unread'
  BY <1>1 DEF ListInv, List!Done, Reading, Unread
<1> QED
  BY <1>11, <1>12, <1>13, <1>14, <1>15, <1>16
     DEF ListInv, List!StableListed, List!NothingInvented

LEMMA RowTyped ==
  ASSUME NEW n \in Names, NEW e \in List!Entries, ids \in Nat
  PROVE  List!Row(n, e) \in List!TheRows
<1>1. CASE e = List!None
  <2>1. e.id = 0 /\ e.size = 0 /\ e.kind = ""
    BY <1>1 DEF List!None
  <2>2. 0 \in 0 .. ids
    OBVIOUS
  <2> QED
    BY <2>1, <2>2 DEF List!Row, List!TheRows
<1>2. CASE e \in [id : 1 .. ids, size : Sizes, kind : RowKinds]
  <2>1. e.id \in 0 .. ids /\ e.size \in Sizes /\ e.kind \in RowKinds
    BY <1>2
  <2> QED
    BY <2>1 DEF List!Row, List!TheRows
<1> QED
  BY <1>1, <1>2 DEF List!Entries

\* The call begins: what there is now was there during the call.
LEMMA ListBegin ==
  ASSUME List!ListingAssumption, ListInv, List!Begin
  PROVE  ListInv'
<1>1. /\ listCall.pc = "idle" /\ stable' = List!Present
      /\ seen' = {<<n, world[n].id>> : n \in List!Present}
      /\ world' = world /\ ids' = ids /\ listEvents' = listEvents /\ tool' = tool /\ arg' = arg
  BY DEF List!Begin, List!host
<1>2. List!TypeOK
  BY DEF ListInv
<1>3. /\ world \in [Names -> List!Entries] /\ ids \in Nat
      /\ listCall \in [pc : {"idle", "reading", "done", "refused"}, todo : SUBSET Names,
                       first : List!Entries, half : BOOLEAN, rows : SUBSET List!TheRows,
                       answer : Seq(List!TheRows)]
  BY <1>2 DEF List!TypeOK
<1>4. List!Present' = List!Present /\ List!Entries' = List!Entries /\ List!TheRows' = List!TheRows
  BY <1>1 DEF List!Present, List!Entries, List!TheRows, List!None
<1>5. /\ ~listCall.half /\ IsFiniteSet(listCall.rows)
      /\ tool.gone = "listed" => listCall.todo = {}
  BY <1>1 DEF ListInv, HalfRead, Reading, RowsSourced, Unread
<1> DEFINE R == {List!Row(n, world[n]) : n \in List!Present}
<1>6. R \in SUBSET List!TheRows
  <2>1. ASSUME NEW n \in List!Present PROVE List!Row(n, world[n]) \in List!TheRows
    <3>1. n \in Names /\ world[n] \in List!Entries
      BY <1>3 DEF List!Present
    <3> QED
      BY <1>3, <3>1, RowTyped
  <2> QED
    BY <2>1
<1>7. IsFiniteSet(R)
  <2> DEFINE f == [n \in List!Present |-> List!Row(n, world[n])]
  <2>1. f \in Surjection(List!Present, R)
    BY DEF Surjection
  <2>2. IsFiniteSet(List!Present)
    <3>1. IsFiniteSet(Names)
      BY ListFinite DEF List!ListingAssumption
    <3> QED
      BY <3>1, FS_Subset DEF List!Present
  <2> HIDE DEF f, R
  <2> QED
    BY <2>1, <2>2, FS_Surjection
<1>8. /\ \A row \in R : row.name \in List!Present /\ row.id = world[row.name].id
      /\ \A r, q \in R : r.name = q.name => r = q
  BY DEF List!Row
<1>9. \A n \in List!Present : world[n].id \in 1 .. ids
  BY <1>3 DEF List!Present, List!Entries
<1>10. seen' \subseteq Names \X (1 .. ids)
  BY <1>1, <1>9 DEF List!Present
<1>11. /\ stable' \subseteq List!Present' /\ world' \in [Names -> List!Entries'] /\ ids' \in Nat
       /\ listEvents' \in 0 .. ListEvents /\ tool' \in Tools
       /\ arg' \in [limit : Limits, top : Limits \cup {0}, want : Wants \cup {""}]
       /\ seen' \subseteq Names \X (1 .. ids')
  BY <1>1, <1>2, <1>3, <1>4, <1>10 DEF List!TypeOK
<1>12. PresentSeen'
  BY <1>1, <1>4 DEF PresentSeen
<1> HIDE DEF R
<1>13. CASE listCall' = [listCall EXCEPT !.pc = "refused"]
  <2>1. /\ listCall'.pc = "refused" /\ listCall'.half = listCall.half
        /\ listCall'.rows = listCall.rows /\ listCall'.todo = listCall.todo
        /\ listCall' \in [pc : {"idle", "reading", "done", "refused"}, todo : SUBSET Names,
                          first : List!Entries', half : BOOLEAN, rows : SUBSET List!TheRows',
                          answer : Seq(List!TheRows')]
    BY <1>3, <1>4, <1>13
  <2>2. List!TypeOK'
    BY <1>2, <1>11, <2>1 DEF List!TypeOK
  <2> QED
    BY <1>1, <1>5, <1>12, <1>13, <2>1, <2>2 DEF ListInv, Unread, StableComes, HalfRead, RowsSourced, Reading,
       List!StableListed, List!NothingInvented, List!Done
<1>14. CASE listCall' = [listCall EXCEPT !.pc = "reading", !.rows = R]
  <2>1. /\ listCall'.pc = "reading" /\ listCall'.half = listCall.half
        /\ listCall'.rows = R /\ listCall'.todo = listCall.todo
        /\ listCall' \in [pc : {"idle", "reading", "done", "refused"}, todo : SUBSET Names,
                          first : List!Entries', half : BOOLEAN, rows : SUBSET List!TheRows',
                          answer : Seq(List!TheRows')]
    BY <1>3, <1>4, <1>6, <1>14
  <2>2. List!TypeOK'
    BY <1>8, <1>11, <2>1 DEF List!TypeOK
  <2>3. listCall.todo = {}
    BY <1>1 DEF ListInv, Unread
  <2>4. StableComes'
    BY <1>1, <2>1 DEF StableComes, R
  <2>5. RowsSourced'
    BY <1>1, <1>7, <1>8, <2>1, <2>3 DEF RowsSourced, Sourced
  <2> QED
    BY <1>1, <1>5, <1>12, <2>1, <2>2, <2>4, <2>5 DEF ListInv, Unread, HalfRead,
       List!StableListed, List!NothingInvented, List!Done
<1>15. ASSUME tool.gone # "listed",
              listCall' = [listCall EXCEPT !.pc = "reading", !.todo = List!Present]
       PROVE  ListInv'
  <2>1. /\ listCall'.pc = "reading" /\ listCall'.half = listCall.half
        /\ listCall'.rows = listCall.rows /\ listCall'.todo = List!Present
        /\ listCall' \in [pc : {"idle", "reading", "done", "refused"}, todo : SUBSET Names,
                          first : List!Entries', half : BOOLEAN, rows : SUBSET List!TheRows',
                          answer : Seq(List!TheRows')]
    BY <1>3, <1>4, <1>15 DEF List!Present
  <2>2. List!TypeOK'
    BY <1>2, <1>11, <2>1 DEF List!TypeOK
  <2>3. listCall.rows = {}
    BY <1>1 DEF ListInv, Unread
  <2>4. StableComes'
    BY <1>1, <2>1 DEF StableComes
  <2>5. RowsSourced'
    BY <1>5, <2>1, <2>3 DEF RowsSourced
  <2> QED
    BY <1>1, <1>5, <1>12, <1>15, <2>1, <2>2, <2>4, <2>5 DEF ListInv, Unread, HalfRead,
       List!StableListed, List!NothingInvented, List!Done
<1> QED
  BY <1>13, <1>14, <1>15, Zenon DEF List!Begin, R

\* What reading a name leaves alone.
LEMMA ListRead ==
  ASSUME List!ListingAssumption, ListInv, Reading,
         UNCHANGED <<world, ids, listEvents, tool, arg, stable, seen>>,
         listCall' \in [pc : {"idle", "reading", "done", "refused"}, todo : SUBSET Names,
                        first : List!Entries, half : BOOLEAN, rows : SUBSET List!TheRows,
                        answer : Seq(List!TheRows)],
         listCall'.pc # "done", listCall'.todo \subseteq listCall.todo,
         \A r, q \in listCall'.rows : r.name = q.name => r = q
  PROVE  /\ List!TypeOK' /\ PresentSeen' /\ List!StableListed' /\ List!NothingInvented'
         /\ tool.gone = "listed" => listCall'.todo = {}
<1>1. List!TypeOK /\ PresentSeen /\ (tool.gone = "listed" => listCall.todo = {})
  BY DEF ListInv, Unread
<1>2. List!Present' = List!Present /\ List!Entries' = List!Entries /\ List!TheRows' = List!TheRows
  BY DEF List!Present, List!Entries, List!TheRows, List!None
<1>3. List!TypeOK'
  BY <1>1, <1>2 DEF List!TypeOK
<1>4. PresentSeen'
  BY <1>1, <1>2 DEF PresentSeen, Reading
<1> QED
  BY <1>1, <1>3, <1>4 DEF List!StableListed, List!NothingInvented, List!Done

LEMMA ListFirst ==
  ASSUME List!ListingAssumption, ListInv, List!ReadFirst
  PROVE  ListInv'
<1> DEFINE m == List!next
           e == world[m]
<1>1. /\ Reading /\ listCall.todo # {} /\ ~listCall.half
      /\ UNCHANGED <<world, ids, listEvents, tool, arg, stable, seen>>
  BY DEF List!ReadFirst, List!host, Reading
<1>2. /\ listCall \in [pc : {"idle", "reading", "done", "refused"}, todo : SUBSET Names,
                       first : List!Entries, half : BOOLEAN, rows : SUBSET List!TheRows,
                       answer : Seq(List!TheRows)]
      /\ \A r, q \in listCall.rows : r.name = q.name => r = q
      /\ world \in [Names -> List!Entries] /\ stable \subseteq List!Present /\ tool \in Tools
  BY DEF ListInv, List!TypeOK
<1>3. m \in listCall.todo /\ m \in Names
  BY <1>1, <1>2, NextName
<1>4. tool.gone \in {"skip", "keep", "listed"} /\ tool.gone # "listed"
  BY <1>1, <1>2, ToolKinds DEF ListInv, Unread
<1> HIDE DEF m
<1>5. ASSUME e = List!None, tool.gone = "skip",
             listCall' = [listCall EXCEPT !.todo = @ \ {m}]
      PROVE  ListInv'
  <2>1. /\ listCall'.pc = listCall.pc /\ listCall'.todo = listCall.todo \ {m}
        /\ listCall'.half = FALSE /\ listCall'.rows = listCall.rows
        /\ listCall' \in [pc : {"idle", "reading", "done", "refused"}, todo : SUBSET Names,
                          first : List!Entries, half : BOOLEAN, rows : SUBSET List!TheRows,
                          answer : Seq(List!TheRows)]
    BY <1>1, <1>2, <1>5
  <2>2. /\ List!TypeOK' /\ PresentSeen' /\ List!StableListed' /\ List!NothingInvented'
        /\ tool.gone = "listed" => listCall'.todo = {}
    BY <1>1, <1>2, <2>1, ListRead DEF Reading
  <2>3. m \notin stable
    BY <1>2, <1>5 DEF List!Present
  <2>4. StableComes'
    BY <1>1, <2>1, <2>3 DEF ListInv, StableComes, Reading, List!Row
  <2>5. RowsSourced'
    BY <1>1, <2>1 DEF ListInv, RowsSourced, Reading, Sourced
  <2>6. HalfRead' /\ Unread'
    BY <1>1, <2>1, <2>2 DEF HalfRead, Unread, Reading
  <2> QED
    BY <2>2, <2>4, <2>5, <2>6 DEF ListInv
<1>6. ASSUME ~(e = List!None /\ tool.gone = "skip"),
             listCall' = [listCall EXCEPT !.first = e, !.half = TRUE]
      PROVE  ListInv'
  <2>1. /\ listCall'.pc = listCall.pc /\ listCall'.todo = listCall.todo
        /\ listCall'.half = TRUE /\ listCall'.rows = listCall.rows /\ listCall'.first = e
        /\ listCall' \in [pc : {"idle", "reading", "done", "refused"}, todo : SUBSET Names,
                          first : List!Entries, half : BOOLEAN, rows : SUBSET List!TheRows,
                          answer : Seq(List!TheRows)]
    BY <1>2, <1>3, <1>6
  <2>2. /\ List!TypeOK' /\ PresentSeen' /\ List!StableListed' /\ List!NothingInvented'
        /\ tool.gone = "listed" => listCall'.todo = {}
    BY <1>1, <1>2, <2>1, ListRead DEF Reading
  <2>3. StableComes' /\ RowsSourced' /\ Unread'
    BY <1>1, <2>1, <2>2 DEF ListInv, StableComes, RowsSourced, Unread, Reading, Sourced, List!Row
  <2>4. List!next' = m
    BY <2>1, Zenon DEF List!next, m
  <2>5. e = List!None => tool.gone = "keep" /\ m \notin stable
    BY <1>2, <1>4, <1>6 DEF List!Present
  <2>6. e # List!None => <<m, e.id>> \in seen
    BY <1>1, <1>3 DEF ListInv, PresentSeen, List!Present
  <2>7. List!None' = List!None
    BY DEF List!None
  <2>8. HalfRead'
    BY <1>1, <1>4, <2>1, <2>4, <2>5, <2>6, <2>7 DEF HalfRead, Reading
  <2> QED
    BY <2>2, <2>3, <2>8 DEF ListInv
<1>7. listCall' = IF e = List!None /\ tool.gone = "skip" THEN [listCall EXCEPT !.todo = @ \ {m}]
                  ELSE [listCall EXCEPT !.first = e, !.half = TRUE]
  BY DEF List!ReadFirst, List!PassOver, m
<1> QED
  BY <1>5, <1>6, <1>7, Zenon

\* The rows that the second read makes of a name: none of one that is gone, or one with the
\* identity of the first read, which is the row of what has been there all the time.
LEMMA RowMade ==
  ASSUME List!ListingAssumption, List!TypeOK, NEW m \in Names, NEW rows \in List!Rows(m),
         m \in stable => listCall.first = world[m]
  PROVE  \/ rows = {} /\ m \notin stable
         \/ \E z \in List!TheRows :
              /\ rows = {z} /\ z.name = m /\ z.id = listCall.first.id
              /\ m \in stable => z = List!Row(m, world[m])
<1> DEFINE e == world[m]
           row == List!Row(m, listCall.first)
<1>1. /\ world \in [Names -> List!Entries] /\ stable \subseteq List!Present /\ ids \in Nat
      /\ listCall.first \in List!Entries /\ tool \in Tools
  BY DEF List!TypeOK
<1>2. e \in List!Entries
  BY <1>1
<1>3. row \in List!TheRows /\ row.name = m /\ row.id = listCall.first.id
  BY <1>1, RowTyped DEF List!Row
<1>4. m \in stable => e # List!None /\ row = List!Row(m, e)
  BY <1>1 DEF List!Present
<1>5. CASE tool.torn = "row"
  <2>1. rows = {row}
    BY <1>5 DEF List!Rows
  <2> HIDE DEF row, e
  <2>2. m \in stable => row = List!Row(m, world[m])
    BY <1>4 DEF e
  <2> QED
    BY <1>3, <2>1, <2>2
<1>6. CASE tool.torn # "row" /\ e = List!None
  <2>1. rows = {}
    BY <1>6 DEF List!Rows
  <2> QED
    BY <1>4, <1>6, <2>1
<1>7. CASE tool.torn # "row" /\ e # List!None
  <2>1. PICK s \in IF e = listCall.first THEN {e.size} ELSE Sizes : rows = {[row EXCEPT !.size = s]}
    BY <1>7 DEF List!Rows
  <2> DEFINE z == [row EXCEPT !.size = s]
  <2>2. e.size \in Sizes
    BY <1>2, <1>7 DEF List!Entries
  <2>3. s \in Sizes
    BY <2>1, <2>2
  <2>4. z \in List!TheRows /\ z.name = m /\ z.id = listCall.first.id
    BY <1>3, <2>3 DEF List!TheRows
  <2>5. m \in stable => z = List!Row(m, world[m])
    BY <1>4, <2>1 DEF List!Row
  <2> QED
    BY <2>1, <2>4, <2>5
<1> QED
  BY <1>5, <1>6, <1>7

LEMMA ListSecond ==
  ASSUME List!ListingAssumption, ListInv, List!ReadSecond
  PROVE  ListInv'
<1> DEFINE m == List!next
<1>1. /\ Reading /\ listCall.half /\ listCall.todo # {}
      /\ UNCHANGED <<world, ids, listEvents, tool, arg, stable, seen>>
  BY DEF List!ReadSecond, List!host, Reading, ListInv, HalfRead
<1>2. PICK rows \in List!Rows(m) :
        listCall' = [listCall EXCEPT !.rows = @ \cup rows, !.todo = @ \ {m},
                                     !.first = List!None, !.half = FALSE]
  BY DEF List!ReadSecond
<1>3. /\ listCall \in [pc : {"idle", "reading", "done", "refused"}, todo : SUBSET Names,
                       first : List!Entries, half : BOOLEAN, rows : SUBSET List!TheRows,
                       answer : Seq(List!TheRows)]
      /\ \A r, q \in listCall.rows : r.name = q.name => r = q
      /\ List!TypeOK
  BY DEF ListInv, List!TypeOK
<1>4. m \in listCall.todo /\ m \in Names
  BY <1>1, <1>3, NextName
<1>5. /\ IF listCall.first = List!None THEN tool.gone = "keep" /\ m \notin stable
         ELSE <<m, listCall.first.id>> \in seen
      /\ m \in stable => listCall.first = world[m]
  BY <1>1 DEF ListInv, HalfRead
<1> HIDE DEF m
<1>6. \/ rows = {} /\ m \notin stable
      \/ \E z \in List!TheRows :
           /\ rows = {z} /\ z.name = m /\ z.id = listCall.first.id
           /\ m \in stable => z = List!Row(m, world[m])
  BY <1>3, <1>4, <1>5, RowMade
<1>7. /\ rows \in SUBSET List!TheRows /\ IsFiniteSet(rows)
      /\ \A z \in rows : z.name = m /\ z.id = listCall.first.id
      /\ \A r, q \in rows : r = q
      /\ m \in stable => List!Row(m, world[m]) \in rows
  BY <1>6, FS_EmptySet, FS_Singleton
<1>8. List!None \in List!Entries /\ (listCall.first = List!None => listCall.first.id = 0)
  <2>1. List!None.id = 0
    BY DEF List!None
  <2>2. List!None \in List!Entries
    BY DEF List!Entries
  <2> QED
    BY <2>1, <2>2
<1>9. /\ listCall'.pc = listCall.pc /\ listCall'.todo = listCall.todo \ {m}
      /\ listCall'.half = FALSE /\ listCall'.rows = listCall.rows \cup rows
      /\ listCall' \in [pc : {"idle", "reading", "done", "refused"}, todo : SUBSET Names,
                        first : List!Entries, half : BOOLEAN, rows : SUBSET List!TheRows,
                        answer : Seq(List!TheRows)]
  BY <1>2, <1>3, <1>7, <1>8
<1>10. \A row \in listCall.rows : Sourced(row) /\ row.name \notin listCall.todo
  BY <1>1 DEF ListInv, RowsSourced
<1>11. \A r, q \in listCall'.rows : r.name = q.name => r = q
  BY <1>3, <1>4, <1>7, <1>9, <1>10
<1>12. /\ List!TypeOK' /\ PresentSeen' /\ List!StableListed' /\ List!NothingInvented'
       /\ tool.gone = "listed" => listCall'.todo = {}
  BY <1>1, <1>9, <1>11, ListRead DEF Reading
<1>13. StableComes'
  BY <1>1, <1>7, <1>9 DEF ListInv, StableComes, Reading, List!Row
<1>14. \A row \in rows : Sourced(row)
  BY <1>5, <1>7, <1>8 DEF Sourced
<1>15. IsFiniteSet(listCall'.rows)
  <2>1. IsFiniteSet(listCall.rows)
    BY DEF ListInv, RowsSourced
  <2>2. IsFiniteSet(rows)
    BY <1>7
  <2>3. IsFiniteSet(listCall.rows \cup rows)
    BY <2>1, <2>2, FS_Union
  <2> QED
    BY <1>9, <2>3
<1>16. RowsSourced'
  BY <1>1, <1>7, <1>9, <1>10, <1>14, <1>15 DEF RowsSourced, Sourced
<1>17. HalfRead' /\ Unread'
  BY <1>1, <1>9, <1>12 DEF HalfRead, Unread, Reading
<1> QED
  BY <1>12, <1>13, <1>16, <1>17 DEF ListInv

\* It is asked for, and the filter can find it.
Wanted(n) == List!Asked(n) /\ ~(tool.filter = "text" /\ arg.want # "")

\* The filter lets through the row of what it can find.
LEMMA WantedMatches ==
  ASSUME List!ListingAssumption, List!TypeOK, NEW n \in Names, Wanted(n)
  PROVE  List!Matches(List!Row(n, world[n]))
<1> DEFINE row == List!Row(n, world[n])
<1>1. row.kind = world[n].kind /\ row.size = world[n].size
  BY DEF List!Row
<1>2. tool \in Tools /\ arg.want \in Wants \cup {""}
  BY DEF List!TypeOK
<1>3. tool.filter \in {"text", "kind", "timed", "none"}
  BY <1>2, ToolKinds
<1> HIDE DEF row
<1>4. CASE tool.filter = "text"
  <2>1. arg.want = ""
    BY <1>4 DEF Wanted
  <2> QED
    BY <1>4, <2>1 DEF List!Matches, row
<1>5. CASE tool.filter = "kind"
  <2>1. arg.want = "" \/ world[n].kind = arg.want
    BY <1>5 DEF Wanted, List!Asked
  <2>2. arg.want = "" \/ row.kind = arg.want
    BY <1>1, <2>1
  <2> QED
    BY <1>5, <2>2 DEF List!Matches, row
<1>6. CASE tool.filter = "timed"
  <2>1. world[n].size > 0
    BY <1>6 DEF Wanted, List!Asked
  <2>2. row.size > 0
    BY <1>1, <2>1
  <2> QED
    BY <1>6, <2>2 DEF List!Matches, row
<1>7. CASE tool.filter = "none"
  BY <1>7 DEF List!Matches
<1> QED
  BY <1>3, <1>4, <1>5, <1>6, <1>7

LEMMA ListFinish ==
  ASSUME List!ListingAssumption, ListInv, List!Finish
  PROVE  ListInv'
<1> DEFINE F == {r \in listCall.rows : List!Matches(r)}
<1>1. /\ Reading /\ listCall.todo = {}
      /\ UNCHANGED <<world, ids, listEvents, tool, arg, stable, seen>>
  BY DEF List!Finish, List!host, Reading
<1>2. PICK answer \in List!Answers(listCall.rows) :
        listCall' = [listCall EXCEPT !.pc = "done", !.answer = answer]
  BY DEF List!Finish
<1>3. PICK s \in List!Sorted(F) : answer = List!Cut(s)
  BY DEF List!Answers
<1>4. /\ listCall \in [pc : {"idle", "reading", "done", "refused"}, todo : SUBSET Names,
                       first : List!Entries, half : BOOLEAN, rows : SUBSET List!TheRows,
                       answer : Seq(List!TheRows)]
      /\ \A r, q \in listCall.rows : r.name = q.name => r = q
      /\ List!TypeOK /\ stable \subseteq Names /\ tool \in Tools
  BY DEF ListInv, List!TypeOK, List!Present
<1>5. IsFiniteSet(F) /\ ~listCall.half
  <2>1. IsFiniteSet(listCall.rows)
    BY DEF ListInv, RowsSourced
  <2>2. ~listCall.half
    BY <1>1 DEF ListInv, HalfRead
  <2> QED
    BY <2>1, <2>2, FS_Subset
<1>6. /\ \A r \in F : r \in listCall.rows /\ List!Matches(r)
      /\ \A n \in stable : Wanted(n) => List!Row(n, world[n]) \in F
  <2>1. ASSUME NEW n \in stable, Wanted(n) PROVE List!Row(n, world[n]) \in F
    <3>1. List!Row(n, world[n]) \in listCall.rows
      BY <1>1 DEF ListInv, StableComes
    <3>2. List!Matches(List!Row(n, world[n]))
      BY <1>4, <2>1, WantedMatches
    <3> QED
      BY <3>1, <3>2
  <2> QED
    BY <2>1
<1> HIDE DEF F
<1>7. \A i, j \in 1 .. Len(s) : i < j => ~List!Before(s[j], s[i])
  BY <1>5, SortedWhole
<1>8. s \in Seq(F) /\ Len(s) \in Nat /\ \A r \in F : \E i \in 1 .. Len(s) : s[i] = r
  BY <1>5, SortedWhole
<1>9. List!limit \in Int
  <2>1. arg.limit \in Limits /\ arg.top \in Limits \cup {0}
    BY <1>4, Zenon DEF List!TypeOK
  <2> QED
    BY <1>4, <2>1, LimitTyped
<1>10. /\ answer \in Seq(F)
       /\ \/ answer = s
          \/ /\ List!limit > 0 /\ Len(s) > List!limit /\ Len(answer) = List!limit
             /\ \A i \in 1 .. List!limit : answer[i] = s[i]
  <2>1. CASE List!limit > 0 /\ Len(s) > List!limit
    <3>1. answer = SubSeq(s, 1, List!limit)
      BY <1>3, <2>1 DEF List!Cut
    <3> DEFINE k == List!limit
    <3>2. k \in Nat /\ k > 0 /\ k <= Len(s)
      BY <1>8, <1>9, <2>1
    <3>3. answer = SubSeq(s, 1, k)
      BY <3>1
    <3> HIDE DEF k
    <3>4. answer \in Seq(F) /\ Len(answer) = k /\ \A i \in 1 .. k : answer[i] = s[i]
      BY <1>8, <3>2, <3>3
    <3> QED
      BY <2>1, <3>4 DEF k
  <2>2. CASE ~(List!limit > 0 /\ Len(s) > List!limit)
    <3>1. answer = s
      BY <1>3, <2>2 DEF List!Cut
    <3> QED
      BY <1>8, <3>1
  <2> QED
    BY <2>1, <2>2
<1>11. \A i \in 1 .. Len(answer) :
         answer[i] \in listCall.rows /\ List!Matches(answer[i])
  BY <1>6, <1>10, ElementOfSeq
<1>12. /\ listCall'.pc = "done" /\ listCall'.todo = {} /\ listCall'.half = FALSE
       /\ listCall'.rows = listCall.rows /\ listCall'.answer = answer
       /\ listCall' \in [pc : {"idle", "reading", "done", "refused"}, todo : SUBSET Names,
                         first : List!Entries, half : BOOLEAN, rows : SUBSET List!TheRows,
                         answer : Seq(List!TheRows)]
  <2>1. F \subseteq List!TheRows
    BY <1>4, <1>6
  <2>2. answer \in Seq(List!TheRows)
    BY <1>10, <2>1, SeqMonotonic
  <2> QED
    BY <1>1, <1>2, <1>4, <1>5, <2>2
<1>13. List!TypeOK'
  <2>1. List!Present' = List!Present /\ List!Entries' = List!Entries /\ List!TheRows' = List!TheRows
    BY <1>1 DEF List!Present, List!Entries, List!TheRows, List!None
  <2> QED
    BY <1>1, <1>4, <1>12, <2>1 DEF List!TypeOK
<1>14. IsFiniteSet(listCall'.rows)
  BY <1>12 DEF ListInv, RowsSourced
<1>15. List!NothingInvented'
  <2>1. \A row \in listCall.rows : Sourced(row)
    BY <1>1 DEF ListInv, RowsSourced
  <2>2. tool.gone = "keep" => tool.filter = "none"
    BY <1>4, ToolKinds
  <2>3. ASSUME NEW i \in 1 .. Len(answer)
        PROVE  \/ <<answer[i].name, answer[i].id>> \in seen
               \/ answer[i].id = 0 /\ tool.gone = "keep" /\ answer[i].name \notin stable
    BY <1>11, <2>1, <2>3 DEF Sourced
  <2>4. \A row : List!Matches(row)' <=> List!Matches(row)
    BY <1>1 DEF List!Matches, List!stateText
  <2> QED
    BY <1>1, <1>11, <1>12, <2>3, <2>4 DEF List!NothingInvented
<1>16. List!StableListed'
  <2> SUFFICES ASSUME NEW n \in stable, Wanted(n),
                      n \notin {answer[i].name : i \in 1 .. Len(answer)}
               PROVE  /\ List!limit > 0 /\ Len(answer) = List!limit
                      /\ \A i \in 1 .. Len(answer) :
                           ~List!Before(List!Row(n, world[n]), answer[i])
    <3>1. \A n : Wanted(n)' <=> Wanted(n)
      BY <1>1 DEF Wanted, List!Asked
    <3>2. List!limit' = List!limit
      BY <1>1 DEF List!limit
    <3>3. \A r, q : List!Before(r, q)' <=> List!Before(r, q)
      BY <1>1 DEF List!Before
    <3>4. List!Listed' = {answer[i].name : i \in 1 .. Len(answer)}
      BY <1>12 DEF List!Listed
    <3>5. \A n : List!Row(n, world[n])' = List!Row(n, world[n])
      BY <1>1 DEF List!Row
    <3> QED
      BY <1>1, <1>12, <3>1, <3>2, <3>3, <3>4, <3>5 DEF List!StableListed, List!Kept, Wanted
  <2> DEFINE row == List!Row(n, world[n])
  <2>1. row.name = n /\ row \in F
    BY <1>6 DEF List!Row
  <2>2. PICK p \in 1 .. Len(s) : s[p] = row
    BY <1>8, <2>1
  <2> HIDE DEF row
  <2>3. answer # s
    BY <2>1, <2>2
  <2>4. /\ List!limit > 0 /\ Len(answer) = List!limit /\ Len(s) > List!limit
        /\ \A i \in 1 .. List!limit : answer[i] = s[i]
    BY <1>10, <2>3
  <2>5. ~(p <= List!limit)
    <3>1. SUFFICES ASSUME p <= List!limit PROVE FALSE
      OBVIOUS
    <3>2. p \in 1 .. Len(answer) /\ answer[p] = row
      <4>1. p \in 1 .. List!limit
        BY <1>8, <1>9, <2>4, <3>1
      <4> QED
        BY <2>2, <2>4, <4>1
    <3> QED
      BY <2>1, <3>2
  <2>6. ASSUME NEW i \in 1 .. Len(answer) PROVE ~List!Before(row, answer[i])
    <3>1. i \in 1 .. List!limit
      BY <2>4
    <3>2. i \in 1 .. Len(s) /\ i < p
      <4>1. Len(s) \in Nat /\ List!limit \in Int /\ p \in Int
        BY <1>8, <1>9
      <4> QED
        BY <2>4, <2>5, <3>1, <4>1
    <3>3. answer[i] = s[i]
      BY <2>4, <3>1
    <3> QED
      BY <1>7, <2>2, <3>2, <3>3
  <2> QED
    BY <2>4, <2>6 DEF row
<1>17. StableComes' /\ HalfRead' /\ PresentSeen' /\ RowsSourced' /\ Unread'
  BY <1>12, <1>14 DEF StableComes, HalfRead, PresentSeen, RowsSourced, Unread, Reading
<1> QED
  BY <1>13, <1>15, <1>16, <1>17 DEF ListInv

LEMMA ListStep ==
  ASSUME List!ListingAssumption, ListInv, [List!Next]_List!vars
  PROVE  ListInv'
<1>1. CASE List!Begin
  BY <1>1, ListBegin
<1>2. CASE List!ReadFirst
  BY <1>2, ListFirst
<1>3. CASE List!ReadSecond
  BY <1>3, ListSecond
<1>4. CASE List!Finish
  BY <1>4, ListFinish
<1>5. ASSUME NEW n \in Names, List!Vanish(n) PROVE ListInv'
  <2>1. List!Change(n, List!None) /\ ids' = ids /\ ids \in Nat
    BY <1>5 DEF List!Vanish, ListInv, List!TypeOK
  <2>2. ids' \in Nat /\ ids <= ids'
    BY <2>1
  <2> QED
    BY <2>1, <2>2, ListChange
<1>6. ASSUME NEW n \in Names, List!Appear(n) PROVE ListInv'
  <2>1. ids' = ids + 1 /\ ids \in Nat
    BY <1>6 DEF List!Appear, ListInv, List!TypeOK
  <2>2. PICK s \in Sizes, k \in RowKinds : List!Change(n, [id |-> ids', size |-> s, kind |-> k])
    BY <1>6 DEF List!Appear
  <2>3. /\ ids' \in Nat /\ ids <= ids'
        /\ [id |-> ids', size |-> s, kind |-> k] \in [id : 1 .. ids', size : Sizes, kind : RowKinds]
    BY <2>1
  <2> QED
    BY <2>2, <2>3, ListChange
<1>7. CASE UNCHANGED List!vars
  <2>1. /\ List!Present' = List!Present /\ List!Entries' = List!Entries
        /\ List!TheRows' = List!TheRows
    BY <1>7 DEF List!vars, List!Present, List!Entries, List!TheRows, List!None
  <2>2. /\ List!next' = List!next /\ List!Listed' = List!Listed /\ List!limit' = List!limit
        /\ \A n : Wanted(n)' <=> Wanted(n)
        /\ \A r, q : List!Before(r, q)' <=> List!Before(r, q)
        /\ \A r : List!Matches(r)' <=> List!Matches(r)
    BY <1>7 DEF List!vars, List!next, List!Listed, List!limit, Wanted, List!Asked, List!Before,
       List!Matches, List!stateText
  <2>3. List!TypeOK'
    BY <1>7, <2>1 DEF ListInv, List!TypeOK, List!vars
  <2>4. StableComes' /\ HalfRead' /\ PresentSeen' /\ RowsSourced' /\ Unread'
    BY <1>7, <2>1, <2>2 DEF ListInv, List!vars, StableComes, HalfRead, PresentSeen, RowsSourced,
       Unread, Reading, Sourced, List!Row, List!None
  <2>5. List!StableListed' /\ List!NothingInvented'
    BY <1>7, <2>2 DEF ListInv, List!vars, List!StableListed, List!Kept, List!NothingInvented,
       List!Done, List!Row, Wanted
  <2> QED
    BY <2>3, <2>4, <2>5 DEF ListInv
<1> QED
  BY <1>1, <1>2, <1>3, <1>4, <1>5, <1>6, <1>7 DEF List!Next

LEMMA ListInvariant ==
  ASSUME List!ListingAssumption
  PROVE  List!Spec => []ListInv
<1>1. List!Init => ListInv
  BY ListBegins
<1>2. ListInv /\ [List!Next]_List!vars => ListInv'
  BY ListStep
<1> QED
  BY <1>1, <1>2, PTL DEF List!Spec

\* The host and the call keep their types.
THEOREM ListTypeCorrect ==
  ASSUME List!ListingAssumption
  PROVE  List!Spec => []List!TypeOK
<1>1. ListInv => List!TypeOK
  BY DEF ListInv
<1> QED
  BY <1>1, ListInvariant, PTL

\* What was there throughout the call and is asked for is listed, whatever else came and
\* went, or the list is full of rows none of which it should come before; except for
\* list_processes asked for a state, which finds nothing (ListProcesses,
\* list_systemd_units, effectiveLimit and the others).
THEOREM StableIsListed ==
  ASSUME List!ListingAssumption
  PROVE  List!Spec => []List!StableListed
<1>1. ListInv => List!StableListed
  BY DEF ListInv
<1> QED
  BY <1>1, ListInvariant, PTL

\* Nothing is listed that was not there at some moment of the call (the same tools).
THEOREM NothingIsInvented ==
  ASSUME List!ListingAssumption
  PROVE  List!Spec => []List!NothingInvented
<1>1. ListInv => List!NothingInvented
  BY DEF ListInv
<1> QED
  BY <1>1, ListInvariant, PTL

-----------------------------------------------------------------------------
(***************************************************************************)
(* read_dmesg and read_journal                                             *)
(***************************************************************************)

LEMMA LogsCount == ASSUME NEW S PROVE Logs!Cardinality(S) = Cardinality(S)
BY DEF Logs!Cardinality, Cardinality

\* The length of a log bounds where its lines and entries are.
LEMMA LatestExists ==
  ASSUME NEW L \in Nat, NEW S \in SUBSET (1 .. L), S # {}
  PROVE  \E x \in S : \A y \in S : y <= x
<1> DEFINE Gaps == {L - x : x \in S}
<1>1. Gaps \in SUBSET Nat /\ Gaps # {}
  <2>1. ASSUME NEW x \in S PROVE L - x \in Nat
    OBVIOUS
  <2> QED
    BY <2>1
<1>2. PICK g \in Gaps : \A h \in Gaps : g <= h
  BY <1>1, LeastNat
<1>3. PICK x \in S : g = L - x
  OBVIOUS
<1>4. ASSUME NEW y \in S PROVE y <= x
  <2>1. L - y \in Gaps
    OBVIOUS
  <2>2. g <= L - y
    BY <1>2, <2>1
  <2> QED
    BY <1>3, <2>2
<1> QED
  BY <1>4

LEMMA EntriesFinite ==
  ASSUME NEW L \in Nat, NEW S \in SUBSET (1 .. L)
  PROVE  IsFiniteSet(S) /\ Cardinality(S) \in Nat
<1>1. IsFiniteSet(1 .. L)
  BY FS_Interval
<1>2. IsFiniteSet(S)
  BY <1>1, FS_Subset
<1> QED
  BY <1>2, FS_CardinalityType

LEMMA MaxIsLatest ==
  ASSUME NEW L \in Nat, NEW S \in SUBSET (1 .. L), S # {}
  PROVE  /\ Logs!Max(S) \in S
         /\ \A y \in S : y <= Logs!Max(S)
<1>1. PICK x \in S : \A y \in S : y <= x
  BY LatestExists
<1>2. \A y \in S : x >= y
  BY <1>1
<1>3. \E z \in S : \A y \in S : z >= y
  BY <1>2
<1>4. Logs!Max(S) \in S /\ \A y \in S : Logs!Max(S) >= y
  BY <1>3 DEF Logs!Max
<1> QED
  BY <1>4

LEMMA MinOfTwo ==
  ASSUME NEW i \in Nat, NEW j \in Nat
  PROVE  Logs!Min({i, j}) = IF i <= j THEN i ELSE j
<1>1. \E x \in {i, j} : \A y \in {i, j} : x =< y
  OBVIOUS
<1>2. Logs!Min({i, j}) \in {i, j} /\ \A y \in {i, j} : Logs!Min({i, j}) =< y
  BY <1>1 DEF Logs!Min
<1> QED
  BY <1>2

IsLast(x, S) == \A y \in S : y <= x

\* Taking away the last one counts one less, wherever one stands.
LEMMA LatestStep ==
  ASSUME NEW S \in SUBSET Nat, IsFiniteSet(S), NEW n \in Nat, NEW x \in S, IsLast(x, S),
         NEW q, q = n + 1
  PROVE  Logs!Latest(S, q) = {x} \cup Logs!Latest(S \ {x}, n)
<1>0. \A y \in S : y <= x
  BY DEF IsLast
<1>1. IsFiniteSet(S) /\ Cardinality(S) \in Nat
  BY FS_CardinalityType
<1>2. Cardinality({j \in S : j > x}) = 0
  <2>1. ASSUME NEW j \in S PROVE ~(j > x)
    <3>1. j \in Nat /\ x \in Nat /\ j <= x
      BY <1>0
    <3> QED
      BY <3>1
  <2> QED
    BY <2>1, FS_EmptySet
<1>3. ASSUME NEW i \in S \ {x}
      PROVE  Cardinality({j \in S : j > i}) < n + 1 <=> Cardinality({j \in S \ {x} : j > i}) < n
  <2> DEFINE U == {j \in S : j > i}
             V == {j \in S \ {x} : j > i}
  <2>1. x \in U /\ V = U \ {x}
    <3>1. i \in Nat /\ x \in Nat /\ i <= x /\ i # x
      BY <1>0
    <3>2. x > i
      BY <3>1
    <3> QED
      BY <3>2
  <2>2. IsFiniteSet(U)
    BY <1>1, FS_Subset
  <2> HIDE DEF U, V
  <2>3. Cardinality(U) \in Nat /\ Cardinality(V) = Cardinality(U) - 1
    BY <2>1, <2>2, FS_RemoveElement, FS_CardinalityType
  <2>4. Cardinality(U) < n + 1 <=> Cardinality(V) < n
    BY <2>3
  <2> QED
    BY <2>4 DEF U, V
<1>4. Logs!Latest(S, q) = {i \in S : Cardinality({j \in S : j > i}) < n + 1}
  BY LogsCount DEF Logs!Latest
<1>5. Logs!Latest(S \ {x}, n) = {i \in S \ {x} : Cardinality({j \in S \ {x} : j > i}) < n}
  BY LogsCount DEF Logs!Latest
<1>6. Cardinality({j \in S : j > x}) < n + 1
  BY <1>2
<1>7. ASSUME NEW i \in S
      PROVE  i \in Logs!Latest(S, q) <=> i = x \/ i \in Logs!Latest(S \ {x}, n)
  <2>1. CASE i = x
    BY <1>4, <1>6, <2>1
  <2>2. CASE i # x
    BY <1>3, <1>4, <1>5, <2>2
  <2> QED
    BY <2>1, <2>2
<1> QED
  BY <1>4, <1>5, <1>7

\* Of the entries that journalctl shows the last n are n, or all.
LEMMA LatestCounted ==
  ASSUME NEW L \in Nat, NEW S \in SUBSET (1 .. L), NEW n \in Nat
  PROVE  Cardinality(Logs!Latest(S, n)) = IF n <= Cardinality(S) THEN n ELSE Cardinality(S)
<1> DEFINE Counted(T, k) ==
             Cardinality(Logs!Latest(T, k)) = IF k <= Cardinality(T) THEN k ELSE Cardinality(T)
           Bad == {k \in Nat : \E T \in SUBSET (1 .. L) : ~Counted(T, k)}
<1>1. SUFFICES ASSUME Bad # {} PROVE FALSE
  OBVIOUS
<1>2. PICK k \in Bad : \A m \in Bad : k <= m
  BY <1>1, LeastNat
<1>3. PICK T \in SUBSET (1 .. L) : ~Counted(T, k)
  OBVIOUS
<1>4. IsFiniteSet(T) /\ Cardinality(T) \in Nat /\ k \in Nat
  BY EntriesFinite
<1>5. \A i : IsFiniteSet({j \in T : j > i}) /\ Cardinality({j \in T : j > i}) \in Nat
  BY <1>4, FS_Subset, FS_CardinalityType
<1>6. CASE k = 0
  <2>1. Logs!Latest(T, 0) = {}
    BY <1>5, LogsCount DEF Logs!Latest
  <2> QED
    BY <1>3, <1>4, <1>6, <2>1, FS_EmptySet
<1>7. CASE T = {}
  <2>1. Logs!Latest(T, k) = {}
    BY <1>7 DEF Logs!Latest
  <2> QED
    BY <1>3, <1>4, <1>7, <2>1, FS_EmptySet
<1>8. CASE k # 0 /\ T # {}
  <2>1. PICK x \in T : IsLast(x, T)
    BY <1>8, LatestExists DEF IsLast
  <2>2. PICK m \in Nat : m + 1 = k
    <3>1. k - 1 \in Nat /\ (k - 1) + 1 = k
      BY <1>4, <1>8
    <3> QED
      BY <3>1
  <2> DEFINE R == T \ {x}
  <2>3. Logs!Latest(T, k) = {x} \cup Logs!Latest(R, m)
    <3>1. T \in SUBSET Nat
      OBVIOUS
    <3> HIDE DEF Bad
    <3> QED
      BY <1>4, <2>1, <2>2, <3>1, LatestStep
  <2>4. R \in SUBSET (1 .. L) /\ Counted(R, m)
    <3>1. m \notin Bad
      BY <1>2, <1>4, <2>2
    <3> QED
      BY <2>2, <3>1
  <2>5. Cardinality(R) = Cardinality(T) - 1 /\ IsFiniteSet(R)
    BY <1>4, FS_RemoveElement
  <2>6. /\ Logs!Latest(R, m) \subseteq R /\ x \notin Logs!Latest(R, m)
        /\ IsFiniteSet(Logs!Latest(R, m))
    <3>1. Logs!Latest(R, m) \subseteq R
      BY DEF Logs!Latest
    <3> QED
      BY <2>5, <3>1, FS_Subset
  <2>7. Cardinality(Logs!Latest(T, k)) = Cardinality(Logs!Latest(R, m)) + 1
    <3>1. {x} \cup Logs!Latest(R, m) = Logs!Latest(R, m) \cup {x}
      OBVIOUS
    <3> DEFINE F == Logs!Latest(R, m)
    <3>2. Logs!Latest(T, k) = F \cup {x}
      BY <2>3, <3>1
    <3>3. IsFiniteSet(F) /\ x \notin F
      BY <2>6
    <3> HIDE DEF F
    <3>4. Cardinality(F \cup {x}) = Cardinality(F) + 1
      BY <3>3, FS_AddElement
    <3> QED
      BY <3>2, <3>4 DEF F
  <2>8. Cardinality(Logs!Latest(R, m)) = IF m <= Cardinality(R) THEN m ELSE Cardinality(R)
    BY <2>4
  <2> HIDE DEF R
  <2>9. m = k - 1
    BY <1>4, <2>2
  <2>10. Cardinality(Logs!Latest(T, k)) = IF k <= Cardinality(T) THEN k ELSE Cardinality(T)
    BY <1>4, <2>2, <2>5, <2>7, <2>8
  <2> QED
    BY <1>3, <2>10
<1> QED
  BY <1>6, <1>7, <1>8

\* Nobody who is left out comes after one of the last n.
LEMMA LatestAreLast ==
  ASSUME NEW L \in Nat, NEW S \in SUBSET (1 .. L), NEW n \in Nat,
         NEW i \in Logs!Latest(S, n), NEW j \in S \ Logs!Latest(S, n)
  PROVE  j < i
<1>1. SUFFICES ASSUME ~(j < i) PROVE FALSE
  OBVIOUS
<1> DEFINE U == {h \in S : h > i}
           V == {h \in S : h > j}
<1>2. i \in S /\ Cardinality(U) < n /\ ~(Cardinality(V) < n)
  BY LogsCount DEF Logs!Latest
<1>3. V \subseteq U
  <2>1. ASSUME NEW h \in S, h > j PROVE h > i
    <3>1. h \in Nat /\ i \in Nat /\ j \in Nat
      BY <1>2
    <3> QED
      BY <1>1, <2>1, <3>1
  <2> QED
    BY <2>1
<1>4. IsFiniteSet(U)
  <2>1. IsFiniteSet(S)
    BY EntriesFinite
  <2> QED
    BY <2>1, FS_Subset
<1>5. Cardinality(V) <= Cardinality(U) /\ Cardinality(U) \in Nat /\ Cardinality(V) \in Nat
  BY <1>3, <1>4, FS_Subset, FS_CardinalityType
<1> HIDE DEF U, V
<1> QED
  BY <1>2, <1>5

\* Where the lines of a text from m on end.
Ends(s, m) == {j \in m .. Len(s) : s[j] = "n"}

LEMMA EndsCounted ==
  ASSUME NEW s \in Seq({"c", "n"}), NEW m \in Nat \ {0}
  PROVE  /\ IsFiniteSet(Ends(s, m)) /\ Ends(s, m) \in SUBSET (1 .. Len(s))
         /\ Logs!Newlines(s, m) = Cardinality(Ends(s, m))
         /\ Logs!Newlines(s, m) \in Nat
<1>1. Len(s) \in Nat
  OBVIOUS
<1>2. Ends(s, m) \in SUBSET (1 .. Len(s))
  BY <1>1 DEF Ends
<1>3. IsFiniteSet(Ends(s, m)) /\ Cardinality(Ends(s, m)) \in Nat
  BY <1>1, <1>2, EntriesFinite
<1>4. Logs!Newlines(s, m) = Cardinality(Ends(s, m))
  BY LogsCount DEF Logs!Newlines, Ends
<1> QED
  BY <1>2, <1>3, <1>4

\* The count goes up by one at a newline, and not between newlines.
LEMMA NewlineCounts ==
  ASSUME NEW s \in Seq({"c", "n"}), NEW m \in 1 .. Len(s), s[m] = "n"
  PROVE  Logs!Newlines(s, m) = Logs!Newlines(s, m + 1) + 1
<1>1. m \in Nat \ {0} /\ m + 1 \in Nat \ {0} /\ Len(s) \in Nat
  OBVIOUS
<1>2. Ends(s, m) = Ends(s, m + 1) \cup {m} /\ m \notin Ends(s, m + 1)
  BY <1>1 DEF Ends
<1>3. IsFiniteSet(Ends(s, m + 1))
  BY <1>1, EndsCounted
<1>4. Cardinality(Ends(s, m)) = Cardinality(Ends(s, m + 1)) + 1
  BY <1>2, <1>3, FS_AddElement
<1> QED
  BY <1>1, <1>4, EndsCounted

LEMMA FewNewlines ==
  ASSUME NEW s \in Seq({"c", "n"}), NEW m \in Nat \ {0}, NEW n \in Nat,
         \A i \in m .. Len(s) : s[i] = "n" => Logs!Newlines(s, i) <= n
  PROVE  Logs!Newlines(s, m) <= n
<1>1. CASE Ends(s, m) = {}
  <2>1. Logs!Newlines(s, m) = 0
    BY <1>1, EndsCounted, FS_EmptySet
  <2> QED
    BY <2>1
<1>2. CASE Ends(s, m) # {}
  <2>1. Ends(s, m) \in SUBSET Nat
    BY DEF Ends
  <2>2. PICK i \in Ends(s, m) : \A j \in Ends(s, m) : i <= j
    BY <1>2, <2>1, LeastNat
  <2>3. i \in m .. Len(s) /\ s[i] = "n" /\ i \in Nat \ {0}
    BY DEF Ends
  <2>4. Ends(s, i) = Ends(s, m)
    <3>1. ASSUME NEW j \in Ends(s, m) PROVE j \in Ends(s, i)
      BY <2>2, <2>3 DEF Ends
    <3>2. ASSUME NEW j \in Ends(s, i) PROVE j \in Ends(s, m)
      BY <2>3 DEF Ends
    <3> QED
      BY <3>1, <3>2 DEF Ends
  <2>5. Logs!Newlines(s, i) = Logs!Newlines(s, m)
    BY <2>3, <2>4, EndsCounted
  <2> QED
    BY <2>3, <2>5
<1> QED
  BY <1>1, <1>2

\* The end of a text has the newlines that the text has from there on.
LEMMA TailNewlines ==
  ASSUME NEW s \in Seq({"c", "n"}), NEW m \in 0 .. Len(s)
  PROVE  LET t == SubSeq(s, m + 1, Len(s))
         IN  /\ t \in Seq({"c", "n"}) /\ Len(t) = Len(s) - m
             /\ Logs!Newlines(t, 1) = Logs!Newlines(s, m + 1)
<1> DEFINE t == SubSeq(s, m + 1, Len(s))
<1>1. Len(s) \in Nat /\ m \in Nat /\ m + 1 \in Nat \ {0}
  OBVIOUS
<1>2. t \in Seq({"c", "n"}) /\ Len(t) = Len(s) - m
  BY <1>1
<1>3. \A i \in 1 .. Len(t) : t[i] = s[i + m]
  BY <1>1
<1> HIDE DEF t
<1> DEFINE F == Ends(t, 1)
           G == Ends(s, m + 1)
           f == [i \in F |-> i + m]
<1>4. F \subseteq 1 .. Len(t) /\ G \subseteq m + 1 .. Len(s)
  BY DEF Ends
<1>5. f \in [F -> G]
  <2>1. ASSUME NEW i \in F PROVE i + m \in G
    BY <1>1, <1>2, <1>3, <1>4 DEF Ends
  <2> QED
    BY <2>1
<1>6. \A i, j \in F : f[i] = f[j] => i = j
  BY <1>1, <1>2, <1>4
<1>7. ASSUME NEW j \in G PROVE \E i \in F : f[i] = j
  <2>1. j - m \in 1 .. Len(t) /\ (j - m) + m = j
    BY <1>1, <1>2, <1>4
  <2>2. t[j - m] = "n"
    BY <1>3, <2>1 DEF Ends
  <2>3. j - m \in F
    BY <2>1, <2>2 DEF Ends
  <2> QED
    BY <2>1, <2>3
<1>8. f \in Bijection(F, G)
  BY <1>5, <1>6, <1>7 DEF Bijection, Injection, Surjection, IsInjective
<1>9. IsFiniteSet(F)
  BY <1>2, EndsCounted
<1> HIDE DEF F, G, f
<1>10. Cardinality(F) = Cardinality(G)
  BY <1>8, <1>9, FS_Bijection DEF ExistsBijection
<1>11. Logs!Newlines(t, 1) = Logs!Newlines(s, m + 1)
  BY <1>1, <1>2, <1>10, EndsCounted DEF F, G
<1> QED
  BY <1>2, <1>11 DEF t

\* tailLines returns the end of the text, from a newline on or all of it, with as many
\* newlines as asked for or as there are.
LEMMA TailLines ==
  ASSUME NEW s \in Seq({"c", "n"}), NEW n \in Nat \ {0}
  PROVE  LET t == Logs!tailLines(s, n)
             rest == Len(s) - Len(t)
         IN  /\ t = SubSeq(s, rest + 1, Len(s))
             /\ Logs!Newlines(t, 1) = Logs!Min({n, Logs!Newlines(s, 1)})
             /\ rest > 0 => s[rest] = "n"
<1>1. Len(s) \in Nat /\ Logs!Newlines(s, 1) \in Nat
  BY EndsCounted
<1> DEFINE C == Logs!Cuts(s, n)
<1>2. C = {i \in 1 .. Len(s) : s[i] = "n" /\ Logs!Newlines(s, i) > n}
  BY DEF Logs!Cuts
<1>3. \A i \in 1 .. Len(s) : Logs!Newlines(s, i) \in Nat
  BY EndsCounted
<1>4. CASE C = {}
  <2>1. Logs!tailLines(s, n) = s
    BY <1>4 DEF Logs!tailLines
  <2>2. s = SubSeq(s, 1, Len(s))
    OBVIOUS
  <2>3. \A i \in 1 .. Len(s) : s[i] = "n" => Logs!Newlines(s, i) <= n
    BY <1>2, <1>3, <1>4
  <2>4. Logs!Newlines(s, 1) <= n
    BY <2>3, FewNewlines
  <2>5. Logs!Min({n, Logs!Newlines(s, 1)}) = Logs!Newlines(s, 1)
    BY <1>1, <2>4, MinOfTwo
  <2> QED
    BY <1>1, <2>1, <2>2, <2>5
<1>5. CASE C # {}
  <2> DEFINE m == Logs!Max(C)
  <2>1. m \in C /\ \A i \in C : i <= m
    BY <1>1, <1>2, <1>5, MaxIsLatest
  <2>2. Logs!tailLines(s, n) = SubSeq(s, m + 1, Len(s))
    <3>1. ~(n <= 0)
      OBVIOUS
    <3> QED
      BY <1>5, <3>1, Zenon DEF Logs!tailLines
  <2> HIDE DEF m
  <2>3. m \in 1 .. Len(s) /\ s[m] = "n" /\ Logs!Newlines(s, m) > n
    BY <1>2, <2>1
  <2>4. Logs!Newlines(s, m) = Logs!Newlines(s, m + 1) + 1
    BY <2>3, NewlineCounts
  <2>5. Logs!Newlines(s, m + 1) <= n
    <3>1. ASSUME NEW i \in m + 1 .. Len(s), s[i] = "n" PROVE Logs!Newlines(s, i) <= n
      <4>1. i \in 1 .. Len(s) /\ ~(i <= m)
        BY <2>3
      <4>2. i \notin C
        BY <2>1, <4>1
      <4> QED
        BY <1>2, <1>3, <3>1, <4>1, <4>2
    <3>2. m + 1 \in Nat \ {0}
      BY <2>3
    <3> QED
      BY <3>1, <3>2, FewNewlines
  <2>6. Logs!Newlines(s, m + 1) = n
    <3>1. Logs!Newlines(s, m + 1) \in Nat /\ Logs!Newlines(s, m) \in Nat
      BY <1>3, <2>3, EndsCounted
    <3> QED
      BY <2>3, <2>4, <2>5, <3>1
  <2>7. Logs!Newlines(s, 1) >= n
    <3>1. Ends(s, m) \subseteq Ends(s, 1)
      BY <2>3 DEF Ends
    <3>2. IsFiniteSet(Ends(s, 1))
      BY EndsCounted
    <3>3. Cardinality(Ends(s, m)) <= Cardinality(Ends(s, 1))
      BY <3>1, <3>2, FS_Subset
    <3>4. Logs!Newlines(s, m) <= Logs!Newlines(s, 1)
      BY <2>3, <3>3, EndsCounted
    <3> QED
      BY <1>1, <1>3, <2>3, <3>4
  <2>8. Logs!Min({n, Logs!Newlines(s, 1)}) = n
    BY <1>1, <2>7, MinOfTwo
  <2>9. /\ Len(SubSeq(s, m + 1, Len(s))) = Len(s) - m
        /\ Logs!Newlines(SubSeq(s, m + 1, Len(s)), 1) = n
    BY <2>3, <2>6, TailNewlines
  <2>10. Len(s) - Len(SubSeq(s, m + 1, Len(s))) = m
    BY <1>1, <2>3, <2>9
  <2> QED
    BY <2>2, <2>3, <2>8, <2>9, <2>10
<1> QED
  BY <1>4, <1>5

LEMMA TailOfText ==
  ASSUME NEW s \in Seq({"c", "n"}), NEW n \in Nat \ {0}
  PROVE  \/ Logs!tailLines(s, n) = s
         \/ \E m \in 1 .. Len(s) : Logs!tailLines(s, n) = SubSeq(s, m + 1, Len(s))
<1> DEFINE C == Logs!Cuts(s, n)
<1>1. C \subseteq 1 .. Len(s) /\ Len(s) \in Nat
  BY DEF Logs!Cuts
<1>2. CASE C = {}
  BY <1>2 DEF Logs!tailLines
<1>3. CASE C # {}
  <2>1. Logs!Max(C) \in C
    BY <1>1, <1>3, MaxIsLatest
  <2>2. Logs!tailLines(s, n) = SubSeq(s, Logs!Max(C) + 1, Len(s))
    <3>1. ~(n <= 0)
      OBVIOUS
    <3> QED
      BY <1>3, <3>1, Zenon DEF Logs!tailLines
  <2> QED
    BY <1>1, <2>1, <2>2
<1> QED
  BY <1>2, <1>3

\* The state of both logs keeps its type.
THEOREM LogsTypeCorrect ==
  ASSUME Logs!LogsAssumption
  PROVE  Logs!Spec => []Logs!TypeOK
<1>1. \A n \in Lines : Logs!LinesOf(n) \in 0 .. MaxLines
  BY DEF Logs!LogsAssumption, Logs!LinesOf, Logs!Refused
<1>2. Logs!Init => Logs!TypeOK
  BY <1>1 DEF Logs!LogsAssumption, Logs!Init, Logs!TypeOK
<1>3. Logs!TypeOK /\ [Logs!Next]_Logs!vars => Logs!TypeOK'
  <2> SUFFICES ASSUME Logs!TypeOK, [Logs!Next]_Logs!vars PROVE Logs!TypeOK'
    OBVIOUS
  <2> USE DEF Logs!LogsAssumption, Logs!TypeOK
  <2>1. CASE Logs!Log
    <3>1. PICK l \in {<<"n">>, <<"c", "n">>, <<"c", "c", "n">>} : dmesg' = dmesg \o l
      BY <2>1 DEF Logs!Log
    <3>2. l \in Seq({"c", "n"})
      <4>1. /\ <<"n">> \in Seq({"c", "n"}) /\ <<"c", "n">> \in Seq({"c", "n"})
            /\ <<"c", "c", "n">> \in Seq({"c", "n"})
        OBVIOUS
      <4> QED
        BY <4>1, Zenon
    <3>3. dmesg' \in Seq({"c", "n"})
      BY <3>1, <3>2
    <3> QED
      BY <1>1, <2>1, <3>3 DEF Logs!Log, Logs!Entries
  <2>2. CASE Logs!Record
    <3>1. PICK e \in Logs!Entries : journal' = Append(journal, e)
      BY <2>2 DEF Logs!Record
    <3>2. UNCHANGED <<dmesg, boot>> /\ Logs!Entries' = Logs!Entries
      BY <2>2 DEF Logs!Record, Logs!Entries
    <3>3. journal' \in Seq(Logs!Entries)
      BY <3>1
    <3> QED
      BY <1>1, <3>2, <3>3
  <2>3. CASE Logs!Reboot
    <3>1. boot' = boot + 1 /\ boot' \in 1 .. MaxBoots /\ dmesg' = << >> /\ journal' = journal
      BY <2>3 DEF Logs!Reboot
    <3>2. journal \in Seq(Logs!Entries')
      <4>1. 1 .. boot \subseteq 1 .. boot'
        BY <3>1
      <4>2. Logs!Entries \subseteq Logs!Entries'
        BY <4>1 DEF Logs!Entries
      <4> QED
        BY <4>2, SeqMonotonic
    <3> QED
      BY <1>1, <3>1, <3>2
  <2>4. CASE UNCHANGED Logs!vars
    BY <1>1, <2>4 DEF Logs!vars, Logs!Entries
  <2> QED
    BY <2>1, <2>2, <2>3, <2>4 DEF Logs!Next
<1> QED
  BY <1>2, <1>3, PTL DEF Logs!Spec

\* dmesg terminates the last line.
Terminated == dmesg # << >> => dmesg[Len(dmesg)] = "n"

LEMMA LastAppended ==
  ASSUME NEW s \in Seq({"c", "n"}), NEW l \in Seq({"c", "n"}), Len(l) > 0
  PROVE  s \o l # << >> /\ (s \o l)[Len(s \o l)] = l[Len(l)]
<1>1. Len(s) \in Nat /\ Len(l) \in Nat
  BY LenProperties
<1>2. /\ Len(s \o l) = Len(s) + Len(l)
      /\ \A i \in 1 .. Len(s) + Len(l) :
           (s \o l)[i] = IF i <= Len(s) THEN s[i] ELSE l[i - Len(s)]
  BY ConcatProperties
<1>3. Len(s \o l) \in 1 .. Len(s) + Len(l) /\ ~(Len(s \o l) <= Len(s))
      /\ Len(s \o l) - Len(s) = Len(l)
  BY <1>1, <1>2
<1>4. s \o l # << >>
  BY <1>1, <1>2
<1> QED
  BY <1>2, <1>3, <1>4

LEMMA LinesTerminated ==
  ASSUME Logs!LogsAssumption
  PROVE  Logs!Spec => []Terminated
<1>1. Logs!Init => Terminated
  BY DEF Logs!Init, Terminated
<1>2. Logs!TypeOK /\ Terminated /\ [Logs!Next]_Logs!vars => Terminated'
  <2> SUFFICES ASSUME Logs!TypeOK, Terminated, [Logs!Next]_Logs!vars PROVE Terminated'
    OBVIOUS
  <2>1. CASE Logs!Log
    <3>1. PICK l \in {<<"n">>, <<"c", "n">>, <<"c", "c", "n">>} : dmesg' = dmesg \o l
      BY <2>1 DEF Logs!Log
    <3>2. dmesg \in Seq({"c", "n"}) /\ Len(dmesg) \in Nat
      BY DEF Logs!TypeOK
    <3>3. l \in Seq({"c", "n"}) /\ Len(l) > 0 /\ l[Len(l)] = "n"
      <4>1. CASE l = <<"n">>
        BY <4>1
      <4>2. CASE l = <<"c", "n">>
        BY <4>2
      <4>3. CASE l = <<"c", "c", "n">>
        BY <4>3
      <4> QED
        BY <4>1, <4>2, <4>3
    <3>4. (dmesg \o l)[Len(dmesg \o l)] = l[Len(l)]
      BY <3>2, <3>3, LastAppended, Zenon
    <3>5. dmesg'[Len(dmesg')] = "n"
      BY <3>1, <3>3, <3>4, Zenon
    <3> QED
      BY <3>5, Zenon DEF Terminated
  <2>2. CASE Logs!Record \/ UNCHANGED Logs!vars
    BY <2>2 DEF Logs!Record, Logs!vars, Terminated
  <2>3. CASE Logs!Reboot
    BY <2>3 DEF Logs!Reboot, Terminated
  <2> QED
    BY <2>1, <2>2, <2>3 DEF Logs!Next
<1> QED
  BY <1>1, <1>2, LogsTypeCorrect, PTL DEF Logs!Spec

\* The lines of a text whose last line is terminated are its newlines.
LEMMA LinesAreNewlines ==
  ASSUME NEW s \in Seq({"c", "n"}), s # << >> => s[Len(s)] = "n"
  PROVE  Cardinality(Logs!LineEnds(s)) = Logs!Newlines(s, 1)
<1>1. Logs!LineEnds(s) = Ends(s, 1)
  BY DEF Logs!LineEnds, Ends
<1> QED
  BY <1>1, EndsCounted

\* read_dmesg answers with exactly the last lines of whatever the kernel has printed, for
\* every number of lines it accepts (tailLines).
THEOREM TailIsExact ==
  ASSUME Logs!LogsAssumption
  PROVE  Logs!Spec => []Logs!TailExact
<1>1. Logs!TypeOK /\ Terminated => Logs!TailExact
  <2> SUFFICES ASSUME Logs!TypeOK, Terminated, NEW k \in Lines, Logs!LinesOf(k) # Logs!Refused
               PROVE  LET n == Logs!LinesOf(k)
                          t == Logs!tailLines(dmesg, n)
                          rest == Len(dmesg) - Len(t)
                      IN  /\ t = SubSeq(dmesg, rest + 1, Len(dmesg))
                          /\ Logs!Cardinality(Logs!LineEnds(t))
                               = Logs!Min({n, Logs!Cardinality(Logs!LineEnds(dmesg))})
                          /\ rest > 0 => dmesg[rest] = "n"
    BY DEF Logs!TailExact
  <2> DEFINE n == Logs!LinesOf(k)
             t == Logs!tailLines(dmesg, n)
             rest == Len(dmesg) - Len(t)
  <2>1. n \in Nat \ {0} /\ dmesg \in Seq({"c", "n"})
    BY DEF Logs!TypeOK, Logs!LogsAssumption, Logs!Refused
  <2> HIDE DEF n
  <2>2. /\ t = SubSeq(dmesg, rest + 1, Len(dmesg))
        /\ Logs!Newlines(t, 1) = Logs!Min({n, Logs!Newlines(dmesg, 1)})
        /\ rest > 0 => dmesg[rest] = "n"
    BY <2>1, TailLines
  <2> HIDE DEF t
  <2>3. t \in Seq({"c", "n"}) /\ (t # << >> => t[Len(t)] = "n")
    <3>1. rest \in 0 .. Len(dmesg)
      <4>1. t = dmesg \/ \E m \in 1 .. Len(dmesg) : t = SubSeq(dmesg, m + 1, Len(dmesg))
        BY <2>1, TailOfText DEF t
      <4> QED
        BY <2>1, <4>1
    <3> HIDE DEF rest
    <3>2. Len(t) = Len(dmesg) - rest /\ \A i \in 1 .. Len(t) : t[i] = dmesg[i + rest]
      <4>1. Len(dmesg) \in Nat /\ rest \in Nat /\ rest <= Len(dmesg)
        BY <2>1, <3>1
      <4> QED
        BY <2>1, <2>2, <4>1
    <3>3. t \in Seq({"c", "n"})
      BY <2>1, <2>2, <3>1
    <3>4. ASSUME t # << >> PROVE t[Len(t)] = "n"
      <4>1. Len(t) \in 1 .. Len(t) /\ Len(t) + rest = Len(dmesg) /\ dmesg # << >>
        BY <2>1, <3>1, <3>2, <3>3, <3>4
      <4>2. t[Len(t)] = dmesg[Len(dmesg)]
        BY <3>2, <4>1
      <4> QED
        BY <4>1, <4>2 DEF Terminated
    <3> QED
      BY <3>3, <3>4
  <2>4. /\ Cardinality(Logs!LineEnds(t)) = Logs!Newlines(t, 1)
        /\ Cardinality(Logs!LineEnds(dmesg)) = Logs!Newlines(dmesg, 1)
    BY <2>1, <2>3, LinesAreNewlines DEF Terminated
  <2> QED
    BY <2>2, <2>4, LogsCount DEF n, t
<1> QED
  BY <1>1, LinesTerminated, LogsTypeCorrect, PTL

\* read_journal refuses exactly the requests that are not allowed, and answers any other,
\* the default included, with the latest entries that meet all of its conditions
\* together, as many as asked for or as there are (journalArgs).
THEOREM ConditionsAreMet ==
  ASSUME Logs!LogsAssumption
  PROVE  Logs!Spec => []Logs!ConditionsMet
<1>1. Logs!TypeOK => Logs!ConditionsMet
  <2> SUFFICES ASSUME Logs!TypeOK, NEW in \in Logs!Requests
               PROVE  LET meets(e) == /\ in.unit \in {Logs!NotGiven, Logs!Given(e.unit)}
                                      /\ \A p \in in.priority : e.priority <= p
                                      /\ \A t \in in.since : t <= e.time
                                      /\ in.match \cap e.matches = in.match
                                      /\ in.boot # 0 => e.boot = boot + in.boot
                          met == {i \in 1 .. Len(journal) : meets(journal[i])}
                      IN  /\ Logs!Allowed(in) <=> Logs!journalArgs(in) # {}
                          /\ \A a \in Logs!journalArgs(in) :
                               LET got == Logs!journalctl(a) IN
                                 /\ got \subseteq met
                                 /\ \A i \in got, j \in met \ got : j < i
                                 /\ Logs!Cardinality(got)
                                      = Logs!Min({Logs!LinesOf(in.lines), Logs!Cardinality(met)})
    BY DEF Logs!ConditionsMet
  <2> DEFINE meets(e) == /\ in.unit \in {Logs!NotGiven, Logs!Given(e.unit)}
                         /\ \A p \in in.priority : e.priority <= p
                         /\ \A t \in in.since : t <= e.time
                         /\ in.match \cap e.matches = in.match
                         /\ in.boot # 0 => e.boot = boot + in.boot
             met == {i \in 1 .. Len(journal) : meets(journal[i])}
             n == Logs!LinesOf(in.lines)
  <2>1. /\ in.lines \in Lines /\ in.lines \in Int /\ in.boot \in Int /\ MaxBack \in Nat
        /\ MaxLines \in Nat /\ DefaultLines \in 1 .. MaxLines /\ in.wellFormed \in BOOLEAN
    BY DEF Logs!Requests, Logs!LogsAssumption
  <2>2. n \in Nat /\ Len(journal) \in Nat
    <3>1. n \in 0 .. MaxLines
      BY <2>1 DEF Logs!TypeOK
    <3>2. Len(journal) \in Nat
      BY LenProperties DEF Logs!TypeOK
    <3> HIDE DEF n
    <3> QED
      BY <2>1, <3>1, <3>2
  <2>3. Logs!Allowed(in) <=> ~Logs!Refuses(in)
    <3>1. n = Logs!Refused <=> in.lines > MaxLines
      BY <2>1 DEF Logs!LinesOf, Logs!Refused
    <3> HIDE DEF n
    <3>2. in.boot \in -MaxBack .. 0 <=> ~(in.boot # 0 /\ (in.boot < -MaxBack \/ in.boot > 0))
      BY <2>1
    <3>3. in.lines <= MaxLines <=> ~(n = Logs!Refused)
      BY <2>1, <3>1
    <3> QED
      BY <3>2, <3>3, Zenon DEF Logs!Allowed, Logs!Refuses, n
  <2>4. Logs!Allowed(in) <=> Logs!journalArgs(in) # {}
    BY <2>3 DEF Logs!journalArgs, Logs!Given, Logs!NotGiven
  <2>5. in.unit = {} \/ \E x : in.unit = {x}
    BY DEF Logs!Requests, Logs!Options, Logs!NotGiven, Logs!Given
  <2>6. in.since \subseteq Times /\ Times \subseteq Int
    BY DEF Logs!Requests, Logs!Options, Logs!NotGiven, Logs!Given, Logs!LogsAssumption
  <2> SUFFICES ASSUME NEW a \in Logs!journalArgs(in)
               PROVE  LET got == Logs!journalctl(a) IN
                        /\ got \subseteq met
                        /\ \A i \in got, j \in met \ got : j < i
                        /\ Logs!Cardinality(got) = Logs!Min({n, Logs!Cardinality(met)})
    BY <2>4
  <2>7. /\ a.n = n /\ a.unit = in.unit /\ a.priority = in.priority /\ a.since = in.since
        /\ a.match = in.match /\ a.b = IF in.boot # 0 THEN {in.boot} ELSE {}
    BY DEF Logs!journalArgs, Logs!Given, Logs!NotGiven
  <2>8. ASSUME NEW e \in Logs!Entries PROVE Logs!Shown(a, e) <=> meets(e)
    <3>1. in.unit \subseteq {e.unit} <=> in.unit \in {Logs!NotGiven, Logs!Given(e.unit)}
      BY <2>5 DEF Logs!NotGiven, Logs!Given
    <3>2. in.match \subseteq e.matches <=> in.match \cap e.matches = in.match
      OBVIOUS
    <3>3. (\A t \in in.since : e.time >= t) <=> (\A t \in in.since : t <= e.time)
      BY <2>6 DEF Logs!Entries
    <3>4. (\A b \in a.b : e.boot = boot + b) <=> (in.boot # 0 => e.boot = boot + in.boot)
      BY <2>7
    <3> QED
      BY <2>7, <3>1, <3>2, <3>3, <3>4 DEF Logs!Shown
  <2>9. Logs!journalctl(a) = Logs!Latest(met, n)
    <3>1. {i \in 1 .. Len(journal) : Logs!Shown(a, journal[i])} = met
      <4>1. \A i \in 1 .. Len(journal) : journal[i] \in Logs!Entries
        BY ElementOfSeq DEF Logs!TypeOK
      <4> HIDE DEF meets
      <4> QED
        BY <2>8, <4>1
    <3> HIDE DEF met, n
    <3> QED
      BY <2>7, <3>1 DEF Logs!journalctl
  <2>10. met \in SUBSET (1 .. Len(journal))
    OBVIOUS
  <2> HIDE DEF met, n
  <2>11. Cardinality(Logs!Latest(met, n)) = IF n <= Cardinality(met) THEN n ELSE Cardinality(met)
    BY <2>2, <2>10, LatestCounted
  <2>12. Cardinality(met) \in Nat
    BY <2>2, <2>10, EntriesFinite
  <2>13. Logs!Min({n, Cardinality(met)}) = IF n <= Cardinality(met) THEN n ELSE Cardinality(met)
    BY <2>2, <2>12, MinOfTwo
  <2>14. Logs!Latest(met, n) \subseteq met
    BY DEF Logs!Latest
  <2>15. \A i \in Logs!Latest(met, n), j \in met \ Logs!Latest(met, n) : j < i
    BY <2>2, <2>10, LatestAreLast
  <2>16. Logs!Cardinality(Logs!Latest(met, n)) = Logs!Min({n, Logs!Cardinality(met)})
    BY <2>11, <2>13, LogsCount
  <2> QED
    BY <2>9, <2>14, <2>15, <2>16
<1> QED
  BY <1>1, LogsTypeCorrect, PTL
=============================================================================
