-------------------------------- MODULE Apt ---------------------------------
(***************************************************************************)
(* apt_update_status of internal/tools/apt.go over internal/aptdb: the     *)
(* tool reads the dpkg status, the directory of apt lists, the Release and *)
(* Packages files in it, the reboot flag and the update stamp one after    *)
(* another, while apt and dpkg replace and remove them.                    *)
(*                                                                         *)
(* One package is followed; versions are their ranks under CompareVersions *)
(* (see DebVersion).  Each pocket has one Packages index and its Release   *)
(* files, in one of the orders the directory can list them.                *)
(***************************************************************************)
EXTENDS Naturals, Sequences

CONSTANTS
  Pockets,    \* suites: a subset of {"main", "security", "backports"}
  Orders,     \* directory orders: permutations of Pockets
  Versions,   \* version ranks, 1 .. n
  Archs,      \* each pocket's architecture for it: "own", "all" or "foreign"
  Kinds,      \* what apt and dpkg do: "update", "upgrade", "unpack", "drop", "unlabel"
  MaxEvents   \* bound on that

AptAssumption ==
  /\ \A o \in Orders : o \in Seq(Pockets) /\ \A p \in Pockets : \E i \in DOMAIN o : o[i] = p
  /\ Versions \subseteq Nat \ {0} /\ MaxEvents \in Nat
  /\ Archs \subseteq [Pockets -> {"own", "all", "foreign"}]

VARIABLES
  order,    \* the directory order
  status,   \* the package's stanza: version and state
  index,    \* each pocket's Packages file: its entry, or Gone
  release,  \* each pocket: which of InRelease and Release are there
  reboot,   \* /var/run/reboot-required
  stamp,    \* update-success-stamp
  events,   \* events so far
  saw,      \* what was true of the host during the call
  call      \* the call

vars == <<order, status, index, release, reboot, stamp, events, saw, call>>

Gone == [version |-> 0, arch |-> "own"]

Unknown == "unknown"    \* the suite of an index without Release file

States == {"installed", "half-installed", "unpacked"}

Steps == {"idle", "status", "dir", "releases", "indexes", "join", "reboot",
          "stamp", "done", "error"}

Answer == [pending |-> FALSE, candidate |-> 0, security |-> FALSE,
           reboot |-> FALSE, last |-> 0]

TypeOK ==
  /\ status.version \in Versions /\ status.state \in States
  /\ events \in 0 .. MaxEvents
  /\ call.pc \in Steps
  /\ call.answer.security => call.answer.pending
  /\ call.answer.pending => call.answer.candidate \in Versions

-----------------------------------------------------------------------------
(***************************************************************************)
(* What is true of the host                                                *)
(***************************************************************************)

\* apt installs from the pockets pinned at 500: backports are at 100.
Newer(p) == /\ p # "backports" /\ index[p].arch # "foreign"
            /\ index[p].version > status.version

PendingNow == status.state # "unpacked" /\ \E p \in Pockets : Newer(p)

\* The package apt would install, a security update among them.
SecurityNow ==
  PendingNow /\ \E p \in Pockets :
    /\ p = "security" /\ Newer(p)
    /\ \A q \in Pockets : Newer(q) => index[q].version <= index[p].version

UpToDateNow == ~PendingNow /\ status.state = "installed" /\ ~reboot

Observe ==
  saw' = [pending  |-> saw.pending \/ PendingNow',
          always   |-> saw.always /\ PendingNow',
          security |-> saw.security /\ SecurityNow',
          upToDate |-> saw.upToDate \/ UpToDateNow']

Init ==
  /\ order \in Orders
  /\ status \in [version : Versions, state : {"installed"}]
  /\ \E v \in [Pockets -> Versions], a \in Archs :
       index = [p \in Pockets |-> [version |-> v[p], arch |-> a[p]]]
  /\ \E files \in {{"InRelease"}, {"InRelease", "Release"}} :
       release = [p \in Pockets |-> files]
  /\ reboot = FALSE /\ stamp = 0 /\ events = 0
  /\ saw = [pending |-> FALSE, always |-> FALSE, security |-> FALSE, upToDate |-> FALSE]
  /\ call = [pc |-> "idle", version |-> 0, files |-> {}, releases |-> {},
             suite |-> [p \in Pockets |-> Unknown], cands |-> << >>, answer |-> Answer]

-----------------------------------------------------------------------------
(***************************************************************************)
(* apt and dpkg                                                            *)
(***************************************************************************)

Event(kind) ==
  /\ kind \in Kinds /\ events < MaxEvents
  /\ call.pc \notin {"done", "error"}
  /\ events' = events + 1
  /\ UNCHANGED <<order, call>>

\* apt update renames a new index over the old one and stamps its success.
Update(p) ==
  /\ Event("update") /\ index[p] # Gone
  /\ \E v \in Versions : v > index[p].version /\ index' = [index EXCEPT ![p].version = v]
  /\ stamp' = stamp + 1
  /\ UNCHANGED <<status, release, reboot>>
  /\ Observe

\* The source is taken out of sources.list, and the next update cleans up.
DropIndex(p) ==
  /\ Event("drop") /\ index[p] # Gone
  /\ index' = [index EXCEPT ![p] = Gone]
  /\ UNCHANGED <<status, release, reboot, stamp>>
  /\ Observe

DropRelease(p) ==
  /\ Event("unlabel") /\ \E f \in release[p] : release' = [release EXCEPT ![p] = @ \ {f}]
  /\ UNCHANGED <<status, index, reboot, stamp>>
  /\ Observe

\* apt upgrade, as one step where dpkg is not caught half-way.  The package is
\* one that asks for a reboot.
Upgrade ==
  /\ Event("upgrade") /\ PendingNow
  /\ \E p \in Pockets : Newer(p) /\ status' = [status EXCEPT !.version = index[p].version]
  /\ reboot' = TRUE
  /\ UNCHANGED <<index, release, stamp>>
  /\ Observe

\* dpkg records each stage of its work.
Unpack ==
  /\ Event("unpack")
  /\ \/ /\ status.state = "installed" /\ PendingNow
        /\ status' = [status EXCEPT !.state = "half-installed"]
        /\ UNCHANGED reboot
     \/ /\ status.state = "half-installed"
        /\ \E p \in Pockets :
             Newer(p) /\ status' = [version |-> index[p].version, state |-> "unpacked"]
        /\ UNCHANGED reboot
     \/ /\ status.state = "unpacked"
        /\ status' = [status EXCEPT !.state = "installed"]
        /\ reboot' = TRUE
  /\ UNCHANGED <<index, release, stamp>>
  /\ Observe

-----------------------------------------------------------------------------
(***************************************************************************)
(* The tool                                                                *)
(***************************************************************************)

disk == <<status, index, release, reboot, stamp>>

\* Seeded fault: the reboot flag is read first.
ThenRebootFirst(pc) ==
  CASE pc = "idle"   -> "reboot"
    [] pc = "reboot" -> "status"
    [] pc = "join"   -> "stamp"
    [] pc = "stamp"  -> "done"

\* The order of the handler's calls.
Then(pc) ==
  CASE pc = "idle"   -> "status"
    [] pc = "join"   -> "reboot"
    [] pc = "reboot" -> "stamp"
    [] pc = "stamp"  -> "done"

Go(r) == call' = r /\ UNCHANGED <<order, disk, events>>

Start ==
  /\ call.pc = "idle"
  /\ saw' = [pending |-> PendingNow, always |-> PendingNow,
             security |-> SecurityNow, upToDate |-> UpToDateNow]
  /\ Go([call EXCEPT !.pc = Then("idle")])

\* InstalledPackages: the status text contains "installed" and does not begin
\* with "deinstall".
Installed == status.state \in {"installed", "half-installed"}

ReadStatus ==
  /\ call.pc = "status"
  /\ Go([call EXCEPT !.pc = "dir", !.version = IF Installed THEN status.version ELSE 0])
  /\ UNCHANGED saw

\* AvailablePackages: ReadDir
ReadDir ==
  /\ call.pc = "dir"
  /\ Go([call EXCEPT !.pc = "releases", !.releases = Pockets,
                     !.files = {p \in Pockets : index[p] # Gone}])
  /\ UNCHANGED saw

\* The first of S in the order of the directory.
First(S) == order[CHOOSE i \in DOMAIN order :
                    order[i] \in S /\ \A j \in 1 .. i - 1 : order[j] \notin S]

\* loadReleaseFiles: the labels of one prefix.  A file that is gone is passed
\* over, one of the two is enough.
LoadRelease ==
  /\ call.pc = "releases"
  /\ IF call.releases = {} THEN Go([call EXCEPT !.pc = "indexes"])
     ELSE LET p == First(call.releases) IN
            Go([call EXCEPT !.releases = @ \ {p},
                            !.suite[p] = IF release[p] # {} THEN p ELSE Unknown])
  /\ UNCHANGED saw

\* The label of the Release files that share the index's prefix.
lookupRelease(p) == call.suite[p]

\* parsePackagesIndex: an index that is gone fails the call.
ParsePackagesIndex ==
  /\ call.pc = "indexes"
  /\ IF call.files = {} THEN Go([call EXCEPT !.pc = "join"])
     ELSE LET p == First(call.files) IN
       Go(IF index[p] = Gone THEN [call EXCEPT !.pc = "error"]
          ELSE [call EXCEPT !.files = @ \ {p},
                 !.cands = Append(@, [version |-> index[p].version,
                   arch |-> index[p].arch, suite |-> lookupRelease(p)])])
  /\ UNCHANGED saw

\* Seeded fault: packages for all architectures are not candidates.
EligibleExactArch(c) == /\ c.arch = "own" /\ c.suite # "backports"
                        /\ c.version > call.version

\* Seeded fault: backports count.
EligibleBackports(c) == c.arch # "foreign" /\ c.version > call.version

Eligible(c) == /\ c.arch # "foreign" /\ c.suite # "backports"
               /\ c.version > call.version

\* Seeded fault: of equal versions the first one seen is kept.
BetterFirst(c, best) == c.version > best.candidate

Better(c, best) ==
  c.version > best.candidate \/ (c.version = best.candidate /\ c.suite = "security")

\* What the loop over the candidates makes of one.
Choose(best, c) ==
  IF ~Eligible(c) \/ ~Better(c, best) THEN best
  ELSE [best EXCEPT !.pending = TRUE, !.candidate = c.version,
                    !.security = c.suite = "security"]

\* UpgradablePackages, and the counts of apt_update_status: one candidate, or
\* the end of the loop.
Join ==
  /\ call.pc = "join"
  /\ Go(IF call.version = 0 \/ call.cands = << >>
        THEN [call EXCEPT !.pc = Then("join"), !.cands = << >>]
        ELSE [call EXCEPT !.answer = Choose(@, Head(call.cands)), !.cands = Tail(@)])
  /\ UNCHANGED saw

ReadReboot ==
  /\ call.pc = "reboot"
  /\ Go([call EXCEPT !.pc = Then("reboot"), !.answer.reboot = reboot])
  /\ UNCHANGED saw

\* LastUpdate
ReadStamp ==
  /\ call.pc = "stamp"
  /\ Go([call EXCEPT !.pc = Then("stamp"), !.answer.last = stamp])
  /\ UNCHANGED saw

-----------------------------------------------------------------------------
Tool == Start \/ ReadStatus \/ ReadDir \/ LoadRelease \/ ParsePackagesIndex
          \/ Join \/ ReadReboot \/ ReadStamp

Next ==
  \/ Tool
  \/ Upgrade \/ Unpack
  \/ \E p \in Pockets : Update(p) \/ DropIndex(p) \/ DropRelease(p)

Spec == Init /\ [][Next]_vars

-----------------------------------------------------------------------------
(***************************************************************************)
(* Properties                                                              *)
(***************************************************************************)

Done == call.pc = "done"

\* An update reported pending was pending at some moment of the call, although
\* the status and the lists were read at different times.  "This keeps the
\* count aligned with `apt list --upgradable`" (aptdb.go, UpgradablePackages).
PendingReal == Done /\ call.answer.pending => saw.pending

\* An update that was pending throughout the call is reported, or the call
\* fails: lists that are replaced meanwhile do not hide it.
PendingReported == Done /\ saw.always => call.answer.pending

\* Both together: the count of apt_update_status is true.
PendingTrue == PendingReal /\ PendingReported

\* So is that it is a security update, in whichever order the directory lists
\* the pockets that have the version: "prefer the security one so the security
\* flag isn't lost" (aptdb.go, UpgradablePackages).
SecurityReported == Done /\ saw.security => call.answer.security

\* "One-call answer to "is this host up to date?"" (apt.go, apt_update_status):
\* no update pending and no reboot required is only answered when there was a
\* moment of the call at which neither was.
UpToDateReal ==
  Done /\ ~call.answer.pending /\ ~call.answer.reboot => saw.upToDate
=============================================================================
