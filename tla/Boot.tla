-------------------------------- MODULE Boot --------------------------------
(***************************************************************************)
(* boot_critical_chain and boot_time of internal/tools/boot.go, over the   *)
(* D-Bus reads of internal/sysd/manager.go.  Every property is read by a   *)
(* call of its own, so units restart, activate and are unloaded between    *)
(* two reads of one walk.                                                  *)
(*                                                                         *)
(* Units are numbers in name order; times are ticks since the kernel       *)
(* booted, 0 is "no transition recorded this boot".                        *)
(***************************************************************************)
EXTENDS Integers, Sequences, FiniteSets, FiniteSetsExt

CONSTANTS
  Units, Target,  \* the units, the default target
  Graphs,         \* the After= dependencies considered
  BootEnd,        \* when the boot was over
  Phases,         \* boot timestamps considered
  MaxDepth,       \* maxDepth, 32 in the code
  MaxChanges      \* bound on what happens to units after the boot

BootAssumption ==
  /\ Units \subseteq Nat \ {0} /\ Target \in Units
  /\ Graphs \subseteq [Units -> SUBSET Units]
  /\ Phases \subseteq [firmware : Nat, loader : Nat, initrd : Nat, userspace : Nat,
                       finish : Nat]
  /\ BootEnd \in Nat /\ MaxDepth \in Nat /\ MaxChanges \in Nat

VARIABLES
  after,    \* After=
  unit,     \* each unit: loaded, InactiveExit, ActiveEnter
  bt,       \* the Manager's boot timestamps
  changes,  \* changes so far
  quiet,    \* nothing has changed since the walk began
  walk      \* walkCriticalChain

vars == <<after, unit, bt, changes, quiet, walk>>

Steps == {"call", "visit", "exit", "enter", "after", "scan", "done", "error"}

TypeOK ==
  /\ unit \in [Units -> [loaded : BOOLEAN, exit : Nat, enter : Nat]]
  /\ changes \in 0 .. MaxChanges /\ quiet \in BOOLEAN
  /\ walk.pc \in Steps /\ walk.cur \in Units
  /\ Len(walk.out) <= MaxDepth
  /\ \A k \in 1 .. Len(walk.out) : walk.out[k].startup \in Nat
  /\ walk.scan \subseteq Units

\* Units that were ordered by After= and both started were started in order.
Ordered(g, u) ==
  \A x \in Units : \A y \in g[x] :
    u[x].enter > 0 /\ u[y].enter > 0 => u[y].enter <= u[x].exit

Timings == {<<0, 0>>} \cup {t \in (1 .. BootEnd) \X (1 .. BootEnd) : t[1] <= t[2]}

Started(r) == [loaded |-> TRUE, exit |-> r[1], enter |-> r[2]]

Init ==
  /\ after \in Graphs
  /\ unit \in {[x \in Units |-> Started(f[x])] : f \in [Units -> Timings]}
  /\ Ordered(after, unit)
  /\ bt \in Phases
  /\ changes = 0 /\ quiet = TRUE
  /\ walk = [pc |-> "call", cur |-> Target, out |-> << >>, exit |-> 0,
             scan |-> {}, next |-> 0, when |-> 0]

-----------------------------------------------------------------------------
(***************************************************************************)
(* systemd, after the boot and until the tool returns                      *)
(***************************************************************************)

Change(u, r) ==
  /\ changes < MaxChanges /\ walk.pc \notin {"done", "error"}
  /\ changes' = changes + 1
  /\ unit' = [unit EXCEPT ![u] = r]
  /\ quiet' = (quiet /\ walk.pc = "call")
  /\ UNCHANGED <<after, bt, walk>>

Now == BootEnd + changes + 1

\* A unit leaves the inactive state; it is active later, or at once.
Activating(u) == Change(u, [unit[u] EXCEPT !.loaded = TRUE, !.exit = Now])

Active(u) ==
  /\ unit[u].loaded /\ unit[u].exit > unit[u].enter
  /\ Change(u, [unit[u] EXCEPT !.enter = Now])

\* An inactive unit that nothing needs is unloaded.
Unload(u) ==
  /\ unit[u].loaded
  /\ Change(u, [loaded |-> FALSE, exit |-> 0, enter |-> 0])

-----------------------------------------------------------------------------
(***************************************************************************)
(* walkCriticalChain                                                       *)
(***************************************************************************)

Go(r) == walk' = r /\ UNCHANGED <<after, unit, bt, changes, quiet>>

\* The entries of out are the units visited, in order.
visited == {walk.out[k].unit : k \in 1 .. Len(walk.out)}

Call == walk.pc = "call" /\ Go([walk EXCEPT !.pc = "visit"])

\* Seeded fault: only the unit just visited is remembered.
RevisitsLast == walk.out # << >> /\ walk.out[Len(walk.out)].unit = walk.cur

Revisits == walk.cur \in visited

DeepEnough == Len(walk.out) = MaxDepth

\* The loop head, and GetUnit.
Visit ==
  /\ walk.pc = "visit"
  /\ Go([walk EXCEPT !.pc = IF DeepEnough \/ Revisits THEN "done"
                            ELSE IF unit[walk.cur].loaded THEN "exit" ELSE "error"])

\* UnitTimings reads InactiveExit and then ActiveEnter.
ReadExit ==
  /\ walk.pc = "exit"
  /\ Go(IF unit[walk.cur].loaded
        THEN [walk EXCEPT !.pc = "enter", !.exit = unit[walk.cur].exit]
        ELSE [walk EXCEPT !.pc = "error"])

StartupUsec(exit, enter) ==
  IF enter = 0 \/ exit = 0 \/ enter <= exit THEN 0 ELSE enter - exit

ReadEnter ==
  /\ walk.pc = "enter"
  /\ Go(IF unit[walk.cur].loaded
        THEN [walk EXCEPT !.pc = "after", !.out = Append(@,
               [unit |-> walk.cur, activeAt |-> unit[walk.cur].enter,
                startup |-> StartupUsec(walk.exit, unit[walk.cur].enter)])]
        ELSE [walk EXCEPT !.pc = "error"])

\* UnitAfter: an error ends the chain as an empty list does.
ReadAfter ==
  /\ walk.pc = "after"
  /\ Go(IF unit[walk.cur].loaded /\ after[walk.cur] # {}
        THEN [walk EXCEPT !.pc = "scan", !.scan = after[walk.cur],
                          !.next = 0, !.when = 0]
        ELSE [walk EXCEPT !.pc = "done"])

\* Seeded fault: the first predecessor that is active is taken.
LaterFirst(x) == unit[x].loaded /\ unit[x].enter > 0 /\ walk.when = 0

\* Seeded fault: a unit that cannot be read counts as the latest.
LaterOrGone(x) == ~unit[x].loaded \/ unit[x].enter > walk.when

Later(x) == unit[x].loaded /\ unit[x].enter > walk.when

\* One predecessor, in name order; one that cannot be read is passed over.
Scan ==
  /\ walk.pc = "scan" /\ walk.scan # {}
  /\ LET x == Min(walk.scan) IN
       Go([walk EXCEPT !.scan = @ \ {x},
                       !.next = IF Later(x) THEN x ELSE @,
                       !.when = IF Later(x) THEN unit[x].enter ELSE @])

Hop ==
  /\ walk.pc = "scan" /\ walk.scan = {}
  /\ Go(IF walk.next = 0 THEN [walk EXCEPT !.pc = "done"]
        ELSE [walk EXCEPT !.pc = "visit", !.cur = walk.next])

-----------------------------------------------------------------------------
(***************************************************************************)
(* composeBootTime                                                         *)
(***************************************************************************)

\* Seeded fault: the time in the initrd counts as kernel time too.
PhasesOfTwice(b) ==
  [firmware  |-> IF b.firmware > b.loader THEN b.firmware - b.loader ELSE 0,
   loader    |-> b.loader,
   kernel    |-> b.userspace,
   initrd    |-> IF b.initrd > 0 /\ b.userspace > b.initrd
                 THEN b.userspace - b.initrd ELSE 0,
   userspace |-> IF b.finish > b.userspace THEN b.finish - b.userspace ELSE 0]

PhasesOf(b) ==
  [firmware  |-> IF b.firmware > b.loader THEN b.firmware - b.loader ELSE 0,
   loader    |-> b.loader,
   kernel    |-> IF b.initrd > 0 THEN b.initrd ELSE b.userspace,
   initrd    |-> IF b.initrd > 0 /\ b.userspace > b.initrd
                 THEN b.userspace - b.initrd ELSE 0,
   userspace |-> IF b.finish > b.userspace THEN b.finish - b.userspace ELSE 0]

total(b) == LET p == PhasesOf(b) IN
            p.firmware + p.loader + p.kernel + p.initrd + p.userspace

-----------------------------------------------------------------------------
Walk == Call \/ Visit \/ ReadExit \/ ReadEnter \/ ReadAfter \/ Scan \/ Hop

Next == Walk \/ \E u \in Units : Activating(u) \/ Active(u) \/ Unload(u)

Spec == Init /\ [][Next]_vars

-----------------------------------------------------------------------------
(***************************************************************************)
(* Properties                                                              *)
(***************************************************************************)

chain == [k \in 1 .. Len(walk.out) |-> walk.out[k].unit]

\* However the units change under the walk and whatever cycles After= has, the
\* chain starts at the target, follows After= and names no unit twice.
ChainSound ==
  /\ \A k \in 1 .. Len(chain) - 1 : chain[k + 1] \in after[chain[k]]
  /\ Cardinality(visited) = Len(chain)
  /\ chain # << >> => chain[1] = Target

Latest(u) == Max({0} \cup {unit[x].enter : x \in {y \in after[u] : unit[y].loaded}})

\* When nothing changed during the walk, each hop went to a predecessor with the
\* latest activation, and the chain ended only where there was nowhere to go:
\* no active predecessor, only ones already in the chain, or the depth limit.
Bottleneck ==
  quiet =>
    /\ \A k \in 1 .. Len(chain) - 1 : unit[chain[k + 1]].enter = Latest(chain[k])
    /\ walk.pc = "done" /\ Len(chain) < MaxDepth =>
         LET last == chain[Len(chain)] IN
           Latest(last) > 0 =>
             \E x \in after[last] \cap visited : unit[x].enter = Latest(last)

\* The tool fails only because a unit went away: the target before the walk, or
\* a unit of the chain between the read that chose it and the one that visits it.
ErrorNeedsRace ==
  walk.pc = "error" => ~quiet \/ ~unit[Target].loaded

\* Phases partition the boot: once it is finished, the total is the time from
\* power-on, as far back as it was recorded, to the default target.
TotalIsWallTime ==
  bt.initrd <= bt.userspace /\ bt.userspace <= bt.finish =>
    total(bt) = Max({bt.firmware, bt.loader}) + bt.finish

\* boot_critical_chain and boot_time tell the truth.
BootTrue == ChainSound /\ Bottleneck /\ ErrorNeedsRace /\ TotalIsWallTime
=============================================================================
