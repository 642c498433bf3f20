------------------------------ MODULE ExecTool ------------------------------
(***************************************************************************)
(* Runner.Run (internal/exectool/exectool.go): a child process, one pipe   *)
(* and one copying goroutine per output stream, each ending in a           *)
(* limitedWriter, a deadline, and the error that os/exec and Run make of   *)
(* how all of them ended.  Bytes are counted, not looked at.               *)
(*                                                                         *)
(* os/exec (external): a copier whose writer fails stops and closes its    *)
(* end of the pipe, so the child's next write kills it with SIGPIPE; Wait  *)
(* reports a bad exit status before a copier's error.                      *)
(***************************************************************************)
EXTENDS Naturals

CONSTANTS
  MaxOutput,   \* Runner.MaxOutput
  MaxSize,     \* bound on what a command writes
  PipeSize     \* capacity of a pipe

ExecToolAssumption ==
  MaxOutput \in Nat /\ MaxSize \in Nat /\ PipeSize \in Nat \ {0}

Streams == {"stdout", "stderr"}

VARIABLES
  size,     \* what the command writes on each stream if left alone
  todo,     \* what it still has to write
  pipe,     \* bytes in each pipe
  limit,    \* limitedWriter.n
  hit,      \* limitedWriter.hit
  buf,      \* bytes in outBuf and errBuf
  copier,   \* the copying goroutines: copy, eof, failed
  child,    \* run, exit0, exit1, sigpipe, killed, nostart
  ctxErr,   \* ctx.Err(): nil, deadline, canceled
  ret       \* the error of Run; "running" until it returns

vars == <<size, todo, pipe, limit, hit, buf, copier, child, ctxErr, ret>>

TypeOK ==
  /\ size \in [Streams -> 0 .. MaxSize]
  /\ todo \in [Streams -> 0 .. MaxSize]
  /\ pipe \in [Streams -> 0 .. PipeSize]
  /\ limit \in [Streams -> 0 .. MaxOutput]
  /\ hit \in [Streams -> BOOLEAN]
  /\ buf \in [Streams -> 0 .. MaxOutput]
  /\ copier \in [Streams -> {"copy", "eof", "failed"}]
  /\ child \in {"run", "exit0", "exit1", "sigpipe", "killed", "nostart"}
  /\ ctxErr \in {"nil", "deadline", "canceled"}
  /\ ret \in {"running", "nil", "timeout", "exit", "toolarge"}

Init ==
  /\ size \in [Streams -> 0 .. MaxSize]
  /\ todo = size
  /\ pipe = [s \in Streams |-> 0]
  /\ limit = [s \in Streams |-> MaxOutput]
  /\ hit = [s \in Streams |-> FALSE]
  /\ buf = [s \in Streams |-> 0]
  /\ copier = [s \in Streams |-> "copy"]
  /\ child = "run" /\ ctxErr = "nil" /\ ret = "running"

-----------------------------------------------------------------------------
(***************************************************************************)
(* The child.                                                              *)
(***************************************************************************)

\* A write of k bytes; on a pipe nobody reads it raises SIGPIPE.
ChildWrite(s, k) ==
  /\ child = "run" /\ k <= todo[s]
  /\ \/ /\ copier[s] = "copy" /\ pipe[s] + k <= PipeSize
        /\ pipe' = [pipe EXCEPT ![s] = @ + k]
        /\ todo' = [todo EXCEPT ![s] = @ - k]
        /\ UNCHANGED child
     \/ /\ copier[s] # "copy" /\ child' = "sigpipe"
        /\ UNCHANGED <<pipe, todo>>
  /\ UNCHANGED <<size, limit, hit, buf, copier, ctxErr, ret>>

ChildExit ==
  /\ child = "run" /\ \A s \in Streams : todo[s] = 0
  /\ child' \in {"exit0", "exit1"}
  /\ UNCHANGED <<size, todo, pipe, limit, hit, buf, copier, ctxErr, ret>>

\* cmd.Start fails: no such program, or ctx is over already.
StartFails ==
  /\ child = "run" /\ todo = size /\ \A s \in Streams : copier[s] = "copy"
  /\ child' = "nostart"
  /\ UNCHANGED <<size, todo, pipe, limit, hit, buf, copier, ctxErr, ret>>

\* The Runner's Timeout, or the caller's context.
CtxDone ==
  /\ ctxErr = "nil" /\ ret = "running"
  /\ ctxErr' \in {"deadline", "canceled"}
  /\ UNCHANGED <<size, todo, pipe, limit, hit, buf, copier, child, ret>>

\* Seeded fault: the command is not bound to the caller's context.
KillOnTimeoutOnly ==
  /\ child = "run" /\ ctxErr = "deadline"
  /\ child' = "killed"
  /\ UNCHANGED <<size, todo, pipe, limit, hit, buf, copier, ctxErr, ret>>

\* exec.CommandContext kills the child.
Kill ==
  /\ child = "run" /\ ctxErr # "nil"
  /\ child' = "killed"
  /\ UNCHANGED <<size, todo, pipe, limit, hit, buf, copier, ctxErr, ret>>

-----------------------------------------------------------------------------
(***************************************************************************)
(* The copiers: one read of k bytes and limitedWriter.Write.               *)
(***************************************************************************)

\* Seeded fault: the limit itself is taken for an overflow.
OverflowsEarly(s, k) == k >= limit[s]

Overflows(s, k) == k > limit[s]

\* Seeded fault: what does not fit is dropped and the write succeeds.
AfterOverflowSilent(s) == "copy"

\* io.Copy stops at the error of Write.
AfterOverflow(s) == "failed"

Copy(s, k) ==
  /\ copier[s] = "copy" /\ k <= pipe[s]
  /\ IF hit[s] \/ Overflows(s, k)
     THEN /\ buf' = [buf EXCEPT ![s] = @ + limit[s]]
          /\ limit' = [limit EXCEPT ![s] = 0]
          /\ hit' = [hit EXCEPT ![s] = TRUE]
          /\ copier' = [copier EXCEPT ![s] = AfterOverflow(s)]
     ELSE /\ buf' = [buf EXCEPT ![s] = @ + k]
          /\ limit' = [limit EXCEPT ![s] = @ - k]
          /\ UNCHANGED <<hit, copier>>
  /\ pipe' = [pipe EXCEPT ![s] = @ - k]
  /\ UNCHANGED <<size, todo, child, ctxErr, ret>>

Eof(s) ==
  /\ copier[s] = "copy" /\ child # "run" /\ pipe[s] = 0
  /\ copier' = [copier EXCEPT ![s] = "eof"]
  /\ UNCHANGED <<size, todo, pipe, limit, hit, buf, child, ctxErr, ret>>

-----------------------------------------------------------------------------
\* cmd.Wait: the child and both copiers are done.
Ended == child # "run" /\ \A s \in Streams : copier[s] # "copy"

\* What cmd.Run may return: the exit status, else ctx.Err() if the kill was
\* still in time for the kernel, else the error of a copier.
RunErr ==
  IF child # "exit0" THEN {"exit"}
  ELSE {IF \E s \in Streams : copier[s] = "failed" THEN "toolarge" ELSE "nil"}
         \cup IF ctxErr = "nil" THEN {} ELSE {"exit"}

\* An expired context overrules it.
Return ==
  /\ ret = "running" /\ Ended
  /\ ret' \in IF ctxErr = "deadline" THEN {"timeout"} ELSE RunErr
  /\ UNCHANGED <<size, todo, pipe, limit, hit, buf, copier, child, ctxErr>>

Next ==
  \/ StartFails \/ ChildExit \/ CtxDone \/ Kill \/ Return
  \/ \E s \in Streams :
       \/ Eof(s)
       \/ \E k \in 1 .. MaxSize : ChildWrite(s, k) \/ Copy(s, k)

\* The deadline comes, the kernel kills, goroutines run.  The child may hang.
Fairness ==
  /\ WF_vars(CtxDone) /\ WF_vars(Kill) /\ WF_vars(Return)
  /\ \A s \in Streams : WF_vars(Eof(s))
                        /\ WF_vars(\E k \in 1 .. MaxSize : Copy(s, k))

Spec == Init /\ [][Next]_vars

FairSpec == Spec /\ Fairness

-----------------------------------------------------------------------------
(***************************************************************************)
(* Properties                                                              *)
(***************************************************************************)

\* A tool that gets no error has the whole output: neither the limit nor the
\* end of the child, nor a reader that stopped, can cut it silently.
WholeOutput == ret = "nil" => buf = size

\* Output of exactly MaxOutput bytes is not an overflow (limitedWriter.Write
\* compares with >), and no other failure is reported as one.
OverflowReal == ret = "toolarge" => \E s \in Streams : size[s] > MaxOutput

\* Runner.Run tells the truth about the output, with and without an error.
ResultTrue == WholeOutput /\ OverflowReal

\* Run returns, whatever the child does: a child blocked on a full pipe whose
\* reader gave up, or one that hangs, is killed and its copiers end.
RunReturns == <>(ret # "running")
=============================================================================
