------------------------------ MODULE CliWorker ------------------------------
(***************************************************************************)
(* workers/cli_base.py around one process: CliWorkerAdapter starts it, is   *)
(* asked by any number of HTTP requests to cancel it, and collects what the *)
(* workflow runner is told about it.                                       *)
(***************************************************************************)
EXTENDS ProcessManager

VARIABLES runs,      \* whether CliWorkerAdapter._runs holds this worker run
          outcome    \* the WorkerResult collect returned, Nothing before

vars == <<platform, leader, child, signal, stubborn, stuck, killed, code,
          pc, handle, timed_out, result, runs, outcome>>

adapterVars == <<runs, outcome>>

Outcomes == [exit_code : ExitCodes \cup {Unknown}, reported_error : BOOLEAN,
             error_kind : {None, "worker", "cancelled", "timeout"}]

\* The states of the worker's process and of the coroutines around it.
WorkerTypeOK ==
  /\ ProcessTypeOK
  /\ runs \in BOOLEAN
  /\ outcome \in Outcomes \cup {Nothing, [exit_code |-> "raised"]}

WorkerInit == ProcessInit /\ runs = FALSE /\ outcome = Nothing

-----------------------------------------------------------------------------

\* CliWorkerAdapter.start: the process, its waiter task, and the _runs entry.
StartWorker        == Start /\ UNCHANGED adapterVars
WorkerStarted      == Spawned /\ runs' = TRUE /\ UNCHANGED outcome
WorkerDoesNotStart == SpawnFails /\ UNCHANGED adapterVars

\* CliWorkerAdapter.cancel of a run the adapter still owns.
Cancel(c) == runs /\ CancelProcess(c) /\ UNCHANGED adapterVars

\* _run_for raises WorkerAdapterError once collect has forgotten the run.
CancelUnknown(c) ==
  /\ ~runs /\ outcome # Nothing
  /\ pc[c] = "idle"
  /\ pc' = [pc EXCEPT ![c] = "raised"]
  /\ UNCHANGED <<handle, timed_out, result>>
  /\ UNCHANGED osVars /\ UNCHANGED adapterVars

\* Faulty variant: only the deadline outranks what the worker says of itself.
OutcomeOfTimeoutOnly(r, reported) ==
  [exit_code      |-> r.exit_code,
   reported_error |-> r.timed_out \/ reported,
   error_kind     |-> IF r.timed_out THEN "timeout"
                      ELSE IF reported THEN "worker" ELSE None]

\* What collect makes of the process result r and of the worker's own output,
\* which reports an error or does not.  A killed process is never believed.
OutcomeOf(r, reported) ==
  [exit_code      |-> r.exit_code,
   reported_error |-> r.timed_out \/ r.cancelled \/ reported,
   error_kind     |-> CASE r.cancelled -> "cancelled"
                        [] r.timed_out /\ ~r.cancelled -> "timeout"
                        [] OTHER -> IF reported THEN "worker" ELSE None]

\* CliWorkerAdapter.collect, resumed when the waiter task is done.
Collect ==
  /\ outcome = Nothing /\ runs
  /\ \/ /\ pc["wait"] = "returned"
        /\ \E reported \in BOOLEAN : outcome' = OutcomeOf(result, reported)
        /\ runs' = FALSE
     \/ /\ pc["wait"] = "raised"           \* awaiting the waiter raises
        /\ outcome' = [exit_code |-> "raised"]
        /\ UNCHANGED runs
  /\ UNCHANGED osVars /\ UNCHANGED loopVars

-----------------------------------------------------------------------------

Coroutine(a) ==
  GraceEnds(a) \/ GraceExpires(a) \/ Taskkill(a) \/ Reaped(a) \/ ReapExpires(a)

Loop ==
  \/ (\E a \in Actors : Coroutine(a)) /\ UNCHANGED adapterVars
  \/ (WaitWakes \/ WaitTimesOut \/ WaitSettles) /\ UNCHANGED adapterVars
  \/ WorkerStarted \/ WorkerDoesNotStart \/ Collect

\* What the kernel does on its own: a fatal signal kills, the dead are reaped.
Kernel == (LeaderDies \/ ChildDies \/ Reap) /\ UNCHANGED adapterVars

\* What the worker and the users of the API do when they please.
Environment ==
  \/ (Fork \/ LeaderExits \/ ChildExits \/ Unstick) /\ UNCHANGED adapterVars
  \/ StartWorker
  \/ \E c \in Cancels : Cancel(c) \/ CancelUnknown(c)

WorkerNext == Loop \/ Kernel \/ Environment

WorkerSpec == WorkerInit /\ [][WorkerNext]_vars

\* The event loop keeps running its ready coroutines and firing its timers, and
\* the kernel delivers; nothing is assumed of the worker or of its users.
FairWorkerSpec == WorkerSpec /\ WF_vars(Loop) /\ WF_vars(Kernel)

-----------------------------------------------------------------------------
(* Properties *)

\* A worker one of our signals stopped is never handed to the runner as one
\* that merely ended: collect's answer says it failed, and that a cancel or the
\* deadline is why (cli_base.py collect), however cancels, the deadline and a
\* worker exiting 0 from its SIGTERM handler interleave.
KilledNeverSucceeds ==
  (killed /\ outcome \in Outcomes) =>
    outcome.reported_error /\ outcome.error_kind \in {"cancelled", "timeout"}

\* cancel and wait return only when the launched process is dead, or else own
\* up to it: on Windows "taskkill_tree_unreaped" is then what stands recorded
\* (_terminate_windows); on POSIX they raise instead of returning.
StoppedMeansDead ==
  (leader = "running" /\ \E a \in Actors : pc[a] = "returned") =>
    handle.termination = "taskkill_tree_unreaped"

\* Everything that was started gets an answer: wait ends, so the log files are
\* closed and collect resumes, although it may have to await a cancel that is
\* itself waiting for the process (ProcessManager.wait, ProcessManager.cancel).
WaitEnds == (leader # "unspawned") ~> (outcome # Nothing)

Stoppers == {c \in Cancels : pc[c] # "idle"} \cup (IF timed_out THEN {"wait"} ELSE {})

\* A cancelled worker's result says how it was stopped: wait "waits for the
\* termination recorded here rather than racing it" (ProcessManager.cancel).  And
\* the step recorded is "the escalation step that actually stopped it"
\* (ProcessResult.termination): one that reads as a natural exit, or as a process
\* that had already exited, is of a process no signal of ours stopped - however
\* the stopping of the process, its death and the news of it interleave.  A cancel
\* that raises, which on POSIX an unkillable process makes it do, records nothing;
\* two cancels, or a cancel and the deadline, overwrite each other's record:
\* results with such a cancel, and for the step with more than one of them, are
\* excepted.
StepRecorded ==
  (result # Nothing /\ \A c \in Cancels : pc[c] # "raised") =>
    /\ result.cancelled => result.termination # None
    /\ killed /\ (\A a, b \in Stoppers : a = b) =>
         result.termination \notin {None, "already_exited"}

\* "Both paths own the whole process tree" (class ProcessManager): where a worker
\* was stopped by force, no child of it lives on, whoever of the deadline and the
\* cancels forced it and however far the tree had come apart.  Two things are
\* excepted.  A leader that dies of SIGTERM within its grace period ends
\* _terminate_posix with "sigterm", and a child that ignores the signal, or was
\* forked after it, stays.  And taskkill finds no tree below a leader that had
\* exited by itself.
ForceLeavesNobody ==
  ( /\ result # Nothing /\ killed
    /\ result.termination \in {"sigkill", "taskkill_tree", "taskkill_tree_unreaped"} )
  ~> (child # "running")

=============================================================================
