--------------------------- MODULE ProcessManager ---------------------------
(***************************************************************************)
(* One process started by execution/process_manager.py: the coroutine that *)
(* waits for it (ProcessManager.wait), the cancel requests that may arrive  *)
(* while it runs (ProcessManager.cancel, one per HTTP request), and the     *)
(* process tree the operating system keeps for it.                         *)
(*                                                                         *)
(* The coroutines share one event loop, so a step of the model is the code *)
(* between two awaits.  The operating system runs beside the loop: a dead   *)
(* leader is first a zombie, then reaped by the child watcher's thread, and *)
(* only then known to the loop (returncode set, awaits woken).             *)
(***************************************************************************)
CONSTANTS Platforms,  \* the operating systems it may run on
          Cancels     \* the cancel requests that may arrive

ASSUME PlatformsAssumption == Platforms \subseteq {"posix", "windows"}
ASSUME CancelsAssumption   == "wait" \notin Cancels

VARIABLES platform,   \* which _terminate_* is dispatched
          leader,     \* the launched process
          child,      \* a process it spawned, in the same group and tree
          signal,     \* the strongest signal each of the two was sent
          stubborn,   \* those of the two that ignore SIGTERM
          stuck,      \* the leader cannot die yet, whatever it is sent
          killed,     \* the leader died of a signal of ours, not by itself
          code,       \* the leader's exit code, "zero" until it has one
          pc,         \* where wait and each cancel stand
          handle,     \* ProcessHandle: cancelled, termination, cancel_finished
          timed_out,  \* wait's local
          result      \* the ProcessResult wait returned, Nothing before

osVars   == <<platform, leader, child, signal, stubborn, stuck, killed, code>>
loopVars == <<pc, handle, timed_out, result>>

Actors  == {"wait"} \cup Cancels
Members == {"leader", "child"}
None    == "none"                    \* Python's None in termination
Nothing == [exit_code |-> None]      \* no ProcessResult yet

Steps == {"already_exited", "sigterm", "sigkill", "taskkill_tree",
          "taskkill_tree_unreaped"}
ExitCodes == {"zero", "nonzero"}
Unknown   == "-1"                    \* the code given to a process not reaped

Results == [exit_code : ExitCodes \cup {Unknown}, timed_out : BOOLEAN,
            termination : Steps \cup {None}, cancelled : BOOLEAN]

ProcessTypeOK ==
  /\ platform \in Platforms
  /\ leader \in {"unspawned", "running", "zombie", "reaped", "known"}
  /\ child \in {"unspawned", "running", "gone"}
  /\ signal \in [Members -> {"none", "term", "kill"}]
  /\ stubborn \subseteq Members
  /\ stuck \in BOOLEAN /\ killed \in BOOLEAN /\ timed_out \in BOOLEAN
  /\ code \in ExitCodes
  /\ pc \in [Actors -> {"idle", "spawning", "waiting", "taskkill", "grace",
                        "reap", "settling", "returned", "raised"}]
  /\ handle \in [cancelled : BOOLEAN, termination : Steps \cup {None},
                 cancel_finished : {None, "unset", "set"}]
  /\ result \in Results \cup {Nothing}

ProcessInit ==
  /\ platform \in Platforms
  /\ leader = "unspawned" /\ child = "unspawned"
  /\ signal = [m \in Members |-> "none"]
  /\ stubborn \in SUBSET Members
  /\ stuck \in BOOLEAN
  /\ killed = FALSE /\ code = "zero"
  /\ pc = [a \in Actors |-> "idle"]
  /\ handle = [cancelled |-> FALSE, termination |-> None, cancel_finished |-> None]
  /\ timed_out = FALSE /\ result = Nothing

-----------------------------------------------------------------------------
(* The operating system *)

Running(m) == (IF m = "leader" THEN leader ELSE child) = "running"

\* The process group still has a member a signal can be sent to.
GroupExists == leader \in {"running", "zombie"} \/ child = "running"

Send(s) ==
  signal' = [m \in Members |->
               IF Running(m) /\ signal[m] # "kill" THEN s ELSE signal[m]]

\* The leader forks; the child inherits its group and no pending signal.
Fork ==
  /\ leader = "running" /\ signal["leader"] # "kill" /\ ~stuck
  /\ child = "unspawned"
  /\ child' = "running"
  /\ UNCHANGED <<platform, leader, signal, stubborn, stuck, killed, code>>
  /\ UNCHANGED loopVars

LeaderExits ==
  /\ leader = "running" /\ signal["leader"] # "kill" /\ ~stuck
  /\ leader' = "zombie"
  /\ code' \in ExitCodes
  /\ UNCHANGED <<platform, child, signal, stubborn, stuck, killed>> /\ UNCHANGED loopVars

ChildExits ==
  /\ child = "running"
  /\ child' = "gone"
  /\ UNCHANGED <<platform, leader, signal, stubborn, stuck, killed, code>>
  /\ UNCHANGED loopVars

Unstick ==
  /\ stuck
  /\ stuck' = FALSE
  /\ UNCHANGED <<platform, leader, child, signal, stubborn, killed, code>>
  /\ UNCHANGED loopVars

Fatal(m) == signal[m] = "kill" \/ (signal[m] = "term" /\ m \notin stubborn)

\* A SIGTERM handler may still choose the exit code; SIGKILL never gives zero.
LeaderDies ==
  /\ leader = "running" /\ Fatal("leader") /\ ~stuck
  /\ leader' = "zombie" /\ killed' = TRUE
  /\ code' \in IF signal["leader"] = "kill" THEN {"nonzero"} ELSE ExitCodes
  /\ UNCHANGED <<platform, child, signal, stubborn, stuck>> /\ UNCHANGED loopVars

ChildDies ==
  /\ child = "running" /\ Fatal("child")
  /\ child' = "gone"
  /\ UNCHANGED <<platform, leader, signal, stubborn, stuck, killed, code>>
  /\ UNCHANGED loopVars

\* The watcher thread's waitpid, then its call back into the loop.
Reap ==
  /\ \/ leader = "zombie" /\ leader' = "reaped"
     \/ leader = "reaped" /\ leader' = "known"
  /\ UNCHANGED <<platform, child, signal, stubborn, stuck, killed, code>>
  /\ UNCHANGED loopVars

-----------------------------------------------------------------------------
(* ProcessManager.start *)

\* Opens the log files and awaits create_subprocess_exec.
Start ==
  /\ pc["wait"] = "idle"
  /\ pc' = [pc EXCEPT !["wait"] = "spawning"]
  /\ UNCHANGED <<handle, timed_out, result>> /\ UNCHANGED osVars

\* The spawn succeeds; the caller creates the task that runs wait.
Spawned ==
  /\ pc["wait"] = "spawning"
  /\ leader' = "running"
  /\ pc' = [pc EXCEPT !["wait"] = "waiting"]
  /\ UNCHANGED <<platform, child, signal, stubborn, stuck, killed, code>>
  /\ UNCHANGED <<handle, timed_out, result>>

\* create_subprocess_exec raises: the files are closed, nothing was started.
SpawnFails ==
  /\ pc["wait"] = "spawning"
  /\ pc' = [pc EXCEPT !["wait"] = "raised"]
  /\ UNCHANGED <<handle, timed_out, result>> /\ UNCHANGED osVars

-----------------------------------------------------------------------------
(* How a coroutine goes on *)

\* The ProcessResult wait builds from the handle h.
ResultOf(h, late) ==
  [exit_code |-> IF leader = "known" THEN code ELSE Unknown,
   timed_out |-> late, termination |-> h.termination, cancelled |-> h.cancelled]

\* Faulty variant: the result is built while a cancel is in flight.
WaitTailUnsettled(h, late) ==
  /\ pc' = [pc EXCEPT !["wait"] = "returned"]
  /\ result' = ResultOf(h, late)

\* The tail of wait, with h the handle as it then is: with a cancel in flight
\* it awaits the event, otherwise it builds the result at once.
WaitTail(h, late) ==
  IF h.cancel_finished = "unset"
  THEN pc' = [pc EXCEPT !["wait"] = "settling"] /\ UNCHANGED result
  ELSE /\ pc' = [pc EXCEPT !["wait"] = "returned"]
       /\ result' = ResultOf(h, late)

\* Faulty variant: a cancel that raises leaves its event unset.
FinishCancelOnlyOnReturn(c, h, end) ==
  /\ handle' = IF end = "returned" THEN [h EXCEPT !.cancel_finished = "set"] ELSE h
  /\ pc' = [pc EXCEPT ![c] = end]
  /\ UNCHANGED result

\* cancel's finally clause, on the normal and on the raising path.
FinishCancel(c, h, end) ==
  /\ handle' = [h EXCEPT !.cancel_finished = "set"]
  /\ pc' = [pc EXCEPT ![c] = end]
  /\ UNCHANGED result

\* _terminate_process_tree returned `step` to its caller a, whose handle is h.
Terminated(a, h, step, late) ==
  LET recorded == [h EXCEPT !.termination = step]
  IN  IF a = "wait"
      THEN handle' = recorded /\ WaitTail(recorded, late)
      ELSE FinishCancel(a, recorded, "returned")

\* _terminate_process_tree up to its first await.
Terminate(a, h, late) ==
  \/ /\ platform = "windows"
     /\ handle' = h
     /\ pc' = [pc EXCEPT ![a] = "taskkill"]
     /\ UNCHANGED <<signal, result>>
  \/ /\ platform = "posix" /\ leader \in {"reaped", "known"}   \* getpgid fails
     /\ Terminated(a, h, "already_exited", late)
     /\ UNCHANGED signal
  \/ /\ platform = "posix" /\ leader \in {"running", "zombie"}
     /\ Send("term")
     /\ handle' = h
     /\ pc' = [pc EXCEPT ![a] = "grace"]
     /\ UNCHANGED result

osButSignal == <<platform, leader, child, stubborn, stuck, killed, code>>

-----------------------------------------------------------------------------
(* _terminate_posix and _terminate_windows after their first await *)

GraceEnds(a) ==
  /\ pc[a] = "grace" /\ leader = "known"
  /\ Terminated(a, handle, "sigterm", timed_out)
  /\ UNCHANGED timed_out /\ UNCHANGED osVars

\* Faulty variant: a grace period that is never followed by force.
GraceExpiresGently(a) ==
  /\ pc[a] = "grace"
  /\ Terminated(a, handle, "sigterm", timed_out)
  /\ UNCHANGED timed_out /\ UNCHANGED osVars

\* Faulty variant: the force is for the leader alone.
GraceExpiresLeaderOnly(a) ==
  /\ pc[a] = "grace"
  /\ leader = "running"
  /\ signal' = [signal EXCEPT !["leader"] = "kill"]
  /\ pc' = [pc EXCEPT ![a] = "reap"]
  /\ UNCHANGED <<handle, timed_out, result>> /\ UNCHANGED osButSignal

\* TERMINATE_GRACE_SECONDS pass; killpg finds nobody, or forces the group.
GraceExpires(a) ==
  /\ pc[a] = "grace"
  /\ \/ /\ ~GroupExists
        /\ Terminated(a, handle, "sigterm", timed_out)
        /\ UNCHANGED signal
     \/ /\ GroupExists
        /\ Send("kill")
        /\ pc' = [pc EXCEPT ![a] = "reap"]
        /\ UNCHANGED <<handle, result>>
  /\ UNCHANGED timed_out /\ UNCHANGED osButSignal

\* taskkill /F /T walks the tree from the leader, which must still be there.
Taskkill(a) ==
  /\ pc[a] = "taskkill"
  /\ IF leader = "running" THEN Send("kill") ELSE UNCHANGED signal
  /\ pc' = [pc EXCEPT ![a] = "reap"]
  /\ UNCHANGED <<handle, timed_out, result>> /\ UNCHANGED osButSignal

Reaped(a) ==
  /\ pc[a] = "reap" /\ leader = "known"
  /\ Terminated(a, handle,
                IF platform = "posix" THEN "sigkill" ELSE "taskkill_tree", timed_out)
  /\ UNCHANGED timed_out /\ UNCHANGED osVars

\* FORCE_REAP_SECONDS pass, which only a stuck leader outlasts.  The TimeoutError
\* escapes _terminate_posix; _terminate_windows returns instead.
ReapExpires(a) ==
  /\ pc[a] = "reap" /\ leader = "running" /\ stuck
  /\ IF platform = "windows"
     THEN Terminated(a, handle, "taskkill_tree_unreaped", timed_out)
     ELSE IF a = "wait"
          THEN pc' = [pc EXCEPT !["wait"] = "raised"] /\ UNCHANGED <<handle, result>>
          ELSE FinishCancel(a, handle, "raised")
  /\ UNCHANGED timed_out /\ UNCHANGED osVars

-----------------------------------------------------------------------------
(* ProcessManager.wait and ProcessManager.cancel *)

WaitWakes ==
  /\ pc["wait"] = "waiting" /\ leader = "known"
  /\ WaitTail(handle, FALSE)
  /\ UNCHANGED <<handle, timed_out>> /\ UNCHANGED osVars

\* The deadline.  Its timer may fire although the process is already known to
\* have ended, as long as wait has not resumed.
WaitTimesOut ==
  /\ pc["wait"] = "waiting"
  /\ timed_out' = TRUE
  /\ Terminate("wait", handle, TRUE)
  /\ UNCHANGED osButSignal

WaitSettles ==
  /\ pc["wait"] = "settling" /\ handle.cancel_finished = "set"
  /\ pc' = [pc EXCEPT !["wait"] = "returned"]
  /\ result' = ResultOf(handle, timed_out)
  /\ UNCHANGED <<handle, timed_out>> /\ UNCHANGED osVars

\* cancelled and cancel_finished are assigned before the first await.
Marked ==
  [handle EXCEPT !.cancelled = TRUE,
                 !.cancel_finished = IF @ = None THEN "unset" ELSE @]

CancelProcess(c) ==
  /\ pc[c] = "idle"
  /\ pc["wait"] \notin {"idle", "spawning"} /\ leader # "unspawned"
  /\ \/ /\ leader = "known"                          \* not handle.running
        /\ FinishCancel(c, [Marked EXCEPT
                              !.termination = IF @ = None THEN "already_exited" ELSE @],
                        "returned")
        /\ UNCHANGED signal
     \/ /\ leader # "known"
        /\ Terminate(c, Marked, FALSE)
  /\ UNCHANGED timed_out /\ UNCHANGED osButSignal

=============================================================================
