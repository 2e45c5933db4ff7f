--------------------------- MODULE ExecutionProofs ---------------------------
(***************************************************************************)
(* Proofs about what executes a node's work.  First one worker process and *)
(* its adapter, on either platform and for any number of cancel requests;  *)
(* then the judgement of verifications, for any number of commands and     *)
(* rounds, which rests on where a run of the commands stops: behind the    *)
(* first failure, which is the only one it sees.                           *)
(***************************************************************************)
EXTENDS CliWorker, Verification, DefinitionProofs, TLAPS

-----------------------------------------------------------------------------
(* The worker process: its invariant *)


\* Before the process is spawned nobody can stop it, and nothing is known of it.
SpawnInv ==
  /\ pc["wait"] \in {"idle", "spawning"} => leader = "unspawned"
  /\ leader = "unspawned" =>
       /\ \A c \in Cancels : pc[c] = "idle"
       /\ pc["wait"] \in {"idle", "spawning", "raised"}
       /\ ~runs /\ outcome = Nothing

\* Where wait stands tells whether it has a result and whether it came too late.
WaitInv ==
  /\ result # Nothing <=> pc["wait"] = "returned"
  /\ pc["wait"] \in {"idle", "spawning", "waiting"} => ~timed_out
  /\ pc["wait"] \in {"taskkill", "grace", "reap"} => timed_out
  /\ pc["wait"] = "settling" /\ leader = "running" => timed_out

\* Like StoppedMeansDead, also of a wait that only awaits the end of a cancel.
UnreapedInv ==
  (leader = "running" /\ \E a \in Actors : pc[a] \in {"returned", "settling"}) =>
    handle.termination = "taskkill_tree_unreaped"

InFlight == {"taskkill", "grace", "reap"}

\* The handle knows of every cancel, and a signal is sent by one or by a deadline.
HandleInv ==
  /\ (\A c \in Cancels : pc[c] = "idle") => ~handle.cancelled
  /\ \A c \in Cancels : pc[c] \in InFlight => handle.cancelled
  /\ handle.cancelled <=> handle.cancel_finished # None
  /\ signal["leader"] # "none" => handle.cancelled \/ timed_out
  /\ killed => signal["leader"] # "none"

\* A cancel that finished recorded a step, or raised.
FinishInv ==
  handle.cancel_finished = "set" =>
    handle.termination # None \/ \E c \in Cancels : pc[c] = "raised"

\* While the only cancel is in flight, wait does not build its result.
InFlightInv ==
  \A c \in Cancels :
    pc[c] \in InFlight /\ (\A d \in Cancels : d # c => pc[d] = "idle") =>
      handle.cancel_finished = "unset"

Lone == \A a, b \in Stoppers : a = b

\* A signal that the only one to stop the leader has sent is on its way to the
\* record, or is there, or its sender raised.
SignalInv ==
  signal["leader"] # "none" /\ Lone =>
    \/ handle.termination \notin {None, "already_exited"}
    \/ \E s \in Stoppers : pc[s] \in {"grace", "reap", "raised"}

\* The result of a process that was stopped, or is still to be, says so.
ResultInv ==
  result # Nothing =>
    /\ leader = "running" \/ killed => result.timed_out \/ result.cancelled
    /\ leader = "running" => result.termination = "taskkill_tree_unreaped"

\* What the runner is told is of that result.
OutcomeInv ==
  outcome \in Outcomes =>
    /\ result # Nothing
    /\ result.timed_out \/ result.cancelled =>
         outcome.reported_error /\ outcome.error_kind \in {"cancelled", "timeout"}

\* Everything but the types, which are kept for reasons of their own.
StopInv ==
  /\ SpawnInv /\ WaitInv /\ UnreapedInv
  /\ HandleInv /\ FinishInv /\ InFlightInv /\ SignalInv
  /\ ResultInv /\ StepRecorded /\ OutcomeInv

WorkerInv == WorkerTypeOK /\ StopInv

-----------------------------------------------------------------------------
(* What the steps do *)

Pcs     == {"idle", "spawning", "waiting", "taskkill", "grace", "reap", "settling",
            "returned", "raised"}
Handles == [cancelled : BOOLEAN, termination : Steps \cup {None},
            cancel_finished : {None, "unset", "set"}]

\* No result and no outcome is mistaken for one, and a raised one is none.
LEMMA Distinct ==
  /\ Nothing \notin Results /\ Nothing \notin Outcomes
  /\ [exit_code |-> "raised"] \notin Outcomes
  /\ [exit_code |-> "raised"] # Nothing
  BY DEF Nothing, None, Results, Outcomes, ExitCodes, Unknown

\* The handle with a step recorded, and with a cancel marked or finished.
LEMMA HandlesTyped ==
  ASSUME NEW h \in Handles, NEW step \in Steps \cup {None}
  PROVE  /\ [h EXCEPT !.termination = step] \in Handles
         /\ [h EXCEPT !.termination = step].termination = step
         /\ [h EXCEPT !.termination = step].cancelled = h.cancelled
         /\ [h EXCEPT !.termination = step].cancel_finished = h.cancel_finished
         /\ [h EXCEPT !.cancel_finished = "set"] \in Handles
         /\ [h EXCEPT !.cancel_finished = "set"].termination = h.termination
         /\ [h EXCEPT !.cancel_finished = "set"].cancelled = h.cancelled
         /\ [h EXCEPT !.cancel_finished = "set"].cancel_finished = "set"
  BY DEF Handles

\* A cancel marks the handle before it does anything else.
LEMMA MarkedTyped ==
  ASSUME handle \in Handles
  PROVE  /\ Marked \in Handles /\ Marked.cancelled = TRUE
         /\ Marked.termination = handle.termination
         /\ Marked.cancel_finished
              = IF handle.cancel_finished = None THEN "unset" ELSE handle.cancel_finished
  BY DEF Handles, Marked, None

\* The wait builds its result, or awaits the cancel that is in flight.
LEMMA TailCases ==
  ASSUME NEW h \in Handles, NEW late \in BOOLEAN, WaitTail(h, late), code \in ExitCodes
  PROVE  \/ /\ h.cancel_finished = "unset" /\ result' = result
            /\ pc' = [pc EXCEPT !["wait"] = "settling"]
         \/ /\ h.cancel_finished # "unset"
            /\ pc' = [pc EXCEPT !["wait"] = "returned"]
            /\ result' \in Results
            /\ result'.timed_out = late /\ result'.termination = h.termination
            /\ result'.cancelled = h.cancelled
  <1>1. ResultOf(h, late) \in Results
    BY DEF ResultOf, Results, Handles, ExitCodes
  <1>2. /\ ResultOf(h, late).timed_out = late
        /\ ResultOf(h, late).termination = h.termination
        /\ ResultOf(h, late).cancelled = h.cancelled
    BY DEF ResultOf
  <1> QED BY <1>1, <1>2 DEF WaitTail

\* The end of a termination: the step is recorded, and the caller goes on.
LEMMA TerminatedCases ==
  ASSUME NEW a \in Actors, NEW h \in Handles, NEW step \in Steps, NEW late \in BOOLEAN,
         Terminated(a, h, step, late), code \in ExitCodes
  PROVE  /\ handle' \in Handles /\ handle'.termination = step
         /\ handle'.cancelled = h.cancelled
         /\ \/ /\ a # "wait" /\ handle'.cancel_finished = "set" /\ result' = result
               /\ pc' = [pc EXCEPT ![a] = "returned"]
            \/ /\ a = "wait" /\ h.cancel_finished = "unset" /\ result' = result
               /\ handle'.cancel_finished = h.cancel_finished
               /\ pc' = [pc EXCEPT !["wait"] = "settling"]
            \/ /\ a = "wait" /\ h.cancel_finished # "unset"
               /\ handle'.cancel_finished = h.cancel_finished
               /\ pc' = [pc EXCEPT !["wait"] = "returned"]
               /\ result' \in Results
               /\ result'.timed_out = late /\ result'.termination = step
               /\ result'.cancelled = h.cancelled
  <1> DEFINE g == [h EXCEPT !.termination = step]
  <1>1. /\ g \in Handles /\ g.termination = step /\ g.cancelled = h.cancelled
        /\ g.cancel_finished = h.cancel_finished
    BY HandlesTyped
  <1>2. CASE a = "wait"
    <2>1. handle' = g /\ WaitTail(g, late)
      BY <1>2 DEF Terminated
    <2> HIDE DEF g
    <2> QED BY <1>1, <1>2, <2>1, TailCases
  <1>3. CASE a # "wait"
    <2>1. FinishCancel(a, g, "returned")
      BY <1>3 DEF Terminated
    <2> HIDE DEF g
    <2>2. /\ handle' \in Handles /\ handle'.cancel_finished = "set"
          /\ handle'.termination = step /\ handle'.cancelled = h.cancelled
      BY <1>1, <2>1, HandlesTyped DEF FinishCancel
    <2> QED BY <1>3, <2>1, <2>2 DEF FinishCancel
  <1> QED BY <1>2, <1>3

\* Only a goes on, and stands at x then.
Moves(a, x) == pc' = [pc EXCEPT ![a] = x]

\* Steps of the kernel, of the worker and of its child.
OsStep ==
  /\ UNCHANGED <<loopVars, adapterVars, signal>>
  /\ \/ UNCHANGED <<leader, killed>>
     \/ /\ leader = "running" /\ leader' = "zombie"
        /\ UNCHANGED killed \/ signal["leader"] # "none"
     \/ leader \in {"zombie", "reaped"} /\ leader' \in {"reaped", "known"} /\ UNCHANGED killed

\* The leader is sent nothing unless it runs, and what it was sent is not undone.
Sends ==
  /\ leader # "running" => signal'["leader"] = signal["leader"]
  /\ signal["leader"] # "none" => signal'["leader"] # "none"

\* The coroutines' steps, by what they do to the handle and to the result.
Ends(a, step) ==
  /\ pc[a] \in {"grace", "reap"} /\ step \in Steps \ {"already_exited"}
  /\ leader = "running" => step = "taskkill_tree_unreaped"
  /\ Terminated(a, handle, step, timed_out)
  /\ UNCHANGED <<leader, killed, signal, timed_out, adapterVars>>

Forces(a) ==
  /\ pc[a] \in {"taskkill", "grace"} /\ Moves(a, "reap") /\ Sends
  /\ UNCHANGED <<leader, killed, handle, result, timed_out, adapterVars>>

WaitRaises ==
  /\ pc["wait"] = "reap" /\ leader = "running" /\ Moves("wait", "raised")
  /\ UNCHANGED <<leader, killed, signal, handle, result, timed_out, adapterVars>>

CancelRaises(c) ==
  /\ pc[c] = "reap" /\ leader = "running" /\ Moves(c, "raised")
  /\ handle' = [handle EXCEPT !.cancel_finished = "set"]
  /\ UNCHANGED <<leader, killed, signal, result, timed_out, adapterVars>>

DeadlineBegins ==
  /\ pc["wait"] = "waiting" /\ timed_out' = TRUE
  /\ \/ Moves("wait", "taskkill") /\ UNCHANGED signal
     \/ Moves("wait", "grace") /\ Sends
  /\ UNCHANGED <<leader, killed, handle, result, adapterVars>>

DeadlineTooLate ==
  /\ pc["wait"] = "waiting" /\ leader \in {"reaped", "known"} /\ timed_out' = TRUE
  /\ Terminated("wait", handle, "already_exited", TRUE)
  /\ UNCHANGED <<leader, killed, signal, adapterVars>>

CancelBegins(c) ==
  /\ pc[c] = "idle" /\ leader # "unspawned" /\ handle' = Marked
  /\ \/ Moves(c, "taskkill") /\ UNCHANGED signal
     \/ Moves(c, "grace") /\ Sends
  /\ UNCHANGED <<leader, killed, result, timed_out, adapterVars>>

CancelTooLate(c) ==
  /\ pc[c] = "idle" /\ leader \in {"reaped", "known"} /\ Moves(c, "returned")
  /\ handle' \in Handles /\ handle'.cancelled /\ handle'.cancel_finished = "set"
  /\ handle'.termination # None
  /\ UNCHANGED <<leader, killed, signal, result, timed_out, adapterVars>>

\* The facts of WorkerTypeOK the steps are analysed with.
LEMMA Typed ==
  ASSUME WorkerTypeOK
  PROVE  /\ pc \in [Actors -> Pcs] /\ handle \in Handles /\ code \in ExitCodes
         /\ timed_out \in BOOLEAN /\ killed \in BOOLEAN
         /\ "wait" \in Actors /\ Cancels \subseteq Actors /\ "wait" \notin Cancels
         /\ result \in Results \cup {Nothing} /\ platform \in {"posix", "windows"}
         /\ leader \in {"unspawned", "running", "zombie", "reaped", "known"}
  BY CancelsAssumption, PlatformsAssumption
     DEF WorkerTypeOK, ProcessTypeOK, Pcs, Handles, Actors

\* The others stand where they stood.
LEMMA Moved ==
  ASSUME WorkerTypeOK, NEW a \in Actors, NEW x, Moves(a, x)
  PROVE  pc'[a] = x /\ \A b \in Actors : b # a => pc'[b] = pc[b]
  BY Typed DEF Moves

\* Send reaches the leader only where it runs.
LEMMA SentTo ==
  ASSUME NEW s \in {"term", "kill"}, Send(s)
  PROVE  Sends
  BY DEF Send, Sends, Running, Members

\* Every step of a coroutine that stops the process is one of these.
LEMMA CoroutineCases ==
  ASSUME WorkerTypeOK, NEW a \in Actors, Coroutine(a), UNCHANGED adapterVars
  PROVE  \/ \E step \in Steps : Ends(a, step)
         \/ Forces(a)
         \/ a = "wait" /\ WaitRaises
         \/ a \in Cancels /\ CancelRaises(a)
  <1> USE Typed
  <1>1. CASE GraceEnds(a)
    <2>1. Ends(a, "sigterm")
      BY <1>1 DEF GraceEnds, Ends, osVars, Steps
    <2> QED BY <2>1 DEF Steps
  <1>2. CASE GraceExpires(a)
    <2>1. CASE ~GroupExists
      <3>1. Ends(a, "sigterm")
        BY <1>2, <2>1 DEF GraceExpires, Ends, osButSignal, Steps, GroupExists
      <3> QED BY <3>1 DEF Steps
    <2>2. CASE GroupExists
      BY <1>2, <2>2, SentTo DEF Moves, GraceExpires, Forces, osButSignal
    <2> QED BY <2>1, <2>2
  <1>3. CASE Taskkill(a)
    <2>1. Sends
      BY <1>3, SentTo DEF Taskkill, Sends
    <2> QED BY <1>3, <2>1 DEF Moves, Taskkill, Forces, osButSignal
  <1>4. CASE Reaped(a)
    <2> DEFINE step == IF platform = "posix" THEN "sigkill" ELSE "taskkill_tree"
    <2>1. step \in Steps \ {"already_exited"}
      BY DEF Steps
    <2>2. Ends(a, step)
      BY <1>4, <2>1 DEF Reaped, Ends, osVars
    <2> QED BY <2>1, <2>2
  <1>5. CASE ReapExpires(a)
    <2>1. CASE platform = "windows"
      <3>1. Ends(a, "taskkill_tree_unreaped")
        BY <1>5, <2>1 DEF ReapExpires, Ends, osVars, Steps
      <3> QED BY <3>1 DEF Steps
    <2>2. CASE platform # "windows" /\ a = "wait"
      BY <1>5, <2>2 DEF Moves, ReapExpires, WaitRaises, osVars
    <2>3. CASE platform # "windows" /\ a # "wait"
      <3>1. a \in Cancels
        BY <2>3 DEF Actors
      <3> QED BY <1>5, <2>3, <3>1 DEF Moves, ReapExpires, FinishCancel, CancelRaises, osVars
    <2> QED BY <2>1, <2>2, <2>3
  <1> QED BY <1>1, <1>2, <1>3, <1>4, <1>5 DEF Coroutine

\* So is every step of the deadline.
LEMMA DeadlineCases ==
  ASSUME WorkerTypeOK, WaitTimesOut, UNCHANGED adapterVars
  PROVE  DeadlineBegins \/ DeadlineTooLate
  BY Typed, SentTo
     DEF Moves, WaitTimesOut, Terminate, DeadlineBegins, DeadlineTooLate, osButSignal

\* And every cancel.
LEMMA CancelCases ==
  ASSUME WorkerTypeOK, NEW c \in Cancels, Cancel(c)
  PROVE  CancelBegins(c) \/ CancelTooLate(c)
  <1> USE Typed, MarkedTyped
  <1>0. /\ UNCHANGED <<leader, killed, timed_out, adapterVars>> /\ c # "wait"
        /\ pc[c] = "idle" /\ leader # "unspawned" /\ c \in Actors
    BY DEF Cancel, CancelProcess, osButSignal
  <1>1. CASE leader = "known"
    <2> DEFINE step == IF Marked.termination = None THEN "already_exited" ELSE Marked.termination
               g == [Marked EXCEPT !.termination = step]
    <2>1. FinishCancel(c, g, "returned") /\ UNCHANGED signal
      BY <1>1 DEF Cancel, CancelProcess
    <2>2. step \in Steps /\ step # None
      BY DEF Handles, Steps, None
    <2> HIDE DEF step
    <2>3. g \in Handles /\ g.termination = step /\ g.cancelled = TRUE
      <3>1. Marked \in Handles /\ Marked.cancelled = TRUE /\ step \in Steps \cup {None}
        BY <2>2
      <3> QED BY <3>1, HandlesTyped
    <2> HIDE DEF g
    <2>4. handle' \in Handles /\ handle'.cancelled /\ handle'.cancel_finished = "set"
          /\ handle'.termination # None
      BY <2>1, <2>2, <2>3, HandlesTyped DEF FinishCancel
    <2> QED BY <1>0, <1>1, <2>1, <2>4 DEF Moves, FinishCancel, CancelTooLate
  <1>2. CASE leader # "known" /\ Terminate(c, Marked, FALSE)
    <2>1. CASE platform = "posix" /\ leader \in {"reaped", "known"}
      <3>1. Terminated(c, Marked, "already_exited", FALSE) /\ UNCHANGED signal
        BY <1>2, <2>1 DEF Terminate
      <3>2. /\ handle' \in Handles /\ handle'.termination = "already_exited"
            /\ handle'.cancelled = TRUE /\ handle'.cancel_finished = "set"
            /\ result' = result /\ pc' = [pc EXCEPT ![c] = "returned"]
        BY <1>0, <3>1, TerminatedCases DEF Steps
      <3> QED BY <1>0, <2>1, <3>1, <3>2 DEF Moves, CancelTooLate, None
    <2>2. CASE ~(platform = "posix" /\ leader \in {"reaped", "known"})
      BY <1>0, <1>2, <2>2, SentTo DEF Moves, Terminate, CancelBegins
    <2> QED BY <2>1, <2>2
  <1> QED BY <1>1, <1>2 DEF Cancel, CancelProcess

\* And everything the kernel, the worker and its child do.
LEMMA OsCases ==
  ASSUME WorkerTypeOK, UNCHANGED adapterVars,
         \/ LeaderDies \/ ChildDies \/ Reap
         \/ Fork \/ LeaderExits \/ ChildExits \/ Unstick
  PROVE  OsStep
  <1>1. CASE LeaderDies
    BY <1>1 DEF LeaderDies, OsStep, Fatal
  <1>2. CASE ChildDies \/ Fork \/ ChildExits \/ Unstick
    BY <1>2 DEF ChildDies, Fork, ChildExits, Unstick, OsStep
  <1>3. CASE LeaderExits
    BY <1>3 DEF LeaderExits, OsStep
  <1>4. CASE Reap
    BY <1>4 DEF Reap, OsStep
  <1> QED BY <1>1, <1>2, <1>3, <1>4

-----------------------------------------------------------------------------
(* Typing *)

\* The parts of the type invariant: the operating system's, the loop's, the adapter's.
OsTyped ==
  /\ platform \in Platforms
  /\ leader \in {"unspawned", "running", "zombie", "reaped", "known"}
  /\ child \in {"unspawned", "running", "gone"}
  /\ signal \in [Members -> {"none", "term", "kill"}]
  /\ stubborn \subseteq Members
  /\ stuck \in BOOLEAN /\ killed \in BOOLEAN
  /\ code \in ExitCodes

LoopTyped ==
  /\ pc \in [Actors -> Pcs] /\ handle \in Handles
  /\ timed_out \in BOOLEAN /\ result \in Results \cup {Nothing}

AdapterTyped ==
  /\ runs \in BOOLEAN
  /\ outcome \in Outcomes \cup {Nothing, [exit_code |-> "raised"]}

\* Together they are WorkerTypeOK.
LEMMA TypeParts == WorkerTypeOK <=> OsTyped /\ LoopTyped /\ AdapterTyped
  BY DEF WorkerTypeOK, ProcessTypeOK, OsTyped, LoopTyped, AdapterTyped, Pcs, Handles

\* After a step as well.
LEMMA TypePartsNext == OsTyped' /\ LoopTyped' /\ AdapterTyped' => WorkerTypeOK'
  BY DEF WorkerTypeOK, ProcessTypeOK, OsTyped, LoopTyped, AdapterTyped, Pcs, Handles

\* A signal is one of the two that are sent.
LEMMA SentTyped ==
  ASSUME OsTyped, NEW s \in {"term", "kill"}, Send(s)
  PROVE  signal' \in [Members -> {"none", "term", "kill"}]
  BY DEF OsTyped, Send

\* The first steps of a termination keep the types.
LEMMA TerminateTyped ==
  ASSUME WorkerTypeOK, NEW a \in Actors, NEW h \in Handles, NEW late \in BOOLEAN,
         Terminate(a, h, late)
  PROVE  /\ pc' \in [Actors -> Pcs] /\ handle' \in Handles
         /\ result' \in Results \cup {Nothing}
         /\ signal' \in [Members -> {"none", "term", "kill"}]
  <1> USE Typed
  <1>1. CASE platform = "windows"
    BY <1>1, TypeParts DEF Terminate, Pcs, OsTyped
  <1>2. CASE platform = "posix" /\ leader \in {"reaped", "known"}
    <2>1. Terminated(a, h, "already_exited", late) /\ UNCHANGED signal
      BY <1>2 DEF Terminate
    <2>2. /\ handle' \in Handles /\ result' \in Results \cup {Nothing}
          /\ \E x \in Pcs : pc' = [pc EXCEPT ![a] = x]
      BY <2>1, TerminatedCases DEF Steps, Pcs
    <2> QED BY <2>1, <2>2, TypeParts DEF OsTyped
  <1>3. CASE platform = "posix" /\ leader \in {"running", "zombie"}
    <2>1. Send("term") /\ handle' = h /\ pc' = [pc EXCEPT ![a] = "grace"] /\ result' = result
      BY <1>3 DEF Terminate
    <2> QED BY <2>1, SentTyped, TypeParts DEF Pcs
  <1> QED BY <1>1, <1>2, <1>3 DEF Terminate

\* The later ones too.
LEMMA CoroutineTyped ==
  ASSUME WorkerTypeOK, NEW a \in Actors, Coroutine(a), UNCHANGED adapterVars
  PROVE  WorkerTypeOK'
  <1> USE Typed
  <1>1. AdapterTyped'
    BY TypeParts DEF AdapterTyped, adapterVars
  <1>2. OsTyped'
    <2>1. UNCHANGED <<platform, leader, child, stubborn, stuck, killed, code>>
      BY DEF Coroutine, GraceEnds, GraceExpires, Taskkill, Reaped, ReapExpires, osVars,
             osButSignal
    <2>2. UNCHANGED signal \/ Send("kill")
      BY DEF Coroutine, GraceEnds, GraceExpires, Taskkill, Reaped, ReapExpires, osVars
    <2> QED BY <2>1, <2>2, SentTyped, TypeParts DEF OsTyped
  <1>3. LoopTyped'
    <2>1. ASSUME NEW step \in Steps, Ends(a, step) PROVE LoopTyped'
      <3>1. Terminated(a, handle, step, timed_out) /\ UNCHANGED timed_out
        BY <2>1 DEF Ends
      <3>2. /\ handle' \in Handles /\ result' \in Results \cup {Nothing}
            /\ \E x \in Pcs : pc' = [pc EXCEPT ![a] = x]
        BY <3>1, TerminatedCases DEF Pcs
      <3> QED BY <3>1, <3>2 DEF LoopTyped
    <2>2. ASSUME NEW x \in Pcs, Moves(a, x), handle' \in Handles,
                 UNCHANGED <<result, timed_out>>
          PROVE  LoopTyped'
      BY <2>2 DEF LoopTyped, Moves
    <2>3. CASE Forces(a) \/ (a = "wait" /\ WaitRaises) \/ CancelRaises(a)
      BY <2>2, <2>3, HandlesTyped DEF Forces, WaitRaises, CancelRaises, Pcs
    <2> QED BY <2>1, <2>3, CoroutineCases
  <1> QED BY <1>1, <1>2, <1>3, TypePartsNext

\* Every step keeps the types.
LEMMA TypeStep ==
  ASSUME WorkerInv, [WorkerNext]_vars
  PROVE  WorkerTypeOK'
  <1>0. WorkerTypeOK /\ WaitInv
    BY DEF WorkerInv, StopInv
  <1> USE <1>0, Typed, TypeParts, TypePartsNext
  <1>1. CASE WaitWakes /\ UNCHANGED adapterVars
    <2>1. /\ \E x \in Pcs : pc' = [pc EXCEPT !["wait"] = x]
          /\ result' \in Results \cup {Nothing}
      BY <1>1, TailCases DEF WaitWakes, Pcs
    <2> QED BY <1>1, <2>1 DEF WaitWakes, osVars, adapterVars, OsTyped, LoopTyped, AdapterTyped
  <1>2. CASE WaitTimesOut /\ UNCHANGED adapterVars
    <2>1. timed_out' = TRUE /\ Terminate("wait", handle, TRUE)
      BY <1>2 DEF WaitTimesOut
    <2>2. LoopTyped'
      BY <2>1, TerminateTyped DEF LoopTyped
    <2>3. OsTyped'
      BY <1>2, <2>1, TerminateTyped DEF WaitTimesOut, osButSignal, OsTyped
    <2> QED BY <1>2, <2>2, <2>3 DEF adapterVars, AdapterTyped
  <1>3. CASE WaitSettles /\ UNCHANGED adapterVars
    <2>1. result' \in Results
      BY <1>3 DEF WaitSettles, ResultOf, Results, Handles, ExitCodes
    <2>2. LoopTyped'
      BY <1>3, <2>1 DEF WaitSettles, LoopTyped, Pcs
    <2> QED BY <1>3, <2>2 DEF WaitSettles, osVars, OsTyped, adapterVars, AdapterTyped
  <1>4. CASE Collect
    <2>1. result \in Results => \A b \in BOOLEAN : OutcomeOf(result, b) \in Outcomes
      <3> SUFFICES ASSUME result \in Results, NEW b \in BOOLEAN
                   PROVE  OutcomeOf(result, b) \in Outcomes
        OBVIOUS
      <3>1. result.exit_code \in ExitCodes \cup {Unknown}
        BY DEF Results
      <3>2. (result.timed_out \/ result.cancelled \/ b) \in BOOLEAN
        OBVIOUS
      <3>3. (CASE result.cancelled -> "cancelled"
               [] result.timed_out /\ ~result.cancelled -> "timeout"
               [] OTHER -> IF b THEN "worker" ELSE None)
              \in {None, "worker", "cancelled", "timeout"}
        OBVIOUS
      <3> QED BY <3>1, <3>2, <3>3 DEF OutcomeOf, Outcomes
    <2>2. OsTyped' /\ LoopTyped'
      BY <1>4 DEF Collect, osVars, loopVars, OsTyped, LoopTyped
    <2>3. runs' \in BOOLEAN
      BY <1>4 DEF Collect, AdapterTyped
    <2>4. outcome' \in Outcomes \cup {Nothing, [exit_code |-> "raised"]}
      <3>1. CASE outcome' = [exit_code |-> "raised"]
        BY <3>1
      <3>2. CASE \E b \in BOOLEAN : pc["wait"] = "returned" /\ outcome' = OutcomeOf(result, b)
        BY <1>0, <2>1, <3>2 DEF WaitInv
      <3> QED BY <1>4, <3>1, <3>2 DEF Collect
    <2> QED BY <2>2, <2>3, <2>4 DEF AdapterTyped
  <1>5. CASE StartWorker \/ WorkerDoesNotStart
    BY <1>5 DEF StartWorker, Start, WorkerDoesNotStart, SpawnFails, osVars, adapterVars,
           OsTyped, LoopTyped, AdapterTyped, Pcs
  <1>6. CASE WorkerStarted
    BY <1>6 DEF WorkerStarted, Spawned, OsTyped, LoopTyped, AdapterTyped, Pcs
  <1>7. ASSUME NEW c \in Cancels, Cancel(c) PROVE WorkerTypeOK'
    <2>1. LoopTyped'
      <3>1. CASE CancelBegins(c)
        BY <3>1, MarkedTyped DEF CancelBegins, LoopTyped, Moves, Pcs
      <3>2. CASE CancelTooLate(c)
        BY <3>2 DEF CancelTooLate, LoopTyped, Moves, Pcs
      <3> QED BY <1>7, <3>1, <3>2, CancelCases
    <2>2. signal' \in [Members -> {"none", "term", "kill"}]
      BY <1>7, SentTyped DEF Cancel, CancelProcess, Terminate, OsTyped
    <2> QED BY <1>7, <2>1, <2>2 DEF Cancel, CancelProcess, osButSignal, adapterVars, OsTyped,
               AdapterTyped
  <1>8. ASSUME NEW c \in Cancels, CancelUnknown(c) PROVE WorkerTypeOK'
    BY <1>8 DEF CancelUnknown, osVars, adapterVars, OsTyped, LoopTyped, AdapterTyped, Pcs
  <1>9. CASE /\ \/ LeaderDies \/ ChildDies \/ Reap
                \/ Fork \/ LeaderExits \/ ChildExits \/ Unstick
             /\ UNCHANGED adapterVars
    <2>1. OsTyped'
      BY <1>9 DEF LeaderDies, ChildDies, Reap, Fork, LeaderExits, ChildExits, Unstick, OsTyped,
             ExitCodes
    <2>2. UNCHANGED loopVars
      BY <1>9 DEF LeaderDies, ChildDies, Reap, Fork, LeaderExits, ChildExits, Unstick
    <2> QED BY <1>9, <2>1, <2>2 DEF loopVars, adapterVars, LoopTyped, AdapterTyped
  <1>10. CASE UNCHANGED vars
    BY <1>10 DEF vars, OsTyped, LoopTyped, AdapterTyped
  <1> QED
    BY <1>1, <1>2, <1>3, <1>4, <1>5, <1>6, <1>7, <1>8, <1>9, <1>10, CoroutineTyped
       DEF WorkerNext, Loop, Kernel, Environment

-----------------------------------------------------------------------------
(* Those who stop the process *)

\* Who they are, before a step and after it.
LEMMA WhoStops ==
  /\ \A s : s \in Stoppers <=> (s \in Cancels /\ pc[s] # "idle") \/ (s = "wait" /\ timed_out)
  /\ \A s : s \in Stoppers' <=> (s \in Cancels /\ pc'[s] # "idle") \/ (s = "wait" /\ timed_out')
  <1>1. \A s : s \in Stoppers <=> (s \in Cancels /\ pc[s] # "idle") \/ (s = "wait" /\ timed_out)
    <2>1. CASE timed_out
      BY <2>1 DEF Stoppers
    <2>2. CASE ~timed_out
      BY <2>2 DEF Stoppers
    <2> QED BY <2>1, <2>2
  <1>2. \A s : s \in Stoppers' <=> (s \in Cancels /\ pc'[s] # "idle") \/ (s = "wait" /\ timed_out')
    <2>1. CASE timed_out'
      BY <2>1 DEF Stoppers
    <2>2. CASE ~timed_out'
      BY <2>2 DEF Stoppers
    <2> QED BY <2>1, <2>2
  <1> QED BY <1>1, <1>2

\* Before there is one, nothing was sent.
LEMMA NoStopper ==
  ASSUME WorkerInv, Stoppers = {}
  PROVE  signal["leader"] = "none" /\ ~killed
  <1>1. ~timed_out /\ \A c \in Cancels : pc[c] = "idle"
    BY WhoStops
  <1> QED BY <1>1 DEF WorkerInv, StopInv, HandleInv

\* Someone who begins, and is then the only one, is the first.
LEMMA FirstStopper ==
  ASSUME WorkerInv, NEW a, a \notin Stoppers, a \in Stoppers', Stoppers \subseteq Stoppers',
         Lone'
  PROVE  signal["leader"] = "none" /\ ~killed
  <1>1. Stoppers = {}
    BY DEF Lone
  <1> QED BY <1>1, NoStopper

\* Where nobody leaves, a lone one was one before.
LEMMA StillLone ==
  ASSUME Stoppers \subseteq Stoppers', Lone'
  PROVE  Lone
  BY DEF Lone

-----------------------------------------------------------------------------
(* The invariant, step by step *)

\* The kernel, the worker and its child.
LEMMA OsKeeps ==
  ASSUME WorkerInv, OsStep
  PROVE  StopInv'
  <1> USE DEF WorkerInv, StopInv
  <1>1. UNCHANGED <<pc, handle, timed_out, result, runs, outcome, signal>>
    BY DEF OsStep, loopVars, adapterVars
  <1>2. /\ leader' = "running" => leader = "running"
        /\ leader' = "unspawned" <=> leader = "unspawned"
        /\ killed' => killed \/ (leader = "running" /\ signal["leader"] # "none")
    BY Typed DEF OsStep
  <1>3. Stoppers' = Stoppers /\ (Lone' <=> Lone)
    BY <1>1 DEF Stoppers, Lone
  <1>4. SpawnInv' /\ WaitInv' /\ UnreapedInv'
    BY <1>1, <1>2, Typed DEF SpawnInv, WaitInv, UnreapedInv, OsStep
  <1>5. HandleInv' /\ FinishInv' /\ InFlightInv'
    BY <1>1, <1>2 DEF HandleInv, FinishInv, InFlightInv
  <1>6. SignalInv'
    BY <1>1, <1>3 DEF SignalInv
  <1>7. ResultInv' /\ OutcomeInv'
    BY <1>1, <1>2 DEF ResultInv, OutcomeInv
  <1>8. StepRecorded'
    BY <1>1, <1>2, <1>3 DEF StepRecorded, Lone, ResultInv, None
  <1> QED BY <1>4, <1>5, <1>6, <1>7, <1>8

\* A cancel or the deadline sends its first signal, or is about to.
LEMMA BeginKeeps ==
  ASSUME WorkerInv, DeadlineBegins \/ \E c \in Cancels : CancelBegins(c)
  PROVE  StopInv'
  <1> USE Typed DEF WorkerInv, StopInv
  <1>1. UNCHANGED <<leader, killed, result, runs, outcome>> /\ Sends
    BY DEF DeadlineBegins, CancelBegins, adapterVars, Sends
  <1>2. PICK a \in Actors, x \in {"taskkill", "grace"} :
          /\ Moves(a, x) /\ a \notin Stoppers /\ a \in Stoppers'
          /\ pc[a] = IF a = "wait" THEN "waiting" ELSE "idle"
          /\ x = "taskkill" => UNCHANGED signal
          /\ a = "wait" => handle' = handle /\ timed_out' = TRUE
          /\ a # "wait" => a \in Cancels /\ handle' = Marked /\ UNCHANGED timed_out
                           /\ leader # "unspawned"
    <2>1. CASE DeadlineBegins
      <3>1. pc["wait"] = "waiting" /\ ~timed_out /\ timed_out' = TRUE /\ handle' = handle
        BY <2>1 DEF DeadlineBegins, WaitInv
      <3>2. "wait" \notin Stoppers /\ "wait" \in Stoppers'
        BY <3>1, WhoStops
      <3> QED BY <2>1, <3>1, <3>2 DEF DeadlineBegins
    <2>2. ASSUME NEW c \in Cancels, CancelBegins(c)
          PROVE  \E x \in {"taskkill", "grace"} :
                   /\ Moves(c, x) /\ c \notin Stoppers /\ c \in Stoppers'
                   /\ x = "taskkill" => UNCHANGED signal
      <3>1. PICK x \in {"taskkill", "grace"} : Moves(c, x) /\ (x = "taskkill" => UNCHANGED signal)
        BY <2>2 DEF CancelBegins
      <3>2. c \notin Stoppers /\ c \in Stoppers'
        BY <2>2, <3>1, Moved, WhoStops DEF CancelBegins
      <3> QED BY <3>1, <3>2
    <2> QED BY <2>1, <2>2 DEF CancelBegins
  <1>3. pc'[a] = x /\ \A b \in Actors : b # a => pc'[b] = pc[b]
    BY <1>2, Moved
  <1>4. Stoppers \subseteq Stoppers'
    BY <1>2, <1>3, WhoStops
  <1>5. /\ handle'.termination = handle.termination
        /\ a # "wait" => handle'.cancelled = TRUE
        /\ handle'.cancelled <=> handle'.cancel_finished # None
        /\ handle.cancelled => handle'.cancelled
        /\ handle'.cancel_finished = IF a # "wait" /\ handle.cancel_finished = None
                                     THEN "unset" ELSE handle.cancel_finished
    <2>1. CASE a = "wait"
      BY <1>2, <2>1 DEF HandleInv
    <2>2. CASE a # "wait"
      BY <1>2, <2>2, MarkedTyped DEF None, Handles
    <2> QED BY <2>1, <2>2
  <1>6. SpawnInv'
    BY <1>1, <1>2, <1>3 DEF SpawnInv
  <1>7. WaitInv'
    BY <1>1, <1>2, <1>3 DEF WaitInv
  <1>8. UnreapedInv'
    BY <1>1, <1>2, <1>3, <1>5 DEF UnreapedInv
  <1>9. HandleInv'
    <2>1. (\A c \in Cancels : pc'[c] = "idle") => ~handle'.cancelled
      BY <1>2, <1>3 DEF HandleInv
    <2>2. handle'.cancelled \/ timed_out'
      BY <1>2, <1>5
    <2>3. killed' => signal'["leader"] # "none"
      BY <1>1, <1>2 DEF HandleInv, Sends
    <2>4. \A c \in Cancels : pc'[c] \in InFlight => handle'.cancelled
      BY <1>2, <1>3, <1>5 DEF HandleInv
    <2> QED BY <1>5, <2>1, <2>2, <2>3, <2>4 DEF HandleInv
  <1>10. FinishInv'
    BY <1>2, <1>3, <1>5 DEF FinishInv
  <1>11. InFlightInv'
    BY <1>2, <1>3, <1>5 DEF InFlightInv, InFlight, HandleInv
  <1>12. SignalInv'
    <2> SUFFICES ASSUME signal'["leader"] # "none", Lone'
                 PROVE  x = "grace"
      BY <1>2, <1>3 DEF SignalInv
    <2> QED BY <1>2, <1>4, FirstStopper
  <1>13. ResultInv' /\ OutcomeInv'
    BY <1>1 DEF ResultInv, OutcomeInv
  <1>14. StepRecorded'
    <2>1. (\A c \in Cancels : pc'[c] # "raised") => \A c \in Cancels : pc[c] # "raised"
      BY <1>2, <1>3
    <2>2. Lone' => Lone
      BY <1>4, StillLone
    <2> QED BY <1>1, <2>1, <2>2 DEF StepRecorded, Lone
  <1> QED BY <1>6, <1>7, <1>8, <1>9, <1>10, <1>11, <1>12, <1>13, <1>14

\* The grace period passes: the group is forced.
LEMMA ForceKeeps ==
  ASSUME WorkerInv, NEW a \in Actors, Forces(a)
  PROVE  StopInv'
  <1> USE Typed DEF WorkerInv, StopInv
  <1>1. UNCHANGED <<leader, killed, handle, result, timed_out, runs, outcome>> /\ Sends
    BY DEF Forces, adapterVars
  <1>2. /\ pc[a] \in {"taskkill", "grace"} /\ pc'[a] = "reap"
        /\ \A b \in Actors : b # a => pc'[b] = pc[b]
    BY Moved DEF Forces
  <1>3. a \in Stoppers'
    BY <1>1, <1>2, WhoStops DEF WaitInv, Actors
  <1>4. Stoppers' = Stoppers /\ (Lone' <=> Lone)
    <2>1. Stoppers' = Stoppers
      BY <1>1, <1>2, WhoStops
    <2> QED BY <2>1 DEF Lone
  <1>5. SpawnInv' /\ WaitInv' /\ UnreapedInv'
    BY <1>1, <1>2 DEF SpawnInv, WaitInv, UnreapedInv, Actors
  <1>6. HandleInv'
    BY <1>1, <1>2 DEF HandleInv, InFlight, WaitInv, Sends, Actors
  <1>7. FinishInv' /\ InFlightInv'
    BY <1>1, <1>2 DEF FinishInv, InFlightInv, InFlight
  <1>8. SignalInv'
    BY <1>2, <1>3 DEF SignalInv
  <1>9. ResultInv' /\ OutcomeInv'
    BY <1>1 DEF ResultInv, OutcomeInv
  <1>10. StepRecorded'
    BY <1>1, <1>2, <1>4 DEF StepRecorded, Lone
  <1> QED BY <1>5, <1>6, <1>7, <1>8, <1>9, <1>10

\* A termination ends, with the step that stopped the process.
LEMMA EndKeeps ==
  ASSUME WorkerInv, NEW a \in Actors, NEW step \in Steps, Ends(a, step)
  PROVE  StopInv'
  <1> USE Typed DEF WorkerInv, StopInv
  <1>1. /\ UNCHANGED <<leader, killed, signal, timed_out, runs, outcome>>
        /\ pc[a] \in {"grace", "reap"}
        /\ step \notin {None, "already_exited"}
        /\ leader = "running" => step = "taskkill_tree_unreaped"
        /\ a = "wait" => timed_out /\ timed_out = TRUE
    BY DEF Ends, adapterVars, Steps, None, WaitInv
  <1>2. /\ handle'.termination = step /\ handle'.cancelled = handle.cancelled
        /\ \/ /\ a # "wait" /\ handle'.cancel_finished = "set" /\ result' = result
              /\ Moves(a, "returned")
           \/ /\ a = "wait" /\ result' = result
              /\ handle'.cancel_finished = handle.cancel_finished
              /\ Moves(a, "settling")
           \/ /\ a = "wait"
              /\ handle'.cancel_finished = handle.cancel_finished
              /\ Moves(a, "returned") /\ result' \in Results
              /\ result'.timed_out = TRUE /\ result'.termination = step
    BY <1>1, TerminatedCases DEF Ends, Moves
  <1>3. /\ pc'[a] \in {"returned", "settling"} /\ \A b \in Actors : b # a => pc'[b] = pc[b]
        /\ pc'[a] = "settling" => a = "wait"
        /\ a # "wait" => pc'[a] = "returned"
    BY <1>2, Moved
  <1>4. Stoppers' = Stoppers /\ (Lone' <=> Lone)
    <2>1. Stoppers' = Stoppers
      BY <1>1, <1>3, WhoStops
    <2> QED BY <2>1 DEF Lone
  <1>5. a # "wait" => a \in Cancels
    BY DEF Actors
  <1>6. SpawnInv'
    BY <1>1, <1>3, <1>5 DEF SpawnInv
  <1>7. WaitInv'
    <2>1. result' # Nothing <=> pc'["wait"] = "returned"
      BY <1>1, <1>2, <1>3, Moved, Distinct DEF WaitInv
    <2> QED BY <1>1, <1>3, <2>1 DEF WaitInv
  <1>8. UnreapedInv'
    BY <1>1, <1>2 DEF UnreapedInv
  <1>9. HandleInv'
    <2>1. handle'.cancelled <=> handle'.cancel_finished # None
      BY <1>1, <1>2, <1>5 DEF HandleInv, InFlight, None
    <2> QED BY <1>1, <1>2, <1>3, <1>5, <2>1 DEF HandleInv, InFlight
  <1>10. FinishInv'
    BY <1>1, <1>2 DEF FinishInv
  <1>11. InFlightInv'
    BY <1>2, <1>3, <1>5 DEF InFlightInv, InFlight
  <1>12. SignalInv'
    BY <1>1, <1>2 DEF SignalInv
  <1>13. result' = result \/ (a = "wait" /\ result = Nothing)
    BY <1>1, <1>2 DEF WaitInv
  <1>14. ResultInv' /\ OutcomeInv'
    BY <1>1, <1>2, <1>13 DEF ResultInv, OutcomeInv
  <1>15. StepRecorded'
    <2>1. CASE result' = result
      BY <1>1, <1>3, <1>4, <2>1 DEF StepRecorded, Lone
    <2>2. CASE result' # result
      BY <1>1, <1>2, <2>2 DEF StepRecorded
    <2> QED BY <2>1, <2>2
  <1> QED BY <1>6, <1>7, <1>8, <1>9, <1>10, <1>11, <1>12, <1>14, <1>15

\* An unkillable process makes its wait or a cancel raise.
LEMMA RaiseKeeps ==
  ASSUME WorkerInv, WaitRaises \/ \E c \in Cancels : CancelRaises(c)
  PROVE  StopInv'
  <1> USE Typed DEF WorkerInv, StopInv
  <1>1. UNCHANGED <<leader, killed, signal, result, timed_out, runs, outcome>> /\ leader = "running"
    BY DEF WaitRaises, CancelRaises, adapterVars
  <1>2. PICK a \in Actors :
          /\ pc[a] = "reap" /\ Moves(a, "raised")
          /\ a = "wait" => handle' = handle
          /\ a # "wait" => a \in Cancels /\ handle' = [handle EXCEPT !.cancel_finished = "set"]
    BY DEF WaitRaises, CancelRaises
  <1>3. pc'[a] = "raised" /\ \A b \in Actors : b # a => pc'[b] = pc[b]
    BY <1>2, Moved
  <1>4. /\ handle'.termination = handle.termination /\ handle'.cancelled = handle.cancelled
        /\ handle'.cancel_finished = IF a = "wait" THEN handle.cancel_finished ELSE "set"
    <2>1. CASE a = "wait"
      BY <1>2, <2>1
    <2>2. CASE a # "wait"
      BY <1>2, <2>2 DEF Handles
    <2> QED BY <2>1, <2>2
  <1>5. Stoppers' = Stoppers /\ (Lone' <=> Lone) /\ a \in Stoppers'
    <2>1. Stoppers' = Stoppers /\ a \in Stoppers'
      BY <1>1, <1>2, <1>3, WhoStops DEF WaitInv
    <2> QED BY <2>1 DEF Lone
  <1>6. SpawnInv' /\ WaitInv' /\ UnreapedInv'
    BY <1>1, <1>2, <1>3, <1>4 DEF SpawnInv, WaitInv, UnreapedInv
  <1>7. HandleInv'
    <2>1. handle'.cancelled <=> handle'.cancel_finished # None
      BY <1>2, <1>4 DEF HandleInv, InFlight, None
    <2> QED BY <1>1, <1>2, <1>3, <1>4, <2>1 DEF HandleInv, InFlight
  <1>8. FinishInv' /\ InFlightInv'
    BY <1>2, <1>3, <1>4 DEF FinishInv, InFlightInv, InFlight
  <1>9. SignalInv'
    BY <1>3, <1>5 DEF SignalInv
  <1>10. ResultInv' /\ OutcomeInv'
    BY <1>1 DEF ResultInv, OutcomeInv
  <1>11. StepRecorded'
    BY <1>1, <1>2, <1>3, <1>5 DEF StepRecorded, Lone
  <1> QED BY <1>6, <1>7, <1>8, <1>9, <1>10, <1>11

\* The wait, or someone's cancel, finds that the process has exited.
LEMMA DeadlineTooLateKeeps ==
  ASSUME WorkerInv, DeadlineTooLate
  PROVE  StopInv'
  <1> USE Typed DEF WorkerInv, StopInv
  <1>1. /\ UNCHANGED <<leader, killed, signal, runs, outcome>> /\ timed_out' = TRUE
        /\ pc["wait"] = "waiting" /\ leader \in {"reaped", "known"}
        /\ ~timed_out /\ result = Nothing
    BY DEF DeadlineTooLate, adapterVars, WaitInv
  <1>2. /\ handle'.termination = "already_exited" /\ handle'.cancelled = handle.cancelled
        /\ handle'.cancel_finished = handle.cancel_finished
        /\ \/ result' = result /\ Moves("wait", "settling")
           \/ /\ Moves("wait", "returned") /\ result' \in Results
              /\ result'.timed_out = TRUE /\ result'.termination = "already_exited"
    BY <1>1, TerminatedCases DEF DeadlineTooLate, Moves, Steps
  <1>3. /\ pc'["wait"] \in {"settling", "returned"}
        /\ \A b \in Actors : b # "wait" => pc'[b] = pc[b]
        /\ \A c \in Cancels : pc'[c] = pc[c]
    BY <1>2, Moved
  <1>4. Lone' => signal["leader"] = "none" /\ ~killed
    <2>1. "wait" \notin Stoppers /\ "wait" \in Stoppers' /\ Stoppers \subseteq Stoppers'
      BY <1>1, <1>3, WhoStops
    <2> QED BY <2>1, FirstStopper
  <1>5. SpawnInv' /\ UnreapedInv'
    BY <1>1, <1>3 DEF SpawnInv, UnreapedInv
  <1>6. WaitInv'
    <2>1. result' # Nothing <=> pc'["wait"] = "returned"
      BY <1>1, <1>2, Moved, Distinct
    <2> QED BY <1>1, <1>3, <2>1 DEF WaitInv
  <1>7. HandleInv' /\ InFlightInv'
    BY <1>1, <1>2, <1>3 DEF HandleInv, InFlightInv
  <1>8. FinishInv'
    BY <1>2 DEF FinishInv, None
  <1>9. SignalInv'
    BY <1>1, <1>4 DEF SignalInv
  <1>10. ResultInv' /\ OutcomeInv'
    BY <1>1, <1>2 DEF ResultInv, OutcomeInv
  <1>11. StepRecorded'
    BY <1>1, <1>2, <1>4 DEF StepRecorded, Lone, None
  <1> QED BY <1>5, <1>6, <1>7, <1>8, <1>9, <1>10, <1>11

\* So does a cancel; or the adapter no longer knows of the run it is for.
LEMMA CancelTooLateKeeps ==
  ASSUME WorkerInv, NEW c \in Cancels, CancelTooLate(c) \/ CancelUnknown(c)
  PROVE  StopInv'
  <1> USE Typed DEF WorkerInv, StopInv
  <1>1. /\ UNCHANGED <<leader, killed, signal, result, timed_out, runs, outcome>>
        /\ pc[c] = "idle" /\ leader # "unspawned"
        /\ Moves(c, "returned") \/ Moves(c, "raised")
    BY DEF CancelTooLate, CancelUnknown, adapterVars, osVars, Moves, SpawnInv
  <1>2. /\ pc'[c] \in {"returned", "raised"} /\ pc'["wait"] = pc["wait"]
        /\ \A b \in Actors : b # c => pc'[b] = pc[b]
    BY <1>1, Moved
  <1>3. Lone' => Lone /\ signal["leader"] = "none" /\ ~killed
    <2>1. c \notin Stoppers /\ c \in Stoppers' /\ Stoppers \subseteq Stoppers'
      BY <1>1, <1>2, WhoStops
    <2> QED BY <2>1, FirstStopper, StillLone
  <1>4. SpawnInv' /\ WaitInv'
    BY <1>1, <1>2 DEF SpawnInv, WaitInv
  <1>5. UnreapedInv'
    <2>1. CASE CancelTooLate(c)
      BY <1>1, <2>1 DEF UnreapedInv, CancelTooLate
    <2>2. CASE CancelUnknown(c)
      <3>1. handle' = handle /\ pc'[c] = "raised"
        BY <2>2, Moved DEF CancelUnknown, Moves
      <3> QED BY <1>1, <1>2, <3>1 DEF UnreapedInv
    <2> QED BY <2>1, <2>2
  <1>6. HandleInv'
    <2>1. CASE CancelTooLate(c)
      BY <1>1, <1>2, <2>1 DEF HandleInv, CancelTooLate, None, InFlight
    <2>2. CASE CancelUnknown(c)
      BY <1>1, <1>2, <2>2 DEF HandleInv, CancelUnknown, InFlight
    <2> QED BY <2>1, <2>2
  <1>7. FinishInv'
    <2>1. CASE CancelTooLate(c)
      BY <2>1 DEF FinishInv, CancelTooLate
    <2>2. CASE CancelUnknown(c)
      BY <2>2, Moved DEF FinishInv, CancelUnknown, Moves
    <2> QED BY <2>1, <2>2
  <1>8. InFlightInv'
    BY <1>1, <1>2 DEF InFlightInv, InFlight
  <1>9. SignalInv'
    BY <1>1, <1>3 DEF SignalInv
  <1>10. ResultInv' /\ OutcomeInv'
    BY <1>1 DEF ResultInv, OutcomeInv
  <1>11. StepRecorded'
    BY <1>1, <1>2, <1>3 DEF StepRecorded, Lone
  <1> QED BY <1>4, <1>5, <1>6, <1>7, <1>8, <1>9, <1>10, <1>11

\* The wait wakes, or has settled, and builds its result if no cancel is in flight.
LEMMA WaitKeeps ==
  ASSUME WorkerInv, WaitWakes \/ WaitSettles, UNCHANGED adapterVars
  PROVE  StopInv'
  <1> USE Typed DEF WorkerInv, StopInv
  <1>1. /\ UNCHANGED <<leader, killed, signal, handle, timed_out, runs, outcome>>
        /\ pc["wait"] \in {"waiting", "settling"} /\ result = Nothing
        /\ leader = "running" => pc["wait"] = "settling"
        /\ leader # "unspawned"
    BY DEF WaitWakes, WaitSettles, osVars, adapterVars, WaitInv, SpawnInv
  <1>2. \/ Moves("wait", "settling") /\ result' = result /\ leader = "known"
        \/ /\ Moves("wait", "returned") /\ result' \in Results
           /\ handle.cancel_finished # "unset"
           /\ result'.timed_out = timed_out /\ result'.termination = handle.termination
           /\ result'.cancelled = handle.cancelled
    <2>1. CASE WaitWakes
      <3>1. timed_out = FALSE /\ WaitTail(handle, FALSE) /\ leader = "known"
        BY <2>1 DEF WaitWakes, WaitInv
      <3> QED BY <3>1, TailCases DEF Moves
    <2>2. CASE WaitSettles
      <3>1. ResultOf(handle, timed_out) \in Results
        BY DEF ResultOf, Results, Handles, ExitCodes
      <3> QED BY <2>2, <3>1 DEF WaitSettles, ResultOf, Moves
    <2> QED BY <2>1, <2>2
  <1>3. /\ pc'["wait"] \in {"settling", "returned"}
        /\ \A b \in Actors : b # "wait" => pc'[b] = pc[b]
        /\ \A c \in Cancels : pc'[c] = pc[c]
    BY <1>2, Moved
  <1>4. Stoppers' = Stoppers /\ (Lone' <=> Lone)
    <2>1. Stoppers' = Stoppers
      BY <1>1, <1>3, WhoStops
    <2> QED BY <2>1 DEF Lone
  <1>5. SpawnInv'
    BY <1>1, <1>3 DEF SpawnInv
  <1>6. WaitInv'
    <2>1. result' # Nothing <=> pc'["wait"] = "returned"
      BY <1>1, <1>2, Moved, Distinct
    <2> QED BY <1>1, <1>2, <1>3, <2>1 DEF WaitInv
  <1>7. UnreapedInv'
    BY <1>1, <1>3 DEF UnreapedInv
  <1>8. HandleInv' /\ FinishInv' /\ InFlightInv'
    BY <1>1, <1>3 DEF HandleInv, FinishInv, InFlightInv
  <1>9. SignalInv'
    <2>1. \A s \in Stoppers : pc[s] \in {"grace", "reap", "raised"} => pc'[s] = pc[s]
      BY <1>1, <1>3, WhoStops
    <2>2. SignalInv
      OBVIOUS
    <2> QED BY <1>1, <1>4, <2>1, <2>2 DEF SignalInv
  <1>10. ResultInv'
    <2>1. leader = "running" \/ killed => timed_out \/ handle.cancelled
      BY <1>1 DEF WaitInv, HandleInv
    <2>2. leader = "running" => handle.termination = "taskkill_tree_unreaped"
      BY <1>1 DEF UnreapedInv
    <2> QED BY <1>1, <1>2, <2>1, <2>2 DEF ResultInv
  <1>11. OutcomeInv'
    BY <1>1 DEF OutcomeInv
  <1>12. StepRecorded'
    <2> SUFFICES ASSUME result' # Nothing, \A c \in Cancels : pc'[c] # "raised"
                 PROVE  /\ handle.cancelled => handle.termination # None
                        /\ killed /\ Lone => handle.termination \notin {None, "already_exited"}
      BY <1>1, <1>2, <1>4 DEF StepRecorded, Lone
    <2>1. handle.cancel_finished # "unset" /\ \A c \in Cancels : pc[c] # "raised"
      BY <1>1, <1>2, <1>3
    <2>2. handle.cancelled => handle.termination # None
      <3>1. handle.cancelled => handle.cancel_finished = "set"
        BY <2>1 DEF HandleInv, Handles
      <3> QED BY <2>1, <3>1 DEF FinishInv
    <2>3. ASSUME killed, Lone PROVE handle.termination \notin {None, "already_exited"}
      <3>1. ASSUME NEW s \in Stoppers, pc[s] \in {"grace", "reap", "raised"} PROVE FALSE
        <4>1. s \in Cancels /\ pc[s] \in InFlight
          BY <1>1, <2>1, <3>1, WhoStops DEF InFlight
        <4>2. \A d \in Cancels : d # s => pc[d] = "idle"
          BY <2>3, <3>1, WhoStops DEF Lone
        <4> QED BY <2>1, <4>1, <4>2 DEF InFlightInv
      <3> QED BY <2>3, <3>1 DEF SignalInv, HandleInv
    <2> QED BY <2>2, <2>3
  <1> QED BY <1>5, <1>6, <1>7, <1>8, <1>9, <1>10, <1>11, <1>12

\* The process is started, or cannot be.
LEMMA StartKeeps ==
  ASSUME WorkerInv, StartWorker \/ WorkerStarted \/ WorkerDoesNotStart
  PROVE  StopInv'
  <1> USE Typed DEF WorkerInv, StopInv
  <1>1. /\ UNCHANGED <<killed, signal, handle, timed_out, result, outcome>>
        /\ leader = "unspawned" /\ result = Nothing /\ ~timed_out /\ outcome = Nothing
        /\ \A c \in Cancels : pc[c] = "idle"
    BY DEF StartWorker, Start, WorkerStarted, Spawned, WorkerDoesNotStart, SpawnFails,
           osVars, adapterVars, SpawnInv, WaitInv
  <1>2. \/ leader' = "unspawned" /\ Moves("wait", "spawning") /\ UNCHANGED runs
        \/ leader' = "unspawned" /\ Moves("wait", "raised") /\ UNCHANGED runs
        \/ leader' = "running" /\ Moves("wait", "waiting")
    BY <1>1 DEF StartWorker, Start, WorkerStarted, Spawned, WorkerDoesNotStart, SpawnFails,
           osVars, adapterVars, Moves
  <1>3. /\ pc'["wait"] \in {"spawning", "raised", "waiting"}
        /\ leader' = "running" <=> pc'["wait"] = "waiting"
        /\ leader' \in {"unspawned", "running"}
        /\ \A c \in Cancels : pc'[c] = "idle"
    BY <1>1, <1>2, Moved
  <1>4. SpawnInv'
    BY <1>1, <1>2, <1>3 DEF SpawnInv
  <1>5. WaitInv' /\ UnreapedInv'
    BY <1>1, <1>3 DEF WaitInv, UnreapedInv, Actors
  <1>6. HandleInv' /\ FinishInv' /\ InFlightInv'
    BY <1>1, <1>3 DEF HandleInv, FinishInv, InFlightInv, InFlight
  <1>7. SignalInv'
    BY <1>1 DEF HandleInv, SignalInv
  <1>8. ResultInv' /\ StepRecorded' /\ OutcomeInv'
    BY <1>1, Distinct DEF ResultInv, StepRecorded, OutcomeInv
  <1> QED BY <1>4, <1>5, <1>6, <1>7, <1>8

\* What a result makes of the worker's own report.
LEMMA OutcomeTells ==
  ASSUME NEW r \in Results, NEW reported \in BOOLEAN, r.timed_out \/ r.cancelled
  PROVE  /\ OutcomeOf(r, reported).reported_error
         /\ OutcomeOf(r, reported).error_kind \in {"cancelled", "timeout"}
  BY DEF OutcomeOf

\* The adapter collects the result.
LEMMA CollectKeeps ==
  ASSUME WorkerInv, Collect
  PROVE  StopInv'
  <1> USE Typed DEF WorkerInv, StopInv
  <1>1. /\ UNCHANGED <<leader, killed, signal, pc, handle, timed_out, result>>
        /\ leader # "unspawned"
    BY DEF Collect, osVars, loopVars, SpawnInv
  <1>2. Stoppers' = Stoppers /\ (Lone' <=> Lone)
    BY <1>1 DEF Stoppers, Lone
  <1>3. SpawnInv' /\ WaitInv' /\ UnreapedInv' /\ HandleInv' /\ FinishInv' /\ InFlightInv'
    BY <1>1 DEF SpawnInv, WaitInv, UnreapedInv, HandleInv, FinishInv, InFlightInv
  <1>4. SignalInv'
    BY <1>1, <1>2 DEF SignalInv
  <1>5. ResultInv'
    BY <1>1 DEF ResultInv
  <1>6. StepRecorded'
    BY <1>1, <1>2 DEF StepRecorded, Lone
  <1>7. OutcomeInv'
    <2>1. CASE outcome' = [exit_code |-> "raised"]
      BY <2>1, Distinct DEF OutcomeInv
    <2>2. CASE /\ pc["wait"] = "returned"
               /\ \E reported \in BOOLEAN : outcome' = OutcomeOf(result, reported)
      <3>1. result \in Results /\ result # Nothing
        BY <2>2 DEF WaitInv
      <3> QED BY <1>1, <2>2, <3>1, OutcomeTells DEF OutcomeInv
    <2> QED BY <2>1, <2>2 DEF Collect
  <1> QED BY <1>3, <1>4, <1>5, <1>6, <1>7

-----------------------------------------------------------------------------
(* The theorems *)

\* A process that is not started yet satisfies the invariant.
LEMMA WorkerInitial == WorkerInit => WorkerInv
  <1> SUFFICES ASSUME WorkerInit PROVE WorkerInv
    OBVIOUS
  <1> USE DEF WorkerInit, ProcessInit
  <1>1. /\ leader = "unspawned" /\ killed = FALSE /\ timed_out = FALSE /\ result = Nothing
        /\ outcome = Nothing /\ runs = FALSE /\ signal["leader"] = "none"
        /\ \A a \in Actors : pc[a] = "idle"
        /\ handle.cancelled = FALSE /\ handle.cancel_finished = None
    BY DEF Members
  <1>2. OsTyped /\ LoopTyped /\ AdapterTyped
    BY DEF OsTyped, LoopTyped, AdapterTyped, Pcs, Handles, Steps, None, ExitCodes
  <1>3. WorkerTypeOK
    BY <1>2, TypeParts
  <1>4. SpawnInv /\ WaitInv /\ UnreapedInv
    BY <1>1, <1>3, Typed DEF SpawnInv, WaitInv, UnreapedInv
  <1>5. HandleInv /\ FinishInv /\ InFlightInv /\ SignalInv
    BY <1>1, <1>3, Typed DEF HandleInv, FinishInv, InFlightInv, SignalInv, InFlight, None
  <1>6. ResultInv /\ StepRecorded /\ OutcomeInv
    BY <1>1, Distinct DEF ResultInv, StepRecorded, OutcomeInv
  <1> QED BY <1>3, <1>4, <1>5, <1>6 DEF WorkerInv, StopInv

\* The invariant, on either platform and for any number of cancels.
THEOREM WorkerInvariance == WorkerSpec => []WorkerInv
  <1>1. WorkerInit => WorkerInv
    BY WorkerInitial
  <1>2. WorkerInv /\ [WorkerNext]_vars => WorkerInv'
    <2> SUFFICES ASSUME WorkerInv, [WorkerNext]_vars PROVE WorkerInv'
      OBVIOUS
    <2>1. WorkerTypeOK' /\ WorkerTypeOK
      BY TypeStep DEF WorkerInv
    <2> SUFFICES StopInv'
      BY <2>1 DEF WorkerInv
    <2>2. ASSUME NEW a \in Actors, Coroutine(a), UNCHANGED adapterVars PROVE StopInv'
      BY <2>1, <2>2, CoroutineCases, ForceKeeps, EndKeeps, RaiseKeeps
    <2>3. CASE (WaitWakes \/ WaitSettles) /\ UNCHANGED adapterVars
      BY <2>3, WaitKeeps
    <2>4. CASE WaitTimesOut /\ UNCHANGED adapterVars
      BY <2>1, <2>4, DeadlineCases, BeginKeeps, DeadlineTooLateKeeps
    <2>5. CASE StartWorker \/ WorkerStarted \/ WorkerDoesNotStart
      BY <2>5, StartKeeps
    <2>6. CASE Collect
      BY <2>6, CollectKeeps
    <2>7. ASSUME NEW c \in Cancels, Cancel(c) \/ CancelUnknown(c) PROVE StopInv'
      BY <2>1, <2>7, CancelCases, BeginKeeps, CancelTooLateKeeps
    <2>8. CASE /\ \/ LeaderDies \/ ChildDies \/ Reap
                  \/ Fork \/ LeaderExits \/ ChildExits \/ Unstick
               /\ UNCHANGED adapterVars
      BY <2>1, <2>8, OsCases, OsKeeps
    <2>9. CASE UNCHANGED vars
      <3>1. OsStep
        BY <2>9 DEF vars, OsStep, loopVars, adapterVars
      <3> QED BY <3>1, OsKeeps
    <2> QED
      BY <2>2, <2>3, <2>4, <2>5, <2>6, <2>7, <2>8, <2>9
         DEF WorkerNext, Loop, Kernel, Environment
  <1> QED BY <1>1, <1>2, PTL DEF WorkerSpec

\* A worker that one of our signals stopped is never reported as one that merely
\* ended, however many cancels and whenever the deadline (collect).
THEOREM KilledNeverEverSucceeds == WorkerSpec => []KilledNeverSucceeds
  <1>1. WorkerInv => KilledNeverSucceeds
    BY DEF WorkerInv, StopInv, KilledNeverSucceeds, ResultInv, OutcomeInv
  <1> QED BY <1>1, WorkerInvariance, PTL

\* No cancel and no wait returns while the process runs, without the record saying
\* that it could not be reaped (_terminate_windows, _terminate_posix).
THEOREM StoppedAlwaysDead == WorkerSpec => []StoppedMeansDead
  <1>1. WorkerInv => StoppedMeansDead
    BY DEF WorkerInv, StopInv, StoppedMeansDead, UnreapedInv
  <1> QED BY <1>1, WorkerInvariance, PTL

\* The result of a cancelled worker says how it was stopped, and the step recorded
\* is the one that stopped it (ProcessManager.wait, ProcessManager.cancel).
THEOREM StepAlwaysRecorded == WorkerSpec => []StepRecorded
  <1>1. WorkerInv => StepRecorded
    BY DEF WorkerInv, StopInv
  <1> QED BY <1>1, WorkerInvariance, PTL

-----------------------------------------------------------------------------
(* Verification: its invariant *)


\* n commands are configured, and the suites say what each of them does.
SuitesTyped ==
  \E n \in Nat : base \in Suites(n) /\ now \in Suites(n) /\ head \in Suites(n)

\* Where there is a baseline, there is something to verify.
BaselineInv == baseline # << >> => Command # {}

VerificationInv ==
  /\ SuitesTyped /\ rounds \in Nat /\ verified \in BOOLEAN
  /\ BaselineInv
  /\ SeenPassingStaysPassing
  /\ OldFailuresTolerated

-----------------------------------------------------------------------------
(* Running the commands *)

\* A run of the commands of a suite sees every result up to the first failure, or
\* all of them (VerificationRunner.run).
LEMMA CommandResults ==
  ASSUME NEW n \in Nat, DOMAIN base = 1..n, NEW suite \in Suites(n)
  PROVE  LET r == command_results(suite)
         IN  /\ r \in Seq(Process) /\ Len(r) <= n
             /\ \A i \in 1..Len(r) : r[i] = suite[i]
             /\ \A i \in 1..n : Failed(suite[i]) =>
                   /\ Len(r) >= 1 /\ Len(r) <= i
                   /\ Failed(suite[Len(r)])
                   /\ \A j \in 1..(Len(r) - 1) : ~Failed(suite[j])
             /\ (\A i \in 1..n : ~Failed(suite[i])) => Len(r) = n
  <1> DEFINE failing == {i \in Command : Failed(suite[i])}
             r == command_results(suite)
  <1>1. suite \in Seq(Process) /\ Len(suite) = n /\ Command = 1..n
    BY DEF Suites, Command
  <1>2. CASE failing = {}
    <2>1. r = SubSeq(suite, 1, Len(suite))
      BY <1>2, Zenon DEF command_results
    <2>2. r \in Seq(Process) /\ Len(r) = n /\ \A i \in 1..n : r[i] = suite[i]
      BY <1>1, <2>1
    <2>3. \A i \in 1..n : ~Failed(suite[i])
      BY <1>1, <1>2
    <2> HIDE DEF r
    <2>4. /\ r \in Seq(Process) /\ Len(r) <= n
          /\ \A i \in 1..Len(r) : r[i] = suite[i]
          /\ Len(r) = n
      BY <2>2
    <2> QED
      BY <2>3, <2>4 DEF r
  <1>3. CASE failing # {}
    <2> DEFINE f == Min(failing)
    <2>1. failing \in SUBSET Nat
      BY <1>1
    <2>2. f \in failing /\ \A i \in failing : f <= i
      BY <1>3, <2>1, MinOfNats
    <2>3. f \in 1..n /\ Failed(suite[f]) /\ \A i \in 1..n : Failed(suite[i]) => f <= i
      BY <1>1, <2>2
    <2>4. r = SubSeq(suite, 1, f)
      BY <1>3, Zenon DEF command_results
    <2> HIDE DEF f, failing
    <2>5. r \in Seq(Process) /\ Len(r) = f /\ \A i \in 1..f : r[i] = suite[i]
      BY <1>1, <2>3, <2>4
    <2> HIDE DEF r
    <2>6. \A j \in 1..(f - 1) : ~Failed(suite[j])
      BY <2>3
    <2> QED
      BY <2>3, <2>5, <2>6 DEF r
  <1> QED
    BY <1>2, <1>3

\* A run passes exactly if nothing of the suite fails.
LEMMA PassedIsClean ==
  ASSUME NEW n \in Nat, DOMAIN base = 1..n, NEW suite \in Suites(n)
  PROVE  passed(command_results(suite)) <=> \A i \in 1..n : ~Failed(suite[i])
  <1> DEFINE r == command_results(suite)
  <1>1. /\ r \in Seq(Process) /\ Len(r) <= n
        /\ \A i \in 1..Len(r) : r[i] = suite[i]
        /\ \A i \in 1..n : Failed(suite[i]) => Len(r) >= 1 /\ Failed(suite[Len(r)])
    BY CommandResults
  <1> HIDE DEF r
  <1>2. DOMAIN r = 1..Len(r) /\ Len(r) \in Nat
    BY <1>1
  <1>3. ASSUME passed(r), NEW i \in 1..n, Failed(suite[i]) PROVE FALSE
    <2>1. Len(r) \in DOMAIN r /\ Failed(r[Len(r)])
      BY <1>1, <1>2, <1>3
    <2> QED
      BY <1>3, <2>1 DEF passed
  <1>4. ASSUME \A i \in 1..n : ~Failed(suite[i]) PROVE passed(r)
    BY <1>1, <1>2, <1>4 DEF passed
  <1> QED
    BY <1>3, <1>4 DEF r

\* The smaller of two positions.
LEMMA MinOfTwo ==
  ASSUME NEW i \in Nat, NEW j \in Nat
  PROVE  Min({i, j}) = IF i <= j THEN i ELSE j
  <1>1. {i, j} \in SUBSET Nat /\ {i, j} # {}
    OBVIOUS
  <1>2. Min({i, j}) \in {i, j} /\ \A k \in {i, j} : Min({i, j}) <= k
    BY <1>1, MinOfNats
  <1> QED
    BY <1>2

\* The baseline of a suite: the exit code of every command up to the first
\* failure, and that failure's from there on (_verification_baseline).
LEMMA PaddedFacts ==
  ASSUME NEW n \in Nat, DOMAIN base = 1..n, NEW suite \in Suites(n), NEW i \in 1..n
  PROVE  LET r == command_results(suite)
         IN  /\ DOMAIN padded(r) = 1..n
             /\ (\A j \in 1..i : ~Failed(suite[j])) => padded(r)[i] = suite[i].exit_code
             /\ Failed(suite[i]) =>
                   \E j \in 1..n : Failed(suite[j]) /\ padded(r)[i] = suite[j].exit_code
  <1> DEFINE r == command_results(suite)
  <1>1. /\ r \in Seq(Process) /\ Len(r) <= n
        /\ \A j \in 1..Len(r) : r[j] = suite[j]
        /\ \A j \in 1..n : Failed(suite[j]) =>
              Len(r) >= 1 /\ Len(r) <= j /\ Failed(suite[Len(r)])
        /\ (\A j \in 1..n : ~Failed(suite[j])) => Len(r) = n
    BY CommandResults
  <1>2. DOMAIN padded(r) = 1..n /\ padded(r)[i] = r[Min({i, Len(r)})].exit_code
    BY DEF padded, Command
  <1> HIDE DEF r
  <1>3. Len(r) \in Nat
    BY <1>1
  <1>4. Min({i, Len(r)}) = IF i <= Len(r) THEN i ELSE Len(r)
    BY <1>3, MinOfTwo
  <1>5. ASSUME \A j \in 1..i : ~Failed(suite[j]) PROVE padded(r)[i] = suite[i].exit_code
    <2>1. i <= Len(r)
      <3>1. CASE \A j \in 1..n : ~Failed(suite[j])
        BY <1>1, <3>1
      <3>2. CASE \E j \in 1..n : Failed(suite[j])
        <4>1. Len(r) \in 1..n /\ Failed(suite[Len(r)])
          BY <1>1, <1>3, <3>2
        <4>2. ~(Len(r) \in 1..i)
          BY <1>5, <4>1
        <4> QED
          BY <4>1, <4>2
      <3> QED
        BY <3>1, <3>2
    <2> QED
      BY <1>1, <1>2, <1>4, <2>1
  <1>6. ASSUME Failed(suite[i])
        PROVE  \E j \in 1..n : Failed(suite[j]) /\ padded(r)[i] = suite[j].exit_code
    <2>1. Len(r) >= 1 /\ Len(r) <= i /\ Failed(suite[Len(r)])
      BY <1>1, <1>6
    <2>2. Min({i, Len(r)}) = Len(r)
      BY <1>3, <1>4, <2>1
    <2>3. Len(r) \in 1..n /\ r[Len(r)] = suite[Len(r)]
      BY <1>1, <1>3, <2>1
    <2> QED
      BY <1>2, <2>1, <2>2, <2>3
  <1> QED
    BY <1>2, <1>5, <1>6 DEF r
-----------------------------------------------------------------------------
(* The judgement *)

\* Compared with the baseline of the base revision, a round without regressions
\* breaks nothing that revision is seen passing ...
LEMMA NoRegressionKeepsClean ==
  ASSUME NEW n \in Nat, base \in Suites(n), NEW suite \in Suites(n),
         regressions(command_results(suite), padded(command_results(base))) = {}
  PROVE  Clean(base) \subseteq Clean(suite)
  <1> DEFINE r == command_results(suite)
             codes == padded(command_results(base))
  <1>1. DOMAIN base = 1..n
    BY DEF Suites
  <1> SUFFICES ASSUME NEW i \in Clean(base), NEW j \in 1..i, Failed(suite[j]) PROVE FALSE
    BY DEF Clean
  <1>2. i \in 1..n /\ \A k \in 1..i : ~Failed(base[k])
    BY <1>1 DEF Clean, Command
  <1>3. /\ r \in Seq(Process)
        /\ \A k \in 1..Len(r) : r[k] = suite[k]
        /\ Len(r) >= 1 /\ Len(r) <= j /\ Failed(suite[Len(r)])
    BY <1>1, <1>2, CommandResults
  <1> DEFINE f == Len(r)
  <1>4. f \in 1..n /\ f \in 1..i /\ f \in DOMAIN r /\ Failed(r[f])
    BY <1>2, <1>3
  <1> HIDE DEF r, f
  <1>5. codes[f] = base[f].exit_code
    <2>1. \A k \in 1..f : ~Failed(base[k])
      BY <1>2, <1>4
    <2> QED
      BY <1>1, <1>4, <2>1, PaddedFacts
  <1>6. base[f].exit_code = 0
    BY <1>2, <1>4 DEF Failed
  <1> HIDE DEF codes
  <1>7. f \in regressions(r, codes)
    BY <1>4, <1>5, <1>6 DEF regressions
  <1> QED
    BY <1>7 DEF r, codes

\* ... and one that fails only what the base revision fails has no regressions,
\* unless a command of that revision hit its deadline and yet exited 0.
LEMMA OldFailuresNoRegression ==
  ASSUME NEW n \in Nat, base \in Suites(n), NEW suite \in Suites(n),
         \A i \in Command : base[i].timed_out => base[i].exit_code # 0,
         \A i \in Command : Failed(suite[i]) => Failed(base[i])
  PROVE  regressions(command_results(suite), padded(command_results(base))) = {}
  <1> DEFINE r == command_results(suite)
             codes == padded(command_results(base))
  <1>1. DOMAIN base = 1..n /\ Command = 1..n
    BY DEF Suites, Command
  <1>2. /\ r \in Seq(Process) /\ Len(r) <= n
        /\ \A k \in 1..Len(r) : r[k] = suite[k]
    BY <1>1, CommandResults
  <1> HIDE DEF r
  <1> SUFFICES ASSUME NEW i \in DOMAIN r, Failed(r[i])
               PROVE  i \in DOMAIN codes /\ codes[i] # 0
    BY DEF regressions, r
  <1>3. i \in 1..n /\ Failed(suite[i])
    BY <1>2
  <1>4. Failed(base[i])
    BY <1>1, <1>3
  <1>5. /\ DOMAIN codes = 1..n
        /\ \E j \in 1..n : Failed(base[j]) /\ codes[i] = base[j].exit_code
    BY <1>1, <1>3, <1>4, PaddedFacts
  <1> HIDE DEF codes
  <1> QED
    BY <1>1, <1>3, <1>5 DEF Failed

\* A run starts with nothing verified.
LEMMA InitVerificationInv == Init => VerificationInv
  <1> SUFFICES ASSUME Init PROVE VerificationInv
    OBVIOUS
  <1>1. SuitesTyped
    BY NAssumption DEF Init, SuitesTyped
  <1> QED
    BY <1>1 DEF Init, VerificationInv, BaselineInv, SeenPassingStaysPassing,
       OldFailuresTolerated

\* HEAD moving elsewhere changes no judgement.
LEMMA MoveHeadStep ==
  ASSUME VerificationInv, NEW suite \in Suite, MoveHead(suite)
  PROVE  VerificationInv'
  <1>1. PICK n \in Nat : base \in Suites(n) /\ now \in Suites(n) /\ head \in Suites(n)
    BY DEF VerificationInv, SuitesTyped
  <1>2. Suite = Suites(n)
    <2>1. Len(base) = n
      BY <1>1 DEF Suites
    <2> QED
      BY <2>1 DEF Suite
  <1>3. SuitesTyped'
    BY <1>1, <1>2 DEF MoveHead, SuitesTyped
  <1> QED
    BY <1>3 DEF MoveHead, VerificationInv, BaselineInv, SeenPassingStaysPassing,
       OldFailuresTolerated, OfBase, Clean, Command, padded, command_results

\* A round of verification.
LEMMA VerifyStep ==
  ASSUME VerificationInv, NEW suite \in Suite, Verify(suite)
  PROVE  VerificationInv'
  <1> DEFINE r == command_results(suite)
             taken == padded(command_results(head))
             ofbase == padded(command_results(base))
  <1>1. PICK n \in Nat : base \in Suites(n) /\ now \in Suites(n) /\ head \in Suites(n)
    BY DEF VerificationInv, SuitesTyped
  <1>2. suite \in Suites(n) /\ DOMAIN base = 1..n /\ Command = 1..n
    BY <1>1 DEF Suite, Suites, Command
  <1>3. now' = suite /\ UNCHANGED <<base, head>> /\ rounds' = rounds + 1
    BY DEF Verify
  <1>4. SuitesTyped' /\ rounds' \in Nat
    BY <1>1, <1>2, <1>3 DEF SuitesTyped, VerificationInv
  <1>5. /\ Command' = Command
        /\ Clean(base)' = Clean(base)
        /\ Clean(now)' = Clean(suite)
        /\ OfBase' <=> baseline' \in {<< >>, ofbase}
    BY <1>3 DEF Command, Clean, OfBase, padded, command_results
  <1>6. ASSUME ~passed(r) PROVE Command # {}
    BY <1>2, <1>6, PassedIsClean
  <1>7. ASSUME Command # {} PROVE ofbase # << >> /\ taken # << >>
    <2>1. DOMAIN ofbase = Command /\ DOMAIN taken = Command
      BY DEF padded
    <2> QED
      BY <1>7, <2>1
  \* The cases of _run_verification.
  <1>8. CASE Command = {} /\ verified' = FALSE /\ UNCHANGED baseline
    BY <1>4, <1>5, <1>8 DEF VerificationInv, BaselineInv, SeenPassingStaysPassing,
       OldFailuresTolerated
  <1>9. CASE Command # {} /\ passed(r) /\ verified' = TRUE /\ UNCHANGED baseline
    <2>1. \A i \in 1..n : ~Failed(suite[i])
      BY <1>2, <1>9, PassedIsClean
    <2>2. Clean(suite) = Command /\ Clean(base) \subseteq Command
      BY <1>2, <2>1 DEF Clean
    <2> QED
      BY <1>4, <1>5, <1>9, <2>2 DEF VerificationInv, BaselineInv, SeenPassingStaysPassing,
         OldFailuresTolerated
  <1>10. CASE /\ ~passed(r) /\ baseline' # << >>
              /\ verified' = (regressions(r, baseline') = {})
    <2>1. Command # {}
      BY <1>6, <1>10
    <2>2. verified' \in BOOLEAN /\ BaselineInv'
      BY <1>5, <1>10, <2>1 DEF BaselineInv
    <2>3. SeenPassingStaysPassing'
      <3> SUFFICES ASSUME verified', OfBase' PROVE Clean(base) \subseteq Clean(suite)
        BY <1>5, <1>10, <2>1 DEF SeenPassingStaysPassing
      <3>1. baseline' = ofbase
        BY <1>5, <1>10
      <3>2. regressions(r, ofbase) = {}
        BY <1>10, <3>1
      <3> QED
        BY <1>1, <1>2, <3>2, NoRegressionKeepsClean
    <2>4. OldFailuresTolerated'
      <3> SUFFICES ASSUME OfBase',
                          \A i \in Command : base[i].timed_out => base[i].exit_code # 0,
                          \A i \in Command : Failed(suite[i]) => Failed(base[i])
                   PROVE  verified'
        BY <1>3, <1>5 DEF OldFailuresTolerated
      <3>1. baseline' = ofbase
        BY <1>5, <1>10
      <3>2. regressions(r, ofbase) = {}
        BY <1>1, <1>2, OldFailuresNoRegression
      <3> QED
        BY <1>10, <3>1, <3>2
    <2> QED
      BY <1>4, <2>2, <2>3, <2>4 DEF VerificationInv
  <1>11. CASE ~passed(r) /\ baseline = << >> /\ verified' = FALSE /\ UNCHANGED baseline
    BY <1>4, <1>11 DEF VerificationInv, BaselineInv, SeenPassingStaysPassing,
       OldFailuresTolerated
  <1>12. \/ Command = {} /\ verified' = FALSE /\ UNCHANGED baseline
         \/ Command # {} /\ passed(r) /\ verified' = TRUE /\ UNCHANGED baseline
         \/ /\ ~passed(r) /\ baseline # << >>
            /\ verified' = (regressions(r, baseline) = {}) /\ UNCHANGED baseline
         \/ /\ ~passed(r) /\ baseline = << >>
            /\ baseline' = taken /\ verified' = (regressions(r, taken) = {})
         \/ ~passed(r) /\ baseline = << >> /\ verified' = FALSE /\ UNCHANGED baseline
    BY DEF Verify
  <1> HIDE DEF r, taken
  <1> QED
    BY <1>6, <1>7, <1>8, <1>9, <1>10, <1>11, <1>12

\* Both judgements hold of every round, however many commands and rounds there are
\* and wherever HEAD moves.
THEOREM VerificationInvariance == Spec => []VerificationInv
  <1>1. VerificationInv /\ [Next]_verificationVars => VerificationInv'
    <2> SUFFICES ASSUME VerificationInv, [Next]_verificationVars PROVE VerificationInv'
      OBVIOUS
    <2>1. CASE UNCHANGED verificationVars
      BY <2>1 DEF verificationVars, VerificationInv, SuitesTyped, BaselineInv,
         SeenPassingStaysPassing, OldFailuresTolerated, OfBase, Clean, Command, padded, command_results
    <2> QED
      BY <2>1, MoveHeadStep, VerifyStep DEF Next
  <1> QED
    BY <1>1, InitVerificationInv, PTL DEF Spec

\* No verification is passed by a workspace that breaks what the base revision is
\* seen passing.
THEOREM PassingAlwaysStays == Spec => []SeenPassingStaysPassing
  <1>1. VerificationInv => SeenPassingStaysPassing
    BY DEF VerificationInv
  <1> QED
    BY <1>1, VerificationInvariance, PTL

\* A suite that was red before the run does not fail it.
THEOREM OldFailuresAlwaysTolerated == Spec => []OldFailuresTolerated
  <1>1. VerificationInv => OldFailuresTolerated
    BY DEF VerificationInv
  <1> QED
    BY <1>1, VerificationInvariance, PTL
=============================================================================
