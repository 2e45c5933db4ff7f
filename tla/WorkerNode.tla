----------------------------- MODULE WorkerNode -----------------------------
(***************************************************************************)
(* The worker nodes of a run that has a worktree, one after the other, as  *)
(* _run_worker (orchestrator/workflow/runner.py) executes them: the write   *)
(* barrier of the run's directory (WriteBarrier,                           *)
(* execution/workspace_guard.py) goes up and down around a process whose    *)
(* log stream_events (workers/cli_base.py) follows and collect reads.  The  *)
(* server may die anywhere and be started again; a process it started does  *)
(* not die with it.                                                        *)
(*                                                                         *)
(* How a process is stopped is CliWorker's subject, what containment        *)
(* reports Workspaces': here both are left open.                           *)
(***************************************************************************)
EXTENDS ProviderOutput

CONSTANTS Platforms,   \* where the server may run
          Texts,       \* the answers a worker may give
          MaxLines,    \* bound on the lines of a log
          MaxNodes,    \* bound on the nodes executed
          MaxCrashes   \* bound on the deaths of the server

ASSUME PlatformsAssumption == Platforms \subseteq {"posix", "windows"}
ASSUME TextsAssumption     == Texts \subseteq Seq(Piece)
ASSUME BoundsAssumption    == {MaxLines, MaxNodes, MaxCrashes} \subseteq Nat

VARIABLES
    platform,
    mode,      \* may entries be created in the run's directory?
    saved,     \* what releasing the barrier will set mode to
    pc,        \* where _run_worker stands
    adapter,   \* the node's adapter, and whether its contract declares identity
    worker,    \* does the node's process run?
    survivor,  \* does anything of the node's ended worker run?
    orphans,   \* why workers run that nobody waits for: "crash", "store"
    log,       \* how many lines the worker's log has
    at_exit,   \* how many it had when wait was done
    stream,    \* stream_events of that log: its state and its position
    result,    \* the ProcessResult, and what disarm reported
    said,      \* the lines collect read for an accepted outcome
    outcome,   \* the NodeOutcome
    left,      \* was the barrier ever left up with nobody to take it down?
    nodes, crashes

barrierVars == <<mode, saved>>
strays      == <<survivor, orphans>>
outputVars  == <<log, at_exit, stream>>
judgeVars   == <<adapter, result, said, outcome>>
bounds      == <<platform, left, nodes, crashes>>
vars == <<barrierVars, pc, worker, strays, outputVars, judgeVars, bounds>>

Adapters == [provider : {"codex", "claude_code"}, declared : BOOLEAN]

\* The lines each CLI may print.
Lines(provider) ==
    IF provider = "codex"
    THEN {Other, Error} \cup {Message(text) : text \in Texts}
    ELSE {Other, Result(TRUE, << >>, NoValue)}
         \cup {Result(FALSE, text, NoValue) : text \in Texts}
         \cup {Result(FALSE, << >>, Value("object", s, "other")) : s \in Sayings}

NoResult  == [exit_code |-> 0, killed |-> FALSE, contained |-> TRUE]
NoOutcome == [state |-> "none", artifact |-> NoValue, change_request |-> FALSE]
Failed    == [NoOutcome EXCEPT !.state = "failed"]
NoStream  == [state |-> "off", position |-> 0]

\* What the server, the operating system and the files hold of the run.  The
\* node's process runs exactly while _run_worker waits for it.
TypeOK ==
    /\ platform \in Platforms
    /\ mode \in {"open", "denied"} /\ saved \in {"open", "denied"}
    /\ pc \in {"idle", "armed", "running", "settled"}
    /\ adapter \in Adapters
    /\ worker \in BOOLEAN /\ survivor \in BOOLEAN
    /\ orphans \subseteq {"crash", "store"}
    /\ worker <=> pc = "running"
    /\ log \in 0..MaxLines /\ at_exit \in 0..log
    /\ stream \in [state : {"off", "on", "ended"}, position : 0..log]
    /\ result \in [exit_code : {0, 1}, killed : BOOLEAN, contained : BOOLEAN]
    /\ said \in Seq(Lines(adapter.provider)) /\ Len(said) <= log
    /\ outcome \in [state : {"none", "failed", "accepted"}, artifact : Values,
                    change_request : BOOLEAN]
    /\ left \in BOOLEAN
    /\ nodes \in 0..MaxNodes /\ crashes \in 0..MaxCrashes

Init ==
    /\ platform \in Platforms
    /\ mode = "open" /\ saved = "open"
    /\ pc = "idle"
    /\ adapter = [provider |-> "codex", declared |-> FALSE]
    /\ worker = FALSE /\ survivor = FALSE /\ orphans = {}
    /\ log = 0 /\ at_exit = 0 /\ stream = NoStream
    /\ result = NoResult /\ said = << >> /\ outcome = NoOutcome
    /\ left = FALSE /\ nodes = 0 /\ crashes = 0

-----------------------------------------------------------------------------
(* WriteBarrier *)

\* Faulty variant: the mode is read after it has been changed.
restored_late == "denied"

\* What release puts back: on POSIX the mode apply found, on Windows the rule
\* is removed, whoever made it.
restored == IF platform = "posix" THEN mode ELSE "open"

\* _run_worker: the barrier goes up around the next node.  As one stream is
\* followed at a time, that waits for the last one to end.
Arm(a) ==
    /\ pc = "idle" /\ nodes < MaxNodes /\ stream.state # "on"
    /\ adapter' = a
    /\ saved' = restored
    /\ mode' = "denied"
    /\ pc' = "armed"
    /\ nodes' = nodes + 1
    /\ log' = 0 /\ at_exit' = 0 /\ stream' = NoStream
    /\ result' = NoResult /\ said' = << >> /\ outcome' = NoOutcome
    /\ survivor' = FALSE                     \* it writes to another log
    /\ UNCHANGED <<worker, orphans, platform, left, crashes>>

\* arm raises and no worker starts: before it changed anything, or after
\* _prove_it_holds has created a file nevertheless, as root can, and taken the
\* rule back.
ArmRaises ==
    /\ pc = "idle" /\ nodes < MaxNodes /\ stream.state # "on"
    /\ mode' \in {mode, restored}
    /\ nodes' = nodes + 1
    /\ outcome' = Failed
    /\ said' = << >>
    /\ UNCHANGED <<saved, pc, worker, platform, adapter, result, left, crashes>>
    /\ UNCHANGED strays /\ UNCHANGED outputVars

\* arm returns, and the store does not take the event that says so: that is
\* before the try, so nothing disarms.
ArmUnrecorded ==
    /\ pc = "idle" /\ nodes < MaxNodes /\ stream.state # "on"
    /\ mode' = "denied"
    /\ left' = TRUE
    /\ nodes' = nodes + 1
    /\ outcome' = Failed
    /\ said' = << >>
    /\ UNCHANGED <<saved, pc, worker, platform, adapter, result, crashes>>
    /\ UNCHANGED strays /\ UNCHANGED outputVars

\* Faulty variant: the barrier comes down as soon as the worker runs.
SpawnedReleasing ==
    /\ pc = "armed"
    /\ pc' = "running" /\ worker' = TRUE
    /\ mode' = saved
    /\ UNCHANGED saved
    /\ UNCHANGED strays /\ UNCHANGED outputVars
    /\ UNCHANGED judgeVars /\ UNCHANGED bounds

\* adapter.start returns.
Spawned ==
    /\ pc = "armed"
    /\ pc' = "running" /\ worker' = TRUE
    /\ UNCHANGED barrierVars /\ UNCHANGED strays /\ UNCHANGED outputVars
    /\ UNCHANGED judgeVars /\ UNCHANGED bounds

\* It raises, having started nothing: the finally disarms.
StartRaises ==
    /\ pc = "armed"
    /\ mode' = saved
    /\ pc' = "idle"
    /\ outcome' = Failed
    /\ UNCHANGED <<saved, worker, adapter, result, said>>
    /\ UNCHANGED strays /\ UNCHANGED outputVars /\ UNCHANGED bounds

\* It returns, and the store does not take the event that says so: the finally
\* disarms, and nobody waits for the worker.
StartUnrecorded ==
    /\ pc = "armed"
    /\ orphans' = orphans \cup {"store"}
    /\ mode' = saved
    /\ pc' = "idle"
    /\ outcome' = Failed
    /\ UNCHANGED <<saved, worker, survivor, adapter, result, said>>
    /\ UNCHANGED outputVars /\ UNCHANGED bounds

-----------------------------------------------------------------------------
(* The process and its log *)

\* The worker prints a line; so may a child that has outlived it.
WriteLine ==
    /\ worker \/ survivor
    /\ log < MaxLines
    /\ log' = log + 1
    /\ UNCHANGED <<at_exit, stream, pc, worker>>
    /\ UNCHANGED barrierVars /\ UNCHANGED strays
    /\ UNCHANGED judgeVars /\ UNCHANGED bounds

\* The process ends, by itself or killed by a cancel or at its deadline - and
\* may exit 0 even then - and the waiter task with it.  A child may be left, and
\* on Windows the process itself where it cannot be reaped.
WorkerEnds(code, killed, leaves) ==
    /\ pc = "running"
    /\ worker' = FALSE
    /\ survivor' = (survivor \/ leaves)
    /\ result' = [exit_code |-> code, killed |-> killed, contained |-> TRUE]
    /\ at_exit' = log
    /\ pc' = "settled"
    /\ UNCHANGED <<orphans, log, stream, adapter, said, outcome>>
    /\ UNCHANGED barrierVars /\ UNCHANGED bounds

StrayExits ==
    /\ \/ survivor /\ survivor' = FALSE /\ UNCHANGED orphans
       \/ /\ \E why \in orphans : orphans' = orphans \ {why}
          /\ UNCHANGED survivor
    /\ UNCHANGED <<pc, worker>> /\ UNCHANGED barrierVars
    /\ UNCHANGED outputVars /\ UNCHANGED judgeVars /\ UNCHANGED bounds

-----------------------------------------------------------------------------
(* CliWorkerAdapter *)

StreamEvents ==
    /\ pc \in {"running", "settled"} /\ stream.state = "off"
    /\ stream' = [state |-> "on", position |-> 0]
    /\ UNCHANGED <<pc, worker, log, at_exit>> /\ UNCHANGED barrierVars
    /\ UNCHANGED strays /\ UNCHANGED judgeVars /\ UNCHANGED bounds

\* Faulty variant: it is over as soon as the waiter is.
PollEndsEarly ==
    /\ stream.state = "on"
    /\ stream' = IF pc # "running" THEN [stream EXCEPT !.state = "ended"]
                 ELSE [stream EXCEPT !.position = log]
    /\ UNCHANGED <<pc, worker, log, at_exit>> /\ UNCHANGED barrierVars
    /\ UNCHANGED strays /\ UNCHANGED judgeVars /\ UNCHANGED bounds

\* One round of its loop: whether the waiter is done is asked before the log is
\* read, and it is over when it was and nothing new was there.
Poll ==
    /\ stream.state = "on" /\ (log > stream.position \/ pc # "running")
    /\ stream' = IF pc # "running" /\ log = stream.position
                 THEN [stream EXCEPT !.state = "ended"]
                 ELSE [stream EXCEPT !.position = log]
    /\ UNCHANGED <<pc, worker, log, at_exit>> /\ UNCHANGED barrierVars
    /\ UNCHANGED strays /\ UNCHANGED judgeVars /\ UNCHANGED bounds

\* collect, the finally's disarm and the judgement of _run_worker.
Collect(lines, contained) ==
    LET cli  == collected(result, parse_output(adapter.provider, lines))
        made == worker_artifact(cli, adapter.declared)
    IN  /\ pc = "settled" /\ Len(lines) = log
        /\ result' = [result EXCEPT !.contained = contained]
        /\ \/ /\ ~contained \/ cli.reported_error \/ result.exit_code # 0
              /\ outcome' = Failed
              /\ UNCHANGED said
           \/ /\ contained /\ ~cli.reported_error /\ result.exit_code = 0
              /\ outcome' = [state |-> "accepted", artifact |-> made,
                             change_request |-> change_request(made)]
              /\ said' = lines
        /\ mode' = saved
        /\ pc' = "idle"
        /\ UNCHANGED <<saved, adapter, worker>> /\ UNCHANGED strays
        /\ UNCHANGED outputVars /\ UNCHANGED bounds

-----------------------------------------------------------------------------

\* The server dies, and with it everything but processes, files and modes.
Crash ==
    /\ crashes < MaxCrashes /\ pc # "idle"
    /\ crashes' = crashes + 1 /\ left' = TRUE
    /\ orphans' = orphans \cup (IF worker THEN {"crash"} ELSE {})
    /\ worker' = FALSE /\ survivor' = FALSE /\ pc' = "idle"
    /\ saved' = "open" /\ stream' = NoStream /\ log' = 0 /\ at_exit' = 0
    /\ result' = NoResult /\ said' = << >> /\ outcome' = NoOutcome
    /\ UNCHANGED <<mode, platform, adapter, nodes>>

Next ==
    \/ \E a \in Adapters : Arm(a)
    \/ ArmRaises \/ ArmUnrecorded \/ Spawned \/ StartRaises \/ StartUnrecorded
    \/ WriteLine \/ StrayExits \/ StreamEvents \/ Poll \/ Crash
    \/ \E code \in {0, 1}, killed, leaves \in BOOLEAN : WorkerEnds(code, killed, leaves)
    \/ \E lines \in [1..log -> Lines(adapter.provider)], contained \in BOOLEAN :
          Collect(lines, contained)

Spec == Init /\ [][Next]_vars

-----------------------------------------------------------------------------

\* A node's result is accepted only if everything vouches for it: the process
\* ended by itself with 0, it wrote nowhere it should not, and the CLI's own last
\* word is that it succeeded - whatever else it printed before or after, and
\* whichever lines were cut (parse_output, collect, _run_worker).  Nor does what is
\* accepted say that another worker, task or run made it, however it was delivered
\* ("a guess that lands in a published artifact is indistinguishable from a fact",
\* _stamp_identity); the adapter's own outcome, which stands in where no JSON is
\* found, has the run_id of the node's request.
AcceptedIsVouched ==
    outcome.state = "accepted" =>
        /\ result.exit_code = 0 /\ ~result.killed /\ result.contained
        /\ Vouched(adapter.provider, said)
        /\ outcome.artifact.claim # "other"
        /\ adapter.declared /\ outcome.artifact.json = "object" =>
              outcome.artifact.claim \in {"ours", "request"}

\* A worker that asks for changes in the runner's words, or says it is blocked, is
\* heard, and none is taken to say so that did not: the run is sent back exactly
\* if the answer's structured result, or else the first JSON value of its text,
\* says so (extract_json, _worker_artifact, _change_request_reason).  Excepted are
\* texts with a bracket before the JSON that opens none, and with a value before
\* a fenced one, where extract_json finds nothing, or another value; and the
\* contract's own words for it, of which ContractVerdictHeard speaks.
VerdictHeard ==
    outcome.state = "accepted" =>
        LET answer == Answer(adapter.provider, said)
        IN  /\ outcome.change_request =>
                  \/ Asks(answer.structured)
                  \/ \E i \in DOMAIN answer.text : Asks(answer.text[i].value)
            /\ Clear(answer) =>
                  outcome.change_request =
                      (Asks(Stated(answer)) /\ Stated(answer).says \notin {"revise", "blocked"})

\* WORKFLOW_SPEC: "Repair is requested when findings require changes" - whichever
\* of the verdicts that review-result.schema.json allows a clear answer has.
ContractVerdictHeard ==
    outcome.state = "accepted" =>
        LET answer == Answer(adapter.provider, said)
        IN  Clear(answer) /\ Asks(Stated(answer)) => outcome.change_request

\* Whoever follows the stream to its end has been given every line that was in
\* the log when the process was done (stream_events), although lines arrive
\* between its rounds until then, and beyond.
StreamComplete == stream.state = "ended" => stream.position >= at_exit

\* As long as a worker runs, nothing can be created beside its worktree - not
\* even by one a dead server left behind, whatever later servers arm and disarm
\* around workers of their own (WriteBarrier).  Three things are excepted: on
\* Windows, where they remove the one rule they share, such an orphan; a worker
\* abandoned because the event of its start could not be stored; and what of a
\* worker outlives wait.
BehindBarrier ==
    /\ worker => mode = "denied"
    /\ "crash" \in orphans /\ platform = "posix" => mode = "denied"

\* Disarming gives the run's directory back as it was created (disarm, release).
\* On POSIX not once the barrier has been left up, by a server that died or by a
\* store that did not take the event containment_armed: from then on every apply
\* finds, and every release restores, the mode that was left.
DisarmReopens ==
    [][ (pc # "idle" /\ pc' = "idle" /\ crashes' = crashes) =>
          mode' = "open" \/ (platform = "posix" /\ left) ]_vars
=============================================================================
