--------------------------- MODULE WorkflowRunner ---------------------------
(***************************************************************************)
(* WorkflowRunner (orchestrator/workflow/runner.py) for one run: advance,  *)
(* request_cancel, cancel and decide, and what they do to the stored       *)
(* record, the run's git worktrees and the worker process.                 *)
(*                                                                         *)
(* The server is one asyncio loop, so the code between two awaits runs     *)
(* undisturbed by other requests, but not by a crash.  An action is the    *)
(* code between two awaits or two saves of the record, and pc says where   *)
(* the call in progress stands:                                            *)
(*   idle        no call of this run is in progress                        *)
(*   loop        top of advance's while loop                               *)
(*   starting    awaiting adapter.start                                    *)
(*   collecting  awaiting adapter.collect: the worker runs                 *)
(*   verifying   awaiting the verification commands in the workspace       *)
(*   baseline    awaiting them on the base revision                        *)
(*   outcome     _execute_node has returned or raised                      *)
(*   recorded    the node's artifact has been recorded and saved           *)
(*   releasing   in a terminal phase, worktree released, not yet saved     *)
(*   returned    the call has returned                                     *)
(*   raised      the call has raised                                       *)
(* Other requests are served at idle and at the four awaits only.          *)
(***************************************************************************)
EXTENDS RunRecord

VARIABLES
    disk,        \* the stored record: what store.load returns
    mem,         \* the record object of the call in progress
    pc,          \* where that call stands
    node,        \* the node advance is executing
    outcome,     \* its NodeOutcome
    cancelling,  \* the runner's _cancelling flag
    tree,        \* the run's worktree, in git: absent, unlocked, locked, or still
                 \* locked after an unlock that failed: stuck
    basetree,    \* the baseline worktree: absent, present, branch_only
    worker,      \* the worker process of the node being executed
    verdict      \* per gate node: the human decision its current artifact got,
                 \* as the approval_decided events of the log tell it

runnerVars == <<disk, mem, pc, node, outcome, cancelling, tree, basetree,
                worker, verdict>>

Await == {"starting", "collecting", "verifying", "baseline"}

PC == Await \cup {"idle", "loop", "outcome", "recorded", "releasing",
                  "returned", "raised"}

Outcome == {"none", "ok", "change_request", "failed", "raised"}

Verdict == {"none", "approve", "request_changes", "reject"}

\* alive: the process runs; killed: a cancel has signalled it; resumed: the
\* conversation it was started from.
Worker == [alive : BOOLEAN, killed : BOOLEAN, resumed : SUBSET Node]

NoWorker == [alive |-> FALSE, killed |-> FALSE, resumed |-> {}]

TypeOK ==
    /\ disk \in Record
    /\ mem \in Record
    /\ pc \in PC
    /\ node \in Node \cup {NoNode}
    /\ outcome \in Outcome
    /\ cancelling \in BOOLEAN
    /\ tree \in {"absent", "unlocked", "locked", "stuck"}
    /\ basetree \in {"absent", "present", "branch_only"}
    /\ worker \in Worker
    /\ verdict \in [Node -> Verdict]

\* create_run
RunnerInit ==
    /\ disk = NewRecord
    /\ mem = NewRecord
    /\ pc = "idle"
    /\ node = NoNode
    /\ outcome = "none"
    /\ cancelling = FALSE
    /\ tree = "absent"
    /\ basetree = "absent"
    /\ worker = NoWorker
    /\ verdict = [n \in Node |-> "none"]

-----------------------------------------------------------------------------
(***************************************************************************)
(* How a segment ends.                                                     *)
(***************************************************************************)

\* Faulty variant: a terminal phase does not let go of the worktree.
ReleaseForgotten(r) == UNCHANGED tree

\* _release_worktree: unlocks the worktree the record knows of.  Where git will
\* not, the event worktree_unlock_failed says so, and the run ends all the same.
Release(r) ==
    IF r.worktree /\ tree \in {"locked", "stuck"}
    THEN tree' \in {"unlocked", "stuck"}
    ELSE UNCHANGED tree

\* The record has reached phase r.task_state and will be saved: _transition
\* releases the worktree of a terminal run before the save.
Conclude(r) ==
    /\ mem' = r
    /\ IF is_terminal(r)
       THEN pc' = "releasing" /\ Release(r) /\ UNCHANGED disk
       ELSE pc' = "returned" /\ disk' = r /\ UNCHANGED tree

\* Save a record that is not terminal and carry on at l.
SaveAndGoTo(r, l) == mem' = r /\ disk' = r /\ pc' = l

\* The save that ends a run: after _cancel_now, _fail_without_node or decide.
SaveTerminal ==
    /\ pc = "releasing"
    /\ disk' = mem
    /\ pc' = "returned"
    /\ UNCHANGED <<mem, node, outcome, cancelling, tree, basetree, worker, verdict>>

\* Forget the decisions on artifacts a repair throws away.
ForgetVerdicts == verdict' = [n \in Node |->
                                IF n \in RepairNodes THEN "none" ELSE verdict[n]]

\* _start_repair, then back to the top of the loop.
Repair ==
    /\ SaveAndGoTo(start_repair(mem), "loop")
    /\ ForgetVerdicts
    /\ UNCHANGED tree

\* _fail
Fail == Conclude(fail(mem, "failed")) /\ UNCHANGED verdict

-----------------------------------------------------------------------------
(***************************************************************************)
(* advance: entering it, and the top of its loop.                          *)
(***************************************************************************)

\* A run that has ended or is waiting for a decision is returned untouched.
AdvanceRefused ==
    /\ pc = "idle"
    /\ is_terminal(disk) \/ disk.pending # NoApproval
    /\ pc' = "returned"
    /\ UNCHANGED <<disk, mem, node, outcome, cancelling, tree, basetree,
                   worker, verdict>>

\* Faulty variant: the stored record's phase is not looked at.
BeginAdvanceUnchecked ==
    /\ pc = "idle"
    /\ disk.pending = NoApproval
    /\ mem' = [disk EXCEPT !.task_state = "READY"]
    /\ pc' = "loop"
    /\ UNCHANGED <<disk, node, outcome, cancelling, tree, basetree, worker, verdict>>

BeginAdvance ==
    /\ pc = "idle"
    /\ ~is_terminal(disk) /\ disk.pending = NoApproval
    /\ mem' = [disk EXCEPT !.task_state = IF @ = "PENDING" THEN "READY" ELSE @]
    /\ pc' = "loop"
    /\ UNCHANGED <<disk, node, outcome, cancelling, tree, basetree, worker, verdict>>

\* _finish: no node is left and nobody approved a final result.
FinishGraph ==
    /\ pc = "loop" /\ next_node(mem) = NoNode
    /\ Conclude(fail(mem, "no_final_approval"))
    /\ UNCHANGED <<node, outcome, cancelling, basetree, worker, verdict>>

\* A human node is an approval of the final result.
RequestFinalApproval ==
    /\ pc = "loop" /\ next_node(mem) # NoNode
    /\ is_human(Workflow, next_node(mem))
    /\ SaveAndGoTo(request_approval(mem, next_node(mem), "final_result"), "returned")
    /\ UNCHANGED <<node, outcome, cancelling, tree, basetree, worker, verdict>>

\* The node advance is about to execute, when it is one it executes itself.
Executes(n) == pc = "loop" /\ n = next_node(mem) /\ n # NoNode /\ ~is_human(Workflow, n)

-----------------------------------------------------------------------------
(***************************************************************************)
(* _run_worker.  Every node of a graph that writes shares one worktree,    *)
(* created by the first of them; the record of it is only saved with the   *)
(* next save of the run.                                                   *)
(***************************************************************************)
NeedsTree == has_write_node(Workflow)

CreatesTree == NeedsTree /\ ~mem.worktree

Running(r) == [r EXCEPT !.task_state = enter(@, "RUNNING")]

StartWorker(n) ==
    /\ Executes(n) /\ ~is_verification(Workflow, n)
    /\ CreatesTree => tree = "absent"
    /\ mem' = [Running(mem) EXCEPT !.worktree = NeedsTree]
    /\ tree' = IF CreatesTree THEN "locked" ELSE tree
    /\ node' = n
    /\ worker' = [NoWorker EXCEPT !.resumed = resume_from(mem, n)]
    /\ pc' = "starting"
    /\ UNCHANGED <<disk, outcome, cancelling, basetree, verdict>>

(***************************************************************************)
(* Setting the worker up raises: no adapter, the worktree exists already   *)
(* or git fails (nothing recorded); git adds the worktree and cannot lock  *)
(* it (nothing recorded either); or building the request or arming the     *)
(* containment fails once the worktree is there.                           *)
(***************************************************************************)
SetupRaises(n) ==
    /\ Executes(n) /\ ~is_verification(Workflow, n)
    /\ \/ mem' = Running(mem) /\ UNCHANGED tree
       \/ /\ CreatesTree /\ tree = "absent"
          /\ mem' = Running(mem) /\ tree' = "unlocked"
       \/ /\ CreatesTree /\ tree = "absent"
          /\ mem' = [Running(mem) EXCEPT !.worktree = TRUE] /\ tree' = "locked"
    /\ node' = n
    /\ outcome' = "raised"
    /\ pc' = "outcome"
    /\ UNCHANGED <<disk, cancelling, basetree, worker, verdict>>

\* adapter.start returns a handle: _active is set and collect awaited.
SpawnReturns ==
    /\ pc = "starting"
    /\ worker' = [worker EXCEPT !.alive = TRUE]
    /\ pc' = "collecting"
    /\ UNCHANGED <<disk, mem, node, outcome, cancelling, tree, basetree, verdict>>

SpawnRaises ==
    /\ pc = "starting"
    /\ worker' = NoWorker
    /\ outcome' = "raised"
    /\ pc' = "outcome"
    /\ UNCHANGED <<disk, mem, node, cancelling, tree, basetree, verdict>>

(***************************************************************************)
(* The worker exits, by itself, at its deadline or killed; the outcome is  *)
(* what collect, the containment report and the artifact make of it.       *)
(* "failed" covers a worker that failed and a write outside the workspace; *)
(* "raised" a report or an artifact that could not be read.  The session   *)
(* is kept when the worker names one and was contained.                    *)
(***************************************************************************)
WorkerEnds(o, named) ==
    /\ pc = "collecting"
    /\ mem' = IF named
              THEN [mem EXCEPT !.sessions[Workflow.worker_requirement[node]] =
                                    worker.resumed \cup {node}]
              ELSE mem
    /\ worker' = NoWorker
    /\ outcome' = o
    /\ pc' = "outcome"
    /\ UNCHANGED <<disk, node, cancelling, tree, basetree, verdict>>

-----------------------------------------------------------------------------
(***************************************************************************)
(* _run_verification and _verification_baseline.  How exit codes become a  *)
(* judgement is abstracted to the three cases that decide it: all passed;  *)
(* something failed on a clean baseline (a regression); something failed   *)
(* on a red baseline (a regression or not).                                *)
(***************************************************************************)
Judgement(b) == IF b = "red" THEN {"ok", "failed"} ELSE {"failed"}

\* The commands are started; or there are none, or the claims they are to be
\* compared with cannot be read.
StartVerification(n) ==
    /\ Executes(n) /\ is_verification(Workflow, n)
    /\ mem' = [mem EXCEPT !.task_state = enter(@, "VERIFYING")]
    /\ node' = n
    /\ \/ pc' = "verifying" /\ UNCHANGED outcome
       \/ pc' = "outcome" /\ outcome' \in {"failed", "raised"}
    /\ UNCHANGED <<disk, cancelling, tree, basetree, worker, verdict>>

\* Every command passed - or running them raised.
VerificationPasses ==
    /\ pc = "verifying"
    /\ outcome' \in {"ok", "raised"}
    /\ pc' = "outcome"
    /\ UNCHANGED <<disk, mem, node, cancelling, tree, basetree, worker, verdict>>

\* Something failed and the question is settled without running more: the
\* baseline is known, or none can be taken.
VerificationFails ==
    /\ pc = "verifying"
    /\ outcome' \in Judgement(mem.baseline)
    /\ pc' = "outcome"
    /\ UNCHANGED <<disk, mem, node, cancelling, tree, basetree, worker, verdict>>

\* Something failed and no baseline is known: run the commands on a pristine
\* worktree, if git will make one.
StartBaseline ==
    /\ pc = "verifying"
    /\ mem.baseline = "none" /\ mem.worktree
    /\ basetree = "absent"
    /\ basetree' = "present"
    /\ pc' = "baseline"
    /\ UNCHANGED <<disk, mem, node, outcome, cancelling, tree, worker, verdict>>

\* The baseline is taken and saved - with the rest of the record, phase
\* VERIFYING included - and its worktree removed, which leaves the branch.
BaselineTaken(b, o) ==
    /\ pc = "baseline"
    /\ o \in Judgement(b)
    /\ SaveAndGoTo([mem EXCEPT !.baseline = b], "outcome")
    /\ outcome' = o
    /\ basetree' \in {"branch_only", "present"}
    /\ UNCHANGED <<node, cancelling, tree, worker, verdict>>

\* The commands or the save raise, or the event behind the save; the worktree is
\* removed all the same.
BaselineRaises(b) ==
    /\ pc = "baseline"
    /\ mem' = [mem EXCEPT !.baseline = b]
    /\ disk' \in IF b = "none" THEN {disk} ELSE {disk, mem'}
    /\ outcome' = "raised"
    /\ basetree' \in {"branch_only", "present"}
    /\ pc' = "outcome"
    /\ UNCHANGED <<node, cancelling, tree, worker, verdict>>

-----------------------------------------------------------------------------
(***************************************************************************)
(* advance: what it does with an outcome.                                  *)
(***************************************************************************)


\* _cancel_now, before the outcome is looked at.  Without an edge to CANCELLED
\* the state machine raises out of advance.
CancelNow ==
    /\ pc = "outcome" /\ cancelling
    /\ IF can_transition(mem.task_state, "CANCELLED")
       THEN Conclude(cancelled(mem))
       ELSE pc' = "raised" /\ UNCHANGED <<disk, mem, tree>>
    /\ outcome' = "none"
    /\ UNCHANGED <<node, cancelling, basetree, worker, verdict>>

NodeRaised ==
    /\ pc = "outcome" /\ ~cancelling /\ outcome = "raised"
    /\ Fail
    /\ outcome' = "none"
    /\ UNCHANGED <<node, cancelling, basetree, worker>>

\* Faulty variant: a cancel does not keep a failed node from being repaired.
NodeFailedIgnoringCancel ==
    /\ pc = "outcome" /\ outcome = "failed"
    /\ IF can_repair(mem) THEN Repair ELSE Fail
    /\ outcome' = "none"
    /\ UNCHANGED <<node, cancelling, basetree, worker>>

NodeFailed ==
    /\ pc = "outcome" /\ ~cancelling /\ outcome = "failed"
    /\ IF can_repair(mem) THEN Repair ELSE Fail
    /\ outcome' = "none"
    /\ UNCHANGED <<node, cancelling, basetree, worker>>

\* The node succeeded, or asks for changes: its artifact is recorded and saved.
NodeSucceeded ==
    /\ pc = "outcome" /\ ~cancelling /\ outcome \in {"ok", "change_request"}
    /\ SaveAndGoTo(record_artifact(mem, node), "recorded")
    /\ verdict' = [verdict EXCEPT ![node] = "none"]
    /\ UNCHANGED <<node, outcome, cancelling, tree, basetree, worker>>

ChangesRequested ==
    /\ pc = "recorded" /\ outcome = "change_request"
    /\ IF can_repair(mem) THEN Repair ELSE Fail
    /\ outcome' = "none"
    /\ UNCHANGED <<node, cancelling, basetree, worker>>

\* Faulty variant: the gate after a node is not asked for.
ContinueAfterNodeUngated ==
    /\ pc = "recorded" /\ outcome = "ok"
    /\ pc' = "loop" /\ UNCHANGED <<disk, mem>>
    /\ outcome' = "none"
    /\ UNCHANGED <<node, cancelling, tree, basetree, worker, verdict>>

\* The gate after the node, if it has one; otherwise the next node.
ContinueAfterNode ==
    /\ pc = "recorded" /\ outcome = "ok"
    /\ IF Workflow.approval_after[node] # "none"
       THEN SaveAndGoTo(request_approval(mem, node, Workflow.approval_after[node]),
                        "returned")
       ELSE pc' = "loop" /\ UNCHANGED <<disk, mem>>
    /\ outcome' = "none"
    /\ UNCHANGED <<node, cancelling, tree, basetree, worker, verdict>>

-----------------------------------------------------------------------------
(***************************************************************************)
(* The other entry points.                                                 *)
(***************************************************************************)

\* request_cancel, from another task: the flag, and the kill if the worker's
\* handle is known.
RequestCancel ==
    /\ pc \in Await
    /\ cancelling' = TRUE
    /\ worker' = [worker EXCEPT !.killed = (pc = "collecting")]
    /\ UNCHANGED <<disk, mem, pc, node, outcome, tree, basetree, verdict>>

\* cancel: a run nobody advances.  A phase without the edge makes it raise and
\* changes nothing.
Cancel ==
    /\ pc = "idle"
    /\ ~is_terminal(disk)
    /\ can_transition(disk.task_state, "CANCELLED")
    /\ Conclude(cancelled(disk))
    /\ UNCHANGED <<node, outcome, cancelling, basetree, worker, verdict>>

Answered == [disk EXCEPT !.pending = NoApproval]

Decided(d) ==
    verdict' = [verdict EXCEPT ![disk.pending.node] = d]

\* The record once its approval is answered and it has moved on to phase t;
\* _transition raises, and nothing changes, when the table lacks the edge.
MoveOn(t) ==
    /\ can_transition(disk.task_state, t)
    /\ Conclude([Answered EXCEPT !.task_state = t,
                                 !.failure = IF t = "CANCELLED" THEN "rejected" ELSE @])

\* Faulty variant: any approval completes the run.
ApproveCompletes ==
    /\ pc = "idle" /\ disk.pending # NoApproval
    /\ MoveOn("COMPLETED")
    /\ Decided("approve")
    /\ UNCHANGED <<node, outcome, cancelling, basetree, worker>>

Approve ==
    /\ pc = "idle" /\ disk.pending # NoApproval
    /\ MoveOn(IF disk.pending.kind = "final_result" THEN "COMPLETED" ELSE "READY")
    /\ Decided("approve")
    /\ UNCHANGED <<node, outcome, cancelling, basetree, worker>>

Reject ==
    /\ pc = "idle" /\ disk.pending # NoApproval
    /\ MoveOn("CANCELLED")
    /\ Decided("reject")
    /\ UNCHANGED <<node, outcome, cancelling, basetree, worker>>

\* Within the budget a repair round starts; past it the run is failed, as far
\* as its phase can be.
RequestChanges ==
    /\ pc = "idle" /\ disk.pending # NoApproval
    /\ IF can_repair(disk)
       THEN /\ Conclude(start_repair(Answered))
            /\ verdict' = [n \in Node |->
                              CASE n \in RepairNodes -> "none"
                                [] n = disk.pending.node -> "request_changes"
                                [] OTHER -> verdict[n]]
       ELSE Conclude(fail(Answered, "failed")) /\ Decided("request_changes")
    /\ UNCHANGED <<node, outcome, cancelling, basetree, worker>>

-----------------------------------------------------------------------------
\* One step of advance itself.
AdvanceStep ==
    \/ FinishGraph
    \/ RequestFinalApproval
    \/ \E n \in Node : StartWorker(n) \/ SetupRaises(n) \/ StartVerification(n)
    \/ SpawnReturns
    \/ SpawnRaises
    \/ \E o \in Outcome \ {"none"}, named \in BOOLEAN : WorkerEnds(o, named)
    \/ VerificationPasses
    \/ VerificationFails
    \/ StartBaseline
    \/ \E b \in {"clean", "red"}, o \in {"ok", "failed"} : BaselineTaken(b, o)
    \/ \E b \in Baseline : BaselineRaises(b)
    \/ CancelNow
    \/ NodeRaised
    \/ NodeFailed
    \/ NodeSucceeded
    \/ ChangesRequested
    \/ ContinueAfterNode
    \/ SaveTerminal
=============================================================================
