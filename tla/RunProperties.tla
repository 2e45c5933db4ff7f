---------------------------- MODULE RunProperties ----------------------------
(***************************************************************************)
(* What a run must satisfy, over all interleavings of requests, the        *)
(* background task and faults.                                             *)
(***************************************************************************)
EXTENDS OrchestrationService

(***************************************************************************)
(* Safety, faults included.                                                *)
(***************************************************************************)

\* A record that asks a human for a decision is in WAITING_APPROVAL, and while
\* it does no node executes (advance, _request_approval, decide).
PendingMeansPaused ==
    disk.pending # NoApproval =>
        /\ disk.task_state = "WAITING_APPROVAL"
        /\ pc \in {"idle", "releasing", "returned", "raised"}

\* The completed nodes are always the first k of the execution order: _next_node
\* and the rollback of _start_repair never leave a hole, so no node runs before
\* a node it depends on, nor keeps a result its dependency's repair invalidated.
Prefix(k) == {Order[i] : i \in 1..k}

IsPrefix(r) == \E k \in 0..Len(Order) : r.completed_nodes = Prefix(k)

CompletedIsPrefix == IsPrefix(disk) /\ IsPrefix(mem)

\* Artifacts and completed nodes agree, and what a repair replays was produced in
\* the current round: verification, review and the final gate never see evidence
\* of an earlier round (_record_artifact, _start_repair, _dependency_artifacts).
Current(r) ==
    \A n \in Node :
        /\ n \in r.completed_nodes <=> r.artifacts[n] # 0
        /\ n \in r.completed_nodes \cap RepairNodes
              => r.artifacts[n] = r.repair_rounds + 1

EvidenceIsCurrent == Current(disk) /\ Current(mem)

\* A run that has ended keeps its phase, its work and its repair count, whatever
\* request, task or fault follows (is_terminal in advance, cancel and decide).
TerminalIsFinal ==
    [][is_terminal(disk) => disk' = [disk EXCEPT !.failure = disk'.failure]]_vars

\* A run that has ended, and whose record knows of a worktree, has let go of it or
\* has told that git would not, whatever crash came between the unlocking and the
\* save (_transition, _release_worktree).  A crash before the first save after
\* _worktree_for leaves a locked worktree no record knows of: that one is excepted.
KnownTreeReleased == is_terminal(disk) /\ disk.worktree => tree # "locked"

\* The stored record refines the lifecycle promised to clients (RunLifecycle):
\* in particular a run is completed only by approval of a final result.
Phase(r) ==
    CASE r.task_state = "COMPLETED"        -> "completed"
      [] r.task_state = "FAILED_PERMANENT" -> "failed"
      [] r.task_state = "CANCELLED"        -> "cancelled"
      [] r.pending # NoApproval            -> "waiting"
      [] OTHER                             -> "open"

GateOf(r) == IF r.pending = NoApproval THEN "no gate" ELSE r.pending.kind

Lifecycle ==
    INSTANCE RunLifecycle
    WITH Gate <- ApprovalKind,
         Final <- "final_result",
         MaxRounds <- MaxRepairRounds,
         phase <- Phase(disk),
         gate <- GateOf(disk),
         rounds <- disk.repair_rounds

RefinesLifecycle == Lifecycle!Spec

-----------------------------------------------------------------------------
(***************************************************************************)
(* Safety of an undisturbed server, and of graphs like the shipped one.    *)
(***************************************************************************)

\* A workflow that asks for its final result at its end only, as the shipped one
\* does.  The validator does not insist: approval of a human node in the middle
\* completes the run there and then (_request_approval, decide).
EndsAtFinal ==
    \A n \in Node :
        is_human(Workflow, n) \/ Workflow.approval_after[n] = "final_result"
            => n = Order[Len(Order)]

\* A completed run has every work node done - in the current round, says
\* EvidenceIsCurrent - and its human nodes approved (advance, decide).
CompletionIsEarned ==
    disk.task_state = "COMPLETED" =>
        \A n \in Node :
            IF is_human(Workflow, n)
            THEN verdict[n] = "approve"
            ELSE n \in disk.completed_nodes

\* No node executes behind a gate that was never put to a human.  It holds of a
\* gate a repair replays, and of any other until the first repair (advance,
\* decide); GatesDecided below is what is said of all of them.
Undecided(n) ==
    n \in mem.completed_nodes /\ Workflow.approval_after[n] # "none" /\ verdict[n] = "none"

FirstRoundGated ==
    pc \in Await =>
        \A n \in Node : Undecided(n) => n \notin RepairNodes /\ mem.repair_rounds > 0

\* Once a cancel is accepted the run gets no further: no node is completed, no
\* repair round spent, no human asked, before it stops (request_cancel, advance).
CancelStopsProgress ==
    [][cancelling => /\ disk'.completed_nodes = disk.completed_nodes
                     /\ disk'.repair_rounds = disk.repair_rounds
                     /\ disk'.pending = disk.pending]_vars

\* A workflow in which no worker node can find the conversation of another: of
\* two nodes of one worker each starts afresh, or comes first and is not replayed
\* by a repair.  The validator does not insist on this either.
ByWorker(n) == ~is_human(Workflow, n) /\ ~is_verification(Workflow, n)

Precedes(n, m) == \A i, j \in DOMAIN Order : Order[i] = n /\ Order[j] = m => i < j

SeparateSessions ==
    \A n, m \in Node :
        /\ n # m /\ ByWorker(n) /\ ByWorker(m)
        /\ Workflow.worker_requirement[n] = Workflow.worker_requirement[m]
        => n \in Workflow.new_session \/ (n \notin RepairNodes /\ Precedes(n, m))

\* A worker is only ever started from a conversation of its own node: the
\* reviewer does not inherit another's context, nor a repair the reviewer's
\* (_build_request, RunRecord.sessions).
OwnConversation ==
    pc \in {"starting", "collecting"} => worker.resumed \subseteq {node}

-----------------------------------------------------------------------------
(***************************************************************************)
(* Liveness.                                                               *)
(***************************************************************************)

\* Advancing a run ends: at a gate, in a terminal phase or with a failure.  The
\* repair loop cannot go round for ever, and the run is released for the next
\* request (advance, _advance's finally).
AdvanceEnds == advancing ~> ~advancing


-----------------------------------------------------------------------------
(***************************************************************************)
(* What the documentation says and the code does not do.                   *)
(***************************************************************************)

\* WORKFLOW_SPEC: "Human approves or rejects the plan" - no node executes behind
\* a gate nobody decided.
GatesDecided == pc \in Await => \A n \in Node : ~Undecided(n)
=============================================================================
