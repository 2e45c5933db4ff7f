------------------------------ MODULE RunRecord ------------------------------
(***************************************************************************)
(* The record of one run (RunRecord in orchestrator/workflow/store.py) and *)
(* the runner's updates of it, as functions from records to records.  What *)
(* happens to the disk, the worktree and the worker is WorkflowRunner's.   *)
(***************************************************************************)
EXTENDS TaskStateMachine, WorkflowDefinition

CONSTANT Workflow       \* the workflow graph the run executes

Node == NodesOf(Workflow)

Order == execution_order(Workflow)

RepairNodes == Replayed(Order, Workflow.isolated)

\* Worker adapters the graph names: the keys of RunRecord.sessions.
Requirement == {Workflow.worker_requirement[n] : n \in Node}

MaxRepairRounds == Workflow.max_repair_rounds

\* The graph was loaded, and the validator accepted it.
ASSUME WorkflowLoaded == IsWorkflow(Workflow)

ASSUME WorkflowValid == valid(Workflow)

-----------------------------------------------------------------------------
\* A pending ApprovalRequest, as far as it decides anything: its type and the
\* node it follows.
Approval == [kind : ApprovalKind, node : Node]

NoApproval == [kind |-> "none", node |-> NoNode]

\* RunRecord.failure by its origin; the text is not modelled.
FailureReason == {"none", "cancelled", "rejected", "failed",
                  "no_final_approval", "advance_failed"}

\* verification_baseline: not taken, every command passed on the base
\* revision, or some command was already failing there.
Baseline == {"none", "clean", "red"}

(***************************************************************************)
(* artifacts[n] is 0 while n has no entry, and otherwise 1 + the repair    *)
(* round the artifact was recorded in (ghost part: the code keeps a file   *)
(* name that is the same in every round).  sessions[r] is the set of nodes *)
(* whose conversation the stored session of worker r carries; {} is none.  *)
(***************************************************************************)
Record ==
    [task_state      : TaskState,
     completed_nodes : SUBSET Node,
     artifacts       : [Node -> 0..(MaxRepairRounds + 1)],
     repair_rounds   : 0..MaxRepairRounds,
     pending         : Approval \cup {NoApproval},
     failure         : FailureReason,
     sessions        : [Requirement -> SUBSET Node],
     worktree        : BOOLEAN,
     baseline        : Baseline]

\* create_run: a fresh RunRecord.
NewRecord ==
    [task_state      |-> "PENDING",
     completed_nodes |-> {},
     artifacts       |-> [n \in Node |-> 0],
     repair_rounds   |-> 0,
     pending         |-> NoApproval,
     failure         |-> "none",
     sessions        |-> [r \in Requirement |-> {}],
     worktree        |-> FALSE,
     baseline        |-> "none"]

is_terminal(r) == r.task_state \in TerminalState

next_node(r) == NextIn(Order, Workflow.depends_on, r.completed_nodes)

-----------------------------------------------------------------------------
(***************************************************************************)
(* Updates.                                                                *)
(***************************************************************************)

\* Faulty variant: one round too many.
can_repair_off_by_one(r) == r.repair_rounds <= MaxRepairRounds

can_repair(r) == r.repair_rounds < MaxRepairRounds

\* Faulty variant: the completed nodes are rolled back, their artifacts kept.
start_repair_keeps_artifacts(r) ==
    [r EXCEPT !.repair_rounds = @ + 1,
              !.completed_nodes = @ \ RepairNodes,
              !.task_state = enter(@, "READY")]

\* Faulty variant: only the repair's entry node is replayed.
start_repair_replays_entry_only(r) ==
    LET entry == Order[RepairEntry(Order, Workflow.isolated)]
    IN  [r EXCEPT !.repair_rounds = @ + 1,
                  !.completed_nodes = @ \ {entry},
                  !.artifacts = [@ EXCEPT ![entry] = 0],
                  !.task_state = enter(@, "READY")]

\* Faulty variant: the round is not counted.
start_repair_uncounted(r) ==
    [r EXCEPT !.completed_nodes = @ \ RepairNodes,
              !.artifacts = [n \in Node |-> IF n \in RepairNodes THEN 0 ELSE @[n]],
              !.task_state = enter(@, "READY")]

(***************************************************************************)
(* _start_repair: count the round, forget everything from the repair entry *)
(* on, and go back to READY - through FAILED_RETRYABLE when the phase has  *)
(* that edge, which a human's request at a gate has not.                   *)
(***************************************************************************)
start_repair(r) ==
    [r EXCEPT !.repair_rounds = @ + 1,
              !.completed_nodes = @ \ RepairNodes,
              !.artifacts = [n \in Node |->
                                IF n \in r.completed_nodes \cap RepairNodes
                                THEN 0 ELSE @[n]],
              !.task_state = IF can_transition(@, "FAILED_RETRYABLE")
                             THEN enter("FAILED_RETRYABLE", "READY")
                             ELSE enter(@, "READY")]

\* _fail_without_node: the phase only becomes FAILED_PERMANENT if it has the
\* edge; otherwise the run keeps its phase and carries a failure.
fail(r, reason) ==
    [r EXCEPT !.failure = reason,
              !.task_state = IF can_transition(@, "FAILED_PERMANENT")
                             THEN "FAILED_PERMANENT" ELSE @]

\* _cancel_now, where the table has the edge to CANCELLED.
cancelled(r) ==
    [r EXCEPT !.pending = NoApproval,
              !.failure = "cancelled",
              !.task_state = "CANCELLED"]

\* _record_artifact
record_artifact(r, n) ==
    [r EXCEPT !.artifacts = [@ EXCEPT ![n] = r.repair_rounds + 1],
              !.completed_nodes = @ \cup {n}]

\* Faulty variant: the phase is left as the last node left it.
request_approval_same_phase(r, n, kind) ==
    [r EXCEPT !.pending = [kind |-> kind, node |-> n]]

\* _request_approval
request_approval(r, n, kind) ==
    [r EXCEPT !.pending = [kind |-> kind, node |-> n],
              !.task_state = enter(@, "WAITING_APPROVAL")]

\* Faulty variant: every node resumes its worker's session.
resume_from_always(r, n) == r.sessions[Workflow.worker_requirement[n]]

\* The session policy of _build_request: what conversation node n continues.
resume_from(r, n) ==
    IF n \in Workflow.new_session
    THEN {}
    ELSE r.sessions[Workflow.worker_requirement[n]]
=============================================================================
