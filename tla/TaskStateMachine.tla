-------------------------- MODULE TaskStateMachine --------------------------
(***************************************************************************)
(* The phases of a run and the edges between them                          *)
(* (orchestrator/state_machine/task_state_machine.py).  The table is a     *)
(* relation: the pairs <<current, target>> the state machine accepts.      *)
(***************************************************************************)

TaskState ==
    {"PENDING", "READY", "RUNNING", "VERIFYING", "WAITING_APPROVAL",
     "COMPLETED", "FAILED_RETRYABLE", "FAILED_PERMANENT", "BLOCKED",
     "CANCELLED", "INTERRUPTED"}

\* RunRecord.is_terminal
TerminalState == {"COMPLETED", "FAILED_PERMANENT", "CANCELLED"}

AllowedTransitions ==
    ({"PENDING"} \X {"READY", "CANCELLED", "BLOCKED"})
    \cup ({"READY"} \X {"RUNNING", "VERIFYING", "WAITING_APPROVAL",
                         "CANCELLED", "BLOCKED"})
    \cup ({"RUNNING"} \X {"VERIFYING", "WAITING_APPROVAL", "FAILED_RETRYABLE",
                          "FAILED_PERMANENT", "CANCELLED", "INTERRUPTED"})
    \cup ({"VERIFYING"} \X {"READY", "WAITING_APPROVAL", "FAILED_RETRYABLE",
                            "FAILED_PERMANENT", "BLOCKED"})
    \cup ({"WAITING_APPROVAL"} \X {"COMPLETED", "READY", "BLOCKED", "CANCELLED"})
    \cup ({"FAILED_RETRYABLE", "INTERRUPTED"}
          \X {"READY", "FAILED_PERMANENT", "CANCELLED"})
    \cup ({"BLOCKED"} \X {"READY", "CANCELLED"})

can_transition(current, target) == <<current, target>> \in AllowedTransitions

(***************************************************************************)
(* WorkflowRunner._enter reaches a phase directly, by staying in it, or    *)
(* through READY; NoPath stands for the WorkflowRunError it raises when    *)
(* there is no such path.                                                  *)
(***************************************************************************)
NoPath == "no path"

enter(current, target) ==
    IF \/ current = target
       \/ can_transition(current, target)
       \/ /\ can_transition(current, "READY")
          /\ can_transition("READY", target)
    THEN target
    ELSE NoPath
=============================================================================
