------------------------ MODULE OrchestrationService ------------------------
(***************************************************************************)
(* One run behind the HTTP API: OrchestrationService                       *)
(* (apps/api/app/services/orchestration.py) and the endpoints of           *)
(* apps/api/app/routers/runs.py, driving the WorkflowRunner; and the       *)
(* faults of its environment: the server process crashes and is restarted, *)
(* or a load or save of the record raises.                                 *)
(***************************************************************************)
EXTENDS WorkflowRunner

CONSTANT MaxFaults     \* how many faults a behaviour may contain

ASSUME MaxFaultsNat == MaxFaults \in Nat

VARIABLES
    advancing,   \* is the run in the service's _advancing set?
    registered,  \* has its task begun, and put its runner in _runners?
    orphan,      \* does a worker of a crashed server still run?
    faults       \* faults so far

serviceVars == <<advancing, registered, orphan, faults>>

vars == <<disk, mem, pc, node, outcome, cancelling, tree, basetree, worker,
          verdict, advancing, registered, orphan, faults>>

ServiceTypeOK ==
    /\ TypeOK
    /\ advancing \in BOOLEAN
    /\ registered \in BOOLEAN
    /\ orphan \in BOOLEAN
    /\ faults \in 0..MaxFaults

\* submit_task: the run is created and, if asked, started.
Init ==
    /\ RunnerInit
    /\ advancing \in BOOLEAN
    /\ registered = FALSE
    /\ orphan = FALSE
    /\ faults = 0

-----------------------------------------------------------------------------
(***************************************************************************)
(* Requests.                                                               *)
(***************************************************************************)

\* advance_run and start_advance: the task is created, and runs later.
AdvanceRun ==
    /\ pc = "idle"
    /\ ~is_terminal(disk) /\ disk.pending = NoApproval
    /\ ~advancing
    /\ advancing' = TRUE
    /\ UNCHANGED <<disk, mem, pc, node, outcome, cancelling, tree, basetree,
                   worker, verdict, registered, orphan, faults>>

\* Faulty variant: the runner of an advancing run is not asked; the record is
\* cancelled behind its back.
CancelRunDirectly ==
    /\ ~is_terminal(disk)
    /\ pc \in Await \cup {"idle"}
    /\ disk' = cancelled(disk)
    /\ UNCHANGED <<mem, pc, node, outcome, cancelling, tree, basetree,
                   worker, verdict, advancing, registered, orphan, faults>>

\* cancel_run: through the runner that owns the worker, if there is one.
CancelRun ==
    /\ ~is_terminal(disk)
    /\ IF registered THEN RequestCancel ELSE Cancel
    /\ UNCHANGED serviceVars

\* decide, refused while the run advances.
Decide ==
    /\ ~advancing
    /\ Approve \/ Reject \/ RequestChanges
    /\ UNCHANGED serviceVars

\* The reply to a direct cancel or a decision; a decision that unblocks the
\* run starts advancing it.  An error is only reported.
Reply ==
    /\ pc \in {"returned", "raised"} /\ ~registered
    /\ pc' = "idle"
    /\ mem' = disk
    /\ advancing' = IF /\ pc = "returned"
                       /\ ~is_terminal(disk) /\ disk.pending = NoApproval
                    THEN TRUE ELSE advancing
    /\ UNCHANGED <<disk, node, outcome, cancelling, tree, basetree, worker,
                   verdict, registered, orphan, faults>>

-----------------------------------------------------------------------------
(***************************************************************************)
(* The background task: _advance.                                          *)
(***************************************************************************)
TaskBegins ==
    /\ advancing /\ ~registered
    /\ BeginAdvance \/ AdvanceRefused
    /\ registered' = TRUE
    /\ UNCHANGED <<advancing, orphan, faults>>

\* advance has returned, or raised - which goes on the stored record as a
\* failure, whatever its phase.  The runner and its memory are gone.
TaskEnds ==
    /\ registered /\ pc \in {"returned", "raised"}
    /\ disk' = IF pc = "raised"
               THEN [disk EXCEPT !.failure = "advance_failed"] ELSE disk
    /\ mem' = disk'
    /\ pc' = "idle" /\ node' = NoNode
    /\ outcome' = "none" /\ cancelling' = FALSE
    /\ advancing' = FALSE /\ registered' = FALSE
    /\ UNCHANGED <<tree, basetree, worker, verdict, orphan, faults>>

\* The runner carries on.
RunnerStep == AdvanceStep /\ UNCHANGED serviceVars

-----------------------------------------------------------------------------
(***************************************************************************)
(* Faults.                                                                 *)
(***************************************************************************)

\* Is the next thing the call in progress does a save?
SaveDue ==
    \/ pc \in {"outcome", "releasing"}
    \/ pc = "recorded" /\ (\/ outcome = "change_request"
                           \/ Workflow.approval_after[node] # "none")
    \/ pc = "loop" /\ next_node(mem) # NoNode /\ is_human(Workflow, next_node(mem))

\* The store raises, on a save or on the load the task begins with.
StoreRaises ==
    /\ faults < MaxFaults
    /\ \/ SaveDue /\ UNCHANGED registered
       \/ pc = "idle" /\ advancing /\ ~registered /\ registered' = TRUE
    /\ pc' = "raised"
    /\ faults' = faults + 1
    /\ outcome' = "none"
    /\ UNCHANGED <<disk, mem, node, cancelling, tree, basetree, worker, verdict,
                   advancing, orphan>>

\* The server dies and is started again.  The record, the worktrees and a
\* worker that was running outlive it.
Crash ==
    /\ faults < MaxFaults
    /\ advancing \/ pc # "idle"
    /\ faults' = faults + 1
    /\ mem' = disk
    /\ pc' = "idle" /\ node' = NoNode
    /\ outcome' = "none" /\ cancelling' = FALSE
    /\ worker' = NoWorker
    /\ orphan' \in IF pc = "starting" THEN {TRUE, orphan} ELSE {orphan \/ worker.alive}
    /\ advancing' = FALSE /\ registered' = FALSE
    /\ UNCHANGED <<disk, tree, basetree, verdict>>

OrphanExits ==
    /\ orphan
    /\ orphan' = FALSE
    /\ UNCHANGED <<disk, mem, pc, node, outcome, cancelling, tree, basetree,
                   worker, verdict, advancing, registered, faults>>

-----------------------------------------------------------------------------
Request == AdvanceRun \/ CancelRun \/ Decide

Server == TaskBegins \/ RunnerStep \/ TaskEnds \/ Reply

Next == Request \/ Server \/ StoreRaises \/ Crash \/ OrphanExits

Spec == Init /\ [][Next]_vars

(***************************************************************************)
(* The event loop runs what is ready; a worker ends by itself, by a kill   *)
(* or at node_timeout_seconds, a verification command at its own timeout.  *)
(* Nothing makes a client send a request.                                  *)
(***************************************************************************)
FairSpec == Spec /\ WF_vars(Server)
=============================================================================
