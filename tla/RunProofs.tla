----------------------------- MODULE RunProofs -----------------------------
(***************************************************************************)
(* Proofs about a run, for every accepted workflow, every repair budget    *)
(* and any number of faults.                                               *)
(*                                                                         *)
(* The inductive invariant of the first part says in which phases a call   *)
(* can be at each of its points, and how the record it works on is related *)
(* to the stored one.  The second part adds what the service promises on   *)
(* top of it: the stored record implements the lifecycle (Refinement), a   *)
(* run that ended lets go of its worktree, an accepted cancel stops it, no *)
(* worker continues another node's conversation, completion is earned, and *)
(* gates are put to a human.  Each of these has an invariant of its own,   *)
(* and all but the last hold with any number of faults.                    *)
(***************************************************************************)
EXTENDS RunProperties, DefinitionProofs, TLAPS

-----------------------------------------------------------------------------
(* The workflow: what the validator accepted. *)

\* The fields of a workflow that the loader has yielded.
LEMMA WorkflowTyped ==
    /\ NoNode \notin Node
    /\ Workflow.depends_on \in [Node -> SUBSET Node]
    /\ Workflow.worker_requirement \in [Node -> Requirement]
    /\ Workflow.approval_after \in [Node -> ApprovalKind \cup {"none"}]
    /\ Workflow.isolated \subseteq Node
    /\ Workflow.new_session \subseteq Node
    /\ MaxRepairRounds \in Nat
  <1>1. \A n \in Node : Workflow.depends_on[n] \in SUBSET Node
    BY WorkflowValid DEF valid, Node
  <1>2. \A n \in Node : Workflow.worker_requirement[n] \in Requirement
    BY DEF Requirement
  <1>3. Workflow.depends_on = [n \in Node |-> Workflow.depends_on[n]]
    BY WorkflowLoaded DEF IsWorkflow, Node
  <1>4. Workflow.worker_requirement = [n \in Node |-> Workflow.worker_requirement[n]]
    BY WorkflowLoaded DEF IsWorkflow, Node
  <1>5. Workflow.depends_on \in [Node -> SUBSET Node]
    BY <1>1, <1>3
  <1>6. Workflow.worker_requirement \in [Node -> Requirement]
    BY <1>2, <1>4
  <1> QED
    BY <1>5, <1>6, WorkflowLoaded DEF IsWorkflow, Node, MaxRepairRounds

\* Its order is what a topological sort returns: every node once, dependencies first.
LEMMA OrderTopological ==
    /\ Order \in Seq(Node)
    /\ Order # <<>>
    /\ Range(Order) = Node
    /\ \A i, j \in DOMAIN Order : Order[i] = Order[j] => i = j
    /\ \A i, j \in DOMAIN Order :
          Order[i] \in Workflow.depends_on[Order[j]] => i < j
  <1>1. Workflow.declared \in Seq(NodesOf(Workflow)) /\ Workflow.declared # <<>>
    BY WorkflowLoaded DEF IsWorkflow
  <1>2. /\ Order \in Seq(Node) /\ Range(Order) = Node /\ IsInjective(Order)
        /\ \A i, j \in DOMAIN Order :
              Order[i] \in Workflow.depends_on[Order[j]] => i < j
    BY <1>1, WorkflowValid, OrderIsTopological DEF Order, Node
  <1>3. Order # <<>>
    <2>1. PICK n : n \in Node
      <3>1. 1 \in DOMAIN Workflow.declared
        BY <1>1
      <3> QED
        BY <3>1 DEF Node, NodesOf, Range
    <2>2. Range(<<>>) = {}
      BY DEF Range
    <2> QED
      BY <1>2, <2>1, <2>2
  <1> QED
    BY <1>2, <1>3 DEF IsInjective

-----------------------------------------------------------------------------
(* A run. *)

\* Phases in which advance may be at the top of its loop.
Live == {"READY", "RUNNING", "VERIFYING", "WAITING_APPROVAL"}

\* Where advance executes nodes.
Moving == Await \cup {"loop", "outcome", "recorded"}

\* The phases of the stored record, and of the record in memory at each point.
PhaseInv ==
    /\ disk.task_state \in {"PENDING"} \cup Live \cup TerminalState
    /\ pc = "loop" => mem.task_state \in Live
    /\ pc \in {"starting", "collecting"} => mem.task_state = "RUNNING"
    /\ pc \in {"verifying", "baseline"} => mem.task_state = "VERIFYING"
    /\ pc \in {"outcome", "recorded"} => mem.task_state \in {"RUNNING", "VERIFYING"}
    /\ pc = "releasing" => mem.task_state \in TerminalState

\* The node being executed, and what may follow it.
NodeInv ==
    /\ pc \in Await \cup {"outcome", "recorded"} => node \in Node
    /\ pc \in Await \cup {"outcome"} => node = next_node(mem)
    /\ pc = "recorded" => outcome \in {"ok", "change_request"}

\* What the stored record can be, given the record in memory.
LinkInv ==
    /\ disk.pending # NoApproval => disk.task_state = "WAITING_APPROVAL"
    /\ pc \in Moving => /\ disk.task_state \notin TerminalState
                        /\ disk.pending = NoApproval
                        /\ mem.pending = NoApproval
                        /\ mem.repair_rounds = disk.repair_rounds
    /\ pc = "releasing" =>
          /\ disk.task_state \notin TerminalState
          /\ mem.pending = NoApproval
          /\ mem.repair_rounds = disk.repair_rounds
          /\ mem.task_state = "COMPLETED" => /\ disk.pending # NoApproval
                                             /\ disk.pending.kind = "final_result"
          /\ mem.task_state = "FAILED_PERMANENT" => disk.pending = NoApproval

IndInv ==
    /\ ServiceTypeOK
    /\ PhaseInv
    /\ NodeInv
    /\ LinkInv
    /\ EvidenceIsCurrent
    /\ CompletedIsPrefix

-----------------------------------------------------------------------------
(***************************************************************************)
(* The updates of a record.                                                *)
(***************************************************************************)

\* A new run's record is well formed (create_run).
LEMMA NewRecordTyped == NewRecord \in Record
  BY WorkflowTyped DEF NewRecord, Record, NoApproval, TaskState, FailureReason, Baseline

\* _enter reaches every phase a node or a gate needs from every phase advance
\* can be in: its WorkflowRunError is never raised.
LEMMA EnterReaches ==
    ASSUME NEW s \in Live, NEW t \in {"RUNNING", "VERIFYING", "WAITING_APPROVAL"}
    PROVE  enter(s, t) = t
  <1>1. /\ {"RUNNING"} \X {"VERIFYING", "WAITING_APPROVAL"} \subseteq AllowedTransitions
        /\ {"READY"} \X {"RUNNING", "VERIFYING", "WAITING_APPROVAL"} \subseteq AllowedTransitions
        /\ {"VERIFYING"} \X {"READY"} \subseteq AllowedTransitions
        /\ {"WAITING_APPROVAL"} \X {"READY"} \subseteq AllowedTransitions
    BY Zenon DEF AllowedTransitions
  <1> QED
    BY <1>1 DEF Live, enter, can_transition

\* The transition table has the edges a failure or a cancel needs.
LEMMA EndingEdges ==
    /\ can_transition("RUNNING", "FAILED_RETRYABLE")
    /\ can_transition("VERIFYING", "FAILED_RETRYABLE")
    /\ ~can_transition("WAITING_APPROVAL", "FAILED_RETRYABLE")
    /\ can_transition("FAILED_RETRYABLE", "READY")
    /\ can_transition("WAITING_APPROVAL", "READY")
    /\ can_transition("RUNNING", "FAILED_PERMANENT")
    /\ can_transition("VERIFYING", "FAILED_PERMANENT")
    /\ ~can_transition("WAITING_APPROVAL", "FAILED_PERMANENT")
  BY DEF can_transition, AllowedTransitions

\* A repair within the budget counts one round, keeps the pending approval and
\* ends in READY (_start_repair).
LEMMA StartRepairTyped ==
    ASSUME NEW r \in Record, can_repair(r),
           r.task_state \in {"RUNNING", "VERIFYING", "WAITING_APPROVAL"}
    PROVE  /\ start_repair(r) \in Record
           /\ start_repair(r).task_state = "READY"
           /\ start_repair(r).repair_rounds = r.repair_rounds + 1
           /\ start_repair(r).pending = r.pending
           /\ start_repair(r).completed_nodes = r.completed_nodes \ RepairNodes
           /\ start_repair(r).artifacts =
                 [n \in Node |-> IF n \in r.completed_nodes \cap RepairNodes
                                 THEN 0 ELSE r.artifacts[n]]
  <1>1. enter("FAILED_RETRYABLE", "READY") = "READY" /\ enter("WAITING_APPROVAL", "READY") = "READY"
    BY EndingEdges DEF enter
  <1>2. (IF can_transition(r.task_state, "FAILED_RETRYABLE")
         THEN enter("FAILED_RETRYABLE", "READY")
         ELSE enter(r.task_state, "READY")) = "READY"
    BY <1>1, EndingEdges
  <1>3. r.repair_rounds + 1 \in 0..MaxRepairRounds
    BY WorkflowTyped DEF can_repair, Record
  <1>4. [n \in Node |-> IF n \in r.completed_nodes \cap RepairNodes
                        THEN 0 ELSE r.artifacts[n]] \in [Node -> 0..(MaxRepairRounds + 1)]
    BY WorkflowTyped DEF Record
  <1>5. r.completed_nodes \ RepairNodes \in SUBSET Node
    BY DEF Record
  <1> DEFINE done == r.completed_nodes \ RepairNodes
             kept == [n \in Node |-> IF n \in r.completed_nodes \cap RepairNodes
                                     THEN 0 ELSE r.artifacts[n]]
             s == [r EXCEPT !.repair_rounds = r.repair_rounds + 1,
                            !.completed_nodes = done, !.artifacts = kept,
                            !.task_state = "READY"]
  <1>6. start_repair(r) = s
    BY <1>2, Zenon DEF start_repair
  <1> HIDE DEF done, kept
  <1>7. done \in SUBSET Node /\ kept \in [Node -> 0..(MaxRepairRounds + 1)]
    BY <1>4, <1>5 DEF done, kept
  <1>8. /\ s \in Record /\ s.task_state = "READY" /\ s.pending = r.pending
        /\ s.repair_rounds = r.repair_rounds + 1
        /\ s.completed_nodes = done /\ s.artifacts = kept
    BY <1>3, <1>7 DEF Record, TaskState
  <1> QED
    BY <1>6, <1>8 DEF done, kept

\* A failure keeps everything but the reason and, where there is an edge, the
\* phase (_fail_without_node).
LEMMA FailTyped ==
    ASSUME NEW r \in Record, NEW reason \in FailureReason
    PROVE  /\ fail(r, reason) \in Record
           /\ fail(r, reason).task_state \in {r.task_state, "FAILED_PERMANENT"}
           /\ r.task_state \in {"RUNNING", "VERIFYING"}
                 => fail(r, reason).task_state = "FAILED_PERMANENT"
           /\ r.task_state = "WAITING_APPROVAL"
                 => fail(r, reason).task_state = "WAITING_APPROVAL"
           /\ fail(r, reason).pending = r.pending
           /\ fail(r, reason).repair_rounds = r.repair_rounds
           /\ fail(r, reason).completed_nodes = r.completed_nodes
           /\ fail(r, reason).artifacts = r.artifacts
  BY EndingEdges DEF fail, Record, TaskState

\* A cancelled record keeps its work and asks nobody (_cancel_now).
LEMMA CancelledTyped ==
    ASSUME NEW r \in Record
    PROVE  /\ cancelled(r) \in Record
           /\ cancelled(r).task_state = "CANCELLED"
           /\ cancelled(r).pending = NoApproval
           /\ cancelled(r).repair_rounds = r.repair_rounds
           /\ cancelled(r).completed_nodes = r.completed_nodes
           /\ cancelled(r).artifacts = r.artifacts
  BY DEF cancelled, Record, TaskState, FailureReason

\* Recording an artifact completes its node, in the current round
\* (_record_artifact).
LEMMA RecordArtifactTyped ==
    ASSUME NEW r \in Record, NEW n \in Node
    PROVE  /\ record_artifact(r, n) \in Record
           /\ record_artifact(r, n).task_state = r.task_state
           /\ record_artifact(r, n).pending = r.pending
           /\ record_artifact(r, n).repair_rounds = r.repair_rounds
           /\ record_artifact(r, n).completed_nodes = r.completed_nodes \cup {n}
           /\ record_artifact(r, n).artifacts = [r.artifacts EXCEPT ![n] = r.repair_rounds + 1]
  <1> DEFINE kept == [r.artifacts EXCEPT ![n] = r.repair_rounds + 1]
             done == r.completed_nodes \cup {n}
             s == [r EXCEPT !.artifacts = kept, !.completed_nodes = done]
  <1>1. kept \in [Node -> 0..(MaxRepairRounds + 1)] /\ done \in SUBSET Node
    BY WorkflowTyped DEF Record
  <1>2. record_artifact(r, n) = s
    BY Zenon DEF record_artifact
  <1> HIDE DEF kept, done
  <1>3. /\ s \in Record /\ s.task_state = r.task_state /\ s.pending = r.pending
        /\ s.repair_rounds = r.repair_rounds
        /\ s.completed_nodes = done /\ s.artifacts = kept
    BY <1>1 DEF Record
  <1> QED
    BY <1>2, <1>3 DEF kept, done

\* A gate is asked for in WAITING_APPROVAL (_request_approval).
LEMMA RequestApprovalTyped ==
    ASSUME NEW r \in Record, r.task_state \in Live,
           NEW n \in Node, NEW kind \in ApprovalKind
    PROVE  /\ request_approval(r, n, kind) \in Record
           /\ request_approval(r, n, kind).task_state = "WAITING_APPROVAL"
           /\ request_approval(r, n, kind).pending = [kind |-> kind, node |-> n]
           /\ request_approval(r, n, kind).pending # NoApproval
           /\ request_approval(r, n, kind).repair_rounds = r.repair_rounds
           /\ request_approval(r, n, kind).completed_nodes = r.completed_nodes
           /\ request_approval(r, n, kind).artifacts = r.artifacts
  <1>1. enter(r.task_state, "WAITING_APPROVAL") = "WAITING_APPROVAL"
    BY EnterReaches
  <1>2. [kind |-> kind, node |-> n] # NoApproval
    BY DEF ApprovalKind, NoApproval
  <1> QED
    BY <1>1, <1>2 DEF request_approval, Record, TaskState, Approval

-----------------------------------------------------------------------------
(***************************************************************************)
(* What is completed, and in which round.                                  *)
(***************************************************************************)

\* The execution order, as a function on its positions.
LEMMA OrderFacts ==
    /\ Len(Order) \in Nat \ {0}
    /\ DOMAIN Order = 1..Len(Order)
    /\ \A i \in 1..Len(Order) : Order[i] \in Node
    /\ \A n \in Node : \E i \in 1..Len(Order) : Order[i] = n
  BY OrderTopological DEF Range

\* With the first k nodes completed, _next_node returns the node after them:
\* its dependencies precede it, and no earlier node is left.
LEMMA NextAfterPrefix ==
    ASSUME NEW k \in 0..Len(Order), k < Len(Order)
    PROVE  NextIn(Order, Workflow.depends_on, Prefix(k)) = Order[k + 1]
  <1> DEFINE runnable == {i \in DOMAIN Order :
                             /\ Order[i] \notin Prefix(k)
                             /\ Workflow.depends_on[Order[i]] \subseteq Prefix(k)}
  <1>1. k + 1 \in DOMAIN Order
    BY OrderFacts
  <1>2. Order[k + 1] \notin Prefix(k)
    BY <1>1, OrderTopological, OrderFacts DEF Prefix
  <1>3. Workflow.depends_on[Order[k + 1]] \subseteq Prefix(k)
    <2> SUFFICES ASSUME NEW d \in Workflow.depends_on[Order[k + 1]]
                 PROVE  d \in Prefix(k)
      OBVIOUS
    <2>1. d \in Node
      BY <1>1, OrderFacts, WorkflowTyped
    <2>2. PICK i \in 1..Len(Order) : Order[i] = d
      BY <2>1, OrderFacts
    <2>3. i < k + 1
      BY <1>1, <2>2, OrderTopological, OrderFacts
    <2> QED
      BY <2>2, <2>3 DEF Prefix
  <1>4. \A i \in runnable : k + 1 <= i
    BY OrderFacts DEF Prefix
  <1>5. k + 1 \in runnable
    BY <1>1, <1>2, <1>3
  <1>6. Min(runnable) = k + 1
    <2>1. runnable \in SUBSET Nat /\ runnable # {}
      BY <1>5, OrderFacts
    <2>2. Min(runnable) \in runnable /\ Min(runnable) <= k + 1
      BY <2>1, <1>5, MinOfNats
    <2> HIDE DEF runnable
    <2>3. Min(runnable) \in Nat /\ k + 1 <= Min(runnable)
      BY <2>1, <2>2, <1>4
    <2> QED
      BY <2>2, <2>3
  <1> QED
    BY <1>5, <1>6, Zenon DEF NextIn

\* With everything completed there is no next node.
LEMMA NextAfterAll ==
    NextIn(Order, Workflow.depends_on, Prefix(Len(Order))) = NoNode
  <1>1. {i \in DOMAIN Order :
            /\ Order[i] \notin Prefix(Len(Order))
            /\ Workflow.depends_on[Order[i]] \subseteq Prefix(Len(Order))} = {}
    BY OrderFacts DEF Prefix
  <1> QED
    BY <1>1, Zenon DEF NextIn

\* The node advance executes next extends the completed prefix by one.
LEMMA NextNodeExtends ==
    ASSUME NEW r, IsPrefix(r), next_node(r) # NoNode
    PROVE  /\ next_node(r) \in Node
           /\ \E k \in 0..Len(Order) : r.completed_nodes \cup {next_node(r)} = Prefix(k)
  <1>1. PICK k \in 0..Len(Order) : r.completed_nodes = Prefix(k)
    BY DEF IsPrefix
  <1>2. k < Len(Order)
    BY <1>1, NextAfterAll, OrderFacts DEF next_node
  <1>3. next_node(r) = Order[k + 1]
    BY <1>1, <1>2, NextAfterPrefix DEF next_node
  <1>4. Prefix(k) \cup {Order[k + 1]} = Prefix(k + 1)
    BY <1>2, OrderFacts DEF Prefix
  <1> QED
    BY <1>1, <1>2, <1>3, <1>4, OrderFacts

\* A repair replays a suffix of the order.
LEMMA RepairIsSuffix ==
    \E e \in 1..Len(Order) : RepairNodes = {Order[i] : i \in e..Len(Order)}
  <1> DEFINE e == RepairEntry(Order, Workflow.isolated)
             writes == {i \in DOMAIN Order : Order[i] \in Workflow.isolated}
  <1>1. CASE writes = {}
    <2>1. e = 1
      BY <1>1, Zenon DEF RepairEntry
    <2> QED
      BY <2>1, OrderFacts DEF RepairNodes, Replayed
  <1>2. CASE writes # {}
    <2>1. e = Min(writes)
      BY <1>2, Zenon DEF RepairEntry
    <2>2. writes \in SUBSET Nat
      BY OrderFacts
    <2>3. e \in 1..Len(Order)
      <3>1. writes \subseteq 1..Len(Order)
        BY OrderFacts
      <3> HIDE DEF writes, e
      <3> QED
        BY <1>2, <2>1, <2>2, <3>1, MinOfNats
    <2> QED
      BY <2>3 DEF RepairNodes, Replayed
  <1> QED
    BY <1>1, <1>2

\* What a repair leaves completed is a prefix again.
LEMMA RollbackKeepsPrefix ==
    ASSUME NEW k \in 0..Len(Order)
    PROVE  \E j \in 0..Len(Order) : Prefix(k) \ RepairNodes = Prefix(j)
  <1>1. PICK e \in 1..Len(Order) : RepairNodes = {Order[i] : i \in e..Len(Order)}
    BY RepairIsSuffix
  <1> DEFINE j == IF k < e THEN k ELSE e - 1
  <1>2. j \in 0..Len(Order) /\ j <= k /\ j < e
    BY OrderFacts
  <1>3. \A i \in 1..k : Order[i] \notin RepairNodes <=> i <= j
    BY <1>1, OrderFacts, OrderTopological
  <1>4. Prefix(k) \ RepairNodes = Prefix(j)
    BY <1>2, <1>3, OrderFacts DEF Prefix
  <1> QED
    BY <1>2, <1>4

\* Both facts about what a record says was done.
Work(r) == IsPrefix(r) /\ Current(r)

\* s differs from r at most in its phase, failure, sessions, worktree, baseline.
Same(r, s) ==
    /\ s.completed_nodes = r.completed_nodes
    /\ s.artifacts = r.artifacts
    /\ s.repair_rounds = r.repair_rounds
    /\ s.pending = r.pending

\* Work and the next node only depend on what is completed, and when.
LEMMA SameWork ==
    ASSUME NEW r, NEW s, Work(r),
           s.completed_nodes = r.completed_nodes,
           s.artifacts = r.artifacts,
           s.repair_rounds = r.repair_rounds
    PROVE  Work(s) /\ next_node(s) = next_node(r)
  BY DEF Work, IsPrefix, Current, next_node

\* A fresh record has done nothing.
LEMMA NewRecordWork == Work(NewRecord)
  <1>1. NewRecord.completed_nodes = {} /\ \A n \in Node : NewRecord.artifacts[n] = 0
    BY DEF NewRecord
  <1>2. Prefix(0) = {} /\ 0 \in 0..Len(Order)
    BY OrderFacts DEF Prefix
  <1> QED
    BY <1>1, <1>2 DEF Work, IsPrefix, Current

\* A repair leaves a prefix, and nothing of what it replays (_start_repair).
LEMMA StartRepairWork ==
    ASSUME NEW r \in Record, can_repair(r), Work(r),
           r.task_state \in {"RUNNING", "VERIFYING", "WAITING_APPROVAL"}
    PROVE  Work(start_repair(r))
  <1> DEFINE s == start_repair(r)
  <1>1. /\ s.completed_nodes = r.completed_nodes \ RepairNodes
        /\ s.artifacts = [n \in Node |-> IF n \in r.completed_nodes \cap RepairNodes
                                         THEN 0 ELSE r.artifacts[n]]
    BY StartRepairTyped
  <1> HIDE DEF s
  <1>2. IsPrefix(s)
    BY <1>1, RollbackKeepsPrefix DEF Work, IsPrefix
  <1>3. Current(s)
    BY <1>1 DEF Work, Current
  <1> QED
    BY <1>2, <1>3 DEF Work, s

\* Recording the artifact of the next node (_record_artifact).
LEMMA RecordArtifactWork ==
    ASSUME NEW r \in Record, Work(r), next_node(r) \in Node
    PROVE  Work(record_artifact(r, next_node(r)))
  <1> DEFINE s == record_artifact(r, next_node(r))
  <1>1. /\ s.completed_nodes = r.completed_nodes \cup {next_node(r)}
        /\ s.artifacts = [r.artifacts EXCEPT ![next_node(r)] = r.repair_rounds + 1]
        /\ s.repair_rounds = r.repair_rounds
    BY RecordArtifactTyped
  <1> HIDE DEF s
  <1>2. IsPrefix(s)
    BY <1>1, NextNodeExtends, WorkflowTyped DEF Work, IsPrefix
  <1>3. Current(s)
    <2>1. r.artifacts \in [Node -> 0..(MaxRepairRounds + 1)] /\ r.repair_rounds \in Nat
      BY WorkflowTyped DEF Record
    <2> QED
      BY <1>1, <2>1 DEF Work, Current
  <1> QED
    BY <1>2, <1>3 DEF Work, s

-----------------------------------------------------------------------------
(***************************************************************************)
(* The inductive invariant.                                                *)
(***************************************************************************)

\* The phases a stored record can have.
Stored == {"PENDING"} \cup Live \cup TerminalState

\* What the ways a segment ends share: the record in memory becomes the
\* stored one, now or with the next save (_transition, RunStore.save).
LEMMA ConcludeStep ==
    ASSUME NEW STATE r, Conclude(r),
           r \in Record, disk \in Record,
           tree \in {"absent", "unlocked", "locked", "stuck"},
           Work(r), Work(disk),
           disk.task_state \in Stored \ TerminalState,
           disk.pending # NoApproval => disk.task_state = "WAITING_APPROVAL",
           r.task_state \in Stored,
           r.pending # NoApproval => r.task_state = "WAITING_APPROVAL",
           r.task_state \in TerminalState => r.repair_rounds = disk.repair_rounds,
           r.task_state = "COMPLETED" => /\ disk.pending # NoApproval
                                         /\ disk.pending.kind = "final_result",
           r.task_state = "FAILED_PERMANENT" => disk.pending = NoApproval
    PROVE  /\ disk' \in Record /\ mem' \in Record
           /\ pc' \in PC
           /\ tree' \in {"absent", "unlocked", "locked", "stuck"}
           /\ PhaseInv' /\ NodeInv' /\ LinkInv'
           /\ EvidenceIsCurrent' /\ CompletedIsPrefix'
  <1>1. CASE r.task_state \in TerminalState
    <2>1. mem' = r /\ pc' = "releasing" /\ disk' = disk
          /\ tree' \in {"absent", "unlocked", "locked", "stuck"}
      BY <1>1 DEF Conclude, Release, is_terminal
    <2>2. r.pending = NoApproval
      BY <1>1 DEF TerminalState
    <2> QED
      BY <1>1, <2>1, <2>2 DEF PC, Await, PhaseInv, NodeInv, LinkInv, EvidenceIsCurrent,
         CompletedIsPrefix, Work, Moving, Stored
  <1>2. CASE r.task_state \notin TerminalState
    <2>1. mem' = r /\ pc' = "returned" /\ disk' = r /\ tree' = tree
      BY <1>2 DEF Conclude, is_terminal
    <2> QED
      BY <1>2, <2>1 DEF PC, Await, PhaseInv, NodeInv, LinkInv, EvidenceIsCurrent,
         CompletedIsPrefix, Work, Moving, Stored
  <1> QED
    BY <1>1, <1>2

\* A repair round begun by advance (_start_repair).
LEMMA RepairStep ==
    ASSUME IndInv, Repair, can_repair(mem), pc \in {"outcome", "recorded"}
    PROVE  /\ disk' \in Record /\ mem' \in Record /\ pc' \in PC
           /\ verdict' \in [Node -> Verdict] /\ UNCHANGED tree
           /\ PhaseInv' /\ NodeInv' /\ LinkInv'
           /\ EvidenceIsCurrent' /\ CompletedIsPrefix'
  <1> DEFINE r == start_repair(mem)
  <1>1. mem \in Record /\ Work(mem) /\ mem.task_state \in {"RUNNING", "VERIFYING"}
        /\ mem.pending = NoApproval
    BY DEF IndInv, ServiceTypeOK, TypeOK, PhaseInv, LinkInv, Work, EvidenceIsCurrent,
       CompletedIsPrefix, Moving
  <1>2. r \in Record /\ r.task_state = "READY" /\ r.pending = NoApproval /\ Work(r)
    BY <1>1, StartRepairTyped, StartRepairWork
  <1>3. mem' = r /\ disk' = r /\ pc' = "loop"
    BY DEF Repair, SaveAndGoTo
  <1>4. verdict' \in [Node -> Verdict] /\ UNCHANGED tree
    BY DEF Repair, ForgetVerdicts, IndInv, ServiceTypeOK, TypeOK, Verdict
  <1> HIDE DEF r
  <1> QED
    BY <1>2, <1>3, <1>4 DEF PC, Await, Live, PhaseInv, NodeInv, LinkInv, EvidenceIsCurrent,
       CompletedIsPrefix, Work, Moving, TerminalState

\* A failure ends the run from every phase a node executes in (_fail).
LEMMA FailStep ==
    ASSUME IndInv, Fail, pc \in {"outcome", "recorded"}
    PROVE  /\ disk' \in Record /\ mem' \in Record /\ pc' \in PC
           /\ tree' \in {"absent", "unlocked", "locked", "stuck"}
           /\ UNCHANGED verdict
           /\ PhaseInv' /\ NodeInv' /\ LinkInv'
           /\ EvidenceIsCurrent' /\ CompletedIsPrefix'
  <1> DEFINE r == fail(mem, "failed")
  <1>1. /\ mem \in Record /\ Work(mem) /\ mem.task_state \in {"RUNNING", "VERIFYING"}
        /\ disk \in Record /\ Work(disk) /\ disk.task_state \in Stored \ TerminalState
        /\ disk.pending = NoApproval /\ mem.pending = NoApproval
        /\ mem.repair_rounds = disk.repair_rounds
        /\ tree \in {"absent", "unlocked", "locked", "stuck"}
    BY DEF IndInv, ServiceTypeOK, TypeOK, PhaseInv, LinkInv, Work, EvidenceIsCurrent,
       CompletedIsPrefix, Moving, Stored
  <1>2. /\ r \in Record /\ r.task_state = "FAILED_PERMANENT" /\ r.pending = NoApproval
        /\ r.repair_rounds = disk.repair_rounds
        /\ r.completed_nodes = mem.completed_nodes /\ r.artifacts = mem.artifacts
    BY <1>1, FailTyped DEF FailureReason
  <1>3. Work(r)
    BY <1>1, <1>2, SameWork, Zenon
  <1>4. Conclude(r) /\ UNCHANGED verdict
    BY DEF Fail
  <1> HIDE DEF r
  <1> QED
    BY <1>1, <1>2, <1>3, <1>4, ConcludeStep DEF Stored, TerminalState

\* The top of the loop: the end of the graph, and the final gate.
LEMMA FinishGraphStep ==
    ASSUME IndInv, FinishGraph, UNCHANGED serviceVars
    PROVE  IndInv'
  <1> DEFINE r == fail(mem, "no_final_approval")
  <1>1. /\ mem \in Record /\ Work(mem) /\ mem.task_state \in Live
        /\ disk \in Record /\ Work(disk) /\ disk.task_state \in Stored \ TerminalState
        /\ disk.pending = NoApproval /\ mem.pending = NoApproval
        /\ mem.repair_rounds = disk.repair_rounds
        /\ tree \in {"absent", "unlocked", "locked", "stuck"}
    BY DEF IndInv, ServiceTypeOK, TypeOK, PhaseInv, LinkInv, Work, EvidenceIsCurrent,
       CompletedIsPrefix, Moving, Stored, FinishGraph
  <1>2. /\ r \in Record /\ r.task_state \in Live \cup {"FAILED_PERMANENT"}
        /\ r.pending = NoApproval
        /\ r.repair_rounds = disk.repair_rounds
        /\ r.completed_nodes = mem.completed_nodes /\ r.artifacts = mem.artifacts
    BY <1>1, FailTyped DEF FailureReason
  <1>3. Work(r)
    BY <1>1, <1>2, SameWork, Zenon
  <1>4. Conclude(r)
    BY DEF FinishGraph
  <1> HIDE DEF r
  <1>5. /\ disk' \in Record /\ mem' \in Record /\ pc' \in PC
        /\ tree' \in {"absent", "unlocked", "locked", "stuck"}
        /\ PhaseInv' /\ NodeInv' /\ LinkInv' /\ EvidenceIsCurrent' /\ CompletedIsPrefix'
    BY <1>1, <1>2, <1>3, <1>4, ConcludeStep DEF Stored, TerminalState, Live
  <1> QED
    BY <1>5 DEF FinishGraph, IndInv, ServiceTypeOK, TypeOK, serviceVars

\* The run pauses at the final gate with everything before it completed.
LEMMA RequestFinalApprovalStep ==
    ASSUME IndInv, RequestFinalApproval, UNCHANGED serviceVars
    PROVE  IndInv'
  <1> DEFINE r == request_approval(mem, next_node(mem), "final_result")
  <1>1. mem \in Record /\ Work(mem) /\ mem.task_state \in Live
    BY DEF IndInv, ServiceTypeOK, TypeOK, PhaseInv, Work, EvidenceIsCurrent,
       CompletedIsPrefix, RequestFinalApproval
  <1>2. next_node(mem) \in Node
    BY <1>1, NextNodeExtends DEF Work, RequestFinalApproval
  <1>3. /\ r \in Record /\ r.task_state = "WAITING_APPROVAL"
        /\ r.completed_nodes = mem.completed_nodes /\ r.artifacts = mem.artifacts
        /\ r.repair_rounds = mem.repair_rounds
    BY <1>1, <1>2, RequestApprovalTyped DEF ApprovalKind
  <1>4. Work(r)
    BY <1>1, <1>3, SameWork, Zenon
  <1>5. mem' = r /\ disk' = r /\ pc' = "returned"
    BY DEF RequestFinalApproval, SaveAndGoTo
  <1> HIDE DEF r
  <1>6. PhaseInv' /\ NodeInv' /\ LinkInv' /\ EvidenceIsCurrent' /\ CompletedIsPrefix'
    BY <1>3, <1>4, <1>5 DEF Await, Live, PhaseInv, NodeInv, LinkInv, EvidenceIsCurrent,
       CompletedIsPrefix, Work, Moving, TerminalState
  <1> QED
    BY <1>3, <1>5, <1>6 DEF RequestFinalApproval, IndInv, ServiceTypeOK, TypeOK, serviceVars, PC

\* What holds of a call that is about to execute node n.
LEMMA ExecutesFacts ==
    ASSUME IndInv, NEW n \in Node, Executes(n)
    PROVE  /\ mem \in Record /\ Work(mem) /\ mem.task_state \in Live
           /\ mem.pending = NoApproval /\ n = next_node(mem)
  BY DEF IndInv, ServiceTypeOK, TypeOK, PhaseInv, LinkInv, Work, EvidenceIsCurrent,
     CompletedIsPrefix, Moving, Executes

\* Executing node n changes the record in memory, nothing stored and nothing of
\* what is done: all that the invariant asks of the step (_execute_node).
LEMMA ExecutingStep ==
    ASSUME IndInv, NEW n \in Node, Executes(n),
           mem' \in Record, Same(mem, mem'),
           mem'.task_state \in {"RUNNING", "VERIFYING"},
           pc' \in {"starting", "verifying", "outcome"},
           pc' = "starting" => mem'.task_state = "RUNNING",
           pc' = "verifying" => mem'.task_state = "VERIFYING",
           node' = n, UNCHANGED disk
    PROVE  PhaseInv' /\ NodeInv' /\ LinkInv' /\ EvidenceIsCurrent' /\ CompletedIsPrefix'
  <1>1. Work(mem) /\ n = next_node(mem)
    BY ExecutesFacts
  <1>2. Work(mem') /\ next_node(mem') = next_node(mem)
    BY <1>1, SameWork DEF Same
  <1>3. pc = "loop"
    BY DEF Executes
  <1>4. PhaseInv' /\ NodeInv'
    BY <1>1, <1>2 DEF IndInv, PhaseInv, NodeInv, Await
  <1>5. LinkInv'
    BY <1>3 DEF IndInv, LinkInv, Same, Moving, Await
  <1> QED
    BY <1>2, <1>4, <1>5 DEF IndInv, EvidenceIsCurrent, CompletedIsPrefix, Work

\* The record of an executing node is well formed and has done the same work
\* (_enter, _execute_node).
LEMMA RunningTyped ==
    ASSUME NEW r \in Record, r.task_state \in Live, NEW w \in BOOLEAN
    PROVE  /\ Running(r) \in Record
           /\ Running(r).task_state = "RUNNING"
           /\ Same(r, Running(r))
           /\ [Running(r) EXCEPT !.worktree = w] \in Record
           /\ [Running(r) EXCEPT !.worktree = w].task_state = "RUNNING"
           /\ Same(r, [Running(r) EXCEPT !.worktree = w])
  <1>1. enter(r.task_state, "RUNNING") = "RUNNING"
    BY EnterReaches
  <1> QED
    BY <1>1 DEF Running, Record, TaskState, Same

\* A worker node begins: its workspace is resolved and the CLI is being started
\* (_run_worker).
LEMMA StartWorkerStep ==
    ASSUME IndInv, NEW n \in Node, StartWorker(n), UNCHANGED serviceVars
    PROVE  IndInv'
  <1>1. Executes(n) /\ node' = n /\ UNCHANGED disk /\ pc' = "starting"
    BY DEF StartWorker
  <1>2. NeedsTree \in BOOLEAN
    BY DEF NeedsTree, has_write_node
  <1>3. mem' \in Record /\ mem'.task_state = "RUNNING" /\ Same(mem, mem')
    BY <1>1, <1>2, ExecutesFacts, RunningTyped DEF StartWorker
  <1>4. PhaseInv' /\ NodeInv' /\ LinkInv' /\ EvidenceIsCurrent' /\ CompletedIsPrefix'
    BY <1>1, <1>3, ExecutingStep
  <1>5. worker' \in Worker
    <2>1. resume_from(mem, n) \in SUBSET Node
      BY <1>1, ExecutesFacts, WorkflowTyped DEF resume_from, Record
    <2> QED
      BY <2>1 DEF StartWorker, Worker, NoWorker
  <1> QED
    BY <1>1, <1>3, <1>4, <1>5 DEF StartWorker, IndInv, ServiceTypeOK, TypeOK, serviceVars, PC, Await

\* The workspace or the request cannot be built (_run_worker).
LEMMA SetupRaisesStep ==
    ASSUME IndInv, NEW n \in Node, SetupRaises(n), UNCHANGED serviceVars
    PROVE  IndInv'
  <1>1. Executes(n) /\ node' = n /\ UNCHANGED disk /\ pc' = "outcome"
    BY DEF SetupRaises
  <1>2. mem' \in Record /\ mem'.task_state = "RUNNING" /\ Same(mem, mem')
    BY <1>1, ExecutesFacts, RunningTyped DEF SetupRaises
  <1>3. PhaseInv' /\ NodeInv' /\ LinkInv' /\ EvidenceIsCurrent' /\ CompletedIsPrefix'
    BY <1>1, <1>2, ExecutingStep
  <1> QED
    BY <1>1, <1>2, <1>3 DEF SetupRaises, IndInv, ServiceTypeOK, TypeOK, serviceVars, PC, Outcome

\* Verification begins, or is refused for want of commands (_run_verification).
LEMMA StartVerificationStep ==
    ASSUME IndInv, NEW n \in Node, StartVerification(n), UNCHANGED serviceVars
    PROVE  IndInv'
  <1>1. Executes(n) /\ node' = n /\ UNCHANGED disk /\ pc' \in {"verifying", "outcome"}
    BY DEF StartVerification
  <1>2. mem' = [mem EXCEPT !.task_state = "VERIFYING"]
    BY <1>1, ExecutesFacts, EnterReaches DEF StartVerification
  <1>3. mem' \in Record /\ mem'.task_state = "VERIFYING" /\ Same(mem, mem')
    BY <1>1, <1>2, ExecutesFacts DEF Record, TaskState, Same
  <1>4. PhaseInv' /\ NodeInv' /\ LinkInv' /\ EvidenceIsCurrent' /\ CompletedIsPrefix'
    BY <1>1, <1>3, ExecutingStep
  <1> QED
    BY <1>1, <1>3, <1>4
       DEF StartVerification, IndInv, ServiceTypeOK, TypeOK, serviceVars, PC, Await, Outcome

\* The awaits of a node: time passes, the record in memory learns something,
\* and the call goes on to its next await or its outcome.
LEMMA AwaitStep ==
    ASSUME IndInv, pc \in Await, UNCHANGED node,
           mem' \in Record, Same(mem, mem'), mem'.task_state = mem.task_state,
           disk' = disk \/ disk' = mem',
           pc' = "outcome" \/ (pc = "starting" /\ pc' = "collecting")
                           \/ (pc = "verifying" /\ pc' = "baseline")
    PROVE  PhaseInv' /\ NodeInv' /\ LinkInv' /\ EvidenceIsCurrent' /\ CompletedIsPrefix'
  <1>1. Work(mem) /\ Work(disk)
    BY DEF IndInv, EvidenceIsCurrent, CompletedIsPrefix, Work
  <1>2. Work(mem') /\ next_node(mem') = next_node(mem)
    BY <1>1, SameWork DEF Same
  <1>3. mem.task_state \in {"RUNNING", "VERIFYING"}
    BY DEF IndInv, PhaseInv, Await
  <1>4. PhaseInv' /\ NodeInv'
    BY <1>2, <1>3 DEF IndInv, PhaseInv, NodeInv, Await, Live
  <1>5. LinkInv'
    BY <1>3 DEF IndInv, LinkInv, Same, Moving, Await, TerminalState
  <1> QED
    BY <1>1, <1>2, <1>4, <1>5 DEF EvidenceIsCurrent, CompletedIsPrefix, Work

\* The adapter returns the run it started (_run_worker).
LEMMA SpawnReturnsStep ==
    ASSUME IndInv, SpawnReturns, UNCHANGED serviceVars
    PROVE  IndInv'
  <1>1. PhaseInv' /\ NodeInv' /\ LinkInv' /\ EvidenceIsCurrent' /\ CompletedIsPrefix'
    BY AwaitStep DEF SpawnReturns, IndInv, ServiceTypeOK, TypeOK, Await, Same
  <1>2. worker' \in Worker
    BY DEF SpawnReturns, IndInv, ServiceTypeOK, TypeOK, Worker
  <1> QED
    BY <1>1, <1>2 DEF SpawnReturns, IndInv, ServiceTypeOK, TypeOK, serviceVars, PC, Await

\* The adapter cannot start the worker (_run_worker).
LEMMA SpawnRaisesStep ==
    ASSUME IndInv, SpawnRaises, UNCHANGED serviceVars
    PROVE  IndInv'
  <1>1. PhaseInv' /\ NodeInv' /\ LinkInv' /\ EvidenceIsCurrent' /\ CompletedIsPrefix'
    BY AwaitStep DEF SpawnRaises, IndInv, ServiceTypeOK, TypeOK, Await, Same
  <1>2. worker' \in Worker
    BY DEF SpawnRaises, Worker, NoWorker
  <1> QED
    BY <1>1, <1>2 DEF SpawnRaises, IndInv, ServiceTypeOK, TypeOK, serviceVars, PC, Outcome

\* The worker ends: its session is kept and its outcome known (_run_worker).
LEMMA WorkerEndsStep ==
    ASSUME IndInv, NEW o \in Outcome, NEW named \in BOOLEAN, WorkerEnds(o, named),
           UNCHANGED serviceVars
    PROVE  IndInv'
  <1>1. mem \in Record /\ node \in Node /\ worker \in Worker /\ pc = "collecting"
    BY DEF WorkerEnds, IndInv, ServiceTypeOK, TypeOK, NodeInv, Await
  <1>2. mem' \in Record /\ Same(mem, mem') /\ mem'.task_state = mem.task_state
    <2>1. CASE named
      <3> DEFINE told == [mem.sessions EXCEPT ![Workflow.worker_requirement[node]] =
                                                worker.resumed \cup {node}]
      <3>1. mem' = [mem EXCEPT !.sessions = told]
        BY <2>1 DEF WorkerEnds
      <3>2. told \in [Requirement -> SUBSET Node]
        BY <1>1 DEF Record, Worker
      <3> HIDE DEF told
      <3> QED
        BY <1>1, <3>1, <3>2 DEF Record, Same
    <2>2. CASE ~named
      BY <1>1, <2>2 DEF WorkerEnds, Same
    <2> QED
      BY <2>1, <2>2
  <1>3. PhaseInv' /\ NodeInv' /\ LinkInv' /\ EvidenceIsCurrent' /\ CompletedIsPrefix'
    BY <1>1, <1>2, AwaitStep DEF WorkerEnds, Await
  <1>4. worker' \in Worker
    BY DEF WorkerEnds, Worker, NoWorker
  <1> QED
    BY <1>2, <1>3, <1>4 DEF WorkerEnds, IndInv, ServiceTypeOK, TypeOK, serviceVars, PC

\* The verification commands end (_run_verification).
LEMMA VerificationEndsStep ==
    ASSUME IndInv, VerificationPasses \/ VerificationFails, UNCHANGED serviceVars
    PROVE  IndInv'
  <1>1. PhaseInv' /\ NodeInv' /\ LinkInv' /\ EvidenceIsCurrent' /\ CompletedIsPrefix'
    BY AwaitStep DEF VerificationPasses, VerificationFails, IndInv, ServiceTypeOK, TypeOK,
       Await, Same
  <1>2. outcome' \in Outcome
    BY DEF VerificationPasses, VerificationFails, Judgement, Outcome
  <1> QED
    BY <1>1, <1>2 DEF VerificationPasses, VerificationFails, IndInv, ServiceTypeOK, TypeOK,
       serviceVars, PC

\* A failed verification measures the base commit (_verification_baseline).
LEMMA StartBaselineStep ==
    ASSUME IndInv, StartBaseline, UNCHANGED serviceVars
    PROVE  IndInv'
  <1>1. PhaseInv' /\ NodeInv' /\ LinkInv' /\ EvidenceIsCurrent' /\ CompletedIsPrefix'
    BY AwaitStep DEF StartBaseline, IndInv, ServiceTypeOK, TypeOK, Await, Same
  <1> QED
    BY <1>1 DEF StartBaseline, IndInv, ServiceTypeOK, TypeOK, serviceVars, PC, Await

\* The baseline is known, or cannot be taken (_verification_baseline).
LEMMA BaselineEndsStep ==
    ASSUME IndInv, NEW b \in Baseline,
           (\E o \in Outcome : BaselineTaken(b, o)) \/ BaselineRaises(b),
           UNCHANGED serviceVars
    PROVE  IndInv'
  <1>1. pc = "baseline" /\ mem \in Record /\ mem' = [mem EXCEPT !.baseline = b]
        /\ (disk' = disk \/ disk' = mem') /\ pc' = "outcome"
    BY DEF BaselineTaken, BaselineRaises, SaveAndGoTo, IndInv, ServiceTypeOK, TypeOK
  <1>2. mem' \in Record /\ Same(mem, mem') /\ mem'.task_state = mem.task_state
    BY <1>1 DEF Record, Same
  <1>3. PhaseInv' /\ NodeInv' /\ LinkInv' /\ EvidenceIsCurrent' /\ CompletedIsPrefix'
    BY <1>1, <1>2, AwaitStep DEF BaselineTaken, BaselineRaises, Await
  <1>4. /\ outcome' \in Outcome /\ basetree' \in {"absent", "present", "branch_only"}
        /\ UNCHANGED <<node, cancelling, tree, worker, verdict>>
    BY DEF BaselineTaken, BaselineRaises, Outcome
  <1> QED
    BY <1>1, <1>2, <1>3, <1>4 DEF IndInv, ServiceTypeOK, TypeOK, serviceVars, PC

\* The outcome of a node (advance).
LEMMA CancelNowStep ==
    ASSUME IndInv, CancelNow, UNCHANGED serviceVars
    PROVE  IndInv'
  <1> DEFINE r == cancelled(mem)
  <1>1. /\ mem \in Record /\ Work(mem) /\ disk \in Record /\ Work(disk)
        /\ disk.task_state \in Stored \ TerminalState
        /\ disk.pending # NoApproval => disk.task_state = "WAITING_APPROVAL"
        /\ mem.repair_rounds = disk.repair_rounds
        /\ tree \in {"absent", "unlocked", "locked", "stuck"}
    BY DEF IndInv, ServiceTypeOK, TypeOK, PhaseInv, LinkInv, Work, EvidenceIsCurrent,
       CompletedIsPrefix, Moving, Stored, CancelNow
  <1>2. CASE can_transition(mem.task_state, "CANCELLED")
    <2>1. /\ r \in Record /\ r.task_state = "CANCELLED" /\ r.pending = NoApproval
          /\ r.repair_rounds = mem.repair_rounds
          /\ r.completed_nodes = mem.completed_nodes /\ r.artifacts = mem.artifacts
      BY <1>1, CancelledTyped
    <2>2. Work(r)
      BY <1>1, <2>1, SameWork, Zenon
    <2>3. Conclude(r)
      BY <1>2 DEF CancelNow
    <2> HIDE DEF r
    <2>4. /\ disk' \in Record /\ mem' \in Record /\ pc' \in PC
          /\ tree' \in {"absent", "unlocked", "locked", "stuck"}
          /\ PhaseInv' /\ NodeInv' /\ LinkInv' /\ EvidenceIsCurrent' /\ CompletedIsPrefix'
      BY <1>1, <2>1, <2>2, <2>3, ConcludeStep DEF Stored, TerminalState
    <2> QED
      BY <2>4 DEF CancelNow, IndInv, ServiceTypeOK, TypeOK, serviceVars, Outcome
  <1>3. CASE ~can_transition(mem.task_state, "CANCELLED")
    <2>1. pc' = "raised" /\ UNCHANGED <<disk, mem, tree>>
      BY <1>3 DEF CancelNow
    <2>2. PhaseInv' /\ NodeInv' /\ LinkInv' /\ EvidenceIsCurrent' /\ CompletedIsPrefix'
      BY <2>1 DEF IndInv, PhaseInv, NodeInv, LinkInv, EvidenceIsCurrent, CompletedIsPrefix,
         IsPrefix, Current, Await, Moving
    <2> QED
      BY <2>1, <2>2 DEF CancelNow, IndInv, ServiceTypeOK, TypeOK, serviceVars, Outcome, PC
  <1> QED
    BY <1>2, <1>3

\* A node that raised or failed: a repair, or the end of the run (advance).
LEMMA NodeEndsBadlyStep ==
    ASSUME IndInv, NodeRaised \/ NodeFailed \/ ChangesRequested, UNCHANGED serviceVars
    PROVE  IndInv'
  <1>1. /\ pc \in {"outcome", "recorded"}
        /\ Fail \/ (Repair /\ can_repair(mem))
        /\ outcome' = "none" /\ UNCHANGED <<node, cancelling, basetree, worker>>
    BY DEF NodeRaised, NodeFailed, ChangesRequested
  <1>2. /\ disk' \in Record /\ mem' \in Record /\ pc' \in PC
        /\ tree' \in {"absent", "unlocked", "locked", "stuck"} /\ verdict' \in [Node -> Verdict]
        /\ PhaseInv' /\ NodeInv' /\ LinkInv' /\ EvidenceIsCurrent' /\ CompletedIsPrefix'
    BY <1>1, RepairStep, FailStep DEF IndInv, ServiceTypeOK, TypeOK
  <1> QED
    BY <1>1, <1>2 DEF IndInv, ServiceTypeOK, TypeOK, serviceVars, Outcome

\* A node that succeeded has its artifact recorded (_record_artifact).
LEMMA NodeSucceededStep ==
    ASSUME IndInv, NodeSucceeded, UNCHANGED serviceVars
    PROVE  IndInv'
  <1> DEFINE r == record_artifact(mem, node)
  <1>1. /\ mem \in Record /\ Work(mem) /\ node \in Node /\ node = next_node(mem)
        /\ mem.task_state \in {"RUNNING", "VERIFYING"} /\ mem.pending = NoApproval
    BY DEF NodeSucceeded, IndInv, ServiceTypeOK, TypeOK, PhaseInv, NodeInv, LinkInv, Work,
       EvidenceIsCurrent, CompletedIsPrefix, Moving
  <1>2. r \in Record /\ r.task_state = mem.task_state /\ r.pending = NoApproval
    BY <1>1, RecordArtifactTyped
  <1>3. Work(r)
    BY <1>1, RecordArtifactWork
  <1>4. /\ mem' = r /\ disk' = r /\ pc' = "recorded" /\ UNCHANGED <<node, outcome>>
        /\ outcome \in {"ok", "change_request"}
    BY DEF NodeSucceeded, SaveAndGoTo
  <1>5. verdict' \in [Node -> Verdict]
    BY DEF NodeSucceeded, IndInv, ServiceTypeOK, TypeOK, Verdict
  <1> HIDE DEF r
  <1>6. PhaseInv' /\ NodeInv' /\ LinkInv' /\ EvidenceIsCurrent' /\ CompletedIsPrefix'
    BY <1>1, <1>2, <1>3, <1>4 DEF PhaseInv, NodeInv, LinkInv, EvidenceIsCurrent,
       CompletedIsPrefix, Work, Moving, Await, Live, TerminalState
  <1> QED
    BY <1>2, <1>4, <1>5, <1>6 DEF NodeSucceeded, IndInv, ServiceTypeOK, TypeOK, serviceVars, PC

\* After its artifact: a repair for a reviewer, a gate, or the next node (advance).
LEMMA ContinueAfterNodeStep ==
    ASSUME IndInv, ContinueAfterNode, UNCHANGED serviceVars
    PROVE  IndInv'
  <1> DEFINE r == request_approval(mem, node, Workflow.approval_after[node])
  <1>1. /\ mem \in Record /\ Work(mem) /\ node \in Node
        /\ mem.task_state \in {"RUNNING", "VERIFYING"}
    BY DEF ContinueAfterNode, IndInv, ServiceTypeOK, TypeOK, PhaseInv, NodeInv, Work,
       EvidenceIsCurrent, CompletedIsPrefix
  <1>2. CASE Workflow.approval_after[node] # "none"
    <2>1. Workflow.approval_after[node] \in ApprovalKind
      BY <1>1, <1>2, WorkflowTyped
    <2>2. /\ r \in Record /\ r.task_state = "WAITING_APPROVAL"
          /\ r.completed_nodes = mem.completed_nodes /\ r.artifacts = mem.artifacts
          /\ r.repair_rounds = mem.repair_rounds
      BY <1>1, <2>1, RequestApprovalTyped DEF Live
    <2>3. Work(r)
      BY <1>1, <2>2, SameWork, Zenon
    <2>4. mem' = r /\ disk' = r /\ pc' = "returned"
      BY <1>2 DEF ContinueAfterNode, SaveAndGoTo
    <2> HIDE DEF r
    <2>5. PhaseInv' /\ NodeInv' /\ LinkInv' /\ EvidenceIsCurrent' /\ CompletedIsPrefix'
      BY <2>2, <2>3, <2>4 DEF Await, Live, PhaseInv, NodeInv, LinkInv, EvidenceIsCurrent,
         CompletedIsPrefix, Work, Moving, TerminalState
    <2> QED
      BY <2>2, <2>4, <2>5 DEF ContinueAfterNode, IndInv, ServiceTypeOK, TypeOK, serviceVars,
         PC, Outcome
  <1>3. CASE Workflow.approval_after[node] = "none"
    <2>1. pc = "recorded" /\ pc' = "loop" /\ UNCHANGED <<disk, mem>>
      BY <1>3 DEF ContinueAfterNode
    <2>2. PhaseInv' /\ NodeInv' /\ LinkInv' /\ EvidenceIsCurrent' /\ CompletedIsPrefix'
      BY <1>1, <2>1 DEF IndInv, PhaseInv, NodeInv, LinkInv, EvidenceIsCurrent,
         CompletedIsPrefix, IsPrefix, Current, Await, Moving, Live
    <2> QED
      BY <2>1, <2>2 DEF ContinueAfterNode, IndInv, ServiceTypeOK, TypeOK, serviceVars, PC, Outcome
  <1> QED
    BY <1>2, <1>3

\* The save that ends a run.
LEMMA SaveTerminalStep ==
    ASSUME IndInv, SaveTerminal, UNCHANGED serviceVars
    PROVE  IndInv'
  <1>1. pc = "releasing" /\ disk' = mem /\ mem' = mem /\ pc' = "returned"
    BY DEF SaveTerminal
  <1>2. PhaseInv' /\ NodeInv' /\ LinkInv' /\ EvidenceIsCurrent' /\ CompletedIsPrefix'
    BY <1>1 DEF IndInv, PhaseInv, NodeInv, LinkInv, EvidenceIsCurrent, CompletedIsPrefix,
       IsPrefix, Current, Await, Moving, Stored
  <1> QED
    BY <1>1, <1>2 DEF SaveTerminal, IndInv, ServiceTypeOK, TypeOK, serviceVars, PC

\* Every step of advance preserves the invariant.
LEMMA RunnerStepPreserves ==
    ASSUME IndInv, RunnerStep
    PROVE  IndInv'
  <1>1. {"clean", "red"} \subseteq Baseline /\ {"ok", "failed"} \subseteq Outcome
    BY DEF Baseline, Outcome
  <1> QED
    BY <1>1, FinishGraphStep, RequestFinalApprovalStep, StartWorkerStep, SetupRaisesStep,
       StartVerificationStep, SpawnReturnsStep, SpawnRaisesStep, WorkerEndsStep,
       VerificationEndsStep, StartBaselineStep, BaselineEndsStep, CancelNowStep,
       NodeEndsBadlyStep, NodeSucceededStep, ContinueAfterNodeStep, SaveTerminalStep
       DEF RunnerStep, AdvanceStep

-----------------------------------------------------------------------------
(***************************************************************************)
(* Requests, the background task and faults.                               *)
(***************************************************************************)

\* A step that leaves both records alone, and the call at rest or where it was.
LEMMA QuietStep ==
    ASSUME IndInv, UNCHANGED <<disk, mem>>,
           \/ UNCHANGED <<pc, node, outcome>>
           \/ pc' \in {"idle", "returned", "raised"}
    PROVE  PhaseInv' /\ NodeInv' /\ LinkInv' /\ EvidenceIsCurrent' /\ CompletedIsPrefix'
  BY DEF IndInv, PhaseInv, NodeInv, LinkInv, EvidenceIsCurrent, CompletedIsPrefix,
     IsPrefix, Current, next_node, Await, Moving

\* The end of a task, a reply or a crash: memory is what is stored, but for a
\* failure noted on the stored record.
LEMMA ForgetStep ==
    ASSUME IndInv, NEW f \in FailureReason,
           disk' = [disk EXCEPT !.failure = f], mem' = disk', pc' = "idle"
    PROVE  /\ disk' \in Record /\ mem' \in Record
           /\ PhaseInv' /\ NodeInv' /\ LinkInv' /\ EvidenceIsCurrent' /\ CompletedIsPrefix'
  <1>1. disk \in Record /\ Work(disk)
    BY DEF IndInv, ServiceTypeOK, TypeOK, Work, EvidenceIsCurrent, CompletedIsPrefix
  <1>2. /\ disk' \in Record /\ Same(disk, disk') /\ disk'.task_state = disk.task_state
    BY <1>1 DEF Record, Same
  <1>3. Work(disk')
    BY <1>1, <1>2, SameWork DEF Same
  <1> QED
    BY <1>2, <1>3 DEF IndInv, PhaseInv, NodeInv, LinkInv, EvidenceIsCurrent,
       CompletedIsPrefix, Work, Same, Await, Moving

\* The advance task starts from the stored record (start_advance, advance).
LEMMA TaskBeginsStep ==
    ASSUME IndInv, TaskBegins
    PROVE  IndInv'
  <1>1. CASE AdvanceRefused
    <2>1. PhaseInv' /\ NodeInv' /\ LinkInv' /\ EvidenceIsCurrent' /\ CompletedIsPrefix'
      BY <1>1, QuietStep DEF AdvanceRefused
    <2> QED
      BY <1>1, <2>1 DEF TaskBegins, AdvanceRefused, IndInv, ServiceTypeOK, TypeOK, PC
  <1>2. CASE BeginAdvance
    <2> DEFINE t == IF disk.task_state = "PENDING" THEN "READY" ELSE disk.task_state
    <2>1. /\ disk \in Record /\ Work(disk) /\ disk.task_state \in Stored \ TerminalState
          /\ disk.pending = NoApproval
      BY <1>2 DEF BeginAdvance, IndInv, ServiceTypeOK, TypeOK, PhaseInv, Stored, is_terminal,
         Work, EvidenceIsCurrent, CompletedIsPrefix
    <2>2. mem' = [disk EXCEPT !.task_state = t] /\ t \in Live /\ disk' = disk /\ pc' = "loop"
      BY <1>2, <2>1 DEF BeginAdvance, Stored, Live
    <2> HIDE DEF t
    <2>3. mem' \in Record /\ Same(disk, mem') /\ mem'.task_state \in Live
      BY <2>1, <2>2 DEF Record, Same, TaskState, Live
    <2>4. Work(mem')
      BY <2>1, <2>3, SameWork DEF Same
    <2>5. PhaseInv' /\ NodeInv' /\ LinkInv' /\ EvidenceIsCurrent' /\ CompletedIsPrefix'
      BY <2>1, <2>2, <2>3, <2>4 DEF IndInv, PhaseInv, NodeInv, LinkInv, EvidenceIsCurrent,
         CompletedIsPrefix, IsPrefix, Current, Work, Same, Await, Moving, Stored
    <2> QED
      BY <1>2, <2>3, <2>5 DEF TaskBegins, BeginAdvance, IndInv, ServiceTypeOK, TypeOK, PC
  <1> QED
    BY <1>1, <1>2 DEF TaskBegins

\* The advance task ends, noting an exception as the run's failure (_advance).
LEMMA TaskEndsStep ==
    ASSUME IndInv, TaskEnds
    PROVE  IndInv'
  <1>1. disk \in Record
    BY DEF IndInv, ServiceTypeOK, TypeOK
  <1>2. PICK f \in FailureReason : disk' = [disk EXCEPT !.failure = f]
    <2>1. CASE pc = "raised"
      BY <2>1 DEF TaskEnds, FailureReason
    <2>2. CASE pc # "raised"
      <3>1. disk' = [disk EXCEPT !.failure = disk.failure]
        BY <1>1, <2>2 DEF TaskEnds, Record
      <3> QED
        BY <1>1, <3>1 DEF Record
    <2> QED
      BY <2>1, <2>2
  <1>3. /\ disk' \in Record /\ mem' \in Record
        /\ PhaseInv' /\ NodeInv' /\ LinkInv' /\ EvidenceIsCurrent' /\ CompletedIsPrefix'
    BY <1>2, ForgetStep DEF TaskEnds
  <1> QED
    BY <1>3 DEF TaskEnds, IndInv, ServiceTypeOK, TypeOK, PC, Outcome

\* The decision's request ends, and may start an advance (decide).
LEMMA ReplyStep ==
    ASSUME IndInv, Reply
    PROVE  IndInv'
  <1>1. disk \in Record
    BY DEF IndInv, ServiceTypeOK, TypeOK
  <1>2. disk' = [disk EXCEPT !.failure = disk.failure] /\ disk.failure \in FailureReason
    BY <1>1 DEF Reply, Record
  <1>3. /\ disk' \in Record /\ mem' \in Record
        /\ PhaseInv' /\ NodeInv' /\ LinkInv' /\ EvidenceIsCurrent' /\ CompletedIsPrefix'
    BY <1>2, ForgetStep DEF Reply
  <1> QED
    BY <1>3 DEF Reply, IndInv, ServiceTypeOK, TypeOK, PC

\* The server dies and a new one knows only what is stored.
LEMMA CrashStep ==
    ASSUME IndInv, Crash
    PROVE  IndInv'
  <1>1. disk \in Record /\ worker \in Worker
    BY DEF IndInv, ServiceTypeOK, TypeOK
  <1>2. disk' = [disk EXCEPT !.failure = disk.failure] /\ disk.failure \in FailureReason
    BY <1>1 DEF Crash, Record
  <1>3. /\ disk' \in Record /\ mem' \in Record
        /\ PhaseInv' /\ NodeInv' /\ LinkInv' /\ EvidenceIsCurrent' /\ CompletedIsPrefix'
    BY <1>2, ForgetStep DEF Crash
  <1>4. worker' \in Worker /\ orphan' \in BOOLEAN
    BY <1>1 DEF Crash, Worker, NoWorker, IndInv, ServiceTypeOK
  <1>5. faults' \in 0..MaxFaults
    BY MaxFaultsNat DEF Crash, IndInv, ServiceTypeOK
  <1> QED
    BY <1>3, <1>4, <1>5 DEF Crash, IndInv, ServiceTypeOK, TypeOK, PC, Outcome

\* A save that fails leaves the stored record as it was.
LEMMA StoreRaisesStep ==
    ASSUME IndInv, StoreRaises
    PROVE  IndInv'
  <1>1. PhaseInv' /\ NodeInv' /\ LinkInv' /\ EvidenceIsCurrent' /\ CompletedIsPrefix'
    BY QuietStep DEF StoreRaises
  <1>2. faults' \in 0..MaxFaults
    BY MaxFaultsNat DEF StoreRaises, IndInv, ServiceTypeOK
  <1>3. registered' \in BOOLEAN
    BY DEF StoreRaises, IndInv, ServiceTypeOK
  <1> QED
    BY <1>1, <1>2, <1>3 DEF StoreRaises, IndInv, ServiceTypeOK, TypeOK, PC, Outcome

\* Steps that touch neither record: the start of an advance, a cancel that only
\* sets the flag, the exit of an orphan.
LEMMA FlagStep ==
    ASSUME IndInv, AdvanceRun \/ (RequestCancel /\ UNCHANGED serviceVars) \/ OrphanExits
    PROVE  IndInv'
  <1>1. PhaseInv' /\ NodeInv' /\ LinkInv' /\ EvidenceIsCurrent' /\ CompletedIsPrefix'
    BY QuietStep DEF AdvanceRun, RequestCancel, OrphanExits
  <1>2. worker' \in Worker
    BY DEF AdvanceRun, RequestCancel, OrphanExits, IndInv, ServiceTypeOK, TypeOK, Worker
  <1> QED
    BY <1>1, <1>2 DEF AdvanceRun, RequestCancel, OrphanExits, IndInv, ServiceTypeOK, TypeOK,
       serviceVars

\* cancel, and decide: a request that ends, or moves on, a run nobody advances.
LEMMA DirectStep ==
    ASSUME IndInv, pc = "idle", disk.task_state \notin TerminalState,
           NEW STATE r, Conclude(r), r \in Record, Work(r),
           r.task_state \in Stored, r.pending = NoApproval,
           r.task_state \in TerminalState => r.repair_rounds = disk.repair_rounds,
           r.task_state = "COMPLETED" => /\ disk.pending # NoApproval
                                         /\ disk.pending.kind = "final_result",
           r.task_state # "FAILED_PERMANENT",
           verdict' \in [Node -> Verdict],
           UNCHANGED <<node, outcome, cancelling, basetree, worker>>,
           UNCHANGED serviceVars
    PROVE  IndInv'
  <1>1. /\ disk \in Record /\ tree \in {"absent", "unlocked", "locked", "stuck"} /\ Work(disk)
        /\ disk.task_state \in Stored \ TerminalState
        /\ disk.pending # NoApproval => disk.task_state = "WAITING_APPROVAL"
    BY DEF IndInv, ServiceTypeOK, TypeOK, PhaseInv, LinkInv, Stored, Work,
       EvidenceIsCurrent, CompletedIsPrefix
  <1>2. /\ disk' \in Record /\ mem' \in Record /\ pc' \in PC
        /\ tree' \in {"absent", "unlocked", "locked", "stuck"}
        /\ PhaseInv' /\ NodeInv' /\ LinkInv' /\ EvidenceIsCurrent' /\ CompletedIsPrefix'
    BY <1>1, ConcludeStep
  <1> QED
    BY <1>2 DEF IndInv, ServiceTypeOK, TypeOK, serviceVars

\* A run nobody advances is cancelled directly, or the cancel raises (cancel).
LEMMA CancelStep ==
    ASSUME IndInv, Cancel, UNCHANGED serviceVars
    PROVE  IndInv'
  <1> DEFINE r == cancelled(disk)
  <1>1. disk \in Record /\ Work(disk) /\ verdict \in [Node -> Verdict]
    BY DEF IndInv, ServiceTypeOK, TypeOK, Work, EvidenceIsCurrent, CompletedIsPrefix
  <1>2. /\ r \in Record /\ r.task_state = "CANCELLED" /\ r.pending = NoApproval
        /\ r.repair_rounds = disk.repair_rounds
        /\ r.completed_nodes = disk.completed_nodes /\ r.artifacts = disk.artifacts
    BY <1>1, CancelledTyped
  <1>3. Work(r)
    BY <1>1, <1>2, SameWork, Zenon
  <1>4. /\ Conclude(r) /\ pc = "idle" /\ disk.task_state \notin TerminalState
        /\ UNCHANGED <<node, outcome, cancelling, basetree, worker, verdict>>
    BY DEF Cancel, is_terminal
  <1> HIDE DEF r
  <1> QED
    BY <1>1, <1>2, <1>3, <1>4, DirectStep DEF Stored, TerminalState

\* The record a decision works on.
LEMMA AnsweredTyped ==
    ASSUME NEW f \in FailureReason, NEW t \in TaskState, disk \in Record, Work(disk)
    PROVE  /\ Answered \in Record /\ Work(Answered)
           /\ Answered.pending = NoApproval
           /\ Answered.task_state = disk.task_state
           /\ Answered.repair_rounds = disk.repair_rounds
           /\ [Answered EXCEPT !.task_state = t, !.failure = f] \in Record
           /\ [Answered EXCEPT !.task_state = t, !.failure = f].task_state = t
           /\ [Answered EXCEPT !.task_state = t, !.failure = f].pending = NoApproval
           /\ [Answered EXCEPT !.task_state = t, !.failure = f].repair_rounds = disk.repair_rounds
           /\ Work([Answered EXCEPT !.task_state = t, !.failure = f])
  <1> DEFINE s == [Answered EXCEPT !.task_state = t, !.failure = f]
  <1>1. /\ Answered \in Record /\ Answered.pending = NoApproval
        /\ Answered.task_state = disk.task_state
        /\ Answered.completed_nodes = disk.completed_nodes
        /\ Answered.artifacts = disk.artifacts
        /\ Answered.repair_rounds = disk.repair_rounds
    BY DEF Answered, Record
  <1>2. Work(Answered)
    BY <1>1, SameWork, Zenon
  <1>3. /\ s \in Record /\ s.task_state = t /\ s.pending = NoApproval
        /\ s.completed_nodes = disk.completed_nodes /\ s.artifacts = disk.artifacts
        /\ s.repair_rounds = disk.repair_rounds
    BY <1>1 DEF Record
  <1> HIDE DEF s
  <1>4. Work(s)
    BY <1>3, SameWork, Zenon
  <1> QED
    BY <1>1, <1>2, <1>3, <1>4 DEF s

\* A decided gate: the record in memory that decide saves.
LEMMA MoveOnStep ==
    ASSUME IndInv, NEW t \in {"COMPLETED", "READY", "CANCELLED"}, MoveOn(t),
           t = "COMPLETED" => disk.pending.kind = "final_result",
           disk.pending # NoApproval, pc = "idle",
           verdict' \in [Node -> Verdict],
           UNCHANGED <<node, outcome, cancelling, basetree, worker>>,
           UNCHANGED serviceVars
    PROVE  IndInv'
  <1>1. /\ disk \in Record /\ Work(disk) /\ disk.task_state = "WAITING_APPROVAL"
    BY DEF IndInv, ServiceTypeOK, TypeOK, Work, EvidenceIsCurrent, CompletedIsPrefix, LinkInv
  <1> DEFINE f == IF t = "CANCELLED" THEN "rejected" ELSE Answered.failure
             r == [Answered EXCEPT !.task_state = t, !.failure = f]
  <1>2. t \in TaskState
    BY DEF TaskState
  <1>3. f \in FailureReason
    BY <1>1 DEF FailureReason, Answered, Record
  <1>4. Conclude(r)
    BY Zenon DEF MoveOn
  <1> HIDE DEF f
  <1>5. /\ r \in Record /\ r.task_state = t /\ r.pending = NoApproval
        /\ r.repair_rounds = disk.repair_rounds /\ Work(r)
    BY <1>1, <1>2, <1>3, AnsweredTyped
  <1> HIDE DEF r
  <1> QED
    BY <1>1, <1>4, <1>5, DirectStep DEF Stored, Live, TerminalState

\* An approval or a rejection is recorded and the run moves on or ends (decide).
LEMMA ApproveOrRejectStep ==
    ASSUME IndInv, Approve \/ Reject, UNCHANGED serviceVars
    PROVE  IndInv'
  <1>1. /\ disk.pending # NoApproval /\ pc = "idle"
        /\ UNCHANGED <<node, outcome, cancelling, basetree, worker>>
    BY DEF Approve, Reject
  <1>2. verdict' \in [Node -> Verdict]
    BY DEF Approve, Reject, Decided, Verdict, IndInv, ServiceTypeOK, TypeOK
  <1>3. CASE Approve /\ disk.pending.kind = "final_result"
    <2>1. MoveOn("COMPLETED")
      BY <1>3, Zenon DEF Approve
    <2> QED
      BY <1>1, <1>2, <1>3, <2>1, MoveOnStep
  <1>4. CASE Approve /\ disk.pending.kind # "final_result"
    <2>1. MoveOn("READY")
      BY <1>4, Zenon DEF Approve
    <2> QED
      BY <1>1, <1>2, <2>1, MoveOnStep
  <1>5. CASE Reject
    <2>1. MoveOn("CANCELLED")
      BY <1>5, Zenon DEF Reject
    <2> QED
      BY <1>1, <1>2, <2>1, MoveOnStep
  <1> QED
    BY <1>3, <1>4, <1>5

\* A change request starts a repair round while there is budget (decide).
LEMMA RequestChangesStep ==
    ASSUME IndInv, RequestChanges, UNCHANGED serviceVars
    PROVE  IndInv'
  <1>1. /\ disk \in Record /\ Work(disk) /\ verdict \in [Node -> Verdict]
        /\ disk.task_state = "WAITING_APPROVAL" /\ pc = "idle"
        /\ UNCHANGED <<node, outcome, cancelling, basetree, worker>>
    BY DEF IndInv, ServiceTypeOK, TypeOK, Work, EvidenceIsCurrent, CompletedIsPrefix, LinkInv,
       RequestChanges
  <1>2. /\ Answered \in Record /\ Work(Answered) /\ Answered.pending = NoApproval
        /\ Answered.task_state = "WAITING_APPROVAL"
        /\ Answered.repair_rounds = disk.repair_rounds
    BY <1>1, AnsweredTyped DEF TaskState, FailureReason
  <1>3. verdict' \in [Node -> Verdict]
    <2>1. CASE can_repair(disk)
      BY <1>1, <2>1 DEF RequestChanges, Verdict
    <2>2. CASE ~can_repair(disk)
      BY <1>1, <2>2 DEF RequestChanges, Decided, Verdict
    <2> QED
      BY <2>1, <2>2
  <1>4. CASE can_repair(disk)
    <2> DEFINE r == start_repair(Answered)
    <2>1. can_repair(Answered)
      BY <1>2, <1>4 DEF can_repair
    <2>2. r \in Record /\ r.task_state = "READY" /\ r.pending = NoApproval /\ Work(r)
      BY <1>2, <2>1, StartRepairTyped, StartRepairWork
    <2>3. Conclude(r)
      BY <1>4 DEF RequestChanges
    <2> HIDE DEF r
    <2> QED
      BY <1>1, <1>3, <2>2, <2>3, DirectStep DEF Stored, Live, TerminalState
  <1>5. CASE ~can_repair(disk)
    <2> DEFINE r == fail(Answered, "failed")
    <2>1. /\ r \in Record /\ r.task_state = "WAITING_APPROVAL" /\ r.pending = NoApproval
          /\ r.completed_nodes = Answered.completed_nodes
          /\ r.artifacts = Answered.artifacts
          /\ r.repair_rounds = Answered.repair_rounds
      BY <1>2, FailTyped DEF FailureReason
    <2>2. Work(r)
      BY <1>2, <2>1, SameWork, Zenon
    <2>3. Conclude(r)
      BY <1>5 DEF RequestChanges
    <2> HIDE DEF r
    <2> QED
      BY <1>1, <1>3, <2>1, <2>2, <2>3, DirectStep DEF Stored, Live, TerminalState
  <1> QED
    BY <1>4, <1>5

-----------------------------------------------------------------------------
(***************************************************************************)
(* The theorems.                                                           *)
(***************************************************************************)

\* A run begins in the invariant (create_run, submit_task).
LEMMA InitIndInv == Init => IndInv
  <1> SUFFICES ASSUME Init PROVE IndInv
    OBVIOUS
  <1>1. disk = NewRecord /\ mem = NewRecord /\ pc = "idle"
    BY DEF Init, RunnerInit
  <1>2. NewRecord.task_state = "PENDING" /\ NewRecord.pending = NoApproval
    BY DEF NewRecord
  <1>3. PhaseInv /\ NodeInv /\ LinkInv
    BY <1>1, <1>2 DEF PhaseInv, NodeInv, LinkInv, Await, Moving
  <1>4. EvidenceIsCurrent /\ CompletedIsPrefix
    BY <1>1, NewRecordWork DEF EvidenceIsCurrent, CompletedIsPrefix, Work
  <1>5. TypeOK
    BY <1>1, NewRecordTyped DEF Init, RunnerInit, TypeOK, PC, Outcome, Worker, NoWorker, Verdict
  <1>6. faults \in 0..MaxFaults
    BY MaxFaultsNat DEF Init
  <1>7. ServiceTypeOK
    BY <1>5, <1>6 DEF Init, ServiceTypeOK
  <1> QED
    BY <1>3, <1>4, <1>7 DEF IndInv

\* Every step of the service preserves it.
LEMMA NextIndInv == IndInv /\ [Next]_vars => IndInv'
  <1> SUFFICES ASSUME IndInv, [Next]_vars PROVE IndInv'
    OBVIOUS
  <1>1. CASE AdvanceRun
    BY <1>1, FlagStep
  <1>2. CASE CancelRun
    BY <1>2, FlagStep, CancelStep DEF CancelRun
  <1>3. CASE Decide
    BY <1>3, ApproveOrRejectStep, RequestChangesStep DEF Decide
  <1>4. CASE TaskBegins
    BY <1>4, TaskBeginsStep
  <1>5. CASE RunnerStep
    BY <1>5, RunnerStepPreserves
  <1>6. CASE TaskEnds
    BY <1>6, TaskEndsStep
  <1>7. CASE Reply
    BY <1>7, ReplyStep
  <1>8. CASE StoreRaises
    BY <1>8, StoreRaisesStep
  <1>9. CASE Crash
    BY <1>9, CrashStep
  <1>10. CASE OrphanExits
    BY <1>10, FlagStep
  <1>11. CASE UNCHANGED vars
    <2>1. PhaseInv' /\ NodeInv' /\ LinkInv' /\ EvidenceIsCurrent' /\ CompletedIsPrefix'
      BY <1>11, QuietStep DEF vars
    <2> QED
      BY <1>11, <2>1 DEF vars, IndInv, ServiceTypeOK, TypeOK
  <1> QED
    BY <1>1, <1>2, <1>3, <1>4, <1>5, <1>6, <1>7, <1>8, <1>9, <1>10, <1>11
       DEF Next, Request, Server

\* The invariant holds throughout, whatever the workflow, its repair budget and
\* the number of crashes and store failures.
THEOREM Invariance == Spec => []IndInv
  BY InitIndInv, NextIndInv, PTL DEF Spec

\* Every record stays well formed: in particular the repair budget is never
\* exceeded and _enter always finds a path.
THEOREM TypeCorrect == Spec => []ServiceTypeOK
  <1>1. IndInv => ServiceTypeOK
    BY DEF IndInv
  <1> QED
    BY <1>1, Invariance, PTL

\* No node runs before its dependencies or keeps the result of a replayed one.
THEOREM PrefixAlways == Spec => []CompletedIsPrefix
  <1>1. IndInv => CompletedIsPrefix
    BY DEF IndInv
  <1> QED
    BY <1>1, Invariance, PTL

\* Evidence of an earlier repair round is never used in a later one.
THEOREM EvidenceAlways == Spec => []EvidenceIsCurrent
  <1>1. IndInv => EvidenceIsCurrent
    BY DEF IndInv
  <1> QED
    BY <1>1, Invariance, PTL

\* While a human is asked, nothing runs.
THEOREM PausedAlways == Spec => []PendingMeansPaused
  <1>1. IndInv => PendingMeansPaused
    BY DEF IndInv, ServiceTypeOK, TypeOK, LinkInv, PendingMeansPaused, PC, Moving, Await
  <1> QED
    BY <1>1, Invariance, PTL

\* What has ended stays as it is: no request, task or fault changes the stored
\* record of a terminal run, but for the failure noted on it.
THEOREM TerminalAlwaysFinal == Spec => TerminalIsFinal
  <1>1. ASSUME IndInv, [Next]_vars, is_terminal(disk)
        PROVE  disk' = [disk EXCEPT !.failure = disk'.failure]
    <2>1. /\ disk \in Record /\ disk.task_state \in TerminalState
          /\ pc \notin Moving /\ pc # "releasing" /\ disk.pending = NoApproval
      BY <1>1 DEF IndInv, ServiceTypeOK, TypeOK, LinkInv, is_terminal, TerminalState
    <2>2. disk' = disk => disk' = [disk EXCEPT !.failure = disk'.failure]
      BY <2>1 DEF Record
    <2>3. CASE TaskEnds
      <3>1. CASE pc = "raised"
        <4>1. disk' = [disk EXCEPT !.failure = "advance_failed"]
          BY <2>3, <3>1 DEF TaskEnds
        <4> QED
          BY <2>1, <4>1 DEF Record
      <3>2. CASE pc # "raised"
        BY <2>2, <2>3, <3>2 DEF TaskEnds
      <3> QED
        BY <3>1, <3>2
    <2>4. CASE RunnerStep
      <3>1. pc \notin Await \cup {"loop", "outcome", "recorded", "releasing"}
        BY <2>1 DEF Moving
      <3> QED
        BY <2>4, <3>1 DEF RunnerStep, AdvanceStep, FinishGraph, RequestFinalApproval,
           StartWorker, SetupRaises, StartVerification, Executes, SpawnReturns, SpawnRaises,
           WorkerEnds, VerificationPasses, VerificationFails, StartBaseline, BaselineTaken,
           BaselineRaises, CancelNow, NodeRaised, NodeFailed, NodeSucceeded, ChangesRequested,
           ContinueAfterNode, SaveTerminal, Await
    <2>5. CASE CancelRun \/ Decide
      BY <1>1, <2>1, <2>5 DEF CancelRun, Decide, Approve, Reject, RequestChanges
    <2>6. CASE AdvanceRun \/ TaskBegins \/ Reply \/ StoreRaises \/ Crash \/ OrphanExits
               \/ UNCHANGED vars
      BY <2>2, <2>6 DEF AdvanceRun, TaskBegins, BeginAdvance, AdvanceRefused, Reply,
         StoreRaises, Crash, OrphanExits, vars
    <2> QED
      BY <1>1, <2>3, <2>4, <2>5, <2>6 DEF Next, Request, Server
  <1> QED
    BY <1>1, Invariance, PTL DEF Spec, TerminalIsFinal

-----------------------------------------------------------------------------
(***************************************************************************)
(* The stored record of a run implements the lifecycle promised to its     *)
(* clients, whatever the workflow, the repair budget and the faults.  The  *)
(* proof goes by what a step does to the stored record: most steps leave   *)
(* its abstraction alone, and the ones that do not are a save of advance,  *)
(* a decision, or the save that ends a run.                                *)
(***************************************************************************)

\* A record a client sees as open.
Open(r) == r.task_state \notin TerminalState /\ r.pending = NoApproval

\* A record a client sees as waiting.
Waiting(r) == r.task_state = "WAITING_APPROVAL" /\ r.pending # NoApproval

\* How a stored record reads in the lifecycle: work in progress is open.
LEMMA OpenPhase ==
    ASSUME NEW r, Open(r)
    PROVE  Phase(r) = "open" /\ GateOf(r) = "no gate"
  BY DEF Open, Phase, GateOf, TerminalState

\* A record paused at a gate waits for that gate's kind of approval.
LEMMA WaitingPhase ==
    ASSUME NEW r \in Record, Waiting(r)
    PROVE  Phase(r) = "waiting" /\ GateOf(r) = r.pending.kind /\ GateOf(r) \in ApprovalKind
  BY DEF Waiting, Phase, GateOf, Record, Approval

\* An ended run waits for nobody.
LEMMA EndedPhase ==
    ASSUME NEW r, r.task_state \in TerminalState, r.pending = NoApproval
    PROVE  /\ GateOf(r) = "no gate"
           /\ r.task_state = "COMPLETED" => Phase(r) = "completed"
           /\ r.task_state = "FAILED_PERMANENT" => Phase(r) = "failed"
           /\ r.task_state = "CANCELLED" => Phase(r) = "cancelled"
  BY DEF Phase, GateOf, TerminalState

\* What the abstraction of a step is.
Simulates == Lifecycle!Next \/ UNCHANGED <<Phase(disk), GateOf(disk), disk.repair_rounds>>

\* A step that saves an open record over an open one: work was recorded, or a
\* repair round begun.
LEMMA OpenToOpen ==
    ASSUME disk \in Record, disk' \in Record, Open(disk), Open(disk'),
           \/ disk'.repair_rounds = disk.repair_rounds
           \/ disk'.repair_rounds = disk.repair_rounds + 1
    PROVE  Simulates
  <1>1. disk.repair_rounds \in 0..MaxRepairRounds /\ disk'.repair_rounds \in 0..MaxRepairRounds
        /\ MaxRepairRounds \in Nat
    BY WorkflowTyped DEF Record
  <1>2. /\ Phase(disk) = "open" /\ GateOf(disk) = "no gate"
        /\ Phase(disk') = "open" /\ GateOf(disk') = "no gate"
    BY OpenPhase
  <1>3. CASE disk'.repair_rounds = disk.repair_rounds
    BY <1>2, <1>3 DEF Simulates
  <1>4. CASE disk'.repair_rounds = disk.repair_rounds + 1
    <2>1. disk.repair_rounds < MaxRepairRounds
      BY <1>1, <1>4
    <2>2. Lifecycle!StartRound
      BY <1>2, <1>4, <2>1, Zenon DEF Lifecycle!StartRound
    <2> QED
      BY <2>2 DEF Simulates, Lifecycle!Next
  <1> QED
    BY <1>3, <1>4

\* A step that stores a gate.
LEMMA OpenToWaiting ==
    ASSUME disk' \in Record, Open(disk), Waiting(disk'),
           disk'.repair_rounds = disk.repair_rounds
    PROVE  Simulates
  <1>1. Phase(disk) = "open" /\ Phase(disk') = "waiting" /\ GateOf(disk') \in ApprovalKind
    BY OpenPhase, WaitingPhase
  <1>2. Lifecycle!Ask
    BY <1>1 DEF Lifecycle!Ask
  <1> QED
    BY <1>2 DEF Simulates, Lifecycle!Next

\* A decision that lets the run go on.
LEMMA WaitingToOpen ==
    ASSUME disk \in Record, disk' \in Record, Waiting(disk), Open(disk'),
           \/ disk'.repair_rounds = disk.repair_rounds
           \/ disk'.repair_rounds = disk.repair_rounds + 1
    PROVE  Simulates
  <1>1. disk.repair_rounds \in 0..MaxRepairRounds /\ disk'.repair_rounds \in 0..MaxRepairRounds
        /\ MaxRepairRounds \in Nat
    BY WorkflowTyped DEF Record
  <1>2. Phase(disk) = "waiting" /\ Phase(disk') = "open" /\ GateOf(disk') = "no gate"
    BY OpenPhase, WaitingPhase
  <1>3. disk'.repair_rounds = disk.repair_rounds + 1 => disk.repair_rounds < MaxRepairRounds
    BY <1>1
  <1>4. Lifecycle!Continue
    BY <1>2, <1>3, Zenon DEF Lifecycle!Continue, Lifecycle!NoGate
  <1> QED
    BY <1>4 DEF Simulates, Lifecycle!Next

\* A step that leaves the stored record alone, but for a failure.
LEMMA StoredKept ==
    ASSUME disk \in Record, NEW f,
           disk' = disk \/ disk' = [disk EXCEPT !.failure = f]
    PROVE  Simulates
  <1>1. /\ disk'.task_state = disk.task_state /\ disk'.pending = disk.pending
        /\ disk'.repair_rounds = disk.repair_rounds
    BY DEF Record
  <1> QED
    BY <1>1 DEF Simulates, Phase, GateOf

-----------------------------------------------------------------------------
\* What the invariant says of the stored record while advance executes nodes.
LEMMA MovingIsOpen ==
    ASSUME IndInv, pc \in Moving
    PROVE  /\ disk \in Record /\ mem \in Record /\ Open(disk)
           /\ mem.pending = NoApproval /\ mem.repair_rounds = disk.repair_rounds
           /\ pc # "loop" => mem.task_state \in {"RUNNING", "VERIFYING"}
           /\ pc = "loop" => mem.task_state \in Live
  BY DEF IndInv, ServiceTypeOK, TypeOK, PhaseInv, LinkInv, Open, Moving, Await

\* Ending the run changes nothing stored yet; failing to end it keeps it open.
LEMMA ConcludeSimulates ==
    ASSUME NEW STATE r, Conclude(r), r \in Record, disk \in Record,
           r.pending = NoApproval,
           Open(disk) \/ Waiting(disk),
           \/ r.task_state \in TerminalState
           \/ r.repair_rounds = disk.repair_rounds
           \/ r.repair_rounds = disk.repair_rounds + 1
    PROVE  Simulates
  <1>1. CASE r.task_state \in TerminalState
    <2>1. disk' = disk
      BY <1>1 DEF Conclude, is_terminal
    <2> QED
      BY <2>1, StoredKept
  <1>2. CASE r.task_state \notin TerminalState
    <2>1. disk' = r
      BY <1>2 DEF Conclude, is_terminal
    <2>2. Open(disk') /\ disk' \in Record
          /\ (\/ disk'.repair_rounds = disk.repair_rounds
              \/ disk'.repair_rounds = disk.repair_rounds + 1)
      BY <1>2, <2>1 DEF Open
    <2> QED
      BY <2>2, OpenToOpen, WaitingToOpen
  <1> QED
    BY <1>1, <1>2

\* The save that ends a run is the end its client sees.
LEMMA SaveTerminalSimulates ==
    ASSUME IndInv, SaveTerminal
    PROVE  Simulates
  <1>1. /\ disk \in Record /\ disk' = mem /\ mem.task_state \in TerminalState
        /\ mem.pending = NoApproval /\ mem.repair_rounds = disk.repair_rounds
        /\ Open(disk) \/ Waiting(disk)
        /\ mem.task_state = "COMPLETED" => Waiting(disk) /\ disk.pending.kind = "final_result"
        /\ mem.task_state = "FAILED_PERMANENT" => Open(disk)
    BY DEF SaveTerminal, IndInv, ServiceTypeOK, TypeOK, PhaseInv, LinkInv, Open, Waiting
  <1>2. /\ Open(disk) => Phase(disk) = "open" /\ GateOf(disk) = "no gate"
        /\ Waiting(disk) => Phase(disk) = "waiting" /\ GateOf(disk) = disk.pending.kind
    BY <1>1, OpenPhase, WaitingPhase
  <1>3. /\ GateOf(disk') = "no gate" /\ disk'.repair_rounds = disk.repair_rounds
        /\ mem.task_state = "COMPLETED" => Phase(disk') = "completed"
        /\ mem.task_state = "FAILED_PERMANENT" => Phase(disk') = "failed"
        /\ mem.task_state = "CANCELLED" => Phase(disk') = "cancelled"
    BY <1>1, EndedPhase
  <1>4. CASE mem.task_state = "COMPLETED"
    <2>1. Lifecycle!Complete
      BY <1>1, <1>2, <1>3, <1>4, Zenon DEF Lifecycle!Complete, Lifecycle!NoGate
    <2> QED
      BY <2>1 DEF Simulates, Lifecycle!Next
  <1>5. CASE mem.task_state = "FAILED_PERMANENT"
    <2>1. Lifecycle!Fail
      BY <1>1, <1>2, <1>3, <1>5, Zenon DEF Lifecycle!Fail
    <2> QED
      BY <2>1 DEF Simulates, Lifecycle!Next
  <1>6. CASE mem.task_state = "CANCELLED"
    <2>1. Phase(disk) \in {"open", "waiting"}
      BY <1>1, <1>2
    <2>2. Lifecycle!Stop
      BY <1>3, <1>6, <2>1, Zenon DEF Lifecycle!Stop, Lifecycle!NoGate
    <2> QED
      BY <2>2 DEF Simulates, Lifecycle!Next
  <1> QED
    BY <1>1, <1>4, <1>5, <1>6 DEF TerminalState

\* The saves of advance.
LEMMA AdvanceSimulates ==
    ASSUME IndInv, IndInv', AdvanceStep
    PROVE  Simulates
  <1>1. disk \in Record /\ disk' \in Record
    BY DEF IndInv, ServiceTypeOK, TypeOK
  <1>2. CASE disk' = disk
    BY <1>1, <1>2, StoredKept
  <1>3. CASE SaveTerminal
    BY <1>3, SaveTerminalSimulates
  <1>4. CASE FinishGraph
    <2>1. pc \in Moving
      BY <1>4 DEF FinishGraph, Moving
    <2>2. /\ fail(mem, "no_final_approval") \in Record
          /\ fail(mem, "no_final_approval").pending = NoApproval
          /\ fail(mem, "no_final_approval").repair_rounds = disk.repair_rounds
      BY <2>1, MovingIsOpen, FailTyped DEF FailureReason
    <2> QED
      BY <1>1, <1>4, <2>1, <2>2, MovingIsOpen, ConcludeSimulates DEF FinishGraph
  <1>5. CASE RequestFinalApproval \/ ContinueAfterNode
    <2>1. pc \in Moving /\ (disk' = disk \/ (disk' = mem' /\ pc' = "returned"))
      BY <1>5 DEF RequestFinalApproval, ContinueAfterNode, SaveAndGoTo, Moving
    <2>2. CASE disk' # disk
      <3>1. PICK n \in Node, k \in ApprovalKind : disk' = request_approval(mem, n, k)
        <4>1. CASE RequestFinalApproval
          <5>1. next_node(mem) \in Node
            BY <4>1, NextNodeExtends DEF IndInv, CompletedIsPrefix, RequestFinalApproval
          <5> QED
            BY <4>1, <5>1 DEF RequestFinalApproval, SaveAndGoTo, ApprovalKind
        <4>2. CASE ContinueAfterNode
          <5>1. node \in Node /\ Workflow.approval_after[node] # "none"
            BY <2>2, <4>2 DEF ContinueAfterNode, IndInv, NodeInv
          <5>2. Workflow.approval_after[node] \in ApprovalKind
            BY <5>1, WorkflowTyped
          <5> QED
            BY <4>2, <5>1, <5>2 DEF ContinueAfterNode, SaveAndGoTo
        <4> QED
          BY <1>5, <4>1, <4>2
      <3>2. mem \in Record /\ mem.task_state \in Live
        BY <2>1, MovingIsOpen DEF Live
      <3>3. Waiting(disk') /\ disk'.repair_rounds = mem.repair_rounds
        BY <3>1, <3>2, RequestApprovalTyped DEF Waiting
      <3> QED
        BY <1>1, <2>1, <3>3, MovingIsOpen, OpenToWaiting
    <2> QED
      BY <1>2, <2>2
  <1>6. CASE /\ disk' # disk
             /\ \/ \E b \in {"clean", "red"}, o \in {"ok", "failed"} : BaselineTaken(b, o)
                \/ \E b \in Baseline : BaselineRaises(b)
    <2>1. PICK b \in Baseline : pc = "baseline" /\ disk' = [mem EXCEPT !.baseline = b]
      BY <1>6 DEF BaselineTaken, BaselineRaises, SaveAndGoTo, Baseline
    <2>2. pc \in Moving /\ pc # "loop"
      BY <2>1 DEF Moving, Await
    <2>3. Open(disk') /\ disk'.repair_rounds = disk.repair_rounds
      BY <2>1, <2>2, MovingIsOpen DEF Open, Record, TerminalState
    <2> QED
      BY <1>1, <2>2, <2>3, MovingIsOpen, OpenToOpen
  <1>7. CASE NodeSucceeded
    <2>1. pc \in Moving /\ pc # "loop" /\ node \in Node /\ disk' = record_artifact(mem, node)
      BY <1>7 DEF NodeSucceeded, SaveAndGoTo, Moving, IndInv, NodeInv
    <2>2. Open(disk') /\ disk'.repair_rounds = disk.repair_rounds
      BY <2>1, MovingIsOpen, RecordArtifactTyped DEF Open, TerminalState
    <2> QED
      BY <1>1, <2>1, <2>2, MovingIsOpen, OpenToOpen
  <1>8. CASE CancelNow
    <2>1. pc \in Moving
      BY <1>8 DEF CancelNow, Moving
    <2>2. CASE disk' # disk
      <3>1. Conclude(cancelled(mem))
        BY <1>8, <2>2 DEF CancelNow
      <3>2. cancelled(mem).task_state \in TerminalState
        BY <2>1, MovingIsOpen, CancelledTyped DEF TerminalState
      <3> QED
        BY <2>2, <3>1, <3>2 DEF Conclude, is_terminal
    <2> QED
      BY <1>2, <2>2
  <1>9. CASE NodeRaised \/ NodeFailed \/ ChangesRequested
    <2>1. pc \in Moving /\ pc # "loop" /\ (Fail \/ (Repair /\ can_repair(mem)))
      BY <1>9 DEF NodeRaised, NodeFailed, ChangesRequested, Moving
    <2>2. mem \in Record /\ mem.task_state \in {"RUNNING", "VERIFYING"}
      BY <2>1, MovingIsOpen
    <2>3. CASE Fail
      <3>1. fail(mem, "failed").task_state \in TerminalState
        BY <2>2, FailTyped DEF FailureReason, TerminalState
      <3>2. disk' = disk
        BY <2>3, <3>1 DEF Fail, Conclude, is_terminal
      <3> QED
        BY <1>2, <3>2
    <2>4. CASE Repair /\ can_repair(mem)
      <3>1. disk' = start_repair(mem)
        BY <2>4 DEF Repair, SaveAndGoTo
      <3>2. Open(disk') /\ disk'.repair_rounds = disk.repair_rounds + 1
        BY <2>1, <2>2, <2>4, <3>1, MovingIsOpen, StartRepairTyped DEF Open, TerminalState
      <3> QED
        BY <1>1, <2>1, <3>2, MovingIsOpen, OpenToOpen
    <2> QED
      BY <2>1, <2>3, <2>4
  <1> QED
    BY <1>2, <1>3, <1>4, <1>5, <1>6, <1>7, <1>8, <1>9 DEF AdvanceStep, StartWorker, SetupRaises,
       StartVerification, SpawnReturns, SpawnRaises, WorkerEnds, VerificationPasses,
       VerificationFails, StartBaseline

\* The decisions, and a cancel of a paused run.
LEMMA RequestSimulates ==
    ASSUME IndInv, Cancel \/ Approve \/ Reject \/ RequestChanges
    PROVE  Simulates
  <1>1. /\ disk \in Record /\ Work(disk)
        /\ disk.pending # NoApproval => disk.task_state = "WAITING_APPROVAL"
    BY DEF IndInv, ServiceTypeOK, TypeOK, LinkInv, Work, EvidenceIsCurrent, CompletedIsPrefix
  <1>2. CASE Cancel
    <2>1. cancelled(disk).task_state \in TerminalState
      BY <1>1, CancelledTyped DEF TerminalState
    <2>2. disk' = disk
      BY <1>2, <2>1 DEF Cancel, Conclude, is_terminal
    <2> QED
      BY <1>1, <2>2, StoredKept
  <1>3. ASSUME NEW t \in {"COMPLETED", "READY", "CANCELLED"}, MoveOn(t),
               disk.pending # NoApproval
        PROVE  Simulates
    <2> DEFINE f == IF t = "CANCELLED" THEN "rejected" ELSE Answered.failure
               r == [Answered EXCEPT !.task_state = t, !.failure = f]
    <2>1. t \in TaskState
      BY <1>3 DEF TaskState
    <2>2. f \in FailureReason
      BY <1>1 DEF FailureReason, Answered, Record
    <2>3. Conclude(r)
      BY <1>3, Zenon DEF MoveOn
    <2> HIDE DEF f
    <2>4. r \in Record /\ r.pending = NoApproval /\ r.repair_rounds = disk.repair_rounds
      BY <1>1, <2>1, <2>2, AnsweredTyped
    <2> HIDE DEF r
    <2> QED
      BY <1>1, <1>3, <2>3, <2>4, ConcludeSimulates DEF Waiting
  <1>4. CASE Approve
    <2>1. MoveOn("COMPLETED") \/ MoveOn("READY")
      <3>1. CASE disk.pending.kind = "final_result"
        BY <1>4, <3>1, Zenon DEF Approve
      <3>2. CASE disk.pending.kind # "final_result"
        BY <1>4, <3>2, Zenon DEF Approve
      <3> QED
        BY <3>1, <3>2
    <2> QED
      BY <1>3, <1>4, <2>1 DEF Approve
  <1>5. CASE Reject
    BY <1>3, <1>5 DEF Reject
  <1>6. CASE RequestChanges
    <2>1. Waiting(disk)
      BY <1>1, <1>6 DEF RequestChanges, Waiting
    <2>2. /\ Answered \in Record /\ Answered.pending = NoApproval
          /\ Answered.task_state = "WAITING_APPROVAL"
          /\ Answered.repair_rounds = disk.repair_rounds
      BY <1>1, <2>1, AnsweredTyped DEF TaskState, FailureReason, Waiting
    <2>3. CASE can_repair(disk)
      <3>1. can_repair(Answered)
        BY <2>2, <2>3 DEF can_repair
      <3>2. /\ start_repair(Answered) \in Record /\ start_repair(Answered).pending = NoApproval
            /\ start_repair(Answered).repair_rounds = disk.repair_rounds + 1
        BY <2>2, <3>1, StartRepairTyped
      <3>3. Conclude(start_repair(Answered))
        BY <1>6, <2>3 DEF RequestChanges
      <3> QED
        BY <1>1, <2>1, <3>2, <3>3, ConcludeSimulates
    <2>4. CASE ~can_repair(disk)
      <3>1. /\ fail(Answered, "failed") \in Record /\ fail(Answered, "failed").pending = NoApproval
            /\ fail(Answered, "failed").repair_rounds = disk.repair_rounds
        BY <2>2, FailTyped DEF FailureReason
      <3>2. Conclude(fail(Answered, "failed"))
        BY <1>6, <2>4 DEF RequestChanges
      <3> QED
        BY <1>1, <2>1, <3>1, <3>2, ConcludeSimulates
    <2> QED
      BY <2>3, <2>4
  <1> QED
    BY <1>2, <1>4, <1>5, <1>6

\* Every step of the service is one of the lifecycle, or none.
LEMMA NextSimulates ==
    ASSUME IndInv, IndInv', [Next]_vars
    PROVE  Simulates
  <1>1. disk \in Record
    BY DEF IndInv, ServiceTypeOK, TypeOK
  <1>2. CASE RunnerStep
    BY <1>2, AdvanceSimulates DEF RunnerStep
  <1>3. CASE TaskEnds
    BY <1>1, <1>3, StoredKept DEF TaskEnds
  <1>4. CASE Decide
    BY <1>4, RequestSimulates DEF Decide
  <1>5. CASE CancelRun
    <2>1. Cancel \/ disk' = disk
      BY <1>5 DEF CancelRun, RequestCancel
    <2> QED
      BY <1>1, <2>1, RequestSimulates, StoredKept
  <1>6. CASE AdvanceRun \/ TaskBegins \/ Reply \/ StoreRaises \/ Crash \/ OrphanExits
             \/ UNCHANGED vars
    <2>1. disk' = disk
      BY <1>6 DEF AdvanceRun, TaskBegins, BeginAdvance, AdvanceRefused, Reply,
         StoreRaises, Crash, OrphanExits, vars
    <2> QED
      BY <1>1, <2>1, StoredKept
  <1> QED
    BY <1>2, <1>3, <1>4, <1>5, <1>6 DEF Next, Request, Server

\* The service implements the lifecycle: a run completes only by a human's
\* approval of a final result, fails only while nobody is asked, counts every
\* repair round up to its budget, and never leaves a final phase.
THEOREM Refinement == Spec => RefinesLifecycle
  <1>1. Init => Lifecycle!Init
    <2> SUFFICES ASSUME Init PROVE Lifecycle!Init
      OBVIOUS
    <2>1. Open(disk) /\ disk.repair_rounds = 0
      BY DEF Init, RunnerInit, NewRecord, Open, TerminalState
    <2>2. Phase(disk) = "open" /\ GateOf(disk) = "no gate"
      BY <2>1, OpenPhase
    <2> QED
      BY <2>1, <2>2 DEF Lifecycle!Init, Lifecycle!NoGate
  <1>2. IndInv /\ IndInv' /\ [Next]_vars => [Lifecycle!Next]_(Lifecycle!vars)
    BY NextSimulates DEF Simulates, Lifecycle!vars
  <1> QED
    BY <1>1, <1>2, Invariance, PTL DEF Spec, RefinesLifecycle, Lifecycle!Spec

-----------------------------------------------------------------------------
(***************************************************************************)
(* The worktree of a run that has ended.                                   *)
(***************************************************************************)

\* A terminal phase has let go of the worktree, or has told that git would not, by
\* the time it is saved.
TreeInv ==
    /\ KnownTreeReleased
    /\ pc = "releasing" /\ mem.worktree => tree # "locked"

\* However a call concludes, a terminal record lets go of its tree first
\* (_transition).
LEMMA ConcludeReleases ==
    ASSUME NEW STATE r, Conclude(r), disk.task_state \notin TerminalState
    PROVE  TreeInv'
  <1>1. CASE is_terminal(r)
    <2>1. mem' = r /\ disk' = disk /\ (r.worktree => tree' # "locked")
      BY <1>1 DEF Conclude, Release
    <2> QED
      BY <2>1 DEF TreeInv, KnownTreeReleased, is_terminal
  <1>2. CASE ~is_terminal(r)
    BY <1>2 DEF Conclude, TreeInv, KnownTreeReleased
  <1> QED
    BY <1>1, <1>2

\* Steps that leave the tree and the worktree a terminal record knows of alone.
LEMMA TreeStays ==
    ASSUME TreeInv, tree' = tree, pc' # "releasing",
           \/ disk'.task_state \notin TerminalState
           \/ disk'.worktree = disk.worktree /\ disk'.task_state = disk.task_state
    PROVE  TreeInv'
  BY DEF TreeInv, KnownTreeReleased, is_terminal

\* Every step preserves it.
LEMMA NextTree == IndInv /\ IndInv' /\ TreeInv /\ [Next]_vars => TreeInv'
  <1> SUFFICES ASSUME IndInv, IndInv', TreeInv, [Next]_vars PROVE TreeInv'
    OBVIOUS
  <1>1. /\ disk \in Record /\ mem \in Record
        /\ pc \in Moving \cup {"releasing"} => disk.task_state \notin TerminalState
        /\ disk.pending # NoApproval => disk.task_state \notin TerminalState
    BY DEF IndInv, ServiceTypeOK, TypeOK, LinkInv, TerminalState
  <1>2. CASE pc' \in Moving
    <2>1. disk'.task_state \notin TerminalState /\ pc' # "releasing"
      BY <1>2 DEF IndInv, LinkInv, Moving, Await
    <2> QED
      BY <2>1 DEF TreeInv, KnownTreeReleased, is_terminal
  <1>3. CASE SaveTerminal
    BY <1>3 DEF SaveTerminal, TreeInv, KnownTreeReleased
  <1>4. CASE FinishGraph \/ NodeRaised
    BY <1>1, <1>4, ConcludeReleases DEF FinishGraph, NodeRaised, Fail, Moving
  <1>5. CASE NodeFailed \/ ChangesRequested
    <2>1. CASE can_repair(mem)
      BY <1>2, <1>5, <2>1 DEF NodeFailed, ChangesRequested, Repair, SaveAndGoTo, Moving
    <2>2. CASE ~can_repair(mem)
      BY <1>1, <1>5, <2>2, ConcludeReleases DEF NodeFailed, ChangesRequested, Fail, Moving
    <2> QED
      BY <2>1, <2>2
  <1>6. CASE CancelNow
    <2>1. CASE can_transition(mem.task_state, "CANCELLED")
      BY <1>1, <1>6, <2>1, ConcludeReleases DEF CancelNow, Moving
    <2>2. CASE ~can_transition(mem.task_state, "CANCELLED")
      BY <1>6, <2>2, TreeStays DEF CancelNow
    <2> QED
      BY <2>1, <2>2
  <1>7. CASE RequestFinalApproval \/ ContinueAfterNode
    <2>1. tree' = tree /\ pc' # "releasing"
      BY <1>7 DEF RequestFinalApproval, ContinueAfterNode, SaveAndGoTo
    <2>2. CASE disk' = disk
      BY <2>1, <2>2, TreeStays
    <2>3. CASE disk' # disk
      <3>1. disk' = mem' /\ pc \in Moving
        BY <1>7, <2>3 DEF RequestFinalApproval, ContinueAfterNode, SaveAndGoTo, Moving
      <3>2. mem' = request_approval(mem, node, Workflow.approval_after[node])
            \/ mem' = request_approval(mem, next_node(mem), "final_result")
        BY <1>7, <2>3, Zenon DEF RequestFinalApproval, ContinueAfterNode, SaveAndGoTo
      <3>3. mem.task_state \in Live
        BY <1>7 DEF RequestFinalApproval, ContinueAfterNode, IndInv, PhaseInv, Live
      <3>4. mem'.task_state = "WAITING_APPROVAL"
        BY <1>1, <3>2, <3>3, EnterReaches DEF request_approval, Record
      <3> QED
        BY <2>1, <3>1, <3>4, TreeStays DEF TerminalState
    <2> QED
      BY <2>2, <2>3
  <1>8. CASE RunnerStep
    <2>1. \/ pc' \in Moving
          \/ SaveTerminal \/ FinishGraph \/ NodeRaised \/ NodeFailed \/ ChangesRequested
          \/ CancelNow \/ RequestFinalApproval \/ ContinueAfterNode
      BY <1>8 DEF RunnerStep, AdvanceStep, StartWorker, SetupRaises, StartVerification,
         SpawnReturns, SpawnRaises, WorkerEnds, VerificationPasses, VerificationFails,
         StartBaseline, BaselineTaken, BaselineRaises, NodeSucceeded, SaveAndGoTo, Moving, Await
    <2> QED
      BY <1>2, <1>3, <1>4, <1>5, <1>6, <1>7, <2>1
  <1>9. CASE CancelRun
    <2>1. CASE registered
      BY <1>9, <2>1, TreeStays DEF CancelRun, RequestCancel, Await
    <2>2. CASE ~registered
      BY <1>1, <1>9, <2>2, ConcludeReleases DEF CancelRun, Cancel, is_terminal
    <2> QED
      BY <2>1, <2>2
  <1>10. CASE Decide
    <2>1. disk.task_state \notin TerminalState
      BY <1>1, <1>10 DEF Decide, Approve, Reject, RequestChanges
    <2>2. CASE Approve \/ Reject
      BY <2>1, <2>2, ConcludeReleases DEF Approve, Reject, MoveOn
    <2>3. CASE RequestChanges
      BY <2>1, <2>3, ConcludeReleases DEF RequestChanges
    <2> QED
      BY <1>10, <2>2, <2>3 DEF Decide
  <1>11. CASE TaskEnds
    <2>1. /\ tree' = tree /\ pc' = "idle"
          /\ disk' = disk \/ disk' = [disk EXCEPT !.failure = "advance_failed"]
      BY <1>11 DEF TaskEnds
    <2> QED
      BY <1>1, <2>1, TreeStays DEF Record
  <1>12. CASE AdvanceRun \/ TaskBegins \/ Reply \/ StoreRaises \/ Crash \/ OrphanExits
              \/ UNCHANGED vars
    BY <1>12, TreeStays DEF AdvanceRun, TaskBegins, BeginAdvance, AdvanceRefused, Reply,
       StoreRaises, Crash, OrphanExits, vars, TreeInv, KnownTreeReleased
  <1> QED
    BY <1>8, <1>9, <1>10, <1>11, <1>12 DEF Next, Request, Server

\* A run that has ended has let go of the worktree its record knows of, or has told
\* that git would not, whatever the workflow and wherever crashes and store failures come (_release_worktree).
THEOREM KnownTreeAlwaysReleased == Spec => []KnownTreeReleased
  <1>1. Init => TreeInv
    BY DEF Init, RunnerInit, TreeInv, KnownTreeReleased
  <1>2. TreeInv => KnownTreeReleased
    BY DEF TreeInv
  <1> QED
    BY <1>1, <1>2, Invariance, NextTree, PTL DEF Spec

-----------------------------------------------------------------------------
(***************************************************************************)
(* A cancel that has been accepted.                                        *)
(***************************************************************************)

\* What advance has completed is stored before it goes on; and the flag of a
\* cancel is only ever up between the await it came in at and the task's end,
\* where nothing but the cancelled record itself is left to save.
ProgressInv ==
    /\ pc \in Moving => mem.completed_nodes = disk.completed_nodes
    /\ pc = "recorded" => node \in mem.completed_nodes
    /\ cancelling => registered /\ pc \notin {"idle", "loop", "recorded"}
    /\ cancelling /\ pc = "releasing" =>
          disk.pending = NoApproval /\ mem.completed_nodes = disk.completed_nodes

\* Steps that save nothing, or all of it, and leave the flag alone.
LEMMA ProgressStays ==
    ASSUME ProgressInv, ~cancelling', pc' # "recorded", pc' \notin Moving \/ mem' = disk'
    PROVE  ProgressInv'
  BY DEF ProgressInv

\* A call that concludes without a cancel.
LEMMA ConcludeProgress ==
    ASSUME NEW STATE r, Conclude(r), ~cancelling, UNCHANGED cancelling
    PROVE  ProgressInv'
  BY DEF Conclude, ProgressInv, Moving, Await

\* Steps from one await of a node to the next, or to its outcome.
LEMMA NodeGoesOn ==
    ASSUME ProgressInv, pc \in Moving, pc' \in Await \cup {"outcome"},
           mem'.completed_nodes = mem.completed_nodes,
           disk' \in {disk, mem'}, UNCHANGED <<cancelling, registered>>
    PROVE  ProgressInv'
  BY DEF ProgressInv, Moving, Await

\* The steps of the runner preserve it.
LEMMA RunnerProgress ==
    ASSUME IndInv, ProgressInv, RunnerStep
    PROVE  ProgressInv'
  <1>1. mem \in Record /\ disk \in Record /\ cancelling \in BOOLEAN
    BY DEF IndInv, ServiceTypeOK, TypeOK
  <1>2. UNCHANGED registered
    BY DEF RunnerStep, serviceVars
  <1>3. CASE \E n \in Node : StartWorker(n) \/ SetupRaises(n) \/ StartVerification(n)
    <2>1. mem'.completed_nodes = mem.completed_nodes
      BY <1>1, <1>3 DEF StartWorker, SetupRaises, StartVerification, Running, Record
    <2> QED
      BY <1>2, <1>3, <2>1, NodeGoesOn DEF StartWorker, SetupRaises, StartVerification,
         Executes, Moving, Await
  <1>4. CASE SpawnReturns \/ SpawnRaises \/ VerificationPasses \/ VerificationFails
             \/ StartBaseline
    BY <1>2, <1>4, NodeGoesOn DEF SpawnReturns, SpawnRaises, VerificationPasses,
       VerificationFails, StartBaseline, Moving, Await
  <1>5. CASE \E o \in Outcome \ {"none"}, named \in BOOLEAN : WorkerEnds(o, named)
    <2>1. mem'.completed_nodes = mem.completed_nodes
      BY <1>1, <1>5 DEF WorkerEnds, Record
    <2> QED
      BY <1>2, <1>5, <2>1, NodeGoesOn DEF WorkerEnds, Moving, Await
  <1>6. CASE \/ \E b \in {"clean", "red"}, o \in {"ok", "failed"} : BaselineTaken(b, o)
             \/ \E b \in Baseline : BaselineRaises(b)
    <2>1. mem'.completed_nodes = mem.completed_nodes
      BY <1>1, <1>6 DEF BaselineTaken, BaselineRaises, SaveAndGoTo, Record
    <2> QED
      BY <1>2, <1>6, <2>1, NodeGoesOn DEF BaselineTaken, BaselineRaises, SaveAndGoTo, Moving,
         Await
  <1>7. CASE CancelNow
    <2>1. CASE can_transition(mem.task_state, "CANCELLED")
      <3>1. /\ Conclude(cancelled(mem)) /\ cancelling' = cancelling /\ pc = "outcome"
            /\ cancelling
        BY <1>7, <2>1 DEF CancelNow
      <3>2. cancelled(mem).completed_nodes = mem.completed_nodes /\ is_terminal(cancelled(mem))
        BY <1>1, CancelledTyped DEF is_terminal, TerminalState
      <3>3. mem' = cancelled(mem) /\ pc' = "releasing" /\ disk' = disk
        BY <3>1, <3>2 DEF Conclude
      <3>4. disk.pending = NoApproval
        BY <3>1 DEF IndInv, LinkInv, Moving
      <3> QED
        BY <1>2, <3>1, <3>2, <3>3, <3>4 DEF ProgressInv, Moving, Await
    <2>2. CASE ~can_transition(mem.task_state, "CANCELLED")
      BY <1>2, <1>7, <2>2 DEF CancelNow, ProgressInv, Moving, Await
    <2> QED
      BY <2>1, <2>2
  <1>8. CASE NodeRaised \/ FinishGraph
    <2>1. ~cancelling
      BY <1>8 DEF NodeRaised, FinishGraph, ProgressInv
    <2> QED
      BY <1>8, <2>1, ConcludeProgress DEF NodeRaised, FinishGraph, Fail
  <1>9. CASE NodeFailed \/ ChangesRequested
    <2>1. ~cancelling /\ ~cancelling'
      BY <1>9 DEF NodeFailed, ChangesRequested, ProgressInv
    <2>2. CASE can_repair(mem)
      BY <1>9, <2>1, <2>2, ProgressStays DEF NodeFailed, ChangesRequested, Repair, SaveAndGoTo
    <2>3. CASE ~can_repair(mem)
      BY <1>9, <2>1, <2>3, ConcludeProgress DEF NodeFailed, ChangesRequested, Fail
    <2> QED
      BY <2>2, <2>3
  <1>10. CASE NodeSucceeded \/ RequestFinalApproval
    <2>1. CASE NodeSucceeded
      <3>1. node' = node /\ mem' = record_artifact(mem, node) /\ disk' = mem' /\ ~cancelling'
        BY <2>1 DEF NodeSucceeded, SaveAndGoTo
      <3>2. node \in mem'.completed_nodes
        BY <1>1, <2>1, <3>1, RecordArtifactTyped DEF NodeSucceeded, IndInv, NodeInv
      <3> QED
        BY <3>1, <3>2 DEF ProgressInv
    <2>2. CASE RequestFinalApproval
      BY <2>2, ProgressStays DEF RequestFinalApproval, SaveAndGoTo, ProgressInv
    <2> QED
      BY <1>10, <2>1, <2>2
  <1>11. CASE ContinueAfterNode
    <2>1. ~cancelling /\ ~cancelling' /\ pc = "recorded"
      BY <1>11 DEF ContinueAfterNode, ProgressInv
    <2>2. CASE Workflow.approval_after[node] # "none"
      BY <1>11, <2>1, <2>2, ProgressStays DEF ContinueAfterNode, SaveAndGoTo
    <2>3. CASE Workflow.approval_after[node] = "none"
      BY <1>11, <2>1, <2>3 DEF ContinueAfterNode, ProgressInv, Moving
    <2> QED
      BY <2>2, <2>3
  <1>12. CASE SaveTerminal
    BY <1>2, <1>12 DEF SaveTerminal, ProgressInv, Moving, Await
  <1> QED
    BY <1>3, <1>4, <1>5, <1>6, <1>7, <1>8, <1>9, <1>10, <1>11, <1>12
       DEF RunnerStep, AdvanceStep

\* Every step preserves it.
LEMMA NextProgress == IndInv /\ ProgressInv /\ [Next]_vars => ProgressInv'
  <1> SUFFICES ASSUME IndInv, ProgressInv, [Next]_vars PROVE ProgressInv'
    OBVIOUS
  <1>1. disk \in Record /\ cancelling \in BOOLEAN
    BY DEF IndInv, ServiceTypeOK, TypeOK
  <1>2. CASE RunnerStep
    BY <1>2, RunnerProgress
  <1>3. CASE CancelRun
    <2>1. CASE registered
      BY <1>3, <2>1 DEF CancelRun, RequestCancel, serviceVars, ProgressInv, Moving, Await
    <2>2. CASE ~registered
      BY <1>1, <1>3, <2>2, ConcludeProgress DEF CancelRun, Cancel, ProgressInv
    <2> QED
      BY <2>1, <2>2
  <1>4. CASE Decide
    <2>1. ~cancelling /\ UNCHANGED cancelling
      BY <1>4 DEF Decide, Approve, Reject, RequestChanges, ProgressInv
    <2>2. CASE Approve \/ Reject
      BY <2>1, <2>2, ConcludeProgress DEF Approve, Reject, MoveOn
    <2>3. CASE RequestChanges
      BY <2>1, <2>3, ConcludeProgress DEF RequestChanges
    <2> QED
      BY <1>4, <2>2, <2>3 DEF Decide
  <1>5. CASE TaskBegins
    <2>1. ~cancelling /\ ~cancelling'
      BY <1>5 DEF TaskBegins, BeginAdvance, AdvanceRefused, ProgressInv
    <2>2. CASE BeginAdvance
      <3>1. mem'.completed_nodes = disk.completed_nodes /\ disk' = disk /\ pc' = "loop"
        BY <1>1, <2>2 DEF BeginAdvance, Record
      <3> QED
        BY <2>1, <3>1 DEF ProgressInv
    <2>3. CASE AdvanceRefused
      BY <2>1, <2>3, ProgressStays DEF AdvanceRefused, Moving, Await
    <2> QED
      BY <1>5, <2>2, <2>3 DEF TaskBegins
  <1>6. CASE TaskEnds \/ Crash
    BY <1>6, ProgressStays DEF TaskEnds, Crash
  <1>7. CASE Reply
    BY <1>7, ProgressStays DEF Reply, ProgressInv
  <1>8. CASE StoreRaises
    <2>1. registered => registered'
      BY <1>8 DEF StoreRaises
    <2> QED
      BY <1>8, <2>1 DEF StoreRaises, ProgressInv, Moving, Await
  <1>9. CASE AdvanceRun \/ OrphanExits \/ UNCHANGED vars
    BY <1>9 DEF AdvanceRun, OrphanExits, vars, ProgressInv
  <1> QED
    BY <1>2, <1>3, <1>4, <1>5, <1>6, <1>7, <1>8, <1>9 DEF Next, Request, Server

\* The invariant holds throughout.
LEMMA Progress == Spec => []ProgressInv
  <1>1. Init => ProgressInv
    BY DEF Init, RunnerInit, ProgressInv, Moving, Await
  <1> QED
    BY <1>1, Invariance, NextProgress, PTL DEF Spec

\* An accepted cancel stops progress: whatever the workflow, and whatever crashes
\* and store failures follow, no node is completed, no repair round spent and no
\* human asked before the run stops (request_cancel, advance).
THEOREM CancelAlwaysStops == Spec => CancelStopsProgress
  <1> DEFINE Halted == cancelling => /\ disk'.completed_nodes = disk.completed_nodes
                                     /\ disk'.repair_rounds = disk.repair_rounds
                                     /\ disk'.pending = disk.pending
  <1>1. ASSUME IndInv, ProgressInv, [Next]_vars PROVE Halted
    <2> SUFFICES ASSUME cancelling, disk' # disk
                 PROVE  /\ disk'.completed_nodes = disk.completed_nodes
                        /\ disk'.repair_rounds = disk.repair_rounds
                        /\ disk'.pending = disk.pending
      BY Zenon
    <2>1. disk \in Record /\ mem \in Record /\ pc \notin {"idle", "loop", "recorded"}
      BY <1>1 DEF IndInv, ServiceTypeOK, TypeOK, ProgressInv
    <2>2. CASE SaveTerminal
      BY <1>1, <2>2 DEF SaveTerminal, IndInv, LinkInv, ProgressInv
    <2>3. CASE \/ \E b \in {"clean", "red"}, o \in {"ok", "failed"} : BaselineTaken(b, o)
               \/ \E b \in Baseline : BaselineRaises(b)
      <3>1. /\ disk'.completed_nodes = mem.completed_nodes
            /\ disk'.repair_rounds = mem.repair_rounds /\ disk'.pending = mem.pending
            /\ pc = "baseline"
        BY <2>1, <2>3 DEF BaselineTaken, BaselineRaises, SaveAndGoTo, Record
      <3> QED
        BY <1>1, <3>1 DEF IndInv, LinkInv, ProgressInv, Moving, Await
    <2>4. CASE TaskEnds
      BY <2>1, <2>4 DEF TaskEnds, Record
    <2>5. CASE CancelNow
      <3>1. is_terminal(cancelled(mem))
        BY <2>1, CancelledTyped DEF is_terminal, TerminalState
      <3> QED
        BY <2>5, <3>1 DEF CancelNow, Conclude
    <2> QED
      BY <1>1, <2>1, <2>2, <2>3, <2>4, <2>5 DEF Next, Request, Server, AdvanceRun, CancelRun,
         RequestCancel, Cancel, Decide, Approve, Reject, RequestChanges, TaskBegins,
         BeginAdvance, AdvanceRefused, Reply, StoreRaises, Crash, OrphanExits, vars,
         RunnerStep, AdvanceStep, FinishGraph, RequestFinalApproval, StartWorker, SetupRaises,
         StartVerification, Executes, SpawnReturns, SpawnRaises, WorkerEnds,
         VerificationPasses, VerificationFails, StartBaseline, NodeRaised,
         NodeFailed, NodeSucceeded, ChangesRequested, ContinueAfterNode
  <1> QED
    BY <1>1, Invariance, Progress, PTL DEF Spec, CancelStopsProgress

-----------------------------------------------------------------------------
(***************************************************************************)
(* Whose conversation a worker continues.                                  *)
(***************************************************************************)

\* What precedes m and is not replayed by repairs has been completed for good.
Settled(r, m) == \A n \in Node \ RepairNodes : Precedes(n, m) => n \in r.completed_nodes

\* The sessions of a record are of nodes of their worker that have been started.
SessionsOf(r) ==
    \A q \in Requirement : \A m \in r.sessions[q] :
        /\ m \in Node /\ ByWorker(m)
        /\ Workflow.worker_requirement[m] = q
        /\ Settled(r, m)

SessionInv ==
    /\ SessionsOf(disk)
    /\ SessionsOf(mem)
    /\ OwnConversation
    /\ pc \in {"starting", "collecting"} => ByWorker(node)

\* Completing nodes, and a repair's forgetting them, keep what is settled.
LEMMA SessionsKept ==
    ASSUME NEW r, NEW s, SessionsOf(r), s.sessions = r.sessions,
           r.completed_nodes \ RepairNodes \subseteq s.completed_nodes
    PROVE  SessionsOf(s)
  BY DEF SessionsOf, Settled

\* The updates of a record keep its sessions, and all that repairs do not replay.
LEMMA UpdatesKeepSessions ==
    ASSUME NEW r \in Record, SessionsOf(r)
    PROVE  /\ r.task_state \in {"RUNNING", "VERIFYING", "WAITING_APPROVAL"} /\ can_repair(r)
                 => SessionsOf(start_repair(r))
           /\ \A reason : SessionsOf(fail(r, reason))
           /\ SessionsOf(cancelled(r))
           /\ \A n \in Node : SessionsOf(record_artifact(r, n))
           /\ \A n \in Node : \A kind : SessionsOf(request_approval(r, n, kind))
  <1>1. start_repair(r).sessions = r.sessions
    BY DEF start_repair, Record
  <1>2. ASSUME NEW reason PROVE SessionsOf(fail(r, reason))
    <2>1. /\ fail(r, reason).sessions = r.sessions
          /\ fail(r, reason).completed_nodes = r.completed_nodes
      BY DEF fail, Record
    <2> QED
      BY <2>1, SessionsKept, Zenon
  <1>3. SessionsOf(cancelled(r))
    <2>1. cancelled(r).sessions = r.sessions /\ cancelled(r).completed_nodes = r.completed_nodes
      BY DEF cancelled, Record
    <2> QED
      BY <2>1, SessionsKept, Zenon
  <1>4. ASSUME NEW n \in Node PROVE SessionsOf(record_artifact(r, n))
    <2>1. /\ record_artifact(r, n).sessions = r.sessions
          /\ record_artifact(r, n).completed_nodes = r.completed_nodes \cup {n}
      BY RecordArtifactTyped DEF record_artifact, Record
    <2> QED
      BY <2>1, SessionsKept, Zenon
  <1>5. ASSUME NEW n \in Node, NEW kind PROVE SessionsOf(request_approval(r, n, kind))
    <2>1. /\ request_approval(r, n, kind).sessions = r.sessions
          /\ request_approval(r, n, kind).completed_nodes = r.completed_nodes
      BY DEF request_approval, Record
    <2> QED
      BY <2>1, SessionsKept, Zenon
  <1>6. ASSUME r.task_state \in {"RUNNING", "VERIFYING", "WAITING_APPROVAL"}, can_repair(r)
        PROVE  SessionsOf(start_repair(r))
    <2>1. start_repair(r).completed_nodes = r.completed_nodes \ RepairNodes
      BY <1>6, StartRepairTyped
    <2> QED
      BY <1>1, <2>1, SessionsKept, Zenon
  <1> QED
    BY <1>2, <1>3, <1>4, <1>5, <1>6

\* Whatever precedes the next node is completed.
LEMMA NextIsSettled ==
    ASSUME NEW r, IsPrefix(r), next_node(r) # NoNode
    PROVE  Settled(r, next_node(r)) /\ next_node(r) \notin r.completed_nodes
  <1>1. PICK k \in 0..Len(Order) : r.completed_nodes = Prefix(k)
    BY DEF IsPrefix
  <1>2. k < Len(Order)
    BY <1>1, NextAfterAll, OrderFacts DEF next_node
  <1>3. next_node(r) = Order[k + 1]
    BY <1>1, <1>2, NextAfterPrefix DEF next_node
  <1>4. ASSUME NEW n \in Node, Precedes(n, next_node(r)) PROVE n \in Prefix(k)
    <2>1. PICK i \in 1..Len(Order) : Order[i] = n
      BY OrderFacts
    <2>2. i < k + 1
      BY <1>2, <1>3, <1>4, <2>1, OrderFacts DEF Precedes
    <2> QED
      BY <2>1, <2>2 DEF Prefix
  <1>5. Order[k + 1] \notin Prefix(k)
    BY <1>2, OrderFacts, OrderTopological DEF Prefix
  <1> QED
    BY <1>1, <1>3, <1>4, <1>5 DEF Settled

\* In a graph with separate sessions the next node finds no conversation but its
\* own (_build_request).
LEMMA ResumesOwn ==
    ASSUME SeparateSessions, NEW r, SessionsOf(r), IsPrefix(r), next_node(r) \in Node,
           ByWorker(next_node(r))
    PROVE  resume_from(r, next_node(r)) \subseteq {next_node(r)}
  <1> DEFINE n == next_node(r)
  <1>1. n # NoNode
    BY WorkflowTyped
  <1>2. n \notin r.completed_nodes
    BY <1>1, NextIsSettled
  <1> SUFFICES ASSUME NEW m \in resume_from(r, n), m # n PROVE FALSE
    OBVIOUS
  <1>3. n \notin Workflow.new_session /\ m \in r.sessions[Workflow.worker_requirement[n]]
    BY DEF resume_from
  <1>4. Workflow.worker_requirement[n] \in Requirement
    BY DEF Requirement
  <1>5. /\ m \in Node /\ ByWorker(m) /\ Settled(r, m)
        /\ Workflow.worker_requirement[m] = Workflow.worker_requirement[n]
    BY <1>3, <1>4 DEF SessionsOf
  <1>6. n \notin RepairNodes /\ Precedes(n, m)
    BY <1>3, <1>5 DEF SeparateSessions
  <1> QED
    BY <1>2, <1>5, <1>6 DEF Settled

\* Keeping the session of the worker that ended (_run_worker).
LEMMA SessionAdded ==
    ASSUME NEW r \in Record, SessionsOf(r), IsPrefix(r), NEW n \in Node, n = next_node(r),
           ByWorker(n), NEW resumed, resumed \subseteq {n}
    PROVE  SessionsOf([r EXCEPT !.sessions[Workflow.worker_requirement[n]] = resumed \cup {n}])
  <1> DEFINE q == Workflow.worker_requirement[n]
             s == [r EXCEPT !.sessions[q] = resumed \cup {n}]
  <1>1. q \in Requirement
    BY DEF Requirement
  <1>2. resumed \cup {n} = {n}
    OBVIOUS
  <1>3. s = [r EXCEPT !.sessions[q] = {n}]
    BY <1>2
  <1>4. /\ s.completed_nodes = r.completed_nodes
        /\ s.sessions[q] = {n}
        /\ \A p \in Requirement \ {q} : s.sessions[p] = r.sessions[p]
    BY <1>1, <1>3 DEF Record
  <1>5. Settled(r, n)
    BY NextIsSettled, WorkflowTyped
  <1> HIDE DEF s
  <1>6. Settled(s, n) /\ \A m : Settled(r, m) => Settled(s, m)
    BY <1>4, <1>5 DEF Settled
  <1>7. SessionsOf(s)
    BY <1>4, <1>6 DEF SessionsOf
  <1> QED
    BY <1>7 DEF s

\* A step that leaves no worker running needs only the records looked at.
LEMMA NoWorkerStep ==
    ASSUME pc' \notin {"starting", "collecting"}, SessionsOf(disk'), SessionsOf(mem')
    PROVE  SessionInv'
  <1>1. SessionsOf(disk)' /\ SessionsOf(mem)'
    BY DEF SessionsOf, Settled, Precedes, ByWorker
  <1> QED
    BY <1>1 DEF SessionInv, OwnConversation

\* A call that concludes.
LEMMA ConcludeSessions ==
    ASSUME NEW STATE r, Conclude(r), SessionsOf(r), SessionsOf(disk)
    PROVE  SessionInv'
  <1>1. mem' = r /\ disk' \in {r, disk} /\ pc' \in {"releasing", "returned"}
    BY DEF Conclude
  <1> QED
    BY <1>1, NoWorkerStep

\* The steps of the runner preserve it, in a graph with separate sessions.
LEMMA RunnerSessions ==
    ASSUME SeparateSessions, IndInv, SessionInv, RunnerStep
    PROVE  SessionInv'
  <1>1. /\ mem \in Record /\ disk \in Record /\ IsPrefix(mem)
        /\ SessionsOf(mem) /\ SessionsOf(disk)
    BY DEF IndInv, ServiceTypeOK, TypeOK, CompletedIsPrefix, SessionInv
  <1>2. CASE \E n \in Node : StartWorker(n)
    <2>1. PICK n \in Node : StartWorker(n)
      BY <1>2
    <2>2. n = next_node(mem) /\ ByWorker(n) /\ node' = n /\ disk' = disk
      BY <2>1 DEF StartWorker, Executes, ByWorker
    <2>3. worker'.resumed = resume_from(mem, n)
      BY <2>1 DEF StartWorker, NoWorker
    <2>4. worker'.resumed \subseteq {n}
      BY <1>1, <2>2, <2>3, ResumesOwn
    <2>5. /\ mem'.sessions = mem.sessions /\ mem'.completed_nodes = mem.completed_nodes
      BY <1>1, <2>1 DEF StartWorker, Running, Record
    <2>6. SessionsOf(mem') /\ SessionsOf(disk')
      BY <1>1, <2>2, <2>5, SessionsKept
    <2>7. SessionsOf(disk)' /\ SessionsOf(mem)'
      BY <2>6 DEF SessionsOf, Settled, Precedes, ByWorker
    <2>8. ByWorker(node)'
      BY <2>2 DEF ByWorker
    <2> QED
      BY <2>2, <2>4, <2>7, <2>8 DEF SessionInv, OwnConversation
  <1>3. CASE \E n \in Node : SetupRaises(n) \/ StartVerification(n)
    <2>1. /\ mem'.sessions = mem.sessions /\ mem'.completed_nodes = mem.completed_nodes
          /\ disk' = disk /\ pc' \notin {"starting", "collecting"}
      BY <1>1, <1>3 DEF SetupRaises, StartVerification, Running, Record
    <2> QED
      BY <1>1, <2>1, SessionsKept, NoWorkerStep
  <1>4. CASE SpawnReturns
    <2>1. /\ mem' = mem /\ disk' = disk /\ node' = node /\ worker'.resumed = worker.resumed
          /\ pc = "starting"
      BY <1>4 DEF SpawnReturns, IndInv, ServiceTypeOK, TypeOK, Worker
    <2>2. SessionsOf(disk)' /\ SessionsOf(mem)' /\ ByWorker(node)'
      BY <1>1, <2>1 DEF SessionsOf, Settled, Precedes, ByWorker, SessionInv
    <2> QED
      BY <2>1, <2>2 DEF SessionInv, OwnConversation
  <1>5. CASE SpawnRaises \/ VerificationPasses \/ VerificationFails \/ StartBaseline
    BY <1>1, <1>5, NoWorkerStep DEF SpawnRaises, VerificationPasses, VerificationFails,
       StartBaseline
  <1>6. CASE \E o \in Outcome \ {"none"}, named \in BOOLEAN : WorkerEnds(o, named)
    <2>1. /\ disk' = disk /\ pc' = "outcome" /\ pc = "collecting"
          /\ \/ mem' = mem
             \/ mem' = [mem EXCEPT !.sessions[Workflow.worker_requirement[node]] =
                                      worker.resumed \cup {node}]
      BY <1>6 DEF WorkerEnds
    <2>2. /\ node \in Node /\ node = next_node(mem) /\ ByWorker(node)
          /\ worker.resumed \subseteq {node}
      BY <2>1 DEF IndInv, NodeInv, Await, SessionInv, OwnConversation
    <2>3. SessionsOf(mem')
      BY <1>1, <2>1, <2>2, SessionAdded
    <2> QED
      BY <1>1, <2>1, <2>3, NoWorkerStep
  <1>7. CASE \/ \E b \in {"clean", "red"}, o \in {"ok", "failed"} : BaselineTaken(b, o)
             \/ \E b \in Baseline : BaselineRaises(b)
    <2>1. /\ mem'.sessions = mem.sessions /\ mem'.completed_nodes = mem.completed_nodes
          /\ disk' \in {disk, mem'} /\ pc' = "outcome"
      BY <1>1, <1>7 DEF BaselineTaken, BaselineRaises, SaveAndGoTo, Record
    <2>2. SessionsOf(mem')
      BY <1>1, <2>1, SessionsKept
    <2> QED
      BY <1>1, <2>1, <2>2, NoWorkerStep
  <1>8. CASE CancelNow
    <2>1. CASE can_transition(mem.task_state, "CANCELLED")
      BY <1>1, <1>8, <2>1, UpdatesKeepSessions, ConcludeSessions DEF CancelNow
    <2>2. CASE ~can_transition(mem.task_state, "CANCELLED")
      BY <1>1, <1>8, <2>2, NoWorkerStep DEF CancelNow
    <2> QED
      BY <2>1, <2>2
  <1>9. CASE NodeRaised \/ FinishGraph
    BY <1>1, <1>9, UpdatesKeepSessions, ConcludeSessions DEF NodeRaised, FinishGraph, Fail
  <1>10. CASE NodeFailed \/ ChangesRequested
    <2>1. CASE can_repair(mem)
      <3>1. mem.task_state \in {"RUNNING", "VERIFYING"}
        BY <1>10 DEF NodeFailed, ChangesRequested, IndInv, PhaseInv
      <3>2. SessionsOf(start_repair(mem))
        BY <1>1, <2>1, <3>1, UpdatesKeepSessions
      <3> QED
        BY <1>10, <2>1, <3>2, NoWorkerStep DEF NodeFailed, ChangesRequested, Repair, SaveAndGoTo
    <2>2. CASE ~can_repair(mem)
      BY <1>1, <1>10, <2>2, UpdatesKeepSessions, ConcludeSessions
         DEF NodeFailed, ChangesRequested, Fail
    <2> QED
      BY <2>1, <2>2
  <1>11. CASE NodeSucceeded
    <2>1. node \in Node
      BY <1>11 DEF NodeSucceeded, IndInv, NodeInv
    <2>2. SessionsOf(record_artifact(mem, node))
      BY <1>1, <2>1, UpdatesKeepSessions
    <2> QED
      BY <1>11, <2>2, NoWorkerStep DEF NodeSucceeded, SaveAndGoTo
  <1>12. CASE RequestFinalApproval
    <2>1. next_node(mem) \in Node
      BY <1>1, <1>12, NextNodeExtends DEF RequestFinalApproval
    <2>2. SessionsOf(request_approval(mem, next_node(mem), "final_result"))
      BY <1>1, <2>1, UpdatesKeepSessions
    <2> QED
      BY <1>12, <2>2, NoWorkerStep DEF RequestFinalApproval, SaveAndGoTo
  <1>13. CASE ContinueAfterNode
    <2>1. node \in Node
      BY <1>13 DEF ContinueAfterNode, IndInv, NodeInv
    <2>2. SessionsOf(request_approval(mem, node, Workflow.approval_after[node]))
      BY <1>1, <2>1, UpdatesKeepSessions
    <2>3. CASE Workflow.approval_after[node] # "none"
      BY <1>13, <2>2, <2>3, NoWorkerStep DEF ContinueAfterNode, SaveAndGoTo
    <2>4. CASE Workflow.approval_after[node] = "none"
      BY <1>1, <1>13, <2>4, NoWorkerStep DEF ContinueAfterNode
    <2> QED
      BY <2>3, <2>4
  <1>14. CASE SaveTerminal
    BY <1>1, <1>14, NoWorkerStep DEF SaveTerminal
  <1> QED
    BY <1>2, <1>3, <1>4, <1>5, <1>6, <1>7, <1>8, <1>9, <1>10, <1>11, <1>12, <1>13, <1>14
       DEF RunnerStep, AdvanceStep

\* Every step preserves it.
LEMMA NextSessions ==
    SeparateSessions /\ IndInv /\ SessionInv /\ [Next]_vars => SessionInv'
  <1> SUFFICES ASSUME SeparateSessions, IndInv, SessionInv, [Next]_vars PROVE SessionInv'
    OBVIOUS
  <1>1. /\ mem \in Record /\ disk \in Record /\ SessionsOf(mem) /\ SessionsOf(disk)
    BY DEF IndInv, ServiceTypeOK, TypeOK, SessionInv
  <1>2. CASE RunnerStep
    BY <1>2, RunnerSessions
  <1>3. CASE CancelRun
    <2>1. CASE registered
      <3>1. /\ mem' = mem /\ disk' = disk /\ node' = node /\ worker'.resumed = worker.resumed
            /\ pc' = pc
        BY <1>3, <2>1 DEF CancelRun, RequestCancel, IndInv, ServiceTypeOK, TypeOK, Worker
      <3>2. SessionsOf(disk)' /\ SessionsOf(mem)'
        BY <1>1, <3>1 DEF SessionsOf, Settled, Precedes, ByWorker
      <3> QED
        BY <3>1, <3>2 DEF SessionInv, OwnConversation, ByWorker
    <2>2. CASE ~registered
      BY <1>1, <1>3, <2>2, UpdatesKeepSessions, ConcludeSessions DEF CancelRun, Cancel
    <2> QED
      BY <2>1, <2>2
  <1>4. CASE Decide
    <2>1. /\ Answered \in Record /\ Answered.sessions = disk.sessions
          /\ Answered.completed_nodes = disk.completed_nodes
          /\ Answered.repair_rounds = disk.repair_rounds
          /\ Answered.task_state = disk.task_state
      BY <1>1 DEF Answered, Record
    <2>2. SessionsOf(Answered)
      BY <1>1, <2>1, SessionsKept, Zenon
    <2>3. CASE Approve \/ Reject
      <3>1. PICK t : MoveOn(t)
        BY <2>3 DEF Approve, Reject
      <3> DEFINE r == [Answered EXCEPT !.task_state = t,
                          !.failure = IF t = "CANCELLED" THEN "rejected" ELSE @]
      <3>2. Conclude(r)
        BY <3>1 DEF MoveOn
      <3>3. r.sessions = Answered.sessions /\ r.completed_nodes = Answered.completed_nodes
        BY <2>1 DEF Record
      <3> HIDE DEF r
      <3>4. SessionsOf(r)
        BY <2>2, <3>3, SessionsKept, Zenon
      <3> QED
        BY <1>1, <3>2, <3>4, ConcludeSessions
    <2>4. CASE RequestChanges
      <3>1. disk.task_state = "WAITING_APPROVAL"
        BY <2>4 DEF RequestChanges, IndInv, LinkInv
      <3>2. can_repair(disk) => SessionsOf(start_repair(Answered))
        BY <2>1, <2>2, <3>1, UpdatesKeepSessions DEF can_repair
      <3>3. SessionsOf(fail(Answered, "failed"))
        BY <2>1, <2>2, UpdatesKeepSessions
      <3> QED
        BY <1>1, <2>4, <3>2, <3>3, ConcludeSessions DEF RequestChanges
    <2> QED
      BY <1>4, <2>3, <2>4 DEF Decide
  <1>5. CASE TaskBegins
    <2>1. CASE BeginAdvance
      <3>1. /\ mem'.sessions = disk.sessions /\ mem'.completed_nodes = disk.completed_nodes
            /\ disk' = disk /\ pc' = "loop"
        BY <1>1, <2>1 DEF BeginAdvance, Record
      <3> QED
        BY <1>1, <3>1, SessionsKept, NoWorkerStep
    <2>2. CASE AdvanceRefused
      BY <1>1, <2>2, NoWorkerStep DEF AdvanceRefused
    <2> QED
      BY <1>5, <2>1, <2>2 DEF TaskBegins
  <1>6. CASE TaskEnds
    <2>1. /\ disk'.sessions = disk.sessions /\ disk'.completed_nodes = disk.completed_nodes
          /\ mem' = disk' /\ pc' = "idle"
      BY <1>1, <1>6 DEF TaskEnds, Record
    <2>2. SessionsOf(disk')
      BY <1>1, <2>1, SessionsKept
    <2> QED
      BY <2>1, <2>2, NoWorkerStep
  <1>7. CASE Reply \/ Crash \/ StoreRaises
    BY <1>1, <1>7, NoWorkerStep DEF Reply, Crash, StoreRaises
  <1>8. CASE AdvanceRun \/ OrphanExits \/ UNCHANGED vars
    <2>1. UNCHANGED <<disk, mem, pc, node, worker>>
      BY <1>8 DEF AdvanceRun, OrphanExits, vars
    <2>2. SessionsOf(disk)' /\ SessionsOf(mem)'
      BY <1>1, <2>1 DEF SessionsOf, Settled, Precedes, ByWorker
    <2> QED
      BY <2>1, <2>2 DEF SessionInv, OwnConversation, ByWorker
  <1> QED
    BY <1>2, <1>3, <1>4, <1>5, <1>6, <1>7, <1>8 DEF Next, Request, Server

\* In every workflow whose nodes do not share a conversation by design, no worker
\* is ever started from another node's, over any sequence of repairs, crashes and
\* requests (_build_request, RunRecord.sessions).
THEOREM ConversationAlwaysOwn == SeparateSessions => (Spec => []OwnConversation)
  <1> SUFFICES ASSUME SeparateSessions PROVE Spec => []OwnConversation
    OBVIOUS
  <1>1. Init => SessionInv
    <2> SUFFICES ASSUME Init PROVE SessionInv
      OBVIOUS
    <2>1. disk = NewRecord /\ mem = NewRecord /\ pc = "idle"
      BY DEF Init, RunnerInit
    <2>2. \A q \in Requirement : NewRecord.sessions[q] = {}
      BY DEF NewRecord
    <2> QED
      BY <2>1, <2>2 DEF SessionInv, SessionsOf, OwnConversation
  <1>2. SessionInv => OwnConversation
    BY DEF SessionInv
  <1>3. IndInv /\ SessionInv /\ [Next]_vars => SessionInv'
    BY NextSessions
  <1> QED
    BY <1>1, <1>2, <1>3, Invariance, PTL DEF Spec

-----------------------------------------------------------------------------
(***************************************************************************)
(* What a completed run has behind it.                                     *)
(***************************************************************************)

\* Everything that is not a human's is done, and p is all there is of theirs.
Earned(r, p) ==
    \A n \in Node : IF is_human(Workflow, n) THEN n = p ELSE n \in r.completed_nodes

\* ... and has been approved.
Approved(r) ==
    \A n \in Node : IF is_human(Workflow, n) THEN verdict[n] = "approve"
                                             ELSE n \in r.completed_nodes

\* A final result is put to a human only when all the work is done, and what is
\* approved stays so until it is saved.
FinalInv ==
    /\ disk.pending.kind = "final_result" => Earned(disk, disk.pending.node)
    /\ pc = "releasing" /\ mem.task_state = "COMPLETED" => Approved(mem)
    /\ CompletionIsEarned

\* A node has one position.
LEMMA OnePosition ==
    ASSUME NEW i \in 1..Len(Order), NEW j \in 1..Len(Order), Order[i] = Order[j]
    PROVE  i = j
  BY OrderTopological

\* A graph that ends at its final gate has every other node before it.
LEMMA FinalIsLast ==
    ASSUME EndsAtFinal, NEW r, IsPrefix(r), NEW p \in Node,
           \/ is_human(Workflow, p) /\ p = next_node(r)
           \/ Workflow.approval_after[p] = "final_result" /\ p \in r.completed_nodes
    PROVE  Earned(r, p)
  <1>0. Len(Order) \in Nat \ {0}
    BY OrderFacts
  <1>1. p = Order[Len(Order)] /\ \A n \in Node : is_human(Workflow, n) => n = p
    BY DEF EndsAtFinal
  <1>2. PICK k \in 0..Len(Order) : r.completed_nodes = Prefix(k)
    BY DEF IsPrefix
  <1>3. k >= Len(Order) - 1
    <2>1. CASE p \in r.completed_nodes
      <3>1. PICK i \in 1..k : Order[i] = p
        BY <1>2, <2>1 DEF Prefix
      <3>2. i = Len(Order)
        BY <1>0, <1>1, <1>2, <3>1, OnePosition
      <3> QED
        BY <1>0, <1>2, <3>1, <3>2
    <2>2. CASE p = next_node(r)
      <3>1. k < Len(Order)
        BY <1>2, <2>2, NextAfterAll, OrderFacts, WorkflowTyped DEF next_node
      <3>2. Order[k + 1] = p
        BY <1>2, <2>2, <3>1, NextAfterPrefix DEF next_node
      <3>3. k + 1 = Len(Order)
        BY <1>0, <1>1, <1>2, <3>1, <3>2, OnePosition
      <3> QED
        BY <1>0, <1>2, <3>3
    <2> QED
      BY <2>1, <2>2
  <1>4. ASSUME NEW n \in Node, n # p PROVE n \in r.completed_nodes
    <2>1. PICK i \in 1..Len(Order) : Order[i] = n
      BY OrderFacts
    <2>2. i # Len(Order)
      BY <1>1, <1>4, <2>1
    <2>3. i \in 1..k
      BY <1>0, <1>2, <1>3, <2>1, <2>2
    <2> QED
      BY <1>2, <2>1, <2>3 DEF Prefix
  <1> QED
    BY <1>1, <1>4 DEF Earned

\* A call that concludes without completing the run.
LEMMA ConcludeFinal ==
    ASSUME FinalInv, NEW STATE r, Conclude(r), disk.task_state \notin TerminalState,
           r.task_state # "COMPLETED", r.pending = NoApproval
    PROVE  FinalInv'
  <1>1. /\ mem' = r /\ disk' \in {r, disk} /\ mem'.task_state # "COMPLETED"
        /\ disk'.task_state # "COMPLETED"
    BY DEF Conclude, TerminalState
  <1>2. disk'.pending.kind = "final_result" => disk' = disk
    BY <1>1 DEF NoApproval
  <1>3. disk'.pending.kind = "final_result" => Earned(disk, disk.pending.node)'
    BY <1>2 DEF FinalInv, Earned
  <1> QED
    BY <1>1, <1>3 DEF FinalInv, CompletionIsEarned

\* Steps that leave what is stored, and what is decided, alone.
LEMMA FinalStays ==
    ASSUME FinalInv, pc' # "releasing", verdict' = verdict,
           disk'.pending = disk.pending, disk'.task_state = disk.task_state,
           disk'.completed_nodes = disk.completed_nodes
    PROVE  FinalInv'
  <1>1. Earned(disk, disk.pending.node) => Earned(disk, disk.pending.node)'
    BY DEF Earned
  <1> QED
    BY <1>1 DEF FinalInv, CompletionIsEarned

\* A gate is asked for, the final one with all the work done (_request_approval).
LEMMA AskedFinal ==
    ASSUME EndsAtFinal, NEW STATE r, r \in Record, IsPrefix(r), r.task_state \in Live,
           NEW STATE p, p \in Node, NEW STATE kind, kind \in ApprovalKind,
           \/ is_human(Workflow, p) /\ p = next_node(r)
           \/ Workflow.approval_after[p] = kind /\ p \in r.completed_nodes,
           disk' = request_approval(r, p, kind), pc' # "releasing"
    PROVE  FinalInv'
  <1>1. /\ disk'.task_state = "WAITING_APPROVAL"
        /\ disk'.pending = [kind |-> kind, node |-> p]
        /\ disk'.completed_nodes = r.completed_nodes
    BY RequestApprovalTyped
  <1>2. disk'.pending.kind = "final_result" => Earned(r, p)
    BY <1>1, FinalIsLast
  <1>3. disk'.pending.kind = "final_result" => Earned(disk, disk.pending.node)'
    BY <1>1, <1>2 DEF Earned
  <1> QED
    BY <1>1, <1>3 DEF FinalInv, CompletionIsEarned

\* Approval of the final result (decide): the run that is about to be saved as
\* completed has earned it.
LEMMA ApprovedFinal ==
    ASSUME IndInv, FinalInv, Approve, disk.pending.kind = "final_result"
    PROVE  FinalInv'
  <1> DEFINE r == [Answered EXCEPT !.task_state = "COMPLETED", !.failure = Answered.failure]
  <1>1. disk \in Record /\ verdict \in [Node -> Verdict]
    BY DEF IndInv, ServiceTypeOK, TypeOK
  <1>2. disk.pending \in Approval
    BY <1>1 DEF Record, NoApproval
  <1>3. Conclude(r)
    BY Zenon DEF Approve, MoveOn
  <1>4. r.task_state = "COMPLETED" /\ r.completed_nodes = disk.completed_nodes
    BY <1>1 DEF Answered, Record
  <1> HIDE DEF r
  <1>5. mem' = r /\ disk' = disk
    BY <1>3, <1>4 DEF Conclude, is_terminal, TerminalState
  <1>6. verdict' = [verdict EXCEPT ![disk.pending.node] = "approve"]
    BY DEF Approve, Decided
  <1>7. Earned(disk, disk.pending.node)
    BY DEF FinalInv
  <1>8. Earned(disk, disk.pending.node)' /\ disk'.task_state # "COMPLETED"
    BY <1>5, <1>7 DEF Earned, IndInv, LinkInv, Approve
  <1>9. Approved(mem)'
    BY <1>1, <1>2, <1>4, <1>5, <1>6, <1>7 DEF Approved, Earned, Approval
  <1> QED
    BY <1>8, <1>9 DEF FinalInv, CompletionIsEarned

\* Every step preserves it, in a graph that asks for its final result at its end.
LEMMA NextFinal ==
    EndsAtFinal /\ IndInv /\ IndInv' /\ ProgressInv /\ FinalInv /\ [Next]_vars => FinalInv'
  <1> SUFFICES ASSUME EndsAtFinal, IndInv, IndInv', ProgressInv, FinalInv, [Next]_vars
               PROVE  FinalInv'
    OBVIOUS
  <1>1. /\ disk \in Record /\ mem \in Record /\ IsPrefix(mem)
        /\ pc \in Moving \cup {"releasing"} => disk.task_state \notin TerminalState
        /\ pc \in Moving \cup {"releasing"} => mem.pending = NoApproval
        /\ disk.pending # NoApproval => disk.task_state \notin TerminalState
    BY DEF IndInv, ServiceTypeOK, TypeOK, LinkInv, TerminalState, CompletedIsPrefix
  <1>2. CASE pc' \in Moving
    <2>1. /\ disk'.task_state \notin TerminalState /\ disk'.pending = NoApproval
          /\ pc' # "releasing"
      BY <1>2 DEF IndInv, LinkInv, Moving, Await
    <2>2. disk'.pending.kind # "final_result"
      BY <2>1 DEF NoApproval
    <2> QED
      BY <2>1, <2>2 DEF FinalInv, CompletionIsEarned, TerminalState
  <1>3. CASE SaveTerminal
    <2>1. disk' = mem /\ pc = "releasing" /\ verdict' = verdict /\ pc' = "returned"
      BY <1>3 DEF SaveTerminal
    <2>2. disk'.pending.kind # "final_result"
      BY <1>1, <2>1 DEF NoApproval
    <2>3. CompletionIsEarned'
      BY <2>1 DEF FinalInv, CompletionIsEarned, Approved
    <2> QED
      BY <2>1, <2>2, <2>3 DEF FinalInv
  <1>4. CASE FinishGraph \/ NodeRaised
    <2>1. PICK reason \in FailureReason : Conclude(fail(mem, reason))
      BY <1>4 DEF FinishGraph, NodeRaised, Fail, FailureReason
    <2>2. /\ mem.task_state \notin TerminalState /\ mem.pending = NoApproval
          /\ disk.task_state \notin TerminalState
      BY <1>1, <1>4 DEF FinishGraph, NodeRaised, IndInv, PhaseInv, Live, TerminalState, Moving
    <2>3. fail(mem, reason).task_state # "COMPLETED" /\ fail(mem, reason).pending = NoApproval
      BY <1>1, <2>2, FailTyped DEF TerminalState
    <2> QED
      BY <2>1, <2>2, <2>3, ConcludeFinal
  <1>5. CASE NodeFailed \/ ChangesRequested
    <2>1. CASE can_repair(mem)
      BY <1>2, <1>5, <2>1 DEF NodeFailed, ChangesRequested, Repair, SaveAndGoTo, Moving
    <2>2. CASE ~can_repair(mem)
      <3>1. /\ mem.task_state \in {"RUNNING", "VERIFYING"} /\ mem.pending = NoApproval
            /\ disk.task_state \notin TerminalState
        BY <1>1, <1>5 DEF NodeFailed, ChangesRequested, IndInv, PhaseInv, Moving
      <3>2. /\ fail(mem, "failed").task_state # "COMPLETED"
            /\ fail(mem, "failed").pending = NoApproval
        BY <1>1, <3>1, FailTyped DEF FailureReason
      <3> QED
        BY <1>5, <2>2, <3>1, <3>2, ConcludeFinal DEF NodeFailed, ChangesRequested, Fail
    <2> QED
      BY <2>1, <2>2
  <1>6. CASE CancelNow
    <2>1. CASE can_transition(mem.task_state, "CANCELLED")
      BY <1>1, <1>6, <2>1, CancelledTyped, ConcludeFinal DEF CancelNow, Moving
    <2>2. CASE ~can_transition(mem.task_state, "CANCELLED")
      BY <1>6, <2>2, FinalStays DEF CancelNow
    <2> QED
      BY <2>1, <2>2
  <1>7. CASE RequestFinalApproval
    <2>1. /\ next_node(mem) \in Node /\ is_human(Workflow, next_node(mem))
          /\ mem.task_state \in Live
      BY <1>1, <1>7, NextNodeExtends DEF RequestFinalApproval, IndInv, PhaseInv
    <2>2. disk' = request_approval(mem, next_node(mem), "final_result") /\ pc' # "releasing"
      BY <1>7 DEF RequestFinalApproval, SaveAndGoTo
    <2>3. "final_result" \in ApprovalKind
      BY DEF ApprovalKind
    <2> QED
      BY <1>1, <2>1, <2>2, <2>3, AskedFinal
  <1>8. CASE ContinueAfterNode
    <2>1. /\ node \in Node /\ mem.task_state \in Live /\ pc = "recorded"
      BY <1>8 DEF ContinueAfterNode, IndInv, NodeInv, PhaseInv, Live
    <2>2. CASE Workflow.approval_after[node] # "none"
      <3>1. Workflow.approval_after[node] \in ApprovalKind
        BY <2>1, <2>2, WorkflowTyped
      <3>2. disk' = request_approval(mem, node, Workflow.approval_after[node])
            /\ pc' # "releasing"
        BY <1>8, <2>2 DEF ContinueAfterNode, SaveAndGoTo
      <3>3. node \in mem.completed_nodes
        BY <2>1 DEF ProgressInv
      <3> QED
        BY <1>1, <2>1, <3>1, <3>2, <3>3, AskedFinal
    <2>3. CASE Workflow.approval_after[node] = "none"
      BY <1>2, <1>8, <2>3 DEF ContinueAfterNode, Moving
    <2> QED
      BY <2>2, <2>3
  <1>9. CASE RunnerStep
    <2>1. \/ pc' \in Moving
          \/ SaveTerminal \/ FinishGraph \/ NodeRaised \/ NodeFailed \/ ChangesRequested
          \/ CancelNow \/ RequestFinalApproval \/ ContinueAfterNode
      BY <1>9 DEF RunnerStep, AdvanceStep, StartWorker, SetupRaises, StartVerification,
         SpawnReturns, SpawnRaises, WorkerEnds, VerificationPasses, VerificationFails,
         StartBaseline, BaselineTaken, BaselineRaises, NodeSucceeded, SaveAndGoTo, Moving, Await
    <2> QED
      BY <1>2, <1>3, <1>4, <1>5, <1>6, <1>7, <1>8, <2>1
  <1>10. CASE CancelRun
    <2>1. CASE registered
      BY <1>10, <2>1, FinalStays DEF CancelRun, RequestCancel, Await
    <2>2. CASE ~registered
      BY <1>1, <1>10, <2>2, CancelledTyped, ConcludeFinal DEF CancelRun, Cancel, is_terminal
    <2> QED
      BY <2>1, <2>2
  <1>11. CASE Decide
    <2>1. /\ disk.pending # NoApproval /\ disk.task_state = "WAITING_APPROVAL"
          /\ disk.task_state \notin TerminalState
      BY <1>1, <1>11 DEF Decide, Approve, Reject, RequestChanges, IndInv, LinkInv
    <2>2. /\ Answered \in Record /\ Answered.pending = NoApproval
          /\ Answered.task_state = "WAITING_APPROVAL"
          /\ Answered.repair_rounds = disk.repair_rounds
      BY <1>1, <2>1 DEF Answered, Record
    <2>3. CASE Approve /\ disk.pending.kind = "final_result"
      BY <2>3, ApprovedFinal
    <2>4. CASE Reject \/ (Approve /\ disk.pending.kind # "final_result")
      <3>1. PICK t \in {"READY", "CANCELLED"} : MoveOn(t)
        BY <2>4 DEF Approve, Reject
      <3> DEFINE r == [Answered EXCEPT !.task_state = t,
                          !.failure = IF t = "CANCELLED" THEN "rejected" ELSE @]
      <3>2. Conclude(r)
        BY <3>1 DEF MoveOn
      <3>3. r.task_state # "COMPLETED" /\ r.pending = NoApproval
        BY <2>2, <3>1 DEF Record
      <3> HIDE DEF r
      <3> QED
        BY <2>1, <3>2, <3>3, ConcludeFinal
    <2>5. CASE RequestChanges
      <3>1. can_repair(disk) => /\ start_repair(Answered).task_state # "COMPLETED"
                                /\ start_repair(Answered).pending = NoApproval
        BY <2>2, StartRepairTyped DEF can_repair
      <3>2. /\ fail(Answered, "failed").task_state # "COMPLETED"
            /\ fail(Answered, "failed").pending = NoApproval
        BY <2>2, FailTyped DEF FailureReason
      <3> QED
        BY <2>1, <2>5, <3>1, <3>2, ConcludeFinal DEF RequestChanges
    <2> QED
      BY <1>11, <2>3, <2>4, <2>5 DEF Decide
  <1>12. CASE TaskEnds
    <2>1. /\ disk'.pending = disk.pending /\ disk'.task_state = disk.task_state
          /\ disk'.completed_nodes = disk.completed_nodes
      BY <1>1, <1>12 DEF TaskEnds, Record
    <2> QED
      BY <1>12, <2>1, FinalStays DEF TaskEnds
  <1>13. CASE AdvanceRun \/ TaskBegins \/ Reply \/ StoreRaises \/ Crash
    BY <1>13, FinalStays DEF AdvanceRun, TaskBegins, BeginAdvance, AdvanceRefused, Reply,
       StoreRaises, Crash
  <1>14. CASE OrphanExits \/ UNCHANGED vars
    BY <1>14 DEF OrphanExits, vars, FinalInv, Earned, Approved, CompletionIsEarned
  <1> QED
    BY <1>9, <1>10, <1>11, <1>12, <1>13, <1>14 DEF Next, Request, Server

\* In every workflow that asks for its final result at its end, a run is only
\* completed with all its work done, in the current round as EvidenceAlways says,
\* and its human nodes approved, whatever faults came between (advance, decide).
THEOREM CompletionAlwaysEarned == EndsAtFinal => (Spec => []CompletionIsEarned)
  <1> SUFFICES ASSUME EndsAtFinal PROVE Spec => []CompletionIsEarned
    OBVIOUS
  <1>1. Init => FinalInv
    BY DEF Init, RunnerInit, FinalInv, CompletionIsEarned, NewRecord, NoApproval
  <1>2. FinalInv => CompletionIsEarned
    BY DEF FinalInv
  <1>3. IndInv /\ IndInv' /\ ProgressInv /\ FinalInv /\ [Next]_vars => FinalInv'
    BY NextFinal
  <1> QED
    BY <1>1, <1>2, <1>3, Invariance, Progress, PTL DEF Spec

-----------------------------------------------------------------------------
(***************************************************************************)
(* Gates, on a server without faults.                                      *)
(***************************************************************************)

\* A gate behind which work may lie undecided: a repair has been through, and
\* does not replay it.
Waived(r, n) == n \notin RepairNodes /\ r.repair_rounds > 0

\* A completed node with a gate nobody has decided.
Unheard(r, n) ==
    n \in r.completed_nodes /\ Workflow.approval_after[n] # "none" /\ verdict[n] = "none"

\* While advance moves, only the node just recorded may have its gate before it;
\* while it does not, only the gate that is being asked for is open.
GateInv ==
    /\ pc \in Moving =>
          \A n \in Node : Unheard(mem, n) => Waived(mem, n) \/ (pc = "recorded" /\ n = node)
    /\ pc \in {"idle", "returned", "raised"} /\ ~is_terminal(disk) =>
          \A n \in Node : Unheard(disk, n) => Waived(disk, n) \/ n = disk.pending.node

\* After a repair nothing is left that it would replay (_start_repair).
LEMMA RepairWaives ==
    ASSUME NEW r \in Record, can_repair(r),
           r.task_state \in {"RUNNING", "VERIFYING", "WAITING_APPROVAL"},
           NEW n \in start_repair(r).completed_nodes
    PROVE  Waived(start_repair(r), n)
  <1>1. /\ start_repair(r).completed_nodes = r.completed_nodes \ RepairNodes
        /\ start_repair(r).repair_rounds = r.repair_rounds + 1
    BY StartRepairTyped
  <1>2. r.repair_rounds \in Nat
    BY WorkflowTyped DEF Record
  <1> QED
    BY <1>1, <1>2 DEF Waived

\* A call that concludes: what it stores, unless it ends the run, has no gate open
\* but the one it asks for.
LEMMA ConcludeGates ==
    ASSUME NEW STATE r, Conclude(r),
           ~is_terminal(r) =>
              \A n \in Node : (/\ n \in r.completed_nodes
                               /\ Workflow.approval_after[n] # "none" /\ verdict'[n] = "none")
                              => Waived(r, n) \/ n = r.pending.node
    PROVE  GateInv'
  <1>1. CASE is_terminal(r)
    BY <1>1 DEF Conclude, GateInv, Moving, Await
  <1>2. CASE ~is_terminal(r)
    <2>1. disk' = r /\ pc' = "returned"
      BY <1>2 DEF Conclude
    <2> QED
      BY <1>2, <2>1 DEF GateInv, Moving, Await, Unheard, Waived
  <1> QED
    BY <1>1, <1>2

\* Steps of a node, from its start to its outcome.
LEMMA GateGoesOn ==
    ASSUME GateInv, pc \in Moving \ {"recorded"}, pc' \in Await \cup {"outcome"},
           mem'.completed_nodes = mem.completed_nodes,
           mem'.repair_rounds = mem.repair_rounds, verdict' = verdict
    PROVE  GateInv'
  BY DEF GateInv, Unheard, Waived, Moving, Await

\* Steps that neither advance nor decide anything.
LEMMA GateRests ==
    ASSUME GateInv, verdict' = verdict,
           pc \in {"idle", "returned", "raised"}, pc' \in {"idle", "returned", "raised"},
           disk'.completed_nodes = disk.completed_nodes, disk'.pending = disk.pending,
           disk'.repair_rounds = disk.repair_rounds, disk'.task_state = disk.task_state
    PROVE  GateInv'
  BY DEF GateInv, Unheard, Waived, Moving, Await, is_terminal

\* The steps of the runner preserve it.
LEMMA RunnerGates ==
    ASSUME IndInv, ProgressInv, GateInv, RunnerStep
    PROVE  GateInv'
  <1>1. mem \in Record /\ disk \in Record /\ verdict \in [Node -> Verdict] /\ IsPrefix(mem)
    BY DEF IndInv, ServiceTypeOK, TypeOK, CompletedIsPrefix
  <1>2. ASSUME pc \in {"loop", "outcome"}, NEW n \in Node, Unheard(mem, n)
        PROVE  Waived(mem, n)
    BY <1>2 DEF GateInv, Moving
  <1>3. CASE \E n \in Node : StartWorker(n) \/ SetupRaises(n) \/ StartVerification(n)
    <2>1. mem'.completed_nodes = mem.completed_nodes /\ mem'.repair_rounds = mem.repair_rounds
      BY <1>1, <1>3 DEF StartWorker, SetupRaises, StartVerification, Running, Record
    <2> QED
      BY <1>3, <2>1, GateGoesOn DEF StartWorker, SetupRaises, StartVerification,
         Executes, Moving, Await
  <1>4. CASE SpawnReturns \/ SpawnRaises \/ VerificationPasses \/ VerificationFails
             \/ StartBaseline
    BY <1>4, GateGoesOn DEF SpawnReturns, SpawnRaises, VerificationPasses,
       VerificationFails, StartBaseline, Moving, Await
  <1>5. CASE \E o \in Outcome \ {"none"}, named \in BOOLEAN : WorkerEnds(o, named)
    <2>1. mem'.completed_nodes = mem.completed_nodes /\ mem'.repair_rounds = mem.repair_rounds
      BY <1>1, <1>5 DEF WorkerEnds, Record
    <2> QED
      BY <1>5, <2>1, GateGoesOn DEF WorkerEnds, Moving, Await
  <1>6. CASE \/ \E b \in {"clean", "red"}, o \in {"ok", "failed"} : BaselineTaken(b, o)
             \/ \E b \in Baseline : BaselineRaises(b)
    <2>1. mem'.completed_nodes = mem.completed_nodes /\ mem'.repair_rounds = mem.repair_rounds
      BY <1>1, <1>6 DEF BaselineTaken, BaselineRaises, SaveAndGoTo, Record
    <2> QED
      BY <1>6, <2>1, GateGoesOn DEF BaselineTaken, BaselineRaises, SaveAndGoTo, Moving, Await
  <1>7. CASE CancelNow
    <2>1. CASE can_transition(mem.task_state, "CANCELLED")
      <3>1. is_terminal(cancelled(mem))
        BY <1>1, CancelledTyped DEF is_terminal, TerminalState
      <3> QED
        BY <1>7, <2>1, <3>1, ConcludeGates DEF CancelNow
    <2>2. CASE ~can_transition(mem.task_state, "CANCELLED")
      <3>1. pc = "outcome" /\ pc' = "raised" /\ disk' = disk /\ verdict' = verdict
        BY <1>7, <2>2 DEF CancelNow
      <3>2. /\ mem.completed_nodes = disk.completed_nodes
            /\ mem.repair_rounds = disk.repair_rounds
        BY <3>1 DEF ProgressInv, IndInv, LinkInv, Moving
      <3> QED
        BY <1>2, <3>1, <3>2 DEF GateInv, Unheard, Waived, Moving, Await
    <2> QED
      BY <2>1, <2>2
  <1>8. CASE NodeRaised \/ FinishGraph
    <2>1. PICK reason \in FailureReason : Conclude(fail(mem, reason))
      BY <1>8 DEF FinishGraph, NodeRaised, Fail, FailureReason
    <2>2. /\ fail(mem, reason).completed_nodes = mem.completed_nodes
          /\ fail(mem, reason).repair_rounds = mem.repair_rounds
      BY <1>1, FailTyped
    <2>3. pc \in {"loop", "outcome"} /\ verdict' = verdict
      BY <1>8 DEF FinishGraph, NodeRaised, Fail
    <2> QED
      BY <1>2, <2>1, <2>2, <2>3, ConcludeGates DEF Unheard, Waived
  <1>9. CASE NodeFailed \/ ChangesRequested
    <2>1. mem.task_state \in {"RUNNING", "VERIFYING"}
      BY <1>9 DEF NodeFailed, ChangesRequested, IndInv, PhaseInv
    <2>2. CASE can_repair(mem)
      <3>1. mem' = start_repair(mem) /\ pc' = "loop"
        BY <1>9, <2>2 DEF NodeFailed, ChangesRequested, Repair, SaveAndGoTo
      <3>2. \A n \in mem'.completed_nodes : Waived(mem', n)
        BY <1>1, <2>1, <2>2, <3>1, RepairWaives
      <3> QED
        BY <3>1, <3>2 DEF GateInv, Unheard, Waived, Moving
    <2>3. CASE ~can_repair(mem)
      <3>1. is_terminal(fail(mem, "failed"))
        BY <1>1, <2>1, FailTyped DEF is_terminal, TerminalState, FailureReason
      <3> QED
        BY <1>9, <2>3, <3>1, ConcludeGates DEF NodeFailed, ChangesRequested, Fail
    <2> QED
      BY <2>2, <2>3
  <1>10. CASE NodeSucceeded
    <2>1. /\ mem' = record_artifact(mem, node) /\ pc = "outcome" /\ pc' = "recorded"
          /\ node' = node /\ verdict' = [verdict EXCEPT ![node] = "none"]
      BY <1>10 DEF NodeSucceeded, SaveAndGoTo
    <2>2. node \in Node
      BY <2>1 DEF IndInv, NodeInv
    <2>3. /\ mem'.completed_nodes = mem.completed_nodes \cup {node}
          /\ mem'.repair_rounds = mem.repair_rounds
      BY <1>1, <2>1, <2>2, RecordArtifactTyped
    <2>4. ASSUME NEW n \in Node, n # node, Unheard(mem, n)' PROVE Waived(mem, n)'
      <3>1. Unheard(mem, n)
        BY <1>1, <2>1, <2>2, <2>3, <2>4 DEF Unheard
      <3> QED
        BY <1>2, <2>1, <2>3, <3>1 DEF Waived
    <2> QED
      BY <2>1, <2>4 DEF GateInv
  <1>11. CASE RequestFinalApproval
    <2> DEFINE r == request_approval(mem, next_node(mem), "final_result")
    <2>1. next_node(mem) \in Node /\ mem.task_state \in Live /\ "final_result" \in ApprovalKind
      BY <1>1, <1>11, NextNodeExtends DEF RequestFinalApproval, IndInv, PhaseInv, ApprovalKind
    <2>2. r.completed_nodes = mem.completed_nodes /\ r.repair_rounds = mem.repair_rounds
      BY <1>1, <2>1, RequestApprovalTyped
    <2>3. disk' = r /\ pc = "loop" /\ pc' = "returned" /\ verdict' = verdict
      BY <1>11 DEF RequestFinalApproval, SaveAndGoTo
    <2> HIDE DEF r
    <2> QED
      BY <1>2, <2>2, <2>3 DEF GateInv, Unheard, Waived, Moving, Await
  <1>12. CASE ContinueAfterNode
    <2>1. /\ node \in Node /\ mem.task_state \in Live /\ pc = "recorded" /\ verdict' = verdict
      BY <1>12 DEF ContinueAfterNode, IndInv, NodeInv, PhaseInv, Live
    <2>2. \A n \in Node : Unheard(mem, n) => Waived(mem, n) \/ n = node
      BY <2>1 DEF GateInv, Moving
    <2>3. CASE Workflow.approval_after[node] # "none"
      <3> DEFINE r == request_approval(mem, node, Workflow.approval_after[node])
      <3>1. Workflow.approval_after[node] \in ApprovalKind
        BY <2>1, <2>3, WorkflowTyped
      <3>2. /\ r.completed_nodes = mem.completed_nodes /\ r.repair_rounds = mem.repair_rounds
            /\ r.pending = [kind |-> Workflow.approval_after[node], node |-> node]
        BY <1>1, <2>1, <3>1, RequestApprovalTyped
      <3>3. disk' = r /\ pc' = "returned"
        BY <1>12, <2>3 DEF ContinueAfterNode, SaveAndGoTo
      <3> HIDE DEF r
      <3> QED
        BY <2>1, <2>2, <3>2, <3>3 DEF GateInv, Unheard, Waived, Moving, Await
    <2>4. CASE Workflow.approval_after[node] = "none"
      <3>1. mem' = mem /\ pc' = "loop"
        BY <1>12, <2>4 DEF ContinueAfterNode
      <3>2. ~Unheard(mem, node)
        BY <2>4 DEF Unheard
      <3> QED
        BY <2>1, <2>2, <3>1, <3>2 DEF GateInv, Unheard, Waived
    <2> QED
      BY <2>3, <2>4
  <1>13. CASE SaveTerminal
    BY <1>13 DEF SaveTerminal, IndInv, PhaseInv, GateInv, is_terminal, Moving, Await
  <1> QED
    BY <1>3, <1>4, <1>5, <1>6, <1>7, <1>8, <1>9, <1>10, <1>11, <1>12, <1>13
       DEF RunnerStep, AdvanceStep

\* A decision that leaves the run open settles the gate it decides (decide).
LEMMA DecidedGates ==
    ASSUME IndInv, GateInv, pc = "idle", ~is_terminal(disk), disk.pending # NoApproval,
           NEW d \in Verdict \ {"none"}, Decided(d),
           NEW STATE r, Conclude(r), r.completed_nodes = disk.completed_nodes,
           r.repair_rounds = disk.repair_rounds
    PROVE  GateInv'
  <1>1. disk \in Record /\ verdict \in [Node -> Verdict]
    BY DEF IndInv, ServiceTypeOK, TypeOK
  <1>2. disk.pending.node \in Node
    BY <1>1 DEF Record, Approval
  <1>3. verdict' = [verdict EXCEPT ![disk.pending.node] = d]
    BY DEF Decided
  <1>4. ASSUME NEW n \in Node, n \in r.completed_nodes,
               Workflow.approval_after[n] # "none", verdict'[n] = "none"
        PROVE  Waived(r, n)
    <2>1. n # disk.pending.node /\ Unheard(disk, n)
      BY <1>1, <1>2, <1>3, <1>4 DEF Unheard
    <2> QED
      BY <2>1 DEF GateInv, Waived
  <1> QED
    BY <1>4, ConcludeGates

\* Every step of a server without faults preserves it.
LEMMA NextGates ==
    MaxFaults = 0 /\ IndInv /\ ProgressInv /\ GateInv /\ [Next]_vars => GateInv'
  <1> SUFFICES ASSUME MaxFaults = 0, IndInv, ProgressInv, GateInv, [Next]_vars PROVE GateInv'
    OBVIOUS
  <1>1. /\ mem \in Record /\ disk \in Record /\ verdict \in [Node -> Verdict]
        /\ faults \in 0..0
    BY DEF IndInv, ServiceTypeOK, TypeOK
  <1>2. CASE RunnerStep
    BY <1>2, RunnerGates
  <1>3. CASE CancelRun
    <2>1. CASE registered
      BY <1>3, <2>1 DEF CancelRun, RequestCancel, GateInv, Unheard, Waived
    <2>2. CASE ~registered
      <3>1. is_terminal(cancelled(disk))
        BY <1>1, CancelledTyped DEF is_terminal, TerminalState
      <3> QED
        BY <1>3, <2>2, <3>1, ConcludeGates DEF CancelRun, Cancel
    <2> QED
      BY <2>1, <2>2
  <1>4. CASE Decide
    <2>1. /\ disk.pending # NoApproval /\ disk.task_state = "WAITING_APPROVAL"
          /\ ~is_terminal(disk) /\ pc = "idle"
      BY <1>4 DEF Decide, Approve, Reject, RequestChanges, IndInv, LinkInv, is_terminal,
         TerminalState
    <2>2. /\ Answered \in Record /\ Answered.task_state = "WAITING_APPROVAL"
          /\ Answered.repair_rounds = disk.repair_rounds
          /\ Answered.completed_nodes = disk.completed_nodes
      BY <1>1, <2>1 DEF Answered, Record
    <2>3. CASE Approve \/ Reject
      <3>1. PICK t \in {"COMPLETED", "READY", "CANCELLED"}, d \in {"approve", "reject"} :
               MoveOn(t) /\ Decided(d)
        BY <2>3 DEF Approve, Reject
      <3> DEFINE r == [Answered EXCEPT !.task_state = t,
                          !.failure = IF t = "CANCELLED" THEN "rejected" ELSE @]
      <3>2. Conclude(r)
        BY <3>1 DEF MoveOn
      <3>3. r.completed_nodes = disk.completed_nodes /\ r.repair_rounds = disk.repair_rounds
        BY <2>2 DEF Record
      <3> HIDE DEF r
      <3>4. d \in Verdict \ {"none"}
        BY DEF Verdict
      <3> QED
        BY <2>1, <3>1, <3>2, <3>3, <3>4, DecidedGates
    <2>4. CASE RequestChanges /\ can_repair(disk)
      <3>1. \A n \in start_repair(Answered).completed_nodes : Waived(start_repair(Answered), n)
        BY <2>2, <2>4, RepairWaives DEF can_repair
      <3>2. Conclude(start_repair(Answered))
        BY <2>4 DEF RequestChanges
      <3> QED
        BY <3>1, <3>2, ConcludeGates
    <2>5. CASE RequestChanges /\ ~can_repair(disk)
      <3>1. /\ fail(Answered, "failed").completed_nodes = disk.completed_nodes
            /\ fail(Answered, "failed").repair_rounds = disk.repair_rounds
        BY <2>2, FailTyped DEF FailureReason
      <3>2. Conclude(fail(Answered, "failed")) /\ Decided("request_changes")
        BY <2>5 DEF RequestChanges
      <3>3. "request_changes" \in Verdict \ {"none"}
        BY DEF Verdict
      <3> QED
        BY <2>1, <3>1, <3>2, <3>3, DecidedGates
    <2> QED
      BY <1>4, <2>3, <2>4, <2>5 DEF Decide
  <1>5. CASE TaskBegins
    <2>1. CASE BeginAdvance
      <3>1. /\ mem'.completed_nodes = disk.completed_nodes
            /\ mem'.repair_rounds = disk.repair_rounds
            /\ pc = "idle" /\ pc' = "loop" /\ verdict' = verdict /\ ~is_terminal(disk)
            /\ disk.pending = NoApproval
        BY <1>1, <2>1 DEF BeginAdvance, Record
      <3>2. \A n \in Node : n # disk.pending.node
        BY <3>1, WorkflowTyped DEF NoApproval
      <3> QED
        BY <3>1, <3>2 DEF GateInv, Unheard, Waived
    <2>2. CASE AdvanceRefused
      BY <2>2, GateRests DEF AdvanceRefused
    <2> QED
      BY <1>5, <2>1, <2>2 DEF TaskBegins
  <1>6. CASE TaskEnds
    <2>1. /\ disk'.completed_nodes = disk.completed_nodes /\ disk'.pending = disk.pending
          /\ disk'.repair_rounds = disk.repair_rounds /\ disk'.task_state = disk.task_state
      BY <1>1, <1>6 DEF TaskEnds, Record
    <2> QED
      BY <1>6, <2>1, GateRests DEF TaskEnds
  <1>7. CASE Reply
    BY <1>7, GateRests DEF Reply
  <1>8. CASE StoreRaises \/ Crash
    BY <1>1, <1>8 DEF StoreRaises, Crash
  <1>9. CASE AdvanceRun \/ OrphanExits \/ UNCHANGED vars
    BY <1>9 DEF AdvanceRun, OrphanExits, vars, GateInv, Unheard, Waived
  <1> QED
    BY <1>2, <1>3, <1>4, <1>5, <1>6, <1>7, <1>8, <1>9 DEF Next, Request, Server

\* On a server without faults, and in every workflow, no node executes behind a
\* gate that was never put to a human, unless a repair has been through and does
\* not replay that gate (advance, decide).
THEOREM FirstRoundAlwaysGated == MaxFaults = 0 => (Spec => []FirstRoundGated)
  <1> SUFFICES ASSUME MaxFaults = 0 PROVE Spec => []FirstRoundGated
    OBVIOUS
  <1>1. Init => GateInv
    BY DEF Init, RunnerInit, GateInv, Unheard, NewRecord, Moving, Await
  <1>2. GateInv => FirstRoundGated
    BY DEF GateInv, FirstRoundGated, Undecided, Unheard, Waived, Moving, Await
  <1>3. IndInv /\ ProgressInv /\ GateInv /\ [Next]_vars => GateInv'
    BY NextGates
  <1> QED
    BY <1>1, <1>2, <1>3, Invariance, Progress, PTL DEF Spec
=============================================================================
