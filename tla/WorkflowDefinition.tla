------------------------- MODULE WorkflowDefinition -------------------------
(***************************************************************************)
(* Workflow graphs (orchestrator/workflow/definition.py) and the three     *)
(* questions the runner asks of one: in what order do nodes run, which     *)
(* runs next, and how far does a repair roll back.                         *)
(*                                                                         *)
(* A workflow w is a record:                                               *)
(*   declared           the node ids in declaration order                  *)
(*   depends_on         node -> the set of nodes it depends on             *)
(*   worker_requirement node -> "human", "local_tool_runner" or a worker   *)
(*   approval_after     node -> an approval kind, or "none"                *)
(*   isolated           the nodes whose workspace is isolated_worktree     *)
(*   new_session        the nodes whose session_policy is new              *)
(*   max_repair_rounds  the repair budget                                  *)
(***************************************************************************)
EXTENDS Integers, Sequences, FiniteSetsExt, Functions

ApprovalKind == {"plan", "revision", "final_result", "external_side_effect"}

\* The runner's "no node left" (Python's None).
NoNode == "no node"

NodesOf(w) == Range(w.declared)

\* What the loader yields before anything is validated.
IsWorkflow(w) ==
    /\ w.declared \in Seq(NodesOf(w)) /\ w.declared # <<>>
    /\ NoNode \notin NodesOf(w)
    /\ w.depends_on = [n \in NodesOf(w) |-> w.depends_on[n]]
    /\ w.worker_requirement = [n \in NodesOf(w) |-> w.worker_requirement[n]]
    /\ w.approval_after \in [NodesOf(w) -> ApprovalKind \cup {"none"}]
    /\ w.isolated \subseteq NodesOf(w)
    /\ w.new_session \subseteq NodesOf(w)
    /\ w.max_repair_rounds \in Nat

is_human(w, n) == w.worker_requirement[n] = "human"

is_verification(w, n) == w.worker_requirement[n] = "local_tool_runner"

needs_worktree(w, n) == n \in w.isolated

has_write_node(w) == \E n \in NodesOf(w) : needs_worktree(w, n)

-----------------------------------------------------------------------------
(***************************************************************************)
(* execution_order works in passes: a pass appends, in declaration order,  *)
(* every remaining node whose dependencies were all placed by earlier      *)
(* passes.  PlacedIn(w)[k] is what k passes have placed.  On a cycle a     *)
(* pass places nothing and the code raises; here the order stays short.    *)
(***************************************************************************)
PlacedIn(w) ==
    LET placed[k \in 0..Len(w.declared)] ==
            IF k = 0 THEN {}
            ELSE placed[k-1]
                 \cup {n \in NodesOf(w) : w.depends_on[n] \subseteq placed[k-1]}
    IN  placed

\* The nodes of S in declaration order: what a pass appends.
InDeclaredOrder(w, S) ==
    LET chosen[i \in 0..Len(w.declared)] ==
            IF i = 0 THEN <<>>
            ELSE IF w.declared[i] \in S THEN Append(chosen[i-1], w.declared[i])
            ELSE chosen[i-1]
    IN  chosen[Len(w.declared)]

OrderIn(w) ==
    LET order[k \in 0..Len(w.declared)] ==
            IF k = 0 THEN <<>>
            ELSE order[k-1] \o InDeclaredOrder(w, PlacedIn(w)[k] \ PlacedIn(w)[k-1])
    IN  order

execution_order(w) == OrderIn(w)[Len(w.declared)]

HasCycle(w) == Len(execution_order(w)) # Len(w.declared)

\* Nodes at or downstream of n: the search of reaches_approval.  SeenIn(w, n)[k] is
\* what it has seen after k rounds.
SeenIn(w, n) ==
    LET seen[k \in 0..Len(w.declared)] ==
            IF k = 0 THEN {n}
            ELSE seen[k-1] \cup {m \in NodesOf(w) :
                                    w.depends_on[m] \cap seen[k-1] # {}}
    IN  seen

Downstream(w, n) == SeenIn(w, n)[Len(w.declared)]

\* Faulty variant: only the node itself and its direct dependents are searched.
reaches_approval_one_step(w, n) ==
    \E m \in {n} \cup {d \in NodesOf(w) : n \in w.depends_on[d]} :
        w.approval_after[m] # "none" \/ is_human(w, m)

reaches_approval(w, n) ==
    \E m \in Downstream(w, n) : w.approval_after[m] # "none" \/ is_human(w, m)

(***************************************************************************)
(* What the validators accept: a model of _reject_self_dependency and      *)
(* _validate_graph.  Anything else raises before a run can exist.          *)
(***************************************************************************)
\* Faulty variant: write nodes are not required to lead to a gate.
valid_without_gates(w) ==
    /\ IsInjective(w.declared)
    /\ \A n \in NodesOf(w) : /\ w.depends_on[n] \subseteq NodesOf(w)
                             /\ n \notin w.depends_on[n]
    /\ ~HasCycle(w)

valid(w) ==
    /\ IsInjective(w.declared)
    /\ \A n \in NodesOf(w) : /\ w.depends_on[n] \subseteq NodesOf(w)
                             /\ n \notin w.depends_on[n]
    /\ ~HasCycle(w)
    /\ \A n \in NodesOf(w) : needs_worktree(w, n) => reaches_approval(w, n)

-----------------------------------------------------------------------------
(***************************************************************************)
(* The runner's use of an execution order.                                 *)
(***************************************************************************)

\* WorkflowRunner._next_node: the first node in order that is not done and
\* whose dependencies all are.
NextIn(order, depends_on, done) ==
    LET runnable == {i \in DOMAIN order : /\ order[i] \notin done
                                          /\ depends_on[order[i]] \subseteq done}
    IN  IF runnable = {} THEN NoNode ELSE order[Min(runnable)]

\* WorkflowRunner._repair_entry_node, as a position: the first write node, or
\* the first node of a graph that writes nothing.
RepairEntry(order, isolated) ==
    LET writes == {i \in DOMAIN order : order[i] \in isolated}
    IN  IF writes = {} THEN 1 ELSE Min(writes)

\* Faulty variant: a repair replays only the node it starts from.
ReplayedOnlyEntry(order, isolated) == {order[RepairEntry(order, isolated)]}

\* The nodes a repair replays: everything from the entry node on.
Replayed(order, isolated) ==
    {order[i] : i \in RepairEntry(order, isolated)..Len(order)}
=============================================================================
