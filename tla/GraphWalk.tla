------------------------------ MODULE GraphWalk ------------------------------
(***************************************************************************)
(* The algorithms of WorkflowDefinition on arbitrary graphs: a graph is    *)
(* loaded and validated, and if it is accepted a run walks it the way      *)
(* advance does - nodes in execution order, gates, repairs - with nothing  *)
(* failing underneath.  A gate whose node asks for changes is not asked    *)
(* for: the repair comes first.                                            *)
(***************************************************************************)
EXTENDS WorkflowDefinition

CONSTANT Graphs       \* the graphs to load

ASSUME GraphsAssumption == \A g \in Graphs : IsWorkflow(g)

VARIABLES
    w,        \* the graph
    status,   \* new, rejected, running, gate, final gate, completed or ended
    done,     \* completed_nodes
    rounds,   \* repair_rounds
    seen      \* the completed nodes a human was shown at a gate since they ran

vars == <<w, status, done, rounds, seen>>

Init ==
    /\ w \in Graphs
    /\ status = "new"
    /\ done = {} /\ rounds = 0 /\ seen = {}

\* load_workflow
Load ==
    /\ status = "new"
    /\ status' = IF valid(w) THEN "running" ELSE "rejected"
    /\ UNCHANGED <<w, done, rounds, seen>>

Current == NextIn(execution_order(w), w.depends_on, done)

\* Where the walk is once a gate of some kind is asked for: approval of a final
\* result completes the run, wherever in the graph it was asked for (decide).
Asked(kind) ==
    CASE kind = "none"         -> "running"
      [] kind = "final_result" -> "final gate"
      [] OTHER                 -> "gate"

\* The current node succeeds; a gate after it, if it has one, is asked for.
RunNode ==
    /\ status = "running" /\ Current # NoNode /\ ~is_human(w, Current)
    /\ done' = done \cup {Current}
    /\ status' = Asked(w.approval_after[Current])
    /\ seen' = seen \ {Current}
    /\ UNCHANGED <<w, rounds>>

\* The current node is a human one: the final gate.
ReachHuman ==
    /\ status = "running" /\ Current # NoNode /\ is_human(w, Current)
    /\ status' = "final gate"
    /\ UNCHANGED <<w, done, rounds, seen>>

Approve ==
    /\ status \in {"gate", "final gate"}
    /\ status' = IF status = "gate" THEN "running" ELSE "completed"
    /\ seen' = done
    /\ UNCHANGED <<w, done, rounds>>

\* Something asks for changes - the human at a gate, or the current node before
\* its gate - and a repair starts.
Repair ==
    /\ rounds < w.max_repair_rounds
    /\ \/ status \in {"gate", "final gate"}
       \/ status = "running" /\ Current # NoNode /\ ~is_human(w, Current)
    /\ LET replayed == Replayed(execution_order(w), w.isolated)
           finished == IF status = "running" THEN done \cup {Current} ELSE done
       IN  /\ done' = finished \ replayed
           /\ seen' = (IF status = "running" THEN seen \ {Current} ELSE done) \ replayed
    /\ rounds' = rounds + 1
    /\ status' = "running"
    /\ UNCHANGED w

\* _finish
End ==
    /\ status = "running" /\ Current = NoNode
    /\ status' = "ended"
    /\ UNCHANGED <<w, done, rounds, seen>>

Next == Load \/ RunNode \/ ReachHuman \/ Approve \/ Repair \/ End

Spec == Init /\ [][Next]_vars

-----------------------------------------------------------------------------
(***************************************************************************)
(* Reference definitions, in terms of sets of nodes rather than searches.  *)
(***************************************************************************)

\* No set of nodes feeds itself.
Acyclic(g) ==
    \A S \in (SUBSET NodesOf(g)) \ {{}} :
        \E n \in S : g.depends_on[n] \cap S = {}

\* Every set that holds n and is closed under dependents holds a gate.
LeadsToGate(g, n) ==
    \A S \in SUBSET NodesOf(g) :
        (n \in S /\ \A m \in NodesOf(g) : g.depends_on[m] \cap S # {} => m \in S)
            => \E m \in S : g.approval_after[m] # "none" \/ is_human(g, m)

\* A graph that a run can be made of.
Acceptable(g) ==
    /\ IsInjective(g.declared)
    /\ \A n \in NodesOf(g) : g.depends_on[n] \subseteq NodesOf(g)
    /\ Acyclic(g)
    /\ \A n \in g.isolated : LeadsToGate(g, n)

\* The validator accepts exactly the acyclic graphs with unique names and no unknown
\* ones whose write nodes all lead to a gate: the passes of execution_order and the
\* search of reaches_approval agree with the definitions by sets (_validate_graph).
ValidatorExact == status # "new" => (status # "rejected" <=> Acceptable(w))

\* An accepted graph is walked to its end and in order, repairs included: what is
\* completed is closed under dependencies at every moment, so that no node runs on
\* a missing or withdrawn input, and when no node is runnable all are completed
\* (_next_node, _start_repair, _finish).
WalkedInOrder ==
    /\ \A n \in done : w.depends_on[n] \subseteq done
    /\ status = "ended" => done = NodesOf(w)

\* What a write node produced never reaches the end of a run without a human
\* having been at a gate after it - in its final version (_validate_graph: "its
\* output cannot reach the end of the run without a human seeing it").
HumanSawWrites == status \in {"completed", "ended"} => done \cap w.isolated \subseteq seen
=============================================================================
