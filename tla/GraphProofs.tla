---------------------------- MODULE GraphProofs ----------------------------
(***************************************************************************)
(* What GraphWalk checks on all graphs of three nodes, for every graph:    *)
(* the validator accepts what it should, an accepted graph is walked in    *)
(* order and to its end, and no run ends with writes nobody saw.           *)
(***************************************************************************)
EXTENDS GraphWalk, DefinitionProofs

\* A human node is never completed: its approval ends the run.
Walkable(g) == {n \in NodesOf(g) : ~is_human(g, n)}

\* A write node with a completed gate behind it has been seen, unless that gate is
\* still to be asked for.
SeenInv ==
    status \in {"running", "ended"} =>
        \A n \in done \cap w.isolated, m \in done :
            m \in Downstream(w, n) /\ w.approval_after[m] # "none" => n \in seen

\* The walk: where a graph stands, and what has been completed of it.
WalkInv ==
    /\ w \in Graphs
    /\ status \in {"new", "rejected", "running", "gate", "final gate", "completed", "ended"}
    /\ status = "new" => done = {}
    /\ status = "rejected" => done = {} /\ ~valid(w)
    /\ status \notin {"new", "rejected"} => valid(w)
    /\ done \subseteq Walkable(w)
    /\ \A n \in done : w.depends_on[n] \subseteq done
    /\ status = "ended" => done = NodesOf(w)
    /\ status = "completed" => seen = done
    /\ SeenInv

-----------------------------------------------------------------------------
(* The validator. *)

\* A set that feeds itself has no first node in an order; and nodes the passes never
\* place feed themselves.
LEMMA CycleFound ==
    ASSUME NEW g, Declared(g), \A n \in NodesOf(g) : g.depends_on[n] \subseteq NodesOf(g)
    PROVE  ~HasCycle(g) <=> Acyclic(g)
  <1> DEFINE placed == PlacedIn(g)[Len(g.declared)]
             order == execution_order(g)
  <1>1. /\ order \in Seq(NodesOf(g)) /\ Topological(g, order) /\ IsInjective(order)
        /\ Range(order) = placed
        /\ ~HasCycle(g) <=> placed = NodesOf(g)
    BY OrderOfPasses
  <1>2. placed \in SUBSET NodesOf(g) /\ Pass(g, placed) = placed
    BY PassesSuffice
  <1> HIDE DEF placed, order
  <1>3. ASSUME placed = NodesOf(g), NEW S \in SUBSET NodesOf(g), S # {}
        PROVE  \E n \in S : g.depends_on[n] \cap S = {}
    <2> DEFINE P == {i \in 1..Len(order) : order[i] \in S}
    <2>1. P \in SUBSET Nat /\ P # {}
      BY <1>1, <1>3 DEF Range
    <2> DEFINE j == Min(P)
    <2>2. j \in P /\ \A i \in P : j <= i
      <3> HIDE DEF P
      <3> QED
        BY <2>1, MinOfNats
    <2> HIDE DEF j
    <2>3. Len(order) \in Nat
      BY <1>1
    <2>4. ASSUME NEW d \in g.depends_on[order[j]] PROVE d \notin S
      <3>1. PICK i \in 1..(j - 1) : order[i] = d
        BY <1>1, <2>2, <2>4 DEF Topological
      <3>2. i \in 1..Len(order) /\ i < j
        BY <2>2, <2>3, <3>1
      <3>3. i \notin P
        BY <2>2, <2>3, <3>2
      <3> QED
        BY <3>1, <3>2, <3>3
    <2> QED
      BY <2>2, <2>4
  <1>4. ASSUME Acyclic(g) PROVE placed = NodesOf(g)
    <2> DEFINE S == NodesOf(g) \ placed
    <2>1. SUFFICES ASSUME S # {} PROVE FALSE
      BY <1>2
    <2>2. PICK n \in S : g.depends_on[n] \cap S = {}
      BY <1>4, <2>1 DEF Acyclic
    <2>3. g.depends_on[n] \subseteq placed
      BY <2>2
    <2>4. n \in Pass(g, placed)
      BY <2>2, <2>3 DEF Pass
    <2> QED
      BY <2>2, <2>4, <1>2
  <1>5. placed = NodesOf(g) => Acyclic(g)
    BY <1>3 DEF Acyclic
  <1> QED
    BY <1>1, <1>4, <1>5

\* The search finds a gate if every closed set around the node holds one.
LEMMA GateFound ==
    ASSUME NEW g, Declared(g), NEW n \in NodesOf(g)
    PROVE  reaches_approval(g, n) <=> LeadsToGate(g, n)
  <1> DEFINE D == Downstream(g, n)
             Closed(S) == n \in S /\ \A m \in NodesOf(g) : g.depends_on[m] \cap S # {} => m \in S
             Gate(m) == g.approval_after[m] # "none" \/ is_human(g, m)
  <1>1. D \in SUBSET NodesOf(g) /\ Round(g, D) = D
    BY RoundsSuffice
  <1>2. ASSUME NEW S \in SUBSET NodesOf(g), Closed(S) PROVE D \subseteq S
    BY <1>2, DownstreamLeast
  <1>3. n \in D
    <2>1. \A m \in NodesOf(g) : g.depends_on[m] \cap NodesOf(g) # {} => m \in NodesOf(g)
      OBVIOUS
    <2> QED
      BY <2>1, DownstreamLeast
  <1> HIDE DEF D
  <1>4. Closed(D)
    BY <1>1, <1>3 DEF Round
  <1>5. reaches_approval(g, n) <=> \E m \in D : Gate(m)
    BY DEF reaches_approval, D
  <1>6. LeadsToGate(g, n) <=> \A S \in SUBSET NodesOf(g) : Closed(S) => \E m \in S : Gate(m)
    BY DEF LeadsToGate
  <1> HIDE DEF Closed, Gate
  <1> QED
    BY <1>1, <1>2, <1>4, <1>5, <1>6

\* The validator accepts a graph if and only if its names are unique and known, no set
\* of its nodes feeds itself, and every write node leads to a gate (_validate_graph).
THEOREM ValidIsAcceptable ==
    ASSUME NEW g, IsWorkflow(g)
    PROVE  valid(g) <=> Acceptable(g)
  <1>1. g.declared \in Seq(NodesOf(g)) /\ g.isolated \subseteq NodesOf(g)
    BY DEF IsWorkflow
  <1>2. SUFFICES ASSUME /\ IsInjective(g.declared)
                        /\ \A n \in NodesOf(g) : g.depends_on[n] \subseteq NodesOf(g)
                 PROVE  valid(g) <=> Acceptable(g)
    BY DEF valid, Acceptable
  <1>3. Declared(g)
    BY <1>1, <1>2 DEF Declared
  <1>4. ~HasCycle(g) <=> Acyclic(g)
    BY <1>2, <1>3, CycleFound
  <1>5. \A n \in g.isolated : reaches_approval(g, n) <=> LeadsToGate(g, n)
    BY <1>1, <1>3, GateFound
  <1>6. ASSUME Acyclic(g), NEW n \in NodesOf(g) PROVE n \notin g.depends_on[n]
    <2>1. {n} \in SUBSET NodesOf(g) /\ {n} # {}
      OBVIOUS
    <2>2. \E m \in {n} : g.depends_on[m] \cap {n} = {}
      BY <1>6, <2>1 DEF Acyclic
    <2> QED
      BY <2>2
  <1> QED
    BY <1>1, <1>2, <1>4, <1>5, <1>6 DEF valid, Acceptable, needs_worktree

-----------------------------------------------------------------------------
(* The walk. *)

\* What the walk uses of an accepted graph.
LEMMA AcceptedOrder ==
    ASSUME NEW g \in Graphs, valid(g)
    PROVE  /\ IsWorkflow(g) /\ Declared(g)
           /\ execution_order(g) \in Seq(NodesOf(g))
           /\ Range(execution_order(g)) = NodesOf(g)
           /\ \A i, j \in DOMAIN execution_order(g) :
                 execution_order(g)[i] \in g.depends_on[execution_order(g)[j]] => i < j
           /\ \A n \in NodesOf(g) : g.depends_on[n] \subseteq NodesOf(g)
  <1>1. IsWorkflow(g)
    BY GraphsAssumption
  <1>2. g.declared \in Seq(NodesOf(g))
    BY <1>1 DEF IsWorkflow
  <1>3. Declared(g)
    BY <1>2 DEF Declared, valid
  <1> QED
    BY <1>1, <1>2, <1>3, OrderIsTopological DEF valid

\* _next_node returns a node that is not done and whose dependencies are; and it
\* returns none only when everything is done.
LEMMA CurrentFacts ==
    ASSUME w \in Graphs, valid(w), done \subseteq NodesOf(w)
    PROVE  /\ Current # NoNode => /\ Current \in NodesOf(w) \ done
                                  /\ w.depends_on[Current] \subseteq done
           /\ Current = NoNode => done = NodesOf(w)
  <1> DEFINE order == execution_order(w)
             runnable == {i \in DOMAIN order : /\ order[i] \notin done
                                               /\ w.depends_on[order[i]] \subseteq done}
  <1>1. /\ order \in Seq(NodesOf(w)) /\ Range(order) = NodesOf(w)
        /\ \A i, j \in DOMAIN order : order[i] \in w.depends_on[order[j]] => i < j
        /\ \A n \in NodesOf(w) : w.depends_on[n] \subseteq NodesOf(w)
        /\ NoNode \notin NodesOf(w)
    BY AcceptedOrder DEF IsWorkflow
  <1>2. Current = IF runnable = {} THEN NoNode ELSE order[Min(runnable)]
    BY DEF Current, NextIn
  <1> HIDE DEF order
  <1>3. DOMAIN order = 1..Len(order) /\ Len(order) \in Nat
        /\ \A i \in DOMAIN order : order[i] \in NodesOf(w)
    BY <1>1
  <1>4. ASSUME runnable # {} PROVE /\ Current \in NodesOf(w) \ done
                                   /\ w.depends_on[Current] \subseteq done
    <2>1. runnable \in SUBSET Nat
      BY <1>3
    <2>2. Min(runnable) \in runnable
      <3> HIDE DEF runnable
      <3> QED
        BY <1>4, <2>1, MinOfNats
    <2> QED
      BY <1>2, <1>3, <1>4, <2>2
  <1>5. ASSUME runnable = {} PROVE done = NodesOf(w)
    <2> DEFINE T == {i \in DOMAIN order : order[i] \notin done}
    <2>1. SUFFICES ASSUME T # {} PROVE FALSE
      BY <1>1 DEF Range
    <2>2. T \in SUBSET Nat
      BY <1>3
    <2> DEFINE j == Min(T)
    <2>3. j \in T /\ \A i \in T : j <= i
      <3> HIDE DEF T
      <3> QED
        BY <2>1, <2>2, MinOfNats
    <2> HIDE DEF j
    <2>4. ASSUME NEW d \in w.depends_on[order[j]] PROVE d \in done
      <3>1. d \in NodesOf(w)
        BY <1>1, <1>3, <2>3, <2>4
      <3>2. PICK i \in DOMAIN order : order[i] = d
        BY <1>1, <3>1 DEF Range
      <3>3. i < j
        BY <1>1, <2>3, <2>4, <3>2
      <3>4. i \notin T
        BY <1>3, <2>3, <3>2, <3>3
      <3> QED
        BY <3>2, <3>4
    <2>5. j \in runnable
      BY <2>3, <2>4
    <2> QED
      BY <1>5, <2>5
  <1> QED
    BY <1>1, <1>2, <1>4, <1>5

\* A repair replays with a node everything that depends on it, and every write node.
LEMMA ReplayedFacts ==
    ASSUME NEW g \in Graphs, valid(g)
    PROVE  LET replayed == Replayed(execution_order(g), g.isolated)
           IN  /\ g.isolated \subseteq replayed
               /\ \A n \in NodesOf(g) : \A d \in g.depends_on[n] :
                     d \in replayed => n \in replayed
  <1> DEFINE order == execution_order(g)
             writes == {i \in DOMAIN order : order[i] \in g.isolated}
             entry == RepairEntry(order, g.isolated)
             replayed == Replayed(order, g.isolated)
  <1>1. /\ order \in Seq(NodesOf(g)) /\ Range(order) = NodesOf(g)
        /\ \A i, j \in DOMAIN order : order[i] \in g.depends_on[order[j]] => i < j
        /\ g.isolated \subseteq NodesOf(g)
    BY AcceptedOrder DEF IsWorkflow
  <1>2. entry = (IF writes = {} THEN 1 ELSE Min(writes))
        /\ replayed = {order[i] : i \in entry..Len(order)}
    BY DEF RepairEntry, Replayed
  <1> HIDE DEF order, entry, replayed
  <1>3. DOMAIN order = 1..Len(order) /\ Len(order) \in Nat
    BY <1>1
  <1>4. entry \in Nat \ {0} /\ \A i \in writes : entry <= i
    <2>1. CASE writes = {}
      BY <1>2, <2>1
    <2>2. CASE writes # {}
      <3>1. writes \in SUBSET Nat
        BY <1>3
      <3>2. Min(writes) \in writes /\ \A i \in writes : Min(writes) <= i
        <4> HIDE DEF writes
        <4> QED
          BY <2>2, <3>1, MinOfNats
      <3> QED
        BY <1>2, <1>3, <2>2, <3>2
    <2> QED
      BY <2>1, <2>2
  <1>5. ASSUME NEW n \in g.isolated PROVE n \in replayed
    <2>1. PICK i \in DOMAIN order : order[i] = n
      BY <1>1, <1>5 DEF Range
    <2>2. i \in entry..Len(order)
      BY <2>1, <1>3, <1>4
    <2> QED
      BY <1>2, <2>1, <2>2
  <1>6. ASSUME NEW n \in NodesOf(g), NEW d \in g.depends_on[n], d \in replayed
        PROVE  n \in replayed
    <2>1. PICK j \in DOMAIN order : order[j] = n
      BY <1>1 DEF Range
    <2>2. PICK i \in entry..Len(order) : order[i] = d
      BY <1>2, <1>6
    <2>3. i \in DOMAIN order
      BY <1>3, <1>4, <2>2
    <2>4. i < j
      BY <1>1, <1>6, <2>1, <2>2, <2>3
    <2>5. j \in entry..Len(order)
      BY <1>3, <1>4, <2>1, <2>2, <2>4
    <2> QED
      BY <1>2, <2>1, <2>5
  <1> QED
    BY <1>5, <1>6 DEF replayed, order

\* Nothing downstream of a node that is not done is done.
LEMMA NothingDoneDownstream ==
    ASSUME w \in Graphs, valid(w), done \subseteq NodesOf(w),
           \A n \in done : w.depends_on[n] \subseteq done,
           NEW c \in NodesOf(w) \ done
    PROVE  Downstream(w, c) \cap done = {}
  <1> DEFINE S == NodesOf(w) \ done
  <1>1. \A m \in NodesOf(w) : w.depends_on[m] \cap S # {} => m \in S
    OBVIOUS
  <1>2. Declared(w)
    BY AcceptedOrder
  <1>3. Downstream(w, c) \subseteq S
    <2> HIDE DEF S
    <2>1. c \in S
      BY DEF S
    <2> QED
      BY <1>1, <1>2, <2>1, DownstreamLeast
  <1> QED
    BY <1>3

-----------------------------------------------------------------------------
(* The invariant. *)

\* A graph that is not yet loaded satisfies the invariant.
LEMMA InitWalk == Init => WalkInv
  BY DEF Init, WalkInv, SeenInv, Walkable

\* The current node is completed: its dependencies were, nothing behind it was, and
\* if it has a gate the walk stops there.
LEMMA RunNodeWalk ==
    ASSUME WalkInv, RunNode PROVE WalkInv'
  <1> DEFINE c == Current
  <1>1. /\ w \in Graphs /\ valid(w) /\ done \subseteq Walkable(w) /\ done \subseteq NodesOf(w)
        /\ \A n \in done : w.depends_on[n] \subseteq done
        /\ status = "running" /\ c # NoNode /\ ~is_human(w, c)
    BY DEF WalkInv, RunNode, Walkable
  <1>2. c \in NodesOf(w) \ done /\ w.depends_on[c] \subseteq done
    BY <1>1, CurrentFacts
  <1>3. Downstream(w, c) \cap done = {}
    BY <1>1, <1>2, NothingDoneDownstream
  <1>4. /\ done' = done \cup {c} /\ seen' = seen \ {c} /\ w' = w
        /\ status' \in {"running", "gate", "final gate"}
        /\ status' = "running" <=> w.approval_after[c] = "none"
    BY DEF RunNode, Asked
  <1> HIDE DEF c
  <1>5. done' \subseteq Walkable(w)' /\ \A n \in done' : w'.depends_on[n] \subseteq done'
    BY <1>1, <1>2, <1>4 DEF Walkable, is_human, NodesOf
  <1>6. SeenInv'
    <2> SUFFICES ASSUME status' \in {"running", "ended"},
                        NEW n \in done' \cap w'.isolated, NEW m \in done',
                        m \in Downstream(w', n), w'.approval_after[m] # "none"
                 PROVE  n \in seen'
      BY DEF SeenInv
    <2>1. m # c
      BY <1>4
    <2>2. n # c
      BY <1>3, <1>4, <2>1
    <2>3. n \in done \cap w.isolated /\ m \in done /\ m \in Downstream(w, n)
          /\ w.approval_after[m] # "none"
      BY <1>4, <2>1, <2>2
    <2>4. n \in seen
      BY <1>1, <2>3 DEF WalkInv, SeenInv
    <2> QED
      BY <1>4, <2>2, <2>4
  <1>7. valid(w)'
    BY <1>1, <1>4
  <1> QED
    BY <1>1, <1>4, <1>5, <1>6, <1>7 DEF WalkInv

\* A repair: what is left of the completed nodes has its dependencies, for they come
\* before it and are not replayed; and no write node is left.
LEMMA RepairWalk ==
    ASSUME WalkInv, Repair PROVE WalkInv'
  <1> DEFINE replayed == Replayed(execution_order(w), w.isolated)
             finished == IF status = "running" THEN done \cup {Current} ELSE done
  <1>1. /\ w \in Graphs /\ valid(w) /\ done \subseteq Walkable(w) /\ done \subseteq NodesOf(w)
        /\ \A n \in done : w.depends_on[n] \subseteq done
        /\ \/ status \in {"gate", "final gate"}
           \/ status = "running" /\ Current # NoNode /\ ~is_human(w, Current)
    BY DEF WalkInv, Repair, Walkable
  <1>2. /\ done' = finished \ replayed
        /\ seen' = (IF status = "running" THEN seen \ {Current} ELSE done) \ replayed
        /\ status' = "running" /\ w' = w
    BY DEF Repair
  <1>3. /\ w.isolated \subseteq replayed
        /\ \A n \in NodesOf(w) : \A d \in w.depends_on[n] : d \in replayed => n \in replayed
    BY <1>1, ReplayedFacts
  <1>4. /\ finished \subseteq Walkable(w)
        /\ \A n \in finished : w.depends_on[n] \subseteq finished
    <2>1. CASE status = "running"
      <3>1. Current \in NodesOf(w) \ done /\ w.depends_on[Current] \subseteq done
        BY <1>1, <2>1, CurrentFacts
      <3> QED
        BY <1>1, <2>1, <3>1 DEF Walkable
    <2>2. CASE status # "running"
      BY <1>1, <2>2
    <2> QED
      BY <2>1, <2>2
  <1> HIDE DEF replayed, finished
  <1>5. done' \subseteq Walkable(w)' /\ \A n \in done' : w'.depends_on[n] \subseteq done'
    BY <1>2, <1>3, <1>4 DEF Walkable, is_human, NodesOf
  <1>6. done' \cap w'.isolated = {}
    BY <1>2, <1>3
  <1>7. valid(w)'
    BY <1>1, <1>2
  <1>8. SeenInv'
    BY <1>6 DEF SeenInv
  <1> QED
    BY <1>1, <1>2, <1>5, <1>7, <1>8 DEF WalkInv

\* Loading, walking, approving and repairing keep it.
LEMMA NextWalk == WalkInv /\ [Next]_vars => WalkInv'
  <1> SUFFICES ASSUME WalkInv, [Next]_vars PROVE WalkInv'
    OBVIOUS
  <1>1. CASE Load
    <2>1. /\ status = "new" /\ w' = w /\ done' = done /\ seen' = seen
          /\ status' = IF valid(w) THEN "running" ELSE "rejected"
      BY <1>1 DEF Load
    <2>2. done = {} /\ w \in Graphs
      BY <2>1 DEF WalkInv
    <2>3. valid(w)' <=> valid(w)
      BY <2>1
    <2> QED
      BY <2>1, <2>2, <2>3 DEF WalkInv, SeenInv, Walkable
  <1>2. CASE RunNode
    BY <1>2, RunNodeWalk
  <1>3. CASE ReachHuman
    <2>1. /\ status = "running" /\ status' = "final gate" /\ w' = w /\ done' = done
          /\ seen' = seen
      BY <1>3 DEF ReachHuman
    <2>2. valid(w)' /\ Walkable(w)' = Walkable(w)
      BY <2>1 DEF WalkInv
    <2> QED
      BY <2>1, <2>2 DEF WalkInv, SeenInv
  <1>4. CASE Approve
    <2>1. /\ status \in {"gate", "final gate"} /\ status' \in {"running", "completed"}
          /\ w' = w /\ done' = done /\ seen' = done
      BY <1>4 DEF Approve
    <2>2. valid(w)' /\ Walkable(w)' = Walkable(w)
      BY <2>1 DEF WalkInv
    <2> QED
      BY <2>1, <2>2 DEF WalkInv, SeenInv
  <1>5. CASE Repair
    BY <1>5, RepairWalk
  <1>6. CASE End
    <2>1. /\ status = "running" /\ status' = "ended" /\ w' = w /\ done' = done
          /\ seen' = seen /\ Current = NoNode
      BY <1>6 DEF End
    <2>2. valid(w)' /\ Walkable(w)' = Walkable(w) /\ NodesOf(w)' = NodesOf(w)
      BY <2>1 DEF WalkInv
    <2>3. done = NodesOf(w)
      BY <2>1, CurrentFacts DEF WalkInv, Walkable
    <2>4. SeenInv'
      BY <2>1 DEF WalkInv, SeenInv
    <2> QED
      BY <2>1, <2>2, <2>3, <2>4 DEF WalkInv
  <1>7. CASE UNCHANGED vars
    <2>1. w' = w /\ status' = status /\ done' = done /\ seen' = seen
      BY <1>7 DEF vars
    <2>2. /\ valid(w)' <=> valid(w)
          /\ Walkable(w)' = Walkable(w) /\ NodesOf(w)' = NodesOf(w)
      BY <2>1
    <2>3. SeenInv'
      BY <2>1 DEF WalkInv, SeenInv
    <2> QED
      BY <2>1, <2>2, <2>3 DEF WalkInv
  <1> QED
    BY <1>1, <1>2, <1>3, <1>4, <1>5, <1>6, <1>7 DEF Next

\* The walk of any accepted graph satisfies the invariant throughout.
LEMMA WalkAlways == Spec => []WalkInv
  BY InitWalk, NextWalk, PTL DEF Spec

-----------------------------------------------------------------------------
(* What follows from it. *)

\* The validator's verdict on any graph is the one its definition by sets gives
\* (_validate_graph, execution_order, reaches_approval).
THEOREM ValidatorAlwaysExact == Spec => []ValidatorExact
  <1>1. WalkInv => ValidatorExact
    <2> SUFFICES ASSUME WalkInv, status # "new" PROVE status # "rejected" <=> Acceptable(w)
      BY DEF ValidatorExact
    <2>1. IsWorkflow(w)
      BY GraphsAssumption DEF WalkInv
    <2>2. valid(w) <=> Acceptable(w)
      BY <2>1, ValidIsAcceptable
    <2> QED
      BY <2>2 DEF WalkInv
  <1> QED
    BY <1>1, WalkAlways, PTL

\* Any accepted graph is walked in order, repairs included, and to its end
\* (_next_node, _start_repair, _finish).
THEOREM AlwaysWalkedInOrder == Spec => []WalkedInOrder
  <1>1. WalkInv => WalkedInOrder
    BY DEF WalkInv, WalkedInOrder
  <1> QED
    BY <1>1, WalkAlways, PTL

\* In any accepted graph a human was at a gate after every write, in its final version,
\* when the run ends (_validate_graph).
THEOREM HumanAlwaysSawWrites == Spec => []HumanSawWrites
  <1>1. WalkInv => HumanSawWrites
    <2> SUFFICES ASSUME WalkInv, status \in {"completed", "ended"},
                        NEW n \in done \cap w.isolated
                 PROVE  n \in seen
      BY DEF HumanSawWrites
    <2>1. CASE status = "completed"
      BY <2>1 DEF WalkInv
    <2>2. CASE status = "ended"
      <3>1. done = NodesOf(w) /\ valid(w) /\ done \subseteq Walkable(w) /\ w \in Graphs
        BY <2>2 DEF WalkInv
      <3>2. PICK m \in Downstream(w, n) : w.approval_after[m] # "none" \/ is_human(w, m)
        BY <3>1 DEF valid, needs_worktree, reaches_approval
      <3>3. m \in done
        BY <3>1, AcceptedOrder, RoundsSuffice
      <3>4. ~is_human(w, m)
        BY <3>1, <3>3 DEF Walkable
      <3> QED
        BY <2>2, <3>2, <3>3, <3>4 DEF WalkInv, SeenInv
    <2> QED
      BY <2>1, <2>2
  <1> QED
    BY <1>1, WalkAlways, PTL
=============================================================================
