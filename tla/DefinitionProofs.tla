-------------------------- MODULE DefinitionProofs --------------------------
(***************************************************************************)
(* What the algorithms of WorkflowDefinition compute, for every graph: its *)
(* passes and searches end with what they are for, and the execution order *)
(* of a valid graph is a topological one.                                  *)
(*                                                                         *)
(* The operators are recursive functions over 0..Len(declared).  The       *)
(* lemmas of the first section - what Min and Max return, induction over a *)
(* set of naturals, and that a recursion has a solution - carry the rest,  *)
(* and the proofs of other components cite them as well.                   *)
(***************************************************************************)
EXTENDS WorkflowDefinition, FiniteSetTheorems, WellFoundedInduction, TLAPS

\* A non-empty set of naturals has the minimum Min chooses.
LEMMA MinOfNats ==
    ASSUME NEW S \in SUBSET Nat, S # {}
    PROVE  Min(S) \in S /\ \A y \in S : Min(S) <= y
  <1> DEFINE R == {ss \in Nat \X Nat : ss[1] < ss[2]}
  <1>1. IsWellFoundedOn(R, Nat)
    BY NatLessThanWellFounded DEF OpToRel
  <1> HIDE DEF R
  <1>2. PICK x \in S : \A y \in S : <<y, x>> \notin R
    BY <1>1, WFMin
  <1>3. ASSUME NEW y \in S PROVE x <= y
    <2>1. ~ (y < x)
      BY <1>2, <1>3, Zenon DEF R
    <2> QED
      BY <1>2, <2>1
  <1> QED
    BY <1>3 DEF Min

\* A non-empty set of naturals that n bounds has the maximum Max chooses: n less
\* the minimum of the distances from n.
LEMMA MaxOfNats ==
    ASSUME NEW n \in Nat, NEW S \in SUBSET (0..n), S # {}
    PROVE  Max(S) \in S /\ \A y \in S : y <= Max(S)
  <1> DEFINE T == {n - y : y \in S}
  <1>1. T \in SUBSET Nat /\ T # {}
    <2>1. \A y \in S : n - y \in Nat
      OBVIOUS
    <2>2. PICK y : y \in S
      OBVIOUS
    <2>3. n - y \in T
      BY <2>2
    <2> QED
      BY <2>1, <2>3
  <1> HIDE DEF T
  <1>2. Min(T) \in T /\ \A d \in T : Min(T) <= d
    BY <1>1, MinOfNats
  <1>3. PICK x \in S : Min(T) = n - x
    BY <1>2 DEF T
  <1>4. ASSUME NEW y \in S PROVE x >= y
    <2>1. n - y \in T
      BY DEF T
    <2>2. n - x <= n - y
      BY <1>2, <1>3, <2>1
    <2> QED
      BY <2>2
  <1> QED
    BY <1>4 DEF Max

\* Induction: a set that holds 0, and with a number the next, holds all of them up
\* to n.
LEMMA UpTo ==
    ASSUME NEW n \in Nat, NEW S, 0 \in S,
           \A k \in 0..n : k \in S /\ k < n => k + 1 \in S
    PROVE  0..n \subseteq S
  <1> DEFINE T == {k \in 0..n : k \notin S}
  <1>1. SUFFICES ASSUME T # {} PROVE FALSE
    OBVIOUS
  <1>2. T \in SUBSET Nat
    OBVIOUS
  <1>3. Min(T) \in T /\ \A y \in T : Min(T) <= y
    BY <1>1, <1>2, MinOfNats
  <1> DEFINE m == Min(T)
  <1> HIDE DEF m
  <1>4. m \in 0..n /\ m \notin S /\ m # 0
    BY <1>3 DEF m
  <1>5. m - 1 \in 0..n /\ m - 1 < n
    BY <1>4
  <1>6. m - 1 \in S
    <2>1. m - 1 \notin T
      BY <1>3, <1>4 DEF m
    <2> QED
      BY <2>1, <1>5
  <1>7. (m - 1) + 1 \in S
    BY <1>5, <1>6
  <1> QED
    BY <1>4, <1>7

\* f is defined by recursion over 0..n; step[k] is what happens at k.
Solves(f, n, X, base, step) ==
    /\ f \in [0..n -> X]
    /\ f[0] = base
    /\ \A k \in 1..n : f[k] = step[k][f[k-1]]

\* A recursion has a solution.
LEMMA RecursionHasSolution ==
    ASSUME NEW n \in Nat, NEW X, NEW base \in X, NEW step \in [1..n -> [X -> X]]
    PROVE  \E f : Solves(f, n, X, base, step)
  <1> DEFINE S == {m \in 0..n : \E f : Solves(f, m, X, base, step)}
  <1>1. 0 \in S
    <2>1. Solves([k \in 0..0 |-> base], 0, X, base, step)
      BY DEF Solves
    <2> QED
      BY <2>1
  <1>2. ASSUME NEW m \in 0..n, m \in S, m < n PROVE m + 1 \in S
    <2>1. PICK f : Solves(f, m, X, base, step)
      BY <1>2
    <2> DEFINE g == [k \in 0..(m + 1) |-> IF k = m + 1 THEN step[k][f[m]] ELSE f[k]]
    <2>2. f[m] \in X /\ m + 1 \in 1..n
      BY <2>1, <1>2 DEF Solves
    <2>3. step[m+1] \in [X -> X]
      BY <2>2
    <2>4. g \in [0..(m + 1) -> X]
      BY <2>1, <2>2, <2>3 DEF Solves
    <2>5. g[0] = base
      BY <2>1 DEF Solves
    <2>6. ASSUME NEW k \in 1..(m + 1) PROVE g[k] = step[k][g[k-1]]
      <3>1. CASE k = m + 1
        <4>1. g[k-1] = f[m]
          BY <3>1
        <4> QED
          BY <4>1, <3>1
      <3>2. CASE k # m + 1
        <4>1. k \in 1..m /\ g[k] = f[k] /\ g[k-1] = f[k-1]
          BY <3>2
        <4> QED
          BY <4>1, <2>1 DEF Solves
      <3> QED
        BY <3>1, <3>2
    <2>7. Solves(g, m + 1, X, base, step)
      BY <2>4, <2>5, <2>6, Zenon DEF Solves
    <2> HIDE DEF g
    <2> QED
      BY <2>7, <2>2
  <1> HIDE DEF S
  <1>3. 0..n \subseteq S
    BY <1>1, <1>2, UpTo
  <1> QED
    BY <1>3 DEF S

\* Whatever satisfies the equations, value by value, is a solution: from its first
\* value on it stays in X.
LEMMA SolvesByEquations ==
    ASSUME NEW n \in Nat, NEW X, NEW base \in X, NEW step \in [1..n -> [X -> X]],
           NEW g, g = [k \in 0..n |-> g[k]], g[0] = base,
           \A k \in 1..n : g[k-1] \in X => g[k] = step[k][g[k-1]]
    PROVE  Solves(g, n, X, base, step)
  <1> DEFINE S == {k \in 0..n : g[k] \in X}
  <1>1. 0 \in S
    OBVIOUS
  <1>2. ASSUME NEW k \in 0..n, k \in S, k < n PROVE k + 1 \in S
    <2>1. k + 1 \in 1..n /\ (k + 1) - 1 = k
      BY <1>2
    <2>2. step[k+1] \in [X -> X] /\ g[k] \in X
      BY <2>1, <1>2
    <2>3. g[k+1] = step[k+1][g[k]]
      BY <2>1, <2>2
    <2> QED
      BY <2>1, <2>2, <2>3
  <1> HIDE DEF S
  <1>3. 0..n \subseteq S
    BY <1>1, <1>2, UpTo
  <1>4. \A k \in 0..n : g[k] \in X
    BY <1>3 DEF S
  <1>5. g \in [0..n -> X]
    BY <1>4
  <1>6. ASSUME NEW k \in 1..n PROVE g[k] = step[k][g[k-1]]
    <2>1. k - 1 \in 0..n
      OBVIOUS
    <2> QED
      BY <1>4, <2>1
  <1> QED
    BY <1>5, <1>6, Zenon DEF Solves

-----------------------------------------------------------------------------
(* The recursive functions of WorkflowDefinition satisfy their equations. *)

\* A graph whose declaration is a sequence of nodes, each declared once.
Declared(w) == w.declared \in Seq(NodesOf(w)) /\ IsInjective(w.declared)

\* One pass more.
Pass(w, P) == P \cup {n \in NodesOf(w) : w.depends_on[n] \subseteq P}

Passes(w) == [k \in 1..Len(w.declared) |-> [P \in SUBSET NodesOf(w) |-> Pass(w, P)]]

\* What the passes of execution_order have placed.
LEMMA PlacedRecursion ==
    ASSUME NEW w, Declared(w)
    PROVE  /\ PlacedIn(w) \in [0..Len(w.declared) -> SUBSET NodesOf(w)]
           /\ PlacedIn(w)[0] = {}
           /\ \A k \in 1..Len(w.declared) : PlacedIn(w)[k] = Pass(w, PlacedIn(w)[k-1])
  <1> DEFINE N == Len(w.declared)
             X == SUBSET NodesOf(w)
             Eq(f) == [k \in 0..N |-> IF k = 0 THEN {}
                          ELSE f[k-1]
                               \cup {n \in NodesOf(w) : w.depends_on[n] \subseteq f[k-1]}]
  <1>1. N \in Nat /\ {} \in X
    BY DEF Declared
  <1>2. Passes(w) \in [1..N -> [X -> X]]
    BY DEF Pass, Passes
  <1>3. PICK f : Solves(f, N, X, {}, Passes(w))
    <2> HIDE DEF N, X
    <2> QED
      BY <1>1, <1>2, RecursionHasSolution
  <1>4. f = Eq(f)
    <2>1. f \in [0..N -> X]
      BY <1>3 DEF Solves
    <2>2. ASSUME NEW k \in 0..N PROVE f[k] = Eq(f)[k]
      <3>1. CASE k = 0
        BY <3>1, <1>3 DEF Solves
      <3>2. CASE k # 0
        <4>1. k \in 1..N /\ k - 1 \in 0..N
          BY <3>2, <1>1
        <4>2. f[k] = Passes(w)[k][f[k-1]] /\ f[k-1] \in X
          BY <4>1, <2>1, <1>3 DEF Solves
        <4>3. f[k] = Pass(w, f[k-1])
          BY <4>1, <4>2 DEF Passes
        <4> HIDE DEF N
        <4> QED
          BY <4>3, <3>2 DEF Pass
      <3> QED
        BY <3>1, <3>2
    <2> QED
      BY <2>1, <2>2
  <1>5. PlacedIn(w) = Eq(PlacedIn(w))
    BY <1>4, Zenon DEF PlacedIn
  <1> DEFINE g == PlacedIn(w)
  <1> HIDE DEF g
  <1>6. g = Eq(g)
    BY <1>5 DEF g
  <1>7. g = [k \in 0..N |-> g[k]] /\ g[0] = {}
    BY <1>6, <1>1
  <1>8. ASSUME NEW k \in 1..N PROVE g[k] = Pass(w, g[k-1])
    <2>1. k \in 0..N /\ k # 0
      BY <1>1
    <2> QED
      BY <1>6, <2>1 DEF Pass
  <1>9. Solves(g, N, X, {}, Passes(w))
    <2>1. \A k \in 1..N : g[k-1] \in X => g[k] = Passes(w)[k][g[k-1]]
      BY <1>8 DEF Passes
    <2> HIDE DEF N, X
    <2> QED
      BY <1>1, <1>2, <1>7, <2>1, SolvesByEquations
  <1> QED
    BY <1>8, <1>9 DEF g, Solves

\* One round more of the search from a node.
Round(w, P) == P \cup {m \in NodesOf(w) : w.depends_on[m] \cap P # {}}

Rounds(w) == [k \in 1..Len(w.declared) |-> [P \in SUBSET NodesOf(w) |-> Round(w, P)]]

\* What the search of reaches_approval has seen.
LEMMA SeenRecursion ==
    ASSUME NEW w, Declared(w), NEW n \in NodesOf(w)
    PROVE  /\ SeenIn(w, n) \in [0..Len(w.declared) -> SUBSET NodesOf(w)]
           /\ SeenIn(w, n)[0] = {n}
           /\ \A k \in 1..Len(w.declared) : SeenIn(w, n)[k] = Round(w, SeenIn(w, n)[k-1])
  <1> DEFINE N == Len(w.declared)
             X == SUBSET NodesOf(w)
             Eq(f) == [k \in 0..N |-> IF k = 0 THEN {n}
                          ELSE f[k-1]
                               \cup {m \in NodesOf(w) : w.depends_on[m] \cap f[k-1] # {}}]
  <1>1. N \in Nat /\ {n} \in X
    BY DEF Declared
  <1>2. Rounds(w) \in [1..N -> [X -> X]]
    BY DEF Round, Rounds
  <1>3. PICK f : Solves(f, N, X, {n}, Rounds(w))
    <2> HIDE DEF N, X
    <2> QED
      BY <1>1, <1>2, RecursionHasSolution
  <1>4. f = Eq(f)
    <2>1. f \in [0..N -> X]
      BY <1>3 DEF Solves
    <2>2. ASSUME NEW k \in 0..N PROVE f[k] = Eq(f)[k]
      <3>1. CASE k = 0
        BY <3>1, <1>3 DEF Solves
      <3>2. CASE k # 0
        <4>1. k \in 1..N /\ k - 1 \in 0..N
          BY <3>2, <1>1
        <4>2. f[k] = Rounds(w)[k][f[k-1]] /\ f[k-1] \in X
          BY <4>1, <2>1, <1>3 DEF Solves
        <4>3. f[k] = Round(w, f[k-1])
          BY <4>1, <4>2 DEF Rounds
        <4> HIDE DEF N
        <4> QED
          BY <4>3, <3>2 DEF Round
      <3> QED
        BY <3>1, <3>2
    <2> QED
      BY <2>1, <2>2
  <1> DEFINE g == CHOOSE c : c = Eq(c)
  <1>5. SeenIn(w, n) = g
    BY DEF SeenIn
  <1>6. g = Eq(g)
    <2> HIDE DEF Eq
    <2> QED
      BY <1>4, Zenon
  <1> HIDE DEF g
  <1>7. g = [k \in 0..N |-> g[k]] /\ g[0] = {n}
    BY <1>6, <1>1
  <1>8. ASSUME NEW k \in 1..N PROVE g[k] = Round(w, g[k-1])
    <2>1. k \in 0..N /\ k # 0
      BY <1>1
    <2> QED
      BY <1>6, <2>1 DEF Round
  <1>9. Solves(g, N, X, {n}, Rounds(w))
    <2>1. \A k \in 1..N : g[k-1] \in X => g[k] = Rounds(w)[k][g[k-1]]
      BY <1>8 DEF Rounds
    <2> HIDE DEF N, X
    <2> QED
      BY <1>1, <1>2, <1>7, <2>1, SolvesByEquations
  <1> QED
    BY <1>5, <1>8, <1>9 DEF Solves

\* The list a pass appends, one declared node at a time.
Listed(w, S, i, s) == IF w.declared[i] \in S THEN Append(s, w.declared[i]) ELSE s

Listing(w, S) ==
    [i \in 1..Len(w.declared) |-> [s \in Seq(NodesOf(w)) |-> Listed(w, S, i, s)]]

\* The nodes of a set in declared order are listed by a recursion that has a solution.
LEMMA ChosenRecursion ==
    ASSUME NEW w, Declared(w), NEW S
    PROVE  \E g : /\ g \in [0..Len(w.declared) -> Seq(NodesOf(w))]
                  /\ g[0] = << >>
                  /\ \A i \in 1..Len(w.declared) : g[i] = Listed(w, S, i, g[i-1])
                  /\ InDeclaredOrder(w, S) = g[Len(w.declared)]
  <1> DEFINE N == Len(w.declared)
             X == Seq(NodesOf(w))
             Eq(f) == [i \in 0..N |-> IF i = 0 THEN << >>
                          ELSE IF w.declared[i] \in S THEN Append(f[i-1], w.declared[i])
                          ELSE f[i-1]]
  <1>1. N \in Nat /\ << >> \in X
    BY DEF Declared
  <1>2. Listing(w, S) \in [1..N -> [X -> X]]
    <2>1. \A i \in 1..N, s \in X : Listed(w, S, i, s) \in X
      BY DEF Listed, Declared
    <2> HIDE DEF X
    <2> QED
      BY <2>1 DEF Listing, X
  <1>3. PICK f : Solves(f, N, X, << >>, Listing(w, S))
    <2> HIDE DEF N, X
    <2> QED
      BY <1>1, <1>2, RecursionHasSolution
  <1>4. f = Eq(f)
    <2>1. f \in [0..N -> X]
      BY <1>3 DEF Solves
    <2>2. ASSUME NEW k \in 0..N PROVE f[k] = Eq(f)[k]
      <3>1. CASE k = 0
        BY <3>1, <1>3 DEF Solves
      <3>2. CASE k # 0
        <4>1. k \in 1..N /\ k - 1 \in 0..N
          BY <3>2, <1>1
        <4>2. f[k] = Listing(w, S)[k][f[k-1]] /\ f[k-1] \in X
          BY <4>1, <2>1, <1>3 DEF Solves
        <4>3. f[k] = Listed(w, S, k, f[k-1])
          BY <4>1, <4>2 DEF Listing
        <4> HIDE DEF N
        <4> QED
          BY <4>3, <3>2 DEF Listed
      <3> QED
        BY <3>1, <3>2
    <2> HIDE DEF N, X
    <2> QED
      BY <2>1, <2>2
  <1> DEFINE g == CHOOSE c : c = Eq(c)
  <1>5. g = Eq(g) /\ InDeclaredOrder(w, S) = g[N]
    BY <1>4, Zenon DEF InDeclaredOrder
  <1> HIDE DEF g
  <1>6. g = [k \in 0..N |-> g[k]] /\ g[0] = << >>
    BY <1>5, <1>1
  <1>7. ASSUME NEW k \in 1..N PROVE g[k] = Listed(w, S, k, g[k-1])
    <2>1. k \in 0..N /\ k # 0
      BY <1>1
    <2> HIDE DEF N
    <2> QED
      BY <1>5, <2>1 DEF Listed
  <1>8. Solves(g, N, X, << >>, Listing(w, S))
    <2>1. \A k \in 1..N : g[k-1] \in X => g[k] = Listing(w, S)[k][g[k-1]]
      BY <1>7 DEF Listing
    <2> HIDE DEF N, X
    <2> QED
      BY <1>1, <1>2, <1>6, <2>1, SolvesByEquations
  <1>9. g \in [0..N -> X]
    BY <1>8 DEF Solves
  <1> QED
    BY <1>5, <1>6, <1>7, <1>9, Zenon

-----------------------------------------------------------------------------
(* The execution order. *)

\* Appending a new element keeps a sequence free of repetition.
LEMMA AppendDistinct ==
    ASSUME NEW T, NEW s \in Seq(T), NEW e \in T, IsInjective(s), e \notin Range(s)
    PROVE  /\ IsInjective(Append(s, e))
           /\ Range(Append(s, e)) = Range(s) \cup {e}
  <1> DEFINE a == Append(s, e)
  <1>1. /\ DOMAIN s = 1..Len(s) /\ Len(s) \in Nat
        /\ DOMAIN a = 1..(Len(s) + 1) /\ a[Len(s) + 1] = e
        /\ \A i \in 1..Len(s) : a[i] = s[i]
    OBVIOUS
  <1> HIDE DEF a
  <1>2. IsInjective(a)
    <2> SUFFICES ASSUME NEW i \in DOMAIN a, NEW j \in DOMAIN a, a[i] = a[j]
                 PROVE  i = j
      BY DEF IsInjective
    <2>1. \A k \in 1..Len(s) : s[k] # e
      BY <1>1 DEF Range
    <2>2. CASE i \in 1..Len(s) /\ j \in 1..Len(s)
      BY <2>2, <1>1 DEF IsInjective
    <2> QED
      BY <1>1, <2>1, <2>2
  <1>3. Range(a) = Range(s) \cup {e}
    <2>1. ASSUME NEW x \in Range(a) PROVE x \in Range(s) \cup {e}
      <3>1. PICK i \in DOMAIN a : x = a[i]
        BY DEF Range
      <3>2. CASE i \in 1..Len(s)
        BY <3>1, <3>2, <1>1 DEF Range
      <3> QED
        BY <3>1, <3>2, <1>1
    <2>2. ASSUME NEW x \in Range(s) PROVE x \in Range(a)
      <3>1. PICK i \in DOMAIN s : x = s[i]
        BY DEF Range
      <3>2. i \in DOMAIN a /\ a[i] = x
        BY <3>1, <1>1
      <3> QED
        BY <3>2 DEF Range
    <2>3. e \in Range(a)
      <3>1. Len(s) + 1 \in DOMAIN a
        BY <1>1
      <3> QED
        BY <1>1, <3>1 DEF Range
    <2> QED
      BY <2>1, <2>2, <2>3
  <1> QED
    BY <1>2, <1>3 DEF a

\* So does concatenating sequences that share nothing.
LEMMA ConcatDistinct ==
    ASSUME NEW T, NEW s \in Seq(T), NEW t \in Seq(T), IsInjective(s), IsInjective(t),
           Range(s) \cap Range(t) = {}
    PROVE  /\ IsInjective(s \o t)
           /\ Range(s \o t) = Range(s) \cup Range(t)
  <1> DEFINE a == s \o t
  <1>1. /\ DOMAIN s = 1..Len(s) /\ Len(s) \in Nat
        /\ DOMAIN t = 1..Len(t) /\ Len(t) \in Nat
        /\ DOMAIN a = 1..(Len(s) + Len(t))
        /\ \A i \in 1..Len(s) : a[i] = s[i]
        /\ \A i \in 1..Len(t) : a[Len(s) + i] = t[i]
    OBVIOUS
  <1> HIDE DEF a
  <1>2. \A i \in DOMAIN a : \/ i \in 1..Len(s) /\ a[i] = s[i]
                            \/ i - Len(s) \in 1..Len(t) /\ a[i] = t[i - Len(s)]
    <2> TAKE i \in DOMAIN a
    <2>1. CASE i <= Len(s)
      BY <2>1, <1>1
    <2>2. CASE i > Len(s)
      <3>1. i - Len(s) \in 1..Len(t) /\ Len(s) + (i - Len(s)) = i
        BY <2>2, <1>1
      <3> QED
        BY <3>1, <1>1
    <2> QED
      BY <2>1, <2>2, <1>1
  <1>3. \A i \in 1..Len(s), j \in 1..Len(t) : s[i] # t[j]
    BY <1>1 DEF Range
  <1>4. IsInjective(a)
    <2> SUFFICES ASSUME NEW i \in DOMAIN a, NEW j \in DOMAIN a, a[i] = a[j]
                 PROVE  i = j
      BY DEF IsInjective
    <2>1. CASE i \in 1..Len(s) /\ j \in 1..Len(s)
      BY <2>1, <1>1 DEF IsInjective
    <2>2. CASE i \notin 1..Len(s) /\ j \notin 1..Len(s)
      <3>1. i - Len(s) = j - Len(s)
        BY <2>2, <1>1, <1>2 DEF IsInjective
      <3> QED
        BY <3>1, <1>1
    <2> QED
      BY <2>1, <2>2, <1>2, <1>3
  <1>5. Range(a) = Range(s) \cup Range(t)
    <2>1. ASSUME NEW x \in Range(a) PROVE x \in Range(s) \cup Range(t)
      <3>1. PICK i \in DOMAIN a : x = a[i]
        BY DEF Range
      <3> QED
        BY <3>1, <1>1, <1>2 DEF Range
    <2>2. ASSUME NEW x \in Range(s) PROVE x \in Range(a)
      <3>1. PICK i \in DOMAIN s : x = s[i]
        BY DEF Range
      <3>2. i \in DOMAIN a /\ a[i] = x
        BY <3>1, <1>1
      <3> QED
        BY <3>2 DEF Range
    <2>3. ASSUME NEW x \in Range(t) PROVE x \in Range(a)
      <3>1. PICK i \in DOMAIN t : x = t[i]
        BY DEF Range
      <3>2. Len(s) + i \in DOMAIN a /\ a[Len(s) + i] = x
        BY <3>1, <1>1
      <3> QED
        BY <3>2 DEF Range
    <2> QED
      BY <2>1, <2>2, <2>3
  <1> QED
    BY <1>4, <1>5 DEF a

\* A pass appends exactly the nodes it is meant to, each once.
LEMMA InDeclaredOrderEnumerates ==
    ASSUME NEW w, Declared(w), NEW S \in SUBSET NodesOf(w)
    PROVE  /\ InDeclaredOrder(w, S) \in Seq(NodesOf(w))
           /\ IsInjective(InDeclaredOrder(w, S))
           /\ Range(InDeclaredOrder(w, S)) = S
  <1> DEFINE N == Len(w.declared)
             d == w.declared
  <1>1. PICK g : /\ g \in [0..N -> Seq(NodesOf(w))]
                 /\ g[0] = << >>
                 /\ \A i \in 1..N : g[i] = Listed(w, S, i, g[i-1])
                 /\ InDeclaredOrder(w, S) = g[N]
    BY ChosenRecursion, Zenon
  <1>2. N \in Nat /\ DOMAIN d = 1..N /\ \A i \in 1..N : d[i] \in NodesOf(w)
    BY DEF Declared
  <1> DEFINE Good(i) == /\ IsInjective(g[i])
                        /\ \A x : x \in Range(g[i]) <=> x \in S /\ \E j \in 1..i : d[j] = x
             K == {i \in 0..N : Good(i)}
  <1>3. 0 \in K
    <2>1. Range(<< >>) = {} /\ IsInjective(<< >>)
      BY DEF Range, IsInjective
    <2> QED
      BY <1>1, <1>2, <2>1
  <1>4. ASSUME NEW i \in 0..N, i \in K, i < N PROVE i + 1 \in K
    <2>1. i + 1 \in 1..N /\ i + 1 \in 0..N /\ (i + 1) - 1 = i
      BY <1>2, <1>4
    <2>2. g[i+1] = Listed(w, S, i + 1, g[i]) /\ g[i] \in Seq(NodesOf(w)) /\ d[i+1] \in NodesOf(w)
      BY <1>1, <1>2, <2>1
    <2>3. d[i+1] \notin Range(g[i])
      <3>1. \A j \in 1..i : d[j] # d[i+1]
        BY <1>2, <2>1 DEF Declared, IsInjective
      <3> QED
        BY <3>1, <1>4
    <2>4. CASE d[i+1] \in S
      <3>1. g[i+1] = Append(g[i], d[i+1])
        BY <2>2, <2>4 DEF Listed
      <3>2. IsInjective(g[i+1]) /\ Range(g[i+1]) = Range(g[i]) \cup {d[i+1]}
        <4> DEFINE s == g[i]
                   e == d[i+1]
        <4>1. s \in Seq(NodesOf(w)) /\ e \in NodesOf(w) /\ IsInjective(s) /\ e \notin Range(s)
          BY <2>2, <2>3, <1>4
        <4> HIDE DEF s, e
        <4>2. IsInjective(Append(s, e)) /\ Range(Append(s, e)) = Range(s) \cup {e}
          BY <4>1, AppendDistinct
        <4> QED
          BY <4>2, <3>1 DEF s, e
      <3>3. \A x : x \in Range(g[i+1]) <=> x \in S /\ \E j \in 1..(i + 1) : d[j] = x
        BY <3>2, <2>4, <1>4
      <3> QED
        BY <2>1, <3>2, <3>3
    <2>5. CASE d[i+1] \notin S
      <3>1. g[i+1] = g[i]
        BY <2>2, <2>5 DEF Listed
      <3>2. \A x : x \in Range(g[i+1]) <=> x \in S /\ \E j \in 1..(i + 1) : d[j] = x
        BY <3>1, <2>5, <1>4
      <3> QED
        BY <2>1, <3>1, <3>2, <1>4
    <2> QED
      BY <2>4, <2>5
  <1>5. 0..N \subseteq K
    <2> HIDE DEF K, N
    <2> QED
      BY <1>2, <1>3, <1>4, UpTo
  <1>6. Good(N)
    BY <1>2, <1>5
  <1>7. \A x \in S : \E j \in 1..N : d[j] = x
    BY <1>2 DEF NodesOf, Range
  <1>8. Range(g[N]) = S
    BY <1>6, <1>7
  <1> QED
    BY <1>1, <1>2, <1>6, <1>8

\* What pass k appends.
Ready(w, k) == InDeclaredOrder(w, PlacedIn(w)[k] \ PlacedIn(w)[k-1])

Appends(w) == [k \in 1..Len(w.declared) |-> [s \in Seq(NodesOf(w)) |-> s \o Ready(w, k)]]

\* A pass of execution_order lists exactly the nodes it places, each once.
LEMMA ReadyFacts ==
    ASSUME NEW w, Declared(w), NEW k \in 1..Len(w.declared)
    PROVE  /\ Ready(w, k) \in Seq(NodesOf(w))
           /\ IsInjective(Ready(w, k))
           /\ Range(Ready(w, k)) = PlacedIn(w)[k] \ PlacedIn(w)[k-1]
  <1>1. PlacedIn(w)[k] \ PlacedIn(w)[k-1] \in SUBSET NodesOf(w)
    <2>1. k \in 0..Len(w.declared)
      BY DEF Declared
    <2> QED
      BY <2>1, PlacedRecursion
  <1> QED
    BY <1>1, InDeclaredOrderEnumerates DEF Ready

\* The order, pass by pass.
LEMMA OrderRecursion ==
    ASSUME NEW w, Declared(w)
    PROVE  /\ OrderIn(w) \in [0..Len(w.declared) -> Seq(NodesOf(w))]
           /\ OrderIn(w)[0] = << >>
           /\ \A k \in 1..Len(w.declared) : OrderIn(w)[k] = OrderIn(w)[k-1] \o Ready(w, k)
  <1> DEFINE N == Len(w.declared)
             X == Seq(NodesOf(w))
             Eq(f) == [k \in 0..N |-> IF k = 0 THEN << >>
                          ELSE f[k-1] \o InDeclaredOrder(w, PlacedIn(w)[k] \ PlacedIn(w)[k-1])]
  <1>1. N \in Nat /\ << >> \in X
    BY DEF Declared
  <1>2. Appends(w) \in [1..N -> [X -> X]]
    <2>1. \A k \in 1..N, s \in X : s \o Ready(w, k) \in X
      BY ReadyFacts
    <2> HIDE DEF X
    <2> QED
      BY <2>1 DEF Appends, X
  <1>3. PICK f : Solves(f, N, X, << >>, Appends(w))
    <2> HIDE DEF N, X
    <2> QED
      BY <1>1, <1>2, RecursionHasSolution
  <1>4. f = Eq(f)
    <2>1. f \in [0..N -> X]
      BY <1>3 DEF Solves
    <2>2. ASSUME NEW k \in 0..N PROVE f[k] = Eq(f)[k]
      <3>1. CASE k = 0
        BY <3>1, <1>3 DEF Solves
      <3>2. CASE k # 0
        <4>1. k \in 1..N /\ k - 1 \in 0..N
          BY <3>2, <1>1
        <4>2. f[k] = Appends(w)[k][f[k-1]] /\ f[k-1] \in X
          BY <4>1, <2>1, <1>3 DEF Solves
        <4>3. f[k] = f[k-1] \o Ready(w, k)
          BY <4>1, <4>2 DEF Appends
        <4> HIDE DEF N
        <4> QED
          BY <4>3, <3>2 DEF Ready
      <3> QED
        BY <3>1, <3>2
    <2> HIDE DEF N, X
    <2> QED
      BY <2>1, <2>2
  <1> DEFINE g == CHOOSE c : c = Eq(c)
  <1>5. OrderIn(w) = g
    BY DEF OrderIn
  <1>6. g = Eq(g)
    <2> HIDE DEF Eq
    <2> QED
      BY <1>4, Zenon
  <1> HIDE DEF g
  <1>7. g = [k \in 0..N |-> g[k]] /\ g[0] = << >>
    BY <1>6, <1>1
  <1>8. ASSUME NEW k \in 1..N PROVE g[k] = g[k-1] \o Ready(w, k)
    <2>1. k \in 0..N /\ k # 0
      BY <1>1
    <2> HIDE DEF N
    <2> QED
      BY <1>6, <2>1 DEF Ready
  <1>9. Solves(g, N, X, << >>, Appends(w))
    <2>1. \A k \in 1..N : g[k-1] \in X => g[k] = Appends(w)[k][g[k-1]]
      BY <1>8 DEF Appends
    <2> HIDE DEF N, X
    <2> QED
      BY <1>1, <1>2, <1>7, <2>1, SolvesByEquations
  <1> QED
    BY <1>5, <1>8, <1>9 DEF Solves

\* Dependencies come first.
Topological(w, s) ==
    \A j \in 1..Len(s) : \A d \in w.depends_on[s[j]] : \E i \in 1..(j - 1) : s[i] = d

\* After k passes the order holds what has been placed, each node once and behind its
\* dependencies.
LEMMA OrderAfterPasses ==
    ASSUME NEW w, Declared(w), NEW k \in 0..Len(w.declared)
    PROVE  /\ IsInjective(OrderIn(w)[k])
           /\ Range(OrderIn(w)[k]) = PlacedIn(w)[k]
           /\ Topological(w, OrderIn(w)[k])
  <1> DEFINE N == Len(w.declared)
             o == OrderIn(w)
             p == PlacedIn(w)
             Good(i) == /\ IsInjective(o[i])
                        /\ Range(o[i]) = p[i]
                        /\ Topological(w, o[i])
             K == {i \in 0..N : Good(i)}
  <1>1. N \in Nat
    BY DEF Declared
  <1> HIDE DEF N, o, p
  <1>2. 0 \in K
    <2>1. o[0] = << >> /\ p[0] = {}
      BY OrderRecursion, PlacedRecursion DEF o, p
    <2>2. Range(<< >>) = {} /\ IsInjective(<< >>)
      BY DEF Range, IsInjective
    <2>3. Topological(w, << >>)
      BY DEF Topological
    <2>4. IsInjective(o[0]) /\ Range(o[0]) = p[0] /\ Topological(w, o[0])
      BY <2>1, <2>2, <2>3, Zenon
    <2> QED
      BY <1>1, <2>4
  <1>3. ASSUME NEW i \in 0..N, i \in K, i < N PROVE i + 1 \in K
    <2> DEFINE m == i + 1
               t == Ready(w, m)
    <2>1. m \in 1..N /\ m \in 0..N /\ m - 1 = i
      BY <1>1, <1>3
    <2> HIDE DEF m
    <2>2. o[m] = o[i] \o t /\ o[i] \in Seq(NodesOf(w))
      BY <2>1, <1>3, OrderRecursion DEF o, N
    <2>3. t \in Seq(NodesOf(w)) /\ IsInjective(t) /\ Range(t) = p[m] \ p[i]
      BY <2>1, ReadyFacts DEF p, N
    <2>4. p[m] = Pass(w, p[i])
      BY <2>1, PlacedRecursion DEF p, N
    <2>5. IsInjective(o[i]) /\ Range(o[i]) = p[i] /\ Topological(w, o[i])
      BY <1>3
    <2> DEFINE s == o[i]
    <2> HIDE DEF t, s
    <2>6. IsInjective(s \o t) /\ Range(s \o t) = Range(s) \cup Range(t)
      BY <2>2, <2>3, <2>5, ConcatDistinct DEF s
    <2>7. Range(s \o t) = p[m]
      BY <2>6, <2>3, <2>4, <2>5 DEF Pass, s
    <2>8. Topological(w, s \o t)
      <3> SUFFICES ASSUME NEW j \in 1..Len(s \o t), NEW d \in w.depends_on[(s \o t)[j]]
                   PROVE  \E h \in 1..(j - 1) : (s \o t)[h] = d
        BY DEF Topological
      <3>1. /\ s \in Seq(NodesOf(w)) /\ t \in Seq(NodesOf(w))
            /\ Len(s \o t) = Len(s) + Len(t) /\ Len(s) \in Nat /\ Len(t) \in Nat
            /\ \A h \in 1..Len(s) : (s \o t)[h] = s[h]
        BY <2>2, <2>3 DEF s
      <3>2. CASE j <= Len(s)
        <4>1. j \in 1..Len(s) /\ d \in w.depends_on[s[j]]
          BY <3>1, <3>2
        <4>2. PICK h \in 1..(j - 1) : s[h] = d
          BY <4>1, <2>5 DEF Topological, s
        <4> QED
          BY <4>1, <4>2, <3>1
      <3>3. CASE j > Len(s)
        <4>1. j - Len(s) \in 1..Len(t) /\ (s \o t)[j] = t[j - Len(s)]
          BY <3>1, <3>3
        <4>2. t[j - Len(s)] \in p[m] \ p[i]
          BY <4>1, <2>3, <3>1 DEF Range
        <4>3. d \in p[i]
          BY <4>1, <4>2, <2>4 DEF Pass
        <4>4. PICK h \in 1..Len(s) : s[h] = d
          BY <4>3, <2>5, <3>1 DEF Range, s
        <4> QED
          BY <4>4, <3>1, <3>3
      <3> QED
        BY <3>1, <3>2, <3>3
    <2>9. Good(m)
      BY <2>2, <2>6, <2>7, <2>8 DEF s
    <2> QED
      BY <2>1, <2>9 DEF m
  <1>4. 0..N \subseteq K
    <2> HIDE DEF K
    <2> QED
      BY <1>1, <1>2, <1>3, UpTo
  <1> QED
    BY <1>4 DEF N, o, p

-----------------------------------------------------------------------------
(* Len(declared) passes, or rounds, are enough. *)

\* A sequence without repetition has as many elements as it is long.
LEMMA DistinctCount ==
    ASSUME NEW T, NEW s \in Seq(T), IsInjective(s)
    PROVE  IsFiniteSet(Range(s)) /\ Cardinality(Range(s)) = Len(s)
  <1>1. Len(s) \in Nat /\ DOMAIN s = 1..Len(s) /\ s \in [1..Len(s) -> T]
    OBVIOUS
  <1>2. s \in [1..Len(s) -> Range(s)] /\ \A x \in Range(s) : \E i \in 1..Len(s) : s[i] = x
    BY <1>1 DEF Range
  <1>3. s \in Bijection(1..Len(s), Range(s))
    BY <1>1, <1>2 DEF Bijection, Injection, Surjection, IsInjective
  <1>4. ExistsBijection(1..Len(s), Range(s))
    BY <1>3 DEF ExistsBijection
  <1> QED
    BY <1>1, <1>4, FS_CountingElements, FS_NatBijection

\* F adds to a subset of U.
Inflates(F, U) == F \in [SUBSET U -> SUBSET U] /\ \A P \in SUBSET U : P \subseteq F[P]

\* Each set of f is F of the one before.
Chain(f, n, U, F) == f \in [0..n -> SUBSET U] /\ \A k \in 1..n : f[k] = F[f[k-1]]

\* Such a chain has come to rest after as many steps as there are elements.
LEMMA Saturates ==
    ASSUME NEW U, IsFiniteSet(U), NEW n \in Nat, n = Cardinality(U),
           NEW F, Inflates(F, U), NEW f, Chain(f, n, U, F)
    PROVE  F[f[n]] = f[n]
  <1> USE DEF Inflates, Chain
  <1> DEFINE K == {k \in 0..n : F[f[k]] = f[k] \/ Cardinality(f[k]) >= k}
  <1>0. \A P \in SUBSET U : Cardinality(P) \in Nat /\ IsFiniteSet(P)
    BY FS_Subset, FS_CardinalityType
  <1>1. 0 \in K
    BY <1>0
  <1>2. ASSUME NEW k \in 0..n, k \in K, k < n PROVE k + 1 \in K
    <2>1. k + 1 \in 0..n /\ f[k] \in SUBSET U /\ f[k+1] \in SUBSET U /\ f[k+1] = F[f[k]]
      <3>1. k + 1 \in 1..n /\ (k + 1) - 1 = k
        BY <1>2
      <3> QED
        BY <3>1
    <2>2. CASE F[f[k]] = f[k]
      BY <2>1, <2>2
    <2>3. CASE F[f[k]] # f[k]
      <3>1. f[k] \subseteq f[k+1] /\ f[k] # f[k+1]
        BY <2>1, <2>3
      <3>2. Cardinality(f[k]) <= Cardinality(f[k+1])
            /\ Cardinality(f[k]) # Cardinality(f[k+1])
        BY <2>1, <3>1, <1>0, FS_Subset
      <3>3. Cardinality(f[k]) >= k
        BY <1>2, <2>3
      <3>4. Cardinality(f[k+1]) >= k + 1
        BY <3>2, <3>3, <2>1, <1>0
      <3> QED
        BY <3>4, <2>1
    <2> QED
      BY <2>2, <2>3
  <1>3. 0..n \subseteq K
    <2> HIDE DEF K
    <2> QED
      BY <1>1, <1>2, UpTo
  <1>4. SUFFICES ASSUME Cardinality(f[n]) >= n PROVE F[f[n]] = f[n]
    <2>1. n \in K
      BY <1>3
    <2> QED
      BY <2>1
  <1>5. f[n] = U
    BY <1>4, <1>0, FS_Subset
  <1>6. U \in SUBSET U
    OBVIOUS
  <1>7. F[U] \in SUBSET U /\ U \subseteq F[U]
    BY <1>6
  <1> QED
    BY <1>5, <1>7

\* A graph has as many nodes as it declares.
LEMMA NodesCount ==
    ASSUME NEW w, Declared(w)
    PROVE  IsFiniteSet(NodesOf(w)) /\ Cardinality(NodesOf(w)) = Len(w.declared)
  BY DistinctCount DEF Declared, NodesOf

\* A further pass would place nothing.
LEMMA PassesSuffice ==
    ASSUME NEW w, Declared(w)
    PROVE  LET placed == PlacedIn(w)[Len(w.declared)]
           IN  placed \in SUBSET NodesOf(w) /\ Pass(w, placed) = placed
  <1> DEFINE N == Len(w.declared)
             U == NodesOf(w)
             F == [P \in SUBSET U |-> Pass(w, P)]
             f == PlacedIn(w)
  <1>1. N \in Nat /\ N \in 0..N
    BY DEF Declared
  <1>2. IsFiniteSet(U) /\ N = Cardinality(U)
    BY NodesCount
  <1>3. F \in [SUBSET U -> SUBSET U] /\ \A P \in SUBSET U : P \subseteq F[P]
    BY DEF Pass
  <1>4. f \in [0..N -> SUBSET U] /\ \A k \in 1..N : f[k] = Pass(w, f[k-1])
    BY PlacedRecursion
  <1>5. \A k \in 1..N : f[k] = F[f[k-1]]
    <2> TAKE k \in 1..N
    <2>1. k - 1 \in 0..N
      BY <1>1
    <2> HIDE DEF f, N, U
    <2> QED
      BY <2>1, <1>4
  <1>6. F[f[N]] = f[N]
    <2> HIDE DEF F, f, N, U
    <2>1. Inflates(F, U) /\ Chain(f, N, U, F)
      BY <1>3, <1>4, <1>5, Zenon DEF Inflates, Chain
    <2> QED
      BY <1>1, <1>2, <2>1, Saturates
  <1> QED
    BY <1>1, <1>4, <1>6

\* A further round would find nothing: what was seen is closed under dependents.
LEMMA RoundsSuffice ==
    ASSUME NEW w, Declared(w), NEW n \in NodesOf(w)
    PROVE  Downstream(w, n) \in SUBSET NodesOf(w)
           /\ Round(w, Downstream(w, n)) = Downstream(w, n)
  <1> DEFINE N == Len(w.declared)
             U == NodesOf(w)
             F == [P \in SUBSET U |-> Round(w, P)]
             f == SeenIn(w, n)
  <1>1. N \in Nat /\ N \in 0..N
    BY DEF Declared
  <1>2. IsFiniteSet(U) /\ N = Cardinality(U)
    BY NodesCount
  <1>3. F \in [SUBSET U -> SUBSET U] /\ \A P \in SUBSET U : P \subseteq F[P]
    BY DEF Round
  <1>4. f \in [0..N -> SUBSET U] /\ \A k \in 1..N : f[k] = Round(w, f[k-1])
    BY SeenRecursion
  <1>5. \A k \in 1..N : f[k] = F[f[k-1]]
    <2> TAKE k \in 1..N
    <2>1. k - 1 \in 0..N
      BY <1>1
    <2> HIDE DEF f, N, U
    <2> QED
      BY <2>1, <1>4
  <1>6. F[f[N]] = f[N]
    <2> HIDE DEF F, f, N, U
    <2>1. Inflates(F, U) /\ Chain(f, N, U, F)
      BY <1>3, <1>4, <1>5, Zenon DEF Inflates, Chain
    <2> QED
      BY <1>1, <1>2, <2>1, Saturates
  <1> QED
    BY <1>1, <1>4, <1>6 DEF Downstream

\* The search starts from n, and finds nothing that is not downstream of it: any set
\* with n that is closed under dependents holds all it sees.
LEMMA DownstreamLeast ==
    ASSUME NEW w, Declared(w), NEW n \in NodesOf(w), NEW S, n \in S,
           \A m \in NodesOf(w) : w.depends_on[m] \cap S # {} => m \in S
    PROVE  n \in Downstream(w, n) /\ Downstream(w, n) \subseteq S
  <1> DEFINE N == Len(w.declared)
             f == SeenIn(w, n)
             K == {k \in 0..N : n \in f[k] /\ f[k] \subseteq S}
  <1>1. N \in Nat /\ N \in 0..N
    BY DEF Declared
  <1>2. f[0] = {n} /\ \A k \in 1..N : f[k] = Round(w, f[k-1])
    BY SeenRecursion
  <1> HIDE DEF f, N
  <1>3. 0 \in K
    BY <1>1, <1>2
  <1>4. ASSUME NEW k \in 0..N, k \in K, k < N PROVE k + 1 \in K
    <2>1. k + 1 \in 1..N /\ k + 1 \in 0..N /\ (k + 1) - 1 = k
      BY <1>1, <1>4
    <2>2. f[k+1] = Round(w, f[k])
      BY <2>1, <1>2
    <2>3. f[k] \subseteq S /\ n \in f[k]
      BY <1>4
    <2> QED
      BY <2>1, <2>2, <2>3 DEF Round
  <1>5. 0..N \subseteq K
    <2> HIDE DEF K
    <2> QED
      BY <1>1, <1>3, <1>4, UpTo
  <1> QED
    BY <1>1, <1>5 DEF Downstream, f, N

-----------------------------------------------------------------------------
(* What the runner relies on. *)

\* execution_order raises exactly when its passes leave a node behind.
LEMMA OrderOfPasses ==
    ASSUME NEW w, Declared(w)
    PROVE  /\ execution_order(w) \in Seq(NodesOf(w))
           /\ IsInjective(execution_order(w))
           /\ Topological(w, execution_order(w))
           /\ Range(execution_order(w)) = PlacedIn(w)[Len(w.declared)]
           /\ ~HasCycle(w) <=> PlacedIn(w)[Len(w.declared)] = NodesOf(w)
  <1> DEFINE N == Len(w.declared)
             order == execution_order(w)
             placed == PlacedIn(w)[N]
  <1>1. N \in Nat /\ N \in 0..N
    BY DEF Declared
  <1>2. order \in Seq(NodesOf(w))
    BY <1>1, OrderRecursion DEF execution_order
  <1>3. IsInjective(order) /\ Range(order) = placed /\ Topological(w, order)
    BY <1>1, OrderAfterPasses DEF execution_order
  <1>4. placed \in SUBSET NodesOf(w)
    BY PassesSuffice
  <1>5. Cardinality(placed) = Len(order)
    <2> HIDE DEF order, placed
    <2> QED
      BY <1>2, <1>3, DistinctCount
  <1>6. Len(order) = N <=> placed = NodesOf(w)
    <2> HIDE DEF order, placed, N
    <2>1. IsFiniteSet(NodesOf(w)) /\ Cardinality(NodesOf(w)) = N
      BY NodesCount DEF N
    <2> QED
      BY <1>4, <1>5, <2>1, FS_Subset
  <1> QED
    BY <1>2, <1>3, <1>6 DEF HasCycle

\* The execution order of every graph the validator accepts is a topological one: it
\* holds each node once, behind everything the node depends on (execution_order,
\* "Topological order").
THEOREM OrderIsTopological ==
    ASSUME NEW w, w.declared \in Seq(NodesOf(w)), valid(w)
    PROVE  /\ execution_order(w) \in Seq(NodesOf(w))
           /\ Range(execution_order(w)) = NodesOf(w)
           /\ IsInjective(execution_order(w))
           /\ \A i, j \in DOMAIN execution_order(w) :
                 execution_order(w)[i] \in w.depends_on[execution_order(w)[j]] => i < j
  <1> DEFINE order == execution_order(w)
  <1>1. Declared(w) /\ ~HasCycle(w)
    BY DEF valid, Declared
  <1>2. /\ order \in Seq(NodesOf(w)) /\ Range(order) = NodesOf(w)
        /\ IsInjective(order) /\ Topological(w, order)
    BY <1>1, OrderOfPasses
  <1> HIDE DEF order
  <1>3. ASSUME NEW i \in DOMAIN order, NEW j \in DOMAIN order,
               order[i] \in w.depends_on[order[j]]
        PROVE  i < j
    <2>1. i \in 1..Len(order) /\ j \in 1..Len(order) /\ Len(order) \in Nat
      BY <1>2
    <2>2. PICK h \in 1..(j - 1) : order[h] = order[i]
      BY <2>1, <1>2, <1>3 DEF Topological
    <2>3. h \in DOMAIN order
      BY <2>1, <2>2, <1>2
    <2>4. h = i
      BY <2>2, <2>3, <1>2 DEF IsInjective
    <2> QED
      BY <2>1, <2>2, <2>4
  <1> QED
    BY <1>2, <1>3 DEF order
=============================================================================
