--------------------------- MODULE WorkspaceProofs ---------------------------
(***************************************************************************)
(* Proofs about the runs that share a repository, for any finite number of *)
(* runs and any number of writes and faults.                               *)
(***************************************************************************)
EXTENDS Workspaces, DefinitionProofs, FiniteSetTheorems, TLAPS

Slot      == [tree : Tree \cup {NoTree}, locked : BOOLEAN, version : Nat]
Heads     == [Tree -> {Absent} \cup Nat]
Files     == [Place -> Nat]
Snapshots == [slot : [Slots -> Slot], head : Heads, files : Files]
Phases    == {"idle", "armed", "baseline", "failing", "releasing", "ended"}
Disks     == [Tree -> {"absent", "empty", "tree"}]

\* git describes a tree in one slot only, and only a tree whose branch exists.
SlotsInv ==
    /\ \A j, k \in Slots : slot[j].tree # NoTree /\ slot[j].tree = slot[k].tree => j = k
    /\ \A k \in Slots : slot[k].tree # NoTree => head[slot[k].tree] # Absent
    /\ \A k \in Slots : slot[k].tree = NoTree => slot[k] = Free

\* A directory that holds a tree is known to git.
DiskInv == \A t \in Tree : disk[t] = "tree" => HasTree(t)

\* The worktree a run knows of has been created, and was before its baseline; a
\* worker has it before him, and the record of a run that ended is saved.
KnownInv ==
    \A r \in Runs :
        /\ known[r] # "no" \/ head[<<r, "baseline">>] # Absent => head[<<r, "run">>] # Absent
        /\ phase[r] \in {"armed", "baseline"} => known[r] # "no"
        /\ phase[r] = "armed" => disk[<<r, "run">>] = "tree"
        /\ phase[r] = "ended" => known[r] # "memory"

\* LiveTreeKept; and a run at its end has said so.
LiveInv ==
    /\ LiveTreeKept
    /\ \A r \in Runs : phase[r] = "releasing" => "terminal" \in trail[r]

\* What the armed run would be told of the path is newer than its snapshot.  (Slots
\* that were free then and are free again have nothing to tell.)
Changed(r, p) ==
    \/ /\ p[1] = "worktrees"
       /\ slot[p[2]].tree = before[r].slot[p[2]].tree =>
             \/ before[r].slot[p[2]].version < slot[p[2]].version
             \/ slot[p[2]].tree = NoTree
    \/ p[1] = "heads" /\ p[2] # <<r, "run">> /\ before[r].head[p[2]] < head[p[2]]
    \/ p[1] = "files" /\ before[r].files[p[2]] < files[p[2]]

\* The snapshot of an armed run is an earlier state of the repository.
Earlier(r) ==
    /\ \A k \in Slots :
          LET b == before[r].slot[k]
          IN  /\ b.tree = NoTree => b = Free
              /\ b.tree # NoTree => head[b.tree] # Absent
              /\ slot[k].tree = b.tree => b.version <= slot[k].version
    /\ \A t \in Tree : before[r].head[t] <= head[t]
    /\ \A x \in Place : before[r].files[x] <= files[x]

EscapeInv ==
    \A r \in Runs :
        /\ phase[r] # "armed" => wrote[r] = {}
        /\ phase[r] = "armed" => Earlier(r) /\ \A p \in wrote[r] : Changed(r, p)

Alone(r) == \A other \in Runs \ {r} : head[<<other, "run">>] = Absent

\* What differs from the snapshot of a worker that has written nowhere else: the
\* first slot, its branch, and the object store.
OwnOnly(r) ==
    /\ \A k \in Slots \ {0} : before[r].slot[k] = slot[k]
    /\ \A t \in Tree \ {<<r, "run">>} : before[r].head[t] = head[t]
    /\ \A x \in Place \ {"objects"} : before[r].files[x] = files[x]

\* The worktree of a run that is alone is described in slot 0.
AloneFacts(r) ==
    /\ HasTree(<<r, "run">>) => slot[0].tree = <<r, "run">>
    /\ phase[r] = "armed" => wrote[r] # {} \/ OwnOnly(r)

AloneInv == \A r \in Runs : Alone(r) => AloneFacts(r)

WorkspaceInv ==
    /\ TypeOK /\ before \in [Runs -> Snapshots]
    /\ SlotsInv /\ DiskInv /\ KnownInv /\ LiveInv /\ EscapeInv /\ AloneInv
    /\ ReconcileAccounts

-----------------------------------------------------------------------------
(* What the steps do to git's metadata *)

\* The parts of the type invariant that the proofs use.
LEMMA Typed ==
    ASSUME WorkspaceInv
    PROVE  /\ slot \in [Slots -> Slot] /\ head \in Heads /\ files \in Files
           /\ phase \in [Runs -> Phases] /\ known \in [Runs -> {"no", "memory", "stored"}]
           /\ trail \in [Runs -> SUBSET {"terminal", "unlock_failed"}]
           /\ wrote \in [Runs -> SUBSET Target] /\ before \in [Runs -> Snapshots]
           /\ disk \in Disks
           /\ \A t \in Tree : head[t] = Absent \/ head[t] \in Nat
  BY DEF WorkspaceInv, TypeOK, Slot, Heads, Files, Phases, Disks

\* A tree is of a run, and is not the mark of a free slot.
LEMMA Trees ==
    /\ NoTree \notin Tree
    /\ \A r \in Runs : <<r, "run">> \in Tree /\ <<r, "baseline">> \in Tree
    /\ \A t \in Tree : t[1] \in Runs /\ t[2] \in {"run", "baseline"} /\ t = <<t[1], t[2]>>
  BY DEF NoTree, Tree

\* There are as many slots as trees: one is free as long as a tree has none.
LEMMA FreeSlot ==
    ASSUME WorkspaceInv, NEW t \in Tree, ~HasTree(t)
    PROVE  \E k \in Slots : slot[k].tree = NoTree
  <1> SUFFICES ASSUME \A k \in Slots : slot[k].tree # NoTree
               PROVE  FALSE
    OBVIOUS
  <1> DEFINE f == [k \in Slots |-> slot[k].tree]
             n == Cardinality(Runs)
  <1>1. n \in Nat /\ IsFiniteSet(Runs)
    BY RunsAssumption, FS_CardinalityType
  <1>2. IsFiniteSet({"run", "baseline"}) /\ Cardinality({"run", "baseline"}) = 2
    <2>1. IsFiniteSet({"run"}) /\ Cardinality({"run"}) = 1
      BY FS_Singleton
    <2>2. {"run"} \cup {"baseline"} = {"run", "baseline"} /\ "baseline" \notin {"run"}
      OBVIOUS
    <2>3. IsFiniteSet({"run"} \cup {"baseline"}) /\ Cardinality({"run"} \cup {"baseline"}) = 2
      <3> DEFINE S == {"run"}
      <3>1. "baseline" \notin S /\ IsFiniteSet(S) /\ Cardinality(S) = 1
        BY <2>1
      <3> HIDE DEF S
      <3>2. /\ IsFiniteSet(S \cup {"baseline"})
            /\ Cardinality(S \cup {"baseline"})
                 = IF "baseline" \in S THEN Cardinality(S) ELSE Cardinality(S) + 1
        BY <3>1, FS_AddElement
      <3>3. IsFiniteSet(S \cup {"baseline"}) /\ Cardinality(S \cup {"baseline"}) = 2
        BY <3>1, <3>2
      <3> QED BY <3>3 DEF S
    <2> QED BY <2>2, <2>3
  <1>3. IsFiniteSet(Tree) /\ Cardinality(Tree) = n * 2
    BY <1>1, <1>2, FS_Product DEF Tree
  <1>4. IsFiniteSet(Tree \ {t}) /\ Cardinality(Tree \ {t}) = n * 2 - 1
    BY <1>3, FS_RemoveElement
  <1>5. IsFiniteSet(Slots) /\ Cardinality(Slots) = 2 * n
    <2>1. n # 0
      BY <1>1, FS_EmptySet, Trees
    <2> HIDE DEF n
    <2>2. 2 * n - 1 \in Int /\ ~(0 > 2 * n - 1)
      BY <1>1, <2>1
    <2>3. IsFiniteSet(0..(2 * n - 1)) /\ Cardinality(0..(2 * n - 1)) = (2 * n - 1) - 0 + 1
      BY <2>2, FS_Interval
    <2> QED BY <1>1, <2>3 DEF Slots, n
  <1>6. f \in [Slots -> Tree \ {t}]
    BY Typed DEF HasTree, Slot
  <1>7. Cardinality(Tree \ {t}) < Cardinality(Slots)
    <2> HIDE DEF n
    <2> QED BY <1>1, <1>4, <1>5
  <1>8. \E j, k \in Slots : j # k /\ f[j] = f[k]
    <2> HIDE DEF f
    <2> QED BY <1>4, <1>5, <1>6, <1>7, FS_PigeonHole
  <1> QED BY <1>8 DEF WorkspaceInv, SlotsInv

\* What a step may do to what git keeps: a branch stays, versions grow, and a slot
\* comes to describe another tree only when that is created.
GitKept ==
    /\ slot' \in [Slots -> Slot] /\ head' \in Heads /\ files' \in Files
    /\ SlotsInv'
    /\ \A t \in Tree : head[t] <= head'[t]
    /\ \A x \in Place : files[x] <= files'[x]
    /\ \A k \in Slots :
          /\ slot'[k].tree = slot[k].tree => slot[k].version <= slot'[k].version
          /\ slot'[k].tree \notin {slot[k].tree, NoTree} => head[slot'[k].tree] = Absent

\* Nothing happens to it.
LEMMA NothingTells ==
    ASSUME WorkspaceInv, UNCHANGED git
    PROVE  /\ GitKept
           /\ \A u \in Tree : (Locked(u)' <=> Locked(u)) /\ (HasTree(u)' <=> HasTree(u))
  <1> USE Typed
  <1>1. UNCHANGED <<slot, head, files>>
    BY DEF git
  <1>2. SlotsInv'
    BY <1>1 DEF WorkspaceInv, SlotsInv
  <1>3. \A u \in Tree : (Locked(u)' <=> Locked(u)) /\ (HasTree(u)' <=> HasTree(u))
    BY <1>1 DEF Locked, HasTree
  <1>4. \A k \in Slots : slot[k].version \in Nat
    BY DEF Slot
  <1>5. \A t \in Tree : head[t] <= head[t]
    BY DEF Absent
  <1>6. \A x \in Place : files[x] <= files[x]
    BY DEF Files
  <1>7. \A k \in Slots : slot[k].version <= slot[k].version
    BY <1>4
  <1> QED BY <1>1, <1>2, <1>3, <1>5, <1>6, <1>7 DEF GitKept

New(t, lock) == [tree |-> t, locked |-> lock, version |-> 0]

\* What create does: the first free slot describes the new tree.
CreatedIn(k, t, lock) ==
    /\ k \in Slots /\ slot[k].tree = NoTree
    /\ \A j \in Slots : slot[j].tree = NoTree => k <= j
    /\ head[t] = Absent /\ ~HasTree(t)
    /\ slot' = [slot EXCEPT ![k] = New(t, lock)]
    /\ head' = [head EXCEPT ![t] = 0]
    /\ disk' = [disk EXCEPT ![t] = "tree"]

\* There is such a slot, so create always has one to take.
LEMMA CreateTakes ==
    ASSUME WorkspaceInv, NEW t \in Tree, NEW lock \in BOOLEAN, Create(t, lock)
    PROVE  \E k \in Slots : CreatedIn(k, t, lock)
  <1> DEFINE free == {i \in Slots : slot[i].tree = NoTree}
  <1>1. ~HasTree(t) /\ head[t] = Absent
    BY Trees DEF Create, CanCreate, HasTree, WorkspaceInv, SlotsInv
  <1>2. free # {} /\ free \in SUBSET Nat
    <2>1. free # {}
      BY <1>1, FreeSlot
    <2>2. Slots \subseteq Nat
      BY DEF Slots
    <2> QED BY <2>1, <2>2
  <1>3. /\ slot' = [slot EXCEPT ![Min(free)] = New(t, lock)]
        /\ head' = [head EXCEPT ![t] = 0] /\ disk' = [disk EXCEPT ![t] = "tree"]
    BY DEF Create, New
  <1> HIDE DEF free
  <1>5. Min(free) \in free /\ \A j \in free : Min(free) <= j
    BY <1>2, MinOfNats
  <1>6. Min(free) \in Slots /\ slot[Min(free)].tree = NoTree
    BY <1>5 DEF free
  <1>7. \A j \in Slots : slot[j].tree = NoTree => Min(free) <= j
    BY <1>5 DEF free
  <1> QED BY <1>1, <1>3, <1>6, <1>7 DEF CreatedIn

\* A tree that git knows has its slot, and its branch exists.
LEMMA TreeKnown ==
    ASSUME WorkspaceInv, NEW t \in Tree, HasTree(t)
    PROVE  /\ head[t] # Absent
           /\ SlotOf(t) \in Slots /\ slot[SlotOf(t)].tree = t
           /\ \A j \in Slots : slot[j].tree = t => j = SlotOf(t)
  <1>1. SlotOf(t) \in Slots /\ slot[SlotOf(t)].tree = t
    BY DEF HasTree, SlotOf
  <1> QED BY <1>1, Trees DEF WorkspaceInv, SlotsInv

\* A locked tree is known.
LEMMA LockedKnown == \A t : Locked(t) => HasTree(t)
  BY DEF Locked, HasTree

\* What git knows after a create.
LEMMA CreatedTells ==
    ASSUME WorkspaceInv, NEW t \in Tree, NEW lock \in BOOLEAN, NEW k \in Slots,
           CreatedIn(k, t, lock), files' = files
    PROVE  /\ GitKept /\ disk' \in Disks
           /\ \A u \in Tree : Locked(u)' <=> Locked(u) \/ (u = t /\ lock)
           /\ \A u \in Tree : HasTree(u)' <=> HasTree(u) \/ u = t
           /\ slot'[k].tree = t /\ head'[t] # Absent
           /\ \A j \in Slots \ {k} : slot'[j] = slot[j]
           /\ \A u \in Tree \ {t} : head'[u] = head[u]
  <1> USE Typed, Trees DEF CreatedIn
  <1>1. New(t, lock) \in Slot /\ New(t, lock).tree = t /\ New(t, lock).locked = lock
    BY DEF New, Slot
  <1>2. /\ slot' \in [Slots -> Slot] /\ slot'[k] = New(t, lock)
        /\ \A j \in Slots \ {k} : slot'[j] = slot[j]
    BY <1>1
  <1>3. /\ head' \in Heads /\ head'[t] = 0 /\ head'[t] # Absent /\ head[t] = Absent
        /\ \A u \in Tree \ {t} : head'[u] = head[u]
    BY DEF Absent, Heads
  <1>4. disk' \in Disks
    BY DEF Disks
  <1>5. \A j \in Slots : slot[j].tree # t
    BY DEF HasTree
  <1>6. SlotsInv'
    <2>1. \A i, j \in Slots : slot'[i].tree # NoTree /\ slot'[i].tree = slot'[j].tree => i = j
      BY <1>1, <1>2, <1>5 DEF WorkspaceInv, SlotsInv
    <2>2. ASSUME NEW j \in Slots, slot'[j].tree # NoTree PROVE head'[slot'[j].tree] # Absent
      <3>1. CASE j = k
        BY <1>1, <1>2, <1>3, <3>1
      <3>2. CASE j # k
        <4>1. slot'[j].tree = slot[j].tree /\ slot[j].tree \in Tree \ {t}
          BY <1>2, <1>5, <2>2, <3>2 DEF Slot
        <4> QED BY <1>3, <2>2, <4>1 DEF WorkspaceInv, SlotsInv
      <3> QED BY <3>1, <3>2
    <2>3. \A j \in Slots : slot'[j].tree = NoTree => slot'[j] = Free
      BY <1>1, <1>2 DEF WorkspaceInv, SlotsInv
    <2> QED BY <2>1, <2>2, <2>3 DEF SlotsInv
  <1>7. \A u \in Tree : Locked(u)' <=> Locked(u) \/ (u = t /\ lock)
    BY <1>1, <1>2, <1>5 DEF Locked
  <1>8. \A u \in Tree : HasTree(u)' <=> HasTree(u) \/ u = t
    <2> TAKE u \in Tree
    <2>1. CASE u = t
      BY <1>1, <1>2, <2>1 DEF HasTree
    <2>2. CASE u # t
      <3>1. \A j \in Slots : slot'[j].tree = u <=> slot[j].tree = u
        BY <1>1, <1>2, <2>2
      <3> QED BY <2>2, <3>1 DEF HasTree
    <2> QED BY <2>1, <2>2
  <1>9. /\ \A u \in Tree : head[u] <= head'[u]
        /\ \A x \in Place : files[x] <= files'[x]
    BY <1>3 DEF Absent, Files
  <1>10. ASSUME NEW j \in Slots
         PROVE  /\ slot'[j].tree = slot[j].tree => slot[j].version <= slot'[j].version
                /\ slot'[j].tree \notin {slot[j].tree, NoTree} => head[slot'[j].tree] = Absent
    <2>1. slot[j].version \in Nat
      BY DEF Slot
    <2>2. CASE j = k
      BY <1>1, <1>2, <1>3, <2>2
    <2>3. CASE j # k
      BY <1>2, <2>1, <2>3
    <2> QED BY <2>2, <2>3
  <1>11. GitKept
    BY <1>2, <1>3, <1>6, <1>9, <1>10 DEF GitKept
  <1> QED BY <1>1, <1>2, <1>3, <1>4, <1>7, <1>8, <1>11

\* What git knows after trees were removed or pruned.
LEMMA ForgottenTells ==
    ASSUME WorkspaceInv, NEW T \in SUBSET Tree, slot' = Forgotten(T),
           UNCHANGED <<head, files>>
    PROVE  /\ GitKept
           /\ \A u \in Tree : Locked(u)' <=> Locked(u) /\ u \notin T
           /\ \A u \in Tree : HasTree(u)' <=> HasTree(u) /\ u \notin T
           /\ \A j \in Slots : slot[j].tree \notin T => slot'[j] = slot[j]
  <1> USE Typed, Trees
  <1>1. Free \in Slot /\ Free.tree = NoTree /\ ~Free.locked
    BY DEF Free, Slot
  <1>2. \A j \in Slots : slot'[j] = IF slot[j].tree \in T THEN Free ELSE slot[j]
    BY DEF Forgotten
  <1>3. slot' \in [Slots -> Slot]
    <2>1. \A j \in Slots : (IF slot[j].tree \in T THEN Free ELSE slot[j]) \in Slot
      BY <1>1
    <2> QED BY <2>1 DEF Forgotten
  <1>4. SlotsInv'
    BY <1>1, <1>2 DEF WorkspaceInv, SlotsInv
  <1>5. \A u \in Tree : Locked(u)' <=> Locked(u) /\ u \notin T
    BY <1>1, <1>2 DEF Locked
  <1>6. \A u \in Tree : HasTree(u)' <=> HasTree(u) /\ u \notin T
    <2> TAKE u \in Tree
    <2>1. ASSUME NEW j \in Slots, slot'[j].tree = u PROVE slot[j].tree = u /\ u \notin T
      BY <1>1, <1>2, <2>1
    <2>2. ASSUME NEW j \in Slots, slot[j].tree = u, u \notin T PROVE slot'[j].tree = u
      BY <1>2, <2>2
    <2> QED BY <2>1, <2>2 DEF HasTree
  <1>7. \A j \in Slots :
           /\ slot'[j].tree = slot[j].tree => slot[j].version <= slot'[j].version
           /\ slot'[j].tree \in {slot[j].tree, NoTree}
    <2> TAKE j \in Slots
    <2>1. slot[j].version \in Nat
      BY DEF Slot
    <2>2. CASE slot[j].tree \in T
      BY <1>1, <1>2, <2>2
    <2>3. CASE slot[j].tree \notin T
      BY <1>2, <2>1, <2>3
    <2> QED BY <2>2, <2>3
  <1>8. /\ \A u \in Tree : head[u] <= head'[u]
        /\ \A x \in Place : files[x] <= files'[x]
    BY DEF Absent, Files
  <1>9. GitKept
    BY <1>3, <1>4, <1>7, <1>8 DEF GitKept
  <1> QED BY <1>2, <1>5, <1>6, <1>9

\* There is a first slot.
LEMMA FirstSlot ==
    ASSUME WorkspaceInv, NEW r \in Runs
    PROVE  0 \in Slots /\ Slots \subseteq Nat
  <1>1. Cardinality(Runs) \in Nat /\ Cardinality(Runs) # 0
    BY RunsAssumption, FS_CardinalityType, FS_EmptySet
  <1> QED BY <1>1 DEF Slots

\* Only unlocked trees are pruned, and none whose directory is there.
LEMMA PrunableUnlocked ==
    /\ prunable \in SUBSET Tree
    /\ \A t \in prunable : ~Locked(t) /\ disk[t] # "tree"
  BY DEF prunable

\* Branches that exist may move on, and files change.
HeadsMove ==
    /\ head' \in Heads /\ files' \in Files
    /\ \A t \in Tree : head[t] <= head'[t]
    /\ \A x \in Place : files[x] <= files'[x]

\* A slot that describes a tree goes on doing so.
LEMMA SlotTells ==
    ASSUME WorkspaceInv, NEW k \in Slots, NEW s \in Slot,
           slot[k].tree # NoTree, s.tree = slot[k].tree, slot[k].version <= s.version,
           slot' = [slot EXCEPT ![k] = s], HeadsMove
    PROVE  /\ GitKept
           /\ \A j \in Slots : slot'[j].tree = slot[j].tree
           /\ \A j \in Slots \ {k} : slot'[j] = slot[j]
           /\ \A u \in Tree : HasTree(u)' <=> HasTree(u)
           /\ \A u \in Tree : Locked(u)' <=> IF u = slot[k].tree THEN s.locked ELSE Locked(u)
  <1> USE Typed, Trees
  <1>1. /\ slot' \in [Slots -> Slot] /\ slot'[k] = s
        /\ \A j \in Slots \ {k} : slot'[j] = slot[j]
    OBVIOUS
  <1>2. \A j \in Slots : slot'[j].tree = slot[j].tree
    BY <1>1
  <1>3. SlotsInv'
    <2>1. \A j \in Slots : slot[j].tree # NoTree => slot[j].tree \in Tree
      BY DEF Slot
    <2>2. \A t \in Tree : head[t] # Absent => head'[t] # Absent
      BY DEF HeadsMove, Heads, Absent
    <2>3. \A j \in Slots : slot'[j].tree # NoTree => head'[slot'[j].tree] # Absent
      BY <1>2, <2>1, <2>2 DEF WorkspaceInv, SlotsInv
    <2>4. \A i, j \in Slots : slot'[i].tree # NoTree /\ slot'[i].tree = slot'[j].tree => i = j
      BY <1>2 DEF WorkspaceInv, SlotsInv
    <2>5. \A j \in Slots : slot'[j].tree = NoTree => slot'[j] = Free
      BY <1>1, <1>2 DEF WorkspaceInv, SlotsInv
    <2> QED BY <2>3, <2>4, <2>5 DEF SlotsInv
  <1>4. \A u \in Tree : HasTree(u)' <=> HasTree(u)
    BY <1>2 DEF HasTree
  <1>5. \A u \in Tree : Locked(u)' <=> IF u = slot[k].tree THEN s.locked ELSE Locked(u)
    <2> TAKE u \in Tree
    <2>1. CASE u = slot[k].tree
      <3>1. \A j \in Slots : slot[j].tree = u => j = k
        BY <2>1 DEF WorkspaceInv, SlotsInv
      <3>2. \A j \in Slots : slot'[j].tree = u => j = k
        BY <1>2, <3>1
      <3>3. Locked(u)' <=> slot'[k].locked
        BY <1>2, <2>1, <3>2 DEF Locked
      <3> QED BY <1>1, <2>1, <3>3
    <2>2. CASE u # slot[k].tree
      <3>1. \A j \in Slots : (slot'[j].tree = u /\ slot'[j].locked)
                               <=> (slot[j].tree = u /\ slot[j].locked)
        BY <1>1, <1>2, <2>2
      <3> QED BY <2>2, <3>1 DEF Locked
    <2> QED BY <2>1, <2>2
  <1>6. \A j \in Slots : slot[j].version <= slot'[j].version
    <2> TAKE j \in Slots
    <2>1. slot[j].version \in Nat
      BY DEF Slot
    <2> QED BY <1>1, <2>1
  <1>7. GitKept
    BY <1>1, <1>2, <1>3, <1>6 DEF GitKept, HeadsMove
  <1> QED BY <1>1, <1>2, <1>4, <1>5, <1>7

\* A slot with a version more, or without its lock.
LEMMA SlotForms ==
    ASSUME NEW s \in Slot
    PROVE  /\ [s EXCEPT !.version = @ + 1] \in Slot
           /\ [s EXCEPT !.version = @ + 1].tree = s.tree
           /\ [s EXCEPT !.version = @ + 1].locked = s.locked
           /\ s.version < [s EXCEPT !.version = @ + 1].version
           /\ s.version <= [s EXCEPT !.version = @ + 1].version
           /\ [s EXCEPT !.locked = FALSE] \in Slot
           /\ [s EXCEPT !.locked = FALSE].tree = s.tree
           /\ [s EXCEPT !.locked = FALSE].locked = FALSE
           /\ s.version <= [s EXCEPT !.locked = FALSE].version
  <1>1. s.version \in Nat /\ s.version + 1 \in Nat
    BY DEF Slot
  <1>2. /\ [s EXCEPT !.version = @ + 1].tree = s.tree
        /\ [s EXCEPT !.version = @ + 1].locked = s.locked
        /\ [s EXCEPT !.version = @ + 1].version = s.version + 1
    BY DEF Slot
  <1>3. [s EXCEPT !.version = @ + 1] \in Slot
    BY <1>1 DEF Slot
  <1>4. [s EXCEPT !.locked = FALSE] \in Slot
    BY Zenon DEF Slot
  <1>5. /\ [s EXCEPT !.locked = FALSE].tree = s.tree
        /\ [s EXCEPT !.locked = FALSE].version = s.version
    BY DEF Slot
  <1>6. [s EXCEPT !.locked = FALSE].locked = FALSE
    BY DEF Slot
  <1> QED BY <1>1, <1>2, <1>3, <1>4, <1>5, <1>6

\* An armed run has its worktree.
LEMMA ArmedHas ==
    ASSUME WorkspaceInv, NEW r \in Runs, phase[r] = "armed"
    PROVE  HasTree(<<r, "run">>) /\ head[<<r, "run">>] # Absent /\ known[r] # "no"
  <1>1. HasTree(<<r, "run">>) /\ known[r] # "no"
    BY Trees DEF WorkspaceInv, KnownInv, DiskInv
  <1> QED BY <1>1, Trees DEF WorkspaceInv, KnownInv

\* A worker commits: the slot of its worktree, its branch and the objects change.
LEMMA CommitTells ==
    ASSUME WorkspaceInv, NEW r \in Runs, Commit(r)
    PROVE  /\ GitKept
           /\ \A u \in Tree : (Locked(u)' <=> Locked(u)) /\ (HasTree(u)' <=> HasTree(u))
           /\ \A u \in Tree \ {<<r, "run">>} : head'[u] = head[u]
           /\ \A x \in Place \ {"objects"} : files'[x] = files[x]
           /\ \A j \in Slots : slot'[j].tree = slot[j].tree
           /\ \A j \in Slots : slot[j].tree # <<r, "run">> => slot'[j] = slot[j]
  <1> USE Typed, Trees
  <1> DEFINE t == <<r, "run">>
             k == SlotOf(t)
             s == [slot[k] EXCEPT !.version = @ + 1]
  <1>0. t \in Tree /\ phase[r] = "armed"
    BY DEF Commit
  <1>1. HasTree(t) /\ head[t] # Absent
    BY <1>0, ArmedHas
  <1>2. k \in Slots /\ slot[k].tree = t /\ t # NoTree
    BY <1>0, <1>1, TreeKnown
  <1>3. /\ head' = [head EXCEPT ![t] = head[t] + 1]
        /\ slot' = [slot EXCEPT ![k] = s]
        /\ files' = [files EXCEPT !["objects"] = @ + 1]
    BY DEF Commit
  <1>4. slot[k] \in Slot
    BY <1>2
  <1>5. /\ s \in Slot /\ s.tree = slot[k].tree /\ s.locked = slot[k].locked
        /\ slot[k].version <= s.version
    BY <1>4, SlotForms
  <1> HIDE DEF s, k, t
  <1>6. /\ HeadsMove
        /\ \A u \in Tree \ {t} : head'[u] = head[u]
        /\ \A x \in Place \ {"objects"} : files'[x] = files[x]
    BY <1>0, <1>1, <1>3 DEF HeadsMove, Heads, Files, Place, Absent
  <1>7. /\ GitKept
        /\ \A j \in Slots : slot'[j].tree = slot[j].tree
        /\ \A j \in Slots \ {k} : slot'[j] = slot[j]
        /\ \A u \in Tree : HasTree(u)' <=> HasTree(u)
        /\ \A u \in Tree : Locked(u)' <=> IF u = slot[k].tree THEN s.locked ELSE Locked(u)
    BY <1>2, <1>3, <1>5, <1>6, SlotTells
  <1>8. Locked(t) <=> slot[k].locked
    <2>1. \A j \in Slots : slot[j].tree = t => j = k
      BY <1>0, <1>1, TreeKnown DEF k
    <2> QED BY <1>2, <2>1 DEF Locked
  <1>9. \A u \in Tree : Locked(u)' <=> Locked(u)
    BY <1>2, <1>5, <1>7, <1>8
  <1>10. \A j \in Slots : slot[j].tree # t => slot'[j] = slot[j]
    BY <1>2, <1>7
  <1>11. \A u \in Tree : (Locked(u)' <=> Locked(u)) /\ (HasTree(u)' <=> HasTree(u))
    BY <1>7, <1>9
  <1>12. GitKept /\ \A j \in Slots : slot'[j].tree = slot[j].tree
    BY <1>7
  <1> QED BY <1>6, <1>10, <1>11, <1>12 DEF t

\* A worker writes elsewhere: that is newer now.
LEMMA EscapeTells ==
    ASSUME WorkspaceInv, NEW r \in Runs, NEW p \in Target, Escape(r, p)
    PROVE  /\ GitKept
           /\ \A u \in Tree : (Locked(u)' <=> Locked(u)) /\ (HasTree(u)' <=> HasTree(u))
           /\ \A j \in Slots : slot'[j].tree = slot[j].tree
           /\ \/ /\ p[1] = "worktrees" /\ p[2] \in Slots
                 /\ slot[p[2]].version < slot'[p[2]].version
              \/ /\ p[1] = "heads" /\ p[2] \in Tree \ {<<r, "run">>}
                 /\ head[p[2]] < head'[p[2]]
              \/ /\ p[1] = "files" /\ p[2] \in Place /\ files[p[2]] < files'[p[2]]
  <1> USE Typed, Trees
  <1>0. \/ p[1] = "worktrees" /\ p[2] \in Slots
        \/ p[1] = "heads" /\ p[2] \in Tree
        \/ p[1] = "files" /\ p[2] \in Place
    BY DEF Target
  <1>1. CASE p[1] = "worktrees"
    <2> DEFINE k == p[2]
               s == [slot[k] EXCEPT !.version = @ + 1]
    <2>1. /\ k \in Slots /\ slot[k].tree \notin {NoTree, <<r, "run">>}
          /\ slot' = [slot EXCEPT ![k] = s] /\ UNCHANGED <<head, files>>
      BY <1>0, <1>1 DEF Escape
    <2>2. slot[k] \in Slot
      BY <2>1
    <2>3. /\ s \in Slot /\ s.tree = slot[k].tree /\ s.locked = slot[k].locked
          /\ slot[k].version < s.version /\ slot[k].version <= s.version
      BY <2>2, SlotForms
    <2>4. HeadsMove
      BY <2>1 DEF HeadsMove, Heads, Files, Absent
    <2> HIDE DEF s, k
    <2>5. /\ GitKept
          /\ \A j \in Slots : slot'[j].tree = slot[j].tree
          /\ \A u \in Tree : HasTree(u)' <=> HasTree(u)
          /\ \A u \in Tree : Locked(u)' <=> IF u = slot[k].tree THEN s.locked ELSE Locked(u)
      BY <2>1, <2>3, <2>4, SlotTells
    <2>6. \A u \in Tree : u = slot[k].tree => (Locked(u) <=> slot[k].locked)
      BY <2>1 DEF Locked, WorkspaceInv, SlotsInv
    <2>7. slot[k].version < slot'[k].version
      BY <2>1, <2>3
    <2> QED BY <1>1, <2>1, <2>3, <2>5, <2>6, <2>7 DEF k
  <1>2. ASSUME UNCHANGED slot, HeadsMove
        PROVE  /\ GitKept
               /\ \A u \in Tree : (Locked(u)' <=> Locked(u)) /\ (HasTree(u)' <=> HasTree(u))
               /\ \A j \in Slots : slot'[j].tree = slot[j].tree
    <2>1. \A j \in Slots : slot[j].tree # NoTree => slot[j].tree \in Tree
      BY DEF Slot
    <2>2. \A t \in Tree : head[t] # Absent => head'[t] # Absent
      BY <1>2 DEF HeadsMove, Heads, Absent
    <2>3. SlotsInv'
      BY <1>2, <2>1, <2>2 DEF WorkspaceInv, SlotsInv
    <2>4. \A j \in Slots : slot[j].version <= slot[j].version
      BY DEF Slot
    <2> QED BY <1>2, <2>3, <2>4 DEF GitKept, HeadsMove, Locked, HasTree
  <1>3. CASE p[1] = "heads"
    <2>1. /\ p[2] \in Tree /\ p[2] # <<r, "run">> /\ head[p[2]] # Absent
          /\ head' = [head EXCEPT ![p[2]] = @ + 1] /\ UNCHANGED <<slot, files>>
      BY <1>0, <1>3 DEF Escape
    <2>2. HeadsMove /\ head[p[2]] < head'[p[2]]
      BY <2>1 DEF HeadsMove, Heads, Files, Absent
    <2> QED BY <1>2, <1>3, <2>1, <2>2
  <1>4. CASE p[1] = "files"
    <2>1. /\ p[2] \in Place
          /\ files' = [files EXCEPT ![p[2]] = @ + 1] /\ UNCHANGED <<slot, head>>
      BY <1>0, <1>4 DEF Escape
    <2>2. HeadsMove /\ files[p[2]] < files'[p[2]]
      BY <2>1 DEF HeadsMove, Heads, Files, Absent
    <2> QED BY <1>2, <1>4, <2>1, <2>2
  <1> QED BY <1>0, <1>1, <1>3, <1>4

\* A run ends: its worktree is unlocked, or it has none, or its events tell.
LEMMA EndRunTells ==
    ASSUME WorkspaceInv, NEW r \in Runs, EndRun(r)
    PROVE  /\ GitKept
           /\ \A u \in Tree : HasTree(u)' <=> HasTree(u)
           /\ \A u \in Tree \ {<<r, "run">>} : Locked(u)' <=> Locked(u)
           /\ Locked(<<r, "run">>)' => known[r] = "no" \/ "unlock_failed" \in trail'[r]
           /\ \A j \in Slots : slot'[j].tree = slot[j].tree
           /\ phase'[r] = "releasing" /\ "terminal" \in trail'[r]
           /\ \A q \in Runs \ {r} : phase'[q] = phase[q] /\ trail'[q] = trail[q]
           /\ phase' \in [Runs -> Phases]
           /\ trail' \in [Runs -> SUBSET {"terminal", "unlock_failed"}]
  <1> USE Typed, Trees
  <1> DEFINE t == <<r, "run">>
             Told == /\ phase'[r] = "releasing" /\ "terminal" \in trail'[r]
                     /\ \A q \in Runs \ {r} : phase'[q] = phase[q] /\ trail'[q] = trail[q]
                     /\ phase' \in [Runs -> Phases]
                     /\ trail' \in [Runs -> SUBSET {"terminal", "unlock_failed"}]
  <1>1. phase' = [phase EXCEPT ![r] = "releasing"] /\ UNCHANGED <<head, files>>
    BY DEF EndRun, GoTo
  <1>2. ASSUME NEW E \in SUBSET {"unlock_failed"},
               trail' = [trail EXCEPT ![r] = @ \cup {"terminal"} \cup E]
        PROVE  Told /\ (E = {"unlock_failed"} => "unlock_failed" \in trail'[r])
    BY <1>1, <1>2 DEF Phases
  <1>3. CASE UNCHANGED slot
    <2>1. UNCHANGED git
      BY <1>1, <1>3 DEF git
    <2>2. /\ GitKept
          /\ \A u \in Tree : (Locked(u)' <=> Locked(u)) /\ (HasTree(u)' <=> HasTree(u))
      BY <2>1, NothingTells
    <2>3. /\ \E E \in SUBSET {"unlock_failed"} :
                trail' = [trail EXCEPT ![r] = @ \cup {"terminal"} \cup E]
          /\ known[r] = "no" \/ ~Locked(t) \/ slot' # slot
                \/ trail' = [trail EXCEPT ![r] = @ \cup {"terminal"} \cup {"unlock_failed"}]
      <3>1. \/ known[r] = "no"
               /\ trail' = [trail EXCEPT ![r] = @ \cup {"terminal"} \cup {}]
            \/ /\ Locked(t) /\ trail' = [trail EXCEPT ![r] = @ \cup {"terminal"} \cup {}]
               /\ slot' = [slot EXCEPT ![SlotOf(t)].locked = FALSE]
            \/ trail' = [trail EXCEPT ![r] = @ \cup {"terminal"} \cup {"unlock_failed"}]
        BY DEF EndRun
      <3>2. Locked(t) => slot' # [slot EXCEPT ![SlotOf(t)].locked = FALSE]
        <4> SUFFICES ASSUME Locked(t) PROVE slot # [slot EXCEPT ![SlotOf(t)].locked = FALSE]
          BY <1>3
        <4>1. PICK j \in Slots : slot[j].tree = t /\ slot[j].locked
          BY DEF Locked
        <4>2. HasTree(t) /\ t \in Tree
          BY LockedKnown
        <4>3. j = SlotOf(t)
          BY <4>1, <4>2, TreeKnown
        <4>4. slot[j] \in Slot
          OBVIOUS
        <4>5. [slot EXCEPT ![j] = [slot[j] EXCEPT !.locked = FALSE]][j].locked = FALSE
          BY <4>4, SlotForms
        <4> QED BY <4>1, <4>3, <4>5
      <3> QED BY <3>1, <3>2
    <2>4. Told /\ (known[r] = "no" \/ ~Locked(t) \/ "unlock_failed" \in trail'[r])
      BY <1>2, <1>3, <2>3
    <2> QED BY <1>3, <2>2, <2>4
  <1>4. CASE slot' # slot
    <2> DEFINE k == SlotOf(t)
               s == [slot[k] EXCEPT !.locked = FALSE]
    <2>1. /\ trail' = [trail EXCEPT ![r] = @ \cup {"terminal"} \cup {}]
          /\ slot' = [slot EXCEPT ![k] = s] /\ Locked(t)
      BY <1>4 DEF EndRun
    <2>2. Told
      <3>1. {} \in SUBSET {"unlock_failed"}
        OBVIOUS
      <3> HIDE DEF Told, s
      <3> QED BY ONLY <1>2, <2>1, <3>1
    <2>3. t \in Tree /\ HasTree(t)
      BY <2>1, LockedKnown
    <2>4. k \in Slots /\ slot[k].tree = t /\ t # NoTree
      BY <2>3, TreeKnown
    <2>5. s \in Slot /\ s.tree = slot[k].tree /\ ~s.locked /\ slot[k].version <= s.version
      <3>1. slot[k] \in Slot
        BY <2>4
      <3> QED BY <3>1, SlotForms
    <2>6. HeadsMove
      BY <1>1 DEF HeadsMove, Heads, Files, Absent
    <2> HIDE DEF s, k, t, Told
    <2>7. /\ GitKept
          /\ \A j \in Slots : slot'[j].tree = slot[j].tree
          /\ \A u \in Tree : HasTree(u)' <=> HasTree(u)
          /\ \A u \in Tree : Locked(u)' <=> IF u = slot[k].tree THEN s.locked ELSE Locked(u)
      BY <2>1, <2>4, <2>5, <2>6, SlotTells
    <2>8. ~Locked(t)' /\ \A u \in Tree \ {t} : Locked(u)' <=> Locked(u)
      BY <2>3, <2>4, <2>5, <2>7
    <2> QED BY <2>2, <2>7, <2>8 DEF t, Told
  <1> QED BY <1>3, <1>4

\* A cleanup: git forgets the tree, and its directory no longer holds it.
LEMMA CleanTells ==
    ASSUME WorkspaceInv, NEW t \in Tree, Cleanup(t), UNCHANGED <<head, files>>
    PROVE  /\ GitKept /\ disk' \in Disks /\ disk'[t] # "tree"
           /\ \A u \in Tree \ {t} : disk'[u] = disk[u]
           /\ \A u \in Tree : Locked(u)' <=> Locked(u) /\ u # t
           /\ \A u \in Tree : HasTree(u)' <=> HasTree(u) /\ u # t
           /\ \A j \in Slots : slot[j].tree # t => slot'[j] = slot[j]
  <1> USE Typed
  <1> DEFINE T == {t}
  <1>1. /\ disk' \in Disks /\ disk'[t] # "tree"
        /\ \A u \in Tree \ {t} : disk'[u] = disk[u]
    BY DEF Cleanup, Disks
  <1>2. T \in SUBSET Tree /\ slot' = Forgotten(T) /\ \A u : u \in T <=> u = t
    BY DEF Cleanup
  <1> HIDE DEF T
  <1>3. /\ GitKept
        /\ \A u \in Tree : Locked(u)' <=> Locked(u) /\ u \notin T
        /\ \A u \in Tree : HasTree(u)' <=> HasTree(u) /\ u \notin T
        /\ \A j \in Slots : slot[j].tree \notin T => slot'[j] = slot[j]
    BY <1>2, ForgottenTells
  <1> QED BY <1>1, <1>2, <1>3

\* Before a worker starts, or fails to, its worktree is there, or is created.
Made(r) ==
    \/ UNCHANGED <<slot, head, disk, known>>
    \/ /\ known[r] = "no" /\ known' = known
       /\ \E k \in Slots : CreatedIn(k, <<r, "run">>, FALSE)
    \/ /\ known[r] = "no" /\ known' = [known EXCEPT ![r] = "memory"]
       /\ \E k \in Slots : CreatedIn(k, <<r, "run">>, TRUE)

\* A worker starts, or fails to, once its worktree has been seen to.
LEMMA StartMakes ==
    ASSUME WorkspaceInv, NEW r \in Runs, StartWorker(r) \/ SetupRaises(r)
    PROVE  /\ Made(r) /\ files' = files /\ trail' = trail
           /\ phase[r] = "idle" /\ known[r] # "memory"
           /\ \E x \in {"armed", "failing"} : phase' = [phase EXCEPT ![r] = x]
  <1> USE Trees
  <1>1. /\ files' = files /\ trail' = trail /\ phase[r] = "idle" /\ known[r] # "memory"
        /\ \E x \in {"armed", "failing"} : phase' = [phase EXCEPT ![r] = x]
    BY DEF StartWorker, SetupRaises, GoTo
  <1>2. ASSUME WorktreeFor(r) PROVE Made(r)
    <2>1. CASE known[r] = "no"
      BY <1>2, <2>1, CreateTakes DEF WorktreeFor, Made
    <2>2. CASE known[r] # "no"
      BY <1>2, <2>2 DEF WorktreeFor, Made
    <2> QED BY <2>1, <2>2
  <1>3. ASSUME known[r] = "no", Create(<<r, "run">>, FALSE), UNCHANGED known PROVE Made(r)
    BY <1>3, CreateTakes DEF Made
  <1>4. ASSUME UNCHANGED <<slot, head, disk, known>> PROVE Made(r)
    BY <1>4 DEF Made
  <1>5. Made(r)
    BY <1>2, <1>3, <1>4 DEF StartWorker, SetupRaises
  <1> QED BY <1>1, <1>5

\* What git then knows.
LEMMA MadeTells ==
    ASSUME WorkspaceInv, NEW r \in Runs, Made(r), files' = files
    PROVE  /\ GitKept /\ disk' \in Disks /\ DiskInv'
           /\ \A u \in Tree : Locked(u) => Locked(u)'
           /\ \A u \in Tree : Locked(u)' => Locked(u) \/ u = <<r, "run">>
           /\ known'[r] # "no" => known[r] # "no" \/ Locked(<<r, "run">>)'
           /\ \A q \in Runs \ {r} : known'[q] = known[q]
           /\ known' \in [Runs -> {"no", "memory", "stored"}]
           /\ known'[r] # "no" => head'[<<r, "run">>] # Absent
           /\ \A u \in Tree \ {<<r, "run">>} : head'[u] = head[u] /\ disk'[u] = disk[u]
  <1> USE Typed, Trees
  <1> DEFINE t == <<r, "run">>
  <1>1. CASE UNCHANGED <<slot, head, disk, known>>
    <2>1. /\ GitKept
          /\ \A u \in Tree : (Locked(u)' <=> Locked(u)) /\ (HasTree(u)' <=> HasTree(u))
      BY <1>1, NothingTells DEF git
    <2>2. DiskInv'
      BY <1>1, <2>1 DEF WorkspaceInv, DiskInv
    <2>3. known[r] # "no" => head[t] # Absent
      BY DEF WorkspaceInv, KnownInv
    <2> QED BY <1>1, <2>1, <2>2, <2>3
  <1>2. ASSUME NEW k \in Slots, NEW lock \in BOOLEAN, CreatedIn(k, t, lock), known[r] = "no",
               known' = IF lock THEN [known EXCEPT ![r] = "memory"] ELSE known
        PROVE  /\ GitKept /\ disk' \in Disks /\ DiskInv'
               /\ \A u \in Tree : Locked(u) => Locked(u)'
               /\ \A u \in Tree : Locked(u)' => Locked(u) \/ u = t
               /\ known'[r] # "no" => Locked(t)'
               /\ \A q \in Runs \ {r} : known'[q] = known[q]
               /\ known' \in [Runs -> {"no", "memory", "stored"}]
               /\ head'[t] # Absent
               /\ \A u \in Tree \ {t} : head'[u] = head[u] /\ disk'[u] = disk[u]
    <2>0. t \in Tree
      OBVIOUS
    <2>1. \A u \in Tree \ {t} : disk'[u] = disk[u]
      BY <1>2 DEF CreatedIn, Disks
    <2>2. /\ \A q \in Runs \ {r} : known'[q] = known[q]
          /\ known' \in [Runs -> {"no", "memory", "stored"}]
          /\ known'[r] # "no" => lock
      BY <1>2
    <2> HIDE DEF t
    <2>3. /\ GitKept /\ disk' \in Disks
          /\ \A u \in Tree : Locked(u)' <=> Locked(u) \/ (u = t /\ lock)
          /\ \A u \in Tree : HasTree(u)' <=> HasTree(u) \/ u = t
          /\ head'[t] # Absent
          /\ \A u \in Tree \ {t} : head'[u] = head[u]
      BY <1>2, <2>0, CreatedTells
    <2>4. DiskInv'
      BY <2>1, <2>3 DEF WorkspaceInv, DiskInv
    <2> QED BY <2>0, <2>1, <2>2, <2>3, <2>4
  <1>3. CASE known[r] = "no" /\ known' = known
             /\ \E k \in Slots : CreatedIn(k, t, FALSE)
    BY <1>2, <1>3
  <1>4. CASE /\ known[r] = "no" /\ known' = [known EXCEPT ![r] = "memory"]
             /\ \E k \in Slots : CreatedIn(k, t, TRUE)
    BY <1>2, <1>4
  <1> QED BY <1>1, <1>3, <1>4 DEF Made

\* Every step keeps what git knows, and where.
LEMMA GitStep ==
    ASSUME WorkspaceInv, [Next]_vars
    PROVE  GitKept /\ disk' \in Disks /\ DiskInv'
  <1> USE Typed, Trees
  <1>0. DiskInv
    BY DEF WorkspaceInv
  <1>1. ASSUME UNCHANGED git, disk' \in Disks, \A t \in Tree : disk'[t] = "tree" => disk[t] = "tree"
        PROVE  GitKept /\ disk' \in Disks /\ DiskInv'
    BY <1>0, <1>1, NothingTells DEF DiskInv
  <1>2. ASSUME UNCHANGED <<git, disk>> PROVE GitKept /\ disk' \in Disks /\ DiskInv'
    BY <1>1, <1>2
  <1>3. CASE Reconcile
    <2>1. slot' = Forgotten(prunable) /\ UNCHANGED <<head, files, disk>>
      BY <1>3 DEF Reconcile
    <2>2. GitKept /\ \A u \in Tree : HasTree(u)' <=> HasTree(u) /\ u \notin prunable
      BY <2>1, ForgottenTells, PrunableUnlocked
    <2> QED BY <1>0, <2>1, <2>2, PrunableUnlocked DEF DiskInv
  <1>4. ASSUME NEW r \in Runs, StartWorker(r) \/ SetupRaises(r)
        PROVE  GitKept /\ disk' \in Disks /\ DiskInv'
    BY <1>4, StartMakes, MadeTells
  <1>5. ASSUME NEW r \in Runs, Commit(r) PROVE GitKept /\ disk' \in Disks /\ DiskInv'
    <2>1. UNCHANGED disk
      BY <1>5 DEF Commit
    <2> QED BY <1>0, <1>5, <2>1, CommitTells DEF DiskInv
  <1>6. ASSUME NEW r \in Runs, NEW p \in Target, Escape(r, p)
        PROVE  GitKept /\ disk' \in Disks /\ DiskInv'
    <2>1. UNCHANGED disk
      BY <1>6 DEF Escape
    <2> QED BY <1>0, <1>6, <2>1, EscapeTells DEF DiskInv
  <1>7. ASSUME NEW r \in Runs, EndWorker(r) \/ SaveRecord(r) \/ SaveTerminal(r) \/ SaveRaises(r)
        PROVE  GitKept /\ disk' \in Disks /\ DiskInv'
    BY <1>2, <1>7 DEF EndWorker, SaveRecord, SaveTerminal, SaveRaises
  <1>8. ASSUME NEW r \in Runs, StartBaseline(r) PROVE GitKept /\ disk' \in Disks /\ DiskInv'
    <2> DEFINE t == <<r, "baseline">>
    <2>1. Create(t, FALSE) /\ files' = files /\ t \in Tree
      BY <1>8 DEF StartBaseline
    <2>2. PICK k \in Slots : CreatedIn(k, t, FALSE)
      BY <2>1, CreateTakes
    <2>3. \A u \in Tree \ {t} : disk'[u] = disk[u]
      BY <2>2 DEF CreatedIn, Disks
    <2> HIDE DEF t
    <2>4. /\ GitKept /\ disk' \in Disks
          /\ \A u \in Tree : HasTree(u)' <=> HasTree(u) \/ u = t
      BY <2>1, <2>2, CreatedTells
    <2> QED BY <1>0, <2>3, <2>4 DEF DiskInv
  <1>9. ASSUME NEW t \in Tree, Cleanup(t), UNCHANGED <<head, files>>
        PROVE  GitKept /\ disk' \in Disks /\ DiskInv'
    BY <1>0, <1>9, CleanTells DEF DiskInv
  <1>10. ASSUME NEW r \in Runs, EndBaseline(r) PROVE GitKept /\ disk' \in Disks /\ DiskInv'
    BY <1>2, <1>9, <1>10 DEF EndBaseline, git
  <1>11. ASSUME NEW r \in Runs, EndRun(r) PROVE GitKept /\ disk' \in Disks /\ DiskInv'
    <2>1. UNCHANGED disk
      BY <1>11 DEF EndRun
    <2> QED BY <1>0, <1>11, <2>1, EndRunTells DEF DiskInv
  <1>12. ASSUME NEW t \in Tree, Delete(t) PROVE GitKept /\ disk' \in Disks /\ DiskInv'
    <2>1. /\ UNCHANGED git /\ disk' \in Disks
          /\ \A u \in Tree : disk'[u] = "tree" => disk[u] = "tree"
      BY <1>12 DEF Delete, Disks
    <2> QED BY <1>1, <2>1
  <1>13. ASSUME NEW t \in Tree, Discard(t) PROVE GitKept /\ disk' \in Disks /\ DiskInv'
    BY <1>9, <1>13 DEF Discard
  <1>14. CASE Crash
    BY <1>2, <1>14 DEF Crash
  <1>15. CASE UNCHANGED vars
    BY <1>2, <1>15 DEF vars
  <1> QED
    BY <1>3, <1>4, <1>5, <1>6, <1>7, <1>8, <1>10, <1>11, <1>12, <1>13, <1>14, <1>15 DEF Next

-----------------------------------------------------------------------------
(* What the runs know of it *)

\* Branches stay.
LEMMA BranchStays ==
    ASSUME WorkspaceInv, GitKept, NEW t \in Tree, head[t] # Absent
    PROVE  head'[t] # Absent
  BY Typed DEF GitKept, Heads, Absent

\* Every step keeps what the runs know of their worktrees.
LEMMA KnownStep ==
    ASSUME WorkspaceInv, [Next]_vars
    PROVE  KnownInv' /\ known' \in [Runs -> {"no", "memory", "stored"}]
  <1> USE Typed, Trees
  <1> DEFINE Kept == KnownInv' /\ known' \in [Runs -> {"no", "memory", "stored"}]
  <1> SUFFICES Kept
    OBVIOUS
  <1>0. KnownInv /\ GitKept
    BY GitStep DEF WorkspaceInv
  <1>1. \A t \in Tree : head[t] # Absent => head'[t] # Absent
    BY <1>0, BranchStays
  <1>2. ASSUME known' \in [Runs -> {"no", "memory", "stored"}],
               \A q \in Runs : known'[q] # "no" => known[q] # "no",
               \A q \in Runs : head'[<<q, "baseline">>] = head[<<q, "baseline">>],
               \A q \in Runs : phase'[q] \in {"armed", "baseline"} =>
                                  phase'[q] = phase[q] /\ known'[q] = known[q],
               \A q \in Runs : phase'[q] = "ended" =>
                                  known'[q] # "memory" \/ (phase[q] = "ended" /\ known'[q] = known[q]),
               \A q \in Runs : phase'[q] = "armed" => disk'[<<q, "run">>] = disk[<<q, "run">>]
        PROVE  Kept
    BY <1>0, <1>1, <1>2 DEF KnownInv
  <1>3. CASE Reconcile
    BY <1>2, <1>3 DEF Reconcile, record
  <1>4. ASSUME NEW r \in Runs, StartWorker(r) PROVE Kept
    <2>1. /\ disk'[<<r, "run">>] = "tree" /\ phase' = [phase EXCEPT ![r] = "armed"]
          /\ known'[r] # "no"
      BY <1>4 DEF StartWorker, GoTo, WorktreeFor
    <2>2. /\ \A q \in Runs \ {r} : known'[q] = known[q]
          /\ known' \in [Runs -> {"no", "memory", "stored"}]
          /\ head'[<<r, "run">>] # Absent
          /\ \A u \in Tree \ {<<r, "run">>} : head'[u] = head[u] /\ disk'[u] = disk[u]
      BY <1>4, <2>1, StartMakes, MadeTells
    <2> QED BY <1>0, <1>1, <2>1, <2>2 DEF KnownInv
  <1>5. ASSUME NEW r \in Runs, SetupRaises(r) PROVE Kept
    <2>1. phase' = [phase EXCEPT ![r] = "failing"]
      BY <1>5 DEF SetupRaises, GoTo
    <2>2. /\ \A q \in Runs \ {r} : known'[q] = known[q]
          /\ known' \in [Runs -> {"no", "memory", "stored"}]
          /\ known'[r] # "no" => head'[<<r, "run">>] # Absent
          /\ \A u \in Tree \ {<<r, "run">>} : head'[u] = head[u] /\ disk'[u] = disk[u]
      BY <1>5, StartMakes, MadeTells
    <2> QED BY <1>0, <1>1, <2>1, <2>2 DEF KnownInv
  <1>6. ASSUME NEW r \in Runs, Commit(r) PROVE Kept
    <2>1. UNCHANGED <<phase, known, disk>>
      BY <1>6 DEF Commit, record
    <2> QED BY <1>2, <1>6, <2>1, CommitTells
  <1>7. ASSUME NEW r \in Runs, NEW p \in Target, Escape(r, p) PROVE Kept
    <2>1. UNCHANGED <<phase, known, disk>>
      BY <1>7 DEF Escape, record
    <2>2. \A q \in Runs : head'[<<q, "baseline">>] # Absent => head[<<q, "baseline">>] # Absent
      <3>1. \A u \in Tree : head[u] = Absent => head'[u] = Absent
        BY <1>7 DEF Escape, Heads
      <3> QED BY <3>1
    <2> QED BY <1>0, <1>1, <2>1, <2>2 DEF KnownInv
  <1>8. ASSUME NEW r \in Runs, EndWorker(r) PROVE Kept
    <2>1. UNCHANGED <<head, known, disk>> /\ phase' = [phase EXCEPT ![r] = "idle"]
      BY <1>8 DEF EndWorker, GoTo, git
    <2> QED BY <1>2, <2>1
  <1>9. ASSUME NEW r \in Runs, SaveRecord(r) PROVE Kept
    <2>1. /\ UNCHANGED <<head, phase, disk>> /\ known' = [known EXCEPT ![r] = "stored"]
          /\ phase[r] = "idle" /\ known[r] = "memory"
      BY <1>9 DEF SaveRecord, git
    <2> QED BY <1>2, <2>1
  <1>10. ASSUME NEW r \in Runs, StartBaseline(r) PROVE Kept
    <2> DEFINE t == <<r, "baseline">>
    <2>1. /\ Create(t, FALSE) /\ files' = files /\ t \in Tree
          /\ phase' = [phase EXCEPT ![r] = "baseline"] /\ known' = known /\ known[r] = "stored"
      BY <1>10 DEF StartBaseline, GoTo
    <2>2. PICK k \in Slots : CreatedIn(k, t, FALSE)
      BY <2>1, CreateTakes
    <2>3. \A u \in Tree \ {t} : disk'[u] = disk[u] /\ head'[u] = head[u]
      BY <2>2 DEF CreatedIn, Disks, Heads
    <2> QED BY <1>0, <1>1, <2>1, <2>3 DEF KnownInv
  <1>11. ASSUME NEW r \in Runs, EndBaseline(r) PROVE Kept
    <2>1. /\ UNCHANGED <<head, files, known>> /\ phase' = [phase EXCEPT ![r] = "idle"]
          /\ Cleanup(<<r, "baseline">>) \/ UNCHANGED disk
      BY <1>11 DEF EndBaseline, GoTo
    <2>2. \A q \in Runs : disk'[<<q, "run">>] = disk[<<q, "run">>]
      <3> DEFINE t == <<r, "baseline">>
      <3>1. t \in Tree /\ \A q \in Runs : <<q, "run">> \in Tree \ {t}
        OBVIOUS
      <3>2. Cleanup(t) \/ UNCHANGED disk
        BY <2>1
      <3> HIDE DEF t
      <3> QED BY <2>1, <3>1, <3>2, CleanTells
    <2> QED BY <1>2, <2>1, <2>2
  <1>12. ASSUME NEW r \in Runs, EndRun(r) PROVE Kept
    <2>1. UNCHANGED <<head, known, disk>> /\ phase' = [phase EXCEPT ![r] = "releasing"]
      BY <1>12 DEF EndRun, GoTo
    <2> QED BY <1>2, <2>1
  <1>13. ASSUME NEW r \in Runs, SaveTerminal(r) PROVE Kept
    <2>1. /\ UNCHANGED <<head, disk>> /\ phase' = [phase EXCEPT ![r] = "ended"]
          /\ known' = [known EXCEPT ![r] = IF @ = "memory" THEN "stored" ELSE @]
      BY <1>13 DEF SaveTerminal, GoTo, git
    <2>2. /\ known' \in [Runs -> {"no", "memory", "stored"}]
          /\ phase'[r] = "ended" /\ known'[r] # "memory" /\ (known'[r] # "no" => known[r] # "no")
          /\ \A q \in Runs \ {r} : phase'[q] = phase[q] /\ known'[q] = known[q]
      BY <2>1
    <2> QED BY <1>0, <1>1, <2>1, <2>2 DEF KnownInv
  <1>14. ASSUME NEW r \in Runs, SaveRaises(r) PROVE Kept
    <2>1. /\ UNCHANGED <<head, disk>> /\ phase' = [phase EXCEPT ![r] = "idle"]
          /\ known' = [known EXCEPT ![r] = IF @ = "memory" THEN "no" ELSE @]
      BY <1>14 DEF SaveRaises, GoTo, git, Reloaded
    <2> QED BY <1>2, <2>1
  <1>15. ASSUME NEW t \in Tree, Delete(t) PROVE Kept
    <2>1. UNCHANGED <<head, phase, known>> /\ phase[t[1]] # "armed"
          /\ \A u \in Tree \ {t} : disk'[u] = disk[u]
      BY <1>15 DEF Delete, git, record, Disks
    <2>2. \A q \in Runs : phase[q] = "armed" => disk'[<<q, "run">>] = disk[<<q, "run">>]
      BY <2>1
    <2> QED BY <1>2, <2>1, <2>2
  <1>16. ASSUME NEW t \in Tree, Discard(t) PROVE Kept
    <2>1. UNCHANGED <<head, phase, known>> /\ \A q \in Runs : phase[q] # "armed"
      BY <1>16 DEF Discard, Quiet, record
    <2> QED BY <1>2, <2>1
  <1>17. CASE Crash
    <2>1. /\ UNCHANGED <<head, disk>> /\ \A q \in Runs : phase'[q] \in {"idle", "ended"}
          /\ known' = [q \in Runs |-> IF known[q] = "memory" THEN "no" ELSE known[q]]
      BY <1>17 DEF Crash, git, Reloaded
    <2>2. /\ known' \in [Runs -> {"no", "memory", "stored"}]
          /\ \A q \in Runs : known'[q] # "memory" /\ (known'[q] # "no" => known[q] # "no")
      BY <2>1
    <2> QED BY <1>0, <1>1, <2>1, <2>2 DEF KnownInv
  <1>18. CASE UNCHANGED vars
    BY <1>2, <1>18 DEF vars, git, record
  <1> HIDE DEF Kept
  <1> QED
    BY <1>3, <1>4, <1>5, <1>6, <1>7, <1>8, <1>9, <1>10, <1>11, <1>12, <1>13, <1>14, <1>15,
       <1>16, <1>17, <1>18 DEF Next

\* Every step keeps the locks where they belong, and what the events tell of them.
LEMMA LiveStep ==
    ASSUME WorkspaceInv, [Next]_vars
    PROVE  LiveInv' /\ trail' \in [Runs -> SUBSET {"terminal", "unlock_failed"}]
  <1> USE Typed, Trees
  <1> DEFINE Kept == LiveInv' /\ trail' \in [Runs -> SUBSET {"terminal", "unlock_failed"}]
             going == {"idle", "armed", "baseline", "failing"}
  <1> SUFFICES Kept
    OBVIOUS
  <1>0. LiveTreeKept /\ \A r \in Runs : phase[r] = "releasing" => "terminal" \in trail[r]
    BY DEF WorkspaceInv, LiveInv
  <1>1. ASSUME trail' = trail, \A u \in Tree : Locked(u)' <=> Locked(u),
               \A q \in Runs : phase'[q] \in going \/ (phase'[q] = phase[q] /\ known'[q] = known[q])
                               \/ (phase[q] = "releasing" /\ phase'[q] = "ended"
                                   /\ (known'[q] # "no" => known[q] # "no")
                                   /\ (known[q] = "no" => known'[q] = "no")),
               \A q \in Runs : phase[q] \in {"releasing", "ended"} =>
                                  phase'[q] # "releasing" \/ phase[q] = "releasing",
               \A q \in Runs : phase'[q] \in going /\ known'[q] # "no" =>
                                  known[q] # "no" /\ phase[q] \in going \cup {"releasing"}
        PROVE  Kept
    <2>1. ASSUME NEW q \in Runs, Live(q)', "terminal" \notin trail'[q] PROVE Locked(<<q, "run">>)'
      <3>1. known[q] # "no" /\ phase[q] \in going
        BY <1>0, <1>1, <2>1 DEF Live
      <3> QED BY <1>0, <1>1, <2>1, <3>1 DEF LiveTreeKept, Live
    <2>2. ASSUME NEW t \in Tree, Locked(t)'
          PROVE  /\ t[2] = "run"
                 /\ phase'[t[1]] \in {"releasing", "ended"} =>
                       "unlock_failed" \in trail'[t[1]] \/ known'[t[1]] = "no"
      <3>1. /\ t[2] = "run"
            /\ phase[t[1]] \in {"releasing", "ended"} =>
                  "unlock_failed" \in trail[t[1]] \/ known[t[1]] = "no"
        BY <1>0, <1>1, <2>2 DEF LiveTreeKept
      <3> QED BY <1>1, <2>2, <3>1
    <2>3. \A q \in Runs : phase'[q] = "releasing" => "terminal" \in trail'[q]
      BY <1>0, <1>1
    <2> QED BY <1>1, <2>1, <2>2, <2>3 DEF LiveInv, LiveTreeKept
  <1>2. ASSUME trail' = trail, known' = known, phase' = phase, \A u \in Tree : Locked(u)' <=> Locked(u)
        PROVE  Kept
    <2>1. \A q \in Runs : phase[q] \in going \cup {"releasing", "ended"}
      BY DEF Phases
    <2> QED BY <1>1, <1>2, <2>1
  <1>3. ASSUME UNCHANGED git PROVE \A u \in Tree : Locked(u)' <=> Locked(u)
    BY <1>3, NothingTells
  <1>4. ASSUME NEW t \in Tree, Cleanup(t), ~Locked(t), UNCHANGED <<head, files>>
        PROVE  \A u \in Tree : Locked(u)' <=> Locked(u)
    BY <1>4, CleanTells
  <1>5. CASE Reconcile
    <2>1. slot' = Forgotten(prunable) /\ UNCHANGED <<head, files, phase, known, trail>>
      BY <1>5 DEF Reconcile, record
    <2>2. \A u \in Tree : Locked(u)' <=> Locked(u)
      BY <2>1, ForgottenTells, PrunableUnlocked
    <2> QED BY <1>2, <2>1, <2>2
  <1>6. ASSUME NEW r \in Runs, StartWorker(r) \/ SetupRaises(r) PROVE Kept
    <2>1. /\ trail' = trail /\ phase[r] = "idle"
          /\ \E x \in {"armed", "failing"} : phase' = [phase EXCEPT ![r] = x]
      BY <1>6, StartMakes
    <2>2. phase'[r] \in {"armed", "failing"} /\ \A q \in Runs \ {r} : phase'[q] = phase[q]
      BY <2>1
    <2>3. /\ \A u \in Tree : Locked(u) => Locked(u)'
          /\ \A u \in Tree : Locked(u)' => Locked(u) \/ u = <<r, "run">>
          /\ known'[r] # "no" => known[r] # "no" \/ Locked(<<r, "run">>)'
          /\ \A q \in Runs \ {r} : known'[q] = known[q]
      BY <1>6, StartMakes, MadeTells
    <2>4. ASSUME NEW q \in Runs, Live(q)', "terminal" \notin trail'[q] PROVE Locked(<<q, "run">>)'
      BY <1>0, <2>1, <2>2, <2>3, <2>4 DEF LiveTreeKept, Live
    <2>5. ASSUME NEW t \in Tree, Locked(t)'
          PROVE  /\ t[2] = "run"
                 /\ phase'[t[1]] \in {"releasing", "ended"} =>
                       "unlock_failed" \in trail'[t[1]] \/ known'[t[1]] = "no"
      <3>1. CASE t[1] = r
        BY <1>0, <2>2, <2>3, <2>5, <3>1 DEF LiveTreeKept
      <3>2. CASE t[1] # r
        BY <1>0, <2>1, <2>2, <2>3, <2>5, <3>2 DEF LiveTreeKept
      <3> QED BY <3>1, <3>2
    <2>6. \A q \in Runs : phase'[q] = "releasing" => "terminal" \in trail'[q]
      BY <1>0, <2>1, <2>2
    <2> QED BY <2>1, <2>4, <2>5, <2>6 DEF LiveInv, LiveTreeKept
  <1>7. ASSUME NEW r \in Runs, Commit(r) PROVE Kept
    <2>1. UNCHANGED <<phase, known, trail>>
      BY <1>7 DEF Commit, record
    <2> QED BY <1>2, <1>7, <2>1, CommitTells
  <1>8. ASSUME NEW r \in Runs, NEW p \in Target, Escape(r, p) PROVE Kept
    <2>1. UNCHANGED <<phase, known, trail>>
      BY <1>8 DEF Escape, record
    <2> QED BY <1>2, <1>8, <2>1, EscapeTells
  <1>9. ASSUME NEW r \in Runs, NEW x \in going, phase' = [phase EXCEPT ![r] = x],
               known' = known, trail' = trail, phase[r] \in going,
               \A u \in Tree : Locked(u)' <=> Locked(u)
        PROVE  Kept
    <2>1. \A q \in Runs : phase[q] \in going \cup {"releasing", "ended"}
      BY DEF Phases
    <2> QED BY <1>1, <1>9, <2>1
  <1>10. ASSUME NEW r \in Runs, EndWorker(r) PROVE Kept
    <2>1. /\ UNCHANGED <<git, known, trail>> /\ phase[r] = "armed"
          /\ phase' = [phase EXCEPT ![r] = "idle"]
      BY <1>10 DEF EndWorker, GoTo
    <2> QED BY <1>3, <1>9, <2>1
  <1>11. ASSUME NEW r \in Runs, SaveRecord(r) PROVE Kept
    <2>1. /\ UNCHANGED <<git, phase, trail>> /\ known' = [known EXCEPT ![r] = "stored"]
          /\ phase[r] = "idle" /\ known[r] = "memory"
      BY <1>11 DEF SaveRecord
    <2>2. \A q \in Runs : phase[q] \in going \cup {"releasing", "ended"}
      BY DEF Phases
    <2> QED BY <1>1, <1>3, <2>1, <2>2
  <1>12. ASSUME NEW r \in Runs, StartBaseline(r) PROVE Kept
    <2> DEFINE t == <<r, "baseline">>
    <2>1. /\ Create(t, FALSE) /\ UNCHANGED <<files, known, trail>> /\ t \in Tree
          /\ phase' = [phase EXCEPT ![r] = "baseline"] /\ phase[r] = "idle"
      BY <1>12 DEF StartBaseline, GoTo
    <2>2. PICK k \in Slots : CreatedIn(k, t, FALSE)
      BY <2>1, CreateTakes
    <2>3. \A u \in Tree : Locked(u)' <=> Locked(u)
      <3> HIDE DEF t
      <3>1. \A u \in Tree : Locked(u)' <=> Locked(u) \/ (u = t /\ FALSE)
        BY <2>1, <2>2, CreatedTells
      <3> QED BY <3>1
    <2> QED BY <1>9, <2>1, <2>3
  <1>13. ASSUME NEW r \in Runs, EndBaseline(r) PROVE Kept
    <2>1. /\ UNCHANGED <<head, files, known, trail>> /\ phase[r] = "baseline"
          /\ phase' = [phase EXCEPT ![r] = "idle"]
          /\ Cleanup(<<r, "baseline">>) \/ UNCHANGED slot
      BY <1>13 DEF EndBaseline, GoTo
    <2>2. ~Locked(<<r, "baseline">>)
      BY <1>0 DEF LiveTreeKept
    <2>3. \A u \in Tree : Locked(u)' <=> Locked(u)
      BY <1>3, <1>4, <2>1, <2>2 DEF git
    <2> QED BY <1>9, <2>1, <2>3
  <1>14. ASSUME NEW r \in Runs, EndRun(r) PROVE Kept
    <2>1. /\ known' = known
          /\ \A u \in Tree \ {<<r, "run">>} : Locked(u)' <=> Locked(u)
          /\ Locked(<<r, "run">>)' => known[r] = "no" \/ "unlock_failed" \in trail'[r]
          /\ phase'[r] = "releasing" /\ "terminal" \in trail'[r]
          /\ \A q \in Runs \ {r} : phase'[q] = phase[q] /\ trail'[q] = trail[q]
          /\ trail' \in [Runs -> SUBSET {"terminal", "unlock_failed"}]
      <3>1. known' = known
        BY <1>14 DEF EndRun
      <3> QED BY <1>14, <3>1, EndRunTells
    <2>2. ASSUME NEW q \in Runs, Live(q)', "terminal" \notin trail'[q] PROVE Locked(<<q, "run">>)'
      BY <1>0, <2>1, <2>2 DEF LiveTreeKept, Live
    <2>3. ASSUME NEW t \in Tree, Locked(t)'
          PROVE  /\ t[2] = "run"
                 /\ phase'[t[1]] \in {"releasing", "ended"} =>
                       "unlock_failed" \in trail'[t[1]] \/ known'[t[1]] = "no"
      <3>1. CASE t = <<r, "run">>
        BY <2>1, <2>3, <3>1
      <3>2. CASE t # <<r, "run">>
        <4>1. t[2] = "run" /\ t[1] # r
          BY <1>0, <2>1, <2>3, <3>2 DEF LiveTreeKept
        <4> QED BY <1>0, <2>1, <2>3, <3>2, <4>1 DEF LiveTreeKept
      <3> QED BY <3>1, <3>2
    <2>4. \A q \in Runs : phase'[q] = "releasing" => "terminal" \in trail'[q]
      BY <1>0, <2>1
    <2> QED BY <2>1, <2>2, <2>3, <2>4 DEF LiveInv, LiveTreeKept
  <1>15. ASSUME NEW r \in Runs, SaveTerminal(r) PROVE Kept
    <2>1. /\ UNCHANGED <<git, trail>> /\ phase[r] = "releasing"
          /\ phase' = [phase EXCEPT ![r] = "ended"]
          /\ known' = [known EXCEPT ![r] = IF @ = "memory" THEN "stored" ELSE @]
      BY <1>15 DEF SaveTerminal, GoTo
    <2>2. \A q \in Runs : phase[q] \in going \cup {"releasing", "ended"}
      BY DEF Phases
    <2> QED BY <1>1, <1>3, <2>1, <2>2
  <1>16. ASSUME NEW r \in Runs, SaveRaises(r) PROVE Kept
    <2>1. /\ UNCHANGED <<git, trail>> /\ phase[r] \in {"releasing", "idle"}
          /\ phase' = [phase EXCEPT ![r] = "idle"]
          /\ known' = [known EXCEPT ![r] = IF @ = "memory" THEN "no" ELSE @]
      BY <1>16 DEF SaveRaises, GoTo, Reloaded
    <2>2. \A q \in Runs : phase[q] \in going \cup {"releasing", "ended"}
      BY DEF Phases
    <2> QED BY <1>1, <1>3, <2>1, <2>2
  <1>17. ASSUME NEW t \in Tree, Delete(t) PROVE Kept
    BY <1>2, <1>3, <1>17 DEF Delete, record
  <1>18. ASSUME NEW t \in Tree, Discard(t) PROVE Kept
    BY <1>2, <1>4, <1>18 DEF Discard, record
  <1>19. CASE Crash
    <2>1. /\ UNCHANGED <<git, trail>>
          /\ phase' = [q \in Runs |-> IF phase[q] = "ended" THEN "ended" ELSE "idle"]
          /\ known' = [q \in Runs |-> IF known[q] = "memory" THEN "no" ELSE known[q]]
      BY <1>19 DEF Crash, Reloaded
    <2>2. \A q \in Runs : phase[q] \in going \cup {"releasing", "ended"}
      BY DEF Phases
    <2>3. \A q \in Runs : phase[q] = "ended" => known[q] # "memory"
      BY DEF WorkspaceInv, KnownInv
    <2> QED BY <1>1, <1>3, <2>1, <2>2, <2>3
  <1>20. CASE UNCHANGED vars
    BY <1>2, <1>3, <1>20 DEF vars, record
  <1> HIDE DEF Kept
  <1> QED
    BY <1>5, <1>6, <1>7, <1>8, <1>10, <1>11, <1>12, <1>13, <1>14, <1>15, <1>16, <1>17, <1>18,
       <1>19, <1>20 DEF Next

-----------------------------------------------------------------------------
(* What a worker is judged by *)

\* A snapshot taken when the run's branch exists is not mistaken for none.
LEMMA ArmedSnapshot ==
    ASSUME WorkspaceInv, NEW r \in Runs, StartWorker(r)
    PROVE  /\ phase'[r] = "armed" /\ \A q \in Runs : q # r => phase'[q] = phase[q]
           /\ phase' \in [Runs -> Phases]
           /\ before' \in [Runs -> Snapshots]
           /\ before'[r] # Pristine /\ \A q \in Runs : q # r => before'[q] = before[q]
           /\ before'[r].slot = slot' /\ before'[r].head = head'
           /\ before'[r].files = files' /\ UNCHANGED <<wrote, faults>>
           /\ phase[r] = "idle"
  <1> USE Typed, Trees
  <1> DEFINE s == [slot |-> slot', head |-> head', files |-> files]
  <1>1. /\ before' = [before EXCEPT ![r] = s] /\ UNCHANGED <<files, wrote, faults>>
        /\ phase' = [phase EXCEPT ![r] = "armed"] /\ phase[r] = "idle"
        /\ known'[r] # "no"
    BY DEF StartWorker, GoTo, WorktreeFor
  <1>2. GitKept /\ head'[<<r, "run">>] # Absent
    BY <1>1, StartMakes, MadeTells
  <1>3. s \in Snapshots /\ s.slot = slot' /\ s.head = head' /\ s.files = files
    BY <1>2 DEF Snapshots, GitKept
  <1>4. Pristine.head[<<r, "run">>] = Absent
    BY DEF Pristine
  <1>5. s # Pristine
    BY <1>2, <1>3, <1>4
  <1>6. phase' \in [Runs -> Phases]
    BY <1>1 DEF Phases
  <1> HIDE DEF s
  <1> QED BY <1>1, <1>3, <1>5, <1>6

\* Every step keeps the types of the rest.
LEMMA RestTyped ==
    ASSUME WorkspaceInv, [Next]_vars
    PROVE  /\ phase' \in [Runs -> Phases]
           /\ wrote' \in [Runs -> SUBSET Target] /\ before' \in [Runs -> Snapshots]
           /\ \A r \in Runs : phase'[r] = "armed" <=> before'[r] # Pristine
           /\ faults' \in 0..MaxFaults
  <1> USE Typed
  <1> DEFINE Kept == /\ phase' \in [Runs -> Phases]
                     /\ wrote' \in [Runs -> SUBSET Target] /\ before' \in [Runs -> Snapshots]
                     /\ \A r \in Runs : phase'[r] = "armed" <=> before'[r] # Pristine
  <1>0. \A r \in Runs : phase[r] = "armed" <=> before[r] # Pristine
    BY DEF WorkspaceInv, TypeOK
  <1>1. Pristine \in Snapshots
    <2>1. Free \in Slot
      BY DEF Free, Slot
    <2> QED BY <2>1 DEF Pristine, Snapshots, Heads, Files
  <1>2. ASSUME NEW r \in Runs, NEW x \in Phases \ {"armed"}, phase[r] # "armed",
               phase' = [phase EXCEPT ![r] = x], UNCHANGED <<before, wrote>>
        PROVE  Kept
    BY <1>0, <1>2
  <1>3. ASSUME NEW r \in Runs, \/ SetupRaises(r) \/ StartBaseline(r) \/ EndBaseline(r)
                               \/ EndRun(r) \/ SaveTerminal(r) \/ SaveRaises(r)
        PROVE  Kept
    <2>1. UNCHANGED <<before, wrote>> /\ phase[r] # "armed"
      BY <1>3 DEF SetupRaises, StartBaseline, EndBaseline, EndRun, SaveTerminal, SaveRaises,
                  judging
    <2>2. \E x \in Phases \ {"armed"} : phase' = [phase EXCEPT ![r] = x]
      BY <1>3 DEF SetupRaises, StartBaseline, EndBaseline, EndRun, SaveTerminal, SaveRaises,
                  GoTo, Phases
    <2> QED BY <1>2, <2>1, <2>2
  <1>4. ASSUME NEW r \in Runs, StartWorker(r) PROVE Kept
    BY <1>0, <1>4, ArmedSnapshot
  <1>5. ASSUME NEW r \in Runs, NEW p \in Target, Escape(r, p) PROVE Kept
    <2>1. UNCHANGED <<phase, before>> /\ wrote' \in [Runs -> SUBSET Target]
      BY <1>5 DEF Escape, record
    <2> QED BY <1>0, <2>1
  <1>6. ASSUME NEW r \in Runs, EndWorker(r) PROVE Kept
    <2>1. /\ before' = [before EXCEPT ![r] = Pristine] /\ phase' = [phase EXCEPT ![r] = "idle"]
          /\ wrote' \in [Runs -> SUBSET Target]
      BY <1>6 DEF EndWorker, GoTo
    <2> QED BY <1>0, <1>1, <2>1 DEF Phases
  <1>7. ASSUME Crash PROVE Kept
    <2>1. before' = [r \in Runs |-> Pristine] /\ wrote' \in [Runs -> SUBSET Target]
      BY <1>7 DEF Crash
    <2>2. phase' \in [Runs -> Phases \ {"armed"}]
      BY <1>7 DEF Crash, Phases
    <2> QED BY <1>0, <1>1, <2>1, <2>2
  <1>8. ASSUME UNCHANGED <<phase, before, wrote>> PROVE Kept
    BY <1>0, <1>8
  <1>9. \/ UNCHANGED <<phase, before, wrote>>
        \/ Crash
        \/ \E r \in Runs : \/ StartWorker(r) \/ SetupRaises(r) \/ EndWorker(r)
                           \/ StartBaseline(r) \/ EndBaseline(r) \/ EndRun(r)
                           \/ SaveTerminal(r) \/ SaveRaises(r)
                           \/ \E p \in Target : Escape(r, p)
    BY DEF Next, vars, record, judging, Reconcile, Commit, SaveRecord, Delete, Discard
  <1> HIDE DEF Kept
  <1>10. Kept
    BY <1>3, <1>4, <1>5, <1>6, <1>7, <1>8, <1>9
  <1>11. faults' \in 0..MaxFaults
    <2>1. faults \in 0..MaxFaults /\ MaxFaults \in Nat
      BY BoundsAssumption DEF WorkspaceInv, TypeOK
    <2>2. Fault \/ Fine
      BY DEF Next, vars, Fine, Reconcile, StartWorker, SetupRaises, Commit, Escape, EndWorker,
             SaveRecord, StartBaseline, EndBaseline, EndRun, SaveTerminal, SaveRaises, Delete,
             Discard, Crash, Cleanup
    <2> QED BY <2>1, <2>2 DEF Fault, Fine
  <1> QED BY <1>10, <1>11 DEF Kept

\* A snapshot stays earlier, and what has changed since stays changed.
LEMMA EarlierStays ==
    ASSUME WorkspaceInv, GitKept, NEW r \in Runs, phase[r] = "armed", before'[r] = before[r]
    PROVE  /\ Earlier(r)'
           /\ \A p \in Target : Changed(r, p) => Changed(r, p)'
  <1> USE Typed, Trees
  <1>0. Earlier(r)
    BY DEF WorkspaceInv, EscapeInv
  <1>1. /\ before[r].slot \in [Slots -> Slot] /\ before[r].head \in Heads
        /\ before[r].files \in Files
    BY DEF Snapshots
  <1>2. ASSUME NEW k \in Slots
        PROVE  LET b == before[r].slot[k]
               IN  /\ b.tree = NoTree => b = Free
                   /\ b.tree # NoTree => head'[b.tree] # Absent
                   /\ slot'[k].tree = b.tree => b.version <= slot'[k].version
                   /\ slot'[k].tree = b.tree /\ b.tree # NoTree =>
                         /\ slot[k].tree = b.tree
                         /\ b.version < slot[k].version => b.version < slot'[k].version
    <2> DEFINE b == before[r].slot[k]
    <2>1. /\ b.tree = NoTree => b = Free
          /\ b.tree # NoTree => head[b.tree] # Absent
          /\ slot[k].tree = b.tree => b.version <= slot[k].version
      BY <1>0 DEF Earlier
    <2>2. /\ b.tree \in Tree \cup {NoTree} /\ b.version \in Nat
          /\ slot[k].version \in Nat /\ slot'[k].version \in Nat
      BY <1>1 DEF Slot, GitKept
    <2>3. /\ slot'[k].tree = slot[k].tree => slot[k].version <= slot'[k].version
          /\ slot'[k].tree \notin {slot[k].tree, NoTree} => head[slot'[k].tree] = Absent
          /\ slot'[k].tree = NoTree => slot'[k] = Free
      BY DEF GitKept, SlotsInv
    <2>4. b.tree # NoTree => head'[b.tree] # Absent
      BY <2>1, <2>2, BranchStays
    <2>5. slot'[k].tree = b.tree /\ b.tree # NoTree => slot[k].tree = b.tree
      BY <2>1, <2>3
    <2>6. slot'[k].tree = b.tree => b.version <= slot'[k].version
      <3>1. CASE b.tree = NoTree
        BY <2>1, <2>3, <3>1 DEF Free
      <3>2. CASE b.tree # NoTree
        BY <2>1, <2>2, <2>3, <2>5, <3>2
      <3> QED BY <3>1, <3>2
    <2> QED BY <2>1, <2>2, <2>3, <2>4, <2>5, <2>6
  <1>3. \A t \in Tree : /\ before[r].head[t] <= head'[t]
                        /\ before[r].head[t] < head[t] => before[r].head[t] < head'[t]
    <2> TAKE t \in Tree
    <2>1. before[r].head[t] <= head[t] /\ head[t] <= head'[t]
      BY <1>0 DEF Earlier, GitKept
    <2>2. before[r].head[t] \in Int /\ head[t] \in Int /\ head'[t] \in Int
      BY <1>1 DEF Heads, Absent, GitKept
    <2> QED BY <2>1, <2>2
  <1>4. \A x \in Place : /\ before[r].files[x] <= files'[x]
                         /\ before[r].files[x] < files[x] => before[r].files[x] < files'[x]
    <2> TAKE x \in Place
    <2>1. before[r].files[x] <= files[x] /\ files[x] <= files'[x]
      BY <1>0 DEF Earlier, GitKept
    <2>2. before[r].files[x] \in Int /\ files[x] \in Int /\ files'[x] \in Int
      BY <1>1 DEF Files, GitKept
    <2> QED BY <2>1, <2>2
  <1>5. Earlier(r)'
    BY <1>2, <1>3, <1>4 DEF Earlier
  <1>6. ASSUME NEW p \in Target, Changed(r, p) PROVE Changed(r, p)'
    <2>1. CASE p[1] = "worktrees" /\ p[2] \in Slots
      BY <1>2, <1>6, <2>1 DEF Changed
    <2>2. CASE p[1] = "heads" /\ p[2] \in Tree
      BY <1>3, <1>6, <2>2 DEF Changed
    <2>3. CASE p[1] = "files" /\ p[2] \in Place
      BY <1>4, <1>6, <2>3 DEF Changed
    <2> QED BY <2>1, <2>2, <2>3 DEF Target
  <1> QED BY <1>5, <1>6

\* Every step keeps what a worker that escaped has left behind.
LEMMA EscapeStep ==
    ASSUME WorkspaceInv, [Next]_vars
    PROVE  EscapeInv'
  <1> USE Typed
  <1>0. EscapeInv /\ GitKept
    BY GitStep DEF WorkspaceInv
  <1>1. ASSUME NEW q \in Runs,
               \/ phase'[q] # "armed" /\ wrote'[q] = {}
               \/ phase'[q] # "armed" /\ phase[q] # "armed" /\ wrote'[q] = wrote[q]
               \/ phase'[q] = "armed" /\ phase[q] = "armed"
                  /\ before'[q] = before[q] /\ wrote'[q] = wrote[q]
        PROVE  /\ phase'[q] # "armed" => wrote'[q] = {}
               /\ phase'[q] = "armed" => Earlier(q)' /\ \A p \in wrote'[q] : Changed(q, p)'
    <2>1. CASE phase'[q] # "armed"
      BY <1>0, <1>1, <2>1 DEF EscapeInv
    <2>2. CASE phase'[q] = "armed"
      <3>1. /\ Earlier(q)'
            /\ \A p \in Target : Changed(q, p) => Changed(q, p)'
        BY <1>0, <1>1, <2>2, EarlierStays
      <3>2. \A p \in wrote[q] : p \in Target /\ Changed(q, p)
        BY <1>0, <1>1, <2>2 DEF EscapeInv
      <3> QED BY <1>1, <2>2, <3>1, <3>2
    <2> QED BY <2>1, <2>2
  <1>2. ASSUME NEW r \in Runs, StartWorker(r) PROVE EscapeInv'
    <2>1. wrote[r] = {}
      BY <1>0, <1>2, ArmedSnapshot DEF EscapeInv
    <2>2. Earlier(r)'
      <3>1. /\ before'[r].slot = slot' /\ before'[r].head = head' /\ before'[r].files = files'
        BY <1>2, ArmedSnapshot
      <3>2. \A k \in Slots : /\ slot'[k].tree = NoTree => slot'[k] = Free
                             /\ slot'[k].tree # NoTree => head'[slot'[k].tree] # Absent
                             /\ slot'[k].version <= slot'[k].version
        BY <1>0 DEF GitKept, SlotsInv, Slot
      <3>3. /\ \A t \in Tree : head'[t] <= head'[t]
            /\ \A x \in Place : files'[x] <= files'[x]
        BY <1>0 DEF GitKept, Heads, Files, Absent
      <3> QED BY <3>1, <3>2, <3>3 DEF Earlier
    <2>3. ASSUME NEW q \in Runs \ {r}
          PROVE  /\ phase'[q] # "armed" => wrote'[q] = {}
                 /\ phase'[q] = "armed" => Earlier(q)' /\ \A p \in wrote'[q] : Changed(q, p)'
      BY <1>1, <1>2, ArmedSnapshot
    <2> QED BY <1>2, <2>1, <2>2, <2>3, ArmedSnapshot DEF EscapeInv
  <1>3. ASSUME NEW r \in Runs, NEW p \in Target, Escape(r, p) PROVE EscapeInv'
    <2>1. /\ UNCHANGED <<phase, before>> /\ phase[r] = "armed"
          /\ wrote' = [wrote EXCEPT ![r] = @ \cup {p}]
      BY <1>3 DEF Escape, record
    <2>2. Earlier(r)' /\ \A x \in Target : Changed(r, x) => Changed(r, x)'
      BY <1>0, <2>1, EarlierStays
    <2>3. \A x \in wrote[r] : x \in Target /\ Changed(r, x)
      BY <1>0, <2>1 DEF EscapeInv
    <2>4. Changed(r, p)'
      <3>0. Earlier(r)
        BY <1>0, <2>1 DEF EscapeInv
      <3>1. /\ \A j \in Slots : slot'[j].tree = slot[j].tree
            /\ \/ /\ p[1] = "worktrees" /\ p[2] \in Slots
                  /\ slot[p[2]].version < slot'[p[2]].version
               \/ /\ p[1] = "heads" /\ p[2] \in Tree \ {<<r, "run">>}
                  /\ head[p[2]] < head'[p[2]]
               \/ /\ p[1] = "files" /\ p[2] \in Place /\ files[p[2]] < files'[p[2]]
        BY <1>3, EscapeTells
      <3>2. /\ before[r].slot \in [Slots -> Slot] /\ before[r].head \in Heads
            /\ before[r].files \in Files
        BY DEF Snapshots
      <3>3. CASE p[1] = "worktrees"
        <4>1. /\ before[r].slot[p[2]].version \in Nat /\ slot[p[2]].version \in Nat
              /\ slot'[p[2]].version \in Nat
          BY <1>0, <3>1, <3>2, <3>3 DEF Slot, GitKept
        <4>2. slot[p[2]].tree = before[r].slot[p[2]].tree =>
                 before[r].slot[p[2]].version <= slot[p[2]].version
          BY <3>0, <3>1, <3>3 DEF Earlier
        <4> QED BY <2>1, <3>1, <3>3, <4>1, <4>2 DEF Changed
      <3>4. CASE p[1] = "heads"
        <4>1. before[r].head[p[2]] \in Int /\ head[p[2]] \in Int /\ head'[p[2]] \in Int
          BY <1>0, <3>1, <3>2, <3>4 DEF Heads, GitKept, Absent
        <4>2. before[r].head[p[2]] <= head[p[2]]
          BY <3>0, <3>1, <3>4 DEF Earlier
        <4>3. head[p[2]] < head'[p[2]] /\ p[2] # <<r, "run">>
          BY <3>1, <3>4
        <4>4. before[r].head[p[2]] < head'[p[2]]
          BY <4>1, <4>2, <4>3
        <4> QED BY <2>1, <3>4, <4>3, <4>4 DEF Changed
      <3>5. CASE p[1] = "files"
        <4>1. before[r].files[p[2]] \in Nat /\ files[p[2]] \in Nat /\ files'[p[2]] \in Nat
          BY <1>0, <3>1, <3>2, <3>5 DEF Files, GitKept
        <4> QED BY <2>1, <3>0, <3>1, <3>5, <4>1 DEF Changed, Earlier
      <3> QED BY <3>1, <3>3, <3>4, <3>5
    <2>5. \A x \in wrote'[r] : Changed(r, x)'
      <3>1. wrote'[r] = wrote[r] \cup {p}
        BY <2>1
      <3> QED BY <2>2, <2>3, <2>4, <3>1
    <2>6. ASSUME NEW q \in Runs \ {r}
          PROVE  /\ phase'[q] # "armed" => wrote'[q] = {}
                 /\ phase'[q] = "armed" => Earlier(q)' /\ \A x \in wrote'[q] : Changed(q, x)'
      BY <1>1, <2>1
    <2> QED BY <2>1, <2>2, <2>5, <2>6 DEF EscapeInv
  <1>4. ASSUME NEW r \in Runs, EndWorker(r) PROVE EscapeInv'
    <2>1. /\ phase'[r] = "idle" /\ wrote'[r] = {}
          /\ \A q \in Runs : q # r => /\ phase'[q] = phase[q] /\ wrote'[q] = wrote[q]
                                      /\ before'[q] = before[q]
      BY <1>4 DEF EndWorker, GoTo
    <2> QED BY <1>1, <2>1 DEF EscapeInv
  <1>5. CASE Crash
    BY <1>5 DEF Crash, EscapeInv
  <1>6. ASSUME NEW r \in Runs, \/ SetupRaises(r) \/ StartBaseline(r) \/ EndBaseline(r)
                               \/ EndRun(r) \/ SaveTerminal(r) \/ SaveRaises(r)
        PROVE  EscapeInv'
    <2>1. UNCHANGED <<before, wrote>> /\ phase[r] # "armed" /\ phase'[r] # "armed"
          /\ \A q \in Runs : q # r => phase'[q] = phase[q]
      BY <1>6 DEF SetupRaises, StartBaseline, EndBaseline, EndRun, SaveTerminal, SaveRaises,
                  GoTo, judging
    <2> QED BY <1>1, <2>1 DEF EscapeInv
  <1>7. CASE UNCHANGED <<phase, before, wrote>>
    BY <1>1, <1>7 DEF EscapeInv
  <1>8. \/ UNCHANGED <<phase, before, wrote>>
        \/ Crash
        \/ \E r \in Runs : \/ StartWorker(r) \/ SetupRaises(r) \/ EndWorker(r)
                           \/ StartBaseline(r) \/ EndBaseline(r) \/ EndRun(r)
                           \/ SaveTerminal(r) \/ SaveRaises(r)
                           \/ \E p \in Target : Escape(r, p)
    BY DEF Next, vars, record, judging, Reconcile, Commit, SaveRecord, Delete, Discard
  <1> QED BY <1>2, <1>3, <1>4, <1>5, <1>6, <1>7, <1>8

\* A run in whose repository no other has a worktree finds its own in the first
\* slot, and what differs from its snapshot is its own.
LEMMA AloneStep ==
    ASSUME WorkspaceInv, [Next]_vars
    PROVE  AloneInv'
  <1> USE Typed, Trees
  <1>g. GitKept
    BY GitStep
  <1> SUFFICES ASSUME NEW q \in Runs, Alone(q)'
               PROVE  AloneFacts(q)'
    BY DEF AloneInv
  <1>1. Alone(q)
    <2>1. \A r \in Runs \ {q} : <<r, "run">> \in Tree /\ head'[<<r, "run">>] = Absent
      BY DEF Alone
    <2>2. \A r \in Runs \ {q} : head[<<r, "run">>] = Absent
      BY <1>g, <2>1, BranchStays
    <2> QED BY <2>2 DEF Alone
  <1>2. AloneFacts(q)
    BY <1>1 DEF WorkspaceInv, AloneInv
  <1>3. \A r \in Runs \ {q} : /\ known[r] = "no" /\ phase[r] \notin {"armed", "baseline"}
                              /\ head[<<r, "run">>] = Absent /\ head[<<r, "baseline">>] = Absent
                              /\ head'[<<r, "run">>] = Absent
    BY <1>1 DEF Alone, WorkspaceInv, KnownInv
  <1>4. 0 \in Slots /\ Slots \subseteq Nat
    BY FirstSlot
  <1> DEFINE t == <<q, "run">>
  <1>5. ASSUME UNCHANGED git,
               phase'[q] = "armed" => phase[q] = "armed" /\ before'[q] = before[q]
                                      /\ (wrote[q] # {} => wrote'[q] # {})
        PROVE  AloneFacts(q)'
    <2>1. UNCHANGED <<slot, head, files>>
      BY <1>5 DEF git
    <2>2. HasTree(t)' => slot'[0].tree = t
      BY <1>2, <2>1 DEF AloneFacts, HasTree
    <2>3. phase'[q] = "armed" => wrote'[q] # {} \/ OwnOnly(q)'
      BY <1>2, <1>5, <2>1 DEF AloneFacts, OwnOnly
    <2> QED BY <2>2, <2>3 DEF AloneFacts
  <1>6. ASSUME phase'[q] # "armed", HasTree(t)' => HasTree(t),
               slot'[0].tree = slot[0].tree \/ slot[0].tree # t \/ ~HasTree(t)'
        PROVE  AloneFacts(q)'
    BY <1>2, <1>6 DEF AloneFacts
  <1>7. ASSUME NEW k \in Slots, NEW lock \in BOOLEAN, CreatedIn(k, t, lock), files' = files
        PROVE  slot'[0].tree = t
    <2>0. t \in Tree
      OBVIOUS
    <2>1. \A u \in Tree : head[u] = Absent
      <3>1. head[t] = Absent
        BY <1>7 DEF CreatedIn
      <3>2. head[<<q, "baseline">>] = Absent
        BY <3>1 DEF WorkspaceInv, KnownInv
      <3> TAKE u \in Tree
      <3>3. u[1] \in Runs /\ (u = <<u[1], "run">> \/ u = <<u[1], "baseline">>)
        OBVIOUS
      <3>4. CASE u[1] = q
        BY <3>1, <3>2, <3>3, <3>4
      <3>5. CASE u[1] # q
        <4> DEFINE r == u[1]
        <4>1. head[<<r, "run">>] = Absent /\ head[<<r, "baseline">>] = Absent
          BY <1>3, <3>3, <3>5
        <4> QED BY <3>3, <4>1
      <3> QED BY <3>4, <3>5
    <2>2. slot[0].tree = NoTree
      BY <1>4, <2>1 DEF WorkspaceInv, SlotsInv, Slot
    <2>3. k = 0
      BY <1>4, <1>7, <2>2 DEF CreatedIn
    <2> HIDE DEF t
    <2> QED BY <1>7, <2>0, <2>3, CreatedTells
  <1>8. ASSUME Made(q), files' = files PROVE HasTree(t)' => slot'[0].tree = t
    <2>1. CASE UNCHANGED <<slot, head, disk, known>>
      BY <1>2, <2>1 DEF AloneFacts, HasTree
    <2>2. CASE \E k \in Slots : CreatedIn(k, t, TRUE) \/ CreatedIn(k, t, FALSE)
      BY <1>7, <1>8, <2>2
    <2> QED BY <1>8, <2>1, <2>2 DEF Made
  <1>9. CASE Reconcile
    <2>1. /\ slot' = Forgotten(prunable) /\ UNCHANGED <<head, files, phase>>
          /\ phase[q] # "armed"
      BY <1>9 DEF Reconcile, Quiet, record
    <2>2. /\ \A u \in Tree : HasTree(u)' <=> HasTree(u) /\ u \notin prunable
          /\ \A j \in Slots : slot[j].tree \notin prunable => slot'[j] = slot[j]
      BY <2>1, ForgottenTells, PrunableUnlocked
    <2> QED BY <1>4, <1>6, <2>1, <2>2
  <1>10. CASE StartWorker(q)
    <2>1. HasTree(t)' => slot'[0].tree = t
      BY <1>8, <1>10, StartMakes
    <2>2. /\ before'[q].slot = slot' /\ before'[q].head = head'
          /\ before'[q].files = files'
      BY <1>10, ArmedSnapshot
    <2> QED BY <2>1, <2>2 DEF AloneFacts, OwnOnly
  <1>11. CASE SetupRaises(q)
    <2>1. HasTree(t)' => slot'[0].tree = t
      BY <1>8, <1>11, StartMakes
    <2>2. phase'[q] # "armed"
      BY <1>11 DEF SetupRaises, GoTo
    <2> QED BY <2>1, <2>2 DEF AloneFacts
  <1>12. CASE Commit(q)
    <2>1. UNCHANGED <<phase, before, wrote>> /\ phase[q] = "armed"
      BY <1>12 DEF Commit, judging, record
    <2>2. HasTree(t) /\ slot[0].tree = t
      BY <1>2, <2>1, ArmedHas DEF AloneFacts
    <2>3. \A k \in Slots \ {0} : slot[k].tree # t
      <3>1. t # NoTree
        OBVIOUS
      <3>2. \A j, k \in Slots : slot[j].tree # NoTree /\ slot[j].tree = slot[k].tree => j = k
        BY DEF WorkspaceInv, SlotsInv
      <3> QED BY <1>4, <2>2, <3>1, <3>2, Zenon
    <2>4. /\ \A u \in Tree \ {t} : head'[u] = head[u]
          /\ \A x \in Place \ {"objects"} : files'[x] = files[x]
          /\ \A k \in Slots \ {0} : slot'[k] = slot[k]
          /\ slot'[0].tree = slot[0].tree
      BY <1>4, <1>12, <2>3, CommitTells
    <2>5. OwnOnly(q) => OwnOnly(q)'
      BY <2>1, <2>4 DEF OwnOnly
    <2> QED BY <1>2, <2>1, <2>2, <2>4, <2>5 DEF AloneFacts
  <1>13. ASSUME NEW p \in Target, Escape(q, p) PROVE AloneFacts(q)'
    <2>1. wrote'[q] # {}
      BY <1>13 DEF Escape
    <2>2. HasTree(t)' => slot'[0].tree = t
      BY <1>2, <1>4, <1>13, EscapeTells DEF AloneFacts
    <2> QED BY <2>1, <2>2 DEF AloneFacts
  <1>14. CASE EndWorker(q)
    <2>1. UNCHANGED git /\ phase'[q] # "armed"
      BY <1>14 DEF EndWorker, GoTo
    <2> QED BY <1>5, <2>1
  <1>15. CASE StartBaseline(q)
    <2> DEFINE b == <<q, "baseline">>
    <2>1. Create(b, FALSE) /\ files' = files /\ b \in Tree /\ phase'[q] # "armed" /\ t # b /\ t \in Tree
      BY <1>15 DEF StartBaseline, GoTo
    <2>2. PICK k \in Slots : CreatedIn(k, b, FALSE)
      BY <2>1, CreateTakes
    <2> HIDE DEF b, t
    <2>3. /\ \A u \in Tree : HasTree(u)' <=> HasTree(u) \/ u = b
          /\ \A j \in Slots \ {k} : slot'[j] = slot[j]
      BY <2>1, <2>2, CreatedTells
    <2>4. slot[k].tree # t
      BY <2>1, <2>2, Trees DEF CreatedIn
    <2>5. slot[0].tree = t => slot'[0] = slot[0]
      BY <1>4, <2>3, <2>4
    <2> QED BY <1>6, <2>1, <2>3, <2>5 DEF t
  <1>16. ASSUME NEW u \in Tree, Cleanup(u), UNCHANGED <<head, files>>, phase'[q] # "armed"
         PROVE  AloneFacts(q)'
    <2>1. /\ HasTree(t)' <=> HasTree(t) /\ t # u
          /\ slot[0].tree # u => slot'[0] = slot[0]
      BY <1>4, <1>16, CleanTells
    <2> QED BY <1>6, <1>16, <2>1
  <1>17. CASE EndBaseline(q)
    <2>1. /\ phase'[q] # "armed" /\ UNCHANGED <<head, files>>
          /\ Cleanup(<<q, "baseline">>) \/ slot' = slot
      BY <1>17 DEF EndBaseline, GoTo
    <2> QED BY <1>5, <1>16, <2>1 DEF git
  <1>18. CASE EndRun(q)
    <2>1. /\ phase'[q] # "armed" /\ (HasTree(t)' <=> HasTree(t))
          /\ slot'[0].tree = slot[0].tree
      BY <1>4, <1>18, EndRunTells
    <2> QED BY <1>6, <2>1
  <1>19. CASE SaveRecord(q) \/ SaveTerminal(q) \/ SaveRaises(q)
    <2>1. UNCHANGED git /\ phase'[q] # "armed"
      BY <1>19 DEF SaveRecord, SaveTerminal, SaveRaises, GoTo
    <2> QED BY <1>5, <2>1
  <1>20. ASSUME NEW u \in Tree, Delete(u) PROVE AloneFacts(q)'
    BY <1>5, <1>20 DEF Delete, record, judging
  <1>21. ASSUME NEW u \in Tree, Discard(u) PROVE AloneFacts(q)'
    <2>1. Cleanup(u) /\ UNCHANGED <<head, files, phase>> /\ phase[q] # "armed"
      BY <1>21 DEF Discard, Quiet, record
    <2> QED BY <1>16, <2>1
  <1>22. CASE Crash
    <2>1. UNCHANGED git /\ phase'[q] # "armed"
      BY <1>22 DEF Crash
    <2> QED BY <1>5, <2>1
  <1>23. CASE UNCHANGED vars
    BY <1>5, <1>23 DEF vars, record, judging
  <1>24. ASSUME NEW r \in Runs, r # q,
                \/ StartWorker(r) \/ SetupRaises(r) \/ EndRun(r) \/ SaveRecord(r)
                \/ SaveTerminal(r) \/ SaveRaises(r)
         PROVE  AloneFacts(q)'
    <2>1. known[r] = "no" /\ head'[<<r, "run">>] = Absent /\ <<r, "run">> \in Tree
      BY <1>3, <1>24
    <2>2. CASE StartWorker(r)
      <3>1. known'[r] # "no"
        BY <2>2 DEF StartWorker, WorktreeFor
      <3> QED BY <2>1, <2>2, <3>1, StartMakes, MadeTells
    <2>3. CASE SetupRaises(r)
      <3>1. Made(r) /\ files' = files
        BY <2>3, StartMakes
      <3>2. ~\E k \in Slots, lock \in BOOLEAN : CreatedIn(k, <<r, "run">>, lock)
        BY <2>1, <3>1, CreatedTells
      <3>3. UNCHANGED git
        BY <3>1, <3>2 DEF Made, git
      <3>4. UNCHANGED <<before, wrote>> /\ phase'[q] = phase[q]
        BY <1>24, <2>3 DEF SetupRaises, GoTo, judging
      <3> QED BY <1>5, <3>3, <3>4
    <2>4. CASE EndRun(r)
      <3>1. UNCHANGED <<slot, head, files, before, wrote>> /\ phase'[q] = phase[q]
        BY <1>24, <2>1, <2>4 DEF EndRun, GoTo, judging
      <3> QED BY <1>5, <3>1 DEF git
    <2>5. CASE SaveRecord(r) \/ SaveTerminal(r) \/ SaveRaises(r)
      <3>1. UNCHANGED <<git, before, wrote>> /\ phase'[q] = phase[q]
        BY <1>24, <2>5 DEF SaveRecord, SaveTerminal, SaveRaises, GoTo, judging
      <3> QED BY <1>5, <3>1
    <2> QED BY <1>24, <2>2, <2>3, <2>4, <2>5
  <1>25. ASSUME NEW r \in Runs, r # q,
                \/ Commit(r) \/ EndWorker(r) \/ StartBaseline(r) \/ EndBaseline(r)
                \/ \E p \in Target : Escape(r, p)
         PROVE  FALSE
    BY <1>3, <1>25 DEF Commit, Escape, EndWorker, StartBaseline, EndBaseline
  <1> HIDE DEF t
  <1> QED
    BY <1>9, <1>10, <1>11, <1>12, <1>13, <1>14, <1>15, <1>17, <1>18, <1>19, <1>20, <1>21,
       <1>22, <1>23, <1>24, <1>25 DEF Next

-----------------------------------------------------------------------------
(* The report of a reconcile *)

\* The trees that are not free are in the report where they belong.
LEMMA ReconcileStep ==
    ASSUME WorkspaceInv, [Next]_vars
    PROVE  ReconcileAccounts'
  <1> USE Typed, Trees
  <1>1. CASE Reconcile
    <2>1. /\ slot' = Forgotten(prunable) /\ UNCHANGED <<head, files, phase, known, trail, disk>>
          /\ found' = [pruned |-> prunable,
                       locked |-> {t \in Tree \ prunable : Locked(t)},
                       orphaned_run_dirs |->
                          {t \in Tree : disk[t] # "absent" /\ (HasTree(t) => t \in prunable)}]
      BY <1>1 DEF Reconcile, record
    <2>2. \A u \in Tree : HasTree(u)' <=> HasTree(u) /\ u \notin prunable
      BY <2>1, ForgottenTells, PrunableUnlocked
    <2>3. \A t \in found'.pruned : disk'[t] # "tree" /\ ~HasTree(t)'
      BY <2>1, <2>2 DEF prunable
    <2>4. LiveTreeKept
      BY DEF WorkspaceInv, LiveInv
    <2>5. \A r \in Runs : Live(r)' /\ "terminal" \notin trail'[r] => <<r, "run">> \in found'.locked
      BY <2>1, <2>4, PrunableUnlocked DEF LiveTreeKept, Live
    <2>6. ASSUME NEW t \in found'.locked
          PROVE  Live(t[1])' \/ "unlock_failed" \in trail'[t[1]] \/ known'[t[1]] = "no"
      <3>1. t \in Tree /\ Locked(t) /\ phase[t[1]] \in Phases
        BY <2>1
      <3>2. phase[t[1]] \in {"releasing", "ended"} =>
               "unlock_failed" \in trail[t[1]] \/ known[t[1]] = "no"
        BY <2>4, <3>1 DEF LiveTreeKept
      <3> QED BY <2>1, <3>1, <3>2 DEF Live, Phases
    <2>7. \A t \in Tree : disk'[t] # "absent" =>
              (t \in found'.orphaned_run_dirs <=> ~HasTree(t)')
      BY <2>1, <2>2
    <2>8. \A t \in Tree : HasTree(t)' => disk'[t] = "tree" \/ t \in found'.locked
      BY <2>1, <2>2 DEF prunable
    <2> QED BY <2>3, <2>5, <2>6, <2>7, <2>8 DEF ReconcileAccounts
  <1>2. CASE found' = NoReport
    BY <1>2 DEF ReconcileAccounts
  <1>3. CASE UNCHANGED vars
    BY <1>3 DEF vars, git, record, WorkspaceInv, ReconcileAccounts, HasTree, Live
  <1> QED BY <1>1, <1>2, <1>3 DEF Next

-----------------------------------------------------------------------------
(* The theorems *)

\* A repository without runs satisfies the invariant.
LEMMA WorkspaceInit == Init => WorkspaceInv
  <1> SUFFICES ASSUME Init PROVE WorkspaceInv
    OBVIOUS
  <1> USE Trees DEF Init
  <1>1. MaxFaults \in Nat
    BY BoundsAssumption
  <1>2. Free \in Slot /\ Free.tree = NoTree
    BY DEF Free, Slot
  <1>3. Pristine \in Snapshots
    BY <1>2 DEF Pristine, Snapshots, Heads, Files
  <1>4. TypeOK
    BY <1>1, <1>2 DEF TypeOK, Slot
  <1>5. before \in [Runs -> Snapshots]
    BY <1>3
  <1>6. \A t \in Tree : ~HasTree(t) /\ ~Locked(t)
    BY <1>2 DEF HasTree, Locked
  <1>7. SlotsInv /\ DiskInv /\ KnownInv
    BY <1>2 DEF SlotsInv, DiskInv, KnownInv
  <1>8. LiveInv
    BY <1>6 DEF LiveInv, LiveTreeKept, Live
  <1>9. EscapeInv /\ AloneInv
    BY <1>6 DEF EscapeInv, AloneInv, AloneFacts
  <1>10. ReconcileAccounts
    BY DEF ReconcileAccounts
  <1> QED BY <1>4, <1>5, <1>7, <1>8, <1>9, <1>10 DEF WorkspaceInv

\* The invariant, for any finite number of runs and any number of writes and faults.
THEOREM WorkspaceInvariance == Spec => []WorkspaceInv
  <1>1. Init => WorkspaceInv
    BY WorkspaceInit
  <1>2. WorkspaceInv /\ [Next]_vars => WorkspaceInv'
    <2> SUFFICES ASSUME WorkspaceInv, [Next]_vars PROVE WorkspaceInv'
      OBVIOUS
    <2>1. /\ slot' \in [Slots -> Slot] /\ head' \in Heads /\ files' \in Files
          /\ disk' \in Disks /\ SlotsInv' /\ DiskInv'
      BY GitStep DEF GitKept
    <2>2. /\ phase' \in [Runs -> Phases]
          /\ wrote' \in [Runs -> SUBSET Target] /\ before' \in [Runs -> Snapshots]
          /\ \A r \in Runs : phase'[r] = "armed" <=> before'[r] # Pristine
          /\ faults' \in 0..MaxFaults
      BY RestTyped
    <2>3. /\ KnownInv' /\ known' \in [Runs -> {"no", "memory", "stored"}]
          /\ LiveInv' /\ trail' \in [Runs -> SUBSET {"terminal", "unlock_failed"}]
      BY KnownStep, LiveStep
    <2>4. \/ found' = NoReport
          \/ found' \in [pruned : SUBSET Tree, locked : SUBSET Tree,
                         orphaned_run_dirs : SUBSET Tree]
      <3>1. CASE Reconcile
        BY <3>1, PrunableUnlocked DEF Reconcile
      <3>2. CASE found' = NoReport \/ UNCHANGED vars
        BY <3>2 DEF vars, WorkspaceInv, TypeOK
      <3> QED BY <3>1, <3>2 DEF Next
    <2>5. TypeOK'
      BY <2>1, <2>2, <2>3, <2>4 DEF TypeOK, Slot, Heads, Files, Phases, Disks
    <2>6. EscapeInv' /\ AloneInv' /\ ReconcileAccounts'
      BY EscapeStep, AloneStep, ReconcileStep
    <2> QED BY <2>1, <2>2, <2>3, <2>5, <2>6 DEF WorkspaceInv
  <1> QED BY <1>1, <1>2, PTL DEF Spec

\* git knows the worktree of a run that goes on and has it locked, whatever is
\* created, removed, pruned or deleted beside it, and no lock outlives its run
\* untold, but that of a worktree no record knows of (lock, cleanup, reconcile,
\* _release_worktree).
THEOREM LiveTreeAlwaysKept == Spec => []LiveTreeKept
  <1>1. WorkspaceInv => LiveTreeKept
    BY DEF WorkspaceInv, LiveInv
  <1> QED BY <1>1, WorkspaceInvariance, PTL

\* Where a worker has written in the primary checkout is reported when it ends,
\* outside of the guard's blind spots and whatever other runs do to the repository
\* meanwhile (EscapeDetector.compare, git_allowances).
THEOREM EscapeAlwaysReported == Spec => []EscapeReported
  <1>1. WorkspaceInv => EscapeReported
    <2> SUFFICES ASSUME WorkspaceInv, NEW r \in Runs, NEW p \in wrote[r], phase[r] = "armed",
                        p \notin {<<"files", "excluded">>, <<"files", "objects">>,
                                  <<"worktrees", 0>>},
                        ~(/\ p[1] = "worktrees"
                          /\ before[r].slot[p[2]] = Free /\ slot[p[2]] = Free)
                 PROVE  p \in Violations(r)
      BY DEF EscapeReported
    <2> USE Typed, Trees
    <2>1. Changed(r, p) /\ Earlier(r) /\ p \in Target
      BY DEF WorkspaceInv, EscapeInv
    <2>2. p \in Path
      BY <2>1 DEF Path
    <2>3. Snapshot.slot = slot /\ Snapshot.head = head /\ Snapshot.files = files
      BY DEF Snapshot
    <2>4. p \notin git_allowances(r) /\ Versions(before[r])[p] # Versions(Snapshot)[p]
      <3>1. ASSUME NEW k \in Slots, p = <<"worktrees", k>>
            PROVE  p \notin git_allowances(r) /\ Versions(before[r])[p] # Versions(Snapshot)[p]
        <4>1. Versions(before[r])[p] = before[r].slot[k] /\ Versions(Snapshot)[p] = slot[k]
          BY <2>2, <2>3, <3>1 DEF Versions
        <4>2. before[r].slot[k] # slot[k]
          <5>1. slot[k].tree = before[r].slot[k].tree =>
                   before[r].slot[k].version < slot[k].version \/ slot[k].tree = NoTree
            BY <2>1, <3>1 DEF Changed
          <5>2. before[r].slot[k].tree = NoTree => before[r].slot[k] = Free
            BY <2>1 DEF Earlier
          <5>3. slot[k].tree = NoTree => slot[k] = Free
            BY DEF WorkspaceInv, SlotsInv
          <5>4. slot[k].version \in Nat
            BY DEF Slot
          <5> QED BY <3>1, <5>1, <5>2, <5>3, <5>4
        <4> QED BY <3>1, <4>1, <4>2 DEF git_allowances
      <3>2. ASSUME NEW t \in Tree, p = <<"heads", t>>
            PROVE  p \notin git_allowances(r) /\ Versions(before[r])[p] # Versions(Snapshot)[p]
        <4>1. Versions(before[r])[p] = before[r].head[t] /\ Versions(Snapshot)[p] = head[t]
          BY <2>2, <2>3, <3>2 DEF Versions
        <4>2. before[r].head[t] < head[t] /\ t # <<r, "run">>
          BY <2>1, <3>2 DEF Changed
        <4>3. before[r].head[t] \in Int /\ head[t] \in Int
          BY DEF Snapshots, Heads, Absent
        <4> QED BY <3>2, <4>1, <4>2, <4>3 DEF git_allowances
      <3>3. ASSUME NEW x \in Place, p = <<"files", x>>
            PROVE  p \notin git_allowances(r) /\ Versions(before[r])[p] # Versions(Snapshot)[p]
        <4>1. Versions(before[r])[p] = before[r].files[x] /\ Versions(Snapshot)[p] = files[x]
          BY <2>2, <2>3, <3>3 DEF Versions
        <4>2. before[r].files[x] < files[x]
          BY <2>1, <3>3 DEF Changed
        <4>3. before[r].files[x] \in Int /\ files[x] \in Int
          BY DEF Snapshots, Files
        <4> QED BY <3>3, <4>1, <4>2, <4>3 DEF git_allowances
      <3> QED BY <2>1, <3>1, <3>2, <3>3 DEF Target
    <2> QED BY <2>2, <2>4 DEF Violations
  <1> QED BY <1>1, WorkspaceInvariance, PTL

\* As long as no other run has used the repository, a worker is only reported for
\* what it wrote outside its worktree, whatever is left in .git of earlier
\* baselines, deletions and prunings (Worktree.git_allowances).
THEOREM OwnWritesAlwaysExcused == Spec => []OwnWritesExcused
  <1>1. WorkspaceInv => OwnWritesExcused
    <2> SUFFICES ASSUME WorkspaceInv, NEW r \in Runs, phase[r] = "armed", wrote[r] = {},
                        Alone(r), NEW p \in Path,
                        Versions(before[r])[p] # Versions(Snapshot)[p]
                 PROVE  p \in git_allowances(r)
      BY DEF OwnWritesExcused, Alone, Violations
    <2>1. OwnOnly(r)
      BY DEF WorkspaceInv, AloneInv, AloneFacts
    <2>2. Snapshot.slot = slot /\ Snapshot.head = head /\ Snapshot.files = files
      BY DEF Snapshot
    <2>3. ASSUME NEW k \in Slots, p = <<"worktrees", k>> PROVE p \in git_allowances(r)
      <3>1. Versions(before[r])[p] = before[r].slot[k] /\ Versions(Snapshot)[p] = slot[k]
        BY <2>2, <2>3 DEF Versions
      <3>2. k = 0
        BY <2>1, <3>1 DEF OwnOnly
      <3> QED BY <2>3, <3>2 DEF git_allowances
    <2>4. ASSUME NEW t \in Tree, p = <<"heads", t>> PROVE p \in git_allowances(r)
      <3>1. Versions(before[r])[p] = before[r].head[t] /\ Versions(Snapshot)[p] = head[t]
        BY <2>2, <2>4 DEF Versions
      <3>2. t = <<r, "run">>
        BY <2>1, <3>1 DEF OwnOnly
      <3> QED BY <2>4, <3>2 DEF git_allowances
    <2>5. ASSUME NEW x \in Place, p = <<"files", x>> PROVE p \in git_allowances(r)
      <3>1. Versions(before[r])[p] = before[r].files[x] /\ Versions(Snapshot)[p] = files[x]
        BY <2>2, <2>5 DEF Versions
      <3>2. x = "objects"
        BY <2>1, <3>1 DEF OwnOnly
      <3> QED BY <2>5, <3>2 DEF git_allowances
    <2> QED BY <2>3, <2>4, <2>5 DEF Path, Target
  <1> QED BY <1>1, WorkspaceInvariance, PTL

\* A reconcile prunes only what is gone and nothing of a live run, reports as locked
\* those runs' trees and otherwise only what a failed unlock or a lost record has
\* left, and as orphaned exactly the directories git does not know
\* (WorktreeManager.reconcile).
THEOREM ReconcileAlwaysAccounts == Spec => []ReconcileAccounts
  <1>1. WorkspaceInv => ReconcileAccounts
    BY DEF WorkspaceInv
  <1> QED BY <1>1, WorkspaceInvariance, PTL
=============================================================================
