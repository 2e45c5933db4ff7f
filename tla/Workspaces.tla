----------------------------- MODULE Workspaces -----------------------------
(***************************************************************************)
(* The runs of one repository, as far as they share it: the git metadata   *)
(* of their worktrees (execution/worktree_manager.py) and the containment  *)
(* that brackets every worker (execution/workspace_guard.py) by comparing  *)
(* fingerprints of the primary checkout, its .git included, before and     *)
(* after.  What a run does between these points is WorkflowRunner's.  The    *)
(* server may die, the store may refuse a record, people tidy up, and        *)
(* reconcile puts git's metadata and the directories in order.               *)
(*                                                                         *)
(* git keeps a worktree's HEAD, index and lock in .git/worktrees/<name>,    *)
(* where <name> is the last component of its path - "worktree" for all of   *)
(* them here - made unique by a number.  Slot k is the k-th such name.      *)
(***************************************************************************)
EXTENDS Integers, FiniteSetsExt, TLC

CONSTANTS Runs,
          MaxWrites,     \* bound on the commits on a branch
          MaxFaults      \* bound on the crashes, the refusals of git, store and file
                         \* system, worktrees deleted by hand, and workers' escapes

ASSUME RunsAssumption == IsFiniteSet(Runs)
ASSUME BoundsAssumption == MaxWrites \in Nat /\ MaxFaults \in Nat

VARIABLES
    slot,      \* .git/worktrees: per slot, the worktree it describes
    head,      \* .git/refs/heads: per tree, its branch's version, or Absent
    files,     \* everything else in the primary checkout, as versions
    phase,     \* where each run stands
    known,     \* is the worktree on the run's record, and is that saved?
    trail,     \* what the run's events say of its end
    before,    \* WorkspaceContainment._before of the armed runs
    wrote,     \* where else than in its worktree the armed worker has written
    disk,      \* per tree, its run directory: absent, empty, or with the tree
    found,     \* the ReconciliationReport, if the last step was a reconcile
    faults     \* how often something went wrong

git     == <<slot, head, files>>
record  == <<phase, known, trail>>
judging == <<before, wrote>>
vars    == <<git, record, judging, disk, found, faults>>

Tree   == Runs \X {"run", "baseline"}
Slots  == 0 .. (2 * Cardinality(Runs) - 1)
Absent == -1

NoTree == <<"none", "none">>

\* version: of the HEAD, index and reflog that git keeps there
Free == [tree |-> NoTree, locked |-> FALSE, version |-> 0]

NoReport == [pruned |-> {NoTree}, locked |-> {}, orphaned_run_dirs |-> {}]

\* Of the files that no worktree has to do with: the object store, what lies in
\* directories with a name like build or node_modules, and the rest.
Place == {"objects", "excluded", "rest"}

\* Where a worker can write outside of its worktree, and what of that is
\* fingerprinted.
Target == ({"worktrees"} \X Slots) \cup ({"heads"} \X Tree) \cup ({"files"} \X Place)
Path   == Target \ {<<"files", "excluded">>}

Versions(s) ==
    [p \in Path |-> CASE p[1] = "worktrees" -> s.slot[p[2]]
                      [] p[1] = "heads"     -> s.head[p[2]]
                      [] OTHER              -> s.files[p[2]]]

\* EscapeDetector.snapshot
Snapshot == [slot |-> slot, head |-> head, files |-> files]

\* Stands for _before while a run is not armed.
Pristine == [slot |-> [k \in Slots |-> Free], head |-> [t \in Tree |-> Absent],
             files |-> [p \in Place |-> 0]]

\* What git, the record and the containment of each run hold; only an armed run,
\* whose worktree git then knows, has a snapshot.
TypeOK ==
    /\ slot \in [Slots -> [tree : Tree \cup {NoTree}, locked : BOOLEAN, version : Nat]]
    /\ head \in [Tree -> {Absent} \cup Nat]
    /\ files \in [Place -> Nat]
    /\ phase \in [Runs -> {"idle", "armed", "baseline", "failing", "releasing", "ended"}]
    /\ known \in [Runs -> {"no", "memory", "stored"}]
    /\ trail \in [Runs -> SUBSET {"terminal", "unlock_failed"}]
    /\ wrote \in [Runs -> SUBSET Target]
    /\ \A r \in Runs : phase[r] = "armed" <=> before[r] # Pristine
    /\ disk \in [Tree -> {"absent", "empty", "tree"}]
    /\ \/ found = NoReport
       \/ found \in [pruned : SUBSET Tree, locked : SUBSET Tree,
                     orphaned_run_dirs : SUBSET Tree]
    /\ faults \in 0..MaxFaults

Init ==
    /\ slot = [k \in Slots |-> Free]
    /\ head = [t \in Tree |-> Absent]
    /\ files = [p \in Place |-> 0]
    /\ phase = [r \in Runs |-> "idle"]
    /\ known = [r \in Runs |-> "no"]
    /\ trail = [r \in Runs |-> {}]
    /\ before = [r \in Runs |-> Pristine]
    /\ wrote = [r \in Runs |-> {}]
    /\ disk = [t \in Tree |-> "absent"]
    /\ found = NoReport
    /\ faults = 0

Fault == faults < MaxFaults /\ faults' = faults + 1
Fine  == UNCHANGED faults

-----------------------------------------------------------------------------
(* WorktreeManager *)

HasTree(t) == \E k \in Slots : slot[k].tree = t
SlotOf(t)  == CHOOSE k \in Slots : slot[k].tree = t
Locked(t)  == \E k \in Slots : slot[k].tree = t /\ slot[k].locked

\* create refuses a directory or a branch that exists.
CanCreate(t) == disk[t] # "tree" /\ head[t] = Absent

\* create, and lock: git worktree add takes the first free name, and the branch
\* is new.
Create(t, lock) ==
    LET k == Min({i \in Slots : slot[i].tree = NoTree})
    IN  /\ CanCreate(t)
        /\ slot' = [slot EXCEPT ![k] = [tree |-> t, locked |-> lock, version |-> 0]]
        /\ head' = [head EXCEPT ![t] = 0]
        /\ disk' = [disk EXCEPT ![t] = "tree"]

\* git worktree remove of the trees, or prune.  Their branches stay.
Forgotten(trees) ==
    [k \in Slots |-> IF slot[k].tree \in trees THEN Free ELSE slot[k]]

\* cleanup, once nothing refuses it: git's record goes, if there is one, and then
\* the run directory; the removal of that may fail.
Cleanup(t) ==
    /\ slot' = Forgotten({t})
    /\ \/ disk' = [disk EXCEPT ![t] = "absent"] /\ Fine
       \/ disk' = [disk EXCEPT ![t] = "empty"] /\ Fault

\* Faulty variant: a record is prunable as soon as its directory is gone.
prunable_locked == {t \in Tree : HasTree(t) /\ disk[t] # "tree"}

\* What git lists as prunable, and prunes: nothing that is locked.
prunable == {t \in Tree : HasTree(t) /\ disk[t] # "tree" /\ ~Locked(t)}

\* Housekeeping, which nothing in the server calls, is done while no worker and
\* no verification runs.
Quiet == \A r \in Runs : phase[r] \notin {"armed", "baseline"}

\* reconcile
Reconcile ==
    /\ Quiet
    /\ slot' = Forgotten(prunable)
    /\ found' = [pruned |-> prunable,
                 locked |-> {t \in Tree \ prunable : Locked(t)},
                 orphaned_run_dirs |->
                    {t \in Tree : disk[t] # "absent" /\ (HasTree(t) => t \in prunable)}]
    /\ UNCHANGED <<head, files, record, judging, disk, faults>>

\* Faulty variant: the branch of the worktree is left out.
allowances_without_branch(r) == {<<"worktrees", 0>>, <<"files", "objects">>}

\* Faulty variant: every branch is excused.
allowances_all_branches(r) ==
    {<<"worktrees", 0>>, <<"files", "objects">>} \cup ({"heads"} \X Tree)

\* Worktree.git_allowances: the metadata directory is taken to be named like
\* the worktree's directory.
git_allowances(r) ==
    {<<"worktrees", 0>>, <<"heads", <<r, "run">>>>, <<"files", "objects">>}

-----------------------------------------------------------------------------
(* Runs *)

GoTo(r, p) == phase' = [phase EXCEPT ![r] = p]

\* _worktree_for: the run's worktree, locked, unless the record has one already.
\* The record of it is saved with the next save of the run.
WorktreeFor(r) ==
    IF known[r] = "no"
    THEN Create(<<r, "run">>, TRUE) /\ known' = [known EXCEPT ![r] = "memory"]
    ELSE UNCHANGED <<slot, head, disk, known>>

\* _run_worker up to its first await: the worktree, which _validate_layout wants
\* to see, and WorkspaceContainment.arm.
StartWorker(r) ==
    /\ phase[r] = "idle" /\ known[r] # "memory"
    /\ WorktreeFor(r) /\ disk'[<<r, "run">>] = "tree"
    /\ before' = [before EXCEPT ![r] = [slot |-> slot', head |-> head', files |-> files]]
    /\ GoTo(r, "armed")
    /\ UNCHANGED <<files, trail, wrote, faults>>

\* No worker starts and the run fails: git refuses to create the worktree, because
\* the directory or the branch exists or for reasons of its own; it creates the
\* worktree and does not lock it; or arm refuses the layout, the size of the
\* checkout or a barrier that does not hold.
SetupRaises(r) ==
    /\ phase[r] = "idle" /\ known[r] # "memory"
    /\ \/ /\ known[r] = "no" /\ UNCHANGED <<slot, head, disk, known>>
          /\ IF CanCreate(<<r, "run">>) THEN Fault ELSE Fine
       \/ known[r] = "no" /\ Create(<<r, "run">>, FALSE) /\ UNCHANGED known /\ Fault
       \/ WorktreeFor(r) /\ IF disk'[<<r, "run">>] = "tree" THEN Fault ELSE Fine
    /\ GoTo(r, "failing")
    /\ UNCHANGED <<files, trail, judging>>

\* The worker commits on its branch, in its own worktree.
Commit(r) ==
    LET t == <<r, "run">>
    IN  /\ phase[r] = "armed" /\ head[t] < MaxWrites
        /\ head' = [head EXCEPT ![t] = @ + 1]
        /\ slot' = [slot EXCEPT ![SlotOf(t)].version = @ + 1]
        /\ files' = [files EXCEPT !["objects"] = @ + 1]
        /\ UNCHANGED <<record, judging, disk, faults>>

\* The worker changes what it has no business with: the branch or the metadata of
\* another worktree (a lock is left alone), or anything else in the checkout.
Escape(r, p) ==
    /\ phase[r] = "armed" /\ Fault
    /\ \/ /\ p[1] = "worktrees" /\ slot[p[2]].tree \notin {NoTree, <<r, "run">>}
          /\ slot' = [slot EXCEPT ![p[2]].version = @ + 1]
          /\ UNCHANGED <<head, files>>
       \/ /\ p[1] = "heads" /\ p[2] # <<r, "run">> /\ head[p[2]] # Absent
          /\ head' = [head EXCEPT ![p[2]] = @ + 1]
          /\ UNCHANGED <<slot, files>>
       \/ /\ p[1] = "files"
          /\ files' = [files EXCEPT ![p[2]] = @ + 1]
          /\ UNCHANGED <<slot, head>>
    /\ wrote' = [wrote EXCEPT ![r] = @ \cup {p}]
    /\ UNCHANGED <<record, before, disk>>

\* EscapeDetector.compare: what disarm, now, would report of the armed run.
Violations(r) ==
    {p \in Path : Versions(before[r])[p] # Versions(Snapshot)[p]} \ git_allowances(r)

\* _run_worker's finally: WorkspaceContainment.disarm.  The report decides how
\* the node ends, and nothing here.
EndWorker(r) ==
    /\ phase[r] = "armed"
    /\ before' = [before EXCEPT ![r] = Pristine]
    /\ wrote' = [wrote EXCEPT ![r] = {}]
    /\ GoTo(r, "idle")
    /\ UNCHANGED <<git, known, trail, disk, faults>>

\* The first save since the worktree was created: the node's, or a repair's.
SaveRecord(r) ==
    /\ phase[r] = "idle" /\ known[r] = "memory"
    /\ known' = [known EXCEPT ![r] = "stored"]
    /\ UNCHANGED <<git, phase, trail, judging, disk, faults>>

\* _verification_baseline: a second worktree, if it can be created.
StartBaseline(r) ==
    /\ phase[r] = "idle" /\ known[r] = "stored"
    /\ Create(<<r, "baseline">>, FALSE)
    /\ GoTo(r, "baseline")
    /\ UNCHANGED <<files, known, trail, judging, faults>>

\* Its finally: cleanup(force=True), or one that fails and is only logged.
EndBaseline(r) ==
    /\ phase[r] = "baseline"
    /\ Cleanup(<<r, "baseline">>) \/ (Fault /\ UNCHANGED <<slot, disk>>)
    /\ GoTo(r, "idle")
    /\ UNCHANGED <<head, files, known, trail, judging>>

\* Faulty variant: a run ends without a thought of its worktree.
EndRunForgetful(r) ==
    /\ phase[r] \in {"idle", "failing"}
    /\ GoTo(r, "releasing")
    /\ trail' = [trail EXCEPT ![r] = @ \cup {"terminal"}]
    /\ UNCHANGED <<git, known, judging, disk, faults>>

\* _transition to a terminal phase: the event that says so, and _release_worktree.
\* That unlocks the worktree the record knows of and leaves it in place; what is
\* not locked, or no longer known to git, cannot be unlocked, nor need git obey.
EndRun(r) ==
    LET t == <<r, "run">>
        ends(events) == trail' = [trail EXCEPT ![r] = @ \cup {"terminal"} \cup events]
    IN  /\ phase[r] \in {"idle", "failing"}
        /\ GoTo(r, "releasing")
        /\ \/ known[r] = "no" /\ ends({}) /\ UNCHANGED slot /\ Fine
           \/ /\ known[r] # "no" /\ Locked(t) /\ ends({}) /\ Fine
              /\ slot' = [slot EXCEPT ![SlotOf(t)].locked = FALSE]
           \/ /\ known[r] # "no" /\ ends({"unlock_failed"}) /\ UNCHANGED slot
              /\ IF Locked(t) THEN Fault ELSE Fine
        /\ UNCHANGED <<head, files, known, judging, disk>>

\* The save behind it.
SaveTerminal(r) ==
    /\ phase[r] = "releasing"
    /\ GoTo(r, "ended")
    /\ known' = [known EXCEPT ![r] = IF @ = "memory" THEN "stored" ELSE @]
    /\ UNCHANGED <<git, trail, judging, disk, faults>>

\* What the next advance will load: the record as it was saved.
Reloaded(r) == IF known[r] = "memory" THEN "no" ELSE known[r]

\* The store does not take the record: what was in memory is lost.
SaveRaises(r) ==
    /\ phase[r] = "releasing" \/ (phase[r] = "idle" /\ known[r] = "memory")
    /\ Fault
    /\ GoTo(r, "idle")
    /\ known' = [known EXCEPT ![r] = Reloaded(r)]
    /\ UNCHANGED <<git, trail, judging, disk>>

-----------------------------------------------------------------------------
(* Others *)

\* Someone deletes a worktree nobody runs in, with its run directory or without.
Delete(t) ==
    /\ phase[t[1]] \notin {"armed", "baseline"} /\ disk[t] = "tree" /\ Fault
    /\ disk' \in {[disk EXCEPT ![t] = "absent"], [disk EXCEPT ![t] = "empty"]}
    /\ UNCHANGED <<git, record, judging>>

\* Someone calls cleanup, unforced: it refuses a locked tree.
Discard(t) ==
    /\ Quiet
    /\ disk[t] # "absent" \/ HasTree(t)
    /\ ~Locked(t)
    /\ Cleanup(t)
    /\ UNCHANGED <<head, files, record, judging>>

\* The server dies: snapshots and what was not saved are gone, and baselines stay.
Crash ==
    /\ Fault
    /\ phase' = [r \in Runs |-> IF phase[r] = "ended" THEN "ended" ELSE "idle"]
    /\ known' = [r \in Runs |-> Reloaded(r)]
    /\ before' = [r \in Runs |-> Pristine]
    /\ wrote' = [r \in Runs |-> {}]
    /\ UNCHANGED <<git, trail, disk>>

Next ==
    \/ Reconcile
    \/ /\ found' = NoReport
       /\ \/ \E r \in Runs :
                \/ StartWorker(r) \/ SetupRaises(r) \/ Commit(r)
                \/ \E p \in Target : Escape(r, p)
                \/ EndWorker(r) \/ SaveRecord(r)
                \/ StartBaseline(r) \/ EndBaseline(r)
                \/ EndRun(r) \/ SaveTerminal(r) \/ SaveRaises(r)
          \/ \E t \in Tree : Delete(t) \/ Discard(t)
          \/ Crash

Spec == Init /\ [][Next]_vars

Symmetry == Permutations(Runs)

-----------------------------------------------------------------------------

\* What a worker writes to the primary checkout is reported when it ends, at the
\* place where it wrote, whatever other runs do to the repository meanwhile
\* (compare, git_allowances).  The guard is blind in four places: directories with
\* an excluded name, the object store, the first worktree's metadata, which is
\* excused for every run, and metadata that came and went while the worker ran.
\* Of a worker whose server died nothing is reported: the next snapshot takes in
\* what it wrote.
EscapeReported ==
    \A r \in Runs : \A p \in wrote[r] :
        phase[r] = "armed" =>
            \/ p \in Violations(r)
            \/ p \in {<<"files", "excluded">>, <<"files", "objects">>, <<"worktrees", 0>>}
            \/ p[1] = "worktrees" /\ before[r].slot[p[2]] = Free /\ slot[p[2]] = Free

\* A worker is only reported for what it wrote itself, however it commits on its
\* own branch and whatever baselines, deletions and prunings have left in .git
\* before - as long as no other run has used the repository
\* (Worktree.git_allowances).  With a second run the exception for the metadata
\* names the wrong directory, and any run is reported for what the others do to
\* .git.
OwnWritesExcused ==
    \A r \in Runs :
        phase[r] = "armed" /\ Violations(r) # {} =>
            wrote[r] # {} \/ \E other \in Runs \ {r} : head[<<other, "run">>] # Absent

\* A run that goes on and knows its worktree.
Live(r) == phase[r] \in {"idle", "armed", "baseline", "failing"} /\ known[r] # "no"

\* git knows the worktree of a live run, and has it locked: neither baselines,
\* which are cleaned up by force, nor someone's cleanup or pruning take it away,
\* even after its directory was deleted (lock, cleanup, reconcile).  One that had
\* reached its end, and whose end was not saved, goes on with what its end has
\* left unlocked: its events say so.  And no lock outlives its run untold, but that
\* of a worktree no record knows of: created, and lost before the first save
\* (_transition, _release_worktree, _worktree_for).
LiveTreeKept ==
    /\ \A r \in Runs : Live(r) /\ "terminal" \notin trail[r] => Locked(<<r, "run">>)
    /\ \A t \in Tree : Locked(t) =>
          /\ t[2] = "run"
          /\ phase[t[1]] \in {"releasing", "ended"} =>
                "unlock_failed" \in trail[t[1]] \/ known[t[1]] = "no"

\* What a reconcile leaves is accounted for: it has pruned only trees that are
\* gone, and no live run's, as above; it names as locked all those and otherwise
\* only what an unlock that failed, or a record that was lost, has left ("a lock
\* left behind means reconcile() reports it as belonging to a live run forever",
\* _release_worktree); and as orphaned exactly the directories left behind that
\* git no longer knows; every other directory holds a tree git knows.
ReconcileAccounts ==
    found # NoReport =>
        /\ \A t \in found.pruned : disk[t] # "tree" /\ ~HasTree(t)
        /\ \A r \in Runs : Live(r) /\ "terminal" \notin trail[r] =>
              <<r, "run">> \in found.locked
        /\ \A t \in found.locked :
              Live(t[1]) \/ "unlock_failed" \in trail[t[1]] \/ known[t[1]] = "no"
        /\ \A t \in Tree : disk[t] # "absent" =>
              (t \in found.orphaned_run_dirs <=> ~HasTree(t))
        /\ \A t \in Tree : HasTree(t) => disk[t] = "tree" \/ t \in found.locked
=============================================================================
