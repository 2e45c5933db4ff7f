---------------------------- MODULE Verification ----------------------------
(***************************************************************************)
(* How the exit codes of the verification commands become the judgement of *)
(* a verification node: VerificationRunner.run (execution/verifier.py), and *)
(* _run_verification, _verification_baseline and _regressions               *)
(* (orchestrator/workflow/runner.py), over the rounds of one run.           *)
(*                                                                         *)
(* WorkflowRunner leaves this judgement open (its Judgement); this module   *)
(* says what it depends on.                                                *)
(***************************************************************************)
EXTENDS Integers, Sequences, FiniteSetsExt

CONSTANTS N,          \* bound on the configured verification commands
          MaxRounds   \* bound on the verification rounds of a run

ASSUME NAssumption == N \in Nat
ASSUME MaxRoundsAssumption == MaxRounds \in Nat

VARIABLES base,       \* what each command would do on the base revision, the
                      \* one the run's worktree was created from
          head,       \* what each would do on the revision HEAD now names
          now,        \* what each would do in the workspace, this round
          baseline,   \* record.verification_baseline, <<>> for None
          verified,   \* the artifact's "verified", FALSE before the first round
          rounds

verificationVars == <<base, head, now, baseline, verified, rounds>>

\* The configured commands; there may be none.
Command == DOMAIN base

\* A ProcessResult, as far as it counts here.  A command stopped at its
\* deadline may still exit 0.
Process == [exit_code : {0, 1}, timed_out : BOOLEAN]

Suites(n) == [1..n -> Process]

Suite == Suites(Len(base))

Failed(p) == p.exit_code # 0 \/ p.timed_out

\* VerificationRunner.run: the results up to and including the first failure.
command_results(suite) ==
  LET failing == {i \in Command : Failed(suite[i])}
  IN  SubSeq(suite, 1, IF failing = {} THEN Len(suite) ELSE Min(failing))

passed(results) == \A i \in DOMAIN results : ~Failed(results[i])

\* Faulty variant: the missing entries of a baseline read as passing.
padded_with_success(results) ==
  [i \in Command |-> IF i <= Len(results) THEN results[i].exit_code ELSE 0]

\* The exit codes of the baseline run, its last one standing for the commands
\* it did not reach.
padded(results) ==
  [i \in Command |-> results[Min({i, Len(results)})].exit_code]

\* Faulty variant: the next command's baseline is looked up.
regressions_off_by_one(results, codes) ==
  {i \in DOMAIN results :
     Failed(results[i]) /\ ~(i + 1 \in DOMAIN codes /\ codes[i + 1] # 0)}

\* _regressions: what fails now and did not fail on the base revision.
regressions(results, codes) ==
  {i \in DOMAIN results :
     Failed(results[i]) /\ ~(i \in DOMAIN codes /\ codes[i] # 0)}

Init ==
  /\ \E n \in 0..N : base \in Suites(n)
  /\ head = base
  /\ now = base             \* the workspace starts as the base revision
  /\ baseline = << >>
  /\ verified = FALSE
  /\ rounds = 0

\* Somebody commits, or checks something out, in the primary checkout.
MoveHead(suite) ==
  /\ head' = suite
  /\ UNCHANGED <<base, now, baseline, verified, rounds>>

\* One verification of workspace `suite`.  The worktree of the baseline is
\* created, like the run's, from base_ref: that is, from HEAD.
Verify(suite) ==
  LET results == command_results(suite)
      taken   == padded(command_results(head))
  IN  /\ rounds < MaxRounds
      /\ rounds' = rounds + 1
      /\ now' = suite
      /\ \/ /\ Command = {}                                     \* skipped
            /\ verified' = FALSE
            /\ UNCHANGED baseline
         \/ /\ Command # {} /\ passed(results)
            /\ verified' = TRUE
            /\ UNCHANGED baseline
         \/ /\ ~passed(results) /\ baseline # << >>              \* reused
            /\ verified' = (regressions(results, baseline) = {})
            /\ UNCHANGED baseline
         \/ /\ ~passed(results) /\ baseline = << >>              \* taken now
            /\ baseline' = taken
            /\ verified' = (regressions(results, taken) = {})
         \/ /\ ~passed(results) /\ baseline = << >>              \* unavailable
            /\ verified' = FALSE
            /\ UNCHANGED baseline
      /\ UNCHANGED <<base, head>>

Next == \E suite \in Suite : Verify(suite) \/ MoveHead(suite)

Spec == Init /\ [][Next]_verificationVars

-----------------------------------------------------------------------------

\* The commands of the suite that a run of it reaches without a failure.
Clean(suite) == {i \in Command : \A j \in 1..i : ~Failed(suite[j])}

\* The baseline, if there is one, is of the run's base revision: HEAD had not
\* moved elsewhere when it was taken.
OfBase == baseline \in {<< >>, padded(command_results(base))}

\* What is verified has been shown to pass.  No verification is passed by a
\* workspace that breaks a command the base revision is seen passing, whatever
\* fails later on that revision, and whether the baseline was taken in this round
\* or reused (_regressions, and the padding of _verification_baseline); without a
\* baseline every command passes, and with no commands nothing is verified ("A run
\* with nothing to verify has proven nothing", _run_verification).  Two things are
\* excepted: a baseline taken after HEAD had moved, and the commands behind the
\* first one that fails, which are not run.
SeenPassingStaysPassing ==
  verified => /\ Command # {}
              /\ baseline = << >> => Clean(now) = Command
              /\ OfBase => Clean(base) \subseteq Clean(now)

\* A suite that was red before the run does not fail it: with a baseline, a
\* round that fails nothing but what the base revision fails too is verified
\* (_run_verification: "does not fail the run").  Baselines in which a command
\* hit its deadline and yet exited 0 are excepted: they read as passing.
OldFailuresTolerated ==
  ( /\ rounds > 0 /\ baseline # << >> /\ OfBase
    /\ \A i \in Command : base[i].timed_out => base[i].exit_code # 0
    /\ \A i \in Command : Failed(now[i]) => Failed(base[i]) )
  => verified

=============================================================================
