-------------------------------- MODULE MCRun --------------------------------
(***************************************************************************)
(* Workflows to check runs of.                                             *)
(***************************************************************************)
EXTENDS RunProperties

\* workflows/analyze-implement-review.yaml
Shipped ==
    [declared |-> <<"analyze", "implement", "verify", "review", "final_approval">>,
     depends_on |-> [analyze |-> {}, implement |-> {"analyze"},
                     verify |-> {"implement"}, review |-> {"implement", "verify"},
                     final_approval |-> {"review"}],
     worker_requirement |-> [analyze |-> "claude_code", implement |-> "codex",
                             verify |-> "local_tool_runner",
                             review |-> "claude_code", final_approval |-> "human"],
     approval_after |-> [analyze |-> "plan", implement |-> "none",
                         verify |-> "none", review |-> "none",
                         final_approval |-> "none"],
     isolated |-> {"implement"},
     new_session |-> {"review"},
     max_repair_rounds |-> 2]

\* A graph the validator accepts - a gate follows its write node - without a
\* human node: its last gate asks for the final result.  A repair replays both
\* gates.
Gated ==
    [declared |-> <<"publish", "draft", "check">>,
     depends_on |-> [draft |-> {}, check |-> {"draft"}, publish |-> {"check"}],
     worker_requirement |-> [draft |-> "codex", check |-> "local_tool_runner",
                             publish |-> "claude_code"],
     approval_after |-> [draft |-> "revision", check |-> "none",
                         publish |-> "final_result"],
     isolated |-> {"draft"},
     new_session |-> {"publish"},
     max_repair_rounds |-> 1]

\* Both have the form that what is said of completion and of conversations needs.
ASSUME GraphForm == EndsAtFinal /\ SeparateSessions
=============================================================================
