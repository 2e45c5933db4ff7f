---------------------------- MODULE MCWorkerNode ----------------------------
(***************************************************************************)
(* Answers to check the judgement of worker nodes with.                    *)
(***************************************************************************)
EXTENDS WorkerNode

\* A review that asks for changes and mislabels itself, one that does so in the
\* words of its contract, and one that does not.
Bad    == Value("object", "request_changes", "other")
Revise == Value("object", "revise", "absent")
Fine   == Value("object", "pass", "absent")

\* Prose and JSON in the mixtures seen of live workers - fenced and followed by a
\* paragraph, two objects in a row - and the ones that mislead the parser.
SomeTexts ==
    { <<Prose>>, <<Bare(Bad)>>, <<Bare(Revise)>>, <<Prose, Fenced(Bad)>>,
      <<Fenced(Fine), Prose>>, <<Bare(Bad), Bare(Fine)>>, <<Bare(Array), Bare(Bad)>>,
      <<Broken, Bare(Bad)>>, <<Bare(Bad), Fenced(Fine)>> }
=============================================================================
