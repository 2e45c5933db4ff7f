------------------------------- MODULE MCGraph -------------------------------
(***************************************************************************)
(* All graphs of three nodes: every dependency relation without a node     *)
(* that depends on itself, cyclic ones included, every choice of write     *)
(* nodes, gates and human nodes, with room for one repair.  And some that  *)
(* name a node twice, an unknown one, or themselves.                       *)
(***************************************************************************)
EXTENDS GraphWalk

Three == {"a", "b", "c"}

Kind == {"plain", "gated", "final", "human"}

Graph(declared, d, k, i) ==
    [declared |-> declared,
     depends_on |-> d,
     worker_requirement |-> [n \in DOMAIN d |-> IF k[n] = "human" THEN "human" ELSE "codex"],
     approval_after |-> [n \in DOMAIN d |-> CASE k[n] = "gated" -> "revision"
                                              [] k[n] = "final" -> "final_result"
                                              [] OTHER -> "none"],
     isolated |-> i,
     new_session |-> {},
     max_repair_rounds |-> 1]

Depends == {f \in [Three -> SUBSET Three] : \A n \in Three : n \notin f[n]}

AllGraphs ==
    {Graph(<<"a", "b", "c">>, d, k, i) : d \in Depends, k \in [Three -> Kind], i \in SUBSET Three}
    \cup {Graph(declared, [n \in {"a", "b"} |-> d], [n \in {"a", "b"} |-> "gated"], {"a"}) :
             declared \in {<<"a", "b">>, <<"a", "b", "a">>}, d \in SUBSET {"a", "d"}}
=============================================================================
