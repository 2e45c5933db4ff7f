---------------------------- MODULE RunLifecycle ----------------------------
(***************************************************************************)
(* What a run promises to a client that only ever reads its stored record: *)
(* it is open, waits at a gate, or has ended; it ends as completed only by *)
(* a human's approval of a final result; repairs are counted, one at a     *)
(* time, and bounded; what has ended stays as it is.                       *)
(***************************************************************************)
EXTENDS Naturals

CONSTANTS Gate,       \* the kinds of approval
          Final,      \* the kind whose approval completes a run
          MaxRounds   \* the repair budget

VARIABLES phase, gate, rounds

vars == <<phase, gate, rounds>>

NoGate == "no gate"

Ended == {"completed", "failed", "cancelled"}

Init == phase = "open" /\ gate = NoGate /\ rounds = 0

\* The runner starts a repair round of its own accord.
StartRound ==
    /\ phase = "open" /\ rounds < MaxRounds
    /\ rounds' = rounds + 1
    /\ UNCHANGED <<phase, gate>>

\* The runner stops and asks for a decision.
Ask ==
    /\ phase = "open"
    /\ phase' = "waiting"
    /\ gate' \in Gate
    /\ UNCHANGED rounds

\* The human lets the run continue: an approval, a request for changes that
\* starts a round, or one that no longer can.
Continue ==
    /\ phase = "waiting"
    /\ phase' = "open" /\ gate' = NoGate
    /\ \/ rounds' = rounds
       \/ rounds < MaxRounds /\ rounds' = rounds + 1

\* The human approves the final result.
Complete ==
    /\ phase = "waiting" /\ gate = Final
    /\ phase' = "completed" /\ gate' = NoGate
    /\ UNCHANGED rounds

\* Nothing fails while a human is asked.
Fail ==
    /\ phase = "open"
    /\ phase' = "failed"
    /\ UNCHANGED <<gate, rounds>>

\* A rejection, or a cancel.
Stop ==
    /\ phase \in {"open", "waiting"}
    /\ phase' = "cancelled" /\ gate' = NoGate
    /\ UNCHANGED rounds

Next == StartRound \/ Ask \/ Continue \/ Complete \/ Fail \/ Stop

Spec == Init /\ [][Next]_vars
=============================================================================
