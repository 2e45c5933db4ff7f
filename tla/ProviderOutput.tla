--------------------------- MODULE ProviderOutput ---------------------------
(***************************************************************************)
(* From the lines a worker's CLI printed to what the runner makes of them:  *)
(* parse_output of the two adapters (workers/codex.py,                      *)
(* workers/claude_code.py), extract_json (workers/cli_base.py), and         *)
(* _worker_artifact, _stamp_identity and _change_request_reason             *)
(* (orchestrator/workflow/runner.py).                                       *)
(*                                                                         *)
(* An answer is a text that mixes prose with JSON.  It is modelled by its   *)
(* pieces: all that counts of one is whether it stands in a fenced block,   *)
(* whether a JSON value can be decoded where its first bracket opens, and   *)
(* what that value says.                                                   *)
(***************************************************************************)
EXTENDS Integers, Sequences, FiniteSetsExt

\* What a value says of the work: nothing; one of the verdicts the contract of a
\* review allows, "pass", "revise" and "blocked"; a verdict "fail",
\* "request_changes" or "changes", in any case; or status "blocked".
Sayings == {"nothing", "pass", "revise", "blocked", "request_changes",
            "status blocked"}

\* A decoded value: whether it is an object, what it says of the work, and whose
\* identity it claims.
Value(j, s, c) == [json |-> j, says |-> s, claim |-> c]

\* Only an object says anything of either.
Values == {v \in [json : {"none", "array", "object"}, says : Sayings,
                  claim : {"absent", "other", "request", "ours"}] :
             v.json # "object" => v.says = "nothing" /\ v.claim = "absent"}

NoValue == Value("none", "nothing", "absent")
Array   == Value("array", "nothing", "absent")

Prose         == [form |-> "prose", value |-> NoValue]
Broken        == [form |-> "bare", value |-> NoValue]  \* a bracket that opens no JSON
Bare(value)   == [form |-> "bare", value |-> value]
Fenced(value) == [form |-> "fenced", value |-> value]

Piece == {Prose} \cup {Bare(v) : v \in Values} \cup {Fenced(v) : v \in Values}

\* A line of stdout.  "other" is every line the parsers skip: not JSON, cut by
\* the death of the process, or of a type they have no use for.
Line(type, error, text, structured) ==
    [type |-> type, error |-> error, text |-> text, structured |-> structured]

Other         == Line("other", FALSE, << >>, NoValue)
Message(text) == Line("message", FALSE, text, NoValue)
Error         == Line("error", TRUE, << >>, NoValue)
Result(error, text, structured) == Line("result", error, text, structured)

Ofs(lines, type) == {i \in DOMAIN lines : lines[i].type = type}

-----------------------------------------------------------------------------
(* Adapters *)

\* extract_json: the first fenced block that decodes, else whatever the first
\* bracket of the whole text opens; that may be nothing.
extract_json(text) ==
    LET fenced == {i \in DOMAIN text : /\ text[i].form = "fenced"
                                       /\ text[i].value # NoValue}
        opens  == {i \in DOMAIN text : text[i].form # "prose"}
    IN  CASE fenced # {} -> text[Min(fenced)].value
          [] fenced = {} /\ opens # {} -> text[Min(opens)].value
          [] OTHER -> NoValue

\* CliOutcome
Outcome(error, text, structured) ==
    [reported_error |-> error, result_text |-> text, structured_result |-> structured]

\* Faulty variant: the first message is taken for the answer.
parse_codex_first(lines) ==
    LET messages == Ofs(lines, "message")
    IN  IF messages = {} \/ Ofs(lines, "error") # {}
        THEN Outcome(TRUE, << >>, NoValue)
        ELSE LET text == lines[Min(messages)].text
             IN  Outcome(FALSE, text, extract_json(text))

\* CodexAdapter.parse_output: the last message is the answer, any error event
\* an error, and so is an output with neither.
parse_codex(lines) ==
    LET messages == Ofs(lines, "message")
        text     == IF messages = {} THEN << >> ELSE lines[Max(messages)].text
        errors   == Ofs(lines, "error")
    IN  IF errors # {} \/ messages = {}
        THEN Outcome(TRUE, text, NoValue)
        ELSE Outcome(FALSE, text, extract_json(text))

\* Faulty variant: keyed on the result's subtype, which always reads "success".
parse_claude_subtype(lines) ==
    LET results == Ofs(lines, "result")
    IN  IF results = {} THEN Outcome(TRUE, << >>, NoValue)
        ELSE LET last == lines[Max(results)]
             IN  Outcome(FALSE, last.text, last.structured)

\* ClaudeCodeAdapter.parse_output: the last result event says everything.
parse_claude(lines) ==
    LET results == Ofs(lines, "result")
    IN  IF results = {} THEN Outcome(TRUE, << >>, NoValue)
        ELSE LET last == lines[Max(results)]
             IN  Outcome(last.error, last.text, last.structured)

parse_output(provider, lines) ==
    IF provider = "codex" THEN parse_codex(lines) ELSE parse_claude(lines)

\* collect: a process that was killed is not believed.
collected(result, outcome) ==
    [outcome EXCEPT !.reported_error = @ \/ result.killed]

-----------------------------------------------------------------------------
(* The runner *)

\* _stamp_identity: of an object, the identity fields the contract declares, or
\* the worker filled in, are overwritten with the truth.
stamp_identity(value, declared) ==
    IF value.json = "object" /\ (declared \/ value.claim # "absent")
    THEN [value EXCEPT !.claim = "ours"]
    ELSE value

\* The adapter's own outcome file.  Its run_id is that of the WorkerRequest.
Envelope == Value("object", "nothing", "request")

\* _worker_artifact
worker_artifact(outcome, declared) ==
    IF outcome.structured_result # NoValue
    THEN stamp_identity(outcome.structured_result, declared)
    ELSE IF extract_json(outcome.result_text) # NoValue
    THEN stamp_identity(extract_json(outcome.result_text), declared)
    ELSE Envelope

\* _change_request_reason.  Its words are not those of the contract.
Heard == {"request_changes", "status blocked"}

change_request(artifact) == artifact.json = "object" /\ artifact.says \in Heard

-----------------------------------------------------------------------------
(* What the output says, for a reader of it *)

\* The CLI's own last word is that it succeeded.
Vouched(provider, lines) ==
    IF provider = "codex"
    THEN /\ \E i \in DOMAIN lines : lines[i].type = "message"
         /\ \A i \in DOMAIN lines : lines[i].type # "error"
    ELSE \E i \in DOMAIN lines :
            /\ lines[i].type = "result" /\ ~lines[i].error
            /\ \A j \in (i + 1)..Len(lines) : lines[j].type # "result"

\* The line that holds the answer: the last one of the answer's type.
Answer(provider, lines) ==
    LET type == IF provider = "codex" THEN "message" ELSE "result"
    IN  lines[CHOOSE i \in DOMAIN lines :
                /\ lines[i].type = type
                /\ \A j \in (i + 1)..Len(lines) : lines[j].type # type]

\* The first complete value of a text, in reading order.
First(text) ==
    IF \E i \in DOMAIN text : text[i].value # NoValue
    THEN text[CHOOSE i \in DOMAIN text :
                /\ text[i].value # NoValue
                /\ \A j \in 1..(i - 1) : text[j].value = NoValue].value
    ELSE NoValue

\* The answer's own value: the structured result, else the first of its text.
Stated(answer) ==
    IF answer.structured # NoValue THEN answer.structured ELSE First(answer.text)

\* The value speaks against the work, in whichever words.
Asks(value) == value.says \in Sayings \ {"nothing", "pass"}

\* Nothing in the text misleads extract_json: no broken bracket, and no value
\* outside the fences where there are fences.
Plain(text) ==
    /\ \A i \in DOMAIN text : text[i] # Broken
    /\ \A i, j \in DOMAIN text :
          text[i].form = "fenced" => text[j].form # "bare"

\* There is no doubt which value the answer gives.
Clear(answer) == answer.structured # NoValue \/ Plain(answer.text)
=============================================================================
