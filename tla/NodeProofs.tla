----------------------------- MODULE NodeProofs -----------------------------
(***************************************************************************)
(* Proofs about the worker nodes of a run, for any answers, logs of any     *)
(* length and any number of nodes and crashes.  First what the parsers make *)
(* of an output, then the invariant of the barrier, the log and the         *)
(* judgement.                                                              *)
(***************************************************************************)
EXTENDS WorkerNode, DefinitionProofs, TLAPS

-----------------------------------------------------------------------------
(* Answers *)

\* The positions Min and Max are asked for lie in the sequence.
LEMMA Positions ==
    ASSUME NEW S, NEW s \in Seq(S), NEW P \in SUBSET DOMAIN s, P # {}
    PROVE  /\ Min(P) \in P /\ \A i \in P : Min(P) <= i
           /\ Max(P) \in P /\ \A i \in P : i <= Max(P)
  <1>1. Len(s) \in Nat /\ P \in SUBSET Nat /\ P \in SUBSET (0..Len(s))
    OBVIOUS
  <1> QED
    BY <1>1, MinOfNats, MaxOfNats

\* A value that is none.
LEMMA NoValueTyped == NoValue \in Values /\ NoValue.says = "nothing"
  <1>1. /\ NoValue.json = "none" /\ NoValue.says = "nothing" /\ NoValue.claim = "absent"
        /\ NoValue \in [json : {"none", "array", "object"}, says : Sayings,
                        claim : {"absent", "other", "request", "ours"}]
    BY DEF NoValue, Value, Sayings
  <1> QED
    BY <1>1 DEF Values

\* The pieces of a text: only prose has no bracket, and prose has no value.
LEMMA Pieces ==
    ASSUME NEW p \in Piece
    PROVE  /\ p.form \in {"prose", "bare", "fenced"}
           /\ p.value \in Values
           /\ p.form = "prose" => p.value = NoValue
           /\ p.form = "bare" /\ p.value = NoValue => p = Broken
  <1>1. NoValue \in Values
    BY NoValueTyped
  <1> QED
    BY <1>1 DEF Piece, Prose, Bare, Fenced, Broken

\* extract_json returns a value of the text, or none.
LEMMA ExtractFromText ==
    ASSUME NEW text \in Seq(Piece)
    PROVE  /\ extract_json(text) \in Values
           /\ extract_json(text) # NoValue =>
                 \E i \in DOMAIN text : extract_json(text) = text[i].value
  <1> DEFINE fenced == {i \in DOMAIN text : /\ text[i].form = "fenced"
                                            /\ text[i].value # NoValue}
             opens  == {i \in DOMAIN text : text[i].form # "prose"}
  <1>1. NoValue \in Values
    BY NoValueTyped
  <1>2. \A i \in DOMAIN text : text[i].value \in Values
    BY Pieces
  <1>3. CASE fenced # {}
    <2>1. extract_json(text) = text[Min(fenced)].value
      BY <1>3, Zenon DEF extract_json
    <2>2. Min(fenced) \in DOMAIN text
      BY <1>3, Positions
    <2> QED
      BY <1>2, <2>1, <2>2
  <1>4. CASE fenced = {} /\ opens # {}
    <2>1. extract_json(text) = text[Min(opens)].value
      BY <1>4, Zenon DEF extract_json
    <2>2. Min(opens) \in DOMAIN text
      BY <1>4, Positions
    <2> QED
      BY <1>2, <2>1, <2>2
  <1>5. CASE fenced = {} /\ opens = {}
    <2>1. extract_json(text) = NoValue
      BY <1>5, Zenon DEF extract_json
    <2> QED
      BY <1>1, <2>1
  <1> QED
    BY <1>3, <1>4, <1>5

\* The first value of a text is at the first position that has one.
LEMMA FirstAt ==
    ASSUME NEW text \in Seq(Piece), NEW k \in DOMAIN text,
           text[k].value # NoValue,
           \A j \in DOMAIN text : text[j].value # NoValue => k <= j
    PROVE  First(text) = text[k].value
  <1> DEFINE P(i) == /\ text[i].value # NoValue
                     /\ \A j \in 1..(i - 1) : text[j].value = NoValue
  <1>1. P(k)
    OBVIOUS
  <1>2. ASSUME NEW i \in DOMAIN text, P(i) PROVE i = k
    <2>1. k <= i
      BY <1>2
    <2>2. ~(k < i)
      BY <1>2
    <2> QED
      BY <2>1, <2>2
  <1> HIDE DEF P
  <1>3. (CHOOSE i \in DOMAIN text : P(i)) = k
    BY <1>1, <1>2
  <1> QED
    BY <1>3 DEF First, P

\* Where nothing misleads it, extract_json finds what a reader of the text finds.
LEMMA ExtractFindsFirst ==
    ASSUME NEW text \in Seq(Piece), Plain(text)
    PROVE  extract_json(text) = First(text)
  <1> DEFINE fenced == {i \in DOMAIN text : /\ text[i].form = "fenced"
                                            /\ text[i].value # NoValue}
             opens  == {i \in DOMAIN text : text[i].form # "prose"}
  <1>1. \A i \in DOMAIN text : text[i].value # NoValue => i \in opens
    BY Pieces
  <1>2. CASE fenced # {}
    <2>1. extract_json(text) = text[Min(fenced)].value
      BY <1>2, Zenon DEF extract_json
    <2>2. Min(fenced) \in fenced /\ \A i \in fenced : Min(fenced) <= i
      BY <1>2, Positions
    <2>3. \A i \in DOMAIN text : text[i].value # NoValue => i \in fenced
      BY <1>2, Pieces DEF Plain
    <2> HIDE DEF opens
    <2> QED
      BY <2>1, <2>2, <2>3, FirstAt
  <1>3. CASE fenced = {} /\ opens # {}
    <2>1. extract_json(text) = text[Min(opens)].value
      BY <1>3, Zenon DEF extract_json
    <2>2. Min(opens) \in opens /\ \A i \in opens : Min(opens) <= i
      BY <1>3, Positions
    <2>3. CASE text[Min(opens)].value # NoValue
      <3>1. \A j \in DOMAIN text : text[j].value # NoValue => Min(opens) <= j
        BY <1>1, <2>2
      <3> HIDE DEF fenced
      <3>2. Min(opens) \in DOMAIN text
        BY <2>2
      <3> HIDE DEF opens
      <3> QED
        BY <2>1, <2>3, <3>1, <3>2, FirstAt
    <2>4. CASE text[Min(opens)].value = NoValue
      <3>1. text[Min(opens)].form = "fenced"
        BY <2>2, <2>4, Pieces DEF Plain
      <3>2. \A j \in DOMAIN text : text[j].value = NoValue
        BY <1>3, <2>2, <3>1, Pieces DEF Plain
      <3>3. First(text) = NoValue
        BY <3>2 DEF First
      <3> QED
        BY <2>1, <2>4, <3>3
    <2> QED
      BY <2>3, <2>4
  <1>4. CASE fenced = {} /\ opens = {}
    <2>1. extract_json(text) = NoValue
      BY <1>4, Zenon DEF extract_json
    <2>2. First(text) = NoValue
      BY <1>1, <1>4 DEF First
    <2> QED
      BY <2>1, <2>2
  <1> QED
    BY <1>2, <1>3, <1>4

\* What a line of either CLI carries.
LEMMA LineFacts ==
    ASSUME NEW provider, NEW l \in Lines(provider)
    PROVE  /\ l.error \in BOOLEAN
           /\ l.text \in Seq(Piece)
           /\ l.structured \in Values
           /\ provider = "codex" => l.structured = NoValue
  <1>1. << >> \in Seq(Piece) /\ NoValue \in Values
    BY NoValueTyped
  <1>2. ASSUME NEW a \in Sayings PROVE Value("object", a, "other") \in Values
    <2> DEFINE v == Value("object", a, "other")
    <2>1. /\ v.json = "object"
          /\ v \in [json : {"none", "array", "object"}, says : Sayings,
                    claim : {"absent", "other", "request", "ours"}]
      BY DEF Value
    <2> HIDE DEF v
    <2>2. v \in Values
      BY <2>1 DEF Values
    <2> QED
      BY <2>2 DEF v
  <1> DEFINE Made(error, text, structured) ==
                 /\ l.error = error /\ l.text = text /\ l.structured = structured
  <1>3. CASE provider = "codex"
    <2>1. l \in {Other, Error} \cup {Message(text) : text \in Texts}
      BY <1>3, Zenon DEF Lines
    <2>2. CASE l \in {Other, Error}
      <3>1. Made(FALSE, << >>, NoValue) \/ Made(TRUE, << >>, NoValue)
        BY <2>2 DEF Other, Error, Line
      <3> QED
        BY <1>1, <3>1
    <2>3. CASE l \in {Message(text) : text \in Texts}
      <3>1. PICK text \in Texts : l = Message(text)
        BY <2>3
      <3>2. Made(FALSE, text, NoValue)
        BY <3>1 DEF Message, Line
      <3> QED
        BY <1>1, <3>2, TextsAssumption
    <2> QED
      BY <2>1, <2>2, <2>3
  <1>4. CASE provider # "codex"
    <2>1. l \in {Other, Result(TRUE, << >>, NoValue)}
                \cup {Result(FALSE, text, NoValue) : text \in Texts}
                \cup {Result(FALSE, << >>, Value("object", a, "other")) : a \in Sayings}
      BY <1>4, Zenon DEF Lines
    <2>2. CASE l \in {Other, Result(TRUE, << >>, NoValue)}
      <3>1. Made(FALSE, << >>, NoValue) \/ Made(TRUE, << >>, NoValue)
        BY <2>2 DEF Other, Result, Line
      <3> QED
        BY <1>1, <1>4, <3>1
    <2>3. CASE l \in {Result(FALSE, text, NoValue) : text \in Texts}
      <3>1. PICK text \in Texts : l = Result(FALSE, text, NoValue)
        BY <2>3
      <3>2. Made(FALSE, text, NoValue)
        BY <3>1 DEF Result, Line
      <3> QED
        BY <1>1, <1>4, <3>2, TextsAssumption
    <2>4. CASE l \in {Result(FALSE, << >>, Value("object", a, "other")) : a \in Sayings}
      <3>1. PICK a \in Sayings : l = Result(FALSE, << >>, Value("object", a, "other"))
        BY <2>4
      <3>2. Made(FALSE, << >>, Value("object", a, "other"))
        BY <3>1 DEF Result, Line
      <3> QED
        BY <1>1, <1>2, <1>4, <3>2
    <2> QED
      BY <2>1, <2>2, <2>3, <2>4
  <1> QED
    BY <1>3, <1>4

\* The last line of a type is the one Max finds, and the one a reader takes.
LEMMA LastOfType ==
    ASSUME NEW S, NEW lines \in Seq(S), NEW type, Ofs(lines, type) # {}
    PROVE  /\ Max(Ofs(lines, type)) \in DOMAIN lines
           /\ lines[Max(Ofs(lines, type))].type = type
           /\ \A j \in (Max(Ofs(lines, type)) + 1)..Len(lines) : lines[j].type # type
           /\ Max(Ofs(lines, type)) =
                 CHOOSE i \in DOMAIN lines :
                    /\ lines[i].type = type
                    /\ \A j \in (i + 1)..Len(lines) : lines[j].type # type
  <1> DEFINE k == Max(Ofs(lines, type))
             P(i) == /\ lines[i].type = type
                     /\ \A j \in (i + 1)..Len(lines) : lines[j].type # type
  <1>1. k \in Ofs(lines, type) /\ \A i \in Ofs(lines, type) : i <= k
    BY Positions DEF Ofs
  <1> HIDE DEF k
  <1>2. k \in DOMAIN lines /\ P(k)
    BY <1>1 DEF Ofs
  <1>3. ASSUME NEW i \in DOMAIN lines, P(i) PROVE i = k
    <2>1. i <= k
      BY <1>1, <1>3 DEF Ofs
    <2>2. ~(i < k)
      BY <1>2, <1>3
    <2> QED
      BY <1>2, <2>1, <2>2
  <1>4. (CHOOSE i \in DOMAIN lines : P(i)) = k
    <2> HIDE DEF P
    <2> QED
      BY <1>2, <1>3
  <1> QED
    BY <1>2, <1>4 DEF k

\* A reader takes the last line of the answer's type.
LEMMA AnswerIsLast ==
    ASSUME NEW S, NEW lines \in Seq(S), NEW provider, NEW type,
           type = (IF provider = "codex" THEN "message" ELSE "result"),
           Ofs(lines, type) # {}
    PROVE  Answer(provider, lines) = lines[Max(Ofs(lines, type))]
  <1>1. Max(Ofs(lines, type)) =
           CHOOSE i \in DOMAIN lines :
              /\ lines[i].type = type
              /\ \A j \in (i + 1)..Len(lines) : lines[j].type # type
    BY LastOfType
  <1> QED
    BY <1>1, Zenon DEF Answer

\* An outcome without an error is of an output that vouches for it, and it is the
\* answer's: its text, and its structured result or what extract_json finds.
LEMMA ParsedIsAnswer ==
    ASSUME NEW provider \in {"codex", "claude_code"},
           NEW lines \in Seq(Lines(provider)),
           ~parse_output(provider, lines).reported_error
    PROVE  /\ Vouched(provider, lines)
           /\ Answer(provider, lines) \in Lines(provider)
           /\ parse_output(provider, lines).result_text = Answer(provider, lines).text
           /\ parse_output(provider, lines).structured_result =
                 IF provider = "codex" THEN extract_json(Answer(provider, lines).text)
                 ELSE Answer(provider, lines).structured
  <1> DEFINE out == parse_output(provider, lines)
             ans == Answer(provider, lines)
  <1>1. CASE provider = "codex"
    <2> DEFINE messages == Ofs(lines, "message")
               text == IF messages = {} THEN << >> ELSE lines[Max(messages)].text
    <2>1. out = IF Ofs(lines, "error") # {} \/ messages = {}
                THEN Outcome(TRUE, text, NoValue)
                ELSE Outcome(FALSE, text, extract_json(text))
      BY <1>1, Zenon DEF parse_output, parse_codex
    <2>2. messages # {} /\ Ofs(lines, "error") = {}
      BY <2>1 DEF Outcome
    <2>3. /\ Max(messages) \in DOMAIN lines
          /\ ans = lines[Max(messages)]
      <3> HIDE DEF out
      <3>1. Max(messages) \in DOMAIN lines
        BY <2>2, LastOfType
      <3>2. ans = lines[Max(messages)]
        BY <1>1, <2>2, AnswerIsLast
      <3> QED
        BY <3>1, <3>2
    <2>4. Vouched(provider, lines)
      BY <1>1, <2>2 DEF Vouched, Ofs
    <2>5. out = Outcome(FALSE, ans.text, extract_json(ans.text))
      BY <2>1, <2>2, <2>3
    <2> QED
      BY <1>1, <2>3, <2>4, <2>5 DEF Outcome
  <1>2. CASE provider = "claude_code"
    <2> DEFINE results == Ofs(lines, "result")
    <2>1. out = IF results = {} THEN Outcome(TRUE, << >>, NoValue)
                ELSE Outcome(lines[Max(results)].error, lines[Max(results)].text,
                             lines[Max(results)].structured)
      BY <1>2, Zenon DEF parse_output, parse_claude
    <2>2. results # {}
      BY <2>1 DEF Outcome
    <2>3. /\ Max(results) \in DOMAIN lines
          /\ lines[Max(results)].type = "result"
          /\ \A j \in (Max(results) + 1)..Len(lines) : lines[j].type # "result"
      BY <2>2, LastOfType
    <2>4. ans = lines[Max(results)]
      BY <1>2, <2>2, AnswerIsLast
    <2>5. out = Outcome(ans.error, ans.text, ans.structured)
      BY <2>1, <2>2, <2>4
    <2>6. ~ans.error
      BY <2>5 DEF Outcome
    <2>7. Vouched(provider, lines)
      BY <1>2, <2>3, <2>4, <2>6 DEF Vouched
    <2> QED
      BY <1>2, <2>3, <2>4, <2>5, <2>7 DEF Outcome
  <1> QED
    BY <1>1, <1>2

\* What is published says neither that another made it nor, where the contract
\* declares identity, nothing; and it is heard to ask for changes exactly if the
\* value it was made of has the runner's words for it.
LEMMA ArtifactFacts ==
    ASSUME NEW out, out.structured_result \in Values, out.result_text \in Seq(Piece),
           NEW declared \in BOOLEAN
    PROVE  LET made == worker_artifact(out, declared)
           IN  /\ made \in Values
               /\ made.claim # "other"
               /\ declared /\ made.json = "object" => made.claim \in {"ours", "request"}
               /\ change_request(made) <=>
                     (IF out.structured_result # NoValue THEN out.structured_result
                      ELSE extract_json(out.result_text)).says \in Heard
  <1>1. ASSUME NEW v \in Values
        PROVE  /\ stamp_identity(v, declared) \in Values
               /\ stamp_identity(v, declared).claim # "other"
               /\ declared /\ stamp_identity(v, declared).json = "object" =>
                     stamp_identity(v, declared).claim = "ours"
               /\ change_request(stamp_identity(v, declared)) <=> v.says \in Heard
    <2> DEFINE t == stamp_identity(v, declared)
    <2>1. /\ v \in [json : {"none", "array", "object"}, says : Sayings,
                    claim : {"absent", "other", "request", "ours"}]
          /\ v.json # "object" => v.says = "nothing" /\ v.claim = "absent"
      BY DEF Values
    <2>2. CASE v.json = "object" /\ (declared \/ v.claim # "absent")
      <3>1. t = [v EXCEPT !.claim = "ours"]
        BY <2>2, Zenon DEF stamp_identity
      <3> QED
        BY <2>1, <2>2, <3>1 DEF Values, change_request, Heard
    <2>3. CASE ~(v.json = "object" /\ (declared \/ v.claim # "absent"))
      <3>1. t = v
        BY <2>3, Zenon DEF stamp_identity
      <3> QED
        BY <2>1, <2>3, <3>1 DEF change_request, Heard
    <2> QED
      BY <2>2, <2>3
  <1>2. extract_json(out.result_text) \in Values
    BY ExtractFromText
  <1>3. CASE out.structured_result # NoValue
    <2>1. worker_artifact(out, declared) = stamp_identity(out.structured_result, declared)
      BY <1>3, Zenon DEF worker_artifact
    <2> QED
      BY <1>1, <1>3, <2>1
  <1>4. CASE out.structured_result = NoValue /\ extract_json(out.result_text) # NoValue
    <2>1. worker_artifact(out, declared) = stamp_identity(extract_json(out.result_text), declared)
      BY <1>4, Zenon DEF worker_artifact
    <2> QED
      BY <1>1, <1>2, <1>4, <2>1
  <1>5. CASE out.structured_result = NoValue /\ extract_json(out.result_text) = NoValue
    <2>1. worker_artifact(out, declared) = Envelope
      BY <1>5, Zenon DEF worker_artifact
    <2>2. /\ Envelope.json = "object" /\ Envelope.says = "nothing" /\ Envelope.claim = "request"
          /\ Envelope \in [json : {"none", "array", "object"}, says : Sayings,
                           claim : {"absent", "other", "request", "ours"}]
      BY DEF Envelope, Value, Sayings
    <2>3. Envelope \in Values
      BY <2>2 DEF Values
    <2>4. NoValue.says = "nothing"
      BY NoValueTyped
    <2> QED
      BY <1>5, <2>1, <2>2, <2>3, <2>4 DEF change_request, Heard
  <1> QED
    BY <1>3, <1>4, <1>5
-----------------------------------------------------------------------------
(* The invariant *)

\* While a node is between arming and disarming the directory is closed, and what
\* disarming will restore is known: on POSIX it stays closed for good once the
\* barrier was left up, and for as long as what a dead server left runs.
BarrierInv ==
    /\ pc # "idle" => mode = "denied"
    /\ pc # "idle" => saved = "open" \/ (platform = "posix" /\ left)
    /\ pc = "idle" /\ platform = "posix" => mode = "open" \/ left
    /\ "crash" \in orphans /\ platform = "posix" =>
          mode = "denied" /\ (pc # "idle" => saved = "denied")

\* A stream only ends once its process has, and behind all that was then there.
StreamInv ==
    /\ stream.state = "ended" => stream.position >= at_exit /\ pc \in {"settled", "idle"}
    /\ pc = "armed" => stream.state = "off"

\* Nothing is accepted before it is judged, and what was judged stands as it is
\* until the next node.
JudgedInv ==
    /\ pc # "idle" => outcome.state # "accepted"
    /\ AcceptedIsVouched
    /\ VerdictHeard

NodeInv == TypeOK /\ BarrierInv /\ StreamInv /\ JudgedInv

\* The outcomes of nodes that produced nothing.
LEMMA BlankOutcomes ==
    /\ NoOutcome \in [state : {"none", "failed", "accepted"}, artifact : Values,
                      change_request : BOOLEAN]
    /\ Failed \in [state : {"none", "failed", "accepted"}, artifact : Values,
                   change_request : BOOLEAN]
    /\ NoOutcome.state = "none" /\ Failed.state = "failed"
  <1>1. NoValue \in Values
    BY NoValueTyped
  <1>2. /\ NoOutcome \in [state : {"none", "failed", "accepted"}, artifact : Values,
                          change_request : BOOLEAN]
        /\ NoOutcome.state = "none"
    BY <1>1 DEF NoOutcome
  <1> QED
    BY <1>2 DEF Failed

\* Everything starts open, with nothing judged.
LEMMA InitNodeInv == Init => NodeInv
  <1> SUFFICES ASSUME Init PROVE NodeInv
    OBVIOUS
  <1>1. MaxLines \in Nat /\ MaxNodes \in Nat /\ MaxCrashes \in Nat
    BY BoundsAssumption
  <1>2. TypeOK
    <2>1. /\ adapter \in Adapters
          /\ result \in [exit_code : {0, 1}, killed : BOOLEAN, contained : BOOLEAN]
      BY DEF Init, Adapters, NoResult
    <2>2. outcome \in [state : {"none", "failed", "accepted"}, artifact : Values,
                       change_request : BOOLEAN]
      BY BlankOutcomes DEF Init
    <2>3. /\ log \in 0..MaxLines /\ at_exit \in 0..log
          /\ stream \in [state : {"off", "on", "ended"}, position : 0..log]
          /\ said \in Seq(Lines(adapter.provider)) /\ Len(said) <= log
          /\ nodes \in 0..MaxNodes /\ crashes \in 0..MaxCrashes
      BY <1>1 DEF Init, NoStream
    <2>4. left \in BOOLEAN /\ worker \in BOOLEAN /\ survivor \in BOOLEAN /\ (worker <=> pc = "running")
      BY DEF Init
    <2> QED
      BY <2>1, <2>2, <2>3, <2>4 DEF Init, TypeOK
  <1> QED
    BY <1>2 DEF Init, NodeInv, BarrierInv, StreamInv, JudgedInv, AcceptedIsVouched,
       VerdictHeard, NoStream, NoOutcome
\* A step that judges nothing leaves nothing accepted, or what was judged alone.
LEMMA NotJudging ==
    ASSUME JudgedInv,
           \/ outcome'.state # "accepted"
           \/ /\ UNCHANGED <<outcome, adapter, said>>
              /\ pc' # "idle" => pc # "idle"
              /\ pc = "idle" => UNCHANGED result
    PROVE  JudgedInv'
  <1>1. CASE outcome'.state # "accepted"
    BY <1>1 DEF JudgedInv, AcceptedIsVouched, VerdictHeard
  <1>2. CASE outcome'.state = "accepted"
    <2>1. UNCHANGED <<outcome, adapter, said, result>> /\ pc' = "idle"
      BY <1>2 DEF JudgedInv
    <2> QED
      BY <2>1 DEF JudgedInv, AcceptedIsVouched, VerdictHeard
  <1> QED
    BY <1>1, <1>2

\* arm, for the next node or in vain.
LEMMA ArmStep ==
    ASSUME NodeInv, ArmRaises \/ ArmUnrecorded \/ \E a \in Adapters : Arm(a)
    PROVE  NodeInv'
  <1> USE DEF NodeInv
  <1>1. MaxLines \in Nat /\ MaxNodes \in Nat /\ MaxCrashes \in Nat
    BY BoundsAssumption
  <1>2. ASSUME NEW a \in Adapters, Arm(a) PROVE NodeInv'
    <2>1. TypeOK'
      <3>1. /\ result' \in [exit_code : {0, 1}, killed : BOOLEAN, contained : BOOLEAN]
            /\ outcome' \in [state : {"none", "failed", "accepted"}, artifact : Values,
                             change_request : BOOLEAN]
        BY <1>2, BlankOutcomes DEF Arm, NoResult
      <3>2. /\ log' \in 0..MaxLines /\ at_exit' \in 0..log'
            /\ stream' \in [state : {"off", "on", "ended"}, position : 0..log']
            /\ said' \in Seq(Lines(adapter'.provider)) /\ Len(said') <= log'
            /\ nodes' \in 0..MaxNodes
        BY <1>1, <1>2 DEF Arm, NoStream, TypeOK
      <3>3. saved' \in {"open", "denied"} /\ survivor' \in BOOLEAN
        BY <1>2 DEF Arm, restored, TypeOK
      <3> QED
        BY <1>2, <3>1, <3>2, <3>3 DEF Arm, TypeOK
    <2>2. BarrierInv'
      BY <1>2 DEF Arm, restored, TypeOK, BarrierInv
    <2>3. StreamInv'
      BY <1>2 DEF Arm, NoStream, StreamInv
    <2>4. JudgedInv'
      BY <1>2, BlankOutcomes, NotJudging DEF Arm
    <2> QED
      BY <2>1, <2>2, <2>3, <2>4
  <1>3. CASE ArmRaises \/ ArmUnrecorded
    <2>1. TypeOK'
      <3>1. outcome' \in [state : {"none", "failed", "accepted"}, artifact : Values,
                          change_request : BOOLEAN]
        BY <1>3, BlankOutcomes DEF ArmRaises, ArmUnrecorded
      <3>2. /\ said' = << >> /\ nodes < MaxNodes /\ nodes' = nodes + 1
            /\ mode' \in {"open", "denied"} /\ left' \in BOOLEAN
            /\ UNCHANGED <<saved, pc, worker, platform, adapter, result, crashes,
                           strays, outputVars>>
        BY <1>3 DEF ArmRaises, ArmUnrecorded, restored, TypeOK
      <3>3. Len(said') <= log' /\ nodes' \in 0..MaxNodes
        BY <1>1, <3>2 DEF TypeOK, outputVars
      <3>4. said' \in Seq(Lines(adapter'.provider))
        BY <3>2
      <3> QED
        BY <3>1, <3>2, <3>3, <3>4 DEF TypeOK, outputVars, strays
    <2>2. BarrierInv'
      BY <1>3 DEF ArmRaises, ArmUnrecorded, restored, TypeOK, BarrierInv, strays
    <2>3. StreamInv'
      BY <1>3 DEF ArmRaises, ArmUnrecorded, StreamInv, outputVars
    <2>4. JudgedInv'
      BY <1>3, BlankOutcomes, NotJudging DEF ArmRaises, ArmUnrecorded
    <2> QED
      BY <2>1, <2>2, <2>3, <2>4
  <1> QED
    BY <1>2, <1>3

\* adapter.start: the worker runs, or the barrier comes down again.
LEMMA StartStep ==
    ASSUME NodeInv, Spawned \/ StartRaises \/ StartUnrecorded
    PROVE  NodeInv'
  <1> USE DEF NodeInv
  <1>1. CASE Spawned
    <2>1. TypeOK' /\ BarrierInv' /\ StreamInv'
      BY <1>1 DEF Spawned, TypeOK, BarrierInv, StreamInv, barrierVars, strays, outputVars,
         judgeVars, bounds
    <2>2. JudgedInv'
      BY <1>1, NotJudging DEF Spawned, judgeVars
    <2> QED
      BY <2>1, <2>2
  <1>2. CASE StartRaises \/ StartUnrecorded
    <2>1. TypeOK'
      <3>1. outcome' \in [state : {"none", "failed", "accepted"}, artifact : Values,
                          change_request : BOOLEAN]
        BY <1>2, BlankOutcomes DEF StartRaises, StartUnrecorded
      <3>2. orphans' \subseteq {"crash", "store"} /\ survivor' = survivor
        BY <1>2 DEF StartRaises, StartUnrecorded, TypeOK, strays
      <3>3. worker' = worker /\ pc = "armed" /\ pc' = "idle" /\ mode' = saved
        BY <1>2 DEF StartRaises, StartUnrecorded
      <3>4. worker' \in BOOLEAN /\ (worker' <=> pc' = "running")
        BY <3>3 DEF TypeOK
      <3>5. UNCHANGED <<saved, adapter, result, said, outputVars, bounds>>
        BY <1>2 DEF StartRaises, StartUnrecorded
      <3> QED
        BY <3>1, <3>2, <3>3, <3>4, <3>5 DEF TypeOK, outputVars, bounds
    <2>2. BarrierInv' /\ StreamInv'
      BY <1>2 DEF StartRaises, StartUnrecorded, TypeOK, BarrierInv, StreamInv, strays,
         outputVars, bounds
    <2>3. JudgedInv'
      BY <1>2, BlankOutcomes, NotJudging DEF StartRaises, StartUnrecorded
    <2> QED
      BY <2>1, <2>2, <2>3
  <1> QED
    BY <1>1, <1>2

\* The process, its log and whoever follows it.
LEMMA ProcessStep ==
    ASSUME NodeInv,
           \/ WriteLine \/ StrayExits \/ StreamEvents \/ Poll
           \/ \E code \in {0, 1}, killed, leaves \in BOOLEAN : WorkerEnds(code, killed, leaves)
    PROVE  NodeInv'
  <1> USE DEF NodeInv
  <1>1. CASE WriteLine
    <2>1. TypeOK'
      <3>1. log' \in 0..MaxLines /\ at_exit' \in 0..log'
            /\ stream' \in [state : {"off", "on", "ended"}, position : 0..log']
            /\ Len(said') <= log'
        BY <1>1, BoundsAssumption DEF WriteLine, TypeOK, judgeVars
      <3> QED
        BY <1>1, <3>1 DEF WriteLine, TypeOK, barrierVars, strays, judgeVars, bounds
    <2>2. BarrierInv' /\ StreamInv'
      BY <1>1 DEF WriteLine, BarrierInv, StreamInv, barrierVars, strays, bounds
    <2>3. JudgedInv'
      BY <1>1, NotJudging DEF WriteLine, judgeVars
    <2> QED
      BY <2>1, <2>2, <2>3
  <1>2. CASE StrayExits
    <2>1. TypeOK'
      <3>1. survivor' \in BOOLEAN /\ orphans' \subseteq {"crash", "store"}
        BY <1>2 DEF StrayExits, TypeOK
      <3>2. UNCHANGED <<pc, worker, barrierVars, outputVars, judgeVars, bounds>>
        BY <1>2 DEF StrayExits
      <3> QED
        BY <3>1, <3>2 DEF TypeOK, barrierVars, outputVars, judgeVars, bounds
    <2>2. BarrierInv' /\ StreamInv'
      BY <1>2 DEF StrayExits, BarrierInv, StreamInv, barrierVars, outputVars, bounds
    <2>3. JudgedInv'
      BY <1>2, NotJudging DEF StrayExits, judgeVars
    <2> QED
      BY <2>1, <2>2, <2>3
  <1>3. CASE StreamEvents \/ Poll
    <2>1. stream' \in [state : {"off", "on", "ended"}, position : 0..log]
      BY <1>3 DEF StreamEvents, Poll, TypeOK
    <2>2. TypeOK'
      BY <1>3, <2>1 DEF StreamEvents, Poll, TypeOK, barrierVars, strays, judgeVars, bounds
    <2>3. BarrierInv'
      BY <1>3 DEF StreamEvents, Poll, BarrierInv, barrierVars, strays, bounds
    <2>4. StreamInv'
      <3>1. CASE StreamEvents
        BY <3>1 DEF StreamEvents, StreamInv
      <3>2. CASE Poll /\ pc # "running" /\ log = stream.position
        <4>1. stream'.position = log /\ at_exit' = at_exit /\ at_exit <= log /\ pc' = pc
          BY <3>2 DEF Poll, TypeOK
        <4>2. pc \in {"settled", "idle"}
          BY <3>2 DEF Poll, TypeOK, StreamInv
        <4> QED
          BY <4>1, <4>2 DEF StreamInv, TypeOK
      <3>3. CASE Poll /\ ~(pc # "running" /\ log = stream.position)
        <4>1. stream'.state = "on" /\ stream.state = "on" /\ pc' = pc
          BY <3>3 DEF Poll, TypeOK
        <4> QED
          BY <4>1 DEF StreamInv
      <3> QED
        BY <1>3, <3>1, <3>2, <3>3
    <2>5. JudgedInv'
      BY <1>3, NotJudging DEF StreamEvents, Poll, judgeVars
    <2> QED
      BY <2>2, <2>3, <2>4, <2>5
  <1>4. ASSUME NEW code \in {0, 1}, NEW killed \in BOOLEAN, NEW leaves \in BOOLEAN,
               WorkerEnds(code, killed, leaves)
        PROVE  NodeInv'
    <2>1. TypeOK'
      <3>1. survivor' \in BOOLEAN
        BY <1>4, Zenon DEF WorkerEnds
      <3>2. /\ result' \in [exit_code : {0, 1}, killed : BOOLEAN, contained : BOOLEAN]
            /\ at_exit' \in 0..log
        BY <1>4 DEF WorkerEnds, TypeOK
      <3>3. worker' = FALSE /\ pc' = "settled"
        BY <1>4 DEF WorkerEnds
      <3>4. UNCHANGED <<orphans, log, stream, adapter, said, outcome, barrierVars, bounds>>
        BY <1>4 DEF WorkerEnds
      <3> QED
        BY <3>1, <3>2, <3>3, <3>4 DEF TypeOK, barrierVars, bounds
    <2>2. BarrierInv' /\ StreamInv'
      BY <1>4 DEF WorkerEnds, BarrierInv, StreamInv, barrierVars, bounds
    <2>3. JudgedInv'
      BY <1>4, NotJudging DEF WorkerEnds
    <2> QED
      BY <2>1, <2>2, <2>3
  <1> QED
    BY <1>1, <1>2, <1>3, <1>4
\* collect believes a process that was not killed, and changes nothing else.
LEMMA CollectedFacts ==
    ASSUME NEW provider \in {"codex", "claude_code"}, NEW lines, NEW res,
           ~collected(res, parse_output(provider, lines)).reported_error
    PROVE  LET out == parse_output(provider, lines)
               cli == collected(res, out)
           IN  /\ ~out.reported_error /\ ~res.killed
               /\ cli.result_text = out.result_text
               /\ cli.structured_result = out.structured_result
  <1> DEFINE out == parse_output(provider, lines)
             text == IF Ofs(lines, "message") = {} THEN << >>
                     ELSE lines[Max(Ofs(lines, "message"))].text
  <1>1. \E e, t, v : out = Outcome(e, t, v)
    <2>1. CASE provider = "codex"
      <3>1. \/ out = Outcome(TRUE, text, NoValue)
            \/ out = Outcome(FALSE, text, extract_json(text))
        BY <2>1, Zenon DEF parse_output, parse_codex
      <3> HIDE DEF out, text
      <3> QED
        BY <3>1, Zenon
    <2>2. CASE provider = "claude_code"
      <3>1. \/ out = Outcome(TRUE, << >>, NoValue)
            \/ out = Outcome(lines[Max(Ofs(lines, "result"))].error,
                             lines[Max(Ofs(lines, "result"))].text,
                             lines[Max(Ofs(lines, "result"))].structured)
        BY <2>2, Zenon DEF parse_output, parse_claude
      <3> HIDE DEF out
      <3> QED
        BY <3>1, Zenon
    <2> QED
      BY <2>1, <2>2
  <1> HIDE DEF out
  <1>2. PICK e, t, v : out = Outcome(e, t, v)
    BY <1>1
  <1>3. collected(res, out) = [reported_error |-> e \/ res.killed, result_text |-> t,
                               structured_result |-> v]
    BY <1>2 DEF collected, Outcome
  <1>4. ~collected(res, out).reported_error
    BY DEF out
  <1>5. /\ ~e /\ ~res.killed /\ out.reported_error = e /\ out.result_text = t
        /\ out.structured_result = v
        /\ collected(res, out).result_text = t
        /\ collected(res, out).structured_result = v
    <2>1. /\ out.reported_error = e /\ out.result_text = t /\ out.structured_result = v
          /\ collected(res, out).result_text = t
          /\ collected(res, out).structured_result = v
      BY <1>2, <1>3 DEF Outcome
    <2>2. collected(res, out).reported_error = (e \/ res.killed)
      BY <1>3
    <2>3. ~(e \/ res.killed)
      BY <1>4, <2>2, Zenon
    <2> QED
      BY <2>1, <2>3, Zenon
  <1> QED
    BY <1>5, Zenon DEF out

\* collect, disarm and the judgement: what is accepted is vouched for and heard.
LEMMA CollectStep ==
    ASSUME NodeInv,
           NEW lines \in [1..log -> Lines(adapter.provider)], NEW contained \in BOOLEAN,
           Collect(lines, contained)
    PROVE  NodeInv'
  <1> USE DEF NodeInv
  <1> DEFINE out  == parse_output(adapter.provider, lines)
             cli  == collected(result, out)
             made == worker_artifact(cli, adapter.declared)
             answer == Answer(adapter.provider, lines)
  <1>1. /\ pc = "settled" /\ pc' = "idle" /\ mode' = saved
        /\ result' = [result EXCEPT !.contained = contained]
        /\ UNCHANGED <<saved, adapter, worker, strays, outputVars, bounds>>
    BY DEF Collect
  <1>2. /\ lines \in Seq(Lines(adapter.provider)) /\ Len(lines) = log
        /\ adapter.provider \in {"codex", "claude_code"} /\ adapter.declared \in BOOLEAN
    BY DEF Collect, TypeOK, Adapters
  <1>3. BarrierInv' /\ StreamInv'
    BY <1>1 DEF BarrierInv, StreamInv, TypeOK, strays, outputVars, bounds
  <1>4. /\ result' \in [exit_code : {0, 1}, killed : BOOLEAN, contained : BOOLEAN]
        /\ result'.exit_code = result.exit_code /\ result'.killed = result.killed
        /\ result'.contained = contained
    BY <1>1 DEF TypeOK
  <1>5. worker' \in BOOLEAN /\ (worker' <=> pc' = "running")
    BY <1>1 DEF TypeOK
  <1>6. CASE outcome' = Failed /\ UNCHANGED said
    <2>1. TypeOK'
      BY <1>1, <1>4, <1>5, <1>6, BlankOutcomes DEF TypeOK, strays, outputVars, bounds
    <2>2. JudgedInv'
      BY <1>6, BlankOutcomes, NotJudging
    <2> QED
      BY <1>3, <2>1, <2>2
  <1>7. CASE /\ contained /\ ~cli.reported_error /\ result.exit_code = 0
             /\ outcome' = [state |-> "accepted", artifact |-> made,
                            change_request |-> change_request(made)]
             /\ said' = lines
    <2>1. /\ ~out.reported_error /\ ~result.killed
          /\ cli.result_text = out.result_text
          /\ cli.structured_result = out.structured_result
      BY <1>2, <1>7, CollectedFacts
    <2>2. /\ Vouched(adapter.provider, lines)
          /\ answer \in Lines(adapter.provider)
          /\ cli.result_text = answer.text
          /\ cli.structured_result = IF adapter.provider = "codex"
                                     THEN extract_json(answer.text) ELSE answer.structured
      BY <1>2, <2>1, ParsedIsAnswer
    <2>3. /\ answer.text \in Seq(Piece) /\ answer.structured \in Values
          /\ adapter.provider = "codex" => answer.structured = NoValue
      BY <2>2, LineFacts
    <2>4. extract_json(answer.text) \in Values
      BY <2>3, ExtractFromText
    <2> HIDE DEF answer, out, cli
    <2>5. /\ made \in Values /\ made.claim # "other"
          /\ adapter.declared /\ made.json = "object" => made.claim \in {"ours", "request"}
          /\ change_request(made) <=>
                (IF cli.structured_result # NoValue THEN cli.structured_result
                 ELSE extract_json(cli.result_text)).says \in Heard
      BY <1>2, <2>2, <2>3, <2>4, ArtifactFacts
    <2>6. change_request(made) <=>
             (IF answer.structured # NoValue THEN answer.structured
              ELSE extract_json(answer.text)).says \in Heard
      BY <2>2, <2>3, <2>5
    <2> HIDE DEF made
    <2>7. change_request(made) \in BOOLEAN
      BY DEF change_request
    <2>8. TypeOK'
      <3>1. outcome' \in [state : {"none", "failed", "accepted"}, artifact : Values,
                          change_request : BOOLEAN]
        BY <1>7, <2>5, <2>7
      <3>2. said' \in Seq(Lines(adapter'.provider)) /\ Len(said') <= log'
        BY <1>1, <1>2, <1>7 DEF TypeOK, outputVars
      <3> QED
        BY <1>1, <1>4, <1>5, <3>1, <3>2 DEF TypeOK, strays, outputVars, bounds
    <2>9. AcceptedIsVouched'
      BY <1>1, <1>4, <1>7, <2>1, <2>2, <2>5 DEF AcceptedIsVouched
    <2>10. VerdictHeard'
      <3>1. Answer(adapter'.provider, said') = answer
        BY <1>1, <1>7 DEF answer
      <3>2. outcome'.change_request = change_request(made)
        BY <1>7
      <3>3. Clear(answer) =>
               (change_request(made) <=> Stated(answer).says \in Heard)
        BY <2>3, <2>6, ExtractFindsFirst DEF Clear, Stated
      <3>4. change_request(made) =>
               \/ Asks(answer.structured)
               \/ \E i \in DOMAIN answer.text : Asks(answer.text[i].value)
        <4>1. CASE answer.structured # NoValue
          BY <2>6, <4>1 DEF Asks, Heard, Sayings
        <4>2. CASE answer.structured = NoValue
          <5>1. change_request(made) => extract_json(answer.text).says \in Heard
            BY <2>6, <4>2
          <5>2. change_request(made) => extract_json(answer.text) # NoValue
            BY <5>1, NoValueTyped DEF Heard
          <5>3. change_request(made) =>
                   \E i \in DOMAIN answer.text : answer.text[i].value.says \in Heard
            BY <2>3, <5>1, <5>2, ExtractFromText
          <5> QED
            BY <5>3 DEF Asks, Heard, Sayings
        <4> QED
          BY <4>1, <4>2
      <3>5. (Asks(Stated(answer)) /\ Stated(answer).says \notin {"revise", "blocked"})
               <=> Stated(answer).says \in Heard
        BY DEF Asks, Heard, Sayings
      <3>6. Clear(answer) =>
               change_request(made) =
                  (Asks(Stated(answer)) /\ Stated(answer).says \notin {"revise", "blocked"})
        BY <2>7, <3>3, <3>5
      <3> QED
        BY <3>1, <3>2, <3>4, <3>6, Zenon DEF VerdictHeard
    <2>11. JudgedInv'
      BY <1>1, <2>9, <2>10 DEF JudgedInv
    <2> QED
      BY <1>3, <2>8, <2>11
  <1> QED
    BY <1>6, <1>7, Zenon DEF Collect

\* The server dies: only processes, files and modes are left.
LEMMA CrashStep ==
    ASSUME NodeInv, Crash
    PROVE  NodeInv'
  <1> USE DEF NodeInv
  <1>1. /\ result' \in [exit_code : {0, 1}, killed : BOOLEAN, contained : BOOLEAN]
        /\ outcome' \in [state : {"none", "failed", "accepted"}, artifact : Values,
                         change_request : BOOLEAN]
    BY BlankOutcomes DEF Crash, NoResult
  <1>2. /\ log' \in 0..MaxLines /\ at_exit' \in 0..log'
        /\ stream' \in [state : {"off", "on", "ended"}, position : 0..log']
        /\ said' \in Seq(Lines(adapter'.provider)) /\ Len(said') <= log'
        /\ crashes' \in 0..MaxCrashes /\ left' = TRUE
    BY BoundsAssumption DEF Crash, NoStream, TypeOK
  <1>3. /\ orphans' \subseteq {"crash", "store"} /\ pc' = "idle" /\ worker' = FALSE
        /\ survivor' = FALSE /\ saved' = "open"
        /\ UNCHANGED <<mode, platform, adapter, nodes>>
    BY DEF Crash, TypeOK
  <1>4. TypeOK'
    BY <1>1, <1>2, <1>3 DEF TypeOK
  <1>5. BarrierInv'
    BY <1>2, <1>3 DEF Crash, BarrierInv
  <1>6. StreamInv'
    BY DEF Crash, StreamInv, NoStream
  <1>7. JudgedInv'
    BY BlankOutcomes, NotJudging DEF Crash
  <1> QED
    BY <1>4, <1>5, <1>6, <1>7

\* Every step preserves the invariant.
LEMMA NextNodeInv == NodeInv /\ [Next]_vars => NodeInv'
  <1> SUFFICES ASSUME NodeInv, [Next]_vars PROVE NodeInv'
    OBVIOUS
  <1>1. CASE UNCHANGED vars
    <2>1. JudgedInv'
      BY <1>1, NotJudging DEF vars, judgeVars, NodeInv
    <2> QED
      BY <1>1, <2>1 DEF vars, NodeInv, TypeOK, BarrierInv, StreamInv, barrierVars, strays,
         outputVars, judgeVars, bounds
  <1> QED
    BY <1>1, ArmStep, StartStep, ProcessStep, CollectStep, CrashStep DEF Next

\* What the server, the operating system and the files hold of the run stays well
\* formed, and the invariant holds throughout.
THEOREM NodeInvariance == Spec => []NodeInv
  BY InitNodeInv, NextNodeInv, PTL DEF Spec

\* Nothing is accepted that anything speaks against, for any answers and any
\* number of nodes and crashes.
THEOREM AcceptedAlwaysVouched == Spec => []AcceptedIsVouched
  <1>1. NodeInv => AcceptedIsVouched
    BY DEF NodeInv, JudgedInv
  <1> QED
    BY <1>1, NodeInvariance, PTL

\* Every verdict in the runner's words is heard, and none is made up: extract_json
\* and the two parsers find what a reader of the answer finds.
THEOREM VerdictAlwaysHeard == Spec => []VerdictHeard
  <1>1. NodeInv => VerdictHeard
    BY DEF NodeInv, JudgedInv
  <1> QED
    BY <1>1, NodeInvariance, PTL

\* No line is lost between the last round of a stream and the end of the process.
THEOREM StreamAlwaysComplete == Spec => []StreamComplete
  <1>1. NodeInv => StreamComplete
    BY DEF NodeInv, StreamInv, StreamComplete
  <1> QED
    BY <1>1, NodeInvariance, PTL

\* The barrier stands as long as a worker runs, and on POSIX as long as one that a
\* dead server left does.
THEOREM AlwaysBehindBarrier == Spec => []BehindBarrier
  <1>1. NodeInv => BehindBarrier
    BY DEF NodeInv, TypeOK, BarrierInv, BehindBarrier
  <1> QED
    BY <1>1, NodeInvariance, PTL

\* Disarming reopens the directory, but on POSIX once the barrier was left up, by a
\* crash or an event the store did not take.
THEOREM DisarmAlwaysReopens == Spec => DisarmReopens
  <1>1. ASSUME NodeInv, [Next]_vars, pc # "idle", pc' = "idle", crashes' = crashes
        PROVE  mode' = "open" \/ (platform = "posix" /\ left)
    <2>1. mode' = saved
      <3>1. CASE StartRaises \/ StartUnrecorded
        BY <3>1 DEF StartRaises, StartUnrecorded
      <3>2. CASE \E lines \in [1..log -> Lines(adapter.provider)], contained \in BOOLEAN :
                    Collect(lines, contained)
        BY <3>2 DEF Collect
      <3>3. ~Crash
        BY <1>1 DEF Crash, NodeInv, TypeOK
      <3> QED
        BY <1>1, <3>1, <3>2, <3>3 DEF Next, vars, Arm, ArmRaises, ArmUnrecorded, Spawned, WriteLine,
           StrayExits, StreamEvents, Poll, WorkerEnds
    <2> QED
      BY <1>1, <2>1 DEF NodeInv, BarrierInv
  <1> QED
    BY <1>1, NodeInvariance, PTL DEF Spec, DisarmReopens
=============================================================================
