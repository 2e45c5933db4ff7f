------------------------------ MODULE RunStore ------------------------------
(***************************************************************************)
(* What is stored of one run, under either backend: FilesystemRunStore      *)
(* (orchestrator/workflow/store.py) and PostgresRunStore                    *)
(* (orchestrator/workflow/postgres_store.py), as _record_artifact and       *)
(* _start_repair of the runner write it and the GET handlers of             *)
(* routers/runs.py read it.                                                *)
(*                                                                         *)
(* The runner writes on the event loop.  The GET handlers are plain         *)
(* functions, which FastAPI runs in threads of their own, so a read         *)
(* interleaves with a write step by step; the server may die at any step.   *)
(* A file that is being written, or was when the server died, is cut short. *)
(***************************************************************************)
EXTENDS Integers, FiniteSets, Sequences

CONSTANTS Backends,     \* the stores that may be configured
          N,            \* the artifacts 1..N of the run, in execution order
          MaxVersions,  \* the contents 1..MaxVersions an artifact may have
          MaxEvents,    \* bound on the events
          MaxCrashes    \* bound on the deaths of the server

ASSUME BackendsAssumption == Backends \subseteq {"filesystem", "postgres"}
ASSUME BoundsAssumption   == /\ {N, MaxVersions, MaxCrashes} \subseteq Nat
                             /\ MaxEvents \in Nat \ {0}   \* there is one of the creation

VARIABLES backend,   \* which store it is
          run_json,  \* the stored record: the file run.json, or the row of runs
          tmp,       \* the file run.json.tmp
          mem,       \* the runner's record
          body,      \* the file of each artifact
          digest,    \* the version run_artifacts has the sha256 of, 0 for no row
          events,    \* the lines of events.jsonl, or the rows of run_events
          dangling,  \* does events.jsonl end without a newline?
          happened,  \* how many events have been appended, or begun to be
          pc,        \* where the runner stands
          doing,     \* the artifact it is writing, Creating, or 0
          reader,    \* a request for an artifact
          trail,     \* the last answer to a request for the events
          crashes

vars == <<backend, run_json, tmp, mem, body, digest, events, dangling, happened,
          pc, doing, reader, trail, crashes>>

Name == 1..N

Cut == -1            \* the content of a file that is not complete
Creating == -1       \* the run itself is being created
Garbled == -2        \* a line made of a cut event and the one appended to it

\* Of the record: the version of the artifact it names for each node, 0 if none.
Names  == [Name -> 0..MaxVersions]
Blank  == [n \in Name |-> 0]
Record == [state : {"missing", "cut", "whole"}, names : Names]

Missing  == [state |-> "missing", names |-> Blank]
CutShort == [state |-> "cut", names |-> Blank]
Whole(m) == [state |-> "whole", names |-> m]

Mixed == -2          \* a text read in part before, in part after an overwriting

\* A request for an artifact: the version the record named, what has been put in
\* the file since, what the file held when its reading began, and the text read.
Reader == [pc : {"idle", "opened", "reading", "digest", "answered", "refused"},
           name : 0..N, asked : 0..MaxVersions, since : SUBSET (Cut..MaxVersions),
           first : Cut..MaxVersions, got : Mixed..MaxVersions]

NoReader == [pc |-> "idle", name |-> 0, asked |-> 0, since |-> {}, first |-> 0, got |-> 0]

\* Everything a run leaves on disk, and who is writing or reading it.
TypeOK ==
    /\ backend \in Backends
    /\ run_json \in Record /\ tmp \in Record
    /\ mem \in Names
    /\ body \in [Name -> Cut..MaxVersions]
    /\ digest \in Names
    /\ events \in Seq(Garbled..MaxEvents) /\ Len(events) <= happened
    /\ dangling \in BOOLEAN
    /\ happened \in 0..MaxEvents
    /\ pc \in {"new", "idle", "writing", "row", "event", "appending", "save",
               "saving", "renaming", "lost"}
    /\ doing \in Creating..N
    /\ reader \in Reader
    /\ trail \in [ok : BOOLEAN, events : Seq(Garbled..MaxEvents)]
    /\ crashes \in 0..MaxCrashes

Init ==
    /\ backend \in Backends
    /\ run_json = Missing /\ tmp = Missing
    /\ mem = Blank
    /\ body = Blank /\ digest = Blank
    /\ events = << >> /\ dangling = FALSE /\ happened = 0
    /\ pc = "new" /\ doing = 0
    /\ reader = NoReader
    /\ trail = [ok |-> TRUE, events |-> << >>]
    /\ crashes = 0

eventVars == <<events, dangling, happened>>
files     == <<run_json, tmp, body, digest, eventVars>>
reading   == <<reader, trail, backend>>

-----------------------------------------------------------------------------
(* The runner *)

\* create_run: the directories, the first save, and then the first event.
Create ==
    /\ pc = "new"
    /\ pc' = "save" /\ doing' = Creating
    /\ UNCHANGED <<mem, crashes>> /\ UNCHANGED files /\ UNCHANGED reading

\* Of a request that is being served: the file it is for is given content v.
Noted(n, v) ==
    IF reader.pc \in {"opened", "reading", "digest"} /\ reader.name = n
    THEN [reader EXCEPT !.since = @ \cup {v}] ELSE reader

\* _record_artifact of the next node: write_artifact truncates the file ...
WriteArtifact(n) ==
    /\ pc = "idle" /\ happened < MaxEvents
    /\ mem[n] = 0 /\ \A m \in 1..(n - 1) : mem[m] > 0
    /\ body' = [body EXCEPT ![n] = Cut]
    /\ reader' = Noted(n, Cut)
    /\ doing' = n
    /\ pc' = "writing"
    /\ UNCHANGED <<run_json, tmp, mem, digest, eventVars, trail, crashes, backend>>

\* ... and fills it with content v, which the record, in memory, now names.
\* PostgresRunStore then records its digest.
ArtifactWritten(v) ==
    /\ pc = "writing"
    /\ body' = [body EXCEPT ![doing] = v]
    /\ reader' = Noted(doing, v)
    /\ mem' = [mem EXCEPT ![doing] = v]
    /\ pc' = IF backend = "postgres" THEN "row" ELSE "event"
    /\ UNCHANGED <<run_json, tmp, digest, eventVars, doing, trail, crashes, backend>>

ArtifactRow ==
    /\ pc = "row"
    /\ digest' = [digest EXCEPT ![doing] = body[doing]]
    /\ pc' = "event"
    /\ UNCHANGED <<run_json, tmp, mem, body, eventVars, doing, crashes>>
    /\ UNCHANGED reading

\* Faulty variant: the artifacts a repair replays stay on the record.
RepairKeepsArtifacts(n) ==
    /\ pc = "idle" /\ happened < MaxEvents
    /\ mem[n] > 0
    /\ body' = [body EXCEPT ![n] = Cut] /\ doing' = n
    /\ pc' = "writing"
    /\ UNCHANGED <<run_json, tmp, mem, digest, eventVars, crashes>>
    /\ UNCHANGED reading

\* _start_repair from node n: what it replays is no longer named.
Repair(n) ==
    /\ pc = "idle" /\ happened < MaxEvents
    /\ mem[n] > 0
    /\ mem' = [m \in Name |-> IF m < n THEN mem[m] ELSE 0]
    /\ pc' = "event"
    /\ UNCHANGED <<doing, crashes>> /\ UNCHANGED files /\ UNCHANGED reading

\* An event precedes the save it goes with, but for the first.
AfterEvent == IF doing = Creating THEN "idle" ELSE "save"
AfterSave  == IF doing = Creating THEN "event" ELSE "idle"

\* append_event inserts a row, or begins to write a line; after a crash left the
\* last one without a newline, that one is continued.
AppendEvent ==
    /\ pc = "event"
    /\ happened' = happened + 1
    /\ IF backend = "postgres"
       THEN /\ events' = Append(events, happened')
            /\ pc' = AfterEvent
            /\ UNCHANGED dangling
       ELSE /\ events' = IF dangling THEN [events EXCEPT ![Len(events)] = Garbled]
                         ELSE Append(events, Cut)
            /\ dangling' = TRUE
            /\ pc' = "appending"
    /\ UNCHANGED <<run_json, tmp, mem, body, digest, doing, crashes>>
    /\ UNCHANGED reading

\* The event's text is there; of a garbled line, that makes no event.
TextWritten ==
    [events EXCEPT ![Len(events)] = IF @ = Garbled THEN Garbled ELSE happened]

\* Faulty variant: it is not followed by a newline.
EventWrittenBare ==
    /\ pc = "appending"
    /\ events' = TextWritten
    /\ pc' = AfterEvent
    /\ UNCHANGED <<run_json, tmp, mem, body, digest, dangling, happened, doing, crashes>>
    /\ UNCHANGED reading

EventWritten ==
    /\ pc = "appending"
    /\ events' = TextWritten /\ dangling' = FALSE
    /\ pc' = AfterEvent
    /\ UNCHANGED <<run_json, tmp, mem, body, digest, happened, doing, crashes>>
    /\ UNCHANGED reading

\* Faulty variant: the record is written in place.
SaveInPlace ==
    /\ pc = "save"
    /\ run_json' = CutShort /\ tmp' = Whole(mem)
    /\ pc' = "renaming"
    /\ UNCHANGED <<mem, body, digest, eventVars, doing, crashes>>
    /\ UNCHANGED reading

\* save: one statement, or a file written beside the record and renamed over it.
Save ==
    /\ pc = "save"
    /\ IF backend = "postgres"
       THEN run_json' = Whole(mem) /\ pc' = AfterSave /\ UNCHANGED tmp
       ELSE tmp' = CutShort /\ pc' = "saving" /\ UNCHANGED run_json
    /\ UNCHANGED <<mem, body, digest, eventVars, doing, crashes>>
    /\ UNCHANGED reading

TmpWritten ==
    /\ pc = "saving"
    /\ tmp' = Whole(mem)
    /\ pc' = "renaming"
    /\ UNCHANGED <<run_json, mem, body, digest, eventVars, doing, crashes>>
    /\ UNCHANGED reading

\* _replace_with_retry, in the end: the rename is made, or refused once more
\* than it is retried, and save raises.
Rename ==
    /\ pc = "renaming"
    /\ run_json' = tmp /\ tmp' = Missing
    /\ pc' = AfterSave
    /\ UNCHANGED <<mem, body, digest, eventVars, doing, crashes>>
    /\ UNCHANGED reading

\* The runner starts again from what is stored, if anything is.
Reload ==
    /\ mem' = run_json.names
    /\ pc' = IF run_json.state = "missing" THEN "lost" ELSE "idle"
    /\ doing' = 0

RenameRefused ==
    /\ pc = "renaming"
    /\ Reload
    /\ UNCHANGED crashes /\ UNCHANGED files /\ UNCHANGED reading

\* The server dies; of a line it was writing, all but the newline may be there.
Crash ==
    /\ crashes < MaxCrashes /\ pc # "new"
    /\ crashes' = crashes + 1
    /\ \/ UNCHANGED events
       \/ pc = "appending" /\ events' = TextWritten
    /\ Reload
    /\ reader' = NoReader
    /\ UNCHANGED <<run_json, tmp, body, digest, dangling, happened, trail, backend>>

-----------------------------------------------------------------------------
(* The readers *)

\* get_artifact: OrchestrationService.artifact loads the record, which must
\* name the artifact, before the file is opened.
AskArtifact(n) ==
    /\ reader.pc \in {"idle", "answered", "refused"}
    /\ run_json.names[n] > 0
    /\ reader' = [NoReader EXCEPT !.pc = "opened", !.name = n, !.asked = run_json.names[n]]
    /\ UNCHANGED <<mem, pc, doing, trail, crashes, backend>> /\ UNCHANGED files

\* read_artifact opens the file and reads it, in more than one read if the system
\* returns less than all of it.
OpenBody ==
    /\ reader.pc = "opened"
    /\ reader' = [reader EXCEPT !.pc = "reading", !.first = body[reader.name]]
    /\ UNCHANGED <<mem, pc, doing, trail, crashes, backend>> /\ UNCHANGED files

\* The texts a reading may give that began when the file held first and ends when
\* it holds last: all of the one, which was read before the other was written; all
\* of the other, of which nothing had been missed; what there was of one that is
\* not complete; or some of each.
Texts(first, last) ==
    IF first = last THEN {first} ELSE {first, last, Cut, Mixed}

\* Does json.loads accept it?  The texts are objects, of which no beginning is one;
\* what is made of parts of two may be.
ReadsAsJson(text) ==
    IF text = Mixed THEN BOOLEAN ELSE {text # Cut}

\* The text is complete; PostgresRunStore goes on to ask for its digest.
ReadBody ==
    /\ reader.pc = "reading"
    /\ \E got \in Texts(reader.first, body[reader.name]) : \E json \in ReadsAsJson(got) :
          reader' = [reader EXCEPT !.got = got,
                                   !.pc = IF backend = "postgres" THEN "digest"
                                          ELSE IF json THEN "answered" ELSE "refused"]
    /\ UNCHANGED <<mem, pc, doing, trail, crashes, backend>> /\ UNCHANGED files

\* Faulty variant: the digest is not compared.
CheckDigestNever ==
    /\ reader.pc = "digest"
    /\ \E json \in ReadsAsJson(reader.got) :
          reader' = [reader EXCEPT !.pc = IF json THEN "answered" ELSE "refused"]
    /\ UNCHANGED <<mem, pc, doing, trail, crashes, backend>> /\ UNCHANGED files

\* A text of which there is no digest is taken as it is.
CheckDigest ==
    /\ reader.pc = "digest"
    /\ \E json \in ReadsAsJson(reader.got) :
          reader' = [reader EXCEPT
                       !.pc = IF digest[reader.name] \in {0, reader.got} /\ json
                              THEN "answered" ELSE "refused"]
    /\ UNCHANGED <<mem, pc, doing, trail, crashes, backend>> /\ UNCHANGED files

\* read_events: a line that is not an event makes it raise.
Parsed(lines) ==
    IF \A i \in DOMAIN lines : lines[i] > 0
    THEN [ok |-> TRUE, events |-> lines]
    ELSE [ok |-> FALSE, events |-> << >>]

ReadEvents ==
    /\ trail' = Parsed(events)
    /\ UNCHANGED <<mem, pc, doing, reader, crashes, backend>> /\ UNCHANGED files

-----------------------------------------------------------------------------
Next ==
    \/ Create \/ ArtifactRow \/ AppendEvent \/ EventWritten
    \/ Save \/ TmpWritten \/ Rename \/ RenameRefused \/ Crash
    \/ \E n \in Name : WriteArtifact(n) \/ Repair(n) \/ AskArtifact(n)
    \/ \E v \in 1..MaxVersions : ArtifactWritten(v)
    \/ OpenBody \/ ReadBody \/ CheckDigest \/ ReadEvents

Spec == Init /\ [][Next]_vars

-----------------------------------------------------------------------------

\* A run that can be resumed stays so: once there is a record it loads, whenever
\* the server dies, and what replaces it is a record the runner saved whole
\* (save: "a crash mid-write must not leave a truncated record").
RecordAlwaysLoads ==
    [][ /\ run_json'.state # "cut"
        /\ run_json.state = "whole" => run_json'.state = "whole"
        /\ run_json' # run_json => run_json' = Whole(mem) ]_vars

\* Every artifact the stored record names is there, complete, and is the very
\* version the record was saved with - its digest too - although files are
\* overwritten in place in every repair round and a crash may cut one short:
\* a resumed run never reads evidence that is torn or of another round
\* (_record_artifact, _start_repair, write_artifact).
NamedArtifactsIntact ==
    \A n \in Name : run_json.names[n] > 0 =>
        /\ body[n] = run_json.names[n]
        /\ backend = "postgres" => digest[n] = run_json.names[n]

\* A request for an artifact is answered with what the record named when it was
\* asked, or with a version a later round has written since: the record is not read
\* again (OrchestrationService.artifact).  No answer is torn, older than the
\* question, or the debris of a write a crash cut off - but for a reading that an
\* overwriting interrupts: FilesystemRunStore.read_artifact answers with parts of
\* both texts, should they make JSON.  PostgresRunStore never does, as the digest of
\* whatever a record names is there to compare with.
AnswerGenuine ==
    reader.pc = "answered" =>
        \/ reader.got > 0 /\ reader.got \in {reader.asked} \cup reader.since
        \/ reader.got = Mixed /\ reader.since # {} /\ backend = "filesystem"

\* The audit trail is told in order and without gaps, or not at all: an answer is
\* the first so many of the events that happened (read_events).  And a crash spoils
\* little of it: a row is never lost, and of the file each crash costs at most the
\* event it cut and the one appended to that, whatever is appended later
\* (append_event).  read_events then answers with none of the others, as it raises
\* on the spoiled line.
TrailSurvives ==
    LET lost == {e \in 1..happened : \A i \in DOMAIN events : events[i] # e}
    IN  /\ trail.ok => /\ Len(trail.events) <= happened
                       /\ \A i \in DOMAIN trail.events : trail.events[i] = i
        /\ backend = "postgres" => lost = {}
        /\ Cardinality(lost) <= 2 * crashes + (IF pc = "appending" THEN 1 ELSE 0)
=============================================================================
