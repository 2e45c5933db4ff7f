----------------------------- MODULE StoreProofs -----------------------------
(***************************************************************************)
(* Proofs about what is stored of a run, under either backend, for any     *)
(* number of artifacts, versions, events and crashes.                      *)
(***************************************************************************)
EXTENDS RunStore, FiniteSetTheorems, TLAPS

\* How the record in memory, the stored one and the file about to replace it are
\* related.  What is being written is named by neither record yet.
RecordInv ==
    /\ run_json.state # "cut"
    /\ pc = "new" => mem = Blank /\ run_json.names = Blank
    /\ pc = "idle" => mem = run_json.names
    /\ pc = "renaming" => tmp = Whole(mem)
    /\ doing = Creating => mem = Blank /\ run_json.names = Blank
    /\ pc \in {"writing", "row"} => doing \in Name /\ run_json.names[doing] = 0
    /\ pc = "writing" => mem[doing] = 0
    /\ pc = "row" => mem[doing] > 0

\* Like NamedArtifactsIntact, of what the next save will name: a digest that is
\* still to be recorded is excepted.
MemoryIntact ==
    \A n \in Name : mem[n] > 0 =>
        /\ body[n] = mem[n]
        /\ backend = "postgres" /\ ~(pc = "row" /\ n = doing) => digest[n] = mem[n]

\* Of a request being served: the file holds what the record named when it was
\* asked or something put there since, and under PostgreSQL has a digest.  The text
\* read is one of these, or of the others no answer is made but by chance.
ReaderInv ==
    LET held == {reader.asked} \cup reader.since
    IN  /\ 0 \notin reader.since
        /\ reader.pc \in {"opened", "reading", "digest"} =>
              /\ reader.name \in Name /\ reader.asked > 0
              /\ body[reader.name] \in held
              /\ backend = "postgres" => digest[reader.name] # 0
        /\ reader.pc = "reading" => reader.first \in held
        /\ reader.pc = "digest" =>
              /\ backend = "postgres"
              /\ reader.got \in held \cup {Cut} \/ (reader.got = Mixed /\ reader.since # {})
        /\ AnswerGenuine

\* Events are only appended while there is room for them.
RoomInv ==
    /\ pc \in {"writing", "row"} => happened < MaxEvents
    /\ pc = "event" => happened < MaxEvents
    /\ pc = "new" => happened = 0
    /\ doing = Creating /\ pc \in {"save", "saving", "renaming"} => happened = 0

\* Where an event that has begun is in the file.
LinesInv ==
    /\ \A i \in DOMAIN events : events[i] <= happened
    /\ dangling => events # << >>
    /\ backend = "postgres" =>
          ~dangling /\ pc # "appending" /\ \A i \in DOMAIN events : events[i] > 0
    /\ pc = "appending" =>
          /\ dangling
          /\ events[Len(events)] \in {Cut, Garbled}
          /\ \A i \in DOMAIN events : events[i] < happened

\* Until a line is garbled, line i is of event i.
OrderInv ==
    (\A i \in DOMAIN events : events[i] # Garbled) =>
        Len(events) = happened /\ \A i \in DOMAIN events : events[i] \in {i, Cut}

\* The events of which no complete line tells: the ones lost, and the one in a
\* line without a newline, which what is appended to it will spoil.
Unsafe ==
    {e \in 1..happened : \A i \in DOMAIN events :
                            events[i] = e => dangling /\ i = Len(events)}

\* How many these may be.  A crash costs one event, and the event appended next
\* to what it left another.
Budget ==
    2 * crashes + (IF pc = "appending" THEN IF events[Len(events)] = Garbled THEN 0 ELSE 1
                   ELSE IF dangling THEN -1 ELSE 0)

LossInv == Cardinality(Unsafe) <= Budget

\* The last answer tells of the first so many events.
AnsweredInv ==
    trail.ok => /\ Len(trail.events) <= happened
                /\ \A i \in DOMAIN trail.events : trail.events[i] = i

StoreInv ==
    /\ TypeOK
    /\ RecordInv /\ NamedArtifactsIntact /\ MemoryIntact
    /\ ReaderInv
    /\ RoomInv /\ LinesInv /\ OrderInv /\ LossInv /\ AnsweredInv

-----------------------------------------------------------------------------
(* Typing *)

\* The bounds are naturals.
LEMMA Bounds ==
    /\ N \in Nat /\ MaxVersions \in Nat /\ MaxCrashes \in Nat /\ MaxEvents \in Nat \ {0}
  BY BoundsAssumption

\* The records that are stored or on their way.
LEMMA RecordsTyped ==
    /\ Blank \in Names /\ Missing \in Record /\ CutShort \in Record
    /\ \A m \in Names : Whole(m) \in Record
    /\ \A m : Whole(m).state = "whole" /\ Whole(m).names = m
    /\ Missing.state = "missing" /\ Missing.names = Blank
  BY Bounds DEF Blank, Names, Missing, CutShort, Whole, Record

\* Lines are only ever added, or the last one replaced.
LEMMA AppendedTyped ==
    ASSUME NEW S, NEW s \in Seq(S), NEW x \in S
    PROVE  /\ Append(s, x) \in Seq(S) /\ Len(Append(s, x)) = Len(s) + 1
           /\ DOMAIN Append(s, x) = 1..(Len(s) + 1)
           /\ \A i \in 1..Len(s) : Append(s, x)[i] = s[i]
           /\ Append(s, x)[Len(s) + 1] = x
  OBVIOUS

\* The last of them is replaced in place: no other line changes.
LEMMA ReplacedTyped ==
    ASSUME NEW S, NEW s \in Seq(S), NEW x \in S, s # << >>
    PROVE  /\ [s EXCEPT ![Len(s)] = x] \in Seq(S)
           /\ Len([s EXCEPT ![Len(s)] = x]) = Len(s)
           /\ DOMAIN [s EXCEPT ![Len(s)] = x] = DOMAIN s
           /\ Len(s) \in DOMAIN s
           /\ \A i \in DOMAIN s :
                 [s EXCEPT ![Len(s)] = x][i] = IF i = Len(s) THEN x ELSE s[i]
  OBVIOUS

\* The new line of an append, and the text that completes the last one.
LEMMA LinesTyped ==
    ASSUME TypeOK
    PROVE  /\ events \in Seq(Garbled..MaxEvents)
           /\ Cut \in Garbled..MaxEvents /\ Garbled \in Garbled..MaxEvents
           /\ happened \in Nat /\ happened \in Garbled..MaxEvents
           /\ happened < MaxEvents => happened + 1 \in Garbled..MaxEvents
  BY Bounds DEF TypeOK, Cut, Garbled

\* The text is put in the last line, when there is one.
LEMMA TextTyped ==
    ASSUME TypeOK, events # << >>
    PROVE  /\ TextWritten \in Seq(Garbled..MaxEvents)
           /\ Len(TextWritten) = Len(events) /\ DOMAIN TextWritten = DOMAIN events
           /\ Len(events) \in DOMAIN events
           /\ \A i \in DOMAIN events :
                 TextWritten[i] = IF i # Len(events) THEN events[i]
                                  ELSE IF events[i] = Garbled THEN Garbled ELSE happened
  <1> DEFINE x == IF events[Len(events)] = Garbled THEN Garbled ELSE happened
  <1>1. x \in Garbled..MaxEvents
    BY LinesTyped
  <1>2. TextWritten = [events EXCEPT ![Len(events)] = x]
    BY DEF TextWritten
  <1>3. events \in Seq(Garbled..MaxEvents)
    BY LinesTyped
  <1>4. x = IF events[Len(events)] = Garbled THEN Garbled ELSE happened
    OBVIOUS
  <1> HIDE DEF x
  <1> QED
    BY <1>1, <1>2, <1>3, <1>4, ReplacedTyped

\* Of a request it is only noted what the file is given.
LEMMA NotedTyped ==
    ASSUME NEW n, NEW v \in Cut..MaxVersions, reader \in Reader
    PROVE  /\ Noted(n, v) \in Reader
           /\ Noted(n, v).since \in {reader.since, reader.since \cup {v}}
           /\ reader.pc \in {"opened", "reading", "digest"} /\ reader.name = n =>
                 Noted(n, v).since = reader.since \cup {v}
           /\ reader.pc \notin {"opened", "reading", "digest"} => Noted(n, v) = reader
           /\ \A x \in {"pc", "name", "asked", "first", "got"} : Noted(n, v)[x] = reader[x]
  BY DEF Noted, Reader

\* Every step keeps the types.
LEMMA TypeStep ==
    ASSUME StoreInv, [Next]_vars
    PROVE  TypeOK'
  <1> USE Bounds DEF StoreInv
  <1>1. CASE Create
    BY <1>1 DEF TypeOK, Create, files, reading, eventVars, Creating
  <1>2. CASE ArtifactRow
    <2>1. body[doing] \in 0..MaxVersions
      BY <1>2, RecordsTyped DEF ArtifactRow, TypeOK, RecordInv, MemoryIntact, Names
    <2> QED BY <1>2, <2>1 DEF TypeOK, ArtifactRow, reading, eventVars, Names
  <1>3. CASE AppendEvent
    <2>1. UNCHANGED <<run_json, tmp, mem, body, digest, doing, crashes, reader, trail, backend>>
      BY <1>3 DEF AppendEvent, reading
    <2>2. happened' = happened + 1 /\ happened < MaxEvents /\ happened' \in 0..MaxEvents
      BY <1>3 DEF AppendEvent, RoomInv, TypeOK
    <2>3. pc' \in {"idle", "save", "appending"} /\ dangling' \in BOOLEAN
      BY <1>3 DEF AppendEvent, AfterEvent, TypeOK
    <2>4. events' \in Seq(Garbled..MaxEvents) /\ Len(events') <= happened'
      <3>1. CASE backend = "postgres"
        <4>1. events' = Append(events, happened + 1)
          BY <1>3, <3>1 DEF AppendEvent
        <4> QED BY <4>1, <2>2, LinesTyped, AppendedTyped DEF TypeOK
      <3>2. CASE backend # "postgres" /\ dangling
        <4>1. events' = [events EXCEPT ![Len(events)] = Garbled] /\ events # << >>
          BY <1>3, <3>2 DEF AppendEvent, LinesInv
        <4> QED BY <4>1, <2>2, LinesTyped, ReplacedTyped DEF TypeOK
      <3>3. CASE backend # "postgres" /\ ~dangling
        <4>1. events' = Append(events, Cut)
          BY <1>3, <3>3 DEF AppendEvent
        <4> QED BY <4>1, <2>2, LinesTyped, AppendedTyped DEF TypeOK
      <3> QED BY <3>1, <3>2, <3>3
    <2> QED BY <2>1, <2>2, <2>3, <2>4 DEF TypeOK
  <1>4. CASE EventWritten
    <2>1. events # << >> /\ events' = TextWritten
      BY <1>4 DEF EventWritten, LinesInv
    <2>2. events' \in Seq(Garbled..MaxEvents) /\ Len(events') <= happened
      BY <2>1, TextTyped DEF TypeOK
    <2> QED BY <1>4, <2>2 DEF TypeOK, EventWritten, AfterEvent, reading
  <1>5. CASE Save
    BY <1>5, RecordsTyped DEF TypeOK, Save, AfterSave, reading, eventVars
  <1>6. CASE TmpWritten
    BY <1>6, RecordsTyped DEF TypeOK, TmpWritten, reading, eventVars
  <1>7. CASE Rename
    BY <1>7, RecordsTyped DEF TypeOK, Rename, AfterSave, reading, eventVars
  <1>8. CASE RenameRefused
    BY <1>8 DEF TypeOK, RenameRefused, Reload, Record, reading, eventVars, files, Creating
  <1>9. CASE Crash
    <2>1. events' \in Seq(Garbled..MaxEvents) /\ Len(events') <= happened
      <3>1. CASE UNCHANGED events
        BY <3>1 DEF TypeOK
      <3>2. CASE pc = "appending" /\ events' = TextWritten
        BY <3>2, TextTyped DEF TypeOK, LinesInv
      <3> QED BY <1>9, <3>1, <3>2 DEF Crash
    <2>2. reader' \in Reader
      BY <1>9 DEF Crash, NoReader, Reader, Cut, Mixed
    <2>3. mem' \in Names /\ pc' \in {"lost", "idle"} /\ doing' \in Creating..N
      BY <1>9 DEF Crash, Reload, Record, Creating, TypeOK
    <2> QED BY <1>9, <2>1, <2>2, <2>3 DEF TypeOK, Crash
  <1>10. ASSUME NEW n \in Name, WriteArtifact(n) PROVE TypeOK'
    <2>1. body' \in [Name -> Cut..MaxVersions] /\ doing' \in Creating..N
      BY <1>10 DEF TypeOK, WriteArtifact, Name, Creating, Cut
    <2>2. reader' \in Reader
      BY <1>10, NotedTyped DEF WriteArtifact, TypeOK, Cut
    <2> QED BY <1>10, <2>1, <2>2 DEF TypeOK, WriteArtifact, eventVars
  <1>11. ASSUME NEW n \in Name, Repair(n) PROVE TypeOK'
    BY <1>11 DEF TypeOK, Repair, reading, files, eventVars, Names
  <1>12. ASSUME NEW n \in Name, AskArtifact(n) PROVE TypeOK'
    <2>1. reader' \in Reader
      <3>1. run_json.names[n] \in 0..MaxVersions /\ n \in 0..N
        BY DEF TypeOK, Record, Names, Name
      <3>2. NoReader \in Reader
        BY DEF NoReader, Reader, Cut, Mixed
      <3> QED BY <1>12, <3>1, <3>2 DEF AskArtifact, Reader
    <2> QED BY <1>12, <2>1 DEF TypeOK, AskArtifact, files, eventVars
  <1>13. ASSUME NEW v \in 1..MaxVersions, ArtifactWritten(v) PROVE TypeOK'
    <2>1. v \in 0..MaxVersions /\ v \in Cut..MaxVersions
      BY DEF Cut
    <2>2. body' \in [Name -> Cut..MaxVersions]
      BY <1>13, <2>1 DEF TypeOK, ArtifactWritten
    <2>3. mem' \in Names
      BY <1>13, <2>1 DEF TypeOK, ArtifactWritten, Names
    <2>4. reader' \in Reader
      BY <1>13, <2>1, NotedTyped DEF ArtifactWritten, TypeOK
    <2> QED BY <1>13, <2>2, <2>3, <2>4 DEF TypeOK, ArtifactWritten, eventVars
  <1>14. CASE OpenBody
    <2>1. reader.name \in Name /\ body[reader.name] \in Cut..MaxVersions
      BY <1>14 DEF OpenBody, ReaderInv, TypeOK
    <2>2. reader' \in Reader
      BY <1>14, <2>1 DEF OpenBody, TypeOK, Reader
    <2> QED BY <1>14, <2>2 DEF TypeOK, OpenBody, files, eventVars
  <1>18. CASE ReadBody
    <2>1. reader.name \in Name /\ body[reader.name] \in Mixed..MaxVersions
          /\ reader.first \in Mixed..MaxVersions
      BY <1>18 DEF ReadBody, ReaderInv, TypeOK, Reader, Cut, Mixed
    <2>2. \A got \in Texts(reader.first, body[reader.name]) : got \in Mixed..MaxVersions
      BY <2>1 DEF Texts, Cut, Mixed
    <2>3. reader' \in Reader
      <3>1. PICK got \in Texts(reader.first, body[reader.name]) :
               \E json \in ReadsAsJson(got) :
                  reader' = [reader EXCEPT !.got = got,
                                           !.pc = IF backend = "postgres" THEN "digest"
                                                  ELSE IF json THEN "answered" ELSE "refused"]
        BY <1>18 DEF ReadBody
      <3>2. \E x \in {"digest", "answered", "refused"} :
               reader' = [reader EXCEPT !.got = got, !.pc = x]
        BY <3>1
      <3>3. got \in Mixed..MaxVersions
        BY <2>2
      <3> QED BY <3>2, <3>3 DEF TypeOK, Reader
    <2> QED BY <1>18, <2>3 DEF TypeOK, ReadBody, files, eventVars
  <1>15. CASE CheckDigest
    <2>2. reader' \in Reader
      BY <1>15 DEF CheckDigest, TypeOK, Reader
    <2> QED BY <1>15, <2>2 DEF TypeOK, CheckDigest, files, eventVars
  <1>16. CASE ReadEvents
    <2>1. trail' \in [ok : BOOLEAN, events : Seq(Garbled..MaxEvents)]
      BY <1>16 DEF ReadEvents, Parsed, TypeOK
    <2> QED BY <1>16, <2>1 DEF TypeOK, ReadEvents, files, eventVars
  <1>17. CASE UNCHANGED vars
    BY <1>17 DEF vars, TypeOK
  <1> QED
    BY <1>1, <1>2, <1>3, <1>4, <1>5, <1>6, <1>7, <1>8, <1>9, <1>10, <1>11, <1>12,
       <1>13, <1>14, <1>15, <1>16, <1>17, <1>18 DEF Next

-----------------------------------------------------------------------------
(* The record and the artifacts it names *)

\* A step of a request, or of the trail, leaves the record and the artifacts alone.
LEMMA ReaderStepsKeep ==
    ASSUME NEW n \in Name, AskArtifact(n) \/ OpenBody \/ ReadBody \/ CheckDigest \/ ReadEvents
    PROVE  UNCHANGED <<run_json, tmp, mem, body, digest, events, dangling, happened,
                       pc, doing, crashes, backend>>
  BY DEF AskArtifact, OpenBody, ReadBody, CheckDigest, ReadEvents, files, eventVars

\* What the runner starts again from is what the stored record names.
LEMMA ReloadKeeps ==
    ASSUME StoreInv, Reload, UNCHANGED <<run_json, body, digest, backend>>
    PROVE  RecordInv' /\ NamedArtifactsIntact' /\ MemoryIntact'
  <1>1. RecordInv'
    BY DEF StoreInv, RecordInv, Reload, Creating
  <1>2. NamedArtifactsIntact' /\ MemoryIntact'
    BY DEF StoreInv, NamedArtifactsIntact, MemoryIntact, Reload
  <1> QED BY <1>1, <1>2

\* Every step keeps the stored record, the one in memory and the files in step.
LEMMA RecordStep ==
    ASSUME StoreInv, [Next]_vars
    PROVE  RecordInv' /\ NamedArtifactsIntact' /\ MemoryIntact'
  <1> USE Bounds DEF StoreInv
  <1>1. CASE Create
    <2>1. UNCHANGED <<run_json, tmp, mem, body, digest, backend>>
      BY <1>1 DEF Create, files, reading
    <2>2. pc = "new" /\ pc' = "save" /\ doing' = Creating
      BY <1>1 DEF Create
    <2> QED BY <2>1, <2>2 DEF RecordInv, NamedArtifactsIntact, MemoryIntact
  <1>2. CASE ArtifactRow
    <2>1. UNCHANGED <<run_json, tmp, mem, body, doing, backend>> /\ pc = "row" /\ pc' = "event"
      BY <1>2 DEF ArtifactRow, reading
    <2>2. doing \in Name /\ run_json.names[doing] = 0 /\ mem[doing] > 0
      BY <2>1 DEF RecordInv
    <2>3. digest \in [Name -> 0..MaxVersions] /\ digest' = [digest EXCEPT ![doing] = body[doing]]
      BY <1>2 DEF ArtifactRow, TypeOK, Names
    <2>4. RecordInv'
      BY <2>1 DEF RecordInv
    <2>5. NamedArtifactsIntact'
      BY <2>1, <2>2, <2>3 DEF NamedArtifactsIntact
    <2>6. MemoryIntact'
      BY <2>1, <2>2, <2>3 DEF MemoryIntact
    <2> QED BY <2>4, <2>5, <2>6
  <1>3. CASE AppendEvent \/ EventWritten
    <2>1. /\ UNCHANGED <<run_json, tmp, mem, body, digest, doing, backend>>
          /\ pc \in {"event", "appending"}
          /\ pc' \in {"appending", "save"} \/ (doing = Creating /\ pc' = "idle")
      BY <1>3 DEF AppendEvent, EventWritten, AfterEvent, reading
    <2> QED BY <2>1 DEF RecordInv, NamedArtifactsIntact, MemoryIntact
  <1>4. CASE Save
    <2>1. /\ UNCHANGED <<mem, body, digest, doing, backend>> /\ pc = "save"
          /\ \/ run_json' = Whole(mem) /\ pc' = AfterSave /\ backend = "postgres"
             \/ run_json' = run_json /\ pc' = "saving"
      BY <1>4 DEF Save, reading
    <2>2. MemoryIntact'
      BY <2>1 DEF MemoryIntact, AfterSave
    <2>3. CASE run_json' = run_json /\ pc' = "saving"
      BY <2>1, <2>2, <2>3 DEF RecordInv, NamedArtifactsIntact
    <2>4. CASE run_json' = Whole(mem) /\ pc' = AfterSave
      <3>1. run_json'.names = mem /\ run_json'.state = "whole"
        BY <2>4, RecordsTyped
      <3>2. RecordInv'
        BY <2>1, <2>4, <3>1 DEF RecordInv, AfterSave
      <3>3. NamedArtifactsIntact'
        BY <2>1, <3>1 DEF NamedArtifactsIntact, MemoryIntact
      <3> QED BY <2>2, <3>2, <3>3
    <2> QED BY <2>1, <2>3, <2>4
  <1>5. CASE TmpWritten
    <2>1. UNCHANGED <<run_json, mem, body, digest, doing, backend>> /\ pc = "saving" /\ pc' = "renaming"
      BY <1>5 DEF TmpWritten, reading
    <2>2. tmp' = Whole(mem')
      BY <1>5 DEF TmpWritten, Whole
    <2> QED BY <2>1, <2>2 DEF RecordInv, NamedArtifactsIntact, MemoryIntact
  <1>6. CASE Rename
    <2>1. UNCHANGED <<mem, body, digest, doing, backend>> /\ pc = "renaming" /\ pc' = AfterSave
      BY <1>6 DEF Rename, reading
    <2>2. run_json'.names = mem /\ run_json'.state = "whole"
      BY <1>6, RecordsTyped DEF Rename, RecordInv
    <2>3. RecordInv'
      BY <2>1, <2>2 DEF RecordInv, AfterSave
    <2>4. NamedArtifactsIntact' /\ MemoryIntact'
      BY <2>1, <2>2 DEF NamedArtifactsIntact, MemoryIntact, AfterSave
    <2> QED BY <2>3, <2>4
  <1>7. CASE RenameRefused
    BY <1>7, ReloadKeeps DEF RenameRefused, files, reading
  <1>8. CASE Crash
    BY <1>8, ReloadKeeps DEF Crash
  <1>9. ASSUME NEW n \in Name, WriteArtifact(n)
        PROVE  RecordInv' /\ NamedArtifactsIntact' /\ MemoryIntact'
    <2>1. /\ UNCHANGED <<run_json, tmp, mem, digest, backend>>
          /\ pc = "idle" /\ pc' = "writing" /\ doing' = n /\ mem[n] = 0
          /\ body' = [body EXCEPT ![n] = Cut]
      BY <1>9 DEF WriteArtifact, reading
    <2>2. mem = run_json.names
      BY <2>1 DEF RecordInv
    <2>3. RecordInv'
      BY <2>1, <2>2 DEF RecordInv, Name, Creating
    <2>4. \A m \in Name : mem[m] > 0 => body'[m] = body[m]
      BY <2>1 DEF TypeOK
    <2>5. NamedArtifactsIntact' /\ MemoryIntact'
      BY <2>1, <2>2, <2>4 DEF NamedArtifactsIntact, MemoryIntact
    <2> QED BY <2>3, <2>5
  <1>10. ASSUME NEW n \in Name, Repair(n)
         PROVE  RecordInv' /\ NamedArtifactsIntact' /\ MemoryIntact'
    <2>1. /\ UNCHANGED <<run_json, tmp, body, digest, doing, backend>>
          /\ pc = "idle" /\ pc' = "event" /\ mem[n] > 0
          /\ \A m \in Name : mem'[m] \in {mem[m], 0}
      BY <1>10 DEF Repair, reading, files
    <2>2. doing # Creating
      BY <2>1 DEF RecordInv, Blank
    <2>3. RecordInv'
      BY <2>1, <2>2 DEF RecordInv
    <2>4. NamedArtifactsIntact' /\ MemoryIntact'
      BY <2>1 DEF NamedArtifactsIntact, MemoryIntact
    <2> QED BY <2>3, <2>4
  <1>11. ASSUME NEW v \in 1..MaxVersions, ArtifactWritten(v)
         PROVE  RecordInv' /\ NamedArtifactsIntact' /\ MemoryIntact'
    <2>1. /\ UNCHANGED <<run_json, tmp, digest, doing, backend>>
          /\ pc = "writing" /\ pc' = IF backend = "postgres" THEN "row" ELSE "event"
          /\ body' = [body EXCEPT ![doing] = v] /\ mem' = [mem EXCEPT ![doing] = v]
      BY <1>11 DEF ArtifactWritten, reading
    <2>2. doing \in Name /\ run_json.names[doing] = 0 /\ doing # Creating
      BY <2>1 DEF RecordInv, Name, Creating
    <2>3. /\ body'[doing] = v /\ mem'[doing] = v
          /\ \A m \in Name \ {doing} : body'[m] = body[m] /\ mem'[m] = mem[m]
      BY <2>1, <2>2 DEF TypeOK, Names
    <2>4. RecordInv'
      BY <2>1, <2>2, <2>3 DEF RecordInv
    <2>5. NamedArtifactsIntact'
      BY <2>1, <2>2, <2>3 DEF NamedArtifactsIntact
    <2>6. MemoryIntact'
      BY <2>1, <2>2, <2>3 DEF MemoryIntact
    <2> QED BY <2>4, <2>5, <2>6
  <1>12. ASSUME NEW n \in Name, AskArtifact(n)
         PROVE  RecordInv' /\ NamedArtifactsIntact' /\ MemoryIntact'
    BY <1>12, ReaderStepsKeep DEF RecordInv, NamedArtifactsIntact, MemoryIntact
  <1>13. CASE OpenBody \/ ReadBody \/ CheckDigest \/ ReadEvents
    <2>1. UNCHANGED <<run_json, tmp, mem, body, digest, pc, doing, backend>>
      BY <1>13 DEF OpenBody, ReadBody, CheckDigest, ReadEvents, files
    <2> QED BY <2>1 DEF RecordInv, NamedArtifactsIntact, MemoryIntact
  <1>14. CASE UNCHANGED vars
    BY <1>14 DEF vars, RecordInv, NamedArtifactsIntact, MemoryIntact
  <1> QED
    BY <1>1, <1>2, <1>3, <1>4, <1>5, <1>6, <1>7, <1>8, <1>9, <1>10, <1>11, <1>12,
       <1>13, <1>14 DEF Next

-----------------------------------------------------------------------------
(* The readers *)

\* The files and digests a request looks at change in three steps only.
LEMMA FileSteps ==
    ASSUME [Next]_vars
    PROVE  /\ \/ \E n \in Name : WriteArtifact(n)
              \/ \E v \in 1..MaxVersions : ArtifactWritten(v)
              \/ ArtifactRow
              \/ UNCHANGED <<body, digest, backend>>
           /\ \/ \E n \in Name : WriteArtifact(n) \/ AskArtifact(n)
              \/ \E v \in 1..MaxVersions : ArtifactWritten(v)
              \/ OpenBody \/ ReadBody \/ CheckDigest \/ Crash \/ UNCHANGED reader
  <1>1. \/ \E n \in Name : WriteArtifact(n)
        \/ \E v \in 1..MaxVersions : ArtifactWritten(v)
        \/ ArtifactRow
        \/ UNCHANGED <<body, digest, backend>>
    BY DEF Next, vars, Create, AppendEvent, EventWritten, Save, TmpWritten, Rename,
           RenameRefused, Crash, Repair, AskArtifact, OpenBody, ReadBody, CheckDigest,
           ReadEvents, files, reading
  <1>2. \/ \E n \in Name : WriteArtifact(n) \/ AskArtifact(n)
        \/ \E v \in 1..MaxVersions : ArtifactWritten(v)
        \/ OpenBody \/ ReadBody \/ CheckDigest \/ Crash \/ UNCHANGED reader
    BY DEF Next, vars, Create, ArtifactRow, AppendEvent, EventWritten, Save, TmpWritten,
           Rename, RenameRefused, Repair, ReadEvents, reading
  <1> QED BY <1>1, <1>2

\* Whatever the runner puts in a file is noted of the request for it.
LEMMA PutStep ==
    ASSUME StoreInv, NEW n \in Name, NEW v \in Cut..MaxVersions, v # 0,
           body' = [body EXCEPT ![n] = v], reader' = Noted(n, v),
           UNCHANGED <<digest, backend>>
    PROVE  ReaderInv'
  <1> USE DEF StoreInv
  <1>1. /\ reader \in Reader /\ body \in [Name -> Cut..MaxVersions]
        /\ reader.since \subseteq reader'.since /\ 0 \notin reader'.since
        /\ UNCHANGED <<reader.pc, reader.name, reader.asked, reader.first, reader.got>>
        /\ reader.pc \notin {"opened", "reading", "digest"} => reader' = reader
        /\ reader.pc \in {"opened", "reading", "digest"} /\ reader.name = n =>
              v \in reader'.since
    BY NotedTyped DEF TypeOK, ReaderInv
  <1>2. CASE reader.pc \notin {"opened", "reading", "digest"}
    BY <1>1, <1>2 DEF ReaderInv, AnswerGenuine
  <1>3. CASE reader.pc \in {"opened", "reading", "digest"}
    <2>1. /\ reader.name \in Name
          /\ body'[reader.name] \in {reader.asked} \cup reader'.since
      BY <1>1, <1>3 DEF ReaderInv
    <2> QED BY <1>1, <1>3, <2>1 DEF ReaderInv, AnswerGenuine
  <1> QED BY <1>2, <1>3

\* Every step keeps what is known of a request.
LEMMA ReaderStep ==
    ASSUME StoreInv, [Next]_vars
    PROVE  ReaderInv'
  <1> USE Bounds DEF StoreInv
  <1>0. reader \in Reader /\ body \in [Name -> Cut..MaxVersions] /\ digest \in Names
    BY DEF TypeOK
  <1>1. ASSUME NEW n \in Name, AskArtifact(n) PROVE ReaderInv'
    <2>1. /\ reader' = [NoReader EXCEPT !.pc = "opened", !.name = n,
                                       !.asked = run_json.names[n]]
          /\ UNCHANGED <<body, digest, backend>> /\ run_json.names[n] > 0
      BY <1>1 DEF AskArtifact, files
    <2>2. /\ reader'.pc = "opened" /\ reader'.name = n /\ reader'.since = {}
          /\ reader'.asked = run_json.names[n]
      BY <2>1 DEF NoReader
    <2>3. body[n] = run_json.names[n] /\ (backend = "postgres" => digest[n] = run_json.names[n])
      BY <2>1 DEF NamedArtifactsIntact
    <2> QED BY <2>1, <2>2, <2>3 DEF ReaderInv, AnswerGenuine
  <1>2. CASE OpenBody
    <2>1. /\ reader'.pc = "reading" /\ reader'.first = body[reader.name]
          /\ reader'.name = reader.name /\ reader'.since = reader.since
          /\ reader'.asked = reader.asked /\ reader.pc = "opened"
          /\ UNCHANGED <<body, digest, backend>>
      BY <1>0, <1>2 DEF OpenBody, Reader, files
    <2> QED BY <2>1 DEF ReaderInv, AnswerGenuine
  <1>3. CASE ReadBody
    <2>0. PICK got \in Texts(reader.first, body[reader.name]) :
             \E json \in ReadsAsJson(got) :
                reader' = [reader EXCEPT !.got = got,
                                         !.pc = IF backend = "postgres" THEN "digest"
                                                ELSE IF json THEN "answered" ELSE "refused"]
      BY <1>3 DEF ReadBody
    <2>1. PICK json \in ReadsAsJson(got) :
             reader' = [reader EXCEPT !.got = got,
                                      !.pc = IF backend = "postgres" THEN "digest"
                                             ELSE IF json THEN "answered" ELSE "refused"]
      BY <2>0
    <2>2. /\ reader'.pc = IF backend = "postgres" THEN "digest"
                          ELSE IF json THEN "answered" ELSE "refused"
          /\ reader'.got = got
          /\ reader'.name = reader.name /\ reader'.since = reader.since
          /\ reader'.asked = reader.asked /\ reader.pc = "reading"
          /\ UNCHANGED <<body, digest, backend>>
      BY <1>0, <1>3, <2>1 DEF ReadBody, Reader, files
    <2>3. \/ got \in {reader.asked} \cup reader.since \cup {Cut}
          \/ got = Mixed /\ reader.since # {}
      BY <2>2 DEF ReaderInv, Texts
    <2>4. got \in {reader.asked} \cup reader.since => got = Cut \/ got > 0
      BY <1>0, <2>2, <2>3 DEF ReaderInv, Reader, Cut
    <2>5. got = Cut => ~json
      <3>1. Cut # Mixed
        BY DEF Cut, Mixed
      <3> QED BY <3>1, Zenon DEF ReadsAsJson
    <2>6. backend \in {"filesystem", "postgres"}
      BY BackendsAssumption DEF TypeOK
    <2>7. reader'.pc = "answered" => json /\ backend # "postgres"
      BY <2>2
    <2>8. reader'.pc = "answered" => got # Cut /\ backend = "filesystem"
      BY <2>5, <2>6, <2>7
    <2>9. AnswerGenuine'
      <3> SUFFICES ASSUME reader'.pc = "answered"
                   PROVE  \/ got > 0 /\ got \in {reader.asked} \cup reader.since
                          \/ got = Mixed /\ reader.since # {} /\ backend' = "filesystem"
        BY <2>2 DEF AnswerGenuine
      <3>1. got # Cut /\ backend' = "filesystem"
        BY <2>2, <2>8
      <3> QED BY <2>3, <2>4, <3>1
    <2> QED BY <2>2, <2>3, <2>9 DEF ReaderInv
  <1>4. CASE CheckDigest
    <2>1. PICK json \in ReadsAsJson(reader.got) :
             reader' = [reader EXCEPT
                          !.pc = IF digest[reader.name] \in {0, reader.got} /\ json
                                 THEN "answered" ELSE "refused"]
      BY <1>4 DEF CheckDigest
    <2>2. /\ reader'.pc = IF digest[reader.name] \in {0, reader.got} /\ json
                          THEN "answered" ELSE "refused"
          /\ reader'.got = reader.got
          /\ reader'.name = reader.name /\ reader'.since = reader.since
          /\ reader'.asked = reader.asked /\ reader.pc = "digest"
          /\ UNCHANGED <<body, digest, backend>>
      BY <1>0, <1>4, <2>1 DEF CheckDigest, Reader, files
    <2>3. backend = "postgres" /\ digest[reader.name] \in 1..MaxVersions
      BY <1>0, <2>2 DEF ReaderInv, Names
    <2>4. reader'.pc = "answered" => reader.got > 0 /\ reader.got # Cut
      BY <2>2, <2>3 DEF Cut
    <2>5. AnswerGenuine'
      BY <2>2, <2>4 DEF AnswerGenuine, ReaderInv, Mixed
    <2>6. reader'.pc \in {"answered", "refused"} /\ 0 \notin reader'.since
      BY <2>2 DEF ReaderInv
    <2> QED BY <2>5, <2>6 DEF ReaderInv
  <1>5. CASE Crash
    <2>1. reader'.pc = "idle" /\ reader'.since = {}
      BY <1>5 DEF Crash, NoReader
    <2> QED BY <2>1 DEF ReaderInv, AnswerGenuine
  <1>6. ASSUME NEW n \in Name, WriteArtifact(n) PROVE ReaderInv'
    <2>1. Cut \in Cut..MaxVersions /\ Cut # 0
      BY DEF Cut
    <2>2. /\ body' = [body EXCEPT ![n] = Cut] /\ reader' = Noted(n, Cut)
          /\ UNCHANGED <<digest, backend>>
      BY <1>6 DEF WriteArtifact
    <2> QED BY <2>1, <2>2, PutStep
  <1>7. ASSUME NEW v \in 1..MaxVersions, ArtifactWritten(v) PROVE ReaderInv'
    <2>1. doing \in Name /\ v \in Cut..MaxVersions /\ v # 0
      BY <1>7 DEF ArtifactWritten, RecordInv, Cut
    <2> QED BY <1>7, <2>1, PutStep DEF ArtifactWritten
  <1>8. CASE UNCHANGED reader /\ ArtifactRow
    <2>1. doing \in Name /\ body[doing] > 0 /\ UNCHANGED <<body, backend>>
          /\ digest' = [digest EXCEPT ![doing] = body[doing]]
      BY <1>8 DEF ArtifactRow, RecordInv, MemoryIntact, reading
    <2>2. \A m \in Name : digest[m] # 0 => digest'[m] # 0
      BY <1>0, <2>1 DEF Names
    <2> QED BY <1>8, <2>1, <2>2 DEF ReaderInv, AnswerGenuine
  <1>9. CASE UNCHANGED <<reader, body, digest, backend>>
    BY <1>9 DEF ReaderInv, AnswerGenuine
  <1> QED BY <1>1, <1>2, <1>3, <1>4, <1>5, <1>6, <1>7, <1>8, <1>9, FileSteps

-----------------------------------------------------------------------------
(* The trail *)

\* Every step leaves room for the event it is to append.
LEMMA RoomStep ==
    ASSUME StoreInv, [Next]_vars
    PROVE  RoomInv'
  <1> USE Bounds DEF StoreInv
  <1>1. CASE Create
    BY <1>1 DEF Create, RoomInv, files, eventVars
  <1>2. CASE ArtifactRow
    BY <1>2 DEF ArtifactRow, RoomInv, eventVars
  <1>3. CASE AppendEvent \/ EventWritten
    <2>1. pc' \in {"idle", "save", "appending"} /\ (doing' = Creating => pc' # "save")
      BY <1>3 DEF AppendEvent, EventWritten, AfterEvent
    <2> QED BY <2>1 DEF RoomInv
  <1>4. CASE Save \/ TmpWritten \/ Rename
    <2>1. /\ UNCHANGED <<happened, doing>> /\ pc \in {"save", "saving", "renaming"}
          /\ pc' \in {"saving", "renaming", "idle"} \/ (doing = Creating /\ pc' = "event")
      BY <1>4 DEF Save, TmpWritten, Rename, AfterSave, eventVars
    <2> QED BY <2>1 DEF RoomInv, TypeOK
  <1>5. CASE RenameRefused \/ Crash
    <2>1. pc' \in {"lost", "idle"}
      BY <1>5 DEF RenameRefused, Crash, Reload
    <2> QED BY <2>1 DEF RoomInv
  <1>6. ASSUME NEW n \in Name, WriteArtifact(n) \/ Repair(n) PROVE RoomInv'
    BY <1>6 DEF WriteArtifact, Repair, RoomInv, files, eventVars
  <1>7. ASSUME NEW v \in 1..MaxVersions, ArtifactWritten(v) PROVE RoomInv'
    BY <1>7 DEF ArtifactWritten, RoomInv, eventVars
  <1>8. ASSUME NEW n \in Name, AskArtifact(n) PROVE RoomInv'
    BY <1>8 DEF AskArtifact, RoomInv, files, eventVars
  <1>9. CASE OpenBody \/ ReadBody \/ CheckDigest \/ ReadEvents \/ UNCHANGED vars
    BY <1>9 DEF OpenBody, ReadBody, CheckDigest, ReadEvents, vars, RoomInv, files, eventVars
  <1> QED
    BY <1>1, <1>2, <1>3, <1>4, <1>5, <1>6, <1>7, <1>8, <1>9 DEF Next

\* Of the other steps none changes the events, and none begins or ends to append.
LEMMA EventSteps ==
    ASSUME [Next]_vars
    PROVE  \/ AppendEvent \/ EventWritten \/ Crash
           \/ /\ UNCHANGED <<events, dangling, happened, crashes, backend>>
              /\ pc = "appending" <=> pc' = "appending"
  <1>1. \/ AppendEvent \/ EventWritten \/ Crash
        \/ UNCHANGED <<events, dangling, happened, crashes, backend>>
    BY DEF Next, vars, Create, ArtifactRow, Save, TmpWritten, Rename, RenameRefused,
           WriteArtifact, Repair, AskArtifact, ArtifactWritten, OpenBody, ReadBody, CheckDigest,
           ReadEvents, files, reading, eventVars
  <1>2. AppendEvent \/ EventWritten \/ Crash \/ (pc = "appending" <=> pc' = "appending")
    BY DEF Next, vars, Create, ArtifactRow, Save, TmpWritten, Rename, RenameRefused,
           WriteArtifact, Repair, AskArtifact, ArtifactWritten, OpenBody, ReadBody, CheckDigest,
           ReadEvents, Reload, AfterSave
  <1> QED BY <1>1, <1>2

\* The three ways an event is appended: a row, a new line, and the rest of a line
\* a crash has cut.
LEMMA AppendCases ==
    ASSUME StoreInv, AppendEvent
    PROVE  /\ happened' = happened + 1 /\ happened \in Nat /\ happened' <= MaxEvents
           /\ pc = "event" /\ UNCHANGED <<crashes, backend>>
           /\ \/ /\ backend = "postgres" /\ pc' # "appending" /\ ~dangling /\ ~dangling'
                 /\ events' = Append(events, happened + 1)
              \/ /\ backend # "postgres" /\ pc' = "appending" /\ dangling'
                 /\ \/ ~dangling /\ events' = Append(events, Cut)
                    \/ /\ dangling /\ events # << >>
                       /\ events' = [events EXCEPT ![Len(events)] = Garbled]
  <1> USE Bounds DEF StoreInv
  <1>1. happened' = happened + 1 /\ happened \in Nat /\ happened' <= MaxEvents /\ pc = "event"
    BY DEF AppendEvent, RoomInv, TypeOK
  <1>2. UNCHANGED <<crashes, backend>>
    BY DEF AppendEvent, reading
  <1>3. CASE backend = "postgres"
    BY <1>1, <1>2, <1>3 DEF AppendEvent, AfterEvent, LinesInv
  <1>4. CASE backend # "postgres"
    BY <1>1, <1>2, <1>4 DEF AppendEvent, LinesInv
  <1> QED BY <1>3, <1>4

\* The last line is completed, by the event or by a crash that leaves no newline.
LEMMA TextCases ==
    ASSUME StoreInv, pc = "appending"
    PROVE  /\ events # << >> /\ dangling /\ backend # "postgres"
           /\ \A i \in DOMAIN events : events[i] < happened
           /\ happened \in 1..MaxEvents
           /\ \/ /\ events[Len(events)] = Garbled
                 /\ TextWritten[Len(events)] = Garbled
              \/ /\ events[Len(events)] = Cut
                 /\ TextWritten[Len(events)] = happened
           /\ \A i \in DOMAIN events : i # Len(events) => TextWritten[i] = events[i]
           /\ DOMAIN TextWritten = DOMAIN events /\ Len(TextWritten) = Len(events)
           /\ Len(events) \in DOMAIN events /\ TextWritten # << >>
  <1> USE DEF StoreInv
  <1>1. /\ events # << >> /\ dangling /\ backend # "postgres"
        /\ \A i \in DOMAIN events : events[i] < happened
        /\ events[Len(events)] \in {Cut, Garbled}
    BY DEF LinesInv
  <1>2. events \in Seq(Garbled..MaxEvents) /\ happened \in 0..MaxEvents /\ Len(events) <= happened
    BY DEF TypeOK
  <1>3. happened \in 1..MaxEvents
    BY <1>1, <1>2, Bounds
  <1> QED BY <1>1, <1>3, <1>2, TextTyped DEF Cut, Garbled

\* Every step keeps the lines of the trail as they are described.
LEMMA LinesStep ==
    ASSUME StoreInv, [Next]_vars
    PROVE  LinesInv' /\ OrderInv'
  <1> USE Bounds DEF StoreInv
  <1>0. /\ events \in Seq(Garbled..MaxEvents) /\ happened \in 0..MaxEvents
        /\ \A i \in DOMAIN events : events[i] \in Int
    BY DEF TypeOK, Garbled
  <1>1. CASE AppendEvent
    <2>1. CASE backend = "postgres"
      <3>1. /\ events' = Append(events, happened + 1) /\ pc' # "appending" /\ ~dangling'
            /\ happened' = happened + 1 /\ happened' \in Garbled..MaxEvents
        BY <1>0, <1>1, <2>1, AppendCases DEF Garbled
      <3>2. /\ DOMAIN events' = 1..(Len(events) + 1) /\ Len(events') = Len(events) + 1
            /\ \A i \in 1..Len(events) : events'[i] = events[i]
            /\ events'[Len(events) + 1] = happened + 1
        BY <1>0, <3>1, AppendedTyped
      <3>3. DOMAIN events = 1..Len(events) /\ Len(events) \in Nat
        BY <1>0
      <3>4. LinesInv'
        <4>1. /\ \A i \in DOMAIN events' : events'[i] <= happened'
              /\ \A i \in DOMAIN events' : events'[i] > 0
          BY <1>0, <2>1, <3>1, <3>2, <3>3 DEF LinesInv
        <4> QED BY <3>1, <4>1 DEF LinesInv
      <3>5. OrderInv'
        <4> SUFFICES ASSUME \A i \in DOMAIN events' : events'[i] # Garbled
                     PROVE  /\ Len(events') = happened'
                            /\ \A i \in DOMAIN events' : events'[i] \in {i, Cut}
          BY DEF OrderInv
        <4>1. \A i \in DOMAIN events : events[i] # Garbled
          BY <3>2, <3>3
        <4>2. Len(events) = happened /\ \A i \in DOMAIN events : events[i] \in {i, Cut}
          BY <4>1 DEF OrderInv
        <4> QED BY <3>1, <3>2, <3>3, <4>2
      <3> QED BY <3>4, <3>5
    <2>2. CASE backend # "postgres" /\ ~dangling
      <3>1. /\ events' = Append(events, Cut) /\ pc' = "appending" /\ dangling'
            /\ happened' = happened + 1 /\ backend' # "postgres"
        BY <1>1, <2>2, AppendCases
      <3>2. /\ DOMAIN events' = 1..(Len(events) + 1) /\ Len(events') = Len(events) + 1
            /\ \A i \in 1..Len(events) : events'[i] = events[i]
            /\ events'[Len(events) + 1] = Cut
        BY <1>0, <3>1, AppendedTyped, LinesTyped
      <3>3. DOMAIN events = 1..Len(events) /\ Len(events) \in Nat
        BY <1>0
      <3>4. events' # << >>
        BY <3>2, <3>3
      <3>5. \A i \in DOMAIN events' : events'[i] < happened'
        BY <1>0, <3>1, <3>2, <3>3 DEF LinesInv, Cut
      <3>6. LinesInv'
        BY <1>0, <3>1, <3>2, <3>3, <3>4, <3>5, LinesTyped DEF LinesInv, Cut
      <3>7. OrderInv'
        <4> SUFFICES ASSUME \A i \in DOMAIN events' : events'[i] # Garbled
                     PROVE  /\ Len(events') = happened'
                            /\ \A i \in DOMAIN events' : events'[i] \in {i, Cut}
          BY DEF OrderInv
        <4>1. \A i \in DOMAIN events : events[i] # Garbled
          BY <3>2, <3>3
        <4>2. Len(events) = happened /\ \A i \in DOMAIN events : events[i] \in {i, Cut}
          BY <4>1 DEF OrderInv
        <4> QED BY <3>1, <3>2, <3>3, <4>2
      <3> QED BY <3>6, <3>7
    <2>3. CASE backend # "postgres" /\ dangling
      <3>1. /\ events' = [events EXCEPT ![Len(events)] = Garbled] /\ pc' = "appending" /\ dangling'
            /\ happened' = happened + 1 /\ backend' # "postgres" /\ events # << >>
        BY <1>1, <2>3, AppendCases
      <3>2. /\ DOMAIN events' = DOMAIN events /\ Len(events') = Len(events)
            /\ Len(events) \in DOMAIN events /\ events'[Len(events)] = Garbled
            /\ \A i \in DOMAIN events : i # Len(events) => events'[i] = events[i]
        BY <1>0, <3>1, ReplacedTyped, LinesTyped
      <3>3. \A i \in DOMAIN events' : events'[i] < happened'
        BY <1>0, <3>1, <3>2 DEF LinesInv, Garbled
      <3>4. events' # << >>
        BY <1>0, <3>1, <3>2
      <3>5. LinesInv'
        <4>1. \A i \in DOMAIN events' : events'[i] <= happened'
          BY <1>0, <3>1, <3>2 DEF LinesInv, Garbled
        <4> QED BY <3>1, <3>2, <3>3, <3>4, <4>1 DEF LinesInv
      <3>6. OrderInv'
        BY <3>2 DEF OrderInv
      <3> QED BY <3>5, <3>6
    <2> QED BY <2>1, <2>2, <2>3
  <1>2. ASSUME pc = "appending", events' = TextWritten, happened' = happened,
               pc' # "appending", backend' = backend
        PROVE  LinesInv' /\ OrderInv'
    <2>1. LinesInv'
      BY <1>0, <1>2, TextCases DEF LinesInv, Garbled
    <2>2. OrderInv'
      <3> SUFFICES ASSUME \A i \in DOMAIN events' : events'[i] # Garbled
                   PROVE  /\ Len(events') = happened
                          /\ \A i \in DOMAIN events' : events'[i] \in {i, Cut}
        BY <1>2 DEF OrderInv
      <3>1. \A i \in DOMAIN events : events[i] # Garbled
        BY <1>2, TextCases DEF Garbled, Cut
      <3>2. Len(events) = happened /\ \A i \in DOMAIN events : events[i] \in {i, Cut}
        BY <3>1 DEF OrderInv
      <3>3. events'[Len(events)] = happened
        BY <1>2, <3>1, TextCases
      <3> QED BY <1>2, <3>2, <3>3, TextCases
    <2> QED BY <2>1, <2>2
  <1>3. CASE EventWritten
    BY <1>2, <1>3 DEF EventWritten, AfterEvent, reading
  <1>4. CASE Crash
    <2>1. pc' # "appending" /\ UNCHANGED <<dangling, happened, backend>>
      BY <1>4 DEF Crash, Reload
    <2>2. CASE UNCHANGED events
      BY <2>1, <2>2 DEF LinesInv, OrderInv
    <2>3. CASE pc = "appending" /\ events' = TextWritten
      BY <1>2, <2>1, <2>3
    <2> QED BY <1>4, <2>2, <2>3 DEF Crash
  <1>5. CASE /\ UNCHANGED <<events, dangling, happened, crashes, backend>>
             /\ pc = "appending" <=> pc' = "appending"
    BY <1>5 DEF LinesInv, OrderInv
  <1> QED BY <1>1, <1>3, <1>4, <1>5, EventSteps

\* The unsafe events are finitely many.
LEMMA UnsafeFinite ==
    ASSUME TypeOK
    PROVE  IsFiniteSet(Unsafe) /\ Cardinality(Unsafe) \in Nat
  <1>1. IsFiniteSet(1..happened)
    BY FS_Interval DEF TypeOK
  <1>2. Unsafe \subseteq 1..happened
    BY DEF Unsafe
  <1> QED BY <1>1, <1>2, FS_Subset, FS_CardinalityType

\* A set that one more element contains has at most one element more.
LEMMA OneMore ==
    ASSUME NEW S, IsFiniteSet(S), NEW T, NEW x, T \subseteq S \cup {x}
    PROVE  IsFiniteSet(T) /\ Cardinality(T) <= Cardinality(S) + 1
  <1>0. Cardinality(S) \in Nat
    BY FS_CardinalityType
  <1>1. /\ IsFiniteSet(S \cup {x})
        /\ Cardinality(S \cup {x}) <= Cardinality(S) + 1
    <2>1. CASE x \in S
      <3>1. S \cup {x} = S
        BY <2>1
      <3> QED BY <1>0, <3>1
    <2>2. CASE x \notin S
      <3>1. /\ IsFiniteSet(S \cup {x})
            /\ Cardinality(S \cup {x}) = IF x \in S THEN Cardinality(S) ELSE Cardinality(S) + 1
        BY FS_AddElement
      <3> QED BY <1>0, <2>2, <3>1
    <2> QED BY <2>1, <2>2
  <1>2. Cardinality(T) <= Cardinality(S \cup {x}) /\ IsFiniteSet(T)
    BY <1>1, FS_Subset
  <1> QED BY <1>1, <1>2, FS_CardinalityType

\* A subset that misses an element has fewer.
LEMMA OneLess ==
    ASSUME NEW S, IsFiniteSet(S), NEW T, NEW x \in S, T \subseteq S \ {x}
    PROVE  Cardinality(T) <= Cardinality(S) - 1
  <1>1. IsFiniteSet(S \ {x}) /\ Cardinality(S \ {x}) = Cardinality(S) - 1
    BY FS_RemoveElement
  <1> QED BY <1>1, FS_Subset

\* Every step keeps the number of unsafe events within what the crashes account for.
LEMMA LossStep ==
    ASSUME StoreInv, [Next]_vars
    PROVE  LossInv'
  <1> USE DEF StoreInv
  <1>0. /\ events \in Seq(Garbled..MaxEvents) /\ happened \in 0..MaxEvents
        /\ \A i \in DOMAIN events : events[i] \in Int
        /\ crashes \in Nat /\ dangling \in BOOLEAN
    BY Bounds DEF TypeOK, Garbled
  <1>1. IsFiniteSet(Unsafe) /\ Cardinality(Unsafe) \in Nat /\ Cardinality(Unsafe) <= Budget
    BY UnsafeFinite DEF LossInv
  <1>2. Budget \in Int /\ Budget = 2 * crashes + (IF pc = "appending"
            THEN IF events[Len(events)] = Garbled THEN 0 ELSE 1
            ELSE IF dangling THEN -1 ELSE 0)
    BY <1>0 DEF Budget
  <1>3. ASSUME Unsafe' \subseteq Unsafe, Budget <= Budget', Budget' \in Int
        PROVE  LossInv'
    <2>1. Cardinality(Unsafe') <= Cardinality(Unsafe) /\ Cardinality(Unsafe') \in Nat
      BY <1>1, <1>3, FS_Subset, FS_CardinalityType
    <2> QED BY <1>1, <1>2, <1>3, <2>1 DEF LossInv
  <1>4. ASSUME NEW x, Unsafe' \subseteq Unsafe \cup {x}, Budget' = Budget + 1
        PROVE  LossInv'
    <2>1. Cardinality(Unsafe') <= Cardinality(Unsafe) + 1 /\ IsFiniteSet(Unsafe')
      BY <1>1, <1>4, OneMore
    <2>2. Cardinality(Unsafe') \in Nat
      BY <2>1, FS_CardinalityType
    <2> QED BY <1>1, <1>2, <1>4, <2>1, <2>2 DEF LossInv
  <1>5. CASE AppendEvent
    <2>1. happened' = happened + 1 /\ pc = "event" /\ crashes' = crashes
      BY <1>5, AppendCases
    <2>2. CASE backend = "postgres"
      <3>1. /\ events' = Append(events, happened + 1) /\ pc' # "appending"
            /\ dangling = FALSE /\ dangling' = FALSE /\ happened + 1 \in Garbled..MaxEvents
        BY <1>0, <1>5, <2>1, <2>2, AppendCases DEF Garbled
      <3>2. /\ DOMAIN events' = 1..(Len(events) + 1)
            /\ \A i \in 1..Len(events) : events'[i] = events[i]
            /\ events'[Len(events) + 1] = happened + 1
            /\ DOMAIN events = 1..Len(events) /\ Len(events) \in Nat
        BY <1>0, <3>1, AppendedTyped
      <3>3. Budget' = Budget
        BY <1>2, <2>1, <3>1 DEF Budget
      <3>4. Unsafe' \subseteq Unsafe
        <4> SUFFICES ASSUME NEW e \in Unsafe' PROVE e \in Unsafe
          OBVIOUS
        <4>1. e \in 1..(happened + 1) /\ \A i \in DOMAIN events' : events'[i] # e
          BY <2>1, <3>1 DEF Unsafe
        <4>2. e # happened + 1
          BY <3>2, <4>1
        <4>3. e \in 1..happened
          BY <1>0, <4>1, <4>2
        <4>4. \A i \in DOMAIN events : events[i] # e
          BY <3>2, <4>1
        <4> QED BY <4>3, <4>4 DEF Unsafe
      <3> QED BY <1>2, <1>3, <3>3, <3>4
    <2>3. CASE backend # "postgres" /\ ~dangling
      <3>1. /\ events' = Append(events, Cut) /\ pc' = "appending" /\ dangling' = TRUE
            /\ dangling = FALSE
        BY <1>0, <1>5, <2>3, AppendCases, <1>2 DEF AppendEvent
      <3>2. /\ DOMAIN events' = 1..(Len(events) + 1) /\ Len(events') = Len(events) + 1
            /\ \A i \in 1..Len(events) : events'[i] = events[i]
            /\ events'[Len(events) + 1] = Cut
            /\ DOMAIN events = 1..Len(events) /\ Len(events) \in Nat
        BY <1>0, <3>1, AppendedTyped, LinesTyped
      <3>3. events'[Len(events')] # Garbled
        BY <3>2 DEF Cut, Garbled
      <3>4. Budget' = Budget + 1
        BY <1>0, <1>2, <2>1, <3>1, <3>3 DEF Budget
      <3>5. Unsafe' \subseteq Unsafe \cup {happened + 1}
        <4> SUFFICES ASSUME NEW e \in Unsafe', e # happened + 1 PROVE e \in Unsafe
          OBVIOUS
        <4>1. /\ e \in 1..(happened + 1)
              /\ \A i \in DOMAIN events' : events'[i] = e => i = Len(events')
          BY <2>1 DEF Unsafe
        <4>2. e \in 1..happened
          BY <1>0, <4>1
        <4>3. \A i \in DOMAIN events : events[i] # e
          BY <3>2, <4>1
        <4> QED BY <4>2, <4>3 DEF Unsafe
      <3> QED BY <1>4, <3>4, <3>5
    <2>4. CASE backend # "postgres" /\ dangling
      <3>1. /\ events' = [events EXCEPT ![Len(events)] = Garbled] /\ events # << >>
            /\ pc' = "appending" /\ dangling = TRUE
        BY <1>0, <1>5, <2>4, AppendCases
      <3>2. /\ DOMAIN events' = DOMAIN events /\ Len(events') = Len(events)
            /\ events'[Len(events)] = Garbled
            /\ \A i \in DOMAIN events : i # Len(events) => events'[i] = events[i]
        BY <1>0, <3>1, ReplacedTyped, LinesTyped
      <3>3. Budget' = Budget + 1
        BY <1>0, <1>2, <2>1, <3>1, <3>2 DEF Budget
      <3>4. Unsafe' \subseteq Unsafe \cup {happened + 1}
        <4> SUFFICES ASSUME NEW e \in Unsafe', e # happened + 1 PROVE e \in Unsafe
          OBVIOUS
        <4>1. /\ e \in 1..(happened + 1)
              /\ \A i \in DOMAIN events' : events'[i] = e => i = Len(events')
          BY <2>1 DEF Unsafe
        <4>2. e \in 1..happened
          BY <1>0, <4>1
        <4>3. \A i \in DOMAIN events : events[i] = e => i = Len(events)
          BY <3>2, <4>1
        <4> QED BY <2>4, <4>2, <4>3 DEF Unsafe
      <3> QED BY <1>4, <3>3, <3>4
    <2> QED BY <2>2, <2>3, <2>4
  <1>6. CASE EventWritten
    <2>1. /\ pc = "appending" /\ pc' # "appending" /\ dangling' = FALSE
          /\ events' = TextWritten /\ UNCHANGED <<happened, crashes>>
      BY <1>6 DEF EventWritten, AfterEvent
    <2>2. Budget' = 2 * crashes
      BY <1>0, <2>1 DEF Budget
    <2>3. Unsafe' \subseteq Unsafe
      <3> SUFFICES ASSUME NEW e \in Unsafe' PROVE e \in Unsafe
        OBVIOUS
      <3>1. e \in 1..happened /\ \A i \in DOMAIN events' : events'[i] # e
        BY <2>1 DEF Unsafe
      <3>2. \A i \in DOMAIN events : events[i] = e => i = Len(events)
        BY <2>1, <3>1, TextCases
      <3> QED BY <2>1, <3>1, <3>2, TextCases DEF Unsafe
    <2>4. CASE events[Len(events)] = Garbled
      BY <1>0, <1>2, <1>3, <2>1, <2>2, <2>3, <2>4
    <2>5. CASE events[Len(events)] # Garbled
      <3>1. happened \in Unsafe
        BY <1>0, <2>1, TextCases DEF Unsafe
      <3>2. happened \notin Unsafe'
        <4>1. Len(events) \in DOMAIN events' /\ events'[Len(events)] = happened
          BY <2>1, <2>5, TextCases
        <4> QED BY <2>1, <4>1 DEF Unsafe
      <3>3. Cardinality(Unsafe') <= Cardinality(Unsafe) - 1 /\ Cardinality(Unsafe') \in Nat
        BY <1>1, <2>3, <3>1, <3>2, OneLess, FS_Subset, FS_CardinalityType
      <3> QED BY <1>0, <1>1, <1>2, <2>1, <2>2, <2>5, <3>3 DEF LossInv
    <2> QED BY <2>4, <2>5
  <1>7. CASE Crash
    <2>1. /\ pc' # "appending" /\ crashes' = crashes + 1 /\ UNCHANGED <<dangling, happened>>
      BY <1>7 DEF Crash, Reload
    <2>2. Budget <= Budget' /\ Budget' \in Int
      BY <1>0, <1>2, <2>1, TextCases DEF Budget
    <2>3. Unsafe' \subseteq Unsafe
      <3>1. CASE UNCHANGED events
        BY <2>1, <3>1 DEF Unsafe
      <3>2. CASE pc = "appending" /\ events' = TextWritten
        <4> SUFFICES ASSUME NEW e \in Unsafe' PROVE e \in Unsafe
          OBVIOUS
        <4>1. /\ e \in 1..happened
              /\ \A i \in DOMAIN events' : events'[i] = e => i = Len(events')
          BY <2>1 DEF Unsafe
        <4>2. \A i \in DOMAIN events : events[i] = e => i = Len(events)
          BY <3>2, <4>1, TextCases
        <4> QED BY <3>2, <4>1, <4>2, TextCases DEF Unsafe
      <3> QED BY <1>7, <3>1, <3>2 DEF Crash
    <2> QED BY <1>3, <2>2, <2>3
  <1>8. CASE /\ UNCHANGED <<events, dangling, happened, crashes, backend>>
             /\ pc = "appending" <=> pc' = "appending"
    BY <1>1, <1>8 DEF LossInv, Unsafe, Budget
  <1> QED BY <1>5, <1>6, <1>7, <1>8, EventSteps

\* Every step keeps the last answer to a request for the events.
LEMMA AnsweredStep ==
    ASSUME StoreInv, [Next]_vars
    PROVE  AnsweredInv'
  <1> USE Bounds DEF StoreInv
  <1>1. CASE ReadEvents
    <2>1. trail' = Parsed(events) /\ happened' = happened
      BY <1>1 DEF ReadEvents, files, eventVars
    <2>2. CASE \A i \in DOMAIN events : events[i] > 0
      <3>1. Len(events) = happened /\ \A i \in DOMAIN events : events[i] = i
        BY <2>2 DEF OrderInv, Garbled, Cut
      <3>2. trail' = [ok |-> TRUE, events |-> events]
        BY <2>1, <2>2 DEF Parsed
      <3>3. Len(events) <= happened'
        BY <2>1, <3>1 DEF TypeOK
      <3> QED BY <3>1, <3>2, <3>3 DEF AnsweredInv
    <2>3. CASE ~ \A i \in DOMAIN events : events[i] > 0
      <3>1. trail' = [ok |-> FALSE, events |-> << >>]
        BY <2>1, <2>3, Zenon DEF Parsed
      <3> QED BY <3>1 DEF AnsweredInv
    <2> QED BY <2>2, <2>3
  <1>2. CASE ~ReadEvents
    <2>1. UNCHANGED trail
      BY <1>2 DEF Next, vars, Create, ArtifactRow, AppendEvent, EventWritten, Save, TmpWritten,
             Rename, RenameRefused, Crash, WriteArtifact, Repair, AskArtifact, ArtifactWritten,
             OpenBody, ReadBody, CheckDigest, reading
    <2>2. happened' \in {happened, happened + 1}
      BY EventSteps DEF AppendEvent, EventWritten, Crash
    <2>3. trail.ok => Len(trail.events) <= happened'
      <3>1. trail.events \in Seq(Garbled..MaxEvents) /\ happened \in Nat
        BY DEF TypeOK
      <3>2. Len(trail.events) \in Nat
        BY <3>1
      <3> QED BY <2>2, <3>1, <3>2 DEF AnsweredInv
    <2> QED BY <2>1, <2>3 DEF AnsweredInv
  <1> QED BY <1>1, <1>2

-----------------------------------------------------------------------------
(* The theorems *)

\* A store of which nothing has been written satisfies the invariant.
LEMMA StoreInit == Init => StoreInv
  <1> SUFFICES ASSUME Init PROVE StoreInv
    OBVIOUS
  <1> USE Bounds, RecordsTyped
  <1>1. TypeOK
    <2>1. reader \in Reader
      BY DEF Init, NoReader, Reader, Cut, Mixed
    <2>2. body \in [Name -> Cut..MaxVersions] /\ digest \in Names /\ mem \in Names
      BY DEF Init, Blank, Names, Cut
    <2>3. events \in Seq(Garbled..MaxEvents) /\ Len(events) <= happened /\ happened \in 0..MaxEvents
      BY DEF Init
    <2>4. trail \in [ok : BOOLEAN, events : Seq(Garbled..MaxEvents)]
      BY DEF Init
    <2>5. run_json \in Record /\ tmp \in Record /\ doing \in Creating..N /\ crashes \in 0..MaxCrashes
      BY DEF Init, Creating
    <2> QED BY <2>1, <2>2, <2>3, <2>4, <2>5 DEF Init, TypeOK
  <1>2. RecordInv
    BY DEF Init, RecordInv, Creating
  <1>3. NamedArtifactsIntact /\ MemoryIntact
    BY DEF Init, NamedArtifactsIntact, MemoryIntact, Blank
  <1>4. ReaderInv /\ RoomInv
    BY DEF Init, ReaderInv, AnswerGenuine, NoReader, RoomInv, Creating
  <1>5. LinesInv /\ OrderInv /\ AnsweredInv
    BY DEF Init, LinesInv, OrderInv, AnsweredInv
  <1>6. LossInv
    <2>1. Unsafe = {}
      BY DEF Init, Unsafe
    <2>2. Budget = 0
      BY DEF Init, Budget
    <2> QED BY <2>1, <2>2, FS_EmptySet DEF LossInv
  <1> QED BY <1>1, <1>2, <1>3, <1>4, <1>5, <1>6 DEF StoreInv

\* The invariant, for any number of artifacts, versions, events and crashes.
THEOREM StoreInvariance == Spec => []StoreInv
  <1>1. Init => StoreInv
    BY StoreInit
  <1>2. StoreInv /\ [Next]_vars => StoreInv'
    <2> SUFFICES ASSUME StoreInv, [Next]_vars PROVE StoreInv'
      OBVIOUS
    <2>1. TypeOK'
      BY TypeStep
    <2>2. RecordInv' /\ NamedArtifactsIntact' /\ MemoryIntact'
      BY RecordStep
    <2>3. ReaderInv' /\ RoomInv'
      BY ReaderStep, RoomStep
    <2>4. LinesInv' /\ OrderInv'
      BY LinesStep
    <2>5. LossInv' /\ AnsweredInv'
      BY LossStep, AnsweredStep
    <2> QED BY <2>1, <2>2, <2>3, <2>4, <2>5 DEF StoreInv
  <1> QED BY <1>1, <1>2, PTL DEF Spec

\* Whatever a resumed run reads of the artifacts its record names is complete and
\* of the round the record was saved in, wherever the server died in between
\* (_record_artifact, _start_repair, write_artifact, save).
THEOREM NamedAlwaysIntact == Spec => []NamedArtifactsIntact
  <1>1. StoreInv => NamedArtifactsIntact
    BY DEF StoreInv
  <1> QED BY <1>1, StoreInvariance, PTL

\* Whatever the runner writes while a request is served, it is answered with the
\* version the record named or one written since, or, of the filesystem, with parts
\* of both, and never with a torn file (OrchestrationService.artifact, read_artifact).
THEOREM AnswerAlwaysGenuine == Spec => []AnswerGenuine
  <1>1. StoreInv => AnswerGenuine
    BY DEF StoreInv, ReaderInv
  <1> QED BY <1>1, StoreInvariance, PTL

\* The trail is told in order and without gaps or not at all, a row is never lost,
\* and each crash costs the file at most two events (append_event, read_events).
THEOREM TrailAlwaysSurvives == Spec => []TrailSurvives
  <1> DEFINE lost == {e \in 1..happened : \A i \in DOMAIN events : events[i] # e}
  <1>1. StoreInv => TrailSurvives
    <2> SUFFICES ASSUME StoreInv PROVE TrailSurvives
      OBVIOUS
    <2> USE DEF StoreInv
    <2>1. /\ crashes \in Nat /\ dangling \in BOOLEAN /\ happened \in Nat
          /\ IsFiniteSet(Unsafe) /\ Cardinality(Unsafe) \in Nat
      BY UnsafeFinite, Bounds DEF TypeOK
    <2>2. backend = "postgres" => lost = {}
      <3> SUFFICES ASSUME backend = "postgres", NEW e \in 1..happened
                   PROVE  \E i \in DOMAIN events : events[i] = e
        OBVIOUS
      <3>1. Len(events) = happened /\ \A i \in DOMAIN events : events[i] = i
        BY DEF LinesInv, OrderInv, Garbled, Cut
      <3>2. DOMAIN events = 1..happened
        BY <3>1 DEF TypeOK
      <3> QED BY <3>1, <3>2
    <2>3. lost \subseteq Unsafe
      BY DEF Unsafe
    <2>4. Cardinality(lost) <= Cardinality(Unsafe) /\ Cardinality(lost) \in Nat
      BY <2>1, <2>3, FS_Subset, FS_CardinalityType
    <2>5. /\ Budget \in Int
          /\ Budget <= 2 * crashes + (IF pc = "appending" THEN 1 ELSE 0)
      BY <2>1 DEF Budget
    <2>6. Cardinality(lost) <= 2 * crashes + (IF pc = "appending" THEN 1 ELSE 0)
      <3> HIDE DEF lost
      <3> QED BY <2>1, <2>4, <2>5 DEF LossInv
    <2>7. trail.ok => /\ Len(trail.events) <= happened
                      /\ \A i \in DOMAIN trail.events : trail.events[i] = i
      BY DEF AnsweredInv
    <2> QED BY <2>2, <2>6, <2>7 DEF TrailSurvives
  <1> QED BY <1>1, StoreInvariance, PTL

\* Once a run has a record it has one that loads, and only a save replaces it, by
\* the record as the runner has it (FilesystemRunStore.save, PostgresRunStore.save).
THEOREM RecordEverLoads == Spec => RecordAlwaysLoads
  <1> DEFINE Replaced == /\ run_json'.state # "cut"
                         /\ run_json.state = "whole" => run_json'.state = "whole"
                         /\ run_json' # run_json => run_json' = Whole(mem)
  <1>1. StoreInv /\ [Next]_vars => [Replaced]_vars
    <2> SUFFICES ASSUME StoreInv, Next PROVE Replaced
      OBVIOUS
    <2>1. CASE Save \/ Rename
      <3>1. run_json' \in {run_json, Whole(mem)}
        BY <2>1 DEF Save, Rename, StoreInv, RecordInv
      <3> QED BY <3>1, RecordsTyped DEF StoreInv, RecordInv
    <2>2. CASE ~(Save \/ Rename)
      <3>1. UNCHANGED run_json
        BY <2>2 DEF Next, Create, ArtifactRow, AppendEvent, EventWritten, TmpWritten,
               RenameRefused, Crash, WriteArtifact, Repair, AskArtifact, ArtifactWritten,
               OpenBody, ReadBody, CheckDigest, ReadEvents, files
      <3> QED BY <3>1 DEF StoreInv, RecordInv
    <2> QED BY <2>1, <2>2
  <1> QED BY <1>1, StoreInvariance, PTL DEF Spec, RecordAlwaysLoads
=============================================================================
