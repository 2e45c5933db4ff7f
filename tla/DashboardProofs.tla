--------------------------- MODULE DashboardProofs ---------------------------
(***************************************************************************)
(* Proofs about the dashboard's tab, for any number of calls of render and *)
(* of writes in flight, and however far the run goes.                      *)
(***************************************************************************)
EXTENDS Dashboard, TLAPS

RunRecords == [version : Nat, approval : Nat, over : BOOLEAN]

Writing == [kind : {"none", "decide", "cancel"}, shown : Nat,
            step : {"none", "sent", "answered", "refused"}]

Rendering == [route : Routes, current : BOOLEAN, run : RunRecords,
              step : {"capabilities", "load", "draw"}, then : Writing]

Views == [page : Routes \cup {"loading", "error"}, run : RunRecords,
          busy : BOOLEAN, clicked : BOOLEAN]

\* The types, without the bounds.
Types ==
  /\ run \in RunRecords
  /\ route \in Routes
  /\ view \in Views
  /\ renders \in Seq(Rendering)
  /\ posts \in Seq(Writing)
  /\ pendingAction \in BOOLEAN /\ excused \in BOOLEAN /\ astray \in BOOLEAN

\* At most the newest call of render may still draw.
OneDraws == \A i \in DOMAIN renders : renders[i].current => i = Len(renders)

\* What the tab shows of the run, and what the call that may draw has loaded to
\* replace it, are the route's, and the one is not newer than the other, nor the
\* other than the record.
ShownInv ==
  /\ view.page = "detail" => route = "detail" /\ view.run.version <= run.version
  /\ \A i \in DOMAIN renders :
       renders[i].current =>
         /\ renders[i].route = route
         /\ (renders[i].step = "draw" /\ route = "detail") =>
              /\ renders[i].run.version <= run.version
              /\ view.page = "detail" => view.run.version <= renders[i].run.version

\* There is at most one write, either still to be sent or sent, and the tab knows.
OneWrite ==
  /\ Len(posts) <= 1
  /\ \A i, j \in DOMAIN renders :
       renders[i].then # NoPost /\ renders[j].then # NoPost => i = j
  /\ posts # << >> => \A i \in DOMAIN renders : renders[i].then = NoPost
  /\ ~pendingAction => /\ posts = << >>
                       /\ \A i \in DOMAIN renders : renders[i].then = NoPost

\* An approval that can be decided in this view is the one pending,
FreshView ==
  (view.page = "detail" /\ ~view.busy /\ ~view.clicked) =>
    /\ ~pendingAction
    /\ view.run.approval # 0 => view.run.approval = run.approval

\* or in the view that is about to be drawn,
FreshLoad ==
  \A i \in DOMAIN renders :
    (renders[i].current /\ renders[i].step = "draw" /\ ~pendingAction
        /\ renders[i].run.approval # 0) =>
      renders[i].run.approval = run.approval

\* and one that was decided in it still is until the server handles the decision.
Decided(w) == w.shown # 0 /\ w.shown = run.approval
DecidesShown ==
  /\ \A i \in DOMAIN renders :
       renders[i].then.kind = "decide" => Decided(renders[i].then)
  /\ \A k \in DOMAIN posts :
       (posts[k].kind = "decide" /\ posts[k].step = "sent") => Decided(posts[k])

DecisionInv == ~excused => OneWrite /\ FreshView /\ FreshLoad /\ DecidesShown

DashboardInv == Types /\ OneDraws /\ ShownInv /\ DecisionInv /\ ~astray

-----------------------------------------------------------------------------
(* The calls of render *)

\* Removing an element of a sequence moves those behind it up.
LEMMA Removed ==
  ASSUME NEW S, NEW s \in Seq(S), NEW i \in DOMAIN s
  PROVE  /\ RemoveAt(s, i) \in Seq(S)
         /\ Len(RemoveAt(s, i)) = Len(s) - 1
         /\ \A j \in DOMAIN RemoveAt(s, i) :
              /\ j < i => j \in DOMAIN s /\ RemoveAt(s, i)[j] = s[j]
              /\ j >= i => j + 1 \in DOMAIN s /\ RemoveAt(s, i)[j] = s[j + 1]
  <1>1. i \in 1..Len(s) /\ Len(s) \in Nat
    OBVIOUS
  <1> DEFINE before == SubSeq(s, 1, i - 1)
             behind == SubSeq(s, i + 1, Len(s))
  <1>2. /\ before \in Seq(S) /\ Len(before) = i - 1
        /\ \A j \in 1..(i - 1) : before[j] = s[j]
    BY <1>1
  <1>3. /\ behind \in Seq(S) /\ Len(behind) = Len(s) - i
        /\ \A j \in 1..(Len(s) - i) : behind[j] = s[i + j]
    BY <1>1
  <1>4. RemoveAt(s, i) = before \o behind
    BY DEF RemoveAt
  <1> HIDE DEF before, behind
  <1>5. /\ before \o behind \in Seq(S) /\ Len(before \o behind) = Len(s) - 1
        /\ DOMAIN (before \o behind) = 1..(Len(s) - 1)
    BY <1>1, <1>2, <1>3
  <1>6. ASSUME NEW j \in 1..(Len(s) - 1)
        PROVE  /\ j < i => (before \o behind)[j] = s[j]
               /\ j >= i => (before \o behind)[j] = s[j + 1]
    <2>1. CASE j < i
      BY <2>1, <1>1, <1>2, <1>3
    <2>2. CASE j >= i
      <3>1. (before \o behind)[j] = behind[j - (i - 1)]
        BY <2>2, <1>1, <1>2, <1>3
      <3>2. j - (i - 1) \in 1..(Len(s) - i) /\ i + (j - (i - 1)) = j + 1
        BY <2>2, <1>1
      <3> QED BY <3>1, <3>2, <2>2, <1>3
    <2> QED BY <2>1, <2>2, <1>1
  <1>7. \A j \in 1..(Len(s) - 1) : j \in 1..Len(s) /\ j + 1 \in 1..Len(s)
    BY <1>1
  <1>8. DOMAIN s = 1..Len(s)
    OBVIOUS
  <1> QED BY <1>4, <1>5, <1>6, <1>7, <1>8

\* The calls of render in flight, and what each of them holds.
LEMMA CallsTyped ==
  ASSUME Types, NEW i \in DOMAIN renders
  PROVE  /\ renders[i] \in Rendering /\ renders[i].run \in RunRecords
         /\ renders[i].then \in Writing
  <1>1. renders[i] \in Rendering
    BY DEF Types
  <1> QED BY <1>1 DEF Rendering

\* Counting the generation up leaves every call its write and lets none draw
\* (render).
LEMMA OutdatedCalls ==
  ASSUME Types
  PROVE  /\ Outdated \in Seq(Rendering) /\ Len(Outdated) = Len(renders)
         /\ DOMAIN Outdated = DOMAIN renders
         /\ \A i \in DOMAIN renders :
              ~Outdated[i].current /\ Outdated[i].then = renders[i].then
  <1>1. renders \in Seq(Rendering) /\ DOMAIN renders = 1..Len(renders)
    BY DEF Types
  <1>2. ASSUME NEW i \in DOMAIN renders
        PROVE  /\ Outdated[i] \in Rendering
               /\ ~Outdated[i].current /\ Outdated[i].then = renders[i].then
    <2>1. renders[i] \in Rendering
      BY <1>1
    <2>2. Outdated[i] = [renders[i] EXCEPT !.current = FALSE, !.run = NoRun,
                            !.step = IF @ = "draw" THEN "load" ELSE @]
      BY DEF Outdated
    <2>3. NoRun \in RunRecords
      BY DEF NoRun, Run, RunRecords
    <2> QED BY <2>1, <2>2, <2>3 DEF Rendering
  <1>3. DOMAIN Outdated = DOMAIN renders
    BY DEF Outdated
  <1>4. Outdated \in [1..Len(renders) -> Rendering]
    BY <1>1, <1>2 DEF Outdated
  <1> QED BY <1>1, <1>2, <1>3, <1>4

\* What the calls are after one that returned: one fewer, and its write sent.
LEMMA ReturnStep ==
  ASSUME DashboardInv, NEW i \in DOMAIN renders, Return(i)
  PROVE  /\ renders' \in Seq(Rendering) /\ posts' \in Seq(Writing)
         /\ OneDraws'
         /\ \A j \in DOMAIN renders' :
              \E k \in DOMAIN renders : k # i /\ renders'[j] = renders[k]
         /\ ~excused => OneWrite' /\ DecidesShown'
  <1>1. /\ renders \in Seq(Rendering) /\ posts \in Seq(Writing)
        /\ renders' = RemoveAt(renders, i)
        /\ UNCHANGED <<run, route, pendingAction, excused, astray>>
    BY DEF DashboardInv, Types, Return, notes
  <1>2. /\ renders' \in Seq(Rendering) /\ Len(renders') = Len(renders) - 1
        /\ \A j \in DOMAIN renders' :
             /\ j < i => j \in DOMAIN renders /\ renders'[j] = renders[j]
             /\ j >= i => j + 1 \in DOMAIN renders /\ renders'[j] = renders[j + 1]
    BY <1>1, Removed
  <1>3. /\ DOMAIN renders = 1..Len(renders) /\ DOMAIN renders' = 1..Len(renders')
        /\ Len(renders) \in Nat /\ Len(renders') \in Nat /\ i \in 1..Len(renders)
    BY <1>1, <1>2
  <1>4. \A j \in DOMAIN renders' :
          \E k \in DOMAIN renders : k # i /\ renders'[j] = renders[k]
    <2> TAKE j \in DOMAIN renders'
    <2>1. CASE j < i
      BY <2>1, <1>2
    <2>2. CASE j >= i
      BY <2>2, <1>2, <1>3
    <2> QED BY <2>1, <2>2, <1>3
  <1>5. OneDraws'
    <2> SUFFICES ASSUME NEW j \in DOMAIN renders', renders'[j].current
                 PROVE  j = Len(renders')
      BY DEF OneDraws
    <2>1. CASE j < i
      BY <2>1, <1>2, <1>3 DEF DashboardInv, OneDraws
    <2>2. CASE j >= i
      <3>1. j + 1 \in DOMAIN renders /\ renders[j + 1].current
        BY <2>2, <1>2
      <3>2. j + 1 = Len(renders)
        BY <3>1 DEF DashboardInv, OneDraws
      <3> QED BY <3>2, <1>2, <1>3
    <2> QED BY <2>1, <2>2, <1>3
  <1> DEFINE sent == [renders[i].then EXCEPT !.step = "sent"]
  <1>6. /\ sent \in Writing /\ sent.step = "sent"
        /\ sent.kind = renders[i].then.kind /\ sent.shown = renders[i].then.shown
    BY CallsTyped DEF DashboardInv, Writing
  <1>7. posts' = IF renders[i].then = NoPost THEN posts ELSE Append(posts, sent)
    BY DEF Return
  <1> HIDE DEF sent
  <1>8. posts' \in Seq(Writing)
    BY <1>1, <1>6, <1>7
  <1>9. ASSUME ~excused PROVE OneWrite' /\ DecidesShown'
    <2>1. OneWrite /\ DecidesShown
      BY <1>9 DEF DashboardInv, DecisionInv
    <2>2. CASE renders[i].then = NoPost
      <3>1. \A j, k \in DOMAIN renders' :
              renders'[j].then # NoPost /\ renders'[k].then # NoPost => j = k
        BY <2>1, <1>2, <1>3 DEF OneWrite
      <3>2. OneWrite'
        BY <3>1, <2>1, <2>2, <1>1, <1>4, <1>7 DEF OneWrite
      <3>3. DecidesShown'
        BY <2>1, <2>2, <1>1, <1>4, <1>7 DEF DecidesShown, Decided
      <3> QED BY <3>2, <3>3
    <2>3. CASE renders[i].then # NoPost
      <3>1. posts = << >> /\ pendingAction
        BY <2>1, <2>3 DEF OneWrite
      <3>2. posts' = <<sent>> /\ DOMAIN posts' = {1} /\ posts'[1] = sent
        BY <3>1, <2>3, <1>6, <1>7
      <3>3. \A j \in DOMAIN renders' : renders'[j].then = NoPost
        BY <2>1, <2>3, <1>4 DEF OneWrite
      <3>4. OneWrite'
        BY <3>1, <3>2, <3>3, <1>1 DEF OneWrite
      <3>5. DecidesShown'
        BY <2>1, <3>2, <3>3, <1>1, <1>6 DEF DecidesShown, Decided, NoPost
      <3> QED BY <3>4, <3>5
    <2> QED BY <2>2, <2>3
  <1> QED BY <1>2, <1>4, <1>5, <1>8, <1>9

\* A new call takes the place of every earlier one, and nothing shown of the run
\* is redrawn by it.
LEMMA RenewStep ==
  ASSUME DashboardInv, NEW r \in Routes, NEW then \in Writing,
         \/ renders' = Outdated
         \/ renders' = Append(Outdated, [route |-> r, current |-> TRUE, run |-> NoRun,
                                         step |-> "load", then |-> then])
  PROVE  /\ renders' \in Seq(Rendering)
         /\ OneDraws'
         /\ \A i \in DOMAIN renders' :
              /\ renders'[i].current => renders'[i].route = r /\ renders'[i].step = "load"
              /\ \/ i \in DOMAIN renders /\ renders'[i].then = renders[i].then
                 \/ i = Len(renders) + 1 /\ renders'[i].then = then
  <1> DEFINE new == [route |-> r, current |-> TRUE, run |-> NoRun,
                     step |-> "load", then |-> then]
  <1>1. /\ Outdated \in Seq(Rendering) /\ Len(Outdated) = Len(renders)
        /\ DOMAIN Outdated = DOMAIN renders /\ DOMAIN renders = 1..Len(renders)
        /\ Len(renders) \in Nat
        /\ \A i \in DOMAIN renders :
             ~Outdated[i].current /\ Outdated[i].then = renders[i].then
    BY OutdatedCalls DEF DashboardInv, Types
  <1>2. CASE renders' = Outdated
    BY <1>1, <1>2 DEF OneDraws
  <1>3. CASE renders' = Append(Outdated, new)
    <2>1. /\ new \in Rendering /\ new.route = r /\ new.step = "load" /\ new.then = then
      BY DEF Rendering, RunRecords, NoRun, Run
    <2> HIDE DEF new
    <2>2. /\ renders' \in Seq(Rendering) /\ Len(renders') = Len(renders) + 1
          /\ DOMAIN renders' = 1..(Len(renders) + 1)
          /\ renders'[Len(renders) + 1] = new
          /\ \A i \in 1..Len(renders) : renders'[i] = Outdated[i]
      <3>1. Outdated \in Seq(Rendering) /\ new \in Rendering
        BY <1>1, <2>1
      <3>2. ASSUME NEW s \in Seq(Rendering), s = Outdated, renders' = Append(s, new)
            PROVE  /\ renders' \in Seq(Rendering) /\ Len(renders') = Len(s) + 1
                   /\ DOMAIN renders' = 1..(Len(s) + 1)
                   /\ renders'[Len(s) + 1] = new
                   /\ \A i \in 1..Len(s) : renders'[i] = s[i]
        BY <3>1, <3>2
      <3> QED BY <3>1, <3>2, <1>1, <1>3
    <2>3. \A i \in DOMAIN renders' : i \in 1..Len(renders) \/ i = Len(renders) + 1
      BY <1>1, <2>2
    <2>4. OneDraws'
      BY <1>1, <2>2, <2>3 DEF OneDraws
    <2> QED BY <1>1, <2>1, <2>2, <2>3, <2>4
  <1> QED BY <1>2, <1>3

\* render called by nobody who waits for it, while the writes ps are under way.
LEMMA StartRenderStep ==
  ASSUME DashboardInv, NEW r \in Routes, NEW silent \in BOOLEAN, NEW ps \in Seq(Writing),
         StartRender(r, silent, ps)
  PROVE  /\ renders' \in Seq(Rendering) /\ posts' = ps
         /\ OneDraws'
         /\ \A i \in DOMAIN renders' :
              /\ renders'[i].current => renders'[i].route = r /\ renders'[i].step = "load"
              /\ \/ i \in DOMAIN renders /\ renders'[i].then = renders[i].then
                 \/ renders'[i].then = NoPost
         /\ view' \in Views
         /\ view'.page = "detail" => silent /\ view' = view
  <1>1. NoPost \in Writing
    BY DEF NoPost, Writing
  <1>2. Notice("policies") \in Views /\ Notice("policies").page = "policies"
    BY DEF Notice, Page, Views, NoRun, Run, RunRecords, Routes
  <1>3. Notice("loading") \in Views /\ Notice("loading").page = "loading"
    BY DEF Notice, Page, Views, NoRun, Run, RunRecords, Routes
  <1>4. /\ renders' \in Seq(Rendering)
        /\ OneDraws'
        /\ \A i \in DOMAIN renders' :
             /\ renders'[i].current => renders'[i].route = r /\ renders'[i].step = "load"
             /\ \/ i \in DOMAIN renders /\ renders'[i].then = renders[i].then
                \/ i = Len(renders) + 1 /\ renders'[i].then = NoPost
    BY <1>1, RenewStep DEF StartRender, CallRender
  <1>5. view' \in Views /\ (view'.page = "detail" => silent /\ view' = view)
    BY <1>2, <1>3 DEF StartRender, DashboardInv, Types
  <1> QED BY <1>4, <1>5 DEF StartRender

\* Which leaves the writes as they were.
LEMMA StartRenderKeeps ==
  ASSUME DashboardInv, NEW r \in Routes, NEW silent \in BOOLEAN,
         StartRender(r, silent, posts), UNCHANGED <<run, pendingAction>>,
         UNCHANGED notes, route' = r, r # route => ~silent
  PROVE  DashboardInv'
  <1>1. Types
    BY DEF DashboardInv
  <1>2. /\ renders' \in Seq(Rendering) /\ posts' = posts
        /\ OneDraws'
        /\ \A i \in DOMAIN renders' :
             /\ renders'[i].current => renders'[i].route = r /\ renders'[i].step = "load"
             /\ \/ i \in DOMAIN renders /\ renders'[i].then = renders[i].then
                \/ renders'[i].then = NoPost
        /\ view' \in Views
        /\ view'.page = "detail" => silent /\ view' = view
    BY <1>1, StartRenderStep DEF Types
  <1>3. Types'
    BY <1>1, <1>2 DEF Types, notes
  <1>4. ShownInv'
    BY <1>1, <1>2 DEF DashboardInv, ShownInv
  <1>5. ASSUME ~excused' PROVE (OneWrite /\ FreshView /\ FreshLoad /\ DecidesShown)'
    <2>1. OneWrite /\ FreshView /\ FreshLoad /\ DecidesShown
      BY <1>5 DEF DashboardInv, DecisionInv, notes
    <2>2. OneWrite'
      BY <2>1, <1>2 DEF OneWrite
    <2>3. FreshView'
      BY <2>1, <1>2 DEF FreshView
    <2>4. FreshLoad'
      BY <1>2 DEF FreshLoad
    <2>5. DecidesShown'
      BY <2>1, <1>2 DEF DecidesShown, Decided, NoPost
    <2> QED BY <2>2, <2>3, <2>4, <2>5
  <1> QED BY <1>2, <1>3, <1>4, <1>5 DEF DashboardInv, DecisionInv, notes

-----------------------------------------------------------------------------
(* The steps *)

\* A tab just opened satisfies the invariant.
LEMMA InitDashboardInv == Init => DashboardInv
  <1> SUFFICES ASSUME Init PROVE DashboardInv
    OBVIOUS
  <1> DEFINE first == [route |-> route, current |-> TRUE, run |-> NoRun,
                       step |-> "capabilities", then |-> NoPost]
  <1>1. first \in Rendering
    BY DEF Init, Rendering, RunRecords, Writing, NoRun, NoPost, Run
  <1>2. /\ first.route = route /\ first.step = "capabilities" /\ first.then = NoPost
    OBVIOUS
  <1>3. renders = <<first>>
    BY DEF Init
  <1> HIDE DEF first
  <1>4. renders \in Seq(Rendering) /\ DOMAIN renders = {1} /\ renders[1] = first
          /\ Len(renders) = 1
    BY <1>1, <1>3
  <1>5. view \in Views /\ view.page = "loading"
    BY DEF Init, Notice, Page, Views, NoRun, Run, RunRecords
  <1>6. Types
    <2>1. run \in RunRecords
      BY DEF Init, Run, RunRecords
    <2>2. posts \in Seq(Writing)
      BY DEF Init
    <2>3. pendingAction \in BOOLEAN /\ excused \in BOOLEAN /\ astray \in BOOLEAN
      BY DEF Init
    <2> QED BY <1>4, <1>5, <2>1, <2>2, <2>3 DEF Init, Types
  <1>7. OneDraws /\ ShownInv
    BY <1>2, <1>4, <1>5 DEF OneDraws, ShownInv
  <1>8. OneWrite
    BY <1>2, <1>4 DEF Init, OneWrite
  <1>9. FreshView /\ FreshLoad
    BY <1>2, <1>4, <1>5 DEF FreshView, FreshLoad
  <1>10. DecidesShown
    BY <1>2, <1>4 DEF Init, DecidesShown, NoPost
  <1> QED BY <1>6, <1>7, <1>8, <1>9, <1>10 DEF DashboardInv, DecisionInv, Init

\* The run goes on only when no approval is pending, and another client's decision
\* excuses what follows.
LEMMA RunStep ==
  ASSUME DashboardInv,
         \/ \E ends \in BOOLEAN : RunMoves(ends)
         \/ \E over \in BOOLEAN : OthersDecide(over)
  PROVE  DashboardInv'
  <1>1. /\ run \in RunRecords /\ UNCHANGED tab /\ astray' = astray
        /\ run'.version = run.version + 1 /\ run' \in RunRecords
        /\ \/ excused'
           \/ excused' = excused /\ run.approval = 0
    <2>1. run \in RunRecords
      BY DEF DashboardInv, Types
    <2>2. ASSUME NEW ends \in BOOLEAN, RunMoves(ends)
          PROVE  /\ UNCHANGED tab /\ UNCHANGED notes /\ run.approval = 0
                 /\ run'.version = run.version + 1 /\ run' \in RunRecords
      BY <2>1, <2>2 DEF RunMoves, Run, RunRecords
    <2>3. ASSUME NEW over \in BOOLEAN, OthersDecide(over)
          PROVE  /\ UNCHANGED tab /\ astray' = astray /\ excused'
                 /\ run'.version = run.version + 1 /\ run' \in RunRecords
      BY <2>1, <2>3 DEF OthersDecide, Resumed, Run, RunRecords
    <2> QED BY <2>1, <2>2, <2>3 DEF notes
  <1>2. UNCHANGED <<route, view, renders, posts, pendingAction>>
    BY <1>1 DEF tab
  <1>3. Types'
    BY <1>1, <1>2 DEF DashboardInv, Types
  <1>4. OneDraws'
    BY <1>2 DEF DashboardInv, OneDraws
  <1>5. ShownInv'
    <2>1. view.run.version \in Nat /\ run.version \in Nat
      BY DEF DashboardInv, Types, Views, RunRecords
    <2>2. \A i \in DOMAIN renders : renders[i].run.version \in Nat
      BY CallsTyped DEF DashboardInv, RunRecords
    <2> QED BY <2>1, <2>2, <1>1, <1>2 DEF DashboardInv, ShownInv
  <1>6. ASSUME ~excused' PROVE (OneWrite /\ FreshView /\ FreshLoad /\ DecidesShown)'
    <2>1. OneWrite /\ FreshView /\ FreshLoad /\ DecidesShown /\ run.approval = 0
      BY <1>1, <1>6 DEF DashboardInv, DecisionInv
    <2>2. OneWrite'
      BY <2>1, <1>2 DEF OneWrite
    <2>3. FreshView'
      BY <2>1, <1>2 DEF FreshView
    <2>4. FreshLoad'
      BY <2>1, <1>2 DEF FreshLoad
    <2>5. DecidesShown'
      BY <2>1, <1>2 DEF DecidesShown, Decided
    <2> QED BY <2>2, <2>3, <2>4, <2>5
  <1> QED BY <1>1, <1>3, <1>4, <1>5, <1>6 DEF DashboardInv, DecisionInv

\* The server answers a write, by refusing it or by doing as it says: the write is
\* the only one, and a decision meets the approval it was made on.
LEMMA ServerStep ==
  ASSUME DashboardInv, NEW k \in DOMAIN posts,
         Refuse(k) \/ \E over \in BOOLEAN : Handle(k, over)
  PROVE  DashboardInv'
  <1>1. run \in RunRecords /\ posts \in Seq(Writing) /\ posts[k] \in Writing
    BY DEF DashboardInv, Types
  <1>2. /\ posts[k].step = "sent"
        /\ UNCHANGED <<route, view, renders, pendingAction, excused>>
        /\ \E step \in {"answered", "refused"} : posts' = [posts EXCEPT ![k].step = step]
        /\ run' \in RunRecords /\ run'.version >= run.version
        /\ astray' \in BOOLEAN
        /\ astray' => astray \/ ( /\ posts[k].kind = "decide" /\ ~excused
                                  /\ run.approval # posts[k].shown )
    <2>1. ASSUME Refuse(k)
          PROVE  /\ posts[k].step = "sent" /\ run' = run
                 /\ UNCHANGED <<route, view, renders, pendingAction, excused, astray>>
                 /\ posts' = [posts EXCEPT ![k].step = "refused"]
      BY <2>1 DEF Refuse, notes
    <2>2. ASSUME NEW over \in BOOLEAN, Handle(k, over)
          PROVE  /\ posts[k].step = "sent"
                 /\ UNCHANGED <<route, view, renders, pendingAction, excused>>
                 /\ \E step \in {"answered", "refused"} :
                      posts' = [posts EXCEPT ![k].step = step]
                 /\ run' = run \/ run' = Resumed(TRUE) \/ run' = Resumed(over)
                 /\ astray' = (astray \/ ( /\ posts[k].kind = "decide" /\ ~excused
                                           /\ run.approval # posts[k].shown ))
      BY <2>2 DEF Handle
    <2>3. \A over \in BOOLEAN :
            Resumed(over) \in RunRecords /\ Resumed(over).version >= run.version
      BY <1>1 DEF Resumed, Run, RunRecords
    <2>4. run.version >= run.version
      BY <1>1 DEF RunRecords
    <2>5. astray \in BOOLEAN
      BY DEF DashboardInv, Types
    <2>6. CASE Refuse(k)
      BY <1>1, <2>1, <2>4, <2>5, <2>6
    <2>7. CASE \E over \in BOOLEAN : Handle(k, over)
      BY <1>1, <2>2, <2>3, <2>4, <2>7
    <2> QED BY <2>6, <2>7
  <1>3. PICK step \in {"answered", "refused"} : posts' = [posts EXCEPT ![k].step = step]
    BY <1>2
  <1>4. /\ posts' \in Seq(Writing) /\ DOMAIN posts' = DOMAIN posts
        /\ Len(posts') = Len(posts) /\ posts'[k].step = step
    BY <1>1, <1>3 DEF Writing
  <1>5. Types'
    BY <1>2, <1>4 DEF DashboardInv, Types
  <1>6. OneDraws'
    BY <1>2 DEF DashboardInv, OneDraws
  <1>7. ShownInv'
    <2>1. view.run.version \in Nat /\ run.version \in Nat /\ run'.version \in Nat
      BY <1>1, <1>2 DEF DashboardInv, Types, Views, RunRecords
    <2>2. \A i \in DOMAIN renders : renders[i].run.version \in Nat
      BY CallsTyped DEF DashboardInv, RunRecords
    <2> QED BY <2>1, <2>2, <1>2 DEF DashboardInv, ShownInv
  <1>8. ASSUME ~excused
        PROVE  (OneWrite /\ FreshView /\ FreshLoad /\ DecidesShown)' /\ ~astray'
    <2>1. OneWrite /\ FreshView /\ FreshLoad /\ DecidesShown
      BY <1>8 DEF DashboardInv, DecisionInv
    <2>2. /\ posts # << >> /\ pendingAction /\ \A n \in DOMAIN posts : n = k
          /\ \A i \in DOMAIN renders : renders[i].then = NoPost
      <3>1. Len(posts) \in Nat /\ DOMAIN posts = 1..Len(posts) /\ Len(posts) <= 1
        BY <1>1, <2>1 DEF OneWrite
      <3>2. posts # << >>
        BY <3>1, k \in DOMAIN posts
      <3> QED BY <3>1, <3>2, <2>1 DEF OneWrite
    <2>3. OneWrite'
      BY <2>1, <2>2, <1>2, <1>4 DEF OneWrite
    <2>4. FreshView' /\ FreshLoad'
      BY <2>1, <2>2, <1>2 DEF FreshView, FreshLoad
    <2>5. DecidesShown'
      BY <2>2, <1>2, <1>4 DEF DecidesShown, NoPost
    <2>6. ~(posts[k].kind = "decide" /\ run.approval # posts[k].shown)
      BY <2>1, <1>2 DEF DecidesShown, Decided
    <2>7. ~astray'
      BY <2>6, <1>2 DEF DashboardInv
    <2> QED BY <2>3, <2>4, <2>5, <2>7
  <1>9. ~astray'
    BY <1>2, <1>8 DEF DashboardInv
  <1> QED BY <1>2, <1>5, <1>6, <1>7, <1>8, <1>9 DEF DashboardInv, DecisionInv

\* The record is read for the call that may draw.
LEMMA LoadStep ==
  ASSUME DashboardInv, NEW i \in DOMAIN renders, Load(i)
  PROVE  DashboardInv'
  <1> DEFINE loaded == IF renders[i].route = "detail" THEN run ELSE NoRun
  <1>1. /\ renders[i].step = "load" /\ renders[i].current
        /\ renders' = [renders EXCEPT ![i].step = "draw", ![i].run = loaded]
        /\ UNCHANGED <<run, route, view, posts, pendingAction, excused, astray>>
    BY DEF Load, notes
  <1>2. Types /\ OneDraws /\ ShownInv
    BY DEF DashboardInv
  <1>3. loaded \in RunRecords /\ NoRun.approval = 0
    BY <1>2 DEF Types, NoRun, Run, RunRecords
  <1>4. /\ DOMAIN renders' = DOMAIN renders
        /\ \A j \in DOMAIN renders : j # i => renders'[j] = renders[j]
        /\ renders'[i] = [[renders[i] EXCEPT !.step = "draw"] EXCEPT !.run = loaded]
    BY <1>1, <1>2 DEF Types
  <1>5. renders[i] \in Rendering
    BY <1>2, CallsTyped
  <1>6. /\ renders'[i] \in Rendering /\ renders'[i].run = loaded
        /\ renders'[i].route = renders[i].route /\ renders'[i].current
        /\ renders'[i].then = renders[i].then
    BY <1>1, <1>3, <1>4, <1>5 DEF Rendering
  <1>7. renders' \in Seq(Rendering) /\ Len(renders') = Len(renders)
    <2>1. /\ renders \in Seq(Rendering) /\ DOMAIN renders = 1..Len(renders)
          /\ Len(renders) \in Nat
      BY <1>2 DEF Types
    <2>2. \A j \in DOMAIN renders : renders'[j] \in Rendering
      BY <1>4, <1>6, <2>1
    <2>3. renders' = [j \in DOMAIN renders |-> renders'[j]]
      BY <1>1, <1>4
    <2>4. renders' \in [1..Len(renders) -> Rendering]
      BY <2>1, <2>2, <2>3
    <2> QED BY <2>1, <2>4
  <1>8. Types'
    BY <1>1, <1>2, <1>7 DEF Types
  <1>9. OneDraws'
    BY <1>2, <1>1, <1>4, <1>7 DEF OneDraws
  <1>10. \A j \in DOMAIN renders : renders[j].current => j = i
    BY <1>1, <1>2 DEF OneDraws
  <1>11. renders[i].route = route
    BY <1>1, <1>2 DEF ShownInv
  <1>12. run.version <= run.version
    BY <1>2 DEF Types, RunRecords
  <1>13. ShownInv'
    BY <1>1, <1>2, <1>4, <1>6, <1>10, <1>11, <1>12 DEF ShownInv
  <1> HIDE DEF loaded
  <1>14. ASSUME ~excused' PROVE (OneWrite /\ FreshView /\ FreshLoad /\ DecidesShown)'
    <2>1. OneWrite /\ FreshView /\ FreshLoad /\ DecidesShown
      BY <1>14, <1>1 DEF DashboardInv, DecisionInv
    <2>2. \A j \in DOMAIN renders : renders'[j].then = renders[j].then
      BY <1>4, <1>6
    <2>3. OneWrite'
      BY <2>1, <2>2, <1>1, <1>4 DEF OneWrite
    <2>4. FreshView'
      BY <2>1, <1>1 DEF FreshView
    <2>5. FreshLoad'
      BY <1>1, <1>3, <1>4, <1>6, <1>10 DEF FreshLoad, loaded
    <2>6. DecidesShown'
      BY <2>1, <2>2, <1>1, <1>4 DEF DecidesShown, Decided
    <2> QED BY <2>3, <2>4, <2>5, <2>6
  <1> QED BY <1>1, <1>8, <1>9, <1>13, <1>14 DEF DashboardInv, DecisionInv

\* A call returns, having shown nothing of the run but what its page was loaded for.
LEMMA ReturnKeeps ==
  ASSUME DashboardInv, NEW i \in DOMAIN renders, Return(i), view' \in Views,
         \/ view' = view
         \/ view'.page # "detail"
         \/ /\ renders[i].current /\ renders[i].step = "draw"
            /\ view' = Page(renders[i].route, renders[i].run, pendingAction)
  PROVE  DashboardInv'
  <1>1. /\ renders' \in Seq(Rendering) /\ posts' \in Seq(Writing)
        /\ OneDraws'
        /\ \A j \in DOMAIN renders' :
             \E k \in DOMAIN renders : k # i /\ renders'[j] = renders[k]
        /\ ~excused => OneWrite' /\ DecidesShown'
    BY ReturnStep
  <1>2. UNCHANGED <<run, route, pendingAction, excused, astray>>
    BY DEF Return, notes
  <1>3. Types /\ OneDraws /\ ShownInv
    BY DEF DashboardInv
  <1>4. Types'
    BY <1>1, <1>2, <1>3 DEF Types
  <1>5. ASSUME ~excused PROVE FreshView /\ FreshLoad
    BY <1>5 DEF DashboardInv, DecisionInv
  <1>6. CASE view' = view \/ view'.page # "detail"
    <2>1. ShownInv'
      BY <1>1, <1>2, <1>3, <1>6 DEF ShownInv
    <2>2. ~excused => FreshView' /\ FreshLoad'
      BY <1>1, <1>2, <1>5, <1>6 DEF FreshView, FreshLoad
    <2> QED BY <1>1, <1>2, <1>4, <2>1, <2>2 DEF DashboardInv, DecisionInv
  <1>7. CASE /\ renders[i].current /\ renders[i].step = "draw"
             /\ view' = Page(renders[i].route, renders[i].run, pendingAction)
    <2>1. \A j \in DOMAIN renders' : ~renders'[j].current
      BY <1>1, <1>3, <1>7 DEF OneDraws
    <2>2. /\ view'.page = renders[i].route /\ view'.run = renders[i].run
          /\ view'.page = "detail" => view'.busy = pendingAction
      BY <1>3, <1>7 DEF Page, Types
    <2>3. ShownInv'
      BY <1>2, <1>3, <1>7, <2>1, <2>2 DEF ShownInv
    <2>4. ~excused => FreshView' /\ FreshLoad'
      BY <1>2, <1>5, <1>7, <2>1, <2>2 DEF FreshView, FreshLoad
    <2> QED BY <1>1, <1>2, <1>4, <2>3, <2>4 DEF DashboardInv, DecisionInv
  <1> QED BY <1>6, <1>7

\* What a call does once its capabilities, its answer or its failure have come.
LEMMA AnsweredStep ==
  ASSUME DashboardInv, NEW i \in DOMAIN renders,
         CapabilitiesCome(i) \/ Draw(i) \/ LoadFails(i) \/ Drop(i)
  PROVE  DashboardInv'
  <1>1. Types /\ OneDraws /\ ShownInv
    BY DEF DashboardInv
  <1>2. \A page \in {"policies", "error"} :
          Notice(page) \in Views /\ Notice(page).page = page
    BY DEF Notice, Page, Views, NoRun, Run, RunRecords, Routes
  <1>3. CASE CapabilitiesCome(i) /\ renders[i].route = "policies"
    BY <1>2, <1>3, ReturnKeeps DEF CapabilitiesCome
  <1>4. CASE CapabilitiesCome(i) /\ renders[i].route # "policies"
    <2>1. /\ renders[i].step = "capabilities"
          /\ renders' = [renders EXCEPT ![i].step = "load"]
          /\ UNCHANGED <<run, route, view, posts, pendingAction, excused, astray>>
      BY <1>4 DEF CapabilitiesCome, notes
    <2>2. /\ DOMAIN renders' = DOMAIN renders
          /\ \A j \in DOMAIN renders : j # i => renders'[j] = renders[j]
          /\ renders'[i] = [renders[i] EXCEPT !.step = "load"]
      BY <1>1, <2>1 DEF Types
    <2>3. /\ renders'[i] \in Rendering /\ renders'[i].step = "load"
          /\ \A f \in {"route", "current", "then"} : renders'[i][f] = renders[i][f]
      BY <1>1, <2>2, CallsTyped DEF Rendering
    <2>4. renders' \in Seq(Rendering) /\ Len(renders') = Len(renders)
      BY <1>1, <2>1, <2>2, <2>3 DEF Types
    <2>5. /\ renders'[i].route = renders[i].route
          /\ renders'[i].current = renders[i].current
          /\ renders'[i].then = renders[i].then
      BY <2>3
    <2>6. Types' /\ OneDraws'
      BY <1>1, <2>1, <2>2, <2>4, <2>5 DEF Types, OneDraws
    <2>7. ShownInv'
      BY <1>1, <2>1, <2>2, <2>3, <2>5 DEF ShownInv
    <2>8. ASSUME ~excused' PROVE (OneWrite /\ FreshView /\ FreshLoad /\ DecidesShown)'
      <3>1. OneWrite /\ FreshView /\ FreshLoad /\ DecidesShown
        BY <2>8, <2>1 DEF DashboardInv, DecisionInv
      <3>2. \A j \in DOMAIN renders : renders'[j].then = renders[j].then
        BY <2>2, <2>5
      <3>3. OneWrite'
        BY <3>1, <3>2, <2>1, <2>2 DEF OneWrite
      <3>4. FreshView' /\ FreshLoad'
        BY <3>1, <2>1, <2>2, <2>3 DEF FreshView, FreshLoad
      <3>5. DecidesShown'
        BY <3>1, <3>2, <2>1, <2>2 DEF DecidesShown, Decided
      <3> QED BY <3>3, <3>4, <3>5
    <2> QED BY <2>1, <2>6, <2>7, <2>8 DEF DashboardInv, DecisionInv
  <1>5. CASE Draw(i)
    <2>1. renders[i] \in Rendering /\ pendingAction \in BOOLEAN
      BY <1>1, CallsTyped DEF Types
    <2>2. Page(renders[i].route, renders[i].run, pendingAction) \in Views
      BY <2>1 DEF Page, Views, Rendering
    <2> QED BY <1>5, <2>2, ReturnKeeps DEF Draw
  <1>6. CASE LoadFails(i)
    BY <1>2, <1>6, ReturnKeeps DEF LoadFails
  <1>7. CASE Drop(i)
    BY <1>1, <1>7, ReturnKeeps DEF Drop, Types
  <1> QED BY <1>3, <1>4, <1>5, <1>6, <1>7

\* A button is clicked: of a page drawn since the last click, which shows the
\* approval that is pending, or of one clicked before, which is excused.
LEMMA ClickStep ==
  ASSUME DashboardInv, NEW kind \in {"decide", "cancel"}, Click(kind)
  PROVE  DashboardInv'
  <1> DEFINE write == [kind  |-> kind, step |-> "none",
                       shown |-> IF kind = "decide" THEN view.run.approval ELSE 0]
  <1>1. Types /\ OneDraws /\ ShownInv
    BY DEF DashboardInv
  <1>2. /\ view.page = "detail" /\ ~view.busy
        /\ kind = "decide" => view.run.approval # 0
        /\ pendingAction' = TRUE /\ view' = [view EXCEPT !.clicked = TRUE]
        /\ excused' = (excused \/ view.clicked)
        /\ UNCHANGED <<run, route, posts, astray>>
        /\ renders' = Append(Outdated, [route |-> route, current |-> TRUE, run |-> NoRun,
                                        step |-> "load", then |-> write])
    BY DEF Click, CallRender
  <1>3. /\ write \in Writing /\ write.kind = kind
        /\ kind = "decide" => write.shown = view.run.approval
    BY <1>1 DEF Writing, Types, Views, RunRecords
  <1> HIDE DEF write
  <1>4. /\ renders' \in Seq(Rendering)
        /\ OneDraws'
        /\ \A i \in DOMAIN renders' :
             /\ renders'[i].current => renders'[i].route = route /\ renders'[i].step = "load"
             /\ \/ i \in DOMAIN renders /\ renders'[i].then = renders[i].then
                \/ i = Len(renders) + 1 /\ renders'[i].then = write
    BY <1>1, <1>2, <1>3, RenewStep DEF Types
  <1>5. view' \in Views /\ view'.run = view.run /\ view'.clicked
    BY <1>1, <1>2 DEF Types, Views
  <1>6. Types'
    BY <1>1, <1>2, <1>4, <1>5 DEF Types, Views
  <1>7. ShownInv'
    BY <1>1, <1>2, <1>4, <1>5 DEF ShownInv
  <1>8. ASSUME ~excused' PROVE (OneWrite /\ FreshView /\ FreshLoad /\ DecidesShown)'
    <2>1. ~excused /\ ~view.clicked
      BY <1>2, <1>8
    <2>2. OneWrite /\ FreshView /\ FreshLoad /\ DecidesShown
      BY <2>1 DEF DashboardInv, DecisionInv
    <2>3. /\ posts = << >> /\ \A i \in DOMAIN renders : renders[i].then = NoPost
          /\ view.run.approval # 0 => view.run.approval = run.approval
      BY <2>1, <2>2, <1>2 DEF FreshView, OneWrite
    <2>4. OneWrite'
      BY <2>3, <1>2, <1>4 DEF OneWrite
    <2>5. FreshView' /\ FreshLoad'
      BY <1>2, <1>5 DEF FreshView, FreshLoad
    <2>6. DecidesShown'
      BY <2>3, <1>2, <1>3, <1>4 DEF DecidesShown, Decided, NoPost
    <2> QED BY <2>4, <2>5, <2>6
  <1> QED BY <1>2, <1>4, <1>6, <1>7, <1>8 DEF DashboardInv, DecisionInv

\* The write is over, and it was the only one.
LEMMA AnswerStep ==
  ASSUME DashboardInv, NEW k \in DOMAIN posts, Answer(k)
  PROVE  DashboardInv'
  <1>1. Types /\ OneDraws /\ ShownInv
    BY DEF DashboardInv
  <1>2. /\ pendingAction' = FALSE /\ UNCHANGED <<run, route, excused, astray>>
        /\ StartRender(route, TRUE, RemoveAt(posts, k))
    BY DEF Answer, notes
  <1>3. /\ RemoveAt(posts, k) \in Seq(Writing)
        /\ Len(RemoveAt(posts, k)) = Len(posts) - 1
    BY <1>1, Removed DEF Types
  <1>4. /\ renders' \in Seq(Rendering) /\ posts' = RemoveAt(posts, k)
        /\ OneDraws'
        /\ \A i \in DOMAIN renders' :
             /\ renders'[i].current => renders'[i].route = route /\ renders'[i].step = "load"
             /\ \/ i \in DOMAIN renders /\ renders'[i].then = renders[i].then
                \/ renders'[i].then = NoPost
        /\ view' \in Views
        /\ view'.page = "detail" => view' = view
    BY <1>1, <1>2, <1>3, StartRenderStep DEF Types
  <1>5. Types'
    BY <1>1, <1>2, <1>3, <1>4 DEF Types
  <1>6. ShownInv'
    BY <1>1, <1>2, <1>4 DEF ShownInv
  <1>7. ASSUME ~excused' PROVE (OneWrite /\ FreshView /\ FreshLoad /\ DecidesShown)'
    <2>1. OneWrite /\ FreshView /\ FreshLoad /\ DecidesShown
      BY <1>2, <1>7 DEF DashboardInv, DecisionInv
    <2>2. Len(posts) = 1 /\ posts # << >>
      <3>1. Len(posts) \in Nat /\ DOMAIN posts = 1..Len(posts) /\ Len(posts) <= 1
        BY <2>1, <1>1 DEF OneWrite, Types
      <3> QED BY <3>1, k \in DOMAIN posts
    <2>3. posts' = << >>
      BY <2>2, <1>3, <1>4
    <2>4. pendingAction /\ \A i \in DOMAIN renders : renders[i].then = NoPost
      BY <2>1, <2>2 DEF OneWrite
    <2>5. \A i \in DOMAIN renders' : renders'[i].then = NoPost
      BY <2>4, <1>4
    <2>6. OneWrite'
      BY <2>3, <2>5 DEF OneWrite
    <2>7. FreshView' /\ FreshLoad'
      BY <2>1, <2>4, <1>4 DEF FreshView, FreshLoad
    <2>8. DecidesShown'
      BY <2>3, <2>5 DEF DecidesShown, NoPost
    <2> QED BY <2>6, <2>7, <2>8
  <1> QED BY <1>2, <1>4, <1>5, <1>6, <1>7 DEF DashboardInv, DecisionInv

\* Every step of the tab, the server and the run keeps it.
LEMMA NextDashboardInv == DashboardInv /\ [Next]_vars => DashboardInv'
  <1> SUFFICES ASSUME DashboardInv, [Next]_vars PROVE DashboardInv'
    OBVIOUS
  <1>1. CASE UNCHANGED vars
    BY <1>1 DEF vars, tab, notes, DashboardInv, Types, OneDraws, ShownInv, DecisionInv,
       OneWrite, FreshView, FreshLoad, DecidesShown, Decided
  <1>2. CASE \/ \E ends \in BOOLEAN : RunMoves(ends)
             \/ \E over \in BOOLEAN : OthersDecide(over)
    BY <1>2, RunStep
  <1>3. CASE \E k \in DOMAIN posts : Refuse(k) \/ \E over \in BOOLEAN : Handle(k, over)
    BY <1>3, ServerStep
  <1>4. CASE \E k \in DOMAIN posts : Answer(k)
    BY <1>4, AnswerStep
  <1>5. CASE \E i \in DOMAIN renders :
               CapabilitiesCome(i) \/ Load(i) \/ Draw(i) \/ LoadFails(i) \/ Drop(i)
    BY <1>5, LoadStep, AnsweredStep
  <1>6. CASE \E r \in Routes : Navigate(r)
    BY <1>6, StartRenderKeeps DEF Navigate
  <1>7. CASE \E kind \in {"decide", "cancel"} : Click(kind)
    BY <1>7, ClickStep
  <1>8. CASE Poll \/ Refresh
    <2>1. route \in Routes
      BY DEF DashboardInv, Types
    <2> QED BY <1>8, <2>1, StartRenderKeeps DEF Poll, Refresh
  <1> QED BY <1>1, <1>2, <1>3, <1>4, <1>5, <1>6, <1>7, <1>8 DEF Next

-----------------------------------------------------------------------------

\* The tab's invariant: what is shown and what may be drawn never runs ahead of the
\* record, and as long as nothing is excused there is one write at most, made on the
\* approval that is pending.
THEOREM DashboardInvariance == Spec => []DashboardInv
  BY InitDashboardInv, NextDashboardInv, PTL DEF Spec

\* A decision always reaches the approval it was made on, whatever overtakes what.
THEOREM DecisionAlwaysAsShown == Spec => []DecisionAsShown
  <1>1. DashboardInv => DecisionAsShown
    BY DEF DashboardInv, DecisionAsShown
  <1> QED BY <1>1, DashboardInvariance, PTL

\* The page is drawn by the newest call alone, from a record read after the one that
\* is shown: it goes back in no step.
THEOREM PageNeverGoesBack == Spec => NeverGoesBack
  <1> DEFINE Forward ==
        view'.page = "detail" =>
          /\ route' = "detail"
          /\ view.page = "detail" => view'.run.version >= view.run.version
  <1>1. DashboardInv /\ DashboardInv' /\ [Next]_vars => [Forward]_vars
    <2> SUFFICES ASSUME DashboardInv, DashboardInv', Next, view'.page = "detail"
                 PROVE  /\ route' = "detail"
                        /\ view.page = "detail" => view'.run.version >= view.run.version
      OBVIOUS
    <2>1. route' = "detail"
      BY DEF DashboardInv, ShownInv
    <2>2. view.run.version \in Nat /\ view.run.version >= view.run.version
      BY DEF DashboardInv, Types, Views, RunRecords
    <2>3. CASE view' = view
      BY <2>1, <2>2, <2>3
    <2>4. CASE \E kind \in {"decide", "cancel"} : Click(kind)
      <3>1. view'.run = view.run
        BY <2>4 DEF Click, DashboardInv, Types, Views
      <3> QED BY <2>1, <2>2, <3>1
    <2>5. CASE \E i \in DOMAIN renders : Draw(i)
      <3>1. PICK i \in DOMAIN renders : Draw(i)
        BY <2>5
      <3>2. /\ renders[i].current /\ renders[i].step = "draw"
            /\ route' = route /\ view'.run = renders[i].run
        BY <3>1 DEF Draw, Return, Page
      <3>3. renders[i].run.version \in Nat
        BY CallsTyped DEF DashboardInv, RunRecords
      <3> QED BY <2>1, <2>2, <3>2, <3>3 DEF DashboardInv, ShownInv
    <2>6. \/ view' = view
          \/ \E kind \in {"decide", "cancel"} : Click(kind)
          \/ \E i \in DOMAIN renders : Draw(i)
      <3>1. \A page \in {"loading", "policies", "error"} : Notice(page).page = page
        BY DEF Notice, Page
      <3>2. ASSUME NEW r, NEW silent, NEW ps, StartRender(r, silent, ps)
            PROVE  view' = view
        BY <3>1, <3>2 DEF StartRender
      <3>3. ASSUME NEW i \in DOMAIN renders, CapabilitiesCome(i) \/ LoadFails(i)
            PROVE  view' = view
        BY <3>1, <3>3 DEF CapabilitiesCome, LoadFails
      <3>4. ASSUME \/ \E ends \in BOOLEAN : RunMoves(ends)
                   \/ \E over \in BOOLEAN : OthersDecide(over)
                   \/ \E k \in DOMAIN posts, over \in BOOLEAN : Handle(k, over)
                   \/ \E k \in DOMAIN posts : Refuse(k)
                   \/ \E i \in DOMAIN renders : Load(i) \/ Drop(i)
            PROVE  view' = view
        BY <3>4 DEF RunMoves, OthersDecide, Handle, Refuse, Load, Drop, tab
      <3> QED BY <3>2, <3>3, <3>4 DEF Next, Answer, Navigate, Poll, Refresh
    <2> QED BY <2>3, <2>4, <2>5, <2>6
  <1>2. NeverGoesBack <=> [][Forward]_vars
    BY PTL DEF NeverGoesBack
  <1> HIDE DEF Forward
  <1> QED BY <1>1, <1>2, DashboardInvariance, PTL DEF Spec
=============================================================================
