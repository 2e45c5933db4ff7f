----------------------------- MODULE Dashboard -----------------------------
(***************************************************************************)
(* One browser tab of the dashboard (apps/web/static/app.js) and the run it *)
(* shows, as the API reports it.  A page is rendered by an asynchronous     *)
(* function that polls, clicks and navigation start anew while earlier      *)
(* calls of it still wait for their answers; the run changes meanwhile, by  *)
(* itself and at the hands of other clients.                               *)
(*                                                                         *)
(* What a run does is WorkflowRunner's subject: here it asks for approvals, *)
(* goes on when one is decided, and ends.  Of its record a page shows the   *)
(* version, the pending approval - named by the version that asked for it - *)
(* and whether it is over.                                                 *)
(***************************************************************************)
EXTENDS Integers, SequencesExt

CONSTANTS MaxVersion,  \* bound on what the run does by itself
          MaxRenders,  \* bound on the calls of render in flight
          MaxPosts     \* bound on the writes under way

ASSUME BoundsAssumption == {MaxVersion, MaxRenders, MaxPosts} \subseteq Nat

VARIABLES
    run,            \* the stored record
    route,          \* location.hash
    view,           \* what the tab shows
    renders,        \* the calls of render in flight, oldest first
    posts,          \* the writes sent and not yet answered
    pendingAction,  \* is a write under way, as far as the tab knows?
    excused,        \* has another client decided, or a page been clicked again
                    \* before it was redrawn?
    astray          \* has a decision met an approval its page did not show?

tab   == <<route, view, renders, posts, pendingAction>>
notes == <<excused, astray>>
vars  == <<run, tab, notes>>

Routes == {"detail", "runs", "policies"}

Run(version, approval, over) ==
    [version |-> version, approval |-> approval, over |-> over]
Versions == 0..MaxVersion + 2
Record   == [version : Versions, approval : Versions, over : BOOLEAN]

NoRun  == Run(0, 0, TRUE)
NoPost == [kind |-> "none", shown |-> 0, step |-> "none"]

\* A page newly drawn; the buttons are on the run's.
Page(page, r, busy) ==
    [page |-> page, run |-> r, busy |-> busy /\ page = "detail", clicked |-> FALSE]
Notice(page) == Page(page, NoRun, FALSE)

Post   == [kind : {"none", "decide", "cancel"}, shown : Versions,
           step : {"none", "sent", "answered", "refused"}]
Render == [route : Routes, current : BOOLEAN, run : Record,
           step : {"capabilities", "load", "draw"}, then : Post]

\* The tab and the run.  At most one call of render, the newest, may still draw.
TypeOK ==
    /\ run \in Record
    /\ route \in Routes
    /\ view \in [page : Routes \cup {"loading", "error"}, run : Record,
                 busy : BOOLEAN, clicked : BOOLEAN]
    /\ renders \in Seq(Render) /\ Len(renders) <= MaxRenders
    /\ \A i \in DOMAIN renders : renders[i].current => i = Len(renders)
    /\ posts \in Seq(Post) /\ Len(posts) <= MaxPosts
    /\ {pendingAction, excused, astray} \subseteq BOOLEAN

Init ==
    /\ run = Run(0, 0, FALSE)
    /\ route \in Routes
    /\ view = Notice("loading")
    /\ renders = <<[route |-> route, current |-> TRUE, run |-> NoRun,
                    step |-> "capabilities", then |-> NoPost]>>
    /\ posts = << >>
    /\ pendingAction = FALSE
    /\ excused = FALSE /\ astray = FALSE

-----------------------------------------------------------------------------
(* The run *)

\* It goes on by itself until it asks for an approval or ends.
RunMoves(ends) ==
    LET next == run.version + 1
    IN  /\ run.approval = 0 /\ ~run.over /\ run.version < MaxVersion
        /\ run' = Run(next, IF ends THEN 0 ELSE next, ends)
        /\ UNCHANGED tab /\ UNCHANGED notes

\* What the decision or the cancellation of a waiting run leaves of it.
Resumed(over) == Run(run.version + 1, 0, over)

\* Another client decides or cancels.
OthersDecide(over) ==
    /\ run.approval # 0
    /\ run' = Resumed(over)
    /\ excused' = TRUE
    /\ UNCHANGED <<tab, astray>>

\* The server handles a decision, by which whichever approval is pending is
\* meant, or a cancellation, which an advancing run settles later by itself.
Handle(k, over) ==
    /\ posts[k].step = "sent"
    /\ posts[k].kind = "decide" => run.approval # 0
    /\ posts[k].kind = "cancel" => ~run.over
    /\ run' \in IF posts[k].kind = "decide" THEN {Resumed(over)}
                ELSE {Resumed(TRUE)} \cup (IF run.approval = 0 THEN {run} ELSE {})
    /\ astray' = (astray \/ ( /\ posts[k].kind = "decide" /\ ~excused
                              /\ run.approval # posts[k].shown ))
    /\ \E step \in {"answered", "refused"} :          \* the answer may be lost
          posts' = [posts EXCEPT ![k].step = step]
    /\ UNCHANGED <<route, view, renders, pendingAction, excused>>

\* It refuses, or the request fails.
Refuse(k) ==
    /\ posts[k].step = "sent"
    /\ posts' = [posts EXCEPT ![k].step = "refused"]
    /\ UNCHANGED <<run, route, view, renders, pendingAction>> /\ UNCHANGED notes

-----------------------------------------------------------------------------
(* render *)

\* Faulty variant: the generation is not counted up.
OutdatedNone == renders

\* The generation is counted up: what the calls in flight have loaded, or will,
\* no longer matters.
Outdated ==
    [i \in DOMAIN renders |->
       [renders[i] EXCEPT !.current = FALSE, !.run = NoRun,
                          !.step = IF @ = "draw" THEN "load" ELSE @]]

\* A call of render, up to its first await; then is what its caller sends once it
\* returns.
CallRender(r, then) ==
    /\ Len(renders) < MaxRenders
    /\ renders' = Append(Outdated,
          [route |-> r, current |-> TRUE, run |-> NoRun, step |-> "load", then |-> then])

\* A call nobody waits for, with the writes ps under way.  The page of the
\* policies needs nothing loaded.
StartRender(r, silent, ps) ==
    /\ posts' = ps
    /\ \/ /\ r = "policies"
          /\ renders' = Outdated
          /\ view' = Notice("policies")
       \/ /\ r # "policies"
          /\ CallRender(r, NoPost)
          /\ view' = IF silent THEN view ELSE Notice("loading")

\* Call i returns.
Return(i) ==
    /\ renders' = RemoveAt(renders, i)
    /\ posts' = IF renders[i].then = NoPost THEN posts
                ELSE Append(posts, [renders[i].then EXCEPT !.step = "sent"])
    /\ UNCHANGED <<run, route, pendingAction>> /\ UNCHANGED notes

\* The first call's capabilities have come, or have not.  It goes on for the route
\* it was called for; with the policies, whether or not it is the newest.
CapabilitiesCome(i) ==
    /\ renders[i].step = "capabilities"
    /\ IF renders[i].route = "policies"
       THEN Return(i) /\ view' = Notice("policies")
       ELSE /\ renders' = [renders EXCEPT ![i].step = "load"]
            /\ UNCHANGED <<run, route, view, posts, pendingAction>>
            /\ UNCHANGED notes

\* loadDetail, listRuns: the record is read.
Load(i) ==
    /\ renders[i].step = "load" /\ renders[i].current
    /\ renders' = [renders EXCEPT ![i].step = "draw",
                     ![i].run = IF renders[i].route = "detail" THEN run ELSE NoRun]
    /\ UNCHANGED <<run, route, view, posts, pendingAction>>
    /\ UNCHANGED notes

\* Faulty variant: the buttons stay enabled while a write is under way.
DrawEnabled(i) ==
    /\ renders[i].step = "draw" /\ renders[i].current
    /\ view' = Page(renders[i].route, renders[i].run, FALSE)
    /\ Return(i)

\* Everything has been loaded, and no newer call was made: it is drawn.
Draw(i) ==
    /\ renders[i].step = "draw" /\ renders[i].current
    /\ view' = Page(renders[i].route, renders[i].run, pendingAction)
    /\ Return(i)

\* A request of it failed.
LoadFails(i) ==
    /\ renders[i].step \in {"load", "draw"} /\ renders[i].current
    /\ view' = Notice("error")
    /\ Return(i)

\* A newer call was made: what it loads, or fails to, is dropped.
Drop(i) ==
    /\ renders[i].step = "load" /\ ~renders[i].current
    /\ Return(i)
    /\ UNCHANGED view

-----------------------------------------------------------------------------
(* What calls it *)

\* hashchange
Navigate(r) ==
    /\ r # route /\ route' = r
    /\ UNCHANGED <<run, pendingAction>> /\ UNCHANGED notes
    /\ StartRender(r, FALSE, posts)

\* Faulty variant: an error ends the refreshing.
PollUnlessError ==
    /\ ~pendingAction /\ view.page # "error"
    /\ UNCHANGED <<run, route, pendingAction>> /\ UNCHANGED notes
    /\ StartRender(route, TRUE, posts)

\* The timer of schedule.
Poll ==
    /\ ~pendingAction
    /\ UNCHANGED <<run, route, pendingAction>> /\ UNCHANGED notes
    /\ StartRender(route, TRUE, posts)

\* The refresh and theme buttons, and the tab becoming visible.
Refresh ==
    /\ UNCHANGED <<run, route, pendingAction>> /\ UNCHANGED notes
    /\ StartRender(route, TRUE, posts)

Writes == Len(posts) + Len(SelectSeq(renders, LAMBDA r : r.then # NoPost))

\* onDecide and onCancel, of a button that is shown and enabled, up to the write.
Click(kind) ==
    /\ view.page = "detail" /\ ~view.busy /\ Writes < MaxPosts
    /\ kind = "decide" => view.run.approval # 0
    /\ kind = "cancel" => ~view.run.over
    /\ pendingAction' = TRUE
    /\ view' = [view EXCEPT !.clicked = TRUE]
    /\ CallRender(route, [kind  |-> kind, step |-> "none",
                          shown |-> IF kind = "decide" THEN view.run.approval ELSE 0])
    /\ excused' = (excused \/ view.clicked)
    /\ UNCHANGED <<run, route, posts, astray>>

\* Faulty variant: only a write that succeeded enables the buttons again.
AnswerOfSuccess(k) ==
    /\ posts[k].step \in {"answered", "refused"}
    /\ pendingAction' = (posts[k].step = "refused")
    /\ StartRender(route, TRUE, RemoveAt(posts, k))
    /\ UNCHANGED <<run, route>> /\ UNCHANGED notes

\* The write is over: their finally.
Answer(k) ==
    /\ posts[k].step \in {"answered", "refused"}
    /\ pendingAction' = FALSE
    /\ StartRender(route, TRUE, RemoveAt(posts, k))
    /\ UNCHANGED <<run, route>> /\ UNCHANGED notes

-----------------------------------------------------------------------------

Advance(i) == CapabilitiesCome(i) \/ Load(i) \/ Draw(i) \/ LoadFails(i) \/ Drop(i)

\* The newest call, while it may still draw.
Newest(Step(_)) == \E i \in DOMAIN renders : renders[i].current /\ Step(i)

Next ==
    \/ \E ends \in BOOLEAN : RunMoves(ends)
    \/ \E over \in BOOLEAN : OthersDecide(over)
    \/ \E k \in DOMAIN posts, over \in BOOLEAN : Handle(k, over)
    \/ \E k \in DOMAIN posts : Refuse(k) \/ Answer(k)
    \/ \E i \in DOMAIN renders :
          CapabilitiesCome(i) \/ Load(i) \/ Draw(i) \/ LoadFails(i) \/ Drop(i)
    \/ \E r \in Routes : Navigate(r)
    \/ \E kind \in {"decide", "cancel"} : Click(kind)
    \/ Poll \/ Refresh

Spec == Init /\ [][Next]_vars

\* Every request is answered in the end, so the oldest of them always is; the
\* timer fires while the tab is visible and refreshing is on; and answers arrive
\* before the next poll now and then.
FairSpec ==
    /\ Spec
    /\ WF_vars(renders # << >> /\ Advance(1))
    /\ WF_vars(posts # << >> /\ (Refuse(1) \/ \E over \in BOOLEAN : Handle(1, over)))
    /\ SF_vars(posts # << >> /\ Answer(1))
    /\ SF_vars(Poll)
    /\ SF_vars(Newest(Load)) /\ SF_vars(Newest(Draw))

-----------------------------------------------------------------------------

\* The run's page, with its buttons, is shown only under the run's address, and is
\* never replaced by an older one, although the answers to the calls of render come
\* in any order and while clicks, polls and navigation overtake each other (the
\* generation of render).
NeverGoesBack ==
    [][ view'.page = "detail" =>
          /\ route' = "detail"
          /\ view.page = "detail" => view'.run.version >= view.run.version ]_vars

\* A decision reaches the approval it was made on, although the request names none
\* (decide, POST /runs/{id}/decision) and the run may have asked for the next when
\* it arrives.  Two things are excepted: another client having decided, and a second
\* click before the first has had the page redrawn with its buttons disabled.
DecisionAsShown == ~astray

\* The buttons a click disables come back, whether the write succeeds, is refused
\* or fails (onDecide, onCancel).
ButtonsComeBack == pendingAction ~> ~pendingAction

\* An approval that waits for the operator comes into view while the run's page is
\* open, through failed loads too: the page that says so is polled away (schedule).
PendingIsShown ==
    (run.approval # 0 /\ route = "detail") ~>
        \/ view.page = "detail" /\ view.run.approval = run.approval
        \/ run.approval = 0 \/ route # "detail"
=============================================================================
