--------------------------- MODULE ServiceInstance ---------------------------
(***************************************************************************)
(* Which OrchestrationService a request works with, and what keeps a run    *)
(* from advancing twice at once: get_service, start_advance and the lock of *)
(* _advance (apps/api/app/services/orchestration.py).                       *)
(*                                                                         *)
(* get_service is a plain function, so FastAPI calls it in a thread of its  *)
(* own for every request, before the handler runs on the event loop.  A     *)
(* service knows of the runs it advances only; all share the stored runs.   *)
(***************************************************************************)
CONSTANT Requests     \* the requests to advance one and the same run

VARIABLES service,    \* the module's _service: the request that built it
          pc,         \* where each request stands
          got,        \* what get_service returned to it
          advancing,  \* the services with the run in their _advancing
          tasks,      \* the _advance tasks: <<service, request>>
          holding     \* those of them that hold their service's lock of the run

vars == <<service, pc, got, advancing, tasks, holding>>

Init ==
    /\ service = "none"
    /\ pc = [r \in Requests |-> "arrives"]
    /\ got = [r \in Requests |-> "none"]
    /\ advancing = {} /\ tasks = {} /\ holding = {}

-----------------------------------------------------------------------------

\* get_service, in the request's thread: the test of the global ...
Check(r) ==
    /\ pc[r] = "arrives"
    /\ pc' = [pc EXCEPT ![r] = IF service = "none" THEN "building" ELSE "returning"]
    /\ UNCHANGED <<service, got, advancing, tasks, holding>>

\* ... the assignment of a new service, built since ...
Build(r) ==
    /\ pc[r] = "building"
    /\ service' = r
    /\ pc' = [pc EXCEPT ![r] = "returning"]
    /\ UNCHANGED <<got, advancing, tasks, holding>>

\* ... and the global again.
Return(r) ==
    /\ pc[r] = "returning"
    /\ got' = [got EXCEPT ![r] = service]
    /\ pc' = [pc EXCEPT ![r] = "handling"]
    /\ UNCHANGED <<service, advancing, tasks, holding>>

\* advance_run, decide or submit_task: start_advance, or False from it.
start_advance(r) ==
    /\ pc[r] = "handling"
    /\ IF got[r] \in advancing
       THEN pc' = [pc EXCEPT ![r] = "refused"] /\ UNCHANGED <<advancing, tasks>>
       ELSE /\ pc' = [pc EXCEPT ![r] = "started"]
            /\ advancing' = advancing \cup {got[r]}
            /\ tasks' = tasks \cup {<<got[r], r>>}
    /\ UNCHANGED <<service, got, holding>>

\* _advance: the run's lock, of this service, is taken.
TaskEnters(t) ==
    /\ t \in tasks \ holding
    /\ \A u \in holding : u[1] # t[1]
    /\ holding' = holding \cup {t}
    /\ UNCHANGED <<service, pc, got, advancing, tasks>>

\* Its finally: the lock is released and the run leaves _advancing.
TaskEnds(t) ==
    /\ t \in holding
    /\ holding' = holding \ {t}
    /\ tasks' = tasks \ {t}
    /\ advancing' = advancing \ {t[1]}
    /\ UNCHANGED <<service, pc, got>>

Next ==
    \/ \E r \in Requests : Check(r) \/ Build(r) \/ Return(r) \/ start_advance(r)
    \/ \E t \in Requests \X Requests : TaskEnters(t) \/ TaskEnds(t)

Spec == Init /\ [][Next]_vars

-----------------------------------------------------------------------------

\* One advance of a run at a time: "A run advancing twice at once would have two
\* workers in the same worktree and two writers to the same record"
\* (OrchestrationService.__init__).
OneAdvance == \A t, u \in holding : t = u
=============================================================================
