--------------------------- MODULE DurableWorkers ---------------------------
(* WorkflowWorker (num-runtime/src/worker.rs): drain_leased hands the      *)
(* events it claims from the queue of LeaseQueue to the engine of          *)
(* WorkflowEngine.  A worker is at once a worker of the queue and a        *)
(* process of the engine; while the queue waits at "apply" the engine      *)
(* serves the event's request, and a kill stops both.                      *)
EXTENDS Integers, FiniteSets

CONSTANTS
    Workers, Events, MaxAttempts, MaxCrashes, CrashPoints, Nothing,
    Workflows, NoId, Tenants, Seed, Absent, NoCtx, AuditFails,
    EngineCrashPoints,
    RequestOf,    \* the request an event stands for: [Events -> Request]
    MaxCalls      \* bound of the engine's call counter, set out of reach

VARIABLES
    queue, leases, torn, dead, clock, pc, todo, held, hb, opened,
    sent, applied, deliveries, lapsed, emptied, crashes, beats,
    store, tmp, audit, at, req, draft, calls

Queue == INSTANCE LeaseQueue WITH MaxHeartbeats <- 0

Engine ==
    INSTANCE WorkflowEngine WITH
        Processes <- Workers,
        EventIds <- Events,
        Requests <- {RequestOf[e] : e \in Events},
        Strict <- TRUE,
        CrashPoints <- EngineCrashPoints

queueVars == <<queue, leases, torn, dead, clock, pc, todo, held, hb, opened,
               sent, applied, deliveries, lapsed, emptied, crashes, beats>>
engineVars == <<store, tmp, audit, at, req, draft, calls>>
vars == <<queueVars, engineVars>>

Init == Queue!Init /\ Engine!Init

Enqueue == (\E e \in Events : Queue!Enqueue(e)) /\ UNCHANGED engineVars

\* claim up to its last write, ack and fail.
QueueStep(w) ==
    /\ pc[w] \notin {"write", "apply"}
    /\ Queue!WorkerStep(w)
    /\ UNCHANGED engineVars

\* claim returns and apply_event is called.
Deliver(w) ==
    /\ Queue!Stamp(w)
    /\ Engine!Call(w, RequestOf[held[w].event])

Serve(w) == Engine!ServeStep(w) /\ UNCHANGED queueVars

\* apply_event returns, and its result decides between ack and fail.
Finish(w) ==
    /\ Engine!Return(w)
    /\ \/ at[w] = "ok" /\ Queue!ApplyOk(w)
       \/ at[w] = "err" /\ Queue!ApplyErr(w)

Crash(w) ==
    /\ Queue!Crash(w)
    /\ IF at[w] = "ready" THEN UNCHANGED engineVars ELSE Engine!Crash(w)

Expire == Queue!Expire /\ UNCHANGED engineVars

Next ==
    \/ Enqueue
    \/ \E w \in Workers :
          QueueStep(w) \/ Deliver(w) \/ Serve(w) \/ Finish(w) \/ Crash(w)
    \/ Expire

Spec == Init /\ [][Next]_vars

\* The lease timeout is chosen well: no lease runs out in the hands of the
\* worker that works on it, only in those of one that was killed.
Timely ==
    \A w \in Workers, l \in leases :
        /\ pc[w] \in Queue!Claiming
        /\ Queue!Path(l) = Queue!Path(held[w])
        => ~l.stale

TimelySpec == Init /\ [][Next /\ Timely']_vars

-----------------------------------------------------------------------------
(* Of the constants.                                                       *)

\* The assumptions of the parts, and what WorkflowWorker adds: an event is
\* applied under its own id, without a security context.
Suited ==
    /\ MaxAttempts \in Nat
    /\ MaxCrashes \in Nat
    /\ CrashPoints \subseteq Queue!Labels \ {"idle"}
    /\ Nothing \notin Workers
    /\ RequestOf \in [Events -> Engine!Request]
    /\ \A e \in Events : RequestOf[e].id = e /\ RequestOf[e].ctx = NoCtx
    /\ NoCtx \notin Tenants
    /\ AuditFails \in BOOLEAN
    /\ EngineCrashPoints \subseteq Engine!Points \ {"ready"}
    /\ MaxCalls \in Nat
    /\ Nothing \notin Engine!Request
    /\ Nothing \notin Engine!L!WorkflowState
    /\ NoId \notin Events
    /\ Absent \notin Engine!L!WorkflowState
    /\ Seed \in [Workflows -> Engine!L!WorkflowState \cup {Absent}]

\* One worker; workers whose events are those of different workflows.
Alone == \A v, w \in Workers : v = w
Sharded == \A d, e \in Events : RequestOf[d].wf = RequestOf[e].wf => d = e

-----------------------------------------------------------------------------
(* Properties.                                                             *)

Marked(e) ==
    LET s == store[RequestOf[e].wf] IN s # Absent /\ e \in s.marks

\* An event is acknowledged, and so disappears from the queue, only when its
\* workflow remembers it.
AckedIsMarked == \A e \in applied : Marked(e)

\* A worker that is killed and run again leaves one audit line per event.
OneEntryPerEvent == Engine!OneEntryPerEvent

\* A delivery of an event that its workflow remembers is never reported as
\* failed, although its transition is no longer permitted: the attempts it
\* uses up are those of workers that were killed.
AppliedNeverFails ==
    \A w \in Workers : pc[w] \in {"fail", "drop"} => ~Marked(held[w].event)

\* Workers that drain events of different workflows never meet in the engine,
\* which is what its guarantees rest on.
NeverMeet == Engine!Exclusive
=============================================================================
