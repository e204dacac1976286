--------------------------- MODULE WorkflowEngine ---------------------------
(***************************************************************************)
(* WorkflowEngine (num-runtime/src/engine.rs) over FileStateStore and      *)
(* FileAuditSink (num-runtime/src/storage.rs).  Several processes share    *)
(* the state root.  A request loads the workflow file, decides, writes a   *)
(* temporary file, renames it over the workflow file and then appends to   *)
(* the audit log; another process can run between any two of these, and    *)
(* the process can be killed there.                                        *)
(***************************************************************************)
EXTENDS Integers, Sequences

CONSTANTS
    Processes,    \* processes that run an engine on the state root
    Workflows, EventIds, NoId, Tenants, Seed, Absent,
    Requests,     \* the requests that are made (a subset of Request)
    NoCtx,        \* a request without a security context (the plain methods)
    Strict,       \* TenantIsolationMode: strict or disabled
    CrashPoints,  \* where a process may be killed (a set of Points)
    AuditFails,   \* whether appending to the audit log may fail
    MaxCalls,     \* bound: requests begun
    Nothing       \* no request, no draft

VARIABLES
    store,   \* <root>/workflows/<id>.json
    tmp,     \* <root>/workflows/<id>.json.tmp
    audit,   \* the lines of the audit log, by workflow
    at,      \* where each process stands
    req,     \* the request it serves
    draft,   \* the workflow state it is going to save
    calls    \* requests begun so far

disk == <<store, tmp, audit>>
vars == <<store, tmp, audit, at, req, draft, calls>>

\* The audit line a process owes: the state is saved, the line not written.
Owes(p, w) == at[p] = "append" /\ req[p].wf = w

EntryOf(r) == [kind |-> r.kind, id |-> r.id]

\* The refinement mapping: the audit log with the lines owed.
Trail ==
    [w \in Workflows |->
        IF \E p \in Processes : Owes(p, w)
        THEN Append(audit[w], EntryOf(req[CHOOSE p \in Processes : Owes(p, w)]))
        ELSE audit[w]]

Lifecycle == INSTANCE WorkflowLifecycle WITH audit <- Trail

L == INSTANCE WorkflowLifecycle

Points == {"ready", "guard", "load", "reload", "write", "rename", "append",
           "ok", "err"}

\* kind and workflow; the id of the queued event, if it comes from the queue;
\* the tenant of the caller, if it is one of the _as methods; and the tenant a
\* Start gives the new workflow.
Request == [kind : L!Kinds, wf : Workflows, id : EventIds \cup {NoId},
            ctx : Tenants \cup {NoCtx}, tenant : Tenants]

ASSUME EngineAssumption ==
    /\ Requests \subseteq Request
    /\ NoCtx \notin Tenants
    /\ Strict \in BOOLEAN
    /\ AuditFails \in BOOLEAN
    /\ CrashPoints \subseteq Points \ {"ready"}
    /\ MaxCalls \in Nat
    /\ Nothing \notin Request
    /\ Nothing \notin L!WorkflowState
    /\ NoId \notin EventIds
    /\ Absent \notin L!WorkflowState
    /\ Seed \in [Workflows -> L!WorkflowState \cup {Absent}]

TypeOK ==
    /\ store \in [Workflows -> L!WorkflowState \cup {Absent}]
    /\ tmp \in [Workflows -> L!WorkflowState \cup {Absent}]
    /\ audit \in [Workflows -> Seq(L!Entry)]
    /\ at \in [Processes -> Points]
    /\ req \in [Processes -> Requests \cup {Nothing}]
    /\ draft \in [Processes -> L!WorkflowState \cup {Nothing}]
    /\ \A p \in Processes : at[p] # "ready" => req[p] \in Requests
    /\ \A p \in Processes :
          at[p] \in {"write", "rename"} => draft[p] \in L!WorkflowState
    /\ calls \in 0 .. MaxCalls

Init ==
    /\ store = Seed
    /\ tmp = [w \in Workflows |-> Absent]
    /\ audit = [w \in Workflows |-> << >>]
    /\ at = [p \in Processes |-> "ready"]
    /\ req = [p \in Processes |-> Nothing]
    /\ draft = [p \in Processes |-> Nothing]
    /\ calls = 0

-----------------------------------------------------------------------------
Goto(p, to) == at' = [at EXCEPT ![p] = to]

\* TenantGuard::ensure_access; the plain methods have no context to check.
MayAccess(ctx, tenant) == ctx = NoCtx \/ ~Strict \/ ctx = tenant

Leave(p) ==
    /\ at' = [at EXCEPT ![p] = "ready"]
    /\ req' = [req EXCEPT ![p] = Nothing]
    /\ draft' = [draft EXCEPT ![p] = Nothing]

\* The first check a method makes before it reads the store.
Entrance(r) ==
    IF r.kind = "Start"
    THEN IF ~MayAccess(r.ctx, r.tenant) THEN "err"
         ELSE IF r.id = NoId THEN "reload" ELSE "load"
    ELSE IF r.ctx = NoCtx THEN "load" ELSE "guard"

Call(p, r) ==
    /\ calls < MaxCalls
    /\ calls' = calls + 1
    /\ at[p] = "ready"
    /\ Goto(p, Entrance(r))
    /\ req' = [req EXCEPT ![p] = r]
    /\ UNCHANGED <<disk, draft>>

\* Faulty variant: the tenant check only looks whether the workflow exists.
GuardExists(p) ==
    /\ at[p] = "guard"
    /\ Goto(p, IF store[req[p].wf] # Absent THEN "load" ELSE "err")
    /\ UNCHANGED <<disk, req, draft, calls>>

\* transition_workflow_as, transition_workflow_for_event_as: the tenant of the
\* stored workflow is checked on a load of its own.
Guard(p) ==
    /\ at[p] = "guard"
    /\ LET s == store[req[p].wf] IN
       IF s # Absent /\ MayAccess(req[p].ctx, s.tenant)
       THEN Goto(p, "load") ELSE Goto(p, "err")
    /\ UNCHANGED <<disk, req, draft, calls>>

\* Faulty variant: the processed marks are not consulted.
ForgetProcessed(s, id) == FALSE

\* event_already_processed; a direct call asks nothing.
Processed(s, id) == s # Absent /\ id \in s.marks

\* What a start saves, and what a transition makes of the state it loaded.
NewWorkflow(r) ==
    [status |-> "Running", marks |-> L!MarkOf(r.id), tenant |-> r.tenant]

\* Faulty variant: the event is not marked.
MovedUnmarked(s, r) ==
    [status |-> L!Target(r.kind), marks |-> s.marks, tenant |-> s.tenant]

Moved(s, r) ==
    [status |-> L!Target(r.kind), marks |-> s.marks \cup L!MarkOf(r.id),
     tenant |-> s.tenant]

\* The load of start_workflow_for_event, which decides on replays.
LoadForStart(p) ==
    /\ at[p] = "load"
    /\ req[p].kind = "Start"
    /\ LET s == store[req[p].wf] IN
       Goto(p, IF s = Absent THEN "reload"
               ELSE IF Processed(s, req[p].id) THEN "ok" ELSE "err")
    /\ UNCHANGED <<disk, req, draft, calls>>

\* Faulty variant: nothing is made ready to be saved.
ReloadWithoutDraft(p) ==
    /\ at[p] = "reload"
    /\ Goto(p, IF store[req[p].wf] = Absent THEN "write" ELSE "err")
    /\ UNCHANGED <<disk, req, draft, calls>>

\* The load of start_workflow, which decides that the workflow is new.
Reload(p) ==
    /\ at[p] = "reload"
    /\ IF store[req[p].wf] = Absent
       THEN /\ Goto(p, "write")
            /\ draft' = [draft EXCEPT ![p] = NewWorkflow(req[p])]
       ELSE Goto(p, "err") /\ UNCHANGED draft
    /\ UNCHANGED <<disk, req, calls>>

\* Faulty variant: a replay is refused when its transition no longer applies.
RefusesReplays(s, r) ==
    s = Absent \/ ~L!Allowed(s.status, L!Target(r.kind))

\* The load of transition_workflow(_for_event), with its early returns.
Refused(s, r) ==
    s = Absent \/ (~Processed(s, r.id) /\ ~L!Allowed(s.status, L!Target(r.kind)))

LoadForTransition(p) ==
    /\ at[p] = "load"
    /\ req[p].kind # "Start"
    /\ LET r == req[p]
           s == store[r.wf]
       IN
       IF Refused(s, r) THEN Goto(p, "err") /\ UNCHANGED draft
       ELSE IF Processed(s, r.id) THEN Goto(p, "ok") /\ UNCHANGED draft
       ELSE /\ Goto(p, "write")
            /\ draft' = [draft EXCEPT ![p] = Moved(s, r)]
    /\ UNCHANGED <<disk, req, calls>>

\* save_workflow, in two system calls; the temporary name belongs to the
\* workflow, not to the process.
Write(p) ==
    /\ at[p] = "write"
    /\ Goto(p, "rename")
    /\ tmp' = [tmp EXCEPT ![req[p].wf] = draft[p]]
    /\ UNCHANGED <<store, audit, req, draft, calls>>

Rename(p) ==
    /\ at[p] = "rename"
    /\ LET w == req[p].wf IN
       IF tmp[w] = Absent
       THEN Goto(p, "err") /\ UNCHANGED <<store, tmp>>
       ELSE /\ Goto(p, "append")
            /\ store' = [store EXCEPT ![w] = tmp[w]]
            /\ tmp' = [tmp EXCEPT ![w] = Absent]
    /\ UNCHANGED <<audit, req, draft, calls>>

Audit(p) ==
    /\ at[p] = "append"
    /\ Goto(p, "ok")
    /\ audit' = [audit EXCEPT ![req[p].wf] = Append(@, EntryOf(req[p]))]
    /\ UNCHANGED <<store, tmp, req, draft, calls>>

\* The state is saved, the audit log cannot be written: the request fails.
AuditError(p) ==
    /\ AuditFails
    /\ at[p] = "append"
    /\ Goto(p, "err")
    /\ UNCHANGED <<disk, req, draft, calls>>

Return(p) ==
    /\ at[p] \in {"ok", "err"}
    /\ Leave(p)
    /\ UNCHANGED <<disk, calls>>

Crash(p) ==
    /\ at[p] \in CrashPoints
    /\ Leave(p)
    /\ UNCHANGED <<disk, calls>>

ServeStep(p) ==
    \/ Guard(p) \/ LoadForStart(p) \/ Reload(p) \/ LoadForTransition(p)
    \/ Write(p) \/ Rename(p) \/ Audit(p) \/ AuditError(p)

Next ==
    \E p \in Processes :
        \/ \E r \in Requests : Call(p, r)
        \/ ServeStep(p)
        \/ Return(p)
        \/ Crash(p)

Spec == Init /\ [][Next]_vars

\* One process at a time works on a workflow: nothing in the engine sees to
\* it, it is what running one worker, or sharding by workflow, gives.
Serving(p) == at[p] \notin {"ready", "ok", "err"}

Exclusive ==
    \A p, q \in Processes :
        p # q /\ Serving(p) /\ Serving(q) => req[p].wf # req[q].wf

ExclusiveSpec == Init /\ [][Next /\ Exclusive']_vars

-----------------------------------------------------------------------------
(* Properties.                                                             *)

\* Seen through the refinement mapping, in which a saved state whose audit
\* line is still to be written counts as audited, a request of the engine is
\* one atomic permitted transition, or nothing.
ImplementsLifecycle == Lifecycle!Spec

\* The audit log, with the line about to be written, replays to the stored
\* status of every workflow.
TrailReplays == Lifecycle!TrailReplays

\* A completed, compensated or cancelled workflow stays so, also across kills
\* between any two system calls.
TerminalStays == L!TerminalStays

\* A redelivered event leaves no second audit line, whatever the process that
\* served it first had done when it was killed.
OneEntryPerEvent == L!OneEntryPerEvent

\* The tenant check is made on a load of its own; what is saved afterwards is
\* still a workflow of the caller's tenant.
TenantConfined ==
    \A p \in Processes :
        Strict /\ at[p] \in {"write", "rename"} /\ req[p].ctx # NoCtx
            => draft[p].tenant = req[p].ctx
=============================================================================
