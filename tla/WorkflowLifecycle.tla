-------------------------- MODULE WorkflowLifecycle --------------------------
(***************************************************************************)
(* What the workflow lifecycle engine promises (num-runtime/src/engine.rs):*)
(* a request either changes a workflow by one permitted transition, marks  *)
(* its event id and leaves one audit entry, all at once, or it changes     *)
(* nothing.  WorkflowEngine has the loads, the two-step save and the       *)
(* separate audit write the code makes of it.                              *)
(***************************************************************************)
EXTENDS Integers, Sequences

CONSTANTS
    Workflows,   \* workflow ids
    EventIds,    \* ids of queued events
    NoId,        \* a direct call, which has no event id
    Tenants,
    Seed,        \* the store at the start: [Workflows -> WorkflowState or Absent]
    Absent       \* no such workflow

Statuses == {"Created", "Running", "Waiting", "Failed", "Compensated",
             "Completed", "Cancelled"}

Kinds == {"Start", "Wait", "Resume", "Complete", "Fail", "Compensate", "Cancel"}

WorkflowState ==
    [status : Statuses, marks : SUBSET EventIds, tenant : Tenants]

\* The status a kind of request asks for.
Target(kind) ==
    CASE kind = "Start"      -> "Running"
      [] kind = "Wait"       -> "Waiting"
      [] kind = "Resume"     -> "Running"
      [] kind = "Complete"   -> "Completed"
      [] kind = "Fail"       -> "Failed"
      [] kind = "Compensate" -> "Compensated"
      [] kind = "Cancel"     -> "Cancelled"

\* Faulty variant: compensation may still be cancelled.
AllowedFromFailed(from, to) ==
    <<from, to>> \in {
        <<"Created", "Running">>,   <<"Running", "Waiting">>,
        <<"Waiting", "Running">>,   <<"Running", "Completed">>,
        <<"Running", "Failed">>,    <<"Waiting", "Failed">>,
        <<"Running", "Cancelled">>, <<"Waiting", "Cancelled">>,
        <<"Failed", "Compensated">>, <<"Compensated", "Cancelled">>}

\* validate_transition
Allowed(from, to) ==
    <<from, to>> \in {
        <<"Created", "Running">>,   <<"Running", "Waiting">>,
        <<"Waiting", "Running">>,   <<"Running", "Completed">>,
        <<"Running", "Failed">>,    <<"Waiting", "Failed">>,
        <<"Running", "Cancelled">>, <<"Waiting", "Cancelled">>,
        <<"Failed", "Compensated">>}

MarkOf(id) == {id} \ {NoId}

\* What the instances of the module give its parameters.
LifecycleAssumption ==
    /\ NoId \notin EventIds
    /\ Absent \notin WorkflowState
    /\ Seed \in [Workflows -> WorkflowState \cup {Absent}]

VARIABLES
    store,   \* the workflows
    audit    \* per workflow, the audit entries: the result and, as history,
             \* the event id it comes from

vars == <<store, audit>>

Entry == [kind : Kinds, id : EventIds \cup {NoId}]

TypeOK ==
    /\ store \in [Workflows -> WorkflowState \cup {Absent}]
    /\ audit \in [Workflows -> Seq(Entry)]

Init ==
    /\ store = Seed
    /\ audit = [w \in Workflows |-> << >>]

Record(w, kind, id) ==
    audit' = [audit EXCEPT ![w] = Append(@, [kind |-> kind, id |-> id])]

Start(w, id, t) ==
    /\ store[w] = Absent
    /\ store' = [store EXCEPT ![w] =
                    [status |-> "Running", marks |-> MarkOf(id), tenant |-> t]]
    /\ Record(w, "Start", id)

Transition(w, kind, id) ==
    /\ store[w] # Absent
    /\ id \notin store[w].marks
    /\ Allowed(store[w].status, Target(kind))
    /\ store' = [store EXCEPT ![w] =
                    [status |-> Target(kind),
                     marks |-> store[w].marks \cup MarkOf(id),
                     tenant |-> store[w].tenant]]
    /\ Record(w, kind, id)

Next ==
    \E w \in Workflows, id \in EventIds \cup {NoId} :
        \/ \E t \in Tenants : Start(w, id, t)
        \/ \E kind \in Kinds \ {"Start"} : Transition(w, kind, id)

Spec == Init /\ [][Next]_vars

-----------------------------------------------------------------------------
(* Properties of the lifecycle, which WorkflowEngine inherits.             *)

Terminal == {"Completed", "Compensated", "Cancelled"}

\* A workflow that has completed, been compensated or been cancelled stays so.
TerminalStays ==
    [][\A w \in Workflows :
          store[w] # Absent /\ store[w].status \in Terminal
             => store'[w] # Absent /\ store'[w].status = store[w].status]_vars

\* An event leaves at most one audit entry, however often it is delivered.
OneEntryPerEvent ==
    \A w \in Workflows : \A i, j \in DOMAIN audit[w] :
        audit[w][i].id = audit[w][j].id /\ audit[w][i].id # NoId => i = j

\* The audit trail replays to the stored status: its entries are a permitted
\* path from the seed, the last of them is the status, and a workflow that
\* was never audited is as it was seeded.
TrailReplays ==
    \A w \in Workflows :
        LET n == Len(audit[w]) IN
        /\ \A i \in 1 .. n - 1 :
              Allowed(Target(audit[w][i].kind), Target(audit[w][i + 1].kind))
        /\ n = 0 => store[w] = Seed[w]
        /\ n > 0 => /\ store[w] # Absent
                    /\ store[w].status = Target(audit[w][n].kind)
=============================================================================
