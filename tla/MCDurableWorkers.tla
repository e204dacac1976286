-------------------------- MODULE MCDurableWorkers --------------------------
(* Instances of DurableWorkers for TLC.  Workflows a and b were started    *)
(* directly and run.                                                       *)
EXTENDS DurableWorkers, TLC

CONSTANTS w1, w2, e1, a, b, t1

TwoWorkers == {w1, w2}
OneEvent == {e1}
MCWorkflows == {a, b}
MCTenants == {t1}

Running == [status |-> "Running", marks |-> {}, tenant |-> t1]
MCSeed == a :> Running @@ b :> Running

Request(kind, w, e) ==
    [kind |-> kind, wf |-> w, id |-> e, ctx |-> NoCtx, tenant |-> t1]

\* The event is sent to workflow a.
OneRequest == e1 :> Request("Wait", a, e1)

\* Every point of WorkflowEngine but "ready".
AnyEnginePoint == {"guard", "load", "reload", "write", "rename", "append",
                   "ok", "err"}
OnlyApplying == {"apply"}
=============================================================================
