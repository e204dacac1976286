-------------------------- MODULE MCWorkflowEngine --------------------------
(* Instances of WorkflowEngine for TLC: workflow a does not exist yet,     *)
(* workflow b was started directly and runs.                               *)
EXTENDS WorkflowEngine, TLC

CONSTANTS p1, p2, a, b, e1, e2, e3, e4, t1, t2

MCProcesses == {p1, p2}
MCWorkflows == {a, b}
MCEventIds == {e1, e2, e3, e4}
MCTenants == {t1, t2}
MCSeed ==
    a :> Absent @@ b :> [status |-> "Running", marks |-> {}, tenant |-> t1]

ToA(kind, id, ctx, tenant) ==
    [kind |-> kind, wf |-> a, id |-> id, ctx |-> ctx, tenant |-> tenant]
ToB(kind, id, ctx) ==
    [kind |-> kind, wf |-> b, id |-> id, ctx |-> ctx, tenant |-> t1]

\* A start that is queued and one that is not, by different tenants, and a
\* cancellation that belongs to one of them.
Starts ==
    {ToA("Start", e1, t1, t1), ToA("Start", NoId, t1, t2),
     ToA("Start", NoId, NoCtx, t2), ToA("Cancel", e2, t1, t1)}

\* Queued and direct transitions of b, some through the _as methods.
Moves ==
    {ToB("Wait", e1, NoCtx), ToB("Resume", NoId, t1), ToB("Complete", e2, t2),
     ToB("Fail", e3, NoCtx), ToB("Compensate", NoId, NoCtx),
     ToB("Cancel", e4, t1)}

AllRequests == Starts \cup Moves
Endings == {ToB("Complete", e2, NoCtx), ToB("Cancel", e4, NoCtx)}

BeforeRename == {"guard", "load", "reload", "write", "rename"}
AnyPoint == Points \ {"ready"}

Symmetry == Permutations(MCProcesses)
=============================================================================
