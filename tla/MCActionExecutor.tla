-------------------------- MODULE MCActionExecutor --------------------------
(* Instances of ActionExecutor for TLC.                                    *)
EXTENDS ActionExecutor, TLC

CONSTANTS x1, x2, k1, k2, ref1, ref2, secret, redacted, null

MCExecutors == {x1, x2}
OneExecutor == {x1}
TwoKeys == {k1, k2}

\* Two plain values, a secret, which is saved as a marker, and null, which is
\* written as a kind that json_to_runtime_value does not know.
MCValues == {ref1, ref2, secret, redacted, null}
MCReadBack ==
    ref1 :> ref1 @@ ref2 :> ref2 @@ secret :> redacted
        @@ redacted :> redacted @@ null :> Unreadable

Keyed(k, n, t) ==
    [key |-> k, tries |-> n, timeout |-> t, affordable |-> TRUE]
MCCalls ==
    {Keyed(k1, 2, "some"), Keyed(k1, 0, "none"), Keyed(NoKey, 1, "some"),
     Keyed(k2, 2, "zero"), [Keyed(k2, 1, "none") EXCEPT !.affordable = FALSE]}

AnyPoint == {"load", "run", "write", "rename", "ok", "err"}
=============================================================================
