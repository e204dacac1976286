----------------------------- MODULE MCRuntime ------------------------------
(***************************************************************************)
(* Runtime for TLC.                                                        *)
(***************************************************************************)
EXTENDS Runtime, TLC

CONSTANTS pay, mail, refund, k1, k2

\* A keyed action with a cost, two attempts and a compensation, a keyed one
\* that may time out, and the compensation of both.
MCActions == {pay, mail, refund}
MCKeys == {k1, k2}
MCKeyOf == pay :> k1 @@ mail :> k2 @@ refund :> NoKey
MCTries == pay :> 2 @@ mail :> 1 @@ refund :> 1
MCCost == pay :> 2 @@ mail :> 1 @@ refund :> 0
MCUndoOf == pay :> refund @@ mail :> refund @@ refund :> NoAction
MCTimed == {mail}
AnyCallees == pay :> MCActions @@ mail :> MCActions @@ refund :> MCActions
PayMails == pay :> {mail} @@ mail :> {} @@ refund :> {}
MCLimits == {1, 2}
=============================================================================
