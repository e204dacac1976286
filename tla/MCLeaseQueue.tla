---------------------------- MODULE MCLeaseQueue ----------------------------
(* Instances of LeaseQueue for TLC.                                        *)
EXTENDS LeaseQueue, TLC

CONSTANTS w1, w2, e1

MCWorkers == {w1, w2}
OneEvent == {e1}

AnyPoint == Labels \ {"idle"}
=============================================================================
