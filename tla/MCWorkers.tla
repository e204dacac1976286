------------------------------ MODULE MCWorkers ------------------------------
(***************************************************************************)
(* The engine alone and the workers that drive it, for TLC, each in        *)
(* executions of its own: the initial state says which.  In "engine" two   *)
(* processes make requests of their own.  The others are workers at one    *)
(* queue directory: one that is killed and run again over two events of    *)
(* one workflow; two over events of different workflows; or two that drain *)
(* without leases.  The leased workers are instances of the module that    *)
(* proves the theorems about DurableWorkers, which hold of them then.      *)
(***************************************************************************)
EXTENDS MCWorkflowEngine, FiniteSets

CONSTANTS
    w1, w2,
    Drainers, Drained, NoFile, MaxKills   \* of PlainDrain

VARIABLES
    mode,
    queue, leases, torn, dead, clock, pc, todo, held, hb, opened,
    sent, applied, deliveries, lapsed, emptied, crashes, beats,
    stored, saving, lines, point, request, edit, begun,
    files, drafts, prefix, stands, looksAt, handed, refused, killed, before,
    kills, enqueued, done

Running == [status |-> "Running", marks |-> {}, tenant |-> t1]
BothRun == a :> Running @@ b :> Running

ToRunning(kind, w, e) ==
    [kind |-> kind, wf |-> w, id |-> e, ctx |-> NoCtx, tenant |-> t1]

\* Every label of LeaseQueue but "idle".
AnyLabel == {"scan", "recover", "unlink", "rename", "stamp", "write", "apply",
             "ack", "fail", "drop"}

\* Two events of one workflow, which undo each other.
Restarted ==
    INSTANCE DurableWorkersProofs WITH
        Workers <- {w1}, Events <- {e1, e2}, MaxAttempts <- 2, MaxCrashes <- 2,
        CrashPoints <- AnyLabel, EngineCrashPoints <- AnyPoint,
        Tenants <- {t1}, AuditFails <- FALSE, Seed <- BothRun, MaxCalls <- 99,
        RequestOf <- e1 :> ToRunning("Wait", a, e1) @@ e2 :> ToRunning("Resume", a, e2),
        store <- stored, tmp <- saving, audit <- lines, at <- point, req <- request,
        draft <- edit, calls <- begun

\* Events of different workflows, an audit log that may fail; nobody is
\* killed, for two workers that recover the lease of a killed one can both
\* put its event back.
Sharded ==
    INSTANCE DurableWorkersProofs WITH
        Workers <- {w1, w2}, Events <- {e1, e2}, MaxAttempts <- 2, MaxCrashes <- 0,
        CrashPoints <- AnyLabel, EngineCrashPoints <- AnyPoint,
        Tenants <- {t1}, AuditFails <- TRUE, Seed <- BothRun, MaxCalls <- 99,
        RequestOf <- e1 :> ToRunning("Wait", a, e1) @@ e2 :> ToRunning("Complete", b, e2),
        store <- stored, tmp <- saving, audit <- lines, at <- point, req <- request,
        draft <- edit, calls <- begun

Plain ==
    INSTANCE PlainDrain WITH
        Events <- Drained, sent <- enqueued, applied <- done

leased == <<queue, leases, torn, dead, clock, pc, todo, held, hb, opened, sent,
            applied, deliveries, lapsed, emptied, crashes, beats, stored,
            saving, lines, point, request, edit, begun>>
plain == <<files, drafts, prefix, stands, looksAt, handed, refused, killed,
           before, kills, enqueued, done>>

PartsInit ==
    /\ mode \in {"engine", "restarted", "sharded", "plain"}
    /\ Init
    /\ IF mode = "restarted" THEN Restarted!Init ELSE Sharded!Init
    /\ Plain!Init

\* The engine as in ExclusiveSpec, the sharded workers as in TimelySpec.
PartsNext ==
    \/ mode = "engine" /\ Next /\ Exclusive' /\ UNCHANGED <<mode, leased, plain>>
    \/ mode = "restarted" /\ Restarted!Next /\ UNCHANGED <<mode, vars, plain>>
    \/ mode = "sharded" /\ Sharded!Next /\ Sharded!Timely' /\ UNCHANGED <<mode, vars, plain>>
    \/ mode = "plain" /\ Plain!Next /\ UNCHANGED <<mode, vars, leased>>

PartsSpec == PartsInit /\ [][PartsNext]_<<mode, vars, leased, plain>>

-----------------------------------------------------------------------------
\* What the theorems about DurableWorkers assume of its constants.
ASSUME WorkersAssumption ==
    /\ Restarted!Suited /\ Restarted!Alone
    /\ Sharded!Suited /\ Sharded!Sharded

-----------------------------------------------------------------------------
\* A worker that is killed, anywhere, and run again: it acknowledges no event
\* that its workflow does not remember, and leaves one audit line per event.
RestartsAreSafe ==
    mode = "restarted" => Restarted!AckedIsMarked /\ Restarted!OneEntryPerEvent

\* The properties of DurableWorkers and of PlainDrain, stated there.
AppliedNeverFails == mode = "restarted" => Restarted!AppliedNeverFails
NeverMeet == mode = "sharded" => Sharded!NeverMeet
DrainsHandOver == Plain!DrainsHandOver
=============================================================================
