--------------------------- MODULE MCSurroundings ---------------------------
(***************************************************************************)
(* Six components around the workflow runtime that share nothing, each in  *)
(* executions of its own: the initial state says which of them runs, the   *)
(* others stay as they are.                                                *)
(***************************************************************************)
EXTENDS PackageRegistry, Sequences

CONSTANTS
    Processes, MaxRequests, Window, NoWindow, MaxNow, MaxGrants,
    Capacity, MaxRequest, MaxReply,
    Clients, NoClient, NoMax,
    Users, PinnedRev, NoRev, MaxRevs,
    Sources, MaxVersions

VARIABLES
    part,   \* the component that runs
    now, file, tmp, limiter, sampled, counted, granted, met,
    call, caller, unsent, input, child, wants, unsaid, output, heir, overdue,
    collected, result,
    recorder, manner, conn, backlog, server, serving, outcome, served, effects,
    audited, answer,
    selector, remote, up, cache, left, step, manifest, recorded, latest, since, cached,
    alone,
    disk, sources, locked, there, artifact, todo, stage, loaded, removing

Limit == INSTANCE RateLimit WITH pc <- limiter
Connector == INSTANCE ProcessConnector WITH pc <- caller
Http == INSTANCE HttpService
Git ==
    INSTANCE GitCheckout WITH answer <- recorded
Deploy ==
    INSTANCE Deployment WITH project <- disk, file <- artifact, torn <- removing

limitVars == <<now, file, tmp, limiter, sampled, counted, granted, met>>
connectorVars == <<call, caller, unsent, input, child, wants, unsaid, output,
                   heir, overdue, collected, result>>
httpVars == <<recorder, manner, conn, backlog, server, serving, outcome, served,
              effects, audited, answer>>
gitVars == <<selector, remote, up, cache, left, step, manifest, recorded, latest,
             since, cached, alone>>
deployVars == <<disk, sources, locked, there, artifact, todo, stage, loaded,
                removing>>
allVars == <<part, vars, limitVars, connectorVars, httpVars, gitVars, deployVars>>

\* What a component that does not run is given.
NoCall == [request |-> 0, reply |-> 0, timed |-> FALSE, hangs |-> FALSE,
           fails |-> FALSE, forks |-> FALSE]

PartsInit ==
    /\ part \in {"registry", "limit", "connector", "http", "git", "deploy"}
    /\ Init
    /\ Limit!Init
    /\ Connector!Init
    /\ part = "connector" \/ (call = NoCall /\ wants = "exit")
    /\ Http!Init
    /\ part = "http" \/ (~recorder /\ manner = [c \in Clients |-> "complete"])
    /\ Git!Init
    /\ part = "git" \/ selector = "none"
    /\ Deploy!Init
    /\ part = "deploy" \/ (locked = {} /\ sources = [v \in 1 .. MaxVersions |-> {}])

Registry ==
    /\ part = "registry" /\ Next
    /\ UNCHANGED <<part, limitVars, connectorVars, httpVars, gitVars, deployVars>>
Limiter ==
    /\ part = "limit" /\ Limit!Next
    /\ UNCHANGED <<part, vars, connectorVars, httpVars, gitVars, deployVars>>
Connection ==
    /\ part = "connector" /\ Connector!Next
    /\ UNCHANGED <<part, vars, limitVars, httpVars, gitVars, deployVars>>
Service ==
    /\ part = "http" /\ Http!Next
    /\ UNCHANGED <<part, vars, limitVars, connectorVars, gitVars, deployVars>>
Checkout ==
    /\ part = "git" /\ Git!Next
    /\ UNCHANGED <<part, vars, limitVars, connectorVars, httpVars, deployVars>>
Delivery ==
    /\ part = "deploy" /\ Deploy!Next
    /\ UNCHANGED <<part, vars, limitVars, connectorVars, httpVars, gitVars>>

\* The fairness of ProcessConnector and HttpService.
PartsSpec ==
    /\ PartsInit
    /\ [][Registry \/ Limiter \/ Connection \/ Service \/ Checkout \/ Delivery]_allVars
    /\ WF_connectorVars(part = "connector" /\ Connector!Caller)
    /\ WF_connectorVars(part = "connector" /\ Connector!Elapse)
    /\ WF_connectorVars(part = "connector" /\ Connector!Child)
    /\ WF_httpVars(part = "http" /\ Http!Serve)

-----------------------------------------------------------------------------
\* Sizes and bounds are numbers, and what stands for nothing is nothing.  No
\* source file, src/main.num say, has the name of one of the other files that a
\* deployment writes.
ASSUME SurroundingsAssumption ==
    /\ {MaxRequests, Window, MaxNow, MaxGrants} \subseteq Nat
    /\ NoWindow \notin Limit!WindowState
    /\ {Capacity, MaxRequest, MaxReply} \subseteq Nat
    /\ NoClient \notin Clients
    /\ MaxRevs \in Nat \ {0}
    /\ NoRev \notin Nat
    /\ PinnedRev \in Nat
    /\ MaxVersions \in Nat \ {0}
    /\ IsFiniteSet(Sources)
    /\ Sources \cap {"num-deploy.json", "num.toml", "num.lock", "deploy",
                     "manifest.json", "RUNBOOK.md"} = {}

-----------------------------------------------------------------------------
\* The state of the component that runs is of its type.
PartsTypeOK ==
    /\ part = "registry" => TypeOK
    /\ part = "limit" => Limit!TypeOK
    /\ part = "connector" => Connector!TypeOK
    /\ part = "http" => Http!TypeOK
    /\ part = "git" => Git!TypeOK
    /\ part = "deploy" => Deploy!TypeOK

\* The shared limiter errs on one side only: it lets through too many where
\* processes overlap or windows meet, and refuses nobody without a reason.
LimitIsKept == [][Limit!RefusalIsEarned /\ Limit!AtMostTwice']_limitVars

\* A pin means one revision: a resolve that ends has found exactly it and
\* records it, and one that finds it in the cache, alone, does not fail.
PinHolds == [][Git!PinIsCached /\ (Git!PinIsExact /\ Git!RecordedIsUsed)']_gitVars

\* The properties of ProcessConnector, HttpService and Deployment, stated there.
ChildIsCollected == Connector!ChildIsCollected
CallsReturn == part = "connector" => Connector!CallsReturn
AnswersAreTrue == Http!AnswersAreTrue
PoliteAreAnswered == part = "http" => Http!PoliteAreAnswered
ArtifactIsWhole == Deploy!ArtifactIsWhole
=============================================================================
