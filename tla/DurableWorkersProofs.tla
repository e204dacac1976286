------------------------ MODULE DurableWorkersProofs ------------------------
(* The joined worker keeps what its parts promise: every step of it is a   *)
(* step of the queue, or none, and a step of the engine, or none.  So the  *)
(* theorems about LeaseQueue and WorkflowEngine hold of it, and together   *)
(* they say what neither says alone.                                       *)
EXTENDS DurableWorkers, TLAPS

QueueProofs == INSTANCE LeaseQueueProofs WITH MaxHeartbeats <- 0

EngineProofs ==
    INSTANCE WorkflowEngineProofs WITH
        Processes <- Workers,
        EventIds <- Events,
        Requests <- {RequestOf[e] : e \in Events},
        Strict <- TRUE,
        CrashPoints <- EngineCrashPoints

-----------------------------------------------------------------------------
(* The parts under either name are the same.                               *)

LEMMA SameQueue ==
    /\ Queue!Spec <=> QueueProofs!Spec
    /\ Queue!TypeOK <=> QueueProofs!TypeOK
    /\ Queue!NoEventLost <=> QueueProofs!NoEventLost
    /\ Queue!DeadOnlyWhenExhausted <=> QueueProofs!DeadOnlyWhenExhausted
    /\ Queue!OneClaimantPerFile <=> QueueProofs!OneClaimantPerFile
    /\ Queue!OverlapOnlyAfterExpiry <=> QueueProofs!OverlapOnlyAfterExpiry
  BY DEF Queue!Labels, Queue!Item, Queue!Lease, Queue!DeadLetter, Queue!Path,
         Queue!MakeItem, Queue!ItemOf, Queue!MakeLease, Queue!Without,
         Queue!Whole, Queue!Claiming, Queue!TypeOK, Queue!Init, Queue!Go,
         Queue!Rest, Queue!Requeue, Queue!Bury, Queue!PassOn, Queue!Enqueue,
         Queue!StartClaim, Queue!SkipLive, Queue!FindExpired,
         Queue!Unreadable, Queue!AbortScan, Queue!Recover, Queue!Unlink,
         Queue!AbortUnlink, Queue!Pick, Queue!PickNothing, Queue!Rename,
         Queue!LoseRename, Queue!Truncate, Queue!Stamp, Queue!ApplyOk,
         Queue!ApplyErr, Queue!RemoveLease, Queue!Ack, Queue!Fail,
         Queue!Drop, Queue!Crash, Queue!Expire, Queue!HeartbeatRead,
         Queue!HeartbeatTruncate, Queue!HeartbeatWrite, Queue!HeartbeatKill,
         Queue!ClaimStep, Queue!DrainStep, Queue!WorkerStep, Queue!Next,
         Queue!Spec, Queue!files, Queue!local, Queue!heartbeat,
         Queue!history, Queue!bounds, Queue!vars, Queue!DeadEvents,
         Queue!Settled, Queue!Covered, Queue!BeingWritten, Queue!Kept,
         Queue!NoEventLost, Queue!DeadOnlyWhenExhausted,
         Queue!OneClaimantPerFile, Queue!OverlapOnlyAfterExpiry,
         QueueProofs!Labels, QueueProofs!Item, QueueProofs!Lease,
         QueueProofs!DeadLetter, QueueProofs!Path, QueueProofs!MakeItem,
         QueueProofs!ItemOf, QueueProofs!MakeLease, QueueProofs!Without,
         QueueProofs!Whole, QueueProofs!Claiming, QueueProofs!TypeOK,
         QueueProofs!Init, QueueProofs!Go, QueueProofs!Rest,
         QueueProofs!Requeue, QueueProofs!Bury, QueueProofs!PassOn,
         QueueProofs!Enqueue, QueueProofs!StartClaim, QueueProofs!SkipLive,
         QueueProofs!FindExpired, QueueProofs!Unreadable,
         QueueProofs!AbortScan, QueueProofs!Recover, QueueProofs!Unlink,
         QueueProofs!AbortUnlink, QueueProofs!Pick, QueueProofs!PickNothing,
         QueueProofs!Rename, QueueProofs!LoseRename, QueueProofs!Truncate,
         QueueProofs!Stamp, QueueProofs!ApplyOk, QueueProofs!ApplyErr,
         QueueProofs!RemoveLease, QueueProofs!Ack, QueueProofs!Fail,
         QueueProofs!Drop, QueueProofs!Crash, QueueProofs!Expire,
         QueueProofs!HeartbeatRead, QueueProofs!HeartbeatTruncate,
         QueueProofs!HeartbeatWrite, QueueProofs!HeartbeatKill,
         QueueProofs!ClaimStep, QueueProofs!DrainStep,
         QueueProofs!WorkerStep, QueueProofs!Next, QueueProofs!Spec,
         QueueProofs!files, QueueProofs!local, QueueProofs!heartbeat,
         QueueProofs!history, QueueProofs!bounds, QueueProofs!vars,
         QueueProofs!DeadEvents, QueueProofs!Settled, QueueProofs!Covered,
         QueueProofs!BeingWritten, QueueProofs!Kept, QueueProofs!NoEventLost,
         QueueProofs!DeadOnlyWhenExhausted, QueueProofs!OneClaimantPerFile,
         QueueProofs!OverlapOnlyAfterExpiry

LEMMA SameEngine ==
    /\ Engine!ExclusiveSpec <=> EngineProofs!ExclusiveSpec
    /\ Engine!Spec <=> EngineProofs!Spec
    /\ Engine!TypeOK <=> EngineProofs!TypeOK
    /\ Engine!OneEntryPerEvent <=> EngineProofs!OneEntryPerEvent
  BY DEF Engine!EntryOf, Engine!Points, Engine!Request, Engine!TypeOK,
         Engine!Init, Engine!Goto, Engine!MayAccess, Engine!Leave,
         Engine!Entrance, Engine!Call, Engine!Guard, Engine!Processed,
         Engine!NewWorkflow, Engine!Moved, Engine!LoadForStart, Engine!Reload,
         Engine!Refused, Engine!LoadForTransition, Engine!Write,
         Engine!Rename, Engine!Audit, Engine!AuditError, Engine!Return,
         Engine!Crash, Engine!ServeStep, Engine!Next, Engine!Spec,
         Engine!Serving, Engine!Exclusive, Engine!ExclusiveSpec,
         Engine!OneEntryPerEvent, Engine!disk, Engine!vars, Engine!L!Statuses,
         Engine!L!Kinds, Engine!L!WorkflowState, Engine!L!Target,
         Engine!L!AllowedFromFailed, Engine!L!Allowed, Engine!L!MarkOf,
         Engine!L!Entry, Engine!L!OneEntryPerEvent, EngineProofs!EntryOf,
         EngineProofs!Points, EngineProofs!Request, EngineProofs!TypeOK,
         EngineProofs!Init, EngineProofs!Goto, EngineProofs!MayAccess,
         EngineProofs!Leave, EngineProofs!Entrance, EngineProofs!Call,
         EngineProofs!Guard, EngineProofs!Processed, EngineProofs!NewWorkflow,
         EngineProofs!Moved, EngineProofs!LoadForStart, EngineProofs!Reload,
         EngineProofs!Refused, EngineProofs!LoadForTransition,
         EngineProofs!Write, EngineProofs!Rename, EngineProofs!Audit,
         EngineProofs!AuditError, EngineProofs!Return, EngineProofs!Crash,
         EngineProofs!ServeStep, EngineProofs!Next, EngineProofs!Spec,
         EngineProofs!Serving, EngineProofs!Exclusive,
         EngineProofs!ExclusiveSpec, EngineProofs!OneEntryPerEvent,
         EngineProofs!disk, EngineProofs!vars, EngineProofs!L!Statuses,
         EngineProofs!L!Kinds, EngineProofs!L!WorkflowState,
         EngineProofs!L!Target, EngineProofs!L!AllowedFromFailed,
         EngineProofs!L!Allowed, EngineProofs!L!MarkOf, EngineProofs!L!Entry,
         EngineProofs!L!OneEntryPerEvent

LEMMA SameEngineStep ==
    [Engine!Next]_(Engine!vars) <=> [EngineProofs!Next]_(EngineProofs!vars)
  BY DEF Engine!EntryOf, Engine!Goto, Engine!MayAccess, Engine!Leave,
         Engine!Entrance, Engine!Call, Engine!Guard, Engine!Processed,
         Engine!NewWorkflow, Engine!Moved, Engine!LoadForStart, Engine!Reload,
         Engine!Refused, Engine!LoadForTransition, Engine!Write,
         Engine!Rename, Engine!Audit, Engine!AuditError, Engine!Return,
         Engine!Crash, Engine!ServeStep, Engine!Next, Engine!disk,
         Engine!vars, Engine!L!Target, Engine!L!AllowedFromFailed,
         Engine!L!Allowed, Engine!L!MarkOf, EngineProofs!EntryOf,
         EngineProofs!Goto, EngineProofs!MayAccess, EngineProofs!Leave,
         EngineProofs!Entrance, EngineProofs!Call, EngineProofs!Guard,
         EngineProofs!Processed, EngineProofs!NewWorkflow, EngineProofs!Moved,
         EngineProofs!LoadForStart, EngineProofs!Reload, EngineProofs!Refused,
         EngineProofs!LoadForTransition, EngineProofs!Write,
         EngineProofs!Rename, EngineProofs!Audit, EngineProofs!AuditError,
         EngineProofs!Return, EngineProofs!Crash, EngineProofs!ServeStep,
         EngineProofs!Next, EngineProofs!disk, EngineProofs!vars,
         EngineProofs!L!Target, EngineProofs!L!AllowedFromFailed,
         EngineProofs!L!Allowed, EngineProofs!L!MarkOf

-----------------------------------------------------------------------------
(* The parts are implemented.                                              *)

LEMMA PartsAssume ==
    ASSUME Suited
    PROVE  /\ \A e \in Events : RequestOf[e] \in Engine!Request
           /\ MaxAttempts \in Nat /\ MaxCrashes \in Nat /\ 0 \in Nat
  BY DEF Suited

\* Every step of the workers is one of the queue, or leaves it alone.
LEMMA QueueStepRefines ==
    ASSUME [Next]_vars
    PROVE  [Queue!Next]_(Queue!vars)
<1>1. ASSUME Enqueue PROVE Queue!Next
  BY <1>1 DEF Enqueue, Queue!Next
<1>2. ASSUME NEW w \in Workers,
             QueueStep(w) \/ Deliver(w) \/ Finish(w) \/ Crash(w)
      PROVE  Queue!Next
  BY <1>2 DEF QueueStep, Deliver, Finish, Crash, Queue!Next, Queue!WorkerStep,
              Queue!ClaimStep, Queue!DrainStep
<1>3. ASSUME NEW w \in Workers, Serve(w)
      PROVE  UNCHANGED Queue!vars
  BY <1>3 DEF Serve, queueVars, Queue!vars
<1>4. ASSUME Expire PROVE Queue!Next
  BY <1>4 DEF Expire, Queue!Next
<1>5. CASE UNCHANGED vars
  BY <1>5 DEF vars, queueVars, Queue!vars
<1>. QED
  BY <1>1, <1>2, <1>3, <1>4, <1>5 DEF Next

LEMMA EngineStepRefines ==
    ASSUME Queue!TypeOK, [Next]_vars
    PROVE  [Engine!Next]_(Engine!vars)
<1>1. ASSUME Enqueue \/ Expire \/ UNCHANGED vars PROVE UNCHANGED Engine!vars
  BY <1>1 DEF Enqueue, Expire, vars, engineVars, Engine!vars
<1>2. ASSUME NEW w \in Workers, QueueStep(w) PROVE UNCHANGED Engine!vars
  BY <1>2 DEF QueueStep, engineVars, Engine!vars
<1>3. ASSUME NEW w \in Workers, Deliver(w) PROVE Engine!Next
  <2>1. held[w].event \in Events
    BY <1>3
       DEF Deliver, Queue!Stamp, Queue!Go, Queue!TypeOK, Queue!Labels,
           Queue!Item
  <2>. QED
    BY <1>3, <2>1 DEF Deliver, Engine!Next
<1>4. ASSUME NEW w \in Workers, Serve(w) \/ Finish(w) PROVE Engine!Next
  BY <1>4 DEF Serve, Finish, Engine!Next
<1>5. ASSUME NEW w \in Workers, Crash(w) PROVE [Engine!Next]_(Engine!vars)
  BY <1>5 DEF Crash, engineVars, Engine!Next, Engine!vars
<1>. QED
  BY <1>1, <1>2, <1>3, <1>4, <1>5 DEF Next

\* The workers implement the queue: the engine between claim and ack changes
\* nothing of what the queue does.
THEOREM QueueIsImplemented == Spec => Queue!Spec
<1>1. Init => Queue!Init
  BY DEF Init
<1>. QED
  BY <1>1, QueueStepRefines, PTL DEF Spec, Queue!Spec

\* No event of the joined system is lost, given up early or worked on twice
\* without an expired lease, whatever the engine answers and when.
THEOREM QueueIsKept ==
    ASSUME Suited
    PROVE  Spec => /\ []Queue!TypeOK
                   /\ []Queue!NoEventLost
                   /\ []Queue!DeadOnlyWhenExhausted
                   /\ []Queue!OneClaimantPerFile
                   /\ []Queue!OverlapOnlyAfterExpiry
<1>1. /\ MaxAttempts \in Nat /\ MaxCrashes \in Nat /\ 0 \in Nat
      /\ CrashPoints \subseteq QueueProofs!Labels \ {"idle"}
      /\ Nothing \notin Workers
  BY DEF Suited, Queue!Labels, QueueProofs!Labels
<1>2. QueueProofs!Spec => []QueueProofs!TypeOK
  BY <1>1, QueueProofs!TypeCorrect
<1>3. QueueProofs!Spec => []QueueProofs!NoEventLost
  BY <1>1, QueueProofs!NoEventIsLost
<1>4. QueueProofs!Spec => []QueueProofs!DeadOnlyWhenExhausted
  BY <1>1, QueueProofs!DeadLettersAreExhausted
<1>5. QueueProofs!Spec => []QueueProofs!OneClaimantPerFile
  BY <1>1, QueueProofs!ClaimsAreExclusive
<1>6. QueueProofs!Spec => []QueueProofs!OverlapOnlyAfterExpiry
  BY <1>1, QueueProofs!OverlapsFollowExpiry
<1>. QED
  BY <1>2, <1>3, <1>4, <1>5, <1>6, SameQueue, QueueIsImplemented, PTL

\* One worker at a time works on a workflow.
ExclusiveSpec == Init /\ [][Next /\ Engine!Exclusive']_vars

LEMMA ExclusiveIsSpec == ExclusiveSpec => Spec
  BY PTL DEF ExclusiveSpec, Spec

\* The workers implement the engine: claims, kills and recoveries call it as
\* its own environment would.
THEOREM EngineIsImplemented ==
    ASSUME Suited
    PROVE  ExclusiveSpec => Engine!ExclusiveSpec
<1>1. Init => Engine!Init
  BY DEF Init
<1>2. Queue!TypeOK /\ [Next /\ Engine!Exclusive']_vars
         => [Engine!Next /\ Engine!Exclusive']_(Engine!vars)
  <2>1. ASSUME UNCHANGED vars PROVE UNCHANGED Engine!vars
    BY <2>1 DEF vars, engineVars, Engine!vars
  <2>. QED
    BY <2>1, EngineStepRefines
<1>. QED
  BY <1>1, <1>2, QueueIsKept, ExclusiveIsSpec, PTL
     DEF ExclusiveSpec, Engine!ExclusiveSpec

-----------------------------------------------------------------------------
(* What the worker joins: the request the engine serves is the event held. *)

Joined ==
    \A w \in Workers :
        /\ pc[w] = "apply" <=> at[w] # "ready"
        /\ pc[w] = "apply" => req[w] = RequestOf[held[w].event]

LEMMA EntranceIsNotReady ==
    ASSUME NEW r
    PROVE  Engine!Entrance(r) \in Engine!Points \ {"ready"}
  BY DEF Engine!Entrance, Engine!Points

LEMMA JoinedStep ==
    ASSUME Suited, Queue!TypeOK, Engine!TypeOK, Joined, [Next]_vars
    PROVE  Joined'
<1>. USE DEF Joined
<1>1. CASE UNCHANGED vars \/ Enqueue \/ Expire
  <2>1. UNCHANGED <<pc, held, at, req>>
    BY <1>1 DEF vars, queueVars, engineVars, Enqueue, Expire, Queue!Enqueue,
                Queue!Expire, Queue!local
  <2>. QED
    BY <2>1
<1>2. ASSUME NEW w \in Workers, QueueStep(w) PROVE Joined'
  <2>1. /\ pc[w] # "apply" /\ pc'[w] # "apply"
        /\ \A v \in Workers \ {w} : pc'[v] = pc[v] /\ held'[v] = held[v]
        /\ UNCHANGED <<at, req>>
    BY <1>2
       DEF QueueStep, engineVars, Queue!TypeOK, Queue!WorkerStep,
           Queue!ClaimStep, Queue!DrainStep, Queue!StartClaim,
           Queue!SkipLive, Queue!FindExpired, Queue!AbortScan, Queue!Recover,
           Queue!Unlink, Queue!AbortUnlink, Queue!Pick, Queue!PickNothing,
           Queue!Rename, Queue!LoseRename, Queue!Truncate, Queue!Stamp,
           Queue!ApplyOk, Queue!ApplyErr, Queue!Ack, Queue!Fail, Queue!Drop,
           Queue!RemoveLease, Queue!Go, Queue!Rest, Queue!files
  <2>. QED
    BY <2>1
<1>3. ASSUME NEW w \in Workers, Deliver(w) PROVE Joined'
  <2>1. /\ pc' = [pc EXCEPT ![w] = "apply"]
        /\ held' = [held EXCEPT ![w].attempt = @ + 1]
        /\ held[w] \in Queue!Item
    BY <1>3 DEF Deliver, Queue!Stamp, Queue!Go, Queue!TypeOK, Queue!Labels
  <2>2. /\ at' = [at EXCEPT ![w] = Engine!Entrance(RequestOf[held[w].event])]
        /\ req' = [req EXCEPT ![w] = RequestOf[held[w].event]]
    BY <1>3 DEF Deliver, Engine!Call, Engine!Goto
  <2>3. held'[w].event = held[w].event
        /\ \A v \in Workers \ {w} : held'[v] = held[v]
    BY <2>1 DEF Queue!Item, Queue!TypeOK
  <2>4. at'[w] # "ready"
    BY <2>2, EntranceIsNotReady DEF Engine!TypeOK
  <2>. QED
    BY <2>1, <2>2, <2>3, <2>4 DEF Queue!TypeOK, Engine!TypeOK
<1>4. ASSUME NEW w \in Workers, Serve(w) PROVE Joined'
  <2>1. /\ at[w] # "ready" /\ at'[w] # "ready"
        /\ \A v \in Workers \ {w} : at'[v] = at[v]
        /\ UNCHANGED <<pc, held, req>>
    BY <1>4 DEF Serve, queueVars, Engine!TypeOK, Engine!ServeStep, Engine!Guard,
                Engine!LoadForStart, Engine!Reload, Engine!LoadForTransition,
                Engine!Write, Engine!Rename, Engine!Audit, Engine!AuditError,
                Engine!Goto
  <2>. QED
    BY <2>1
<1>5. ASSUME NEW w \in Workers, Finish(w) PROVE Joined'
  <2>1. /\ pc'[w] \in {"ack", "fail"} /\ at'[w] = "ready"
        /\ \A v \in Workers \ {w} :
              pc'[v] = pc[v] /\ at'[v] = at[v] /\ req'[v] = req[v]
        /\ UNCHANGED held
    BY <1>5 DEF Finish, Queue!ApplyOk, Queue!ApplyErr, Queue!Go, Engine!Return,
                Engine!Leave, Queue!TypeOK, Engine!TypeOK
  <2>. QED
    BY <2>1
<1>6. ASSUME NEW w \in Workers, Crash(w) PROVE Joined'
  <2>1. /\ pc'[w] = "idle" /\ at'[w] = "ready"
        /\ \A v \in Workers \ {w} :
              /\ pc'[v] = pc[v] /\ held'[v] = held[v]
              /\ at'[v] = at[v] /\ req'[v] = req[v]
    BY <1>6
       DEF Crash, engineVars, Queue!Crash, Queue!Rest, Engine!Crash,
           Engine!Leave, Queue!TypeOK, Engine!TypeOK
  <2>. QED
    BY <2>1
<1>. QED
  BY <1>1, <1>2, <1>3, <1>4, <1>5, <1>6 DEF Next

-----------------------------------------------------------------------------
(* What is acknowledged is remembered.                                     *)

LEMMA EngineAssumes ==
    ASSUME Suited
    PROVE  /\ {RequestOf[e] : e \in Events} \subseteq EngineProofs!Request
           /\ NoCtx \notin Tenants
           /\ TRUE \in BOOLEAN
           /\ AuditFails \in BOOLEAN
           /\ EngineCrashPoints \subseteq EngineProofs!Points \ {"ready"}
           /\ MaxCalls \in Nat
           /\ Nothing \notin EngineProofs!Request
           /\ Nothing \notin EngineProofs!L!WorkflowState
           /\ NoId \notin Events
           /\ Absent \notin EngineProofs!L!WorkflowState
           /\ Seed \in [Workflows -> EngineProofs!L!WorkflowState \cup {Absent}]
  BY DEF Suited, Engine!Request, Engine!L!Kinds, Engine!Points,
         Engine!L!WorkflowState, Engine!L!Statuses, EngineProofs!Request,
         EngineProofs!L!Kinds, EngineProofs!Points,
         EngineProofs!L!WorkflowState, EngineProofs!L!Statuses

LEMMA EngineIsKept ==
    ASSUME Suited
    PROVE  ExclusiveSpec => /\ []EngineProofs!Inv
                            /\ []EngineProofs!OkIsRemembered
                            /\ []Engine!TypeOK
                            /\ []OneEntryPerEvent
<1>1. EngineProofs!ExclusiveSpec => []EngineProofs!Inv
  BY EngineAssumes, EngineProofs!Inductive
<1>2. EngineProofs!ExclusiveSpec => []EngineProofs!OkIsRemembered
  BY EngineAssumes, EngineProofs!AnswersAreRemembered
<1>3. EngineProofs!ExclusiveSpec => []EngineProofs!OneEntryPerEvent
  BY EngineAssumes, EngineProofs!AuditedOnce
<1>4. EngineProofs!Inv => Engine!TypeOK
  BY SameEngine DEF EngineProofs!Inv
<1>5. EngineProofs!OneEntryPerEvent <=> OneEntryPerEvent
  BY SameEngine DEF OneEntryPerEvent
<1>. QED
  BY <1>1, <1>2, <1>3, <1>4, <1>5, SameEngine, EngineIsImplemented, PTL

LEMMA MarkedIs ==
    ASSUME NEW e \in Events
    PROVE  Marked(e) <=> EngineProofs!Remembers(RequestOf[e].wf, e)
  BY DEF Marked, EngineProofs!Remembers

LEMMA MarkedStays ==
    ASSUME Suited, Queue!TypeOK, EngineProofs!Inv, [Next]_vars,
           NEW e \in Events, Marked(e)
    PROVE  Marked(e)'
<1>1. RequestOf[e].wf \in Workflows
  BY DEF Suited, Engine!Request
<1>2. [EngineProofs!Next]_(EngineProofs!vars)
  BY EngineStepRefines, SameEngineStep
<1>3. EngineProofs!Remembers(RequestOf[e].wf, e)'
  BY <1>1, <1>2, MarkedIs, EngineAssumes, EngineProofs!MarksStay
<1>. QED
  BY <1>3 DEF Marked, EngineProofs!Remembers

LEMMA AckedStep ==
    ASSUME Suited, Queue!TypeOK, EngineProofs!Inv, EngineProofs!OkIsRemembered,
           Joined, AckedIsMarked, [Next]_vars
    PROVE  AckedIsMarked'
<1>1. \A e \in applied' \ applied : Marked(e)'
  <2>1. ASSUME NEW w \in Workers, Finish(w), at[w] = "ok"
        PROVE  /\ applied' = applied \cup {held[w].event}
               /\ held[w].event \in Events
               /\ Marked(held[w].event)
    <3>1. pc[w] = "apply" /\ applied' = applied \cup {held[w].event}
      BY <2>1 DEF Finish, Queue!ApplyOk, Queue!ApplyErr, Queue!Go
    <3>2. held[w].event \in Events
      BY <3>1 DEF Queue!TypeOK, Queue!Labels, Queue!Item
    <3>3. req[w] = RequestOf[held[w].event] /\ req[w].id = held[w].event
      BY <3>1, <3>2 DEF Joined, Suited
    <3>4. EngineProofs!Remembers(req[w].wf, req[w].id)
      BY <2>1, <3>2, <3>3 DEF EngineProofs!OkIsRemembered, Suited
    <3>. QED
      BY <3>1, <3>2, <3>3, <3>4, MarkedIs
  <2>2. (\E w \in Workers : Finish(w) /\ at[w] = "ok") \/ applied' = applied
    BY DEF Next, vars, Enqueue, Queue!Enqueue, QueueStep, Queue!WorkerStep,
           Queue!ClaimStep, Queue!DrainStep, Queue!StartClaim,
           Queue!SkipLive, Queue!FindExpired, Queue!AbortScan, Queue!Recover,
           Queue!Unlink, Queue!AbortUnlink, Queue!Pick, Queue!PickNothing,
           Queue!Rename, Queue!LoseRename, Queue!Truncate, Queue!Stamp,
           Queue!ApplyOk, Queue!ApplyErr, Queue!Ack, Queue!Fail, Queue!Drop,
           Queue!RemoveLease, Queue!Go, Deliver, Serve, Finish, Crash,
           Queue!Crash, Expire, Queue!Expire, queueVars, Queue!history
  <2>. QED
    BY <2>1, <2>2, MarkedStays
<1>2. \A e \in applied : e \in Events /\ Marked(e)'
  BY MarkedStays DEF AckedIsMarked, Queue!TypeOK
<1>. QED
  BY <1>1, <1>2 DEF AckedIsMarked

\* While one worker at a time works on a workflow, an event disappears from
\* the queue only when its workflow remembers it, and leaves one audit line,
\* however often it is delivered and whoever is killed where.
THEOREM AcknowledgedIsRemembered ==
    ASSUME Suited
    PROVE  ExclusiveSpec => [](AckedIsMarked /\ OneEntryPerEvent)
<1>1. Init => Joined /\ AckedIsMarked
  BY DEF Init, Queue!Init, Engine!Init, Joined, AckedIsMarked
<1>2. /\ Queue!TypeOK /\ EngineProofs!Inv /\ EngineProofs!OkIsRemembered
      /\ Engine!TypeOK /\ Joined /\ AckedIsMarked
      /\ [Next /\ Engine!Exclusive']_vars
      => Joined' /\ AckedIsMarked'
  BY JoinedStep, AckedStep
<1>. QED
  BY <1>1, <1>2, EngineIsKept, QueueIsKept, ExclusiveIsSpec, PTL
     DEF ExclusiveSpec

-----------------------------------------------------------------------------
(* One worker, killed anywhere and run again.                              *)

LEMMA AloneIsExclusive ==
    ASSUME Alone
    PROVE  Spec => ExclusiveSpec
<1>1. Engine!Exclusive'
  BY DEF Alone, Engine!Exclusive
<1>2. [Next]_vars => [Next /\ Engine!Exclusive']_vars
  BY <1>1
<1>. QED
  BY <1>2, PTL DEF Spec, ExclusiveSpec

\* A worker that is alone loses nothing by being killed and run again.
THEOREM RestartsAreSafe ==
    ASSUME Suited, Alone
    PROVE  Spec => [](AckedIsMarked /\ OneEntryPerEvent)
  BY AloneIsExclusive, AcknowledgedIsRemembered, PTL

LEMMA FailureStep ==
    ASSUME Suited, Alone, Queue!TypeOK, Engine!TypeOK, Joined,
           EngineProofs!RefusedIsNew, AppliedNeverFails, [Next]_vars
    PROVE  AppliedNeverFails'
<1>. SUFFICES ASSUME NEW w \in Workers, pc'[w] \in {"fail", "drop"}
              PROVE  ~Marked(held[w].event)'
  BY DEF AppliedNeverFails, Marked
<1>1. \A v \in Workers : v = w
  BY DEF Alone
<1>2. CASE UNCHANGED vars \/ Enqueue \/ Expire
  <2>1. UNCHANGED <<pc, held, store>>
    BY <1>2 DEF vars, queueVars, engineVars, Enqueue, Expire, Queue!Enqueue,
                Queue!Expire, Queue!local
  <2>. QED
    BY <2>1 DEF AppliedNeverFails, Marked
<1>3. CASE QueueStep(w)
  <2>1. pc[w] = "fail" /\ UNCHANGED <<held, store>>
    BY <1>3
       DEF QueueStep, engineVars, Queue!TypeOK, Queue!WorkerStep,
           Queue!ClaimStep, Queue!DrainStep, Queue!StartClaim,
           Queue!SkipLive, Queue!FindExpired, Queue!AbortScan, Queue!Recover,
           Queue!Unlink, Queue!AbortUnlink, Queue!Pick, Queue!PickNothing,
           Queue!Rename, Queue!LoseRename, Queue!Truncate, Queue!Stamp,
           Queue!ApplyOk, Queue!ApplyErr, Queue!Ack, Queue!Fail, Queue!Drop,
           Queue!RemoveLease, Queue!Go, Queue!Rest, Queue!files
  <2>. QED
    BY <2>1 DEF AppliedNeverFails, Marked
<1>4. CASE Deliver(w) \/ Crash(w) \/ Serve(w)
  <2>1. pc'[w] \in {"apply", "idle"}
    BY <1>4
       DEF Deliver, Queue!Stamp, Queue!Go, Crash, Queue!Crash, Queue!Rest,
           Queue!TypeOK, Serve, queueVars, Engine!ServeStep, Engine!Guard,
           Engine!LoadForStart, Engine!Reload, Engine!LoadForTransition,
           Engine!Write, Engine!Rename, Engine!Audit, Engine!AuditError,
           Joined
  <2>. QED
    BY <2>1
<1>5. CASE Finish(w)
  <2>1. /\ pc[w] = "apply" /\ at[w] = "err"
        /\ UNCHANGED <<held, store>>
    BY <1>5 DEF Finish, Queue!ApplyOk, Queue!ApplyErr, Queue!Go, Engine!Return,
                Engine!disk, Queue!TypeOK
  <2>2. held[w].event \in Events
    BY <2>1 DEF Queue!TypeOK, Queue!Labels, Queue!Item
  <2>3. /\ req[w] = RequestOf[held[w].event]
        /\ req[w].id = held[w].event /\ req[w].ctx = NoCtx
    BY <2>1, <2>2 DEF Joined, Suited
  <2>4. ~EngineProofs!Remembers(req[w].wf, req[w].id)
    BY <2>1, <2>2, <2>3 DEF EngineProofs!RefusedIsNew, Suited
  <2>. QED
    BY <2>1, <2>2, <2>3, <2>4 DEF Marked, EngineProofs!Remembers
<1>. QED
  BY <1>1, <1>2, <1>3, <1>4, <1>5 DEF Next

\* Such a worker never counts a failure against an event that its workflow
\* has processed, as long as the audit log can be written.
THEOREM ProcessedIsNoFailure ==
    ASSUME Suited, Alone, ~AuditFails
    PROVE  Spec => []AppliedNeverFails
<1>1. Init => Joined /\ AppliedNeverFails
  BY DEF Init, Queue!Init, Engine!Init, Joined, AppliedNeverFails
<1>2. EngineProofs!Alone
  BY DEF Alone, EngineProofs!Alone
<1>3. EngineProofs!ExclusiveSpec => []EngineProofs!RefusedIsNew
  BY <1>2, EngineAssumes, EngineProofs!RefusalsAreNew
<1>4. /\ Queue!TypeOK /\ Engine!TypeOK /\ EngineProofs!RefusedIsNew
      /\ Joined /\ AppliedNeverFails /\ [Next]_vars
      => Joined' /\ AppliedNeverFails'
  BY JoinedStep, FailureStep
<1>. QED
  BY <1>1, <1>3, <1>4, EngineIsKept, EngineIsImplemented, QueueIsKept,
     AloneIsExclusive, SameEngine, PTL DEF Spec

-----------------------------------------------------------------------------
(* Workers that share the queue by workflow.                               *)

\* Where nobody is killed and no lease runs out under its worker, every lease
\* is in the hands of a worker and none is stale.
InHands ==
    /\ lapsed = {}
    /\ \A l \in leases :
          /\ ~l.stale
          /\ \E w \in Workers : /\ pc[w] \in Queue!Claiming
                                /\ Queue!Path(l) = Queue!Path(held[w])

LEMMA EngineIsTyped ==
    ASSUME Suited
    PROVE  Spec => []Engine!TypeOK
<1>1. Init => Engine!Init
  BY DEF Init
<1>2. EngineProofs!Spec => []EngineProofs!TypeOK
  BY EngineAssumes, EngineProofs!TypeCorrect
<1>3. Queue!TypeOK /\ [Next]_vars => [Engine!Next]_(Engine!vars)
  BY EngineStepRefines
<1>. QED
  BY <1>1, <1>2, <1>3, SameEngine, QueueIsKept, PTL DEF Spec, Engine!Spec

LEMMA InHandsStep ==
    ASSUME Suited, MaxCrashes = 0, Queue!TypeOK, InHands,
           [Next /\ Timely']_vars
    PROVE  InHands'
<1>. USE DEF Queue!Claiming, Queue!Path
<1>1. CASE UNCHANGED <<leases, lapsed, pc, held>>
  BY <1>1 DEF InHands
<1>2. ASSUME NEW w \in Workers, QueueStep(w)
      PROVE  InHands'
  <2>1. lapsed' = lapsed
    BY <1>2
       DEF QueueStep, Queue!WorkerStep, Queue!ClaimStep, Queue!DrainStep,
           Queue!StartClaim, Queue!SkipLive, Queue!FindExpired,
           Queue!AbortScan, Queue!Recover, Queue!Unlink, Queue!AbortUnlink,
           Queue!Pick, Queue!PickNothing, Queue!Rename, Queue!LoseRename,
           Queue!Truncate, Queue!Stamp, Queue!ApplyOk, Queue!ApplyErr,
           Queue!Ack, Queue!Fail, Queue!Drop, Queue!RemoveLease,
           Queue!history
  <2>2. \A v \in Workers \ {w} : pc'[v] = pc[v] /\ held'[v] = held[v]
    BY <1>2 DEF QueueStep, Queue!TypeOK, Queue!WorkerStep, Queue!ClaimStep,
                Queue!DrainStep, Queue!StartClaim, Queue!SkipLive,
                Queue!FindExpired, Queue!AbortScan, Queue!Recover,
                Queue!Unlink, Queue!AbortUnlink, Queue!Pick,
                Queue!PickNothing, Queue!Rename, Queue!LoseRename,
                Queue!Truncate, Queue!Stamp, Queue!ApplyOk, Queue!ApplyErr,
                Queue!Ack, Queue!Fail, Queue!Drop, Queue!RemoveLease,
                Queue!Go, Queue!Rest, Queue!files
  <2>3. CASE Queue!Rename(w)
    <3>1. /\ pc[w] = "rename" /\ pc'[w] = "stamp" /\ held' = held
          /\ leases' = Queue!Without(Queue!Path(held[w]))
                   \cup {Queue!MakeLease(held[w], held[w].attempt, Nothing)}
      BY <2>3 DEF Queue!Rename, Queue!Go, Queue!TypeOK
    <3>. QED
      BY <2>1, <2>2, <3>1 DEF InHands, Queue!Without, Queue!MakeLease
  <2>4. CASE Queue!Ack(w) \/ Queue!Drop(w)
    BY <2>1, <2>2, <2>4 DEF InHands, Queue!Ack, Queue!Drop, Queue!RemoveLease,
                            Queue!Without
  <2>5. CASE Queue!Fail(w)
    <3>1. pc'[w] = "drop" /\ UNCHANGED <<leases, held>>
      BY <2>5 DEF Queue!Fail, Queue!Go, Queue!PassOn, Queue!Requeue, Queue!Bury,
                  Queue!TypeOK
    <3>. QED
      BY <2>1, <2>2, <3>1 DEF InHands
  <2>6. CASE Queue!Truncate(w)
    <3>1. pc'[w] = "write" /\ UNCHANGED <<leases, held>>
      BY <2>6 DEF Queue!Truncate, Queue!Go, Queue!TypeOK
    <3>. QED
      BY <2>1, <2>2, <3>1 DEF InHands
  <2>7. CASE ~(\/ Queue!Rename(w) \/ Queue!Ack(w) \/ Queue!Drop(w)
              \/ Queue!Fail(w) \/ Queue!Truncate(w))
    <3>1. pc[w] \notin Queue!Claiming /\ leases' \subseteq leases
      BY <1>2, <2>7
         DEF QueueStep, Queue!WorkerStep, Queue!ClaimStep, Queue!DrainStep,
             Queue!StartClaim, Queue!SkipLive, Queue!FindExpired,
             Queue!AbortScan, Queue!Recover, Queue!Unlink, Queue!AbortUnlink,
             Queue!Pick, Queue!PickNothing, Queue!LoseRename, Queue!Stamp,
             Queue!ApplyOk, Queue!ApplyErr, Queue!Go, Queue!Rest,
             Queue!files, Queue!PassOn, Queue!Requeue, Queue!Bury,
             Queue!Without
    <3>. QED
      BY <2>1, <2>2, <3>1 DEF InHands
  <2>. QED
    BY <2>3, <2>4, <2>5, <2>6, <2>7
<1>3. ASSUME NEW w \in Workers, Deliver(w)
      PROVE  InHands'
  <2>1. /\ pc' = [pc EXCEPT ![w] = "apply"] /\ lapsed' = lapsed
        /\ held' = [held EXCEPT ![w].attempt = @ + 1]
        /\ leases' = Queue!Without(Queue!Path(held[w]))
                   \cup {Queue!MakeLease(held[w], held[w].attempt + 1, w)}
        /\ held[w] \in Queue!Item
    BY <1>3 DEF Deliver, Queue!Stamp, Queue!Go, Queue!TypeOK, Queue!Labels
  <2>2. /\ held'[w].seq = held[w].seq /\ held'[w].event = held[w].event
        /\ \A v \in Workers \ {w} : pc'[v] = pc[v] /\ held'[v] = held[v]
        /\ pc'[w] = "apply"
    BY <2>1 DEF Queue!TypeOK, Queue!Item
  <2>. QED
    BY <2>1, <2>2 DEF InHands, Queue!Without, Queue!MakeLease
<1>4. ASSUME NEW w \in Workers, Finish(w)
      PROVE  InHands'
  <2>1. /\ pc'[w] \in {"ack", "fail"}
        /\ \A v \in Workers \ {w} : pc'[v] = pc[v]
        /\ UNCHANGED <<leases, lapsed, held>>
    BY <1>4 DEF Finish, Queue!ApplyOk, Queue!ApplyErr, Queue!Go, Queue!files,
                Queue!history, Queue!TypeOK
  <2>. QED
    BY <2>1 DEF InHands
<1>5. ASSUME NEW w \in Workers, Crash(w)
      PROVE  FALSE
  BY <1>5 DEF Crash, Queue!Crash, Queue!TypeOK
<1>6. ASSUME Expire, Timely'
      PROVE  FALSE
  <2>1. PICK l \in leases :
           /\ leases' = (leases \ {l}) \cup {[l EXCEPT !.stale = TRUE]}
           /\ UNCHANGED <<pc, held>>
    BY <1>6 DEF Expire, Queue!Expire, Queue!local
  <2>. DEFINE m == [l EXCEPT !.stale = TRUE]
  <2>2. m \in leases' /\ m.stale /\ m.seq = l.seq /\ m.event = l.event
    BY <2>1 DEF Queue!TypeOK, Queue!Lease
  <2>3. PICK w \in Workers : /\ pc[w] \in Queue!Claiming
                             /\ Queue!Path(l) = Queue!Path(held[w])
    BY DEF InHands
  <2>. QED
    BY <1>6, <2>1, <2>2, <2>3 DEF Timely
<1>7. ASSUME Enqueue \/ (\E w \in Workers : Serve(w)) \/ UNCHANGED vars
      PROVE  UNCHANGED <<leases, lapsed, pc, held>>
  BY <1>7 DEF Enqueue, Queue!Enqueue, Queue!local, Serve, vars, queueVars
<1>. QED
  BY <1>1, <1>2, <1>3, <1>4, <1>5, <1>6, <1>7 DEF Next

\* Workers whose events are those of different workflows never meet in the
\* engine, as long as nobody is killed and no lease runs out under its
\* worker: two copies of an event come from an expired lease.
THEOREM ShardsNeverMeet ==
    ASSUME Suited, Sharded, MaxCrashes = 0
    PROVE  TimelySpec => []NeverMeet
<1>1. Init => Joined /\ InHands
  BY DEF Init, Queue!Init, Engine!Init, Joined, InHands
<1>2. Queue!TypeOK /\ Engine!TypeOK /\ Joined /\ InHands /\ [Next /\ Timely']_vars
         => Joined' /\ InHands'
  BY JoinedStep, InHandsStep
<1>3. Queue!TypeOK /\ Joined /\ InHands /\ Queue!OverlapOnlyAfterExpiry => NeverMeet
  <2>. SUFFICES ASSUME Queue!TypeOK, Joined, InHands, Queue!OverlapOnlyAfterExpiry,
                       NEW v \in Workers, NEW w \in Workers, v # w,
                       Engine!Serving(v), Engine!Serving(w), req[v].wf = req[w].wf
                PROVE  FALSE
    BY DEF NeverMeet, Engine!Exclusive
  <2>1. /\ pc[v] = "apply" /\ req[v] = RequestOf[held[v].event]
        /\ pc[w] = "apply" /\ req[w] = RequestOf[held[w].event]
    BY DEF Joined, Engine!Serving
  <2>2. held[v].event \in Events /\ held[w].event \in Events
    BY <2>1 DEF Queue!TypeOK, Queue!Labels, Queue!Item
  <2>3. held[v].event = held[w].event
    BY <2>1, <2>2 DEF Sharded
  <2>. QED
    BY <2>1, <2>3 DEF Queue!OverlapOnlyAfterExpiry, InHands
<1>4. TimelySpec => Spec
  BY PTL DEF TimelySpec, Spec
<1>. QED
  BY <1>1, <1>2, <1>3, <1>4, QueueIsKept, EngineIsTyped, PTL DEF TimelySpec

\* So they keep what one worker keeps.
THEOREM ShardsAreSafe ==
    ASSUME Suited, Sharded, MaxCrashes = 0
    PROVE  TimelySpec => [](AckedIsMarked /\ OneEntryPerEvent)
<1>1. NeverMeet' /\ [Next /\ Timely']_vars => [Next /\ Engine!Exclusive']_vars
  BY DEF NeverMeet
<1>2. TimelySpec => ExclusiveSpec
  BY <1>1, ShardsNeverMeet, PTL DEF TimelySpec, ExclusiveSpec
<1>. QED
  BY <1>2, AcknowledgedIsRemembered, PTL
=============================================================================
