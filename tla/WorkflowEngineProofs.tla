------------------------ MODULE WorkflowEngineProofs ------------------------
(* The engine's requests are atomic transitions of WorkflowLifecycle, as   *)
(* long as one process at a time serves a workflow, for every number of    *)
(* processes, workflows and events and every sequence of requests.         *)
EXTENDS WorkflowEngine, TLAPS

Reaches(r, s, d) ==
    /\ d \in L!WorkflowState
    /\ r.kind = "Start" => s = Absent /\ d = NewWorkflow(r)
    /\ r.kind # "Start" => /\ s # Absent
                           /\ r.id \notin s.marks
                           /\ L!Allowed(s.status, L!Target(r.kind))
                           /\ d = Moved(s, r)

\* What a process is about to save is the transition of what is stored now,
\* not of something it read earlier.
DraftsAreCurrent ==
    \A p \in Processes :
        at[p] \in {"write", "rename"} =>
            Reaches(req[p], store[req[p].wf], draft[p])

TmpIsDraft ==
    \A p \in Processes : at[p] = "rename" => tmp[req[p].wf] = draft[p]

OnlyStartsReload ==
    \A p \in Processes : at[p] = "reload" => req[p].kind = "Start"

Inv == TypeOK /\ Exclusive /\ DraftsAreCurrent /\ TmpIsDraft /\ OnlyStartsReload

-----------------------------------------------------------------------------
(* Type correctness, which needs no exclusion.                             *)

LEMMA StatusOfTarget ==
    ASSUME NEW kind \in L!Kinds
    PROVE  L!Target(kind) \in L!Statuses
  BY DEF L!Kinds, L!Statuses, L!Target

LEMMA RequestFields ==
    ASSUME NEW r \in Requests
    PROVE  /\ r.kind \in L!Kinds
           /\ r.wf \in Workflows
           /\ r.id \in EventIds \cup {NoId}
           /\ r.tenant \in Tenants
           /\ r # Nothing
           /\ EntryOf(r) \in L!Entry
  BY EngineAssumption DEF EngineAssumption, Request, EntryOf, L!Entry

LEMMA DraftTypes ==
    ASSUME NEW r \in Requests
    PROVE  /\ r.kind = "Start" => NewWorkflow(r) \in L!WorkflowState
           /\ \A s \in L!WorkflowState : Moved(s, r) \in L!WorkflowState
  BY RequestFields, StatusOfTarget
     DEF NewWorkflow, Moved, L!WorkflowState, L!MarkOf, L!Statuses

LEMMA EntranceIsPoint ==
    ASSUME NEW r
    PROVE  Entrance(r) \in {"err", "reload", "load", "guard"}
  BY DEF Entrance

LEMMA TypeStep ==
    ASSUME TypeOK, [Next]_vars
    PROVE  TypeOK'
<1>. USE DEF TypeOK, disk, Goto, Points
<1>1. ASSUME NEW p \in Processes, NEW r \in Requests, Call(p, r)
      PROVE  TypeOK'
  BY <1>1, EntranceIsPoint, EngineAssumption DEF Call, EngineAssumption
<1>2. ASSUME NEW p \in Processes, Guard(p)
      PROVE  TypeOK'
  BY <1>2 DEF Guard
<1>3. ASSUME NEW p \in Processes, LoadForStart(p)
      PROVE  TypeOK'
  BY <1>3 DEF LoadForStart
<1>4. ASSUME NEW p \in Processes, Reload(p)
      PROVE  TypeOK'
  <2>1. req[p] \in Requests
    BY <1>4 DEF Reload
  <2>2. CASE store[req[p].wf] = Absent
    <3>1. req[p].kind = "Start" \/ NewWorkflow(req[p]) \in L!WorkflowState
      BY <2>1, RequestFields
         DEF NewWorkflow, L!WorkflowState, L!MarkOf, L!Statuses
    <3>2. NewWorkflow(req[p]) \in L!WorkflowState
      BY <2>1, <3>1, DraftTypes
    <3>. QED
      BY <1>4, <2>2, <3>2 DEF Reload
  <2>3. CASE store[req[p].wf] # Absent
    BY <1>4, <2>3 DEF Reload
  <2>. QED
    BY <2>2, <2>3
<1>5. ASSUME NEW p \in Processes, LoadForTransition(p)
      PROVE  TypeOK'
  <2>. DEFINE s == store[req[p].wf]
  <2>1. req[p] \in Requests
    BY <1>5 DEF LoadForTransition
  <2>2. CASE Refused(s, req[p]) \/ Processed(s, req[p].id)
    BY <1>5, <2>2 DEF LoadForTransition
  <2>3. CASE ~(Refused(s, req[p]) \/ Processed(s, req[p].id))
    <3>1. Moved(s, req[p]) \in L!WorkflowState
      BY <2>1, <2>3, RequestFields, DraftTypes DEF Refused
    <3>. QED
      BY <1>5, <2>3, <3>1 DEF LoadForTransition
  <2>. QED
    BY <2>2, <2>3
<1>6. ASSUME NEW p \in Processes, Write(p)
      PROVE  TypeOK'
  BY <1>6 DEF Write
<1>7. ASSUME NEW p \in Processes, Rename(p)
      PROVE  TypeOK'
  BY <1>7 DEF Rename
<1>8. ASSUME NEW p \in Processes, Audit(p)
      PROVE  TypeOK'
  <2>1. req[p] \in Requests /\ EntryOf(req[p]) \in L!Entry
    BY <1>8, RequestFields DEF Audit
  <2>. DEFINE w == req[p].wf
             e == EntryOf(req[p])
  <2>2. w \in Workflows
    BY <2>1, RequestFields
  <2>3. Append(audit[w], e) \in Seq(L!Entry)
    BY <2>1, <2>2
  <2>4. audit' = [audit EXCEPT ![w] = Append(audit[w], e)]
    BY <1>8 DEF Audit
  <2>. HIDE DEF w, e
  <2>5. audit' \in [Workflows -> Seq(L!Entry)]
    BY <2>2, <2>3, <2>4
  <2>. QED
    BY <1>8, <2>5 DEF Audit
<1>9. ASSUME NEW p \in Processes, AuditError(p)
      PROVE  TypeOK'
  BY <1>9 DEF AuditError
<1>10. ASSUME NEW p \in Processes, Return(p) \/ Crash(p)
       PROVE  TypeOK'
  BY <1>10 DEF Return, Crash, Leave
<1>11. CASE UNCHANGED vars
  BY <1>11 DEF vars
<1>. QED
  BY <1>1, <1>2, <1>3, <1>4, <1>5, <1>6, <1>7, <1>8, <1>9, <1>10, <1>11
     DEF Next, ServeStep

LEMMA TypeInit == Init => TypeOK
  BY EngineAssumption DEF EngineAssumption, Init, TypeOK, Points

\* The variables keep their types.
THEOREM TypeCorrect == Spec => []TypeOK
  BY TypeInit, TypeStep, PTL DEF Spec

-----------------------------------------------------------------------------
(* The inductive invariant of ExclusiveSpec.                               *)

\* Steps of p that touch neither the workflow file nor the temporary file
\* leave the other processes' drafts as they are.
LEMMA OthersUntouched ==
    ASSUME Inv, NEW p \in Processes,
           UNCHANGED <<store, tmp>>,
           \A q \in Processes \ {p} : UNCHANGED <<at[q], req[q], draft[q]>>,
           at'[p] \in {"write", "rename"} =>
               Reaches(req'[p], store[req'[p].wf], draft'[p]),
           at'[p] = "rename" => tmp[req'[p].wf] = draft'[p],
           at'[p] = "reload" => req'[p].kind = "Start"
    PROVE  DraftsAreCurrent' /\ TmpIsDraft' /\ OnlyStartsReload'
<1>1. ASSUME NEW q \in Processes, at'[q] \in {"write", "rename"}
      PROVE  Reaches(req'[q], store'[req'[q].wf], draft'[q])
  BY <1>1 DEF Inv, DraftsAreCurrent
<1>2. ASSUME NEW q \in Processes, at'[q] = "rename"
      PROVE  tmp'[req'[q].wf] = draft'[q]
  BY <1>2 DEF Inv, TmpIsDraft
<1>3. ASSUME NEW q \in Processes, at'[q] = "reload"
      PROVE  req'[q].kind = "Start"
  BY <1>3 DEF Inv, OnlyStartsReload
<1>. QED
  BY <1>1, <1>2, <1>3 DEF DraftsAreCurrent, TmpIsDraft, OnlyStartsReload

LEMMA InvStep ==
    ASSUME Inv, [Next /\ Exclusive']_vars
    PROVE  Inv'
<1>. TypeOK'
  BY TypeStep DEF Inv
<1>. TypeOK
  BY DEF Inv
<1>. SUFFICES DraftsAreCurrent' /\ TmpIsDraft' /\ OnlyStartsReload' /\ Exclusive'
  BY DEF Inv
<1>a. CASE UNCHANGED vars
  BY <1>a DEF vars, Inv, DraftsAreCurrent, TmpIsDraft, OnlyStartsReload,
              Exclusive, Serving
<1>b. CASE Next /\ Exclusive'
  <2>. Exclusive'
    BY <1>b
  <2>. USE DEF disk, Goto
  <2>1. ASSUME NEW p \in Processes, NEW r \in Requests, Call(p, r)
        PROVE  DraftsAreCurrent' /\ TmpIsDraft' /\ OnlyStartsReload'
    <3>1. Entrance(r) \notin {"write", "rename"}
      BY EntranceIsPoint
    <3>2. Entrance(r) = "reload" => r.kind = "Start"
      BY DEF Entrance
    <3>. QED
      BY <2>1, <3>1, <3>2, OthersUntouched DEF Call, TypeOK
  <2>2. ASSUME NEW p \in Processes,
               Guard(p) \/ LoadForStart(p) \/ Audit(p) \/ AuditError(p)
        PROVE  DraftsAreCurrent' /\ TmpIsDraft' /\ OnlyStartsReload'
    <3>1. UNCHANGED <<store, tmp, req, draft>>
      BY <2>2 DEF Guard, LoadForStart, Audit, AuditError
    <3>2. \A q \in Processes \ {p} : at'[q] = at[q]
      BY <2>2 DEF Guard, LoadForStart, Audit, AuditError, TypeOK
    <3>3. at'[p] \in {"load", "err", "ok", "reload"}
      BY <2>2 DEF Guard, LoadForStart, Audit, AuditError, TypeOK
    <3>4. at'[p] = "reload" => req[p].kind = "Start"
      BY <2>2 DEF Guard, LoadForStart, Audit, AuditError, TypeOK
    <3>. QED
      BY <3>1, <3>2, <3>3, <3>4, OthersUntouched
  <2>3. ASSUME NEW p \in Processes, Reload(p)
        PROVE  DraftsAreCurrent' /\ TmpIsDraft' /\ OnlyStartsReload'
    <3>1. req[p] \in Requests /\ req[p].kind = "Start"
      BY <2>3 DEF Reload, TypeOK, Inv, OnlyStartsReload
    <3>2. UNCHANGED <<store, tmp, req>>
      BY <2>3 DEF Reload
    <3>3. \A q \in Processes \ {p} : UNCHANGED <<at[q], req[q], draft[q]>>
      BY <2>3 DEF Reload, TypeOK
    <3>4. CASE store[req[p].wf] = Absent
      <4>1. at'[p] = "write" /\ draft'[p] = NewWorkflow(req[p])
        BY <2>3, <3>4 DEF Reload, TypeOK
      <4>2. Reaches(req[p], store[req[p].wf], draft'[p])
        BY <3>1, <3>4, <4>1, DraftTypes DEF Reaches
      <4>. QED
        BY <3>2, <3>3, <4>1, <4>2, OthersUntouched
    <3>5. CASE store[req[p].wf] # Absent
      <4>1. at'[p] = "err"
        BY <2>3, <3>5 DEF Reload, TypeOK
      <4>. QED
        BY <3>2, <3>3, <4>1, OthersUntouched
    <3>. QED
      BY <3>4, <3>5
  <2>4. ASSUME NEW p \in Processes, LoadForTransition(p)
        PROVE  DraftsAreCurrent' /\ TmpIsDraft' /\ OnlyStartsReload'
    <3>. DEFINE s == store[req[p].wf]
    <3>1. req[p] \in Requests /\ req[p].kind # "Start"
      BY <2>4 DEF LoadForTransition, TypeOK
    <3>2. UNCHANGED <<store, tmp, req>>
      BY <2>4 DEF LoadForTransition
    <3>3. \A q \in Processes \ {p} : UNCHANGED <<at[q], req[q], draft[q]>>
      BY <2>4 DEF LoadForTransition, TypeOK
    <3>4. CASE Refused(s, req[p]) \/ Processed(s, req[p].id)
      <4>1. at'[p] \in {"err", "ok"}
        BY <2>4, <3>4 DEF LoadForTransition, TypeOK
      <4>. QED
        BY <3>2, <3>3, <4>1, OthersUntouched
    <3>5. CASE ~(Refused(s, req[p]) \/ Processed(s, req[p].id))
      <4>1. at'[p] = "write" /\ draft'[p] = Moved(s, req[p])
        BY <2>4, <3>5 DEF LoadForTransition, TypeOK
      <4>2. /\ s # Absent
            /\ req[p].id \notin s.marks
            /\ L!Allowed(s.status, L!Target(req[p].kind))
        BY <3>5 DEF Refused, Processed
      <4>3. s \in L!WorkflowState
        BY <3>1, <4>2, RequestFields DEF TypeOK
      <4>4. Reaches(req[p], s, draft'[p])
        BY <3>1, <4>1, <4>2, <4>3, DraftTypes DEF Reaches
      <4>. QED
        BY <3>2, <3>3, <4>1, <4>4, OthersUntouched
    <3>. QED
      BY <3>4, <3>5
  <2>5. ASSUME NEW p \in Processes, Write(p)
        PROVE  DraftsAreCurrent' /\ TmpIsDraft' /\ OnlyStartsReload'
    <3>. DEFINE w == req[p].wf
    <3>1. w \in Workflows
      BY <2>5, RequestFields DEF Write, TypeOK
    <3>2. /\ at' = [at EXCEPT ![p] = "rename"]
          /\ tmp' = [tmp EXCEPT ![w] = draft[p]]
          /\ UNCHANGED <<store, req, draft>>
          /\ at[p] = "write"
      BY <2>5 DEF Write
    <3>3. \A q \in Processes \ {p} : at[q] = "rename" => req[q].wf # w
      BY <3>2 DEF Inv, Exclusive, Serving
    <3>4. DraftsAreCurrent'
      BY <3>2 DEF Inv, DraftsAreCurrent, TypeOK
    <3>5. TmpIsDraft'
      BY <3>1, <3>2, <3>3 DEF Inv, TmpIsDraft, TypeOK
    <3>6. OnlyStartsReload'
      BY <3>2 DEF Inv, OnlyStartsReload, TypeOK
    <3>. QED
      BY <3>4, <3>5, <3>6
  <2>6. ASSUME NEW p \in Processes, Rename(p)
        PROVE  DraftsAreCurrent' /\ TmpIsDraft' /\ OnlyStartsReload'
    <3>. DEFINE w == req[p].wf
    <3>1. /\ at[p] = "rename"
          /\ at' = [at EXCEPT ![p] = at'[p]]
          /\ at'[p] \in {"append", "err"}
          /\ \A v \in Workflows \ {w} : UNCHANGED <<store[v], tmp[v]>>
          /\ UNCHANGED <<req, draft>>
      BY <2>6 DEF Rename, TypeOK
    <3>2. \A q \in Processes \ {p} : Serving(q) => req[q].wf \in Workflows \ {w}
      BY <3>1, RequestFields DEF Inv, Exclusive, Serving, TypeOK
    <3>3. \A q \in Processes \ {p} :
             at'[q] = at[q] /\ (at[q] \in {"write", "rename"} => Serving(q))
      BY <3>1 DEF TypeOK, Serving
    <3>4. DraftsAreCurrent'
      BY <3>1, <3>2, <3>3 DEF Inv, DraftsAreCurrent
    <3>5. TmpIsDraft'
      BY <3>1, <3>2, <3>3 DEF Inv, TmpIsDraft
    <3>6. OnlyStartsReload'
      BY <3>1, <3>3 DEF Inv, OnlyStartsReload
    <3>. QED
      BY <3>4, <3>5, <3>6
  <2>7. ASSUME NEW p \in Processes, Return(p) \/ Crash(p)
        PROVE  DraftsAreCurrent' /\ TmpIsDraft' /\ OnlyStartsReload'
    BY <2>7, OthersUntouched DEF Return, Crash, Leave, TypeOK
  <2>. QED
    BY <1>b, <2>1, <2>2, <2>3, <2>4, <2>5, <2>6, <2>7 DEF Next, ServeStep
<1>. QED
  BY <1>a, <1>b

LEMMA InvInit == Init => Inv
  BY TypeInit DEF Init, Inv, DraftsAreCurrent, TmpIsDraft, OnlyStartsReload,
                  Exclusive, Serving

LEMMA Inductive == ExclusiveSpec => []Inv
  BY InvInit, InvStep, PTL DEF ExclusiveSpec

-----------------------------------------------------------------------------
(* ExclusiveSpec implements WorkflowLifecycle.                             *)

\* While processes exclude one another the mapped trail has no choice in it.
LEMMA TrailIs ==
    Exclusive =>
        \A w \in Workflows :
            /\ \A p \in Processes :
                  Owes(p, w) => Trail[w] = Append(audit[w], EntryOf(req[p]))
            /\ (\A p \in Processes : ~Owes(p, w)) => Trail[w] = audit[w]
<1>. SUFFICES ASSUME Exclusive, NEW w \in Workflows
              PROVE  /\ \A p \in Processes :
                           Owes(p, w) =>
                               Trail[w] = Append(audit[w], EntryOf(req[p]))
                     /\ (\A p \in Processes : ~Owes(p, w)) => Trail[w] = audit[w]
  OBVIOUS
<1>1. ASSUME NEW p \in Processes, Owes(p, w)
      PROVE  Trail[w] = Append(audit[w], EntryOf(req[p]))
  <2>. DEFINE c == CHOOSE q \in Processes : Owes(q, w)
  <2>1. c \in Processes /\ Owes(c, w)
    BY <1>1
  <2>. HIDE DEF c
  <2>2. c = p
    BY <1>1, <2>1 DEF Owes, Exclusive, Serving
  <2>3. Trail[w] = Append(audit[w], EntryOf(req[c]))
    BY <1>1 DEF Trail, c
  <2>. QED
    BY <2>2, <2>3
<1>. QED
  BY <1>1 DEF Trail

\* The primed form of TrailIs.
LEMMA TrailWillBe ==
    ASSUME Exclusive'
    PROVE  \A w \in Workflows :
               /\ \A p \in Processes :
                     Owes(p, w)' => Trail'[w] = Append(audit'[w], EntryOf(req'[p]))
               /\ (\A p \in Processes : ~Owes(p, w)') => Trail'[w] = audit'[w]
<1>1. (Exclusive =>
         \A w \in Workflows :
             /\ \A p \in Processes :
                   Owes(p, w) => Trail[w] = Append(audit[w], EntryOf(req[p]))
             /\ (\A p \in Processes : ~Owes(p, w)) => Trail[w] = audit[w])'
  BY TrailIs, PTL
<1>. QED
  BY <1>1 DEF EntryOf

\* A step that saves nothing, writes no line and neither reaches nor leaves
\* "append" is a stuttering step of the lifecycle.
LEMMA Stutters ==
    ASSUME Inv, Exclusive', Exclusive, UNCHANGED <<store, audit>>,
           \A p \in Processes, w \in Workflows :
               /\ Owes(p, w)' = Owes(p, w)
               /\ Owes(p, w) => req'[p] = req[p]
    PROVE  UNCHANGED Lifecycle!vars
<1>1. ASSUME NEW w \in Workflows
      PROVE  Trail'[w] = Trail[w]
  <2>1. CASE \E p \in Processes : Owes(p, w)
    <3>1. PICK p \in Processes : Owes(p, w)
      BY <2>1
    <3>2. Owes(p, w)' /\ req'[p] = req[p]
      BY <3>1
    <3>3. Trail'[w] = Append(audit'[w], EntryOf(req'[p]))
      BY <3>2, TrailWillBe
    <3>. QED
      BY <3>1, <3>2, <3>3, TrailIs
  <2>2. CASE \A p \in Processes : ~Owes(p, w)
    <3>1. \A p \in Processes : ~Owes(p, w)'
      BY <2>2
    <3>2. Trail'[w] = audit'[w]
      BY <3>1, TrailWillBe
    <3>. QED
      BY <2>2, <3>2, TrailIs
  <2>. QED
    BY <2>1, <2>2
<1>2. Trail' = Trail
  <2>1. Trail = [w \in Workflows |-> Trail[w]]
    BY DEF Trail
  <2>2. Trail' = [w \in Workflows |-> Trail'[w]]
    BY DEF Trail
  <2>. QED
    BY <1>1, <2>1, <2>2
<1>. QED
  BY <1>2 DEF Lifecycle!vars

\* The rename of a save is the lifecycle's step.
LEMMA RenameIsStep ==
    ASSUME Inv, Exclusive', NEW p \in Processes, Rename(p)
    PROVE  Lifecycle!Next
<1>. DEFINE r == req[p]
            w == req[p].wf
            d == draft[p]
<1>1. /\ at[p] = "rename"
      /\ r \in Requests
      /\ w \in Workflows
      /\ r.kind \in L!Kinds
      /\ r.id \in EventIds \cup {NoId}
      /\ r.tenant \in Tenants
  BY RequestFields DEF Rename, Inv, TypeOK
<1>2. tmp[w] = d /\ Reaches(r, store[w], d) /\ d # Absent
  BY <1>1, EngineAssumption
     DEF Inv, TmpIsDraft, DraftsAreCurrent, Reaches, EngineAssumption
<1>3. /\ at' = [at EXCEPT ![p] = "append"]
      /\ store' = [store EXCEPT ![w] = d]
      /\ UNCHANGED <<audit, req>>
  BY <1>2 DEF Rename, Goto
<1>4. Trail' = [Trail EXCEPT ![w] =
                   Append(Trail[w], [kind |-> r.kind, id |-> r.id])]
  <2>1. /\ Owes(p, w)'
        /\ \A v \in Workflows \ {w} : ~Owes(p, v) /\ ~Owes(p, v)'
        /\ \A q \in Processes \ {p}, v \in Workflows : Owes(q, v)' = Owes(q, v)
    BY <1>1, <1>3 DEF Owes, Inv, TypeOK
  <2>2. \A q \in Processes : ~Owes(q, w)
    BY <1>1 DEF Owes, Inv, Exclusive, Serving
  <2>3. Trail[w] = audit[w]
    BY <1>1, <2>2, TrailIs DEF Inv
  <2>4. Trail'[w] = Append(audit[w], EntryOf(r))
    BY <1>1, <1>3, <2>1, TrailWillBe
  <2>5. ASSUME NEW v \in Workflows \ {w}
        PROVE  Trail'[v] = Trail[v]
    <3>1. CASE \E q \in Processes : Owes(q, v)
      <4>1. PICK q \in Processes : Owes(q, v) /\ Owes(q, v)'
        BY <2>1, <3>1
      <4>. QED
        BY <1>3, <4>1, TrailIs, TrailWillBe DEF Inv
    <3>2. CASE \A q \in Processes : ~Owes(q, v)
      <4>1. \A q \in Processes : ~Owes(q, v)'
        BY <2>1, <3>2
      <4>. QED
        BY <1>3, <3>2, <4>1, TrailIs, TrailWillBe DEF Inv
    <3>. QED
      BY <3>1, <3>2
  <2>6. /\ Trail = [v \in Workflows |-> Trail[v]]
        /\ Trail' = [v \in Workflows |-> Trail'[v]]
    BY DEF Trail
  <2>. QED
    BY <1>1, <2>3, <2>4, <2>5, <2>6 DEF EntryOf
<1>5. CASE r.kind = "Start"
  <2>1. Lifecycle!Start(w, r.id, r.tenant)
    BY <1>2, <1>3, <1>4, <1>5
       DEF Reaches, NewWorkflow, L!MarkOf, Lifecycle!Start, Lifecycle!MarkOf,
           Lifecycle!Record
  <2>. QED
    BY <1>1, <2>1 DEF Lifecycle!Next
<1>6. CASE r.kind # "Start"
  <2>1. Lifecycle!Transition(w, r.kind, r.id)
    BY <1>2, <1>3, <1>4, <1>6
       DEF Reaches, Moved, L!MarkOf, L!Allowed, L!Target, Lifecycle!Transition,
           Lifecycle!MarkOf, Lifecycle!Record, Lifecycle!Allowed,
           Lifecycle!Target
  <2>. QED
    BY <1>1, <1>6, <2>1 DEF Lifecycle!Next, L!Kinds, Lifecycle!Kinds
<1>. QED
  BY <1>5, <1>6

\* Writing the line that was owed changes nothing the lifecycle sees.
LEMMA AuditStutters ==
    ASSUME Inv, Exclusive', NEW p \in Processes, Audit(p)
    PROVE  UNCHANGED Lifecycle!vars
<1>. PICK w \in Workflows : w = req[p].wf
  BY RequestFields DEF Audit, Inv, TypeOK
<1>1. Owes(p, w)
  BY DEF Audit, Owes
<1>2. /\ at' = [at EXCEPT ![p] = "ok"]
      /\ audit' = [audit EXCEPT ![w] = Append(audit[w], EntryOf(req[p]))]
      /\ UNCHANGED <<store, req>>
  BY DEF Audit, Goto
<1>3. /\ \A v \in Workflows : ~Owes(p, v)'
      /\ \A v \in Workflows \ {w} : ~Owes(p, v)
      /\ \A q \in Processes \ {p}, v \in Workflows : Owes(q, v)' = Owes(q, v)
  BY <1>2 DEF Owes, Inv, TypeOK
<1>4. \A q \in Processes \ {p} : ~Owes(q, w)
  BY <1>1 DEF Owes, Inv, Exclusive, Serving
<1>5. Trail'[w] = Trail[w]
  <2>1. Trail[w] = Append(audit[w], EntryOf(req[p]))
    BY <1>1, TrailIs DEF Inv
  <2>2. \A q \in Processes : ~Owes(q, w)'
    BY <1>1, <1>3, <1>4
  <2>3. Trail'[w] = audit'[w]
    BY <1>1, <2>2, TrailWillBe
  <2>. QED
    BY <1>1, <1>2, <2>1, <2>3 DEF Inv, TypeOK
<1>6. ASSUME NEW v \in Workflows \ {w}
      PROVE  Trail'[v] = Trail[v]
  <2>1. audit'[v] = audit[v]
    BY <1>2 DEF Inv, TypeOK
  <2>2. CASE \E q \in Processes : Owes(q, v)
    <3>1. PICK q \in Processes : Owes(q, v) /\ Owes(q, v)'
      BY <1>3, <2>2
    <3>. QED
      BY <1>2, <2>1, <3>1, TrailIs, TrailWillBe DEF Inv
  <2>3. CASE \A q \in Processes : ~Owes(q, v)
    <3>1. \A q \in Processes : ~Owes(q, v)'
      BY <1>3, <2>3
    <3>. QED
      BY <2>1, <2>3, <3>1, TrailIs, TrailWillBe DEF Inv
  <2>. QED
    BY <2>2, <2>3
<1>7. /\ Trail = [v \in Workflows |-> Trail[v]]
      /\ Trail' = [v \in Workflows |-> Trail'[v]]
  BY DEF Trail
<1>. QED
  BY <1>2, <1>5, <1>6, <1>7 DEF Lifecycle!vars

\* One process at a time on each workflow, no kill between the rename and the
\* audit line, and an audit log that can be written: then every request of the
\* engine is an atomic step of the lifecycle, or none.
THEOREM EngineImplementsLifecycle ==
    ASSUME ~AuditFails, "append" \notin CrashPoints
    PROVE  ExclusiveSpec => ImplementsLifecycle
<1>1. Init => Lifecycle!Init
  <2>1. ASSUME Init PROVE Trail = [w \in Workflows |-> << >>]
    BY <2>1 DEF Init, Trail, Owes
  <2>. QED
    BY <2>1 DEF Init, Lifecycle!Init
<1>2. Inv /\ [Next /\ Exclusive']_vars => [Lifecycle!Next]_(Lifecycle!vars)
  <2>. SUFFICES ASSUME Inv, [Next /\ Exclusive']_vars
                PROVE  [Lifecycle!Next]_(Lifecycle!vars)
    OBVIOUS
  <2>. Exclusive
    BY DEF Inv
  <2>1. CASE UNCHANGED vars
    BY <2>1 DEF vars, Lifecycle!vars, Trail, Owes
  <2>2. CASE Next /\ Exclusive'
    <3>. Exclusive'
      BY <2>2
    <3>. USE DEF disk, Goto
    <3>1. ASSUME NEW p \in Processes,
                 \/ \E r \in Requests : Call(p, r)
                 \/ Guard(p) \/ LoadForStart(p) \/ Reload(p)
                 \/ LoadForTransition(p) \/ Write(p) \/ Return(p) \/ Crash(p)
          PROVE  UNCHANGED Lifecycle!vars
      <4>1. UNCHANGED <<store, audit>>
        BY <3>1 DEF Call, Guard, LoadForStart, Reload, LoadForTransition, Write,
                    Return, Crash
      <4>2. at[p] # "append" /\ at'[p] # "append"
        BY <3>1, EntranceIsPoint
           DEF Call, Guard, LoadForStart, Reload, LoadForTransition, Write,
               Return, Crash, Leave, Inv, TypeOK
      <4>3. \A q \in Processes \ {p} : UNCHANGED <<at[q], req[q]>>
        BY <3>1 DEF Call, Guard, LoadForStart, Reload, LoadForTransition, Write,
                    Return, Crash, Leave, Inv, TypeOK
      <4>4. \A q \in Processes, w \in Workflows :
               Owes(q, w)' = Owes(q, w) /\ (Owes(q, w) => req'[q] = req[q])
        BY <4>2, <4>3 DEF Owes
      <4>. QED
        BY <4>1, <4>4, Stutters
    <3>2. ASSUME NEW p \in Processes, Rename(p)
          PROVE  Lifecycle!Next
      BY <3>2, RenameIsStep
    <3>3. ASSUME NEW p \in Processes, Audit(p)
          PROVE  UNCHANGED Lifecycle!vars
      BY <3>3, AuditStutters
    <3>4. \A p \in Processes : ~AuditError(p)
      BY DEF AuditError
    <3>. QED
      BY <2>2, <3>1, <3>2, <3>3, <3>4 DEF Next, ServeStep
  <2>. QED
    BY <2>1, <2>2
<1>. QED
  BY <1>1, <1>2, Inductive, PTL
     DEF ExclusiveSpec, ImplementsLifecycle, Lifecycle!Spec

-----------------------------------------------------------------------------
(* What holds wherever a process is killed and whether or not the audit    *)
(* log can be written.                                                     *)

\* Only a rename changes the store, and how.
LEMMA StoreStep ==
    ASSUME Inv, Next
    PROVE  \/ UNCHANGED store
           \/ \E p \in Processes, w \in Workflows :
                 /\ Rename(p)
                 /\ at[p] = "rename"
                 /\ w = req[p].wf
                 /\ Reaches(req[p], store[w], draft[p])
                 /\ draft[p] # Absent
                 /\ store' = [store EXCEPT ![w] = draft[p]]
                 /\ at' = [at EXCEPT ![p] = "append"]
                 /\ UNCHANGED <<audit, req, draft>>
<1>1. ASSUME NEW p \in Processes, Rename(p)
      PROVE  \E w \in Workflows :
                 /\ at[p] = "rename"
                 /\ w = req[p].wf
                 /\ Reaches(req[p], store[w], draft[p])
                 /\ draft[p] # Absent
                 /\ store' = [store EXCEPT ![w] = draft[p]]
                 /\ at' = [at EXCEPT ![p] = "append"]
                 /\ UNCHANGED <<audit, req, draft>>
  <2>. PICK w \in Workflows : w = req[p].wf
    BY <1>1, RequestFields DEF Rename, Inv, TypeOK
  <2>1. tmp[w] = draft[p] /\ Reaches(req[p], store[w], draft[p])
    BY <1>1 DEF Rename, Inv, TmpIsDraft, DraftsAreCurrent
  <2>2. draft[p] # Absent
    BY <2>1, EngineAssumption DEF Reaches, EngineAssumption
  <2>. QED
    BY <1>1, <2>1, <2>2 DEF Rename, Goto
<1>. QED
  BY <1>1 DEF Next, ServeStep, Call, Guard, LoadForStart, Reload,
              LoadForTransition, Write, Audit, AuditError, Return, Crash, disk

\* No request moves a completed, compensated or cancelled workflow: its load
\* and its rename see the same state.
THEOREM TerminalIsFinal == ExclusiveSpec => TerminalStays
<1>. DEFINE Stays ==
        \A w \in Workflows :
            store[w] # Absent /\ store[w].status \in L!Terminal
               => store'[w] # Absent /\ store'[w].status = store[w].status
<1>1. Inv /\ [Next /\ Exclusive']_vars => [Stays]_(L!vars)
  <2>1. ASSUME Inv, Next PROVE Stays
    <3>1. CASE UNCHANGED store
      BY <3>1
    <3>2. CASE \E p \in Processes, w \in Workflows :
                  /\ Reaches(req[p], store[w], draft[p])
                  /\ store' = [store EXCEPT ![w] = draft[p]]
      <4>1. PICK p \in Processes, w \in Workflows :
                  /\ Reaches(req[p], store[w], draft[p])
                  /\ store' = [store EXCEPT ![w] = draft[p]]
        BY <3>2
      <4>2. store[w] # Absent => store[w].status \notin L!Terminal
        BY <4>1 DEF Reaches, L!Allowed, L!Terminal
      <4>. QED
        BY <2>1, <4>1, <4>2 DEF Inv, TypeOK
    <3>. QED
      BY <2>1, <3>1, <3>2, StoreStep
  <2>. QED
    BY <2>1 DEF vars, L!vars
<1>. QED
  BY <1>1, Inductive, PTL DEF ExclusiveSpec, TerminalStays, L!TerminalStays

\* Audited events are marked; an event whose line is still owed is marked and
\* has no line yet.
AuditedIsMarked ==
    \A w \in Workflows : \A i \in DOMAIN audit[w] :
        audit[w][i].id # NoId =>
            store[w] # Absent /\ audit[w][i].id \in store[w].marks

OwedIsNew ==
    \A p \in Processes : \A w \in Workflows :
        Owes(p, w) /\ req[p].id # NoId =>
            /\ store[w] # Absent
            /\ req[p].id \in store[w].marks
            /\ \A i \in DOMAIN audit[w] : audit[w][i].id # req[p].id

MarkInv == AuditedIsMarked /\ OwedIsNew /\ OneEntryPerEvent

LEMMA MarkStep ==
    ASSUME Inv, MarkInv, Next, Exclusive'
    PROVE  MarkInv'
<1>. USE DEF disk, Goto
<1>1. CASE \E p \in Processes : Audit(p)
  <2>1. PICK p \in Processes : Audit(p)
    BY <1>1
  <2>2. PICK w \in Workflows : w = req[p].wf /\ Owes(p, w)
    BY <2>1, RequestFields DEF Audit, Inv, TypeOK, Owes
  <2>. DEFINE e == EntryOf(req[p])
              n == Len(audit[w])
  <2>3. /\ audit' = [audit EXCEPT ![w] = Append(audit[w], e)]
        /\ at' = [at EXCEPT ![p] = "ok"]
        /\ UNCHANGED <<store, req>>
    BY <2>1, <2>2 DEF Audit
  <2>4. /\ audit[w] \in Seq(L!Entry)
        /\ e \in L!Entry
        /\ e.id = req[p].id
    BY <2>1, <2>2, RequestFields DEF Audit, Inv, TypeOK, EntryOf
  <2>5. /\ n \in Nat
        /\ DOMAIN audit[w] = 1 .. n
        /\ DOMAIN audit'[w] = 1 .. n + 1
        /\ \A i \in 1 .. n : audit'[w][i] = audit[w][i]
        /\ audit'[w][n + 1].id = req[p].id
    <3>1. audit'[w] = Append(audit[w], e)
      BY <2>3 DEF Inv, TypeOK
    <3>. HIDE DEF e
    <3>. QED
      BY <2>4, <3>1
  <2>6. \A v \in Workflows \ {w} : audit'[v] = audit[v]
    BY <2>3 DEF Inv, TypeOK
  <2>. HIDE DEF n, e
  <2>7. AuditedIsMarked'
    <3>1. ASSUME NEW i \in DOMAIN audit'[w], audit'[w][i].id # NoId
          PROVE  store[w] # Absent /\ audit'[w][i].id \in store[w].marks
      BY <2>2, <2>5, <3>1 DEF MarkInv, AuditedIsMarked, OwedIsNew
    <3>. QED
      BY <2>3, <2>6, <3>1 DEF MarkInv, AuditedIsMarked
  <2>8. OneEntryPerEvent'
    <3>1. ASSUME NEW i \in DOMAIN audit'[w], NEW j \in DOMAIN audit'[w],
                 audit'[w][i].id = audit'[w][j].id, audit'[w][i].id # NoId
          PROVE  i = j
      <4>1. CASE i \in 1 .. n /\ j \in 1 .. n
        BY <2>5, <3>1, <4>1 DEF MarkInv, OneEntryPerEvent, L!OneEntryPerEvent
      <4>2. CASE i = n + 1 \/ j = n + 1
        BY <2>2, <2>5, <3>1, <4>2 DEF MarkInv, OwedIsNew
      <4>. QED
        BY <2>5, <4>1, <4>2
    <3>. QED
      BY <2>6, <3>1 DEF MarkInv, OneEntryPerEvent, L!OneEntryPerEvent
  <2>9. OwedIsNew'
    <3>1. ASSUME NEW q \in Processes, NEW v \in Workflows, Owes(q, v)'
          PROVE  v # w /\ Owes(q, v)
      BY <2>2, <2>3, <3>1 DEF Owes, Inv, TypeOK, Exclusive, Serving
    <3>. QED
      BY <2>3, <2>6, <3>1 DEF MarkInv, OwedIsNew
  <2>. QED
    BY <2>7, <2>8, <2>9 DEF MarkInv
<1>2. CASE \E p \in Processes : Rename(p) /\ at'[p] = "append"
  <2>1. PICK p \in Processes, w \in Workflows :
           /\ at[p] = "rename"
           /\ w = req[p].wf
           /\ Reaches(req[p], store[w], draft[p])
           /\ draft[p] # Absent
           /\ store' = [store EXCEPT ![w] = draft[p]]
           /\ at' = [at EXCEPT ![p] = "append"]
           /\ UNCHANGED <<audit, req>>
    <3>1. PICK p \in Processes : Rename(p) /\ at'[p] = "append"
      BY <1>2
    <3>2. PICK w \in Workflows : w = req[p].wf
      BY <3>1, RequestFields DEF Rename, Inv, TypeOK
    <3>3. /\ at[p] = "rename"
          /\ tmp[w] = draft[p]
          /\ Reaches(req[p], store[w], draft[p])
      BY <3>1, <3>2 DEF Rename, Inv, TmpIsDraft, DraftsAreCurrent
    <3>4. draft[p] # Absent
      BY <3>3, EngineAssumption DEF Reaches, EngineAssumption
    <3>. QED
      BY <3>1, <3>2, <3>3, <3>4 DEF Rename
  <2>2. /\ store'[w] = draft[p]
        /\ store[w] # Absent =>
              /\ req[p].id \notin store[w].marks
              /\ store[w].marks \subseteq draft[p].marks
        /\ req[p].id # NoId => req[p].id \in draft[p].marks
    BY <2>1 DEF Reaches, NewWorkflow, Moved, L!MarkOf, Inv, TypeOK
  <2>3. \A v \in Workflows \ {w} : store'[v] = store[v]
    BY <2>1 DEF Inv, TypeOK
  <2>4. AuditedIsMarked'
    BY <2>1, <2>2, <2>3 DEF MarkInv, AuditedIsMarked
  <2>5. OneEntryPerEvent'
    BY <2>1 DEF MarkInv, OneEntryPerEvent, L!OneEntryPerEvent
  <2>6. OwedIsNew'
    <3>1. ASSUME req[p].id # NoId, NEW i \in DOMAIN audit[w]
          PROVE  audit[w][i].id # req[p].id
      BY <2>2, <3>1 DEF MarkInv, AuditedIsMarked
    <3>2. ASSUME NEW q \in Processes \ {p}, NEW v \in Workflows, Owes(q, v)'
          PROVE  v # w /\ Owes(q, v)
      BY <2>1, <3>2 DEF Owes, Inv, TypeOK, Exclusive, Serving
    <3>3. \A v \in Workflows : Owes(p, v)' => v = w
      BY <2>1 DEF Owes
    <3>. QED
      BY <2>1, <2>2, <2>3, <3>1, <3>2, <3>3 DEF MarkInv, OwedIsNew
  <2>. QED
    BY <2>4, <2>5, <2>6 DEF MarkInv
<1>3. CASE ~(\E p \in Processes : Audit(p) \/ (Rename(p) /\ at'[p] = "append"))
  <2>1. PICK p \in Processes :
           /\ UNCHANGED <<store, audit>>
           /\ at'[p] # "append"
           /\ \A q \in Processes \ {p} : UNCHANGED <<at[q], req[q]>>
    <3>1. PICK p \in Processes :
             \/ \E r \in Requests : Call(p, r)
             \/ ServeStep(p) \/ Return(p) \/ Crash(p)
      BY DEF Next
    <3>2. CASE Rename(p)
      BY <1>3, <3>2 DEF Rename, Inv, TypeOK
    <3>3. CASE ~Rename(p)
      BY <1>3, <3>1, <3>3, EntranceIsPoint
         DEF ServeStep, Call, Guard, LoadForStart, Reload, LoadForTransition,
             Write, AuditError, Return, Crash, Leave, Inv, TypeOK
    <3>. QED
      BY <3>2, <3>3
  <2>2. ASSUME NEW q \in Processes, NEW v \in Workflows, Owes(q, v)'
        PROVE  Owes(q, v) /\ req'[q] = req[q]
    BY <2>1, <2>2 DEF Owes
  <2>3. AuditedIsMarked' /\ OneEntryPerEvent'
    BY <2>1 DEF MarkInv, AuditedIsMarked, OneEntryPerEvent, L!OneEntryPerEvent
  <2>4. OwedIsNew'
    BY <2>1, <2>2 DEF MarkInv, OwedIsNew
  <2>. QED
    BY <2>3, <2>4 DEF MarkInv
<1>. QED
  BY <1>1, <1>2, <1>3

\* Whatever is killed where, an event has at most one audit line: the mark and
\* the new status are in the file that one rename replaces.
THEOREM AuditedOnce == ExclusiveSpec => []OneEntryPerEvent
<1>1. Init => MarkInv
  BY DEF Init, MarkInv, AuditedIsMarked, OwedIsNew, OneEntryPerEvent,
         L!OneEntryPerEvent, Owes
<1>2. Inv /\ MarkInv /\ [Next /\ Exclusive']_vars => MarkInv'
  <2>1. ASSUME MarkInv, UNCHANGED vars PROVE MarkInv'
    BY <2>1 DEF vars, MarkInv, AuditedIsMarked, OwedIsNew, OneEntryPerEvent,
                L!OneEntryPerEvent, Owes
  <2>. QED
    BY <2>1, MarkStep
<1>3. MarkInv => OneEntryPerEvent
  BY DEF MarkInv
<1>. QED
  BY <1>1, <1>2, <1>3, Inductive, PTL DEF ExclusiveSpec

-----------------------------------------------------------------------------
(* Tenant isolation.                                                       *)

\* Once the tenant check has passed the stored workflow stays that tenant's.
Checked ==
    \A p \in Processes :
        Strict /\ req[p].ctx # NoCtx =>
            /\ at[p] = "guard" => req[p].kind # "Start"
            /\ at[p] = "load" /\ req[p].kind # "Start" =>
                  /\ store[req[p].wf] # Absent
                  /\ store[req[p].wf].tenant = req[p].ctx
            /\ at[p] \in {"load", "reload"} /\ req[p].kind = "Start" =>
                  req[p].tenant = req[p].ctx
            /\ at[p] \in {"write", "rename"} => draft[p].tenant = req[p].ctx

LEMMA TenantsStay ==
    ASSUME Inv, Next
    PROVE  \A w \in Workflows :
              store[w] # Absent =>
                 store'[w] # Absent /\ store'[w].tenant = store[w].tenant
<1>1. CASE UNCHANGED store
  BY <1>1
<1>2. CASE \E p \in Processes, w \in Workflows :
              /\ Reaches(req[p], store[w], draft[p])
              /\ draft[p] # Absent
              /\ store' = [store EXCEPT ![w] = draft[p]]
  <2>1. PICK p \in Processes, w \in Workflows :
              /\ Reaches(req[p], store[w], draft[p])
              /\ draft[p] # Absent
              /\ store' = [store EXCEPT ![w] = draft[p]]
    BY <1>2
  <2>. QED
    BY <2>1 DEF Reaches, Moved, Inv, TypeOK
<1>. QED
  BY <1>1, <1>2, StoreStep

LEMMA CheckedStep ==
    ASSUME Inv, Checked, Next
    PROVE  Checked'
<1>. USE DEF Inv, TypeOK, disk, Goto
<1>. DEFINE Fine(p) ==
        Strict /\ req'[p].ctx # NoCtx =>
            /\ at'[p] = "guard" => req'[p].kind # "Start"
            /\ at'[p] = "load" /\ req'[p].kind # "Start" =>
                  /\ store'[req'[p].wf] # Absent
                  /\ store'[req'[p].wf].tenant = req'[p].ctx
            /\ at'[p] \in {"load", "reload"} /\ req'[p].kind = "Start" =>
                  req'[p].tenant = req'[p].ctx
            /\ at'[p] \in {"write", "rename"} => draft'[p].tenant = req'[p].ctx
<1>0. ASSUME NEW p \in Processes, UNCHANGED <<at[p], req[p], draft[p]>>
      PROVE  Fine(p)
  <2>1. at[p] = "load" => req[p].wf \in Workflows
    BY RequestFields
  <2>. QED
    BY <1>0, <2>1, TenantsStay DEF Checked
<1>1. ASSUME NEW p \in Processes, NEW r \in Requests, Call(p, r)
      PROVE  Fine(p)
  BY <1>1 DEF Call, Entrance, MayAccess
<1>2. ASSUME NEW p \in Processes, Guard(p)
      PROVE  Fine(p)
  <2>1. at'[p] = "load" =>
           /\ store[req[p].wf] # Absent
           /\ MayAccess(req[p].ctx, store[req[p].wf].tenant)
    BY <1>2 DEF Guard
  <2>2. at'[p] \in {"load", "err"}
    BY <1>2 DEF Guard
  <2>3. at[p] = "guard" /\ UNCHANGED <<store, req, draft>>
    BY <1>2 DEF Guard
  <2>. QED
    BY <2>1, <2>2, <2>3 DEF MayAccess, Checked
<1>3. ASSUME NEW p \in Processes, LoadForStart(p)
      PROVE  Fine(p)
  BY <1>3 DEF LoadForStart, Checked
<1>4. ASSUME NEW p \in Processes, Reload(p)
      PROVE  Fine(p)
  BY <1>4 DEF Reload, NewWorkflow, Checked, OnlyStartsReload
<1>5. ASSUME NEW p \in Processes, LoadForTransition(p)
      PROVE  Fine(p)
  BY <1>5 DEF LoadForTransition, Moved, Checked
<1>6. ASSUME NEW p \in Processes, Write(p) \/ Rename(p)
      PROVE  Fine(p)
  BY <1>6 DEF Write, Rename, Checked
<1>7. ASSUME NEW p \in Processes,
             Audit(p) \/ AuditError(p) \/ Return(p) \/ Crash(p)
      PROVE  Fine(p)
  BY <1>7 DEF Audit, AuditError, Return, Crash, Leave
<1>8. PICK p \in Processes :
         /\ \/ \E r \in Requests : Call(p, r)
            \/ ServeStep(p) \/ Return(p) \/ Crash(p)
  BY DEF Next
<1>9. \A q \in Processes \ {p} : UNCHANGED <<at[q], req[q], draft[q]>>
  BY <1>8 DEF ServeStep, Call, Guard, LoadForStart, Reload, LoadForTransition,
              Write, Rename, Audit, AuditError, Return, Crash, Leave
<1>10. \A q \in Processes : Fine(q)
  BY <1>0, <1>1, <1>2, <1>3, <1>4, <1>5, <1>6, <1>7, <1>8, <1>9 DEF ServeStep
<1>. QED
  BY <1>10 DEF Checked

\* Through the _as methods only workflows of the caller's tenant are saved.
THEOREM TenantsAreIsolated == ExclusiveSpec => []TenantConfined
<1>1. Init => Checked
  BY DEF Init, Checked
<1>2. Inv /\ Checked /\ [Next /\ Exclusive']_vars => Checked'
  <2>1. ASSUME Checked, UNCHANGED vars PROVE Checked'
    BY <2>1 DEF vars, Checked
  <2>. QED
    BY <2>1, CheckedStep
<1>3. Checked => TenantConfined
  BY DEF Checked, TenantConfined
<1>. QED
  BY <1>1, <1>2, <1>3, Inductive, PTL DEF ExclusiveSpec

-----------------------------------------------------------------------------
(* What an answer tells the caller.                                        *)

Remembers(w, i) == store[w] # Absent /\ i \in store[w].marks

\* A request with an event id that is saved, or answered with ok, is one its
\* workflow remembers.
OkIsRemembered ==
    \A p \in Processes :
        at[p] \in {"append", "ok"} /\ req[p].id # NoId
            => Remembers(req[p].wf, req[p].id)

LEMMA MarksStay ==
    ASSUME Inv, [Next]_vars, NEW w \in Workflows, NEW i, Remembers(w, i)
    PROVE  Remembers(w, i)'
<1>1. CASE UNCHANGED store
  BY <1>1 DEF Remembers
<1>2. CASE \E p \in Processes, v \in Workflows :
              /\ Reaches(req[p], store[v], draft[p])
              /\ draft[p] # Absent
              /\ store' = [store EXCEPT ![v] = draft[p]]
  <2>1. PICK p \in Processes, v \in Workflows :
              /\ Reaches(req[p], store[v], draft[p])
              /\ draft[p] # Absent
              /\ store' = [store EXCEPT ![v] = draft[p]]
    BY <1>2
  <2>2. store[v] # Absent => store[v].marks \subseteq draft[p].marks
    BY <2>1 DEF Reaches, Moved
  <2>. QED
    BY <2>1, <2>2 DEF Remembers, Inv, TypeOK
<1>. QED
  BY <1>1, <1>2, StoreStep DEF vars

LEMMA OneServes ==
    ASSUME Inv, Next
    PROVE  \E p \in Processes :
              /\ \/ \E r \in Requests : Call(p, r)
                 \/ ServeStep(p) \/ Return(p) \/ Crash(p)
              /\ \A q \in Processes \ {p} : at'[q] = at[q] /\ req'[q] = req[q]
  BY DEF Next, ServeStep, Call, Guard, LoadForStart, Reload, LoadForTransition,
         Write, Rename, Audit, AuditError, Return, Crash, Leave, Goto, Inv,
         TypeOK

LEMMA OkStep ==
    ASSUME Inv, OkIsRemembered, Next
    PROVE  OkIsRemembered'
<1>1. PICK p \in Processes :
              /\ \/ \E r \in Requests : Call(p, r)
                 \/ ServeStep(p) \/ Return(p) \/ Crash(p)
              /\ \A q \in Processes \ {p} : at'[q] = at[q] /\ req'[q] = req[q]
  BY OneServes
<1>2. ASSUME NEW q \in Processes, at[q] \in {"append", "ok"}, req[q].id # NoId
      PROVE  Remembers(req[q].wf, req[q].id)'
                \/ req'[q] # req[q]
  <2>1. req[q].wf \in Workflows /\ Remembers(req[q].wf, req[q].id)
    BY <1>2, RequestFields DEF Inv, TypeOK, OkIsRemembered
  <2>2. ASSUME req'[q] = req[q]
        PROVE  Remembers(req[q].wf, req[q].id)'
    BY <2>1, <2>2, MarksStay DEF Remembers
  <2>. QED
    BY <2>2
<1>3. ASSUME at'[p] \in {"append", "ok"}, req'[p].id # NoId
      PROVE  Remembers(req[p].wf, req[p].id)'
  <2>. USE DEF Goto, Leave
  <2>1. CASE \E r \in Requests : Call(p, r)
    BY <1>3, <2>1, EntranceIsPoint DEF Call, Inv, TypeOK
  <2>2. CASE Return(p) \/ Crash(p)
    BY <1>3, <2>2 DEF Return, Crash, Inv, TypeOK
  <2>3. CASE Guard(p) \/ Reload(p) \/ Write(p) \/ AuditError(p)
    BY <1>3, <2>3 DEF Guard, Reload, Write, AuditError, Inv, TypeOK
  <2>4. CASE LoadForStart(p) \/ LoadForTransition(p)
    <3>1. at'[p] = "ok" /\ Processed(store[req[p].wf], req[p].id)
      BY <1>3, <2>4 DEF LoadForStart, LoadForTransition, Inv, TypeOK
    <3>. QED
      BY <2>4, <3>1
         DEF LoadForStart, LoadForTransition, Processed, Remembers, disk
  <2>5. CASE Rename(p)
    <3>1. PICK w \in Workflows :
             /\ w = req[p].wf
             /\ Reaches(req[p], store[w], draft[p])
             /\ draft[p] # Absent
             /\ store' = [store EXCEPT ![w] = draft[p]]
             /\ req' = req
      <4>1. PICK w \in Workflows : w = req[p].wf
        BY <2>5, RequestFields DEF Rename, Inv, TypeOK
      <4>2. tmp[w] = draft[p] /\ Reaches(req[p], store[w], draft[p])
        BY <2>5, <4>1 DEF Rename, Inv, TmpIsDraft, DraftsAreCurrent
      <4>3. draft[p] # Absent
        BY <4>2, EngineAssumption DEF Reaches, EngineAssumption
      <4>. QED
        BY <2>5, <4>1, <4>2, <4>3 DEF Rename
    <3>2. req[p].id \in draft[p].marks
      BY <1>3, <3>1 DEF Reaches, NewWorkflow, Moved, L!MarkOf
    <3>. QED
      BY <3>1, <3>2 DEF Remembers, Inv, TypeOK
  <2>6. CASE Audit(p)
    BY <1>2, <1>3, <2>6 DEF Audit
  <2>. QED
    BY <1>1, <2>1, <2>2, <2>3, <2>4, <2>5, <2>6 DEF ServeStep
<1>4. at'[p] \in {"append", "ok"} => req'[p] = req[p]
  BY <1>1, EntranceIsPoint
     DEF ServeStep, Call, Guard, LoadForStart, Reload, LoadForTransition,
         Write, Rename, Audit, AuditError, Return, Crash, Leave, Goto, Inv,
         TypeOK
<1>5. ASSUME NEW q \in Processes, (at[q] \in {"append", "ok"})', req'[q].id # NoId
      PROVE  Remembers(req[q].wf, req[q].id)' /\ req'[q] = req[q]
  BY <1>1, <1>2, <1>3, <1>4, <1>5
<1>. QED
  BY <1>5 DEF OkIsRemembered, Remembers

\* A caller that is told ok finds the event in the marks of its workflow.
THEOREM AnswersAreRemembered == ExclusiveSpec => []OkIsRemembered
<1>1. Init => OkIsRemembered
  BY DEF Init, OkIsRemembered
<1>2. Inv /\ OkIsRemembered /\ [Next /\ Exclusive']_vars => OkIsRemembered'
  <2>1. ASSUME OkIsRemembered, UNCHANGED vars PROVE OkIsRemembered'
    BY <2>1 DEF vars, OkIsRemembered, Remembers
  <2>. QED
    BY <2>1, OkStep
<1>. QED
  BY <1>1, <1>2, Inductive, PTL DEF ExclusiveSpec

\* With a single process, an event whose request fails was not processed.
Alone == \A p, q \in Processes : p = q

RefusedIsNew ==
    \A p \in Processes :
        at[p] = "err" /\ req[p].id # NoId /\ req[p].ctx = NoCtx
            => ~Remembers(req[p].wf, req[p].id)

\* Nobody else can store the workflow that is about to be started, and only
\* requests with a context are guarded.
NewIsAbsent ==
    \A p \in Processes :
        /\ at[p] = "reload" /\ req[p].id # NoId => store[req[p].wf] = Absent
        /\ at[p] = "guard" => req[p].ctx # NoCtx

LEMMA RefusedStep ==
    ASSUME Alone, ~AuditFails, Inv, RefusedIsNew, NewIsAbsent, Next
    PROVE  RefusedIsNew' /\ NewIsAbsent'
<1>. USE DEF Goto, Leave, disk
<1>1. PICK p \in Processes :
              \/ \E r \in Requests : Call(p, r)
              \/ ServeStep(p) \/ Return(p) \/ Crash(p)
  BY DEF Next
<1>2. Processes = {p}
  BY DEF Alone
<1>. DEFINE New == /\ at'[p] = "err" /\ req'[p].id # NoId /\ req'[p].ctx = NoCtx
                         => ~Remembers(req[p].wf, req[p].id)'
                   /\ at'[p] = "reload" /\ req'[p].id # NoId
                         => store'[req'[p].wf] = Absent
                   /\ at'[p] = "guard" => req'[p].ctx # NoCtx
<1>3. CASE \E r \in Requests : Call(p, r)
  <2>1. PICK r \in Requests : Call(p, r)
    BY <1>3
  <2>2. at'[p] = Entrance(r) /\ req'[p] = r
    BY <2>1 DEF Call, Inv, TypeOK
  <2>3. New
    BY <2>2 DEF Entrance, MayAccess
  <2>. QED
    BY <1>2, <2>3 DEF RefusedIsNew, NewIsAbsent
<1>4. CASE Return(p) \/ Crash(p)
  <2>1. at'[p] = "ready"
    BY <1>4 DEF Return, Crash, Inv, TypeOK
  <2>. QED
    BY <1>2, <2>1 DEF RefusedIsNew, NewIsAbsent
<1>5. CASE Guard(p)
  <2>1. at'[p] \in {"load", "err"} /\ req' = req /\ req[p].ctx # NoCtx
    BY <1>5 DEF Guard, Inv, TypeOK, NewIsAbsent
  <2>. QED
    BY <1>2, <2>1 DEF RefusedIsNew, NewIsAbsent
<1>6. CASE LoadForStart(p)
  <2>1. New
    BY <1>6 DEF LoadForStart, Processed, Remembers, Inv, TypeOK
  <2>. QED
    BY <1>2, <2>1 DEF RefusedIsNew, NewIsAbsent
<1>7. CASE Reload(p)
  <2>1. New
    BY <1>7 DEF Reload, NewIsAbsent, Inv, TypeOK
  <2>. QED
    BY <1>2, <2>1 DEF RefusedIsNew, NewIsAbsent
<1>8. CASE LoadForTransition(p)
  <2>1. New
    BY <1>8 DEF LoadForTransition, Refused, Processed, Remembers, Inv, TypeOK
  <2>. QED
    BY <1>2, <2>1 DEF RefusedIsNew, NewIsAbsent
<1>9. CASE Write(p) \/ Audit(p) \/ AuditError(p)
  <2>1. at'[p] \in {"rename", "ok"}
    BY <1>9 DEF Write, Audit, AuditError, Inv, TypeOK
  <2>. QED
    BY <1>2, <2>1 DEF RefusedIsNew, NewIsAbsent
<1>10. CASE Rename(p)
  <2>1. tmp[req[p].wf] = draft[p] /\ draft[p] \in L!WorkflowState
    BY <1>10 DEF Rename, Inv, TmpIsDraft, TypeOK
  <2>2. at'[p] = "append"
    BY <1>10, <2>1, EngineAssumption DEF Rename, EngineAssumption, Inv, TypeOK
  <2>. QED
    BY <1>2, <2>2 DEF RefusedIsNew, NewIsAbsent
<1>. QED
  BY <1>1, <1>3, <1>4, <1>5, <1>6, <1>7, <1>8, <1>9, <1>10 DEF ServeStep

\* A single process whose audit log can be written is told of an error only
\* when its workflow has not yet seen the event.
THEOREM RefusalsAreNew ==
    ASSUME Alone, ~AuditFails
    PROVE  ExclusiveSpec => []RefusedIsNew
<1>1. Init => RefusedIsNew /\ NewIsAbsent
  BY DEF Init, RefusedIsNew, NewIsAbsent
<1>2. Inv /\ RefusedIsNew /\ NewIsAbsent /\ [Next /\ Exclusive']_vars
        => RefusedIsNew' /\ NewIsAbsent'
  <2>1. ASSUME RefusedIsNew, NewIsAbsent, UNCHANGED vars
        PROVE  RefusedIsNew' /\ NewIsAbsent'
    BY <2>1 DEF vars, RefusedIsNew, NewIsAbsent, Remembers
  <2>. QED
    BY <2>1, RefusedStep
<1>. QED
  BY <1>1, <1>2, Inductive, PTL DEF ExclusiveSpec

-----------------------------------------------------------------------------
(* What follows from the atomic transitions of the lifecycle: the audit    *)
(* log, with the line a process is about to write, is the history of the   *)
(* workflows.                                                              *)

LEMMA LifecycleAssumed == Lifecycle!LifecycleAssumption
  BY EngineAssumption
     DEF Lifecycle!LifecycleAssumption, Lifecycle!WorkflowState, Lifecycle!Statuses,
         L!WorkflowState, L!Statuses

\* Every audited event is marked in the workflow it belongs to: what makes a
\* second delivery recognisable.
TrailIsMarked ==
    \A w \in Workflows : \A i \in DOMAIN Trail[w] :
        Trail[w][i].id # NoId =>
            store[w] # Absent /\ Trail[w][i].id \in store[w].marks

TrailInv ==
    /\ Lifecycle!TypeOK
    /\ TrailIsMarked
    /\ Lifecycle!OneEntryPerEvent
    /\ Lifecycle!TrailReplays

\* The two kinds of step have the same shape: workflow w gets a state with
\* the target's status whose marks keep the old ones and add the event, and
\* one entry.
TrailStep(w, kind, id) ==
    /\ w \in Workflows
    /\ kind \in Lifecycle!Kinds
    /\ id \in EventIds \cup {NoId}
    /\ \E s \in Lifecycle!WorkflowState :
          /\ s.status = Lifecycle!Target(kind)
          /\ Lifecycle!MarkOf(id) \subseteq s.marks
          /\ store[w] # Absent => store[w].marks \subseteq s.marks
          /\ store' = [store EXCEPT ![w] = s]
    /\ store[w] # Absent =>
          /\ id \notin store[w].marks
          /\ Lifecycle!Allowed(store[w].status, Lifecycle!Target(kind))
    /\ Lifecycle!Record(w, kind, id)

LEMMA TargetOfTrail ==
    ASSUME NEW kind \in Lifecycle!Kinds
    PROVE  Lifecycle!Target(kind) \in Lifecycle!Statuses
  BY DEF Lifecycle!Kinds, Lifecycle!Statuses, Lifecycle!Target

\* Start and Transition are such steps.
LEMMA NextIsTrailStep ==
    ASSUME Lifecycle!LifecycleAssumption, Lifecycle!TypeOK, Lifecycle!Next
    PROVE  \E w \in Workflows, kind \in Lifecycle!Kinds, id \in EventIds \cup {NoId} :
               TrailStep(w, kind, id)
<1>1. ASSUME NEW w \in Workflows, NEW id \in EventIds \cup {NoId},
             NEW t \in Tenants, Lifecycle!Start(w, id, t)
      PROVE  TrailStep(w, "Start", id)
  <2>. DEFINE s == [status |-> "Running", marks |-> Lifecycle!MarkOf(id), tenant |-> t]
  <2>1. "Start" \in Lifecycle!Kinds /\ Lifecycle!Target("Start") = "Running"
    BY DEF Lifecycle!Kinds, Lifecycle!Target
  <2>2. s \in Lifecycle!WorkflowState
    BY DEF Lifecycle!WorkflowState, Lifecycle!Statuses, Lifecycle!MarkOf
  <2>3. store[w] = Absent
    BY <1>1 DEF Lifecycle!Start
  <2>. QED
    BY <1>1, <2>1, <2>2, <2>3 DEF Lifecycle!Start, TrailStep
<1>2. ASSUME NEW w \in Workflows, NEW id \in EventIds \cup {NoId},
             NEW kind \in Lifecycle!Kinds \ {"Start"}, Lifecycle!Transition(w, kind, id)
      PROVE  TrailStep(w, kind, id)
  <2>. DEFINE s == [status |-> Lifecycle!Target(kind),
                    marks |-> store[w].marks \cup Lifecycle!MarkOf(id),
                    tenant |-> store[w].tenant]
  <2>1. store[w] \in Lifecycle!WorkflowState
    BY <1>2 DEF Lifecycle!Transition, Lifecycle!TypeOK
  <2>2. s \in Lifecycle!WorkflowState
    BY <2>1, TargetOfTrail DEF Lifecycle!WorkflowState, Lifecycle!MarkOf
  <2>. QED
    BY <1>2, <2>1, <2>2 DEF Lifecycle!Transition, TrailStep
<1>. QED
  BY <1>1, <1>2 DEF Lifecycle!Next, Lifecycle!Kinds

LEMMA TrailStepKeepsType ==
    ASSUME Lifecycle!TypeOK, NEW w, NEW kind, NEW id, TrailStep(w, kind, id)
    PROVE  Lifecycle!TypeOK'
<1>1. [kind |-> kind, id |-> id] \in Lifecycle!Entry
  BY DEF TrailStep, Lifecycle!Entry
<1>2. Trail' \in [Workflows -> Seq(Lifecycle!Entry)]
  BY <1>1 DEF Lifecycle!TypeOK, TrailStep, Lifecycle!Record
<1>3. store' \in [Workflows -> Lifecycle!WorkflowState \cup {Absent}]
  BY DEF Lifecycle!TypeOK, TrailStep
<1>. QED
  BY <1>2, <1>3 DEF Lifecycle!TypeOK

\* The trail of the workflow a step touches: one entry longer, and otherwise
\* the old one.
LEMMA TrailStepAppends ==
    ASSUME Lifecycle!TypeOK, NEW w, NEW kind, NEW id, TrailStep(w, kind, id)
    PROVE  /\ Len(Trail[w]) \in Nat
           /\ Len(Trail'[w]) = Len(Trail[w]) + 1
           /\ DOMAIN Trail[w] = 1 .. Len(Trail[w])
           /\ DOMAIN Trail'[w] = 1 .. Len(Trail[w]) + 1
           /\ \A i \in DOMAIN Trail[w] : Trail'[w][i] = Trail[w][i]
           /\ Trail'[w][Len(Trail[w]) + 1].kind = kind
           /\ Trail'[w][Len(Trail[w]) + 1].id = id
           /\ \A v \in Workflows \ {w} :
                 Trail'[v] = Trail[v] /\ store'[v] = store[v]
<1>1. Trail[w] \in Seq(Lifecycle!Entry)
  BY DEF Lifecycle!TypeOK, TrailStep
<1>2. [kind |-> kind, id |-> id] \in Lifecycle!Entry
  BY DEF TrailStep, Lifecycle!Entry
<1>3. Trail'[w] = Append(Trail[w], [kind |-> kind, id |-> id])
  BY DEF Lifecycle!TypeOK, TrailStep, Lifecycle!Record
<1>4. \A v \in Workflows \ {w} : Trail'[v] = Trail[v] /\ store'[v] = store[v]
  BY DEF Lifecycle!TypeOK, TrailStep, Lifecycle!Record
<1>. QED
  BY <1>1, <1>2, <1>3, <1>4

LEMMA TrailStepKeepsMarks ==
    ASSUME Lifecycle!LifecycleAssumption, Lifecycle!TypeOK, TrailIsMarked,
           Lifecycle!OneEntryPerEvent, NEW w, NEW kind, NEW id, TrailStep(w, kind, id)
    PROVE  TrailIsMarked' /\ Lifecycle!OneEntryPerEvent'
<1>. DEFINE n == Len(Trail[w])
<1>. w \in Workflows
  BY DEF TrailStep
<1>1. PICK s \in Lifecycle!WorkflowState :
         /\ Lifecycle!MarkOf(id) \subseteq s.marks
         /\ store[w] # Absent => store[w].marks \subseteq s.marks
         /\ store' = [store EXCEPT ![w] = s]
  BY DEF TrailStep
<1>2. store'[w] = s /\ s # Absent
  BY <1>1 DEF Lifecycle!TypeOK, Lifecycle!LifecycleAssumption
<1>3. id # NoId => id \in s.marks
  BY <1>1 DEF Lifecycle!MarkOf
<1>4. \* No older entry has this event's id.
      \A i \in 1 .. n : id # NoId => Trail[w][i].id # id
  BY TrailStepAppends DEF TrailIsMarked, TrailStep
<1>5. \A i \in 1 .. n : Trail[w][i].id # NoId => Trail[w][i].id \in s.marks
  BY <1>1, TrailStepAppends DEF TrailIsMarked
<1>6. TrailIsMarked'
  <2>1. ASSUME NEW i \in DOMAIN Trail'[w], Trail'[w][i].id # NoId
        PROVE  Trail'[w][i].id \in s.marks
    BY <2>1, <1>3, <1>5, TrailStepAppends
  <2>. QED
    BY <2>1, <1>2, TrailStepAppends DEF TrailIsMarked
<1>7. Lifecycle!OneEntryPerEvent'
  <2>1. ASSUME NEW i \in DOMAIN Trail'[w], NEW j \in DOMAIN Trail'[w],
               Trail'[w][i].id = Trail'[w][j].id, Trail'[w][i].id # NoId
        PROVE  i = j
    <3>1. CASE i \in 1 .. n /\ j \in 1 .. n
      BY <3>1, <2>1, TrailStepAppends DEF Lifecycle!OneEntryPerEvent
    <3>2. /\ i \in 1 .. n \/ i = n + 1
          /\ j \in 1 .. n \/ j = n + 1
          /\ \A k \in 1 .. n : Trail'[w][k] = Trail[w][k]
          /\ Trail'[w][n + 1].id = id
      BY TrailStepAppends
    <3>. HIDE DEF n
    <3>3. CASE i = n + 1 \/ j = n + 1
      BY <1>4, <2>1, <3>2, <3>3
    <3>. QED
      BY <3>1, <3>2, <3>3
  <2>. QED
    BY <2>1, TrailStepAppends DEF Lifecycle!OneEntryPerEvent
<1>. QED
  BY <1>6, <1>7

LEMMA TrailStepKeepsTrail ==
    ASSUME Lifecycle!LifecycleAssumption, Lifecycle!TypeOK, Lifecycle!TrailReplays,
           NEW w, NEW kind, NEW id, TrailStep(w, kind, id)
    PROVE  Lifecycle!TrailReplays'
<1>. DEFINE n == Len(Trail[w])
<1>. w \in Workflows /\ n \in Nat
  BY TrailStepAppends DEF TrailStep
<1>1. store'[w] # Absent /\ store'[w].status = Lifecycle!Target(kind)
  BY DEF TrailStep, Lifecycle!TypeOK, Lifecycle!LifecycleAssumption
<1>2. \A i \in 1 .. n :
         Lifecycle!Allowed(Lifecycle!Target(Trail'[w][i].kind),
                           Lifecycle!Target(Trail'[w][i + 1].kind))
  <2>1. SUFFICES ASSUME NEW i \in 1 .. n
                 PROVE  Lifecycle!Allowed(Lifecycle!Target(Trail'[w][i].kind),
                                Lifecycle!Target(Trail'[w][i + 1].kind))
    OBVIOUS
  <2>2. CASE i < n
    <3>1. i \in 1 .. n - 1 /\ i + 1 \in 1 .. n
      BY <2>2
    <3>2. Lifecycle!Allowed(Lifecycle!Target(Trail[w][i].kind),
                            Lifecycle!Target(Trail[w][i + 1].kind))
      BY <3>1 DEF Lifecycle!TrailReplays
    <3>. QED
      BY <3>1, <3>2, TrailStepAppends
  <2>3. CASE i = n
    <3>1. store[w] # Absent /\ store[w].status = Lifecycle!Target(Trail[w][n].kind)
      BY <2>3 DEF Lifecycle!TrailReplays
    <3>2. Lifecycle!Allowed(store[w].status, Lifecycle!Target(kind))
      BY <3>1 DEF TrailStep
    <3>. QED
      BY <2>3, <3>1, <3>2, TrailStepAppends
  <2>. QED
    BY <2>2, <2>3
<1>3. Len(Trail'[w]) = n + 1 /\ Trail'[w][n + 1].kind = kind
  BY TrailStepAppends
<1>4. \A v \in Workflows \ {w} : Trail'[v] = Trail[v] /\ store'[v] = store[v]
  BY TrailStepAppends
<1>. HIDE DEF n
<1>5. SUFFICES ASSUME NEW v \in Workflows
               PROVE  LET m == Len(Trail'[v]) IN
                      /\ \A i \in 1 .. m - 1 :
                            Lifecycle!Allowed(Lifecycle!Target(Trail'[v][i].kind),
                                    Lifecycle!Target(Trail'[v][i + 1].kind))
                      /\ m = 0 => store'[v] = Seed[v]
                      /\ m > 0 => /\ store'[v] # Absent
                                  /\ store'[v].status
                                        = Lifecycle!Target(Trail'[v][m].kind)
  BY DEF Lifecycle!TrailReplays
<1>6. CASE v = w
  <2>1. (n + 1) - 1 = n /\ n + 1 > 0 /\ n + 1 # 0
    OBVIOUS
  <2>. QED
    BY <1>1, <1>2, <1>3, <1>6, <2>1
<1>7. CASE v # w
  BY <1>4, <1>7 DEF Lifecycle!TrailReplays
<1>. QED
  BY <1>6, <1>7

LEMMA TrailInductive == Lifecycle!Spec => []TrailInv
<1>1. Lifecycle!Init => TrailInv
  <2>1. ASSUME Lifecycle!Init
        PROVE  /\ store = Seed
               /\ \A w \in Workflows : Trail[w] = << >>
               /\ Trail \in [Workflows -> Seq(Lifecycle!Entry)]
    BY <2>1 DEF Lifecycle!Init
  <2>. QED
    BY <2>1, LifecycleAssumed
       DEF Lifecycle!LifecycleAssumption, TrailInv, Lifecycle!TypeOK, TrailIsMarked,
           Lifecycle!OneEntryPerEvent, Lifecycle!TrailReplays
<1>2. TrailInv /\ [Lifecycle!Next]_(Lifecycle!vars) => TrailInv'
  <2>1. ASSUME TrailInv, Lifecycle!Next PROVE TrailInv'
    <3>1. PICK w \in Workflows, kind \in Lifecycle!Kinds, id \in EventIds \cup {NoId} :
             TrailStep(w, kind, id)
      BY <2>1, LifecycleAssumed, NextIsTrailStep DEF TrailInv
    <3>. QED
      BY <2>1, <3>1, LifecycleAssumed, TrailStepKeepsType, TrailStepKeepsMarks,
         TrailStepKeepsTrail DEF TrailInv
  <2>2. ASSUME TrailInv, UNCHANGED Lifecycle!vars PROVE TrailInv'
    BY <2>2 DEF Lifecycle!vars, TrailInv, Lifecycle!TypeOK, TrailIsMarked,
                Lifecycle!OneEntryPerEvent, Lifecycle!TrailReplays
  <2>. QED
    BY <2>1, <2>2
<1>. QED
  BY <1>1, <1>2, PTL DEF Lifecycle!Spec

\* In the atomic lifecycle an event leaves at most one entry in the trail, and
\* the trail is a permitted path from the seed to the stored status
\* (start_workflow_for_event and transition_workflow_for_event return early on
\* a mark; validate_transition refuses the rest).
THEOREM TrailIsHistory ==
    Lifecycle!Spec => [](Lifecycle!OneEntryPerEvent /\ Lifecycle!TrailReplays)
<1>1. TrailInv => Lifecycle!OneEntryPerEvent /\ Lifecycle!TrailReplays
  BY DEF TrailInv
<1>. QED
  BY <1>1, TrailInductive, PTL

\* So the audit log of the engine, whose saves and audit lines are separate
\* system calls, replays to the stored status of every workflow, for as long as
\* one process at a time serves a workflow and the log can be written.
THEOREM AuditReplays ==
    ASSUME ~AuditFails, "append" \notin CrashPoints
    PROVE  ExclusiveSpec => []TrailReplays
<1>1. Lifecycle!TrailReplays => TrailReplays
  BY DEF TrailReplays
<1>. QED
  BY <1>1, EngineImplementsLifecycle, TrailIsHistory, PTL DEF ImplementsLifecycle
=============================================================================
