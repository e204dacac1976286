---------------------------- MODULE WorkersProofs ----------------------------
(***************************************************************************)
(* Proofs about the workers at one queue directory, in the executions that *)
(* MCWorkers puts together.  What DurableWorkersProofs shows of any        *)
(* workers holds of the two kinds of leased workers here, for nothing else *)
(* moves in their executions; and any number of events of workers that     *)
(* drain without leases are handed over as PlainDrain says.                *)
(***************************************************************************)
EXTENDS MCWorkers, TLAPS

partsVars == <<mode, vars, leased, plain>>

IsRestarted == mode = "restarted"
IsSharded == mode = "sharded"

-----------------------------------------------------------------------------
(* The leased workers.                                                     *)

LEMMA ModeIsKept ==
  ASSUME [PartsNext]_partsVars
  PROVE  /\ IsRestarted' <=> IsRestarted
         /\ IsSharded' <=> IsSharded
  BY DEF PartsNext, partsVars, IsRestarted, IsSharded

LEMMA RestartedSteps ==
  ASSUME IsRestarted, [PartsNext]_partsVars
  PROVE  [Restarted!Next]_(Restarted!vars)
<1>1. CASE UNCHANGED partsVars
  BY <1>1 DEF partsVars, leased, Restarted!vars, Restarted!queueVars, Restarted!engineVars
<1>2. CASE PartsNext
  BY <1>2 DEF PartsNext, IsRestarted
<1> QED
  BY <1>1, <1>2

LEMMA ShardedSteps ==
  ASSUME IsSharded, [PartsNext]_partsVars
  PROVE  [Sharded!Next /\ Sharded!Timely']_(Sharded!vars)
<1>1. CASE UNCHANGED partsVars
  BY <1>1 DEF partsVars, leased, Sharded!vars, Sharded!queueVars, Sharded!engineVars
<1>2. CASE PartsNext
  BY <1>2 DEF PartsNext, IsSharded
<1> QED
  BY <1>1, <1>2

LEMMA RestartedIsSpec == PartsSpec /\ IsRestarted => []IsRestarted /\ Restarted!Spec
<1>1. PartsInit /\ IsRestarted => Restarted!Init
  BY DEF PartsInit, IsRestarted
<1> QED
  BY <1>1, ModeIsKept, RestartedSteps, PTL DEF PartsSpec, Restarted!Spec, partsVars

LEMMA ShardedIsSpec == PartsSpec /\ IsSharded => []IsSharded /\ Sharded!TimelySpec
<1>1. PartsInit /\ IsSharded => Sharded!Init
  BY DEF PartsInit, IsSharded
<1> QED
  BY <1>1, ModeIsKept, ShardedSteps, PTL DEF PartsSpec, Sharded!TimelySpec, partsVars

LEMMA OthersStay ==
  PartsSpec => /\ ~IsRestarted => []~IsRestarted
               /\ ~IsSharded => []~IsSharded
  BY ModeIsKept, PTL DEF PartsSpec, partsVars

\* WorkflowWorker::drain_leased (worker.rs): a worker that is killed, wherever
\* it stands, and run again acknowledges no event that its workflow does not
\* remember, and an event has at most one line in the audit log.
THEOREM RestartedWorkersAreSafe == PartsSpec => []RestartsAreSafe
<1>1. Restarted!Spec => [](Restarted!AckedIsMarked /\ Restarted!OneEntryPerEvent)
  BY WorkersAssumption, Restarted!RestartsAreSafe
<1>2. ~IsRestarted \/ (Restarted!AckedIsMarked /\ Restarted!OneEntryPerEvent)
         => RestartsAreSafe
  BY DEF RestartsAreSafe, IsRestarted
<1> QED
  BY <1>1, <1>2, RestartedIsSpec, OthersStay, PTL

\* A worker that is run again never counts a failure against an event that its
\* workflow has processed: attempts are used up by kills only.
THEOREM ProcessedIsNeverFailed == PartsSpec => []AppliedNeverFails
<1>1. Restarted!Spec => []Restarted!AppliedNeverFails
  BY WorkersAssumption, Restarted!ProcessedIsNoFailure
<1>2. ~IsRestarted \/ Restarted!AppliedNeverFails => AppliedNeverFails
  BY DEF AppliedNeverFails, IsRestarted
<1> QED
  BY <1>1, <1>2, RestartedIsSpec, OthersStay, PTL

\* Workers that drain events of different workflows never serve one workflow
\* at a time, whatever they claim and in whichever order.
THEOREM ShardedWorkersNeverMeet == PartsSpec => []NeverMeet
<1>1. Sharded!TimelySpec => []Sharded!NeverMeet
  BY WorkersAssumption, Sharded!ShardsNeverMeet
<1>2. ~IsSharded \/ Sharded!NeverMeet => NeverMeet
  BY DEF NeverMeet, IsSharded
<1> QED
  BY <1>1, <1>2, ShardedIsSpec, OthersStay, PTL

-----------------------------------------------------------------------------
(* The workers without leases: the invariant.                              *)

Queued == files \cup drafts

\* A worker that has read no event yet, but has chosen its file.
Choosing(w) == stands[w] \in {"listed", "read"}

DrainTypes ==
    /\ files \subseteq Plain!File
    /\ drafts \subseteq Plain!File
    /\ prefix \in Nat
    /\ stands \in [Drainers -> {"idle", "listed", "read", "apply"}]
    /\ looksAt \in [Drainers -> Plain!File \cup {NoFile}]
    /\ \A w \in Drainers : stands[w] # "idle" => looksAt[w] \in Plain!File
    /\ handed \in [Drained -> Nat]
    /\ enqueued \subseteq Drained
    /\ before \in [Drained -> SUBSET Drained]

\* An event has at most one file, its prefix is drawn once, and the event was
\* not handed over.
FilesAreNew ==
    /\ files \cap drafts = {}
    /\ \A f \in Queued :
          f.prefix <= prefix /\ f.event \in enqueued /\ handed[f.event] = 0
    /\ \A f, g \in Queued : f.event = g.event \/ f.prefix = g.prefix => f = g
    /\ \A e \in Drained : handed[e] <= 1 /\ (handed[e] > 0 => e \in enqueued)

\* The file that a worker chose had its name, and will not get it again.
ChosenWereQueued ==
    \A w \in Drainers :
        Choosing(w) => looksAt[w] \notin drafts /\ looksAt[w].event \in enqueued

\* What was in the queue when an event came was handed over or stands in the
\* queue in front of it, and is handed over when a worker chooses its file.
EarlierInFront ==
    /\ \A f \in Queued : \A d \in before[f.event] :
          handed[d] > 0 \/ \E g \in files : g.event = d /\ g.prefix < f.prefix
    /\ \A w \in Drainers : Choosing(w) /\ looksAt[w] \in files =>
          \A d \in before[looksAt[w].event] : handed[d] > 0

DrainInv ==
    /\ DrainTypes
    /\ FilesAreNew
    /\ ChosenWereQueued
    /\ EarlierInFront
    /\ Plain!HandedInOrder
    /\ Plain!LostOnlyByKill

-----------------------------------------------------------------------------
(* Each step keeps it.                                                     *)

LEMMA FileFields ==
  ASSUME NEW f \in Plain!File
  PROVE  f.prefix \in Nat /\ f.event \in Drained
  BY DEF Plain!File

LEMMA GotoIs ==
  ASSUME DrainTypes, NEW w \in Drainers, NEW to, NEW f, Plain!Goto(w, to, f)
  PROVE  /\ stands'[w] = to /\ looksAt'[w] = f
         /\ \A v \in Drainers : v # w => stands'[v] = stands[v] /\ looksAt'[v] = looksAt[v]
  BY DEF DrainTypes, Plain!Goto

\* A step of one worker that leaves the queue and the engine as they are.
LEMMA WorkerMoves ==
  ASSUME DrainInv, NEW w \in Drainers,
         UNCHANGED <<files, drafts, prefix, handed, enqueued, before>>,
         NEW to \in {"idle", "listed", "read", "apply"},
         NEW f \in Plain!File \cup {NoFile}, Plain!Goto(w, to, f),
         to # "idle" => f \in Plain!File,
         to \in {"listed", "read"} =>
            /\ f \notin drafts /\ f.event \in enqueued
            /\ f \in files => \A d \in before[f.event] : handed[d] > 0
  PROVE  /\ DrainTypes' /\ FilesAreNew' /\ ChosenWereQueued' /\ EarlierInFront'
         /\ Plain!HandedInOrder'
<1>1. DrainTypes
  BY DEF DrainInv
<1>2. /\ stands'[w] = to /\ looksAt'[w] = f
      /\ \A v \in Drainers : v # w => stands'[v] = stands[v] /\ looksAt'[v] = looksAt[v]
  BY <1>1, GotoIs
<1>3. DrainTypes'
  <2>1. /\ stands' \in [Drainers -> {"idle", "listed", "read", "apply"}]
        /\ looksAt' \in [Drainers -> Plain!File \cup {NoFile}]
    BY <1>1 DEF DrainTypes, Plain!Goto
  <2> QED
    BY <1>1, <1>2, <2>1 DEF DrainTypes
<1>4. FilesAreNew'
  BY DEF DrainInv, FilesAreNew, Queued
<1>5. ChosenWereQueued'
  BY <1>2 DEF DrainInv, ChosenWereQueued, Choosing
<1>6. EarlierInFront'
  BY <1>2 DEF DrainInv, EarlierInFront, Choosing, Queued
<1>7. Plain!HandedInOrder'
  BY DEF DrainInv, Plain!HandedInOrder
<1> QED
  BY <1>3, <1>4, <1>5, <1>6, <1>7

LEMMA DraftKeeps ==
  ASSUME DrainInv, NEW e \in Drained, Plain!Draft(e)
  PROVE  DrainInv'
<1> DEFINE f == [prefix |-> prefix + 1, event |-> e]
<1>1. /\ e \notin enqueued /\ enqueued' = enqueued \cup {e} /\ prefix' = prefix + 1
      /\ drafts' = drafts \cup {f}
      /\ before' = [before EXCEPT ![e] = Plain!Enqueued]
      /\ UNCHANGED <<files, stands, looksAt, handed, done, refused, killed>>
  BY DEF Plain!Draft, Plain!engine
<1>2. DrainTypes
  BY DEF DrainInv
<1>3. /\ prefix \in Nat /\ f \in Plain!File /\ f.prefix = prefix + 1 /\ f.event = e
      /\ Queued' = Queued \cup {f}
      /\ \A g \in Queued : g.prefix \in Nat
  BY <1>1, <1>2 DEF DrainTypes, Plain!File, Queued
<1>4. Plain!Enqueued \subseteq Drained /\ \A d \in Plain!Enqueued : \E g \in files : g.event = d
  BY <1>2 DEF DrainTypes, Plain!File, Plain!Enqueued
<1>5. /\ before'[e] = Plain!Enqueued
      /\ \A d \in Drained : d # e => before'[d] = before[d]
  BY <1>1, <1>2 DEF DrainTypes
<1>6. \A g \in Queued : g.event # e /\ g.prefix <= prefix /\ g.prefix < f.prefix /\ g # f
  BY <1>1, <1>3 DEF DrainInv, FilesAreNew
<1> HIDE DEF f
<1>7. DrainTypes'
  <2>1. before' \in [Drained -> SUBSET Drained]
    BY <1>1, <1>2, <1>4 DEF DrainTypes
  <2> QED
    BY <1>1, <1>2, <1>3, <2>1 DEF DrainTypes
<1>8. FilesAreNew'
  <2>1. handed[e] = 0
    BY <1>1, <1>2 DEF DrainInv, FilesAreNew, DrainTypes
  <2>2. files' \cap drafts' = {}
    BY <1>1, <1>6 DEF DrainInv, FilesAreNew, Queued
  <2>3. \A g \in Queued' :
          g.prefix <= prefix' /\ g.event \in enqueued' /\ handed'[g.event] = 0
    BY <1>1, <1>3, <2>1 DEF DrainInv, FilesAreNew
  <2>4. \A g, h \in Queued' : g.event = h.event \/ g.prefix = h.prefix => g = h
    BY <1>3, <1>6 DEF DrainInv, FilesAreNew
  <2> QED
    BY <1>1, <2>2, <2>3, <2>4 DEF DrainInv, FilesAreNew
<1>9. ChosenWereQueued'
  BY <1>1, <1>3 DEF DrainInv, ChosenWereQueued, Choosing
<1>10. EarlierInFront'
  <2>1. \A g \in Queued : g.event \in Drained
    BY <1>2 DEF DrainTypes, Queued, Plain!File
  <2>2. \A g \in Queued' : \A d \in before'[g.event] :
          handed[d] > 0 \/ \E h \in files : h.event = d /\ h.prefix < g.prefix
    <3>1. \A g \in Queued : \A d \in before'[g.event] :
            handed[d] > 0 \/ \E h \in files : h.event = d /\ h.prefix < g.prefix
      BY <1>5, <1>6, <2>1 DEF DrainInv, EarlierInFront
    <3>2. \A d \in before'[e] : \E h \in files : h.event = d /\ h.prefix < f.prefix
      BY <1>4, <1>5, <1>6 DEF Queued
    <3> QED
      BY <1>3, <3>1, <3>2
  <2>3. ASSUME NEW w \in Drainers, Choosing(w), looksAt[w] \in files
        PROVE  \A d \in before'[looksAt[w].event] : handed[d] > 0
    <3>1. looksAt[w].event # e /\ looksAt[w].event \in Drained
      BY <1>6, <2>1, <2>3 DEF Queued
    <3> QED
      BY <1>5, <2>3, <3>1 DEF DrainInv, EarlierInFront
  <2> QED
    BY <1>1, <2>2, <2>3 DEF EarlierInFront, Choosing
<1>11. Plain!HandedInOrder'
  BY <1>1, <1>5 DEF DrainInv, FilesAreNew, Plain!HandedInOrder
<1>12. Plain!LostOnlyByKill'
  <2>1. ASSUME NEW d \in enqueued'
        PROVE  \/ \E g \in (files \cup drafts)' : g.event = d
               \/ \E w \in Drainers : stands'[w] = "apply" /\ looksAt'[w].event = d
               \/ d \in done \cup refused \cup killed
    BY <1>1, <1>3 DEF DrainInv, Plain!LostOnlyByKill
  <2> QED
    BY <1>1, <2>1 DEF Plain!LostOnlyByKill
<1> QED
  BY <1>7, <1>8, <1>9, <1>10, <1>11, <1>12 DEF DrainInv

LEMMA PublishKeeps ==
  ASSUME DrainInv, NEW f \in drafts, Plain!Publish(f)
  PROVE  DrainInv'
<1>1. /\ drafts' = drafts \ {f} /\ files' = files \cup {f}
      /\ UNCHANGED <<prefix, stands, looksAt, handed, done, refused, killed, enqueued, before>>
  BY DEF Plain!Publish, Plain!engine
<1>2. Queued' = Queued
  BY <1>1 DEF Queued
<1>3. DrainTypes'
  BY <1>1 DEF DrainInv, DrainTypes
<1>4. FilesAreNew'
  BY <1>1, <1>2 DEF DrainInv, FilesAreNew
<1>5. ChosenWereQueued'
  BY <1>1 DEF DrainInv, ChosenWereQueued, Choosing
<1>6. EarlierInFront'
  <2>1. \A w \in Drainers : Choosing(w) => looksAt[w] # f
    BY DEF DrainInv, ChosenWereQueued
  <2> QED
    BY <1>1, <1>2, <2>1 DEF DrainInv, EarlierInFront, Choosing
<1>7. Plain!HandedInOrder' /\ Plain!LostOnlyByKill'
  BY <1>1 DEF DrainInv, Plain!HandedInOrder, Plain!LostOnlyByKill
<1> QED
  BY <1>3, <1>4, <1>5, <1>6, <1>7 DEF DrainInv

\* The first file of the sorted names stands behind no other.
LEMMA ListKeeps ==
  ASSUME DrainInv, NEW w \in Drainers, Plain!List(w)
  PROVE  DrainInv'
<1>1. PICK f \in files :
        (\A g \in files : f.prefix <= g.prefix) /\ Plain!Goto(w, "listed", f)
  BY DEF Plain!List
<1>2. /\ UNCHANGED <<files, drafts, prefix, handed, done, refused, killed, enqueued, before>>
      /\ stands[w] = "idle"
  BY DEF Plain!List, Plain!Unchanged, Plain!engine
<1>3. DrainTypes
  BY DEF DrainInv
<1>4. f \in Plain!File /\ f \notin drafts /\ f.event \in enqueued
  BY <1>3 DEF DrainInv, DrainTypes, FilesAreNew, Queued
<1>5. \A d \in before[f.event] : handed[d] > 0
  <2>1. \A g \in files : ~(g.prefix < f.prefix)
    BY <1>1, <1>3, FileFields DEF DrainTypes
  <2> QED
    BY <2>1 DEF DrainInv, EarlierInFront, Queued
<1>6. /\ DrainTypes' /\ FilesAreNew' /\ ChosenWereQueued' /\ EarlierInFront'
      /\ Plain!HandedInOrder'
  BY <1>1, <1>2, <1>4, <1>5, WorkerMoves
<1>7. Plain!LostOnlyByKill'
  BY <1>1, <1>2, <1>3, GotoIs DEF DrainInv, Plain!LostOnlyByKill
<1> QED
  BY <1>6, <1>7 DEF DrainInv

LEMMA ReadKeeps ==
  ASSUME DrainInv, NEW w \in Drainers, Plain!Read(w)
  PROVE  DrainInv'
<1>1. /\ UNCHANGED <<files, drafts, prefix, handed, done, refused, killed, enqueued, before>>
      /\ stands[w] = "listed"
  BY DEF Plain!Read, Plain!Unchanged, Plain!engine
<1>2. DrainTypes
  BY DEF DrainInv
<1>3. Choosing(w) /\ looksAt[w] \in Plain!File
  BY <1>1, <1>2 DEF Choosing, DrainTypes
<1>4. PICK to \in {"idle", "read"}, f \in {looksAt[w], NoFile} :
        Plain!Goto(w, to, f) /\ (to = "read" => f = looksAt[w])
  BY DEF Plain!Read
<1>5. /\ DrainTypes' /\ FilesAreNew' /\ ChosenWereQueued' /\ EarlierInFront'
      /\ Plain!HandedInOrder'
  <2>1. /\ looksAt[w] \notin drafts /\ looksAt[w].event \in enqueued
        /\ looksAt[w] \in files => \A d \in before[looksAt[w].event] : handed[d] > 0
    BY <1>3 DEF DrainInv, ChosenWereQueued, EarlierInFront
  <2>2. /\ to \in {"idle", "listed", "read", "apply"}
        /\ f \in Plain!File \cup {NoFile}
        /\ to # "idle" => f \in Plain!File
        /\ to \in {"listed", "read"} => f = looksAt[w]
    BY <1>3, <1>4
  <2> QED
    BY <1>1, <1>4, <2>1, <2>2, WorkerMoves
<1>6. Plain!LostOnlyByKill'
  BY <1>1, <1>2, <1>4, GotoIs DEF DrainInv, Plain!LostOnlyByKill
<1> QED
  BY <1>5, <1>6 DEF DrainInv

\* The file is removed and its event handed over in one step: the files behind
\* it find the event handed over.
LEMMA RemoveKeeps ==
  ASSUME DrainInv, NEW w \in Drainers, Plain!Remove(w)
  PROVE  DrainInv'
<1> DEFINE f == looksAt[w]
<1>1. /\ UNCHANGED <<drafts, prefix, done, refused, killed, enqueued, before>>
      /\ stands[w] = "read" /\ files' = files \ {f}
  BY DEF Plain!Remove, Plain!Unchanged
<1>2. DrainTypes
  BY DEF DrainInv
<1>3. Choosing(w) /\ f \in Plain!File /\ f.event \in Drained
  BY <1>1, <1>2, FileFields DEF Choosing, DrainTypes
<1>4. CASE f \notin files
  <2>1. /\ Plain!Goto(w, "idle", NoFile) /\ handed' = handed /\ files' = files
    BY <1>1, <1>4 DEF Plain!Remove
  <2>2. /\ DrainTypes' /\ FilesAreNew' /\ ChosenWereQueued' /\ EarlierInFront'
        /\ Plain!HandedInOrder'
    BY <1>1, <2>1, WorkerMoves
  <2>3. Plain!LostOnlyByKill'
    BY <1>1, <1>2, <2>1, GotoIs DEF DrainInv, Plain!LostOnlyByKill
  <2> QED
    BY <2>2, <2>3 DEF DrainInv
<1>5. CASE f \in files
  <2>1. /\ Plain!Goto(w, "apply", f)
        /\ handed' = [handed EXCEPT ![f.event] = handed[f.event] + 1]
    BY <1>5 DEF Plain!Remove
  <2>2. /\ stands'[w] = "apply" /\ looksAt'[w] = f
        /\ \A v \in Drainers : v # w => stands'[v] = stands[v] /\ looksAt'[v] = looksAt[v]
    BY <1>2, <2>1, GotoIs
  <2>3. /\ handed[f.event] = 0 /\ f.event \in enqueued
        /\ handed'[f.event] = 1
        /\ \A d \in Drained : d # f.event => handed'[d] = handed[d]
        /\ \A d \in Drained : handed[d] > 0 => handed'[d] > 0
        /\ \A d \in Drained : handed[d] \in Nat
        /\ handed' \in [Drained -> Nat]
    <3>1. handed[f.event] = 0 /\ f.event \in enqueued
      BY <1>5 DEF DrainInv, FilesAreNew, Queued
    <3>2. handed \in [Drained -> Nat]
      BY <1>2 DEF DrainTypes
    <3> HIDE DEF f
    <3> QED
      BY <1>3, <2>1, <3>1, <3>2
  <2>4. \A d \in before[f.event] : handed[d] > 0 /\ d \in Drained
    BY <1>2, <1>3, <1>5 DEF DrainInv, EarlierInFront, DrainTypes
  <2>5. Queued' = Queued \ {f} /\ f \in Queued /\ \A g \in Queued' : g.event # f.event
    <3>1. Queued' = Queued \ {f} /\ f \in Queued
      BY <1>1, <1>5 DEF Queued, DrainInv, FilesAreNew
    <3> QED
      BY <3>1 DEF DrainInv, FilesAreNew
  <2>6. \A g \in Queued : g \in Plain!File /\ g.event \in Drained
    BY <1>2, FileFields DEF DrainTypes, Queued
  <2> HIDE DEF f
  <2>7. DrainTypes'
    <3>1. /\ stands' \in [Drainers -> {"idle", "listed", "read", "apply"}]
          /\ looksAt' \in [Drainers -> Plain!File \cup {NoFile}]
      BY <1>2, <1>3, <2>1 DEF DrainTypes, Plain!Goto
    <3> QED
      BY <1>1, <1>2, <1>3, <2>2, <2>3, <3>1 DEF DrainTypes
  <2>8. FilesAreNew'
    <3>1. \A g \in Queued' :
            g.prefix <= prefix' /\ g.event \in enqueued' /\ handed'[g.event] = 0
      BY <1>1, <2>3, <2>5, <2>6 DEF DrainInv, FilesAreNew
    <3>2. \A d \in Drained : handed'[d] <= 1 /\ (handed'[d] > 0 => d \in enqueued')
      BY <1>1, <2>3 DEF DrainInv, FilesAreNew
    <3> QED
      BY <1>1, <2>5, <3>1, <3>2 DEF DrainInv, FilesAreNew
  <2>9. ChosenWereQueued'
    BY <1>1, <2>2 DEF DrainInv, ChosenWereQueued, Choosing
  <2>10. EarlierInFront'
    <3>1. ASSUME NEW g \in Queued', NEW d \in before[g.event]
          PROVE  handed'[d] > 0 \/ \E h \in files' : h.event = d /\ h.prefix < g.prefix
      <4>1. d \in Drained
        BY <1>2, <2>5, <2>6, <3>1 DEF DrainTypes
      <4>2. handed[d] > 0 \/ \E h \in files : h.event = d /\ h.prefix < g.prefix
        BY <2>5, <3>1 DEF DrainInv, EarlierInFront
      <4>3. ASSUME NEW h \in files, h.event = d, h.prefix < g.prefix
            PROVE  handed'[d] > 0 \/ h \in files'
        BY <1>1, <2>3, <4>3
      <4> QED
        BY <2>3, <4>1, <4>2, <4>3
    <3>2. ASSUME NEW v \in Drainers, Choosing(v)', looksAt'[v] \in files',
                 NEW d \in before[looksAt'[v].event]
          PROVE  handed'[d] > 0
      <4>1. v # w /\ Choosing(v) /\ looksAt'[v] = looksAt[v] /\ looksAt[v] \in files
        BY <1>1, <2>2, <3>2 DEF Choosing
      <4>2. looksAt[v].event \in Drained
        BY <2>6, <4>1 DEF Queued
      <4>3. d \in Drained /\ handed[d] > 0
        BY <1>2, <3>2, <4>1, <4>2 DEF DrainInv, EarlierInFront, DrainTypes
      <4> QED
        BY <2>3, <4>3
    <3> QED
      BY <1>1, <3>1, <3>2 DEF EarlierInFront
  <2>11. Plain!HandedInOrder'
    <3> SUFFICES ASSUME NEW e \in Drained, handed'[e] > 0, NEW d \in before[e]
                 PROVE  handed'[d] > 0
      BY <1>1 DEF Plain!HandedInOrder
    <3>1. d \in Drained
      BY <1>2 DEF DrainTypes
    <3>2. handed[d] > 0
      BY <2>3, <2>4 DEF DrainInv, Plain!HandedInOrder
    <3> QED
      BY <2>3, <3>1, <3>2
  <2>12. Plain!LostOnlyByKill'
    <3> SUFFICES ASSUME NEW e \in enqueued
                 PROVE  \/ \E g \in files' \cup drafts : g.event = e
                        \/ \E v \in Drainers : stands'[v] = "apply" /\ looksAt'[v].event = e
                        \/ e \in done \cup refused \cup killed
      BY <1>1 DEF Plain!LostOnlyByKill
    <3>1. CASE e = f.event
      BY <2>2, <3>1
    <3>2. CASE e # f.event
      BY <1>1, <2>2, <3>2 DEF DrainInv, Plain!LostOnlyByKill
    <3> QED
      BY <3>1, <3>2
  <2> QED
    BY <2>7, <2>8, <2>9, <2>10, <2>11, <2>12 DEF DrainInv
<1> QED
  BY <1>4, <1>5

LEMMA ApplyKeeps ==
  ASSUME DrainInv, NEW w \in Drainers, Plain!Apply(w)
  PROVE  DrainInv'
<1>1. /\ UNCHANGED <<files, drafts, prefix, handed, killed, enqueued, before>>
      /\ stands[w] = "apply" /\ Plain!Goto(w, "idle", NoFile)
      /\ done' \cup refused' = done \cup refused \cup {looksAt[w].event}
  BY DEF Plain!Apply, Plain!Unchanged
<1>2. /\ DrainTypes' /\ FilesAreNew' /\ ChosenWereQueued' /\ EarlierInFront'
      /\ Plain!HandedInOrder'
  BY <1>1, WorkerMoves
<1>3. DrainTypes
  BY DEF DrainInv
<1>4. Plain!LostOnlyByKill'
  BY <1>1, <1>3, GotoIs DEF DrainInv, Plain!LostOnlyByKill
<1> QED
  BY <1>2, <1>4 DEF DrainInv

LEMMA KillKeeps ==
  ASSUME DrainInv, NEW w \in Drainers, Plain!Kill(w)
  PROVE  DrainInv'
<1>1. /\ UNCHANGED <<files, drafts, prefix, handed, done, refused, enqueued, before>>
      /\ Plain!Goto(w, "idle", NoFile)
      /\ killed' = IF stands[w] = "apply" THEN killed \cup {looksAt[w].event} ELSE killed
  BY DEF Plain!Kill, Plain!Unchanged
<1>2. /\ DrainTypes' /\ FilesAreNew' /\ ChosenWereQueued' /\ EarlierInFront'
      /\ Plain!HandedInOrder'
  BY <1>1, WorkerMoves
<1>3. DrainTypes
  BY DEF DrainInv
<1>4. Plain!LostOnlyByKill'
  BY <1>1, <1>3, GotoIs DEF DrainInv, Plain!LostOnlyByKill
<1> QED
  BY <1>2, <1>4 DEF DrainInv

LEMMA DrainUnchanged ==
  ASSUME DrainInv, UNCHANGED plain
  PROVE  DrainInv'
<1>1. /\ files' = files /\ drafts' = drafts /\ prefix' = prefix /\ stands' = stands
      /\ looksAt' = looksAt /\ handed' = handed /\ refused' = refused /\ killed' = killed
      /\ before' = before /\ enqueued' = enqueued /\ done' = done
  BY DEF plain
<1> QED
  BY <1>1 DEF DrainInv, DrainTypes, FilesAreNew, ChosenWereQueued, EarlierInFront, Queued,
              Choosing, Plain!HandedInOrder, Plain!LostOnlyByKill

LEMMA DrainStarts == Plain!Init => DrainInv
  BY DEF Plain!Init, DrainInv, DrainTypes, FilesAreNew, ChosenWereQueued, EarlierInFront,
         Queued, Choosing, Plain!HandedInOrder, Plain!LostOnlyByKill

\* WorkflowWorker::drain over FileWorkflowEventQueue (worker.rs, events.rs): any
\* number of workers that list, read and remove the files of one directory hand
\* each event to the engine once, in the order in which the events came, and
\* drop none but those in the hands of a killed worker.
THEOREM DrainsAlwaysHandOver == PartsSpec => []DrainsHandOver
<1>1. PartsInit => DrainInv
  BY DrainStarts DEF PartsInit
<1>2. DrainInv /\ [PartsNext]_partsVars => DrainInv'
  <2> SUFFICES ASSUME DrainInv, [PartsNext]_partsVars
               PROVE  DrainInv'
    OBVIOUS
  <2>1. Plain!Next \/ UNCHANGED plain
    BY DEF PartsNext, partsVars
  <2> QED
    BY <2>1, DrainUnchanged, DraftKeeps, PublishKeeps, ListKeeps, ReadKeeps, RemoveKeeps,
       ApplyKeeps, KillKeeps DEF Plain!Next
<1>3. DrainInv => DrainsHandOver
  BY DEF DrainInv, FilesAreNew, DrainsHandOver, Plain!DrainsHandOver, Plain!HandedOnce
<1> QED
  BY <1>1, <1>2, <1>3, PTL DEF PartsSpec, partsVars
=============================================================================
