----------------------------- MODULE LeaseQueue -----------------------------
(***************************************************************************)
(* FileWorkflowEventQueue (num-runtime/src/events.rs) as the processes     *)
(* that run WorkflowWorker::drain_leased (num-runtime/src/worker.rs) use   *)
(* it.  Several operating-system processes share one directory, nothing    *)
(* but the atomicity of single file-system calls orders them, and any of   *)
(* them may be killed between two calls, so one action here is one call    *)
(* that changes the directory or one look at it whose outcome another      *)
(* process can change.  A lease is rewritten in place, in two such calls:  *)
(* opening the file empties it, and only then its content is written.      *)
(*                                                                         *)
(*   <dir>/<prefix>-<event>.json         queue     waiting events          *)
(*   <dir>/leases/<prefix>-<event>.json  leases    claimed events          *)
(*   <dir>/dead/...                      dead      exhausted events        *)
(*                                                                         *)
(* A prefix is the time in nanoseconds, moved forward until no file of the *)
(* directory has it; the model draws it from a counter, that is, it takes  *)
(* the clock to advance between two writes.  A waiting file is written     *)
(* under a temporary name first, which no reader takes for an event, and a *)
(* dead letter is read by nobody: both appear with the last call that      *)
(* writes them, and a kill before it has the effect of a kill before all.  *)
(***************************************************************************)
EXTENDS Integers, FiniteSets

CONSTANTS
    Workers,        \* worker processes, one worker id each
    Events,         \* event ids, each enqueued at most once
    MaxAttempts,    \* WorkflowLeaseOptions.max_attempts
    MaxCrashes,     \* bound: how many times a worker or heartbeat is killed
    CrashPoints,    \* where a worker may be killed (a set of Labels)
    MaxHeartbeats,  \* bound: how many heartbeats begin
    Nothing         \* the absence of an item or of an owner

Labels == {"idle", "scan", "recover", "unlink", "rename", "stamp", "write",
           "apply", "ack", "fail", "drop"}

ASSUME LeaseQueueAssumption ==
    /\ MaxAttempts \in Nat
    /\ MaxCrashes \in Nat
    /\ MaxHeartbeats \in Nat
    /\ CrashPoints \subseteq Labels \ {"idle"}
    /\ Nothing \notin Workers

VARIABLES
    queue,       \* files waiting in <dir>
    leases,      \* files in <dir>/leases
    torn,        \* paths of the leases that are empty: opened, not yet written
    dead,        \* dead letters
    clock,       \* the last prefix drawn
    pc,          \* where each worker stands in drain_leased and claim
    todo,        \* the lease paths its recovery scan has not read yet
    held,        \* the item it is working on
    hb,          \* the lease a `lease-heartbeat` process read and will rewrite
    opened,      \* it has opened, and so emptied, the file
    sent,        \* history: events enqueued
    applied,     \* history: events whose application returned Ok
    deliveries,  \* history: how often an event was claimed
    lapsed,      \* history: events that had a lease time out
    emptied,     \* history: events whose lease a kill left empty
    crashes,     \* kills so far
    beats        \* heartbeats so far

files == <<queue, leases, torn, dead, clock>>
local == <<pc, todo, held>>
heartbeat == <<hb, opened>>
history == <<sent, applied, deliveries, lapsed, emptied>>
bounds == <<crashes, beats>>
vars == <<queue, leases, torn, dead, clock, pc, todo, held, hb, opened,
          sent, applied, deliveries, lapsed, emptied, crashes, beats>>

Item == [seq : Nat, event : Events, attempt : Nat]
Lease == [seq : Nat, event : Events, attempt : Nat,
          owner : Workers \cup {Nothing}, stale : BOOLEAN]
DeadLetter == [event : Events, attempt : Nat]

\* A file name: event_path formats the prefix and the event id into it.
Path(f) == <<f.seq, f.event>>

MakeItem(s, e, a) == [seq |-> s, event |-> e, attempt |-> a]
ItemOf(l) == MakeItem(l.seq, l.event, l.attempt)
MakeLease(i, a, o) ==
    [seq |-> i.seq, event |-> i.event, attempt |-> a, owner |-> o,
     stale |-> FALSE]

Without(p) == {l \in leases : Path(l) # p}

\* A lease that read_leased_queue_item can decode.
Whole(l) == l.owner # Nothing /\ Path(l) \notin torn

\* Labels at which a worker has a claim of its own on the file it holds.
Claiming == {"stamp", "write", "apply", "ack", "fail", "drop"}

TypeOK ==
    /\ queue \subseteq Item
    /\ leases \subseteq Lease
    /\ torn \subseteq Nat \X Events
    /\ dead \subseteq DeadLetter
    /\ clock \in Nat
    /\ pc \in [Workers -> Labels]
    /\ todo \in [Workers -> SUBSET (Nat \X Events)]
    /\ held \in [Workers -> Item \cup {Nothing}]
    /\ \A w \in Workers :
          pc[w] \in Labels \ {"idle", "scan"} => held[w] \in Item
    /\ hb \in Lease \cup {Nothing}
    /\ opened \in BOOLEAN
    /\ opened => hb # Nothing
    /\ sent \subseteq Events
    /\ applied \subseteq Events
    /\ deliveries \in [Events -> Nat]
    /\ lapsed \subseteq Events
    /\ emptied \subseteq Events
    /\ crashes \in 0 .. MaxCrashes
    /\ beats \in 0 .. MaxHeartbeats

Init ==
    /\ queue = {}
    /\ leases = {}
    /\ torn = {}
    /\ dead = {}
    /\ clock = 0
    /\ pc = [w \in Workers |-> "idle"]
    /\ todo = [w \in Workers |-> {}]
    /\ held = [w \in Workers |-> Nothing]
    /\ hb = Nothing
    /\ opened = FALSE
    /\ sent = {}
    /\ applied = {}
    /\ deliveries = [e \in Events |-> 0]
    /\ lapsed = {}
    /\ emptied = {}
    /\ crashes = 0
    /\ beats = 0

-----------------------------------------------------------------------------
(* Control helpers: where the worker goes and what it keeps.               *)

Go(w, from, to) == pc[w] = from /\ pc' = [pc EXCEPT ![w] = to]

\* The drain is over, or goes round its loop: `claim` starts afresh.
Rest(w) ==
    /\ pc' = [pc EXCEPT ![w] = "idle"]
    /\ todo' = [todo EXCEPT ![w] = {}]
    /\ held' = [held EXCEPT ![w] = Nothing]

\* write_queue_item at a fresh path; or, exhausted, write_dead_letter_item.
Requeue(i) ==
    /\ i.attempt < MaxAttempts
    /\ clock' = clock + 1
    /\ queue' = queue \cup {MakeItem(clock + 1, i.event, i.attempt)}
    /\ UNCHANGED <<leases, torn, dead>>

\* Faulty variant: an exhausted event is removed without a dead letter.
BuryNothing(i) ==
    /\ i.attempt >= MaxAttempts
    /\ UNCHANGED files

\* Faulty variant: gives up one attempt early.
BuryEarly(i) ==
    /\ i.attempt + 1 >= MaxAttempts
    /\ dead' = dead \cup {[event |-> i.event, attempt |-> i.attempt]}
    /\ UNCHANGED <<queue, leases, torn, clock>>

Bury(i) ==
    /\ i.attempt >= MaxAttempts
    /\ dead' = dead \cup {[event |-> i.event, attempt |-> i.attempt]}
    /\ UNCHANGED <<queue, leases, torn, clock>>

PassOn(i) == Requeue(i) \/ Bury(i)

-----------------------------------------------------------------------------
(* `num workflow enqueue`: written under a temporary name, then renamed.   *)

Enqueue(e) ==
    /\ e \notin sent
    /\ sent' = sent \cup {e}
    /\ clock' = clock + 1
    /\ queue' = queue \cup {MakeItem(clock + 1, e, 0)}
    /\ UNCHANGED <<leases, torn, dead, local, heartbeat, applied, deliveries,
                   lapsed, emptied, bounds>>

-----------------------------------------------------------------------------
(* claim, first half: recover_expired_leases lists the lease directory and *)
(* reads the files it listed one after the other.                          *)

StartClaim(w) ==
    /\ Go(w, "idle", "scan")
    /\ todo' = [todo EXCEPT ![w] = {Path(l) : l \in leases}]
    /\ UNCHANGED <<files, held, heartbeat, history, bounds>>

\* Faulty variant: recovery skips every stamped lease, expired or not.
SkipStamped(w) ==
    /\ pc[w] = "scan"
    /\ \E l \in leases :
          /\ Path(l) \in todo[w]
          /\ Whole(l)
          /\ todo' = [todo EXCEPT ![w] = @ \ {Path(l)}]
    /\ UNCHANGED <<files, pc, held, heartbeat, history, bounds>>

SkipLive(w) ==
    /\ pc[w] = "scan"
    /\ \E l \in leases :
          /\ Path(l) \in todo[w]
          /\ Whole(l) /\ ~l.stale
          /\ todo' = [todo EXCEPT ![w] = @ \ {Path(l)}]
    /\ UNCHANGED <<files, pc, held, heartbeat, history, bounds>>

\* Faulty variant: recovers leases that have not timed out.
FindAny(w) ==
    /\ Go(w, "scan", "recover")
    /\ \E l \in leases :
          /\ Path(l) \in todo[w]
          /\ Whole(l)
          /\ held' = [held EXCEPT ![w] = ItemOf(l)]
    /\ UNCHANGED <<files, todo, heartbeat, history, bounds>>

FindExpired(w) ==
    /\ Go(w, "scan", "recover")
    /\ \E l \in leases :
          /\ Path(l) \in todo[w]
          /\ Whole(l) /\ l.stale
          /\ held' = [held EXCEPT ![w] = ItemOf(l)]
    /\ UNCHANGED <<files, todo, heartbeat, history, bounds>>

\* The listed file is gone, was claimed but carries no "lease" metadata, or
\* is empty: reading it fails, so claim fails, and with it the whole drain.
Unreadable(p) == \A l \in leases : Path(l) = p => ~Whole(l)

AbortScan(w) ==
    /\ pc[w] = "scan"
    /\ \E p \in todo[w] : Unreadable(p)
    /\ Rest(w)
    /\ UNCHANGED <<files, heartbeat, history, bounds>>

RecoverForgetsItem(w) ==
    /\ Go(w, "recover", "unlink")
    /\ PassOn(held[w])
    /\ held' = [held EXCEPT ![w] = Nothing]
    /\ UNCHANGED <<todo, heartbeat, history, bounds>>

Recover(w) ==
    /\ Go(w, "recover", "unlink")
    /\ PassOn(held[w])
    /\ UNCHANGED <<todo, held, heartbeat, history, bounds>>

\* remove_file, the `?` of which ends the drain when the lease is gone.
Unlink(w) ==
    /\ Go(w, "unlink", "scan")
    /\ \E l \in leases : Path(l) = Path(held[w])
    /\ leases' = Without(Path(held[w]))
    /\ todo' = [todo EXCEPT ![w] = @ \ {Path(held[w])}]
    /\ held' = [held EXCEPT ![w] = Nothing]
    /\ torn' = torn \ {Path(held[w])}
    /\ UNCHANGED <<queue, dead, clock, heartbeat, history, bounds>>

AbortUnlink(w) ==
    /\ pc[w] = "unlink"
    /\ \A l \in leases : Path(l) # Path(held[w])
    /\ Rest(w)
    /\ UNCHANGED <<files, heartbeat, history, bounds>>

-----------------------------------------------------------------------------
(* claim, second half: the first file in name order is renamed into the    *)
(* lease directory, read, and rewritten with its owner.                    *)

Pick(w) ==
    /\ Go(w, "scan", "rename")
    /\ todo[w] = {}
    /\ \E i \in queue :
          /\ \A j \in queue : i.seq <= j.seq
          /\ held' = [held EXCEPT ![w] = i]
    /\ UNCHANGED <<files, todo, heartbeat, history, bounds>>

PickNothing(w) ==
    /\ pc[w] = "scan"
    /\ todo[w] = {}
    /\ queue = {}
    /\ Rest(w)
    /\ UNCHANGED <<files, heartbeat, history, bounds>>

\* Faulty variant: copies the file into the lease directory.
RenameCopies(w) ==
    /\ Go(w, "rename", "stamp")
    /\ held[w] \in queue
    /\ leases' = Without(Path(held[w]))
                    \cup {MakeLease(held[w], held[w].attempt, Nothing)}
    /\ UNCHANGED <<queue, torn, dead, clock, todo, held, heartbeat, history,
                   bounds>>

Rename(w) ==
    /\ Go(w, "rename", "stamp")
    /\ held[w] \in queue
    /\ queue' = queue \ {held[w]}
    /\ leases' = Without(Path(held[w]))
                    \cup {MakeLease(held[w], held[w].attempt, Nothing)}
    /\ UNCHANGED <<torn, dead, clock, todo, held, heartbeat, history, bounds>>

\* NotFound: another worker renamed it first; the drain ends as if idle.
LoseRename(w) ==
    /\ pc[w] = "rename"
    /\ held[w] \notin queue
    /\ Rest(w)
    /\ UNCHANGED <<files, heartbeat, history, bounds>>

\* write_leased_item, first call: opening the file for writing empties it.
Truncate(w) ==
    /\ Go(w, "stamp", "write")
    /\ torn' = torn \cup {Path(held[w])}
    /\ UNCHANGED <<queue, leases, dead, clock, todo, held, heartbeat, history,
                   bounds>>

\* Its second call: the item, one attempt on, with its owner.
Stamp(w) ==
    /\ Go(w, "write", "apply")
    /\ held' = [held EXCEPT ![w].attempt = @ + 1]
    /\ leases' = Without(Path(held[w]))
                    \cup {MakeLease(held[w], held[w].attempt + 1, w)}
    /\ torn' = torn \ {Path(held[w])}
    /\ deliveries' = [deliveries EXCEPT ![held[w].event] = @ + 1]
    /\ UNCHANGED <<queue, dead, clock, todo, heartbeat, sent, applied, lapsed,
                   emptied, bounds>>

-----------------------------------------------------------------------------
(* drain_leased after claim: apply_event, then ack, or fail.               *)

ApplyOk(w) ==
    /\ Go(w, "apply", "ack")
    /\ applied' = applied \cup {held[w].event}
    /\ UNCHANGED <<files, todo, held, heartbeat, sent, deliveries, lapsed,
                   emptied, bounds>>

ApplyErr(w) ==
    /\ Go(w, "apply", "fail")
    /\ UNCHANGED <<files, todo, held, heartbeat, history, bounds>>

\* ack, and the end of fail: removes the lease if it still exists.
RemoveLease(w) ==
    /\ leases' = Without(Path(held[w]))
    /\ Rest(w)
    /\ torn' = torn \ {Path(held[w])}
    /\ UNCHANGED <<queue, dead, clock, heartbeat, history, bounds>>

Ack(w) == pc[w] = "ack" /\ RemoveLease(w)

Fail(w) ==
    /\ Go(w, "fail", "drop")
    /\ PassOn(held[w])
    /\ UNCHANGED <<todo, held, heartbeat, history, bounds>>

Drop(w) == pc[w] = "drop" /\ RemoveLease(w)

-----------------------------------------------------------------------------
(* The environment: kills, the passing of time, and the separate process   *)
(* `num workflow lease-heartbeat <event-id> --worker-id <id>`.             *)

Crash(w) ==
    /\ pc[w] \in CrashPoints
    /\ crashes < MaxCrashes
    /\ crashes' = crashes + 1
    /\ emptied' = IF pc[w] = "write" THEN emptied \cup {held[w].event}
                                     ELSE emptied
    /\ Rest(w)
    /\ UNCHANGED <<files, heartbeat, sent, applied, deliveries, lapsed, beats>>

Expire ==
    /\ \E l \in leases :
          /\ Whole(l) /\ ~l.stale
          /\ leases' = (leases \ {l}) \cup {[l EXCEPT !.stale = TRUE]}
          /\ lapsed' = lapsed \cup {l.event}
    /\ UNCHANGED <<queue, torn, dead, clock, local, heartbeat, sent, applied,
                   deliveries, emptied, bounds>>

HeartbeatRead(w) ==
    /\ hb = Nothing
    /\ beats < MaxHeartbeats
    /\ beats' = beats + 1
    /\ \E l \in leases : Whole(l) /\ l.owner = w /\ hb' = l
    /\ UNCHANGED <<files, local, opened, history, crashes>>

\* Opening the file empties it, or creates it again if it was removed
\* meanwhile.  The record already says what the file is to hold.
HeartbeatTruncate ==
    /\ hb # Nothing /\ ~opened
    /\ opened' = TRUE
    /\ leases' = Without(Path(hb)) \cup {[hb EXCEPT !.stale = FALSE]}
    /\ torn' = torn \cup {Path(hb)}
    /\ UNCHANGED <<queue, dead, clock, local, hb, history, bounds>>

\* The write goes to the opened file: if that was removed, it stays removed.
HeartbeatWrite ==
    /\ opened
    /\ opened' = FALSE
    /\ hb' = Nothing
    /\ torn' = torn \ {Path(hb)}
    /\ UNCHANGED <<queue, leases, dead, clock, local, history, bounds>>

HeartbeatKill ==
    /\ hb # Nothing
    /\ crashes < MaxCrashes
    /\ crashes' = crashes + 1
    /\ emptied' = IF opened /\ Path(hb) \in torn
                THEN emptied \cup {hb.event} ELSE emptied
    /\ hb' = Nothing
    /\ opened' = FALSE
    /\ UNCHANGED <<files, local, sent, applied, deliveries, lapsed, beats>>

-----------------------------------------------------------------------------
ClaimStep(w) ==
    \/ StartClaim(w) \/ SkipLive(w) \/ FindExpired(w) \/ AbortScan(w)
    \/ Recover(w) \/ Unlink(w) \/ AbortUnlink(w)
    \/ Pick(w) \/ PickNothing(w) \/ Rename(w) \/ LoseRename(w)
    \/ Truncate(w) \/ Stamp(w)

DrainStep(w) == ApplyOk(w) \/ ApplyErr(w) \/ Ack(w) \/ Fail(w) \/ Drop(w)

WorkerStep(w) == ClaimStep(w) \/ DrainStep(w)

Next ==
    \/ \E e \in Events : Enqueue(e)
    \/ \E w \in Workers : WorkerStep(w) \/ Crash(w) \/ HeartbeatRead(w)
    \/ Expire
    \/ HeartbeatTruncate \/ HeartbeatWrite \/ HeartbeatKill

Spec == Init /\ [][Next]_vars

\* Drains are run again and again, a running process keeps running, and time
\* passes.  Nothing is assumed of enqueuers, kills or new heartbeats.
Fairness ==
    /\ \A w \in Workers : WF_vars(WorkerStep(w))
    /\ WF_vars(Expire)
    /\ WF_vars(HeartbeatTruncate \/ HeartbeatWrite)

FairSpec == Spec /\ Fairness

-----------------------------------------------------------------------------
(* Properties.                                                             *)

DeadEvents == {d.event : d \in dead}

Settled(e) == e \in applied \/ e \in DeadEvents

\* Event e is accounted for by something younger than prefix n.
Covered(e, n) ==
    Settled(e) \/ \E f \in queue \cup leases : f.event = e /\ f.seq > n

\* A live process has the lease file of this path open and will write it.
BeingWritten(p) ==
    \/ \E w \in Workers : pc[w] = "write" /\ Path(held[w]) = p
    \/ opened /\ Path(hb) = p

\* A file holds event e, or will when the process that has it open goes on.
Kept(e) ==
    \E f \in queue \cup leases :
        f.event = e /\ (Path(f) \in torn => BeingWritten(Path(f)))

\* No order of claims, expiries, crashes, requeues and heartbeats loses an
\* event: until it is applied or dead-lettered a file of the queue or of the
\* lease directory is named after it, and one of them holds it, unless a
\* process was killed between the two calls that rewrite a lease of it.
NoEventLost ==
    \A e \in sent : Covered(e, 0) /\ (Settled(e) \/ Kept(e) \/ e \in emptied)

\* An event is dead-lettered only after max_attempts deliveries, however many
\* copies of it recovery and late failures have made.
DeadOnlyWhenExhausted ==
    \A d \in dead : deliveries[d.event] >= MaxAttempts

\* The rename is the lock: a file in the lease directory has one claimant,
\* also when its lease has expired and been recovered by another worker.
OneClaimantPerFile ==
    \A v, w \in Workers :
        /\ v # w
        /\ pc[v] \in Claiming
        /\ pc[w] \in Claiming
        => Path(held[v]) # Path(held[w])

\* Two workers apply the same event at the same time only if one of its
\* leases timed out before: requeueing and crashes alone never cause it.
OverlapOnlyAfterExpiry ==
    \A v, w \in Workers :
        /\ v # w
        /\ pc[v] = "apply"
        /\ pc[w] = "apply"
        /\ held[v].event = held[w].event
        => held[v].event \in lapsed

\* Requeued copies inherit the count of the delivery they come from, so no
\* copy claims more attempts than the event had deliveries.
AttemptsAreDeliveries ==
    \A f \in queue \cup leases : f.attempt <= deliveries[f.event]

\* Every event is eventually applied or dead-lettered.
EventuallySettled == \A e \in Events : e \in sent ~> Settled(e)

\* A claim was killed between the rename and the last call of the rewrite, or
\* a heartbeat inside its rewrite: the lease left behind cannot be decoded.
Poisoned ==
    \E l \in leases :
        /\ ~Whole(l)
        /\ ~BeingWritten(Path(l))
        /\ \A w \in Workers : pc[w] = "stamp" => Path(held[w]) # Path(l)

\* The kills that leave a lease nobody can decode are the only ones that keep
\* an event from its end: whatever else expires, is killed or put back by a
\* late heartbeat, the directories are eventually empty, and with NoEventLost
\* every event is then applied or dead-lettered.
DrainsUnlessPoisoned == []<>(Poisoned \/ (queue = {} /\ leases = {}))
=============================================================================
