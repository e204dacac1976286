----------------------------- MODULE PlainDrain -----------------------------
(***************************************************************************)
(* WorkflowWorker::drain (num-runtime/src/worker.rs), the loop without     *)
(* leases, over FileWorkflowEventQueue (num-runtime/src/events.rs):        *)
(* dequeue lists the directory, reads the first file and removes it, and   *)
(* only then is the event applied.  Workers and producers are processes    *)
(* that share the directory; the engine is left to succeed or to fail.     *)
(***************************************************************************)
EXTENDS Naturals, FiniteSets

CONSTANTS
    Drainers,   \* processes that drain
    Events,     \* event ids, each enqueued at most once
    NoFile,     \* no file is looked at
    MaxKills    \* bound: workers killed

VARIABLES
    files,      \* event files: prefix and event
    drafts,     \* files under their temporary names
    prefix,     \* the last prefix drawn
    stands,     \* where each worker stands
    looksAt,    \* the file it listed, then the event it read
    handed,     \* how often each event was handed to the engine
    applied,    \* events applied
    refused,    \* events the engine failed, which are reported and forgotten
    killed,     \* events in the hands of a worker that was killed
    sent,       \* history: events enqueued
    before,     \* history: what was in the queue when an event was enqueued
    kills

vars == <<files, drafts, prefix, stands, looksAt, handed, applied, refused,
          killed, sent, before, kills>>

File == [prefix : Nat, event : Events]

TypeOK ==
    /\ files \subseteq File
    /\ drafts \subseteq File
    /\ prefix \in 0 .. Cardinality(Events)
    /\ stands \in [Drainers -> {"idle", "listed", "read", "apply"}]
    /\ looksAt \in [Drainers -> File \cup {NoFile}]
    /\ handed \in [Events -> Nat]
    /\ {applied, refused, killed} \subseteq SUBSET Events
    /\ sent \subseteq Events
    /\ before \in [Events -> SUBSET Events]
    /\ kills \in 0 .. MaxKills

Init ==
    /\ files = {}
    /\ drafts = {}
    /\ prefix = 0
    /\ stands = [w \in Drainers |-> "idle"]
    /\ looksAt = [w \in Drainers |-> NoFile]
    /\ handed = [e \in Events |-> 0]
    /\ applied = {}
    /\ refused = {}
    /\ killed = {}
    /\ sent = {}
    /\ before = [e \in Events |-> {}]
    /\ kills = 0

engine == <<handed, applied, refused, killed>>

-----------------------------------------------------------------------------
(* enqueue: event_path draws a prefix from the clock, which is taken to    *)
(* advance between two events; the file gets its name when it is whole.    *)

Enqueued == {f.event : f \in files}

Draft(e) ==
    /\ e \notin sent
    /\ sent' = sent \cup {e}
    /\ prefix' = prefix + 1
    /\ drafts' = drafts \cup {[prefix |-> prefix + 1, event |-> e]}
    /\ before' = [before EXCEPT ![e] = Enqueued]
    /\ UNCHANGED <<files, stands, looksAt, engine, kills>>

Publish(f) ==
    /\ drafts' = drafts \ {f}
    /\ files' = files \cup {f}
    /\ UNCHANGED <<prefix, stands, looksAt, engine, sent, before, kills>>

-----------------------------------------------------------------------------
(* drain                                                                   *)

Goto(w, to, f) ==
    /\ stands' = [stands EXCEPT ![w] = to]
    /\ looksAt' = [looksAt EXCEPT ![w] = f]

Unchanged == UNCHANGED <<drafts, prefix, sent, before>>

\* next_event_path: the first of the sorted names.  An empty directory ends
\* the drain.
List(w) ==
    /\ stands[w] = "idle"
    /\ \E f \in files :
          /\ \A g \in files : f.prefix <= g.prefix
          /\ Goto(w, "listed", f)
    /\ Unchanged /\ UNCHANGED <<files, engine, kills>>

\* read_queue_item: a file another worker removed is an error, which ends the
\* drain.
Read(w) ==
    /\ stands[w] = "listed"
    /\ IF looksAt[w] \in files THEN Goto(w, "read", looksAt[w])
       ELSE Goto(w, "idle", NoFile)
    /\ Unchanged /\ UNCHANGED <<files, engine, kills>>

\* Faulty variant: a file that is already gone is as good as removed.
RemoveIfThere(w) ==
    /\ stands[w] = "read"
    /\ Goto(w, "apply", looksAt[w])
    /\ files' = files \ {looksAt[w]}
    /\ handed' = [handed EXCEPT ![looksAt[w].event] = @ + 1]
    /\ Unchanged /\ UNCHANGED <<applied, refused, killed, kills>>

\* remove_file, which only one worker can do.
Remove(w) ==
    /\ stands[w] = "read"
    /\ IF looksAt[w] \in files
       THEN /\ Goto(w, "apply", looksAt[w])
            /\ handed' = [handed EXCEPT ![looksAt[w].event] = @ + 1]
       ELSE Goto(w, "idle", NoFile) /\ UNCHANGED handed
    /\ files' = files \ {looksAt[w]}
    /\ Unchanged /\ UNCHANGED <<applied, refused, killed, kills>>

\* apply_event
Apply(w) ==
    /\ stands[w] = "apply"
    /\ \/ applied' = applied \cup {looksAt[w].event} /\ UNCHANGED refused
       \/ refused' = refused \cup {looksAt[w].event} /\ UNCHANGED applied
    /\ Goto(w, "idle", NoFile)
    /\ Unchanged /\ UNCHANGED <<files, handed, killed, kills>>

Kill(w) ==
    /\ stands[w] # "idle"
    /\ kills < MaxKills
    /\ kills' = kills + 1
    /\ killed' = IF stands[w] = "apply" THEN killed \cup {looksAt[w].event}
                 ELSE killed
    /\ Goto(w, "idle", NoFile)
    /\ Unchanged /\ UNCHANGED <<files, handed, applied, refused>>

Next ==
    \/ \E e \in Events : Draft(e)
    \/ \E f \in drafts : Publish(f)
    \/ \E w \in Drainers : List(w) \/ Read(w) \/ Remove(w) \/ Apply(w) \/ Kill(w)

Spec == Init /\ [][Next]_vars

-----------------------------------------------------------------------------
(* Properties.                                                             *)

\* However many workers drain one directory, no event is handed to the engine
\* twice.
HandedOnce == \A e \in Events : handed[e] <= 1

\* Events are handed to the engine in the order in which they were enqueued:
\* what was in the queue when an event came is taken out before it.
HandedInOrder ==
    \A e \in Events : handed[e] > 0 => \A d \in before[e] : handed[d] > 0

\* An event that was enqueued is in the queue, in the hands of a worker,
\* applied or reported as failed, unless its worker was killed while it
\* applied it.
LostOnlyByKill ==
    \A e \in sent :
        \/ \E f \in files \cup drafts : f.event = e
        \/ \E w \in Drainers : stands[w] = "apply" /\ looksAt[w].event = e
        \/ e \in applied \cup refused \cup killed

\* However drains overlap and die, the queue hands its events over once, in
\* order, and drops none but the one in the hands of the killed.
DrainsHandOver == HandedOnce /\ HandedInOrder /\ LostOnlyByKill
=============================================================================
