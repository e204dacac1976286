----------------------------- MODULE RateLimit ------------------------------
(***************************************************************************)
(* RateLimiter and FileRateLimitStore of num-runtime/src/rate_limit.rs:    *)
(* the fixed window of one key, kept in a file that processes share.  A    *)
(* check reads the file, counts the request and writes the file back, in   *)
(* system calls of their own and without a lock between processes; inside  *)
(* a process the mutex of the limiter makes the checks take turns, so a    *)
(* process stands for all its clones.  Time is the wall clock.             *)
(***************************************************************************)
EXTENDS Naturals, Sequences, FiniteSets

CONSTANTS
    Processes,
    MaxRequests,  \* max_requests as it was asked for
    Window,       \* duration of a window
    NoWindow,     \* the key is not in the store
    MaxNow,       \* bound: time
    MaxGrants     \* bound: requests let through

VARIABLES
    now,      \* wall clock
    file,     \* the window of the key in the store
    tmp,      \* in <store>.json.tmp
    pc,       \* where each process stands
    sampled,  \* the time it took at the beginning of the check
    counted,  \* the window it is going to write
    granted,  \* history: the times of the requests let through
    met       \* history: two processes were inside a check at once

vars == <<now, file, tmp, pc, sampled, counted, granted, met>>

\* RateLimit::new
Max == IF MaxRequests < 1 THEN 1 ELSE MaxRequests

WindowState == [started : Nat, count : 0 .. Max]

TypeOK ==
    /\ now \in 0 .. MaxNow
    /\ file \in WindowState \cup {NoWindow}
    /\ tmp \in WindowState \cup {NoWindow}
    /\ pc \in [Processes -> {"idle", "read", "write", "rename"}]
    /\ sampled \in [Processes -> 0 .. MaxNow]
    /\ counted \in [Processes -> WindowState \cup {NoWindow}]
    /\ granted \in Seq(0 .. MaxNow)
    /\ met \in BOOLEAN

Init ==
    /\ now = 0
    /\ file = NoWindow
    /\ tmp = NoWindow
    /\ pc = [p \in Processes |-> "idle"]
    /\ sampled = [p \in Processes |-> 0]
    /\ counted = [p \in Processes |-> NoWindow]
    /\ granted = <<>>
    /\ met = FALSE

-----------------------------------------------------------------------------
(* check_window.                                                           *)

\* saturating_sub of two readings of the clock
Since(t, s) == IF t > s THEN t - s ELSE 0

NewWindow(t) == [started |-> t, count |-> 0]

\* Faulty variant: a window starts anew one tick early.
OpenedEarly(w, t) ==
    IF w = NoWindow \/ Since(t, w.started) + 1 >= Window THEN NewWindow(t) ELSE w

\* The window a request at time t belongs to.
Opened(w, t) ==
    IF w = NoWindow \/ Since(t, w.started) >= Window THEN NewWindow(t) ELSE w

Full(w) == w.count >= Max

-----------------------------------------------------------------------------
Leave(p) ==
    /\ pc' = [pc EXCEPT ![p] = "idle"]
    /\ sampled' = [sampled EXCEPT ![p] = 0]
    /\ counted' = [counted EXCEPT ![p] = NoWindow]

Tick ==
    /\ now < MaxNow
    /\ now' = now + 1
    /\ UNCHANGED <<file, tmp, pc, sampled, counted, granted, met>>

\* check reads the clock.
Check(p) ==
    /\ pc[p] = "idle"
    /\ Len(granted) < MaxGrants
    /\ pc' = [pc EXCEPT ![p] = "read"]
    /\ sampled' = [sampled EXCEPT ![p] = now]
    /\ met' = (met \/ \E q \in Processes : pc[q] # "idle")
    /\ UNCHANGED <<now, file, tmp, counted, granted>>

\* read_windows and check_window; a refusal is not written.
Refuse(p) ==
    /\ pc[p] = "read"
    /\ Full(Opened(file, sampled[p]))
    /\ Leave(p)
    /\ UNCHANGED <<now, file, tmp, granted, met>>

Count(p) ==
    /\ pc[p] = "read"
    /\ LET w == Opened(file, sampled[p]) IN
       /\ ~Full(w)
       /\ counted' = [counted EXCEPT ![p] = [w EXCEPT !.count = @ + 1]]
    /\ pc' = [pc EXCEPT ![p] = "write"]
    /\ UNCHANGED <<now, file, tmp, sampled, granted, met>>

\* write_windows: the temporary file is named after the store.
Write(p) ==
    /\ pc[p] = "write"
    /\ pc' = [pc EXCEPT ![p] = "rename"]
    /\ tmp' = counted[p]
    /\ UNCHANGED <<now, file, sampled, counted, granted, met>>

\* Another process may have renamed it: then the check is a storage error.
Rename(p) ==
    /\ pc[p] = "rename"
    /\ Leave(p)
    /\ IF tmp = NoWindow THEN UNCHANGED <<file, granted>>
       ELSE file' = tmp /\ granted' = Append(granted, now)
    /\ tmp' = NoWindow
    /\ UNCHANGED <<now, met>>

Kill(p) ==
    /\ pc[p] # "idle"
    /\ Leave(p)
    /\ UNCHANGED <<now, file, tmp, granted, met>>

Next ==
    \/ Tick
    \/ \E p \in Processes :
          Check(p) \/ Refuse(p) \/ Count(p) \/ Write(p) \/ Rename(p) \/ Kill(p)

Spec == Init /\ [][Next]_vars

-----------------------------------------------------------------------------
(* Properties.                                                             *)

GrantedIn(from, to) ==
    Cardinality({i \in 1 .. Len(granted) : granted[i] >= from /\ granted[i] < to})

\* As long as the processes take turns, no stretch of time as long as a window
\* sees more than twice the limit, wherever it begins.
AtMostTwice ==
    ~met => \A t \in 0 .. MaxNow : GrantedIn(t, t + Window) <= 2 * Max

\* Whatever overlaps, is killed or fails: whoever is refused came after as
\* many requests as the limit allows were let through, all within a window.
RefusalIsEarned ==
    \A p \in Processes : Refuse(p) =>
        GrantedIn(Since(sampled[p], Window - 1), now + 1) >= Max
=============================================================================
