-------------------------- MODULE LeaseQueueProofs --------------------------
(***************************************************************************)
(* Proofs about LeaseQueue for every set of workers and events, every      *)
(* number of attempts and any number of kills and heartbeats, wherever the *)
(* kills fall.                                                             *)
(***************************************************************************)
EXTENDS LeaseQueue, TLAPS

-----------------------------------------------------------------------------
(* Type correctness.                                                       *)

LEMMA PassOnType ==
    ASSUME TypeOK, NEW i \in Item, PassOn(i)
    PROVE  /\ queue' \subseteq Item
           /\ leases' = leases /\ torn' = torn
           /\ dead' \subseteq DeadLetter
           /\ clock' \in Nat
  BY LeaseQueueAssumption
  DEF TypeOK, PassOn, Requeue, Bury, Item, DeadLetter, MakeItem, files

LEMMA RestType ==
    ASSUME TypeOK, NEW w \in Workers, Rest(w)
    PROVE  /\ pc' \in [Workers -> Labels]
           /\ todo' \in [Workers -> SUBSET (Nat \X Events)]
           /\ held' \in [Workers -> Item \cup {Nothing}]
           /\ \A v \in Workers :
                 pc'[v] \in Labels \ {"idle", "scan"} => held'[v] \in Item
  BY DEF TypeOK, Rest, Labels

\* Every reachable state has the types the comments on the variables give:
\* in particular a worker past its recovery scan holds an item.
THEOREM TypeCorrect == Spec => []TypeOK
<1>1. Init => TypeOK
  <2> SUFFICES ASSUME Init PROVE TypeOK
    OBVIOUS
  <2>1. torn \subseteq Nat \X Events
    BY DEF Init
  <2>2. opened \in BOOLEAN /\ ~opened
    BY DEF Init
  <2>3. /\ crashes \in 0 .. MaxCrashes /\ beats \in 0 .. MaxHeartbeats
        /\ clock \in Nat /\ deliveries \in [Events -> Nat]
    BY LeaseQueueAssumption DEF Init
  <2> QED
    BY <2>1, <2>2, <2>3 DEF Init, TypeOK, Labels
<1>2. TypeOK /\ [Next]_vars => TypeOK'
  <2> SUFFICES ASSUME TypeOK, [Next]_vars PROVE TypeOK'
    OBVIOUS
  <2> USE LeaseQueueAssumption DEF heartbeat
  <2>1. ASSUME NEW e \in Events, Enqueue(e) PROVE TypeOK'
    BY <2>1 DEF Enqueue, TypeOK, local, bounds, Item, MakeItem
  <2>2. ASSUME NEW w \in Workers, StartClaim(w) PROVE TypeOK'
    <3>1. {Path(l) : l \in leases} \subseteq Nat \X Events
      BY DEF TypeOK, Lease, Path
    <3> QED
      BY <2>2, <3>1
      DEF StartClaim, Go, TypeOK, Labels, files, history, bounds
  <2>3. ASSUME NEW w \in Workers, SkipLive(w) PROVE TypeOK'
    BY <2>3 DEF SkipLive, TypeOK, files, history, bounds
  <2>4. ASSUME NEW w \in Workers, FindExpired(w) PROVE TypeOK'
    <3>1. \A l \in leases : ItemOf(l) \in Item
      BY DEF TypeOK, Lease, Item, ItemOf, MakeItem
    <3> QED
      BY <2>4, <3>1
      DEF FindExpired, Go, TypeOK, Labels, files, history, bounds
  <2>5. ASSUME NEW w \in Workers, AbortScan(w) PROVE TypeOK'
    BY <2>5, RestType DEF AbortScan, TypeOK, files, history, bounds
  <2>6. ASSUME NEW w \in Workers, Recover(w) PROVE TypeOK'
    <3>1. held[w] \in Item
      BY <2>6 DEF Recover, Go, TypeOK, Labels
    <3> QED
      BY <2>6, <3>1, PassOnType
      DEF Recover, Go, TypeOK, Labels, history, bounds
  <2>7. ASSUME NEW w \in Workers, Unlink(w) PROVE TypeOK'
    BY <2>7
    DEF Unlink, Go, TypeOK, Labels, Without, history, bounds
  <2>8. ASSUME NEW w \in Workers, AbortUnlink(w) PROVE TypeOK'
    BY <2>8, RestType DEF AbortUnlink, TypeOK, files, history, bounds
  <2>9. ASSUME NEW w \in Workers, Pick(w) PROVE TypeOK'
    BY <2>9 DEF Pick, Go, TypeOK, Labels, files, history, bounds
  <2>10. ASSUME NEW w \in Workers, PickNothing(w) PROVE TypeOK'
    BY <2>10, RestType DEF PickNothing, TypeOK, files, history, bounds
  <2>11. ASSUME NEW w \in Workers, Rename(w) PROVE TypeOK'
    <3>1. held[w] \in Item
      BY <2>11 DEF Rename, Go, TypeOK, Labels
    <3>2. MakeLease(held[w], held[w].attempt, Nothing) \in Lease
      BY <3>1 DEF MakeLease, Lease, Item
    <3> QED
      BY <2>11, <3>1, <3>2
      DEF Rename, Go, TypeOK, Labels, Without, history, bounds
  <2>12. ASSUME NEW w \in Workers, LoseRename(w) PROVE TypeOK'
    BY <2>12, RestType DEF LoseRename, TypeOK, files, history, bounds
  <2>23. ASSUME NEW w \in Workers, Truncate(w) PROVE TypeOK'
    <3>1. held[w] \in Item
      BY <2>23 DEF Truncate, Go, TypeOK, Labels
    <3>2. Path(held[w]) \in Nat \X Events
      BY <3>1 DEF Path, Item
    <3> QED
      BY <2>23, <3>1, <3>2
      DEF Truncate, Go, TypeOK, Labels, history, bounds
  <2>13. ASSUME NEW w \in Workers, Stamp(w) PROVE TypeOK'
    <3>1. held[w] \in Item
      BY <2>13 DEF Stamp, Go, TypeOK, Labels
    <3>2. MakeLease(held[w], held[w].attempt + 1, w) \in Lease
      BY <3>1 DEF MakeLease, Lease, Item
    <3>3. [held[w] EXCEPT !.attempt = @ + 1] \in Item
      BY <3>1 DEF Item
    <3>4. held' \in [Workers -> Item \cup {Nothing}] /\ held'[w] \in Item
      BY <2>13, <3>1, <3>3 DEF Stamp, TypeOK
    <3>5. deliveries' \in [Events -> Nat]
      BY <2>13, <3>1 DEF Stamp, TypeOK, Item
    <3>6. \A v \in Workers :
             pc'[v] \in Labels \ {"idle", "scan"} => held'[v] \in Item
      BY <2>13, <3>4 DEF Stamp, Go, TypeOK, Labels
    <3> QED
      BY <2>13, <3>2, <3>4, <3>5, <3>6
      DEF Stamp, Go, TypeOK, Labels, Without, bounds
  <2>14. ASSUME NEW w \in Workers, ApplyOk(w) PROVE TypeOK'
    BY <2>14 DEF ApplyOk, Go, TypeOK, Labels, Item, files, bounds
  <2>15. ASSUME NEW w \in Workers, ApplyErr(w) PROVE TypeOK'
    BY <2>15 DEF ApplyErr, Go, TypeOK, Labels, files, history, bounds
  <2>16. ASSUME NEW w \in Workers, Ack(w) \/ Drop(w) PROVE TypeOK'
    BY <2>16, RestType
    DEF Ack, Drop, RemoveLease, Without, TypeOK, history, bounds
  <2>17. ASSUME NEW w \in Workers, Fail(w) PROVE TypeOK'
    <3>1. held[w] \in Item
      BY <2>17 DEF Fail, Go, TypeOK, Labels
    <3> QED
      BY <2>17, <3>1, PassOnType DEF Fail, Go, TypeOK, Labels, history, bounds
  <2>18. ASSUME NEW w \in Workers, Crash(w) PROVE TypeOK'
    <3>1. emptied' \subseteq Events
      BY <2>18 DEF Crash, TypeOK, Labels, Item
    <3> QED
      BY <2>18, <3>1, RestType DEF Crash, TypeOK, files
  <2>19. CASE Expire
    BY <2>19 DEF Expire, TypeOK, Lease, local, bounds
  <2>20. ASSUME NEW w \in Workers, HeartbeatRead(w) PROVE TypeOK'
    BY <2>20 DEF HeartbeatRead, TypeOK, files, local, history
  <2>21. CASE HeartbeatTruncate
    <3>1. Path(hb) \in Nat \X Events
      BY <2>21 DEF HeartbeatTruncate, TypeOK, Path, Lease
    <3> QED
      BY <2>21, <3>1
      DEF HeartbeatTruncate, TypeOK, Lease, Without, local, history, bounds
  <2>24. CASE HeartbeatWrite
    BY <2>24 DEF HeartbeatWrite, TypeOK, local, history, bounds
  <2>25. CASE HeartbeatKill
    <3>1. emptied' \subseteq Events
      BY <2>25 DEF HeartbeatKill, TypeOK, Lease
    <3>2. opened' \in BOOLEAN /\ ~opened' /\ hb' = Nothing
      BY <2>25 DEF HeartbeatKill
    <3>3. crashes' \in 0 .. MaxCrashes
      BY <2>25 DEF HeartbeatKill, TypeOK
    <3> QED
      BY <2>25, <3>1, <3>2, <3>3 DEF HeartbeatKill, TypeOK, files, local
  <2>22. CASE UNCHANGED vars
    BY <2>22 DEF vars, TypeOK
  <2> QED
    BY <2>1, <2>2, <2>3, <2>4, <2>5, <2>6, <2>7, <2>8, <2>9, <2>10, <2>11,
       <2>12, <2>13, <2>14, <2>15, <2>16, <2>17, <2>18, <2>19, <2>20, <2>21,
       <2>22, <2>23, <2>24, <2>25
    DEF Next, WorkerStep, ClaimStep, DrainStep
<1> QED
  BY <1>1, <1>2, PTL DEF Spec

-----------------------------------------------------------------------------
(* Prefixes: nothing carries a prefix that has not been drawn.             *)

Busy == Labels \ {"idle", "scan"}

PrefixInv ==
    /\ \A f \in queue \cup leases : f.seq <= clock
    /\ \A w \in Workers : pc[w] \in Busy => held[w].seq <= clock
    /\ hb # Nothing => hb.seq <= clock

\* No file, worker or heartbeat is ahead of the clock the prefixes come from.
LEMMA PrefixStep ==
    ASSUME TypeOK, PrefixInv, [Next]_vars
    PROVE  PrefixInv'
<1> USE DEF Busy, Labels, heartbeat
<1>0. clock \in Nat
  BY DEF TypeOK
<1>1. ASSUME NEW e \in Events, Enqueue(e) PROVE PrefixInv'
  <2>1. \A f \in queue \cup leases : f.seq \in Nat
    BY DEF TypeOK, Item, Lease
  <2>2. \A w \in Workers : pc[w] \in Busy => held[w].seq \in Nat
    BY DEF TypeOK, Item
  <2>3. hb # Nothing => hb.seq \in Nat
    BY DEF TypeOK, Lease
  <2> QED
    BY <1>0, <1>1, <2>1, <2>2, <2>3 DEF Enqueue, PrefixInv, MakeItem, local
<1>2. ASSUME NEW w \in Workers,
             \/ StartClaim(w) \/ SkipLive(w) \/ AbortScan(w) \/ AbortUnlink(w)
             \/ PickNothing(w) \/ LoseRename(w) \/ Crash(w)
      PROVE  PrefixInv'
  <2>1. /\ UNCHANGED <<queue, leases, clock, hb>>
        /\ \A v \in Workers :
              pc'[v] \in Busy => pc[v] = pc'[v] /\ held'[v] = held[v]
    BY <1>2
    DEF StartClaim, SkipLive, AbortScan, AbortUnlink, PickNothing, LoseRename,
        Crash, Go, Rest, files, TypeOK
  <2> QED
    BY <2>1 DEF PrefixInv
<1>3. ASSUME NEW w \in Workers, FindExpired(w) \/ Pick(w) PROVE PrefixInv'
  <2>1. /\ UNCHANGED <<queue, leases, clock, hb>>
        /\ \A v \in Workers \ {w} : pc[v] = pc'[v] /\ held'[v] = held[v]
        /\ \E f \in queue \cup leases : held'[w].seq = f.seq
    BY <1>3 DEF FindExpired, Pick, Go, files, TypeOK, ItemOf, MakeItem
  <2> QED
    BY <2>1 DEF PrefixInv
<1>4. ASSUME NEW w \in Workers, Recover(w) \/ Fail(w) PROVE PrefixInv'
  <2>1. /\ leases' = leases
        /\ clock' \in {clock, clock + 1}
        /\ \A f \in queue' : f \in queue \/ f.seq = clock'
        /\ held' = held
        /\ hb' = hb
        /\ \A v \in Workers : pc'[v] \in Busy => pc[v] \in Busy
    BY <1>4
    DEF Recover, Fail, Go, PassOn, Requeue, Bury, TypeOK, MakeItem
  <2>2. /\ \A f \in queue \cup leases : f.seq \in Nat
        /\ \A v \in Workers : pc[v] \in Busy => held[v].seq \in Nat
        /\ hb # Nothing => hb.seq \in Nat
    BY DEF TypeOK, Item, Lease
  <2> QED
    BY <1>0, <2>1, <2>2 DEF PrefixInv
<1>5. ASSUME NEW w \in Workers, Unlink(w) \/ Ack(w) \/ Drop(w) PROVE PrefixInv'
  <2>1. /\ UNCHANGED <<queue, clock, hb>>
        /\ leases' \subseteq leases
        /\ \A v \in Workers :
              pc'[v] \in Busy => pc[v] = pc'[v] /\ held'[v] = held[v]
    BY <1>5
    DEF Unlink, Ack, Drop, RemoveLease, Go, Rest, Without, TypeOK
  <2> QED
    BY <2>1 DEF PrefixInv
<1>6. ASSUME NEW w \in Workers, Rename(w) \/ Truncate(w) \/ Stamp(w)
      PROVE  PrefixInv'
  <2>1. held[w] \in Item /\ pc[w] \in Busy
    BY <1>6 DEF Rename, Truncate, Stamp, Go, TypeOK
  <2>2. /\ queue' \subseteq queue
        /\ UNCHANGED <<clock, hb>>
        /\ \A l \in leases' : l \in leases \/ l.seq = held[w].seq
        /\ \A v \in Workers \ {w} : pc[v] = pc'[v] /\ held'[v] = held[v]
        /\ held'[w].seq = held[w].seq
    BY <1>6, <2>1
    DEF Rename, Truncate, Stamp, Go, Without, MakeLease, TypeOK, Item
  <2> QED
    BY <2>1, <2>2 DEF PrefixInv
<1>7. ASSUME NEW w \in Workers, ApplyOk(w) \/ ApplyErr(w) PROVE PrefixInv'
  BY <1>7 DEF ApplyOk, ApplyErr, Go, files, PrefixInv, TypeOK
<1>8. CASE Expire
  BY <1>8 DEF Expire, PrefixInv, local, TypeOK, Lease
<1>9. ASSUME NEW w \in Workers, HeartbeatRead(w) PROVE PrefixInv'
  BY <1>9 DEF HeartbeatRead, PrefixInv, files, local
<1>10. CASE HeartbeatTruncate \/ HeartbeatWrite \/ HeartbeatKill
  BY <1>10 DEF HeartbeatTruncate, HeartbeatWrite, HeartbeatKill, PrefixInv,
               Without, local, files, TypeOK, Lease
<1>11. CASE UNCHANGED vars
  BY <1>11 DEF vars, PrefixInv
<1> QED
  BY <1>1, <1>2, <1>3, <1>4, <1>5, <1>6, <1>7, <1>8, <1>9, <1>10, <1>11
  DEF Next, WorkerStep, ClaimStep, DrainStep

-----------------------------------------------------------------------------
(* No event is lost.                                                       *)
(*                                                                         *)
(* A worker that removes a lease file has either applied its event or has  *)
(* first written a dead letter or a younger copy.  The copy may have moved *)
(* on by then, and may itself be about to be removed, so the invariant     *)
(* does not name it: it says that something younger than the file to be    *)
(* removed still accounts for the event.                                   *)

CoverInv ==
    /\ \A w \in Workers :
          pc[w] \in {"unlink", "drop"} => Covered(held[w].event, held[w].seq)
    /\ \A w \in Workers : pc[w] = "ack" => held[w].event \in applied

\* What an action does to the files: every file that goes is replaced by one
\* of the same name, or leaves its event covered beyond that name.
Replaces ==
    /\ DeadEvents \subseteq DeadEvents'
    /\ applied \subseteq applied'
    /\ \A f \in queue \cup leases :
          \/ \E g \in (queue \cup leases)' : g.event = f.event /\ g.seq = f.seq
          \/ Settled(f.event)
          \/ \E g \in queue \cup leases :
                /\ g.event = f.event
                /\ g.seq > f.seq
                /\ \E h \in (queue \cup leases)' :
                      h.event = g.event /\ h.seq = g.seq

LEMMA ReplacesCovers ==
    ASSUME TypeOK, Replaces, NEW e \in Events, NEW n \in Nat, Covered(e, n)
    PROVE  Covered(e, n)'
<1>1. CASE Settled(e)
  BY <1>1 DEF Replaces, Covered, Settled
<1>2. CASE \E f \in queue \cup leases : f.event = e /\ f.seq > n
  <2>1. PICK f \in queue \cup leases : f.event = e /\ f.seq > n
    BY <1>2
  <2>2. \A g \in queue \cup leases : g.seq \in Nat
    BY DEF TypeOK, Item, Lease
  <2>3. CASE \E g \in (queue \cup leases)' : g.event = f.event /\ g.seq = f.seq
    BY <2>1, <2>3 DEF Covered
  <2>4. CASE Settled(f.event)
    BY <2>1, <2>4 DEF Replaces, Covered, Settled
  <2>5. ASSUME NEW g \in queue \cup leases,
               g.event = f.event, g.seq > f.seq,
               \E h \in (queue \cup leases)' : h.event = g.event /\ h.seq = g.seq
        PROVE  Covered(e, n)'
    BY <2>1, <2>2, <2>5 DEF Covered
  <2> QED
    BY <2>1, <2>3, <2>4, <2>5 DEF Replaces
<1> QED
  BY <1>1, <1>2 DEF Covered

\* Only additions to the directories: nothing that was covered is uncovered.
LEMMA GrowthReplaces ==
    ASSUME queue \subseteq queue', leases \subseteq leases',
           dead \subseteq dead', applied \subseteq applied'
    PROVE  Replaces
  BY DEF Replaces, DeadEvents

\* Rewriting the file of one path in place.
LEMMA RewriteReplaces ==
    ASSUME NEW new, NEW p,
           Path(new) = p,
           queue' = queue,
           leases' = Without(p) \cup {new},
           dead' = dead, applied' = applied
    PROVE  Replaces
<1>1. \A l \in leases : Path(l) = p => l.event = new.event /\ l.seq = new.seq
  BY DEF Path
<1>2. new \in leases'
  OBVIOUS
<1>3. \A l \in leases : l \notin leases' => Path(l) = p
  BY DEF Without
<1> QED
  BY <1>1, <1>2, <1>3 DEF Replaces, DeadEvents

\* Removing the lease of one path whose event is covered beyond it.
LEMMA RemovalReplaces ==
    ASSUME TypeOK, NEW i \in Item, Covered(i.event, i.seq),
           queue' = queue,
           leases' = Without(Path(i)),
           dead' = dead, applied' = applied
    PROVE  Replaces
<1>1. \A l \in leases : l \notin leases' => l.event = i.event /\ l.seq = i.seq
  BY DEF Without, Path
<1>2. \A g \in queue \cup leases : g.seq > i.seq => g \in (queue \cup leases)'
  <2> SUFFICES ASSUME NEW g \in queue \cup leases, g.seq > i.seq
               PROVE  g \in (queue \cup leases)'
    OBVIOUS
  <2>1. g.seq \in Nat /\ i.seq \in Nat
    BY DEF TypeOK, Item, Lease
  <2>2. g.seq # i.seq
    BY <2>1
  <2> QED
    BY <2>2, <1>1
<1> QED
  BY <1>1, <1>2 DEF Replaces, Covered, DeadEvents


\* Every step of every process replaces what it removes.
LEMMA StepReplaces ==
    ASSUME TypeOK, CoverInv, [Next]_vars
    PROVE  Replaces
<1> USE DEF heartbeat
<1>1. ASSUME NEW e \in Events, Enqueue(e) PROVE Replaces
  BY <1>1, GrowthReplaces DEF Enqueue
<1>2. ASSUME NEW w \in Workers,
             \/ StartClaim(w) \/ SkipLive(w) \/ FindExpired(w) \/ AbortScan(w)
             \/ AbortUnlink(w) \/ Pick(w) \/ PickNothing(w) \/ LoseRename(w)
             \/ Truncate(w) \/ ApplyErr(w) \/ Crash(w) \/ HeartbeatRead(w)
      PROVE  Replaces
  <2>1. UNCHANGED <<queue, leases, dead, applied>>
    BY <1>2
    DEF StartClaim, SkipLive, FindExpired, AbortScan, AbortUnlink, Pick,
        PickNothing, LoseRename, Truncate, ApplyErr, Crash, HeartbeatRead,
        files, history
  <2> QED
    BY <2>1, GrowthReplaces
<1>3. ASSUME NEW w \in Workers, Recover(w) \/ Fail(w) PROVE Replaces
  <2>1. /\ queue \subseteq queue' /\ leases' = leases
        /\ dead \subseteq dead' /\ applied' = applied
    BY <1>3 DEF Recover, Fail, PassOn, Requeue, Bury, history
  <2> QED
    BY <2>1, GrowthReplaces
<1>4. ASSUME NEW w \in Workers, Unlink(w) \/ Drop(w) PROVE Replaces
  <2>1. held[w] \in Item /\ Covered(held[w].event, held[w].seq)
    BY <1>4 DEF Unlink, Drop, Go, TypeOK, Labels, CoverInv
  <2>2. /\ queue' = queue /\ dead' = dead /\ applied' = applied
        /\ leases' = Without(Path(held[w]))
    BY <1>4 DEF Unlink, Drop, RemoveLease, history
  <2> QED
    BY <2>1, <2>2, RemovalReplaces
<1>5. ASSUME NEW w \in Workers, Ack(w) PROVE Replaces
  <2>1. held[w] \in Item /\ Covered(held[w].event, held[w].seq)
    BY <1>5 DEF Ack, TypeOK, Labels, CoverInv, Covered, Settled
  <2>2. /\ queue' = queue /\ dead' = dead /\ applied' = applied
        /\ leases' = Without(Path(held[w]))
    BY <1>5 DEF Ack, RemoveLease, history
  <2> QED
    BY <2>1, <2>2, RemovalReplaces
<1>6. ASSUME NEW w \in Workers, Rename(w) PROVE Replaces
  <2> DEFINE new == MakeLease(held[w], held[w].attempt, Nothing)
  <2>1. /\ new \in leases'
        /\ new.event = held[w].event /\ new.seq = held[w].seq
    BY <1>6 DEF Rename, MakeLease
  <2>2. \A l \in leases :
           l \notin leases' => l.event = new.event /\ l.seq = new.seq
    BY <1>6, <2>1 DEF Rename, Without, Path
  <2>3. \A i \in queue : i \notin queue' => i = held[w]
    BY <1>6 DEF Rename
  <2>4. dead' = dead /\ applied' = applied
    BY <1>6 DEF Rename, history
  <2> HIDE DEF new
  <2> QED
    BY <2>1, <2>2, <2>3, <2>4 DEF Replaces, DeadEvents
<1>7. ASSUME NEW w \in Workers, Stamp(w) PROVE Replaces
  <2> DEFINE new == MakeLease(held[w], held[w].attempt + 1, w)
  <2>1. Path(new) = Path(held[w])
    BY DEF MakeLease, Path
  <2>2. /\ queue' = queue /\ dead' = dead /\ applied' = applied
        /\ leases' = Without(Path(held[w])) \cup {new}
    BY <1>7 DEF Stamp
  <2> HIDE DEF new
  <2> QED
    BY <2>1, <2>2, RewriteReplaces
<1>8. ASSUME NEW w \in Workers, ApplyOk(w) PROVE Replaces
  BY <1>8, GrowthReplaces DEF ApplyOk, files
<1>9. CASE Expire
  <2>1. PICK l \in leases :
           leases' = (leases \ {l}) \cup {[l EXCEPT !.stale = TRUE]}
    BY <1>9 DEF Expire
  <2> DEFINE new == [l EXCEPT !.stale = TRUE]
  <2>2. new.event = l.event /\ new.seq = l.seq
    BY DEF TypeOK, Lease
  <2>3. queue' = queue /\ dead' = dead /\ applied' = applied
    BY <1>9 DEF Expire
  <2>4. leases' = (leases \ {l}) \cup {new}
    BY <2>1
  <2> HIDE DEF new
  <2> QED
    BY <2>2, <2>3, <2>4 DEF Replaces, DeadEvents
<1>10. CASE HeartbeatTruncate
  <2> DEFINE new == [hb EXCEPT !.stale = FALSE]
  <2>1. Path(new) = Path(hb)
    BY <1>10 DEF HeartbeatTruncate, TypeOK, Lease, Path
  <2>2. /\ queue' = queue /\ dead' = dead /\ applied' = applied
        /\ leases' = Without(Path(hb)) \cup {new}
    BY <1>10 DEF HeartbeatTruncate, history
  <2> HIDE DEF new
  <2> QED
    BY <2>1, <2>2, RewriteReplaces
<1>11. CASE HeartbeatWrite \/ HeartbeatKill \/ UNCHANGED vars
  BY <1>11, GrowthReplaces DEF HeartbeatWrite, HeartbeatKill, files, history, vars
<1> QED
  BY <1>1, <1>2, <1>3, <1>4, <1>5, <1>6, <1>7, <1>8, <1>9, <1>10, <1>11
  DEF Next, WorkerStep, ClaimStep, DrainStep


LEMMA CoverStep ==
    ASSUME TypeOK, PrefixInv, CoverInv, [Next]_vars
    PROVE  CoverInv'
<1> USE DEF Labels, heartbeat
<1>1. Replaces
  BY StepReplaces
\* What a worker about to remove its lease relied on, it still can rely on.
<1>2. ASSUME NEW v \in Workers, pc[v] \in {"unlink", "drop"},
             held'[v] = held[v]
      PROVE  Covered(held[v].event, held[v].seq)'
  <2>1. held[v] \in Item /\ Covered(held[v].event, held[v].seq)
    BY <1>2 DEF TypeOK, CoverInv
  <2>2. \A e \in Events, n \in Nat : Covered(e, n) => Covered(e, n)'
    BY <1>1, ReplacesCovers
  <2>3. PICK e \in Events, n \in Nat : e = held[v].event /\ n = held[v].seq
    BY <2>1 DEF Item
  <2>4. Covered(e, n)'
    BY <2>1, <2>2, <2>3
  <2> QED
    BY <1>2, <2>3, <2>4 DEF Covered, Settled
\* A worker that gets there has just written a dead letter or a younger copy.
<1>3. ASSUME NEW v \in Workers, Recover(v) \/ Fail(v)
      PROVE  Covered(held[v].event, held[v].seq)'
  <2>1. held[v] \in Item /\ held[v].seq <= clock
    BY <1>3 DEF Recover, Fail, Go, TypeOK, PrefixInv, Busy
  <2>2. held' = held /\ clock \in Nat /\ applied' = applied
    BY <1>3 DEF Recover, Fail, history, TypeOK
  <2>3. CASE Bury(held[v])
    <3> DEFINE d == [event |-> held[v].event, attempt |-> held[v].attempt]
    <3>0. d \in dead' /\ d.event = held[v].event
      BY <2>3 DEF Bury
    <3> HIDE DEF d
    <3>1. held[v].event \in DeadEvents'
      BY <3>0 DEF DeadEvents
    <3> QED
      BY <2>2, <3>1 DEF Covered, Settled
  <2>4. CASE Requeue(held[v])
    <3> DEFINE new == MakeItem(clock + 1, held[v].event, held[v].attempt)
    <3>1. /\ new \in queue' /\ new.event = held[v].event
          /\ new.seq = clock + 1
      BY <2>4 DEF Requeue, MakeItem
    <3>2. new.seq > held[v].seq
      BY <2>1, <2>2, <3>1 DEF Item
    <3> HIDE DEF new
    <3> QED
      BY <2>2, <3>1, <3>2 DEF Covered
  <2> QED
    BY <1>3, <2>3, <2>4 DEF Recover, Fail, PassOn
\* Every other step leaves such workers where they are.
<1>4. \A v \in Workers : pc'[v] \in {"unlink", "drop"} =>
         \/ pc[v] \in {"unlink", "drop"} /\ held'[v] = held[v]
         \/ Recover(v) \/ Fail(v)
  <2> SUFFICES ASSUME NEW v \in Workers, pc'[v] \in {"unlink", "drop"},
                      ~Recover(v), ~Fail(v)
               PROVE  pc[v] \in {"unlink", "drop"} /\ held'[v] = held[v]
    OBVIOUS
  <2>1. ASSUME NEW w \in Workers,
               \/ StartClaim(w) \/ SkipLive(w) \/ FindExpired(w)
               \/ Pick(w) \/ Rename(w) \/ Truncate(w) \/ Stamp(w)
               \/ ApplyOk(w) \/ ApplyErr(w) \/ Unlink(w)
        PROVE  pc[v] \in {"unlink", "drop"} /\ held'[v] = held[v]
    BY <2>1
    DEF StartClaim, SkipLive, FindExpired, Pick, Rename, Truncate, Stamp,
        ApplyOk, ApplyErr, Unlink, Go, TypeOK
  <2>2. ASSUME NEW w \in Workers, Rest(w)
        PROVE  pc[v] \in {"unlink", "drop"} /\ held'[v] = held[v]
    BY <2>2 DEF Rest, TypeOK
  <2>3. ASSUME NEW w \in Workers, Recover(w) \/ Fail(w)
        PROVE  pc[v] \in {"unlink", "drop"} /\ held'[v] = held[v]
    BY <2>3 DEF Recover, Fail, Go, TypeOK
  <2>4. ASSUME UNCHANGED <<pc, held>>
        PROVE  pc[v] \in {"unlink", "drop"} /\ held'[v] = held[v]
    BY <2>4
  <2> QED
    BY <2>1, <2>2, <2>3, <2>4
    DEF Next, WorkerStep, ClaimStep, DrainStep, AbortScan, AbortUnlink,
        PickNothing, LoseRename, Ack, Drop, RemoveLease, Crash, Enqueue,
        Expire, HeartbeatRead, HeartbeatTruncate, HeartbeatWrite,
        HeartbeatKill, local, vars
<1>5. \A v \in Workers : pc'[v] = "ack" => held'[v].event \in applied'
  <2> SUFFICES ASSUME NEW v \in Workers, pc'[v] = "ack"
               PROVE  held'[v].event \in applied'
    OBVIOUS
  <2>1. ASSUME pc[v] = "ack", held'[v] = held[v]
        PROVE  held'[v].event \in applied'
    BY <1>1, <2>1 DEF CoverInv, Replaces
  <2>2. ASSUME NEW w \in Workers, ApplyOk(w)
        PROVE  held'[v].event \in applied'
    BY <1>1, <2>2 DEF ApplyOk, Go, TypeOK, CoverInv
  <2>3. ASSUME NEW w \in Workers,
               \/ StartClaim(w) \/ SkipLive(w) \/ FindExpired(w)
               \/ Pick(w) \/ Rename(w) \/ Truncate(w) \/ Stamp(w) \/ ApplyErr(w)
               \/ Unlink(w) \/ Recover(w) \/ Fail(w)
        PROVE  held'[v].event \in applied'
    <3>1. pc[v] = "ack" /\ held'[v] = held[v]
      BY <2>3
      DEF StartClaim, SkipLive, FindExpired, Pick, Rename, Truncate, Stamp,
          ApplyErr, Unlink, Recover, Fail, Go, TypeOK
    <3> QED
      BY <2>1, <3>1
  <2>4. ASSUME NEW w \in Workers, Rest(w)
        PROVE  held'[v].event \in applied'
    <3>1. pc[v] = "ack" /\ held'[v] = held[v]
      BY <2>4 DEF Rest, TypeOK
    <3> QED
      BY <2>1, <3>1
  <2>5. ASSUME UNCHANGED <<pc, held>>
        PROVE  held'[v].event \in applied'
    BY <2>1, <2>5
  <2> QED
    BY <2>2, <2>3, <2>4, <2>5
    DEF Next, WorkerStep, ClaimStep, DrainStep, AbortScan, AbortUnlink,
        PickNothing, LoseRename, Ack, Drop, RemoveLease, Crash, Enqueue,
        Expire, HeartbeatRead, HeartbeatTruncate, HeartbeatWrite,
        HeartbeatKill, local, vars
<1>6. \A v \in Workers :
         pc'[v] \in {"unlink", "drop"} => Covered(held[v].event, held[v].seq)'
  BY <1>2, <1>3, <1>4
<1> QED
  BY <1>5, <1>6 DEF CoverInv

\* An empty lease is about to be written, or the process that was to write it
\* was killed.
TornInv == \A p \in torn : BeingWritten(p) \/ p[2] \in emptied

LEMMA TornStep ==
    ASSUME TypeOK, TornInv, [Next]_vars
    PROVE  TornInv'
<1> USE DEF Labels, TornInv, BeingWritten, heartbeat
<1>1. ASSUME NEW w \in Workers, Truncate(w) PROVE TornInv'
  <2>1. /\ torn' = torn \cup {Path(held[w])}
        /\ pc'[w] = "write"
        /\ \A v \in Workers : pc[v] = "write" => pc'[v] = "write"
        /\ UNCHANGED <<held, hb, opened, emptied>>
    BY <1>1 DEF Truncate, Go, TypeOK, history
  <2> QED
    BY <2>1 DEF Path
<1>2. ASSUME NEW w \in Workers, Stamp(w) PROVE TornInv'
  <2>1. /\ torn' = torn \ {Path(held[w])}
        /\ \A v \in Workers \ {w} : pc'[v] = pc[v] /\ held'[v] = held[v]
        /\ UNCHANGED <<hb, opened, emptied>>
    BY <1>2 DEF Stamp, Go, TypeOK
  <2> QED
    BY <2>1 DEF Path
<1>3. ASSUME NEW w \in Workers, Crash(w) PROVE TornInv'
  <2>1. /\ torn' = torn
        /\ \A v \in Workers \ {w} : pc'[v] = pc[v] /\ held'[v] = held[v]
        /\ emptied \subseteq emptied'
        /\ pc[w] = "write" => held[w].event \in emptied'
        /\ UNCHANGED <<hb, opened>>
    BY <1>3 DEF Crash, Rest, TypeOK, files
  <2> QED
    BY <2>1 DEF Path
<1>4. CASE HeartbeatTruncate
  BY <1>4 DEF HeartbeatTruncate, Path, local, history
<1>5. CASE HeartbeatWrite
  BY <1>5 DEF HeartbeatWrite, Path, local, history
<1>6. CASE HeartbeatKill
  <2>1. /\ UNCHANGED <<torn, pc, held>>
        /\ emptied \subseteq emptied'
        /\ opened /\ Path(hb) \in torn => hb.event \in emptied'
    BY <1>6 DEF HeartbeatKill, files, local
  <2> QED
    BY <2>1 DEF Path
<1>7. ASSUME NEW w \in Workers,
             \/ StartClaim(w) \/ SkipLive(w) \/ FindExpired(w) \/ AbortScan(w)
             \/ Recover(w) \/ Unlink(w) \/ AbortUnlink(w) \/ Pick(w)
             \/ PickNothing(w) \/ Rename(w) \/ LoseRename(w) \/ ApplyOk(w)
             \/ ApplyErr(w) \/ Ack(w) \/ Fail(w) \/ Drop(w)
             \/ HeartbeatRead(w)
      PROVE  TornInv'
  <2>1. torn' \subseteq torn /\ emptied' = emptied
    BY <1>7
    DEF StartClaim, SkipLive, FindExpired, AbortScan, Recover, Unlink,
        AbortUnlink, Pick, PickNothing, Rename, LoseRename, ApplyOk, ApplyErr,
        Ack, Fail, Drop, RemoveLease, HeartbeatRead, PassOn, Requeue, Bury,
        files, history
  <2>2. opened' = opened /\ (opened => hb' = hb)
    BY <1>7
    DEF StartClaim, SkipLive, FindExpired, AbortScan, Recover, Unlink,
        AbortUnlink, Pick, PickNothing, Rename, LoseRename, ApplyOk, ApplyErr,
        Ack, Fail, Drop, RemoveLease, HeartbeatRead, TypeOK
  <2>3. \A v \in Workers :
           pc[v] = "write" => pc'[v] = "write" /\ held'[v] = held[v]
    BY <1>7
    DEF StartClaim, SkipLive, FindExpired, AbortScan, Recover, Unlink,
        AbortUnlink, Pick, PickNothing, Rename, LoseRename, ApplyOk, ApplyErr,
        Ack, Fail, Drop, RemoveLease, HeartbeatRead, Go, Rest, local, TypeOK
  <2> QED
    BY <2>1, <2>2, <2>3
<1>8. CASE (\E e \in Events : Enqueue(e)) \/ Expire \/ UNCHANGED vars
  BY <1>8 DEF Enqueue, Expire, local, vars
<1> QED
  BY <1>1, <1>2, <1>3, <1>4, <1>5, <1>6, <1>7, <1>8
  DEF Next, WorkerStep, ClaimStep, DrainStep

\* Every enqueued event has been settled or is named by a file.
Tracked == \A e \in sent : Covered(e, 0)

LEMMA TrackedStep ==
    ASSUME TypeOK, CoverInv, Tracked, [Next]_vars
    PROVE  Tracked'
<1>1. \A e \in Events : Covered(e, 0) => Covered(e, 0)'
  BY StepReplaces, ReplacesCovers
<1>2. ASSUME NEW e \in Events, Enqueue(e) PROVE Tracked'
  <2> DEFINE new == MakeItem(clock + 1, e, 0)
  <2>1. new \in queue' /\ new.event = e /\ new.seq = clock + 1
    BY <1>2 DEF Enqueue, MakeItem
  <2>2. new.seq > 0
    BY <2>1 DEF TypeOK
  <2>3. sent' = sent \cup {e} /\ sent \subseteq Events
    BY <1>2 DEF Enqueue, TypeOK
  <2> HIDE DEF new
  <2> QED
    BY <1>1, <2>1, <2>2, <2>3 DEF Tracked, Covered
<1>3. ASSUME sent' = sent PROVE Tracked'
  BY <1>1, <1>3 DEF Tracked, TypeOK
<1>4. sent' = sent \/ \E e \in Events : Enqueue(e)
  BY DEF Next, WorkerStep, ClaimStep, DrainStep, StartClaim, SkipLive,
         FindExpired, AbortScan, Recover, Unlink, AbortUnlink, Pick,
         PickNothing, Rename, LoseRename, Truncate, Stamp, ApplyOk, ApplyErr,
         Ack, Fail, Drop, RemoveLease, Crash, Expire, HeartbeatRead,
         HeartbeatTruncate, HeartbeatWrite, HeartbeatKill, history, vars
<1> QED
  BY <1>2, <1>3, <1>4

\* Whatever workers, kills, expiries and heartbeats do, an enqueued event is
\* applied, dead-lettered or still in a file: fail and recover_expired_leases
\* write the copy or dead letter before they remove the lease.  Only a kill
\* between the two calls of write_leased_item may have left that file empty.
THEOREM NoEventIsLost == Spec => []NoEventLost
<1>1. Init => PrefixInv /\ CoverInv /\ TornInv /\ Tracked
  BY DEF Init, PrefixInv, CoverInv, TornInv, Tracked, Busy
<1>2. TypeOK /\ PrefixInv /\ CoverInv /\ TornInv /\ Tracked /\ [Next]_vars
        => PrefixInv' /\ CoverInv' /\ TornInv' /\ Tracked'
  BY PrefixStep, CoverStep, TornStep, TrackedStep
<1>3. TornInv /\ Tracked => NoEventLost
  <2> SUFFICES ASSUME TornInv, Tracked, NEW e \in sent
               PROVE  Covered(e, 0) /\ (Settled(e) \/ Kept(e) \/ e \in emptied)
    BY DEF NoEventLost
  <2>1. Covered(e, 0)
    BY DEF Tracked
  <2>2. ASSUME NEW f \in queue \cup leases, f.event = e
        PROVE  Kept(e) \/ e \in emptied
    BY <2>2 DEF Kept, TornInv, Path
  <2> QED
    BY <2>1, <2>2 DEF Covered
<1> QED
  BY <1>1, <1>2, <1>3, TypeCorrect, PTL DEF Spec

-----------------------------------------------------------------------------
(* One claimant per file.                                                  *)
(*                                                                         *)
(* The rename removes the waiting file, prefixes are never used twice, and *)
(* a copy gets a prefix of its own: so no two claims, and no claim and     *)
(* waiting file, ever share a prefix.                                      *)

ClaimInv ==
    /\ \A i, j \in queue : i.seq = j.seq => i = j
    /\ \A w \in Workers : pc[w] \in Claiming =>
          \A i \in queue : i.seq # held[w].seq
    /\ \A v, w \in Workers :
          v # w /\ pc[v] \in Claiming /\ pc[w] \in Claiming
             => held[v].seq # held[w].seq

LEMMA ClaimStepKeeps ==
    ASSUME TypeOK, PrefixInv, ClaimInv, [Next]_vars
    PROVE  ClaimInv'
<1> USE DEF Labels, Claiming, heartbeat
<1>0. /\ clock \in Nat
      /\ \A i \in queue : i.seq \in Nat /\ i.seq <= clock
      /\ \A w \in Workers : pc[w] \in Claiming =>
            held[w].seq \in Nat /\ held[w].seq <= clock
  BY DEF TypeOK, Item, PrefixInv, Busy
<1>1. ASSUME NEW e \in Events, Enqueue(e) PROVE ClaimInv'
  <2>1. /\ \A i \in queue' : i \in queue \/ i = MakeItem(clock + 1, e, 0)
        /\ UNCHANGED <<pc, held>>
    BY <1>1 DEF Enqueue, local
  <2>2. MakeItem(clock + 1, e, 0).seq = clock + 1
    BY DEF MakeItem
  <2> QED
    BY <1>0, <2>1, <2>2 DEF ClaimInv
<1>2. ASSUME NEW w \in Workers,
             \/ StartClaim(w) \/ SkipLive(w) \/ FindExpired(w) \/ AbortScan(w)
             \/ Unlink(w) \/ AbortUnlink(w) \/ Pick(w) \/ PickNothing(w)
             \/ LoseRename(w) \/ Truncate(w) \/ ApplyOk(w) \/ ApplyErr(w)
             \/ Ack(w) \/ Drop(w) \/ Crash(w)
      PROVE  ClaimInv'
  <2>1. /\ queue' = queue
        /\ \A v \in Workers : pc'[v] \in Claiming =>
              pc[v] \in Claiming /\ held'[v] = held[v]
    BY <1>2
    DEF StartClaim, SkipLive, FindExpired, AbortScan, Unlink, AbortUnlink, Pick,
        PickNothing, LoseRename, Truncate, ApplyOk, ApplyErr, Ack, Drop,
        RemoveLease, Crash, Go, Rest, files, TypeOK
  <2> QED
    BY <2>1 DEF ClaimInv
<1>3. ASSUME NEW w \in Workers, Recover(w) \/ Fail(w) PROVE ClaimInv'
  <2>1. /\ \/ queue' = queue
           \/ queue' = queue \cup
                          {MakeItem(clock + 1, held[w].event, held[w].attempt)}
        /\ \A v \in Workers : pc'[v] \in Claiming =>
              pc[v] \in Claiming /\ held'[v] = held[v]
    BY <1>3 DEF Recover, Fail, Go, PassOn, Requeue, Bury, files, TypeOK
  <2>2. MakeItem(clock + 1, held[w].event, held[w].attempt).seq = clock + 1
    BY DEF MakeItem
  <2> QED
    BY <1>0, <2>1, <2>2 DEF ClaimInv
<1>4. ASSUME NEW w \in Workers, Rename(w) PROVE ClaimInv'
  <2>1. /\ held[w] \in queue
        /\ queue' = queue \ {held[w]}
        /\ held' = held
        /\ \A v \in Workers \ {w} : pc'[v] = pc[v]
    BY <1>4 DEF Rename, Go, TypeOK
  <2> QED
    BY <2>1 DEF ClaimInv
<1>5. ASSUME NEW w \in Workers, Stamp(w) PROVE ClaimInv'
  <2>1. held[w] \in Item /\ pc[w] \in Claiming
    BY <1>5 DEF Stamp, Go, TypeOK
  <2>2. /\ queue' = queue
        /\ held'[w].seq = held[w].seq
        /\ \A v \in Workers \ {w} : pc'[v] = pc[v] /\ held'[v] = held[v]
    BY <1>5, <2>1 DEF Stamp, Go, TypeOK, Item
  <2> QED
    BY <2>1, <2>2 DEF ClaimInv
<1>6. ASSUME UNCHANGED <<queue, pc, held>> PROVE ClaimInv'
  BY <1>6 DEF ClaimInv
<1> QED
  BY <1>1, <1>2, <1>3, <1>4, <1>5, <1>6
  DEF Next, WorkerStep, ClaimStep, DrainStep, Expire, HeartbeatRead,
      HeartbeatTruncate, HeartbeatWrite, HeartbeatKill, files, local, vars

\* At most one worker has a claim on a file of the lease directory, expired
\* and recovered leases included.
THEOREM ClaimsAreExclusive == Spec => []OneClaimantPerFile
<1>1. Init => PrefixInv /\ ClaimInv
  BY DEF Init, PrefixInv, ClaimInv, Busy, Claiming
<1>2. TypeOK /\ PrefixInv /\ ClaimInv /\ [Next]_vars => PrefixInv' /\ ClaimInv'
  BY PrefixStep, ClaimStepKeeps
<1>3. ClaimInv => OneClaimantPerFile
  BY DEF ClaimInv, OneClaimantPerFile, Path
<1> QED
  BY <1>1, <1>2, <1>3, TypeCorrect, PTL DEF Spec

-----------------------------------------------------------------------------
(* Dead letters are exhausted.                                             *)
(*                                                                         *)
(* Every copy of an event descends from a delivery and carries its count,  *)
(* so no count exceeds the deliveries there have been.                     *)

AttemptInv ==
    /\ AttemptsAreDeliveries
    /\ \A w \in Workers : pc[w] \in Busy =>
          held[w].attempt <= deliveries[held[w].event]
    /\ hb # Nothing => hb.attempt <= deliveries[hb.event]
    /\ DeadOnlyWhenExhausted

LEMMA AttemptStep ==
    ASSUME TypeOK, AttemptInv, [Next]_vars
    PROVE  AttemptInv'
<1> USE DEF Labels, Busy, AttemptInv, AttemptsAreDeliveries,
            DeadOnlyWhenExhausted, heartbeat
<1>0. /\ deliveries \in [Events -> Nat]
      /\ \A f \in queue \cup leases : f.event \in Events /\ f.attempt \in Nat
      /\ \A w \in Workers : pc[w] \in Busy =>
            held[w].event \in Events /\ held[w].attempt \in Nat
      /\ \A d \in dead : d.event \in Events
      /\ hb # Nothing => hb.event \in Events /\ hb.attempt \in Nat
  BY DEF TypeOK, Item, Lease, DeadLetter
<1>1. ASSUME NEW e \in Events, Enqueue(e) PROVE AttemptInv'
  <2> DEFINE new == MakeItem(clock + 1, e, 0)
  <2>1. new.event = e /\ new.attempt = 0
    BY DEF MakeItem
  <2>2. /\ queue' = queue \cup {new}
        /\ UNCHANGED <<leases, dead, pc, held, hb, deliveries>>
    BY <1>1 DEF Enqueue, local
  <2> HIDE DEF new
  <2> QED
    BY <1>0, <2>1, <2>2
<1>2. ASSUME NEW w \in Workers,
             \/ StartClaim(w) \/ SkipLive(w) \/ FindExpired(w) \/ AbortScan(w)
             \/ Unlink(w) \/ AbortUnlink(w) \/ Pick(w) \/ PickNothing(w)
             \/ LoseRename(w) \/ Truncate(w) \/ ApplyOk(w) \/ ApplyErr(w)
             \/ Ack(w) \/ Drop(w) \/ Crash(w) \/ HeartbeatRead(w)
      PROVE  AttemptInv'
  <2>1. queue' = queue /\ leases' \subseteq leases
    BY <1>2
    DEF StartClaim, SkipLive, FindExpired, AbortScan, Unlink, AbortUnlink, Pick,
        PickNothing, LoseRename, Truncate, ApplyOk, ApplyErr, Ack, Drop,
        RemoveLease, Crash, HeartbeatRead, Without, files
  <2>2. dead' = dead /\ deliveries' = deliveries
    BY <1>2
    DEF StartClaim, SkipLive, FindExpired, AbortScan, Unlink, AbortUnlink, Pick,
        PickNothing, LoseRename, Truncate, ApplyOk, ApplyErr, Ack, Drop,
        RemoveLease, Crash, HeartbeatRead, files, history
  <2>3. \A v \in Workers : pc'[v] \in Busy =>
           \/ pc[v] \in Busy /\ held'[v] = held[v]
           \/ \E f \in queue \cup leases :
                 held'[v].event = f.event /\ held'[v].attempt = f.attempt
    BY <1>2
    DEF StartClaim, SkipLive, FindExpired, AbortScan, Unlink, AbortUnlink, Pick,
        PickNothing, LoseRename, Truncate, ApplyOk, ApplyErr, Ack, Drop,
        RemoveLease, Crash, HeartbeatRead, Go, Rest, local, ItemOf, MakeItem, TypeOK
  <2>4. hb' = hb \/ hb' \in leases
    BY <1>2
    DEF StartClaim, SkipLive, FindExpired, AbortScan, Unlink, AbortUnlink, Pick,
        PickNothing, LoseRename, Truncate, ApplyOk, ApplyErr, Ack, Drop,
        RemoveLease, Crash, HeartbeatRead
  <2> QED
    BY <2>1, <2>2, <2>3, <2>4
<1>3. ASSUME NEW w \in Workers, Recover(w) \/ Fail(w) PROVE AttemptInv'
  <2>1. /\ held' = held /\ hb' = hb /\ leases' = leases
        /\ deliveries' = deliveries
        /\ pc[w] \in Busy
        /\ \A v \in Workers : pc'[v] \in Busy => pc[v] \in Busy
    BY <1>3 DEF Recover, Fail, Go, PassOn, Requeue, Bury, history, TypeOK
  <2>2. CASE Requeue(held[w])
    <3> DEFINE new == MakeItem(clock + 1, held[w].event, held[w].attempt)
    <3>1. new.event = held[w].event /\ new.attempt = held[w].attempt
      BY DEF MakeItem
    <3>2. queue' = queue \cup {new} /\ dead' = dead
      BY <2>2 DEF Requeue
    <3> HIDE DEF new
    <3> QED
      BY <2>1, <3>1, <3>2
  <2>3. CASE Bury(held[w])
    <3> DEFINE d == [event |-> held[w].event, attempt |-> held[w].attempt]
    <3>1. d.event = held[w].event /\ held[w].attempt >= MaxAttempts
      BY <2>3 DEF Bury
    <3>2. queue' = queue /\ dead' = dead \cup {d}
      BY <2>3 DEF Bury
    <3>3. deliveries[d.event] >= MaxAttempts
      BY <1>0, <2>1, <3>1, LeaseQueueAssumption
    <3> HIDE DEF d
    <3> QED
      BY <2>1, <3>2, <3>3
  <2> QED
    BY <1>3, <2>2, <2>3 DEF Recover, Fail, PassOn
<1>4. ASSUME NEW w \in Workers, Rename(w) PROVE AttemptInv'
  <2> DEFINE new == MakeLease(held[w], held[w].attempt, Nothing)
  <2>1. new.event = held[w].event /\ new.attempt = held[w].attempt
    BY DEF MakeLease
  <2>2. /\ queue' \subseteq queue
        /\ \A l \in leases' : l \in leases \/ l = new
        /\ UNCHANGED <<dead, held, hb, deliveries>>
        /\ pc[w] \in Busy
        /\ \A v \in Workers : pc'[v] \in Busy => pc[v] \in Busy
    BY <1>4 DEF Rename, Go, Without, history, TypeOK
  <2> HIDE DEF new
  <2> QED
    BY <2>1, <2>2
<1>5. ASSUME NEW w \in Workers, Stamp(w) PROVE AttemptInv'
  <2>1. held[w] \in Item /\ pc[w] \in Busy
    BY <1>5 DEF Stamp, Go, TypeOK
  <2> DEFINE new == MakeLease(held[w], held[w].attempt + 1, w)
  <2>2. new.event = held[w].event /\ new.attempt = held[w].attempt + 1
    BY DEF MakeLease
  <2>3. /\ queue' = queue
        /\ \A l \in leases' : l \in leases \/ l = new
        /\ UNCHANGED <<dead, hb>>
    BY <1>5 DEF Stamp, Without
  <2>4. /\ held'[w].event = held[w].event
        /\ held'[w].attempt = held[w].attempt + 1
        /\ \A v \in Workers \ {w} : pc'[v] = pc[v] /\ held'[v] = held[v]
    BY <1>5, <2>1 DEF Stamp, Go, TypeOK, Item
  <2>5. /\ deliveries' \in [Events -> Nat]
        /\ deliveries'[held[w].event] = deliveries[held[w].event] + 1
        /\ \A e \in Events : deliveries[e] <= deliveries'[e]
    BY <1>0, <1>5, <2>1 DEF Stamp, Item
  <2> HIDE DEF new
  <2>6. \A f \in queue' \cup leases' : f.attempt <= deliveries'[f.event]
    BY <1>0, <2>1, <2>2, <2>3, <2>5
  <2>7. \A v \in Workers : pc'[v] \in Busy =>
           held'[v].attempt <= deliveries'[held'[v].event]
    BY <1>0, <2>1, <2>4, <2>5
  <2>8. hb' # Nothing => hb'.attempt <= deliveries'[hb'.event]
    BY <1>0, <2>3, <2>5
  <2>9. \A d \in dead' : deliveries'[d.event] >= MaxAttempts
    BY <1>0, <2>3, <2>5, LeaseQueueAssumption
  <2> QED
    BY <2>6, <2>7, <2>8, <2>9
<1>6. CASE Expire
  <2>1. /\ queue' = queue /\ UNCHANGED <<dead, pc, held, hb, deliveries>>
        /\ \A l \in leases' : l \in leases \/
              \E m \in leases : l.event = m.event /\ l.attempt = m.attempt
    BY <1>6 DEF Expire, local, TypeOK, Lease
  <2> QED
    BY <2>1
<1>7. CASE HeartbeatTruncate \/ HeartbeatWrite \/ HeartbeatKill
  <2>1. /\ queue' = queue /\ UNCHANGED <<dead, pc, held, deliveries>>
        /\ hb # Nothing /\ hb' \in {hb, Nothing}
        /\ \A l \in leases' : l \in leases \/
              (l.event = hb.event /\ l.attempt = hb.attempt)
    BY <1>7 DEF HeartbeatTruncate, HeartbeatWrite, HeartbeatKill, Without, local,
                files, history, TypeOK, Lease
  <2> QED
    BY <2>1
<1>8. CASE UNCHANGED vars
  BY <1>8 DEF vars
<1> QED
  BY <1>1, <1>2, <1>3, <1>4, <1>5, <1>6, <1>7, <1>8
  DEF Next, WorkerStep, ClaimStep, DrainStep

\* No event is dead-lettered before it was delivered max_attempts times,
\* although each copy only knows the deliveries of its own line of descent.
THEOREM DeadLettersAreExhausted == Spec => []DeadOnlyWhenExhausted
<1>1. Init => AttemptInv
  BY DEF Init, AttemptInv, AttemptsAreDeliveries, DeadOnlyWhenExhausted, Busy
<1>2. TypeOK /\ AttemptInv /\ [Next]_vars => AttemptInv'
  BY AttemptStep
<1>3. AttemptInv => DeadOnlyWhenExhausted
  BY DEF AttemptInv
<1> QED
  BY <1>1, <1>2, <1>3, TypeCorrect, PTL DEF Spec
-----------------------------------------------------------------------------
(* Two applications of one event at a time.                                *)
(*                                                                         *)
(* Until a lease of it has timed out, an event is in one place: a single   *)
(* waiting file, or the hands of a single worker that may still put it     *)
(* back.  Only recovery makes a second copy, and it starts from a stale    *)
(* lease.                                                                  *)

\* Labels at which a worker may still apply its event or put it back.
Owning == {"stamp", "write", "apply", "fail"}

\* Nothing carries an event that was never enqueued.
SentInv ==
    /\ \A f \in queue \cup leases : f.event \in sent
    /\ \A w \in Workers : pc[w] \in Busy => held[w].event \in sent
    /\ hb # Nothing => hb.event \in sent

\* What recovery copies had a lease that timed out.
StaleInv ==
    /\ \A l \in leases : l.stale => l.event \in lapsed
    /\ \A w \in Workers : pc[w] = "recover" => held[w].event \in lapsed

OnePlaceInv ==
    /\ \A i, j \in queue : i.event = j.event => i = j \/ i.event \in lapsed
    /\ \A w \in Workers : pc[w] \in Owning =>
          \A i \in queue : i.event = held[w].event => i.event \in lapsed
    /\ \A v, w \in Workers :
          /\ v # w
          /\ pc[v] \in Owning
          /\ pc[w] \in Owning
          /\ held[v].event = held[w].event
          => held[v].event \in lapsed

LEMMA SentStep ==
    ASSUME TypeOK, SentInv, [Next]_vars
    PROVE  SentInv'
<1> USE DEF Labels, Busy, SentInv, heartbeat
<1>0. /\ \A f \in queue \cup leases : f.event \in Events
      /\ sent \subseteq sent'
  <2>1. sent \subseteq sent'
    BY DEF Next, WorkerStep, ClaimStep, DrainStep, StartClaim, SkipLive,
           FindExpired, AbortScan, Recover, Unlink, AbortUnlink, Pick,
           PickNothing, Rename, LoseRename, Truncate, Stamp, ApplyOk, ApplyErr,
           Ack, Fail, Drop, RemoveLease, Crash, Enqueue, Expire, HeartbeatRead,
           HeartbeatTruncate, HeartbeatWrite, HeartbeatKill, history, vars
  <2> QED
    BY <2>1 DEF TypeOK, Item, Lease
<1>1. ASSUME NEW e \in Events, Enqueue(e) PROVE SentInv'
  <2>1. /\ \A i \in queue' : i \in queue \/ i.event = e
        /\ e \in sent'
        /\ UNCHANGED <<leases, pc, held, hb>>
    BY <1>1 DEF Enqueue, MakeItem, local
  <2> QED
    BY <1>0, <2>1
<1>2. ASSUME NEW w \in Workers,
             \/ StartClaim(w) \/ SkipLive(w) \/ FindExpired(w) \/ AbortScan(w)
             \/ Unlink(w) \/ AbortUnlink(w) \/ Pick(w) \/ PickNothing(w)
             \/ LoseRename(w) \/ Truncate(w) \/ ApplyOk(w) \/ ApplyErr(w)
             \/ Ack(w) \/ Drop(w) \/ Crash(w) \/ HeartbeatRead(w)
      PROVE  SentInv'
  <2>1. queue' = queue /\ leases' \subseteq leases
    BY <1>2
    DEF StartClaim, SkipLive, FindExpired, AbortScan, Unlink, AbortUnlink, Pick,
        PickNothing, LoseRename, Truncate, ApplyOk, ApplyErr, Ack, Drop,
        RemoveLease, Crash, HeartbeatRead, Without, files
  <2>2. \A v \in Workers : pc'[v] \in Busy =>
           \/ pc[v] \in Busy /\ held'[v] = held[v]
           \/ \E f \in queue \cup leases : held'[v].event = f.event
    BY <1>2
    DEF StartClaim, SkipLive, FindExpired, AbortScan, Unlink, AbortUnlink, Pick,
        PickNothing, LoseRename, Truncate, ApplyOk, ApplyErr, Ack, Drop,
        RemoveLease, Crash, HeartbeatRead, Go, Rest, local, ItemOf, MakeItem, TypeOK
  <2>3. hb' = hb \/ hb' \in leases
    BY <1>2
    DEF StartClaim, SkipLive, FindExpired, AbortScan, Unlink, AbortUnlink, Pick,
        PickNothing, LoseRename, Truncate, ApplyOk, ApplyErr, Ack, Drop,
        RemoveLease, Crash, HeartbeatRead
  <2> QED
    BY <1>0, <2>1, <2>2, <2>3
<1>3. ASSUME NEW w \in Workers, Recover(w) \/ Fail(w) PROVE SentInv'
  <2>1. /\ \A i \in queue' : i \in queue \/ i.event = held[w].event
        /\ UNCHANGED <<leases, held, hb>>
        /\ pc[w] \in Busy
        /\ \A v \in Workers : pc'[v] \in Busy => pc[v] \in Busy
    BY <1>3 DEF Recover, Fail, Go, PassOn, Requeue, Bury, MakeItem, TypeOK
  <2> QED
    BY <1>0, <2>1
<1>4. ASSUME NEW w \in Workers, Rename(w) \/ Stamp(w) PROVE SentInv'
  <2>1. held[w] \in Item /\ pc[w] \in Busy
    BY <1>4 DEF Rename, Stamp, Go, TypeOK
  <2>2. /\ queue' \subseteq queue
        /\ \A l \in leases' : l \in leases \/ l.event = held[w].event
        /\ hb' = hb
    BY <1>4 DEF Rename, Stamp, Without, MakeLease
  <2>3. \A v \in Workers : pc'[v] \in Busy =>
           pc[v] \in Busy /\ held'[v].event = held[v].event
    BY <1>4, <2>1 DEF Rename, Stamp, Go, TypeOK, Item
  <2> QED
    BY <1>0, <2>1, <2>2, <2>3
<1>5. CASE Expire \/ HeartbeatTruncate \/ HeartbeatWrite \/ HeartbeatKill
  <2>1. /\ queue' = queue /\ UNCHANGED <<pc, held>>
        /\ hb' \in {hb, Nothing}
        /\ \A l \in leases' : \/ \E m \in leases : l.event = m.event
                              \/ hb # Nothing /\ l.event = hb.event
    BY <1>5 DEF Expire, HeartbeatTruncate, HeartbeatWrite, HeartbeatKill,
                Without, local, files, TypeOK, Lease
  <2> QED
    BY <1>0, <2>1
<1>6. CASE UNCHANGED vars
  BY <1>6 DEF vars
<1> QED
  BY <1>1, <1>2, <1>3, <1>4, <1>5, <1>6
  DEF Next, WorkerStep, ClaimStep, DrainStep

LEMMA LapsedGrows ==
    ASSUME [Next]_vars
    PROVE  lapsed \subseteq lapsed'
  BY DEF Next, WorkerStep, ClaimStep, DrainStep, StartClaim, SkipLive,
         FindExpired, AbortScan, Recover, Unlink, AbortUnlink, Pick,
         PickNothing, Rename, LoseRename, Truncate, Stamp, ApplyOk, ApplyErr,
         Ack, Fail, Drop, RemoveLease, Crash, Enqueue, Expire, HeartbeatRead,
         HeartbeatTruncate, HeartbeatWrite, HeartbeatKill, history, vars

LEMMA StaleStep ==
    ASSUME TypeOK, StaleInv, [Next]_vars
    PROVE  StaleInv'
<1> USE LapsedGrows DEF StaleInv, heartbeat
<1>1. \A l \in leases' : l.stale => l.event \in lapsed'
  <2>1. ASSUME NEW w \in Workers, Rename(w) \/ Stamp(w)
        PROVE  \A l \in leases' : l \in leases \/ ~l.stale
    BY <2>1 DEF Rename, Stamp, Without, MakeLease
  <2>2. ASSUME NEW w \in Workers,
               \/ StartClaim(w) \/ SkipLive(w) \/ FindExpired(w)
               \/ AbortScan(w) \/ Unlink(w) \/ AbortUnlink(w) \/ Pick(w)
               \/ PickNothing(w) \/ LoseRename(w) \/ Truncate(w) \/ ApplyOk(w)
               \/ ApplyErr(w) \/ Ack(w) \/ Drop(w) \/ Crash(w)
               \/ HeartbeatRead(w) \/ Recover(w) \/ Fail(w)
        PROVE  leases' \subseteq leases
    BY <2>2
    DEF StartClaim, SkipLive, FindExpired, AbortScan, Unlink, AbortUnlink, Pick,
        PickNothing, LoseRename, Truncate, ApplyOk, ApplyErr, Ack, Drop,
        RemoveLease, Crash, HeartbeatRead, Recover, Fail, PassOn, Requeue, Bury, Without,
        files
  <2>3. CASE Expire
    BY <2>3 DEF Expire, TypeOK, Lease
  <2>4. CASE HeartbeatTruncate \/ HeartbeatWrite \/ HeartbeatKill
    <3>1. \A l \in leases' : l \in leases \/ ~l.stale
      BY <2>4 DEF HeartbeatTruncate, HeartbeatWrite, HeartbeatKill, Without,
                  files, TypeOK, Lease
    <3> QED
      BY <3>1
  <2>5. ASSUME UNCHANGED leases
        PROVE  \A l \in leases' : l.stale => l.event \in lapsed'
    BY <2>5
  <2> QED
    BY <2>1, <2>2, <2>3, <2>4, <2>5
    DEF Next, WorkerStep, ClaimStep, DrainStep, Enqueue, vars
<1>2. ASSUME NEW v \in Workers, pc'[v] = "recover"
      PROVE  held'[v].event \in lapsed'
  <2>1. ASSUME NEW w \in Workers, FindExpired(w)
        PROVE  \/ pc[v] = "recover" /\ held'[v] = held[v]
               \/ \E l \in leases : l.stale /\ held'[v].event = l.event
    BY <1>2, <2>1 DEF FindExpired, Go, ItemOf, MakeItem, TypeOK
  <2>2. ASSUME NEW w \in Workers,
               \/ StartClaim(w) \/ SkipLive(w) \/ Rename(w) \/ Stamp(w)
               \/ AbortScan(w) \/ Unlink(w) \/ AbortUnlink(w) \/ Pick(w)
               \/ PickNothing(w) \/ LoseRename(w) \/ Truncate(w) \/ ApplyOk(w)
               \/ ApplyErr(w) \/ Ack(w) \/ Drop(w) \/ Crash(w)
               \/ HeartbeatRead(w) \/ Recover(w) \/ Fail(w)
        PROVE  pc[v] = "recover" /\ held'[v] = held[v]
    BY <1>2, <2>2
    DEF StartClaim, SkipLive, AbortScan, Unlink, AbortUnlink, Pick, Rename,
        PickNothing, LoseRename, Truncate, Stamp, ApplyOk, ApplyErr, Ack, Drop,
        RemoveLease, Crash, HeartbeatRead, Recover, Fail, Go, Rest, local,
        TypeOK
  <2>3. ASSUME UNCHANGED <<pc, held>>
        PROVE  pc[v] = "recover" /\ held'[v] = held[v]
    BY <1>2, <2>3
  <2> QED
    BY <2>1, <2>2, <2>3
    DEF Next, WorkerStep, ClaimStep, DrainStep, Enqueue, Expire,
        HeartbeatTruncate, HeartbeatWrite, HeartbeatKill, local, vars
<1> QED
  BY <1>1, <1>2

LEMMA OnePlaceStep ==
    ASSUME TypeOK, SentInv, StaleInv, OnePlaceInv, [Next]_vars
    PROVE  OnePlaceInv'
<1> USE LapsedGrows DEF Labels, Owning, OnePlaceInv, heartbeat
<1>1. ASSUME NEW e \in Events, Enqueue(e) PROVE OnePlaceInv'
  <2>1. /\ queue' = queue \cup {MakeItem(clock + 1, e, 0)}
        /\ MakeItem(clock + 1, e, 0).event = e
        /\ \A i \in queue : i.event # e
        /\ \A w \in Workers : pc[w] \in Owning => held[w].event # e
        /\ UNCHANGED <<pc, held>>
    BY <1>1 DEF Enqueue, MakeItem, local, SentInv, Busy
  <2> QED
    BY <2>1
<1>2. ASSUME NEW w \in Workers,
             \/ StartClaim(w) \/ SkipLive(w) \/ FindExpired(w) \/ AbortScan(w)
             \/ Unlink(w) \/ AbortUnlink(w) \/ Pick(w) \/ PickNothing(w)
             \/ LoseRename(w) \/ Truncate(w) \/ ApplyOk(w) \/ ApplyErr(w)
             \/ Ack(w) \/ Drop(w) \/ Crash(w)
      PROVE  OnePlaceInv'
  <2>1. /\ queue' = queue
        /\ \A v \in Workers : pc'[v] \in Owning =>
              pc[v] \in Owning /\ held'[v] = held[v]
    BY <1>2
    DEF StartClaim, SkipLive, FindExpired, AbortScan, Unlink, AbortUnlink, Pick,
        PickNothing, LoseRename, Truncate, ApplyOk, ApplyErr, Ack, Drop,
        RemoveLease, Crash, Go, Rest, files, TypeOK
  <2> QED
    BY <2>1
<1>3. ASSUME NEW w \in Workers, Recover(w) PROVE OnePlaceInv'
  <2>1. /\ \A i \in queue' : i \in queue \/ i.event = held[w].event
        /\ held[w].event \in lapsed
        /\ \A v \in Workers : pc'[v] \in Owning =>
              pc[v] \in Owning /\ held'[v] = held[v]
    BY <1>3
    DEF Recover, Go, PassOn, Requeue, Bury, MakeItem, StaleInv, TypeOK
  <2> QED
    BY <2>1
<1>4. ASSUME NEW w \in Workers, Fail(w) PROVE OnePlaceInv'
  <2> DEFINE new == MakeItem(clock + 1, held[w].event, held[w].attempt)
  <2>1. /\ \A i \in queue' : i \in queue \/ i = new
        /\ new.event = held[w].event
        /\ pc[w] \in Owning
        /\ held' = held
        /\ \A v \in Workers : pc'[v] \in Owning => v # w /\ pc[v] \in Owning
    BY <1>4 DEF Fail, Go, PassOn, Requeue, Bury, MakeItem, TypeOK
  <2> HIDE DEF new
  <2> QED
    BY <2>1
<1>5. ASSUME NEW w \in Workers, Rename(w) PROVE OnePlaceInv'
  <2>1. /\ held[w] \in queue
        /\ queue' = queue \ {held[w]}
        /\ held' = held
        /\ \A v \in Workers \ {w} : pc'[v] = pc[v]
    BY <1>5 DEF Rename, Go, TypeOK
  <2> QED
    BY <2>1
<1>6. ASSUME NEW w \in Workers, Stamp(w) PROVE OnePlaceInv'
  <2>1. held[w] \in Item /\ pc[w] \in Owning
    BY <1>6 DEF Stamp, Go, TypeOK
  <2>2. /\ queue' = queue
        /\ held'[w].event = held[w].event
        /\ \A v \in Workers \ {w} : pc'[v] = pc[v] /\ held'[v] = held[v]
    BY <1>6, <2>1 DEF Stamp, Go, TypeOK, Item
  <2> QED
    BY <2>1, <2>2
<1>7. ASSUME UNCHANGED <<queue, pc, held>> PROVE OnePlaceInv'
  BY <1>7
<1> QED
  BY <1>1, <1>2, <1>3, <1>4, <1>5, <1>6, <1>7
  DEF Next, WorkerStep, ClaimStep, DrainStep, Expire, HeartbeatRead,
      HeartbeatTruncate, HeartbeatWrite, HeartbeatKill, files, local, vars

\* Requeueing after a failure and crashes alone never have two workers apply
\* one event at the same time: a lease of it must have timed out before.
THEOREM OverlapsFollowExpiry == Spec => []OverlapOnlyAfterExpiry
<1>1. Init => SentInv /\ StaleInv /\ OnePlaceInv
  BY DEF Init, SentInv, StaleInv, OnePlaceInv, Busy, Owning
<1>2. TypeOK /\ SentInv /\ StaleInv /\ OnePlaceInv /\ [Next]_vars
        => SentInv' /\ StaleInv' /\ OnePlaceInv'
  BY SentStep, StaleStep, OnePlaceStep
<1>3. OnePlaceInv => OverlapOnlyAfterExpiry
  BY DEF OnePlaceInv, OverlapOnlyAfterExpiry, Owning
<1> QED
  BY <1>1, <1>2, <1>3, TypeCorrect, PTL DEF Spec
=============================================================================
