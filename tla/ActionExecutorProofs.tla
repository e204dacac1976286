------------------------ MODULE ActionExecutorProofs ------------------------
(* Proofs about ActionExecutor.  Once a success is recorded under a key no *)
(* executor that looks runs the operation again, and one that is at work   *)
(* looked before; with one executor at a time per key that is enough.      *)
EXTENDS ActionExecutor, TLAPS

USE ExecutorAssumption

-----------------------------------------------------------------------------
(* Types.                                                                  *)

\* Initially the state is typed.
LEMMA InitTyped == Init => TypeOK
  BY DEF Init, TypeOK, Points, Outcome, Record

\* Counting keeps the type of a counter, and changes it at one key only.
LEMMA CountTyped ==
    ASSUME NEW f \in [Keys -> Nat], NEW k
    PROVE  /\ Count(f, k) \in [Keys -> Nat]
           /\ \A x \in Keys : x # k => Count(f, k)[x] = f[x]
           /\ k \in Keys => Count(f, k)[k] = f[k] + 1
  BY DEF Count

LEMMA CountOther ==
    ASSUME NEW f \in [Keys -> Nat], NEW k, NEW x \in Keys, x # k
    PROVE  Count(f, k)[x] = f[x]
  BY CountTyped

\* The end of a call leaves the executor typed.
LEMMA LeaveTyped ==
    ASSUME TypeOK, NEW p \in Executors, Leave(p)
    PROVE  /\ at' \in [Executors -> Points]
           /\ call' \in [Executors -> Calls \cup {Nothing}]
           /\ attempts' \in [Executors -> Nat]
           /\ result' \in [Executors -> Outcome]
           /\ \A q \in Executors : at'[q] # "ready" => call'[q] \in Calls
           /\ \A q \in Executors :
                 at'[q] \in {"load", "write", "rename"} => call'[q].key \in Keys
           /\ \A q \in Executors : at'[q] = "ok" => result'[q] \in Values
  BY DEF TypeOK, Leave, Goto, Points, Outcome

\* A final outcome of an attempt, or the decision to try again.
LEMMA ConcludeTyped ==
    ASSUME TypeOK, NEW p \in Executors, NEW o \in Outcome,
           at[p] = "run", UNCHANGED call, Conclude(p, o)
    PROVE  /\ at' \in [Executors -> Points]
           /\ result' \in [Executors -> Outcome]
           /\ \A q \in Executors : at'[q] # "ready" => call'[q] \in Calls
           /\ \A q \in Executors :
                 at'[q] \in {"load", "write", "rename"} => call'[q].key \in Keys
           /\ \A q \in Executors : at'[q] = "ok" => result'[q] \in Values
  <1>1. call[p] \in Calls /\ call[p].key \in Keys \cup {NoKey}
    BY DEF TypeOK, Call
  <1> QED
    BY <1>1 DEF TypeOK, Conclude, Goto, Points, Outcome

LEMMA TryAgainTyped ==
    ASSUME TypeOK, NEW p \in Executors, NEW b \in BOOLEAN,
           at[p] = "run", UNCHANGED call, TryAgain(p, b)
    PROVE  /\ at' \in [Executors -> Points]
           /\ attempts' \in [Executors -> Nat]
           /\ result' \in [Executors -> Outcome]
           /\ \A q \in Executors : at'[q] # "ready" => call'[q] \in Calls
           /\ \A q \in Executors :
                 at'[q] \in {"load", "write", "rename"} => call'[q].key \in Keys
           /\ \A q \in Executors : at'[q] = "ok" => result'[q] \in Values
  <1>1. attempts' \in [Executors -> Nat]
    BY DEF TypeOK, TryAgain
  <1>2. CASE UNCHANGED <<at, result>>
    BY <1>1, <1>2 DEF TypeOK
  <1>3. CASE Conclude(p, Failed)
    BY <1>1, <1>3, ConcludeTyped DEF Outcome
  <1> QED
    BY <1>2, <1>3 DEF TryAgain

LEMMA ForgetTyped ==
    ASSUME TypeOK, NEW p, Forget(p)
    PROVE  lost' \in [Keys -> Nat]
  BY CountTyped DEF TypeOK, Forget

\* Every step keeps the state typed.
LEMMA NextTyped ==
    ASSUME TypeOK, [Next]_vars
    PROVE  TypeOK'
  <1>1. ASSUME NEW p \in Executors, NEW c \in Calls, Begin(p, c)
        PROVE  TypeOK'
    <2>1. c \in Call /\ c.key \in Keys \cup {NoKey}
      BY DEF Call
    <2>2. calls' \in 0 .. MaxCalls
      BY <1>1 DEF Begin, TypeOK
    <2> QED
      BY <1>1, <2>1, <2>2 DEF Begin, TypeOK, Goto, Points, store, history
  <1>2. ASSUME NEW p \in Executors, Load(p)
        PROVE  TypeOK'
    <2> DEFINE r == records[call[p].key]
    <2>1. call[p] \in Calls /\ call[p].key \in Keys
      BY <1>2 DEF Load, TypeOK
    <2>2. Succeeded(r) => r.outcome \in Values
      BY <2>1 DEF Succeeded, TypeOK, Record, Outcome
    <2>3. CASE ~Succeeded(r)
      BY <1>2, <2>1, <2>3 DEF Load, TypeOK, Goto, Points, store, history
    <2>4. CASE Succeeded(r) /\ ReadBack[r.outcome] = Unreadable
      BY <1>2, <2>1, <2>4 DEF Load, Readable, TypeOK, Goto, Points, store, history
    <2>5. CASE Succeeded(r) /\ ReadBack[r.outcome] # Unreadable
      <3>1. ReadBack[r.outcome] \in Values
        BY <2>2, <2>5
      <3> QED
        BY <1>2, <2>1, <2>5, <3>1
        DEF Load, Readable, TypeOK, Goto, Points, store, history, Outcome
    <2> QED
      BY <2>3, <2>4, <2>5
  <1>3. ASSUME NEW p \in Executors, RunInTime(p)
        PROVE  TypeOK'
    <2>1. PICK v \in Values : Conclude(p, v)
      BY <1>3 DEF RunInTime
    <2>2. at[p] = "run" /\ UNCHANGED call /\ v \in Outcome
      BY <1>3 DEF RunInTime, Outcome
    <2>3. effects' \in [Keys -> Nat]
      BY <1>3, CountTyped DEF RunInTime, TypeOK
    <2>4. attempts' \in [Executors -> Nat]
      BY <1>3 DEF RunInTime, TypeOK
    <2> QED
      BY <1>3, <2>1, <2>2, <2>3, <2>4, ConcludeTyped
      DEF RunInTime, TypeOK, store
  <1>4. ASSUME NEW p \in Executors, RunLate(p)
        PROVE  TypeOK'
    <2>1. effects' \in [Keys -> Nat] /\ lost' \in [Keys -> Nat]
      BY <1>4, CountTyped DEF RunLate, TypeOK
    <2>2. at[p] = "run" /\ UNCHANGED call /\ TryAgain(p, TRUE)
      BY <1>4 DEF RunLate
    <2> QED
      BY <1>4, <2>1, <2>2, TryAgainTyped DEF RunLate, TypeOK, store
  <1>5. ASSUME NEW p \in Executors, RunFails(p)
        PROVE  TypeOK'
    <2>1. PICK b \in BOOLEAN : TryAgain(p, b)
      BY <1>5 DEF RunFails
    <2>2. at[p] = "run" /\ UNCHANGED call
      BY <1>5 DEF RunFails
    <2> QED
      BY <1>5, <2>1, <2>2, TryAgainTyped DEF RunFails, TypeOK, store, history
  <1>6. ASSUME NEW p \in Executors, Write(p)
        PROVE  TypeOK'
    <2>1. [outcome |-> result[p], attempts |-> attempts[p]] \in Record
      BY DEF TypeOK, Record
    <2> QED
      BY <1>6, <2>1 DEF Write, TypeOK, Goto, Points, history
  <1>7. ASSUME NEW p \in Executors, Rename(p)
        PROVE  TypeOK'
    <2>1. lost' \in [Keys -> Nat]
      BY <1>7, ForgetTyped DEF Rename, TypeOK
    <2>2. call[p].key \in Keys
      BY <1>7 DEF Rename, TypeOK
    <2>3. result[p] # Failed => result[p] \in Values
      BY DEF TypeOK, Outcome
    <2>4. CASE tmp[call[p].key] = Absent
      BY <1>7, <2>1, <2>2, <2>4 DEF Rename, TypeOK, Goto, Points, store
    <2>5. CASE tmp[call[p].key] # Absent
      BY <1>7, <2>1, <2>2, <2>3, <2>5 DEF Rename, TypeOK, Goto, Points
    <2> QED
      BY <2>4, <2>5
  <1>8. ASSUME NEW p \in Executors, SaveFails(p)
        PROVE  TypeOK'
    BY <1>8, ForgetTyped DEF SaveFails, TypeOK, Goto, Points, store
  <1>9. ASSUME NEW p \in Executors, Return(p)
        PROVE  TypeOK'
    <2>1. at[p] = "ok" /\ call[p].key # NoKey
             => call[p].key \in Keys /\ result[p] \in Values
      BY DEF TypeOK, Call
    <2>2. replies' \subseteq Keys \X Values
      BY <1>9, <2>1 DEF Return, TypeOK
    <2>3. Leave(p)
      BY <1>9 DEF Return
    <2> QED
      BY <1>9, <2>2, <2>3, LeaveTyped DEF Return, TypeOK, store
  <1>10. ASSUME NEW p \in Executors, Crash(p)
         PROVE  TypeOK'
    <2>1. Leave(p) /\ Forget(p)
      BY <1>10 DEF Crash
    <2> QED
      BY <1>10, <2>1, LeaveTyped, ForgetTyped DEF Crash, TypeOK, store
  <1>11. CASE UNCHANGED vars
    BY <1>11 DEF TypeOK, vars
  <1> QED
    BY <1>1, <1>2, <1>3, <1>4, <1>5, <1>6, <1>7, <1>8, <1>9, <1>10, <1>11
    DEF Next, Step, Run

\* Every reachable state is typed, whatever the executors do to one another.
THEOREM TypeCorrect == Spec => []TypeOK
  BY InitTyped, NextTyped, PTL DEF Spec

-----------------------------------------------------------------------------
(* The inductive invariant of one executor at a time.                      *)

\* Executor p is about to record the success of an operation under key k.
Holds(p, k) ==
    at[p] \in {"write", "rename"} /\ call[p].key = k /\ result[p] # Failed

Recorded(k) == Succeeded(records[k]) \/ \E p \in Executors : Holds(p, k)

\* Who runs an operation, or is about to save an outcome, found no success.
LookedFirst ==
    \A p \in Executors :
        at[p] \in {"run", "write", "rename"} /\ call[p].key \in Keys
            => ~Succeeded(records[call[p].key])

\* What is about to be renamed is what the executor wrote.
TmpIsMine ==
    \A p \in Executors :
        at[p] = "rename" => /\ tmp[call[p].key] # Absent
                            /\ tmp[call[p].key].outcome = result[p]

\* At most one effect of a key is not yet accounted for, and only while a
\* success is recorded or about to be.
Accounted ==
    \A k \in Keys :
        /\ effects[k] <= 1 + lost[k]
        /\ ~Recorded(k) => effects[k] <= lost[k]

\* What was returned, or is about to be, is what the record says.
SavedAs(k, v) ==
    Succeeded(records[k]) /\ ReadBack[records[k].outcome] = ReadBack[v]

RepliedIsSaved ==
    /\ \A r \in replies : SavedAs(r[1], r[2])
    /\ \A p \in Executors :
          at[p] = "ok" /\ call[p].key \in Keys => SavedAs(call[p].key, result[p])

Inv ==
    /\ TypeOK
    /\ Exclusive
    /\ LookedFirst
    /\ TmpIsMine
    /\ Accounted
    /\ RepliedIsSaved

\* The invariant holds initially.
LEMMA InitInv == Init => Inv
  <1> SUFFICES ASSUME Init PROVE Inv
    OBVIOUS
  <1>1. TypeOK
    BY InitTyped
  <1>2. Accounted
    BY DEF Init, Accounted
  <1> QED
    BY <1>1, <1>2 DEF Init, Inv, Exclusive, Serving, LookedFirst, TmpIsMine,
                      RepliedIsSaved

\* With one executor at a time per key, no other is at work under k.
LEMMA Alone ==
    ASSUME Exclusive, NEW p \in Executors, NEW q \in Executors, p # q,
           Serving(p), Serving(q), call[p].key \in Keys
    PROVE  call[q].key # call[p].key
  BY DEF Exclusive

\* An attempt leads to a save, to a return or to the next attempt, of the
\* executor that made it.
LEMMA RunMoves ==
    ASSUME TypeOK, NEW p \in Executors, Run(p)
    PROVE  /\ at[p] = "run"
           /\ at'[p] \in {"run", "write", "ok", "err"}
           /\ at'[p] = "ok" => call[p].key \notin Keys
           /\ \A q \in Executors : q # p => at'[q] = at[q] /\ result'[q] = result[q]
           /\ UNCHANGED <<store, call, replies>>
  <1>1. call[p].key = NoKey => call[p].key \notin Keys
    OBVIOUS
  <1> QED
    BY <1>1 DEF Run, RunInTime, RunLate, RunFails, TryAgain, Conclude, Goto,
                TypeOK, history

LEMMA NextLookedFirst ==
    ASSUME Inv, [Next]_vars
    PROVE  LookedFirst'
  <1> SUFFICES ASSUME NEW q \in Executors,
                      at'[q] \in {"run", "write", "rename"},
                      call'[q].key \in Keys
               PROVE  ~Succeeded(records'[call'[q].key])
    BY DEF LookedFirst, Succeeded
  <1> USE DEF Inv
  <1>1. ASSUME NEW p \in Executors, NEW c \in Calls, Begin(p, c)
        PROVE  ~Succeeded(records'[call'[q].key])
    BY <1>1 DEF Begin, LookedFirst, TypeOK, Goto, store
  <1>2. ASSUME NEW p \in Executors, Load(p)
        PROVE  ~Succeeded(records'[call'[q].key])
    <2>1. q = p => ~Succeeded(records[call[p].key])
      BY <1>2 DEF Load, Goto, TypeOK
    <2> QED
      BY <1>2, <2>1 DEF Load, LookedFirst, TypeOK, Goto, store
  <1>3. ASSUME NEW p \in Executors, Run(p)
        PROVE  ~Succeeded(records'[call'[q].key])
    <2>1. at[q] \in {"run", "write", "rename"}
      BY <1>3, RunMoves
    <2> QED
      BY <1>3, <2>1, RunMoves DEF LookedFirst, store
  <1>4. ASSUME NEW p \in Executors, Write(p)
        PROVE  ~Succeeded(records'[call'[q].key])
    BY <1>4 DEF Write, LookedFirst, TypeOK, Goto
  <1>5. ASSUME NEW p \in Executors, Rename(p)
        PROVE  ~Succeeded(records'[call'[q].key])
    <2>1. q # p /\ at[q] \in {"run", "write", "rename"} /\ call'[q] = call[q]
      BY <1>5 DEF Rename, Goto, TypeOK
    <2>2. call[q].key # call[p].key
      BY <1>5, <2>1, Alone DEF Serving, Rename
    <2> QED
      BY <1>5, <2>1, <2>2 DEF Rename, LookedFirst, TypeOK, store
  <1>6. ASSUME NEW p \in Executors, SaveFails(p)
        PROVE  ~Succeeded(records'[call'[q].key])
    BY <1>6 DEF SaveFails, LookedFirst, TypeOK, Goto, store
  <1>7. ASSUME NEW p \in Executors, Return(p) \/ Crash(p)
        PROVE  ~Succeeded(records'[call'[q].key])
    BY <1>7 DEF Return, Crash, Leave, LookedFirst, TypeOK, Goto, store
  <1>8. CASE UNCHANGED vars
    BY <1>8 DEF vars, LookedFirst
  <1> QED
    BY <1>1, <1>2, <1>3, <1>4, <1>5, <1>6, <1>7, <1>8 DEF Next, Step

LEMMA NextTmpIsMine ==
    ASSUME Inv, [Next]_vars
    PROVE  TmpIsMine'
  <1> SUFFICES ASSUME NEW q \in Executors, at'[q] = "rename"
               PROVE  /\ tmp'[call'[q].key] # Absent
                      /\ tmp'[call'[q].key].outcome = result'[q]
    BY DEF TmpIsMine
  <1> USE DEF Inv
  <1>1. ASSUME NEW p \in Executors, NEW c \in Calls, Begin(p, c)
        PROVE  /\ tmp'[call'[q].key] # Absent
               /\ tmp'[call'[q].key].outcome = result'[q]
    BY <1>1 DEF Begin, TmpIsMine, TypeOK, Goto, store
  <1>2. ASSUME NEW p \in Executors, Load(p)
        PROVE  /\ tmp'[call'[q].key] # Absent
               /\ tmp'[call'[q].key].outcome = result'[q]
    BY <1>2 DEF Load, TmpIsMine, TypeOK, Goto, store
  <1>3. ASSUME NEW p \in Executors, Run(p)
        PROVE  /\ tmp'[call'[q].key] # Absent
               /\ tmp'[call'[q].key].outcome = result'[q]
    <2>1. q # p /\ at[q] = "rename"
      BY <1>3, RunMoves
    <2> QED
      BY <1>3, <2>1, RunMoves DEF TmpIsMine, store
  <1>4. ASSUME NEW p \in Executors, Write(p)
        PROVE  /\ tmp'[call'[q].key] # Absent
               /\ tmp'[call'[q].key].outcome = result'[q]
    <2>1. call[p].key \in Keys /\ UNCHANGED <<call, result>>
      BY <1>4 DEF Write, TypeOK
    <2>2. CASE q = p
      <3> DEFINE r == [outcome |-> result[p], attempts |-> attempts[p]]
      <3>1. r \in Record
        BY DEF TypeOK, Record
      <3>2. tmp'[call[p].key] = r
        BY <1>4, <2>1 DEF Write, TypeOK
      <3> QED
        BY <2>1, <2>2, <3>1, <3>2
    <2>3. CASE q # p
      <3>1. at[q] = "rename"
        BY <1>4, <2>3 DEF Write, Goto, TypeOK
      <3>2. call[q].key # call[p].key
        BY <1>4, <2>1, <2>3, <3>1, Alone DEF Serving, Write
      <3> QED
        BY <1>4, <2>1, <3>1, <3>2 DEF Write, TmpIsMine, TypeOK
    <2> QED
      BY <2>2, <2>3
  <1>5. ASSUME NEW p \in Executors, Rename(p)
        PROVE  /\ tmp'[call'[q].key] # Absent
               /\ tmp'[call'[q].key].outcome = result'[q]
    <2>1. q # p /\ at[q] = "rename" /\ UNCHANGED <<call, result>>
      BY <1>5 DEF Rename, Goto, TypeOK
    <2>2. call[q].key # call[p].key
      BY <1>5, <2>1, Alone DEF Serving, Rename, TypeOK
    <2> QED
      BY <1>5, <2>1, <2>2 DEF Rename, TmpIsMine, TypeOK, store
  <1>6. ASSUME NEW p \in Executors, SaveFails(p)
        PROVE  /\ tmp'[call'[q].key] # Absent
               /\ tmp'[call'[q].key].outcome = result'[q]
    BY <1>6 DEF SaveFails, TmpIsMine, TypeOK, Goto, store
  <1>7. ASSUME NEW p \in Executors, Return(p) \/ Crash(p)
        PROVE  /\ tmp'[call'[q].key] # Absent
               /\ tmp'[call'[q].key].outcome = result'[q]
    BY <1>7 DEF Return, Crash, Leave, TmpIsMine, TypeOK, Goto, store
  <1>8. CASE UNCHANGED vars
    BY <1>8 DEF vars, TmpIsMine
  <1> QED
    BY <1>1, <1>2, <1>3, <1>4, <1>5, <1>6, <1>7, <1>8 DEF Next, Step

\* The books stay balanced by a step that changes neither counter and forgets
\* no success.
LEMMA Balanced ==
    ASSUME Accounted, UNCHANGED <<effects, lost>>,
           \A k \in Keys : Recorded(k) => Recorded(k)'
    PROVE  Accounted'
  BY DEF Accounted

\* A success stays recorded if the records stay and so does who holds it.
LEMMA StillRecorded ==
    ASSUME UNCHANGED records, NEW k \in Keys,
           \A q \in Executors : Holds(q, k) => Holds(q, k)'
    PROVE  Recorded(k) => Recorded(k)'
  BY DEF Recorded, Succeeded

\* Steps that are not at "write" or "rename" take no success away.
LEMMA RunKeeps ==
    ASSUME TypeOK, NEW p \in Executors, Run(p), NEW k \in Keys
    PROVE  Recorded(k) => Recorded(k)'
  <1>1. UNCHANGED records
    BY RunMoves DEF store
  <1>2. ASSUME NEW q \in Executors, Holds(q, k)
        PROVE  Holds(q, k)'
    <2>1. q # p
      BY <1>2, RunMoves DEF Holds
    <2> QED
      BY <1>2, <2>1, RunMoves DEF Holds
  <1> QED
    BY <1>1, <1>2, StillRecorded

\* A success is dropped and counted as lost, or it is not touched.
LEMMA ForgetBalances ==
    ASSUME TypeOK, Accounted, NEW p \in Executors, Forget(p),
           UNCHANGED <<records, effects>>,
           \A q \in Executors, k \in Keys : q # p /\ Holds(q, k) => Holds(q, k)'
    PROVE  Accounted'
  <1> SUFFICES ASSUME NEW k \in Keys
               PROVE  /\ effects'[k] <= 1 + lost'[k]
                      /\ ~Recorded(k)' => effects'[k] <= lost'[k]
    BY DEF Accounted
  <1>1. /\ effects[k] <= 1 + lost[k]
        /\ ~Recorded(k) => effects[k] <= lost[k]
        /\ effects[k] \in Nat /\ lost[k] \in Nat
    BY DEF Accounted, TypeOK
  <1>2. CASE Holds(p, k)
    <2>1. lost'[k] = lost[k] + 1
      BY <1>2, CountTyped DEF Holds, Forget, TypeOK
    <2> QED
      BY <1>1, <2>1
  <1>3. CASE ~Holds(p, k)
    <2>1. lost'[k] = lost[k]
      <3>1. CASE lost' = lost
        BY <3>1
      <3>2. CASE lost' = Count(lost, call[p].key) /\ call[p].key # k
        <4>1. lost \in [Keys -> Nat]
          BY DEF TypeOK
        <4> QED
          BY <3>2, <4>1, CountTyped
      <3> QED
        BY <1>3, <3>1, <3>2 DEF Holds, Forget
    <2>2. Recorded(k) => Recorded(k)'
      BY <1>3 DEF Recorded, Succeeded
    <2> QED
      BY <1>1, <2>1, <2>2
  <1> QED
    BY <1>2, <1>3

LEMMA NextAccounted ==
    ASSUME Inv, [Next]_vars
    PROVE  Accounted'
  <1> USE DEF Inv
  <1>1. ASSUME NEW p \in Executors, NEW c \in Calls, Begin(p, c)
        PROVE  Accounted'
    <2>1. \A q \in Executors, k \in Keys : Holds(q, k) => Holds(q, k)'
      BY <1>1 DEF Begin, Holds, Goto, TypeOK
    <2> QED
      BY <1>1, <2>1, StillRecorded, Balanced DEF Begin, store, history
  <1>2. ASSUME NEW p \in Executors, Load(p)
        PROVE  Accounted'
    <2>1. \A q \in Executors, k \in Keys : Holds(q, k) => Holds(q, k)'
      BY <1>2 DEF Load, Holds, Goto, TypeOK
    <2> QED
      BY <1>2, <2>1, StillRecorded, Balanced DEF Load, store, history
  <1>3. ASSUME NEW p \in Executors, RunInTime(p)
        PROVE  Accounted'
    <2> SUFFICES ASSUME NEW k \in Keys
                 PROVE  /\ effects'[k] <= 1 + lost'[k]
                        /\ ~Recorded(k)' => effects'[k] <= lost'[k]
      BY DEF Accounted
    <2>1. /\ effects[k] <= 1 + lost[k]
          /\ ~Recorded(k) => effects[k] <= lost[k]
          /\ effects[k] \in Nat /\ lost[k] \in Nat /\ lost' = lost
      BY <1>3 DEF Accounted, TypeOK, RunInTime
    <2>0. effects \in [Keys -> Nat] /\ effects' = Count(effects, call[p].key)
      BY <1>3 DEF RunInTime, TypeOK
    <2>2. Run(p)
      BY <1>3 DEF Run
    <2>3. CASE call[p].key # k
      <3>1. effects'[k] = effects[k]
        BY <2>0, <2>3, CountTyped
      <3> QED
        BY <2>1, <2>2, <3>1, RunKeeps
    <2>4. CASE call[p].key = k
      <3>1. at[p] = "run" /\ ~Succeeded(records[k])
        BY <1>3, <2>4 DEF RunInTime, LookedFirst
      <3>2. ASSUME NEW q \in Executors, Holds(q, k)
            PROVE  FALSE
        <4>1. q # p
          BY <3>1, <3>2 DEF Holds
        <4> QED
          BY <2>4, <3>1, <3>2, <4>1, Alone DEF Holds, Serving
      <3>3. effects'[k] = effects[k] + 1
        BY <2>0, <2>4, CountTyped
      <3>4. Holds(p, k)'
        <4>1. PICK v \in Values : Conclude(p, v)
          BY <1>3 DEF RunInTime
        <4> QED
          BY <1>3, <2>4, <4>1 DEF RunInTime, Conclude, Goto, Holds, TypeOK
      <3> QED
        BY <2>1, <3>1, <3>2, <3>3, <3>4 DEF Recorded
    <2> QED
      BY <2>3, <2>4
  <1>4. ASSUME NEW p \in Executors, RunLate(p)
        PROVE  Accounted'
    <2> SUFFICES ASSUME NEW k \in Keys
                 PROVE  /\ effects'[k] <= 1 + lost'[k]
                        /\ ~Recorded(k)' => effects'[k] <= lost'[k]
      BY DEF Accounted
    <2>1. /\ effects[k] <= 1 + lost[k]
          /\ ~Recorded(k) => effects[k] <= lost[k]
          /\ effects[k] \in Nat /\ lost[k] \in Nat
      BY DEF Accounted, TypeOK
    <2>2. Recorded(k) => Recorded(k)'
      BY <1>4, RunKeeps DEF Run
    <2>3. \/ effects'[k] = effects[k] /\ lost'[k] = lost[k]
          \/ effects'[k] = effects[k] + 1 /\ lost'[k] = lost[k] + 1
      <3>1. /\ effects \in [Keys -> Nat] /\ lost \in [Keys -> Nat]
            /\ effects' = Count(effects, call[p].key)
            /\ lost' = Count(lost, call[p].key)
        BY <1>4 DEF RunLate, TypeOK
      <3>2. CASE call[p].key = k
        BY <3>1, <3>2, CountTyped
      <3>3. CASE call[p].key # k
        <4>1. Count(effects, call[p].key)[k] = effects[k]
          BY <3>1, <3>3, CountOther
        <4>2. Count(lost, call[p].key)[k] = lost[k]
          BY <3>1, <3>3, CountOther
        <4> QED
          BY <3>1, <4>1, <4>2
      <3> QED
        BY <3>2, <3>3
    <2> QED
      BY <2>1, <2>2, <2>3
  <1>5. ASSUME NEW p \in Executors, RunFails(p)
        PROVE  Accounted'
    BY <1>5, RunKeeps, Balanced DEF RunFails, Run, history
  <1>6. ASSUME NEW p \in Executors, Write(p)
        PROVE  Accounted'
    <2>1. \A q \in Executors, k \in Keys : Holds(q, k) => Holds(q, k)'
      BY <1>6 DEF Write, Holds, Goto, TypeOK
    <2> QED
      BY <1>6, <2>1, StillRecorded, Balanced DEF Write, history
  <1>7. ASSUME NEW p \in Executors, Rename(p)
        PROVE  Accounted'
    <2> DEFINE kp == call[p].key
    <2>1. /\ at[p] = "rename" /\ kp \in Keys
          /\ tmp[kp] # Absent /\ tmp[kp].outcome = result[p]
      BY <1>7 DEF Rename, TmpIsMine, TypeOK
    <2>2. /\ records' = [records EXCEPT ![kp] = tmp[kp]]
          /\ UNCHANGED <<effects, lost, call, result>>
          /\ \A q \in Executors : q # p => at'[q] = at[q]
      BY <1>7, <2>1 DEF Rename, Goto, TypeOK
    <2>3. ASSUME NEW k \in Keys, Recorded(k)
          PROVE  Recorded(k)'
      <3>1. CASE k # kp
        <4>1. records'[k] = records[k]
          BY <2>1, <2>2, <3>1 DEF TypeOK
        <4>2. \A q \in Executors : Holds(q, k) => Holds(q, k)'
          BY <2>2, <3>1 DEF Holds
        <4> QED
          BY <2>3, <4>1, <4>2 DEF Recorded, Succeeded
      <3>2. CASE k = kp
        <4>1. ~Succeeded(records[k])
          BY <2>1, <3>2 DEF LookedFirst
        <4>2. PICK q \in Executors : Holds(q, k)
          BY <2>3, <4>1 DEF Recorded
        <4>3. q = p
          BY <2>1, <3>2, <4>2, Alone DEF Holds, Serving
        <4>4. records'[k] = tmp[kp]
          BY <2>1, <2>2, <3>2 DEF TypeOK
        <4> QED
          BY <2>1, <4>2, <4>3, <4>4 DEF Holds, Recorded, Succeeded
      <3> QED
        BY <3>1, <3>2
    <2> QED
      BY <2>2, <2>3, Balanced
  <1>8. ASSUME NEW p \in Executors, SaveFails(p)
        PROVE  Accounted'
    <2>1. \A q \in Executors, k \in Keys : q # p /\ Holds(q, k) => Holds(q, k)'
      BY <1>8 DEF SaveFails, Holds, Goto, TypeOK
    <2> QED
      BY <1>8, <2>1, ForgetBalances DEF SaveFails, store
  <1>9. ASSUME NEW p \in Executors, Return(p)
        PROVE  Accounted'
    <2>1. \A q \in Executors, k \in Keys : Holds(q, k) => Holds(q, k)'
      BY <1>9 DEF Return, Leave, Holds, Goto, TypeOK
    <2> QED
      BY <1>9, <2>1, StillRecorded, Balanced DEF Return, store
  <1>10. ASSUME NEW p \in Executors, Crash(p)
         PROVE  Accounted'
    <2>1. \A q \in Executors, k \in Keys : q # p /\ Holds(q, k) => Holds(q, k)'
      BY <1>10 DEF Crash, Leave, Holds, Goto, TypeOK
    <2> QED
      BY <1>10, <2>1, ForgetBalances DEF Crash, store
  <1>11. CASE UNCHANGED vars
    BY <1>11, Balanced DEF vars, Recorded, Holds, Succeeded
  <1> QED
    BY <1>1, <1>2, <1>3, <1>4, <1>5, <1>6, <1>7, <1>8, <1>9, <1>10, <1>11
    DEF Next, Step, Run

\* A recorded success is not overwritten: who writes looked before.
LEMMA SavedStays ==
    ASSUME Inv, [Next]_vars, NEW k \in Keys, Succeeded(records[k])
    PROVE  records'[k] = records[k]
  <1> USE DEF Inv
  <1>1. ASSUME NEW p \in Executors, Rename(p)
        PROVE  records'[k] = records[k]
    <2>1. at[p] = "rename" /\ call[p].key \in Keys
      BY <1>1 DEF Rename, TypeOK
    <2>2. call[p].key # k
      BY <2>1 DEF LookedFirst
    <2> QED
      BY <1>1, <2>1, <2>2 DEF Rename, TypeOK, store
  <1>2. ASSUME NEW p \in Executors, Run(p)
        PROVE  records'[k] = records[k]
    BY <1>2, RunMoves DEF store
  <1>3. CASE UNCHANGED vars
    BY <1>3 DEF vars
  <1> QED
    BY <1>1, <1>2, <1>3
    DEF Next, Step, Begin, Load, Write, SaveFails, Return, Crash, store

LEMMA SavedAsStays ==
    ASSUME Inv, [Next]_vars, NEW k \in Keys, NEW v, SavedAs(k, v)
    PROVE  /\ Succeeded(records'[k])
           /\ ReadBack[records'[k].outcome] = ReadBack[v]
  BY SavedStays DEF SavedAs, Succeeded

\* An executor about to return a value under its key did so before the step,
\* or has just found the value in the record or put it there.
LEMMA OkIsSaved ==
    ASSUME Inv, [Next]_vars, NEW q \in Executors,
           at'[q] = "ok", call'[q].key \in Keys
    PROVE  /\ Succeeded(records'[call'[q].key])
           /\ ReadBack[records'[call'[q].key].outcome] = ReadBack[result'[q]]
  <1> DEFINE Saved == /\ Succeeded(records'[call'[q].key])
                      /\ ReadBack[records'[call'[q].key].outcome] = ReadBack[result'[q]]
  <1>1. ASSUME at[q] = "ok", call'[q] = call[q], result'[q] = result[q]
        PROVE  Saved
    <2>1. SavedAs(call[q].key, result[q])
      BY <1>1 DEF Inv, RepliedIsSaved
    <2> QED
      BY <1>1, <2>1, SavedAsStays
  <1>2. ASSUME NEW p \in Executors, Load(p), p = q
        PROVE  Saved
    <2> DEFINE r == records[call[p].key]
    <2>1. call[p].key \in Keys /\ call' = call /\ records' = records
      BY <1>2 DEF Load, store
    <2>2. /\ Succeeded(r) /\ ReadBack[r.outcome] # Unreadable
          /\ result'[q] = ReadBack[r.outcome]
      BY <1>2 DEF Inv, Load, Readable, Goto, TypeOK
    <2>3. r.outcome \in Values
      BY <2>1, <2>2 DEF Inv, TypeOK, Record, Outcome, Succeeded
    <2>4. ReadBack[r.outcome] \in Values
      BY <2>2, <2>3
    <2>5. ReadBack[ReadBack[r.outcome]] = ReadBack[r.outcome]
      BY <2>3, <2>4
    <2> QED
      BY <1>2, <2>1, <2>2, <2>5 DEF Succeeded
  <1>3. ASSUME NEW p \in Executors, Rename(p), p = q
        PROVE  Saved
    <2> DEFINE k == call[p].key
    <2>1. /\ at[p] = "rename" /\ k \in Keys
          /\ tmp[k] # Absent /\ tmp[k].outcome = result[p]
      BY <1>3 DEF Inv, Rename, TmpIsMine, TypeOK
    <2>2. /\ call' = call /\ result' = result /\ records'[k] = tmp[k]
          /\ result[p] # Failed
      BY <1>3, <2>1 DEF Inv, Rename, Goto, TypeOK
    <2> QED
      BY <1>3, <2>1, <2>2 DEF Succeeded
  <1> HIDE DEF Saved
  <1>4. ASSUME NEW p \in Executors, Run(p)
        PROVE  Saved
    <2>1. q # p
      BY <1>4, RunMoves DEF Inv
    <2>2. at[q] = "ok" /\ call'[q] = call[q] /\ result'[q] = result[q]
      BY <1>4, <2>1, RunMoves DEF Inv
    <2> QED
      BY <1>1, <2>2
  <1>5. ASSUME NEW p \in Executors,
               \/ \E c \in Calls : Begin(p, c)
               \/ Load(p) /\ p # q
               \/ Write(p)
               \/ Rename(p) /\ p # q
               \/ SaveFails(p)
               \/ Return(p)
               \/ Crash(p)
        PROVE  Saved
    <2>1. at[q] = "ok" /\ call'[q] = call[q] /\ result'[q] = result[q]
      BY <1>5 DEF Inv, TypeOK, Begin, Load, Write, Rename, SaveFails, Return,
                  Crash, Leave, Goto
    <2> QED
      BY <1>1, <2>1
  <1>6. ASSUME UNCHANGED vars
        PROVE  Saved
    <2>1. at[q] = "ok" /\ call'[q] = call[q] /\ result'[q] = result[q]
      BY <1>6 DEF vars
    <2> QED
      BY <1>1, <2>1
  <1>7. ASSUME Next
        PROVE  Saved
    <2>1. PICK p \in Executors :
             (\E c \in Calls : Begin(p, c)) \/ Step(p) \/ Crash(p)
      BY <1>7 DEF Next
    <2> QED
      BY <2>1, <1>2, <1>3, <1>4, <1>5 DEF Step
  <1>8. Saved
    BY <1>6, <1>7
  <1> QED
    BY <1>8 DEF Saved

LEMMA NextRepliedIsSaved ==
    ASSUME Inv, [Next]_vars
    PROVE  RepliedIsSaved'
  <1> USE DEF Inv
  <1>1. ASSUME NEW r \in replies
        PROVE  SavedAs(r[1], r[2])'
    <2>1. r[1] \in Keys /\ SavedAs(r[1], r[2])
      BY DEF TypeOK, RepliedIsSaved
    <2> QED
      BY <2>1, SavedAsStays DEF SavedAs, Succeeded
  <1>2. ASSUME NEW r \in replies', r \notin replies
        PROVE  SavedAs(r[1], r[2])'
    <2>1. PICK p \in Executors : Return(p)
      BY <1>2, RunMoves
      DEF Next, Step, Begin, Load, Write, Rename, SaveFails, Crash, vars, history
    <2>2. /\ at[p] = "ok" /\ call[p].key # NoKey
          /\ r = <<call[p].key, result[p]>>
          /\ UNCHANGED records
      BY <1>2, <2>1 DEF Return, store
    <2>3. call[p].key \in Keys
      BY <2>2 DEF TypeOK, Call
    <2>4. SavedAs(call[p].key, result[p])
      BY <2>2, <2>3 DEF RepliedIsSaved
    <2> QED
      BY <2>2, <2>4 DEF SavedAs, Succeeded
  <1>3. ASSUME NEW p \in Executors, at'[p] = "ok", call'[p].key \in Keys
        PROVE  SavedAs(call[p].key, result[p])'
    BY <1>3, OkIsSaved DEF SavedAs, Succeeded
  <1> QED
    BY <1>1, <1>2, <1>3 DEF RepliedIsSaved

\* The invariant is inductive while one executor at a time works under a key.
LEMMA NextInv == Inv /\ [Next /\ Exclusive']_vars => Inv'
  <1> SUFFICES ASSUME Inv, [Next /\ Exclusive']_vars PROVE Inv'
    OBVIOUS
  <1>1. [Next]_vars
    OBVIOUS
  <1>2. TypeOK'
    BY <1>1, NextTyped DEF Inv
  <1>3. Exclusive'
    BY DEF Inv, Exclusive, Serving, vars
  <1> QED
    BY <1>1, <1>2, <1>3, NextLookedFirst, NextTmpIsMine, NextAccounted,
       NextRepliedIsSaved DEF Inv

LEMMA InvHolds == ExclusiveSpec => []Inv
  BY InitInv, NextInv, PTL DEF ExclusiveSpec

-----------------------------------------------------------------------------
(* Theorems.                                                               *)

\* An operation takes effect under a key once, and once more for every success
\* that came too late or that a kill or an error kept out of the store.
THEOREM RepeatsExplained == ExclusiveSpec => []RepeatsAreExplained
  <1>1. Inv => RepeatsAreExplained
    BY DEF Inv, Accounted, RepeatsAreExplained
  <1> QED
    BY <1>1, InvHolds, PTL

\* Two calls under one key that return a value return the same, whatever was
\* retried, killed or lost between them.
THEOREM RepliesAlwaysAgree == ExclusiveSpec => []RepliesAgree
  <1>1. Inv => RepliesAgree
    BY DEF Inv, RepliedIsSaved, SavedAs, RepliesAgree
  <1> QED
    BY <1>1, InvHolds, PTL

\* After a call returned a value no operation runs under its key any more.
THEOREM ReplyIsFinal == ExclusiveSpec => NoRunAfterReply
  <1>1. ASSUME Inv, [Next]_vars, NEW r \in replies
        PROVE  effects'[r[1]] = effects[r[1]]
    <2>1. r[1] \in Keys /\ Succeeded(records[r[1]])
      BY <1>1 DEF Inv, TypeOK, RepliedIsSaved, SavedAs
    <2>2. CASE effects' = effects
      BY <2>2
    <2>3. ASSUME NEW p \in Executors, RunInTime(p) \/ RunLate(p)
          PROVE  effects'[r[1]] = effects[r[1]]
      <3>1. at[p] = "run" /\ effects' = Count(effects, call[p].key)
        BY <2>3 DEF RunInTime, RunLate
      <3>2. call[p].key # r[1]
        BY <1>1, <2>1, <3>1 DEF Inv, LookedFirst
      <3>3. effects \in [Keys -> Nat]
        BY <1>1 DEF Inv, TypeOK
      <3> QED
        BY <2>1, <3>1, <3>2, <3>3, CountOther
    <2> QED
      BY <1>1, <2>2, <2>3
      DEF Next, Step, Run, Begin, Load, RunFails, Write, Rename, SaveFails,
          Return, Crash, history, vars
  <1>2. Inv /\ [Next]_vars
          => [\A r \in replies : effects'[r[1]] = effects[r[1]]]_vars
    BY <1>1
  <1>3. [Next /\ Exclusive']_vars => [Next]_vars
    OBVIOUS
  <1> QED
    BY <1>2, <1>3, InvHolds, PTL DEF ExclusiveSpec, NoRunAfterReply
=============================================================================
