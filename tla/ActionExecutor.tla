--------------------------- MODULE ActionExecutor ---------------------------
(***************************************************************************)
(* ActionExecutor over FileIdempotencyStore (num-runtime/src/execution.rs).*)
(* A call with an idempotency key first looks for the record of an earlier *)
(* success; otherwise it runs the operation, again while it fails in a way *)
(* that can be retried, and saves the outcome.  The operation has effects  *)
(* the executor cannot undo, its timeout is looked at after it has run,    *)
(* and the process may be killed, or the store fail, between the effect    *)
(* and the record.                                                         *)
(***************************************************************************)
EXTENDS Integers

CONSTANTS
    Executors,    \* processes with an executor on the same store
    Keys,         \* idempotency keys
    NoKey,        \* an action without one
    Values,       \* what operations return
    ReadBack,     \* what reading a saved value gives: [Values -> Values or Unreadable]
    Unreadable,   \* the record cannot be decoded
    Failed,       \* the outcome of a failure
    Absent,       \* no record
    Nothing,      \* no call
    Calls,        \* the calls that are made (a subset of Call)
    StoreFails,   \* whether saving may fail
    CrashPoints,  \* where a process may be killed (a set of Points)
    MaxCalls      \* bound: calls begun

VARIABLES
    records,   \* <root>/idempotency/<key>.json
    tmp,       \* <root>/idempotency/<key>.json.tmp
    at,        \* where each executor stands in execute
    call,      \* the call it serves
    attempts,  \* the attempts it has made
    result,    \* the outcome it is going to save or to return
    effects,   \* history: how often an operation succeeded, by key
    lost,      \* history: successes the executor did not get to record
    replies,   \* history: the values returned, by key
    calls      \* calls begun so far

store == <<records, tmp>>
history == <<effects, lost, replies>>
vars == <<records, tmp, at, call, attempts, result, effects, lost, replies, calls>>

Points == {"ready", "load", "run", "write", "rename", "ok", "err"}

\* The key; the number of attempts asked for; whether there is no time limit,
\* a limit, or a limit of nothing; whether the cost is within its limit.
Call == [key : Keys \cup {NoKey}, tries : Nat,
         timeout : {"none", "some", "zero"}, affordable : BOOLEAN]

Outcome == Values \cup {Failed}
Record == [outcome : Outcome, attempts : Nat]

ASSUME ExecutorAssumption ==
    /\ Calls \subseteq Call
    /\ ReadBack \in [Values -> Values \cup {Unreadable}]
    /\ \A v \in Values : ReadBack[v] \in Values => ReadBack[ReadBack[v]] = ReadBack[v]
    /\ Failed \notin Values
    /\ Unreadable \notin Values
    /\ NoKey \notin Keys
    /\ Absent \notin Record
    /\ Nothing \notin Call
    /\ StoreFails \in BOOLEAN
    /\ CrashPoints \subseteq Points \ {"ready"}
    /\ MaxCalls \in Nat

TypeOK ==
    /\ records \in [Keys -> Record \cup {Absent}]
    /\ tmp \in [Keys -> Record \cup {Absent}]
    /\ at \in [Executors -> Points]
    /\ call \in [Executors -> Calls \cup {Nothing}]
    /\ attempts \in [Executors -> Nat]
    /\ result \in [Executors -> Outcome]
    /\ \A p \in Executors : at[p] # "ready" => call[p] \in Calls
    /\ \A p \in Executors :
          at[p] \in {"load", "write", "rename"} => call[p].key \in Keys
    /\ \A p \in Executors : at[p] = "ok" => result[p] \in Values
    /\ effects \in [Keys -> Nat]
    /\ lost \in [Keys -> Nat]
    /\ replies \subseteq Keys \X Values
    /\ calls \in 0 .. MaxCalls

Init ==
    /\ records = [k \in Keys |-> Absent]
    /\ tmp = [k \in Keys |-> Absent]
    /\ at = [p \in Executors |-> "ready"]
    /\ call = [p \in Executors |-> Nothing]
    /\ attempts = [p \in Executors |-> 0]
    /\ result = [p \in Executors |-> Failed]
    /\ effects = [k \in Keys |-> 0]
    /\ lost = [k \in Keys |-> 0]
    /\ replies = {}
    /\ calls = 0

-----------------------------------------------------------------------------
Goto(p, to) == at' = [at EXCEPT ![p] = to]

Leave(p) ==
    /\ Goto(p, "ready")
    /\ call' = [call EXCEPT ![p] = Nothing]
    /\ attempts' = [attempts EXCEPT ![p] = 0]
    /\ result' = [result EXCEPT ![p] = Failed]

Count(f, k) == [x \in Keys |-> f[x] + IF x = k THEN 1 ELSE 0]

\* enforce_cost, and whether there is a key to look up.
Begin(p, c) ==
    /\ calls < MaxCalls
    /\ calls' = calls + 1
    /\ at[p] = "ready"
    /\ Goto(p, IF ~c.affordable THEN "err"
               ELSE IF c.key = NoKey THEN "run" ELSE "load")
    /\ call' = [call EXCEPT ![p] = c]
    /\ UNCHANGED <<store, attempts, result, history>>

\* IdempotencyStore::load: a record of a success is the answer, one of a
\* failure is not.
Succeeded(r) == r # Absent /\ r.outcome # Failed

\* json_to_runtime_value knows the kind the value was written as.
Readable(r) == ReadBack[r.outcome] # Unreadable

\* Faulty variant: only a success at the first attempt is remembered.
ReplaysFirstTries(p) ==
    /\ at[p] = "load"
    /\ LET r == records[call[p].key] IN
       IF ~Succeeded(r) \/ r.attempts > 1 THEN Goto(p, "run") /\ UNCHANGED result
       ELSE IF ~Readable(r)
            THEN Goto(p, "err") /\ UNCHANGED result
            ELSE Goto(p, "ok") /\ result' = [result EXCEPT ![p] = ReadBack[r.outcome]]
    /\ UNCHANGED <<store, call, attempts, history, calls>>

Load(p) ==
    /\ at[p] = "load"
    /\ LET r == records[call[p].key] IN
       IF ~Succeeded(r) THEN Goto(p, "run") /\ UNCHANGED result
       ELSE IF ~Readable(r)
            THEN Goto(p, "err") /\ UNCHANGED result
            ELSE Goto(p, "ok") /\ result' = [result EXCEPT ![p] = ReadBack[r.outcome]]
    /\ UNCHANGED <<store, call, attempts, history, calls>>

\* RetryPolicy::attempts
Allowed(c) == IF c.tries < 1 THEN 1 ELSE c.tries

\* Faulty variant: saves the outcome of an action without a key.
SavesUnkeyed(p, o) ==
    /\ result' = [result EXCEPT ![p] = o]
    /\ Goto(p, "write")

\* The outcome is final: it is saved if there is a key.
Conclude(p, o) ==
    /\ result' = [result EXCEPT ![p] = o]
    /\ Goto(p, IF call[p].key # NoKey THEN "write"
               ELSE IF o = Failed THEN "err" ELSE "ok")

\* Faulty variant: the attempt is not counted.
TryForEver(p, retryable) ==
    IF retryable /\ attempts[p] + 1 < Allowed(call[p])
    THEN UNCHANGED <<at, result, attempts>>
    ELSE Conclude(p, Failed) /\ UNCHANGED attempts

\* An attempt failed; is_retryable decides on the next.
TryAgain(p, retryable) ==
    /\ attempts' = [attempts EXCEPT ![p] = @ + 1]
    /\ IF retryable /\ attempts[p] + 1 < Allowed(call[p])
       THEN UNCHANGED <<at, result>>
       ELSE Conclude(p, Failed)

\* The operation succeeded in time.
RunInTime(p) ==
    /\ at[p] = "run"
    /\ call[p].timeout # "zero"
    /\ attempts' = [attempts EXCEPT ![p] = @ + 1]
    /\ \E v \in Values : Conclude(p, v)
    /\ effects' = Count(effects, call[p].key)
    /\ UNCHANGED <<store, call, lost, replies, calls>>

\* It succeeded, and took longer than allowed: a timeout, which is retried.
RunLate(p) ==
    /\ at[p] = "run"
    /\ call[p].timeout = "some"
    /\ TryAgain(p, TRUE)
    /\ effects' = Count(effects, call[p].key)
    /\ lost' = Count(lost, call[p].key)
    /\ UNCHANGED <<store, call, replies, calls>>

\* It failed, or there is no time to run it in.
RunFails(p) ==
    /\ at[p] = "run"
    /\ \E retryable \in BOOLEAN :
          /\ call[p].timeout = "zero" => retryable
          /\ TryAgain(p, retryable)
    /\ UNCHANGED <<store, call, history, calls>>

\* FileIdempotencyStore::save, in two system calls.
Write(p) ==
    /\ at[p] = "write"
    /\ Goto(p, "rename")
    /\ tmp' = [tmp EXCEPT ![call[p].key] =
                  [outcome |-> result[p], attempts |-> attempts[p]]]
    /\ UNCHANGED <<records, call, attempts, result, history, calls>>

\* A success that will not be recorded.
Forget(p) ==
    lost' = IF at[p] \in {"write", "rename"} /\ result[p] # Failed
            THEN Count(lost, call[p].key) ELSE lost

\* Faulty variant: failures are saved, successes are not.
RenameFailures(p) ==
    /\ at[p] = "rename"
    /\ LET k == call[p].key IN
       IF tmp[k] = Absent
       THEN Goto(p, "err") /\ Forget(p) /\ UNCHANGED store
       ELSE /\ Goto(p, IF result[p] = Failed THEN "err" ELSE "ok")
            /\ records' = IF result[p] = Failed
                          THEN [records EXCEPT ![k] = tmp[k]] ELSE records
            /\ tmp' = [tmp EXCEPT ![k] = Absent]
            /\ UNCHANGED lost
    /\ UNCHANGED <<call, attempts, result, effects, replies, calls>>

Rename(p) ==
    /\ at[p] = "rename"
    /\ LET k == call[p].key IN
       IF tmp[k] = Absent
       THEN Goto(p, "err") /\ Forget(p) /\ UNCHANGED store
       ELSE /\ Goto(p, IF result[p] = Failed THEN "err" ELSE "ok")
            /\ records' = [records EXCEPT ![k] = tmp[k]]
            /\ tmp' = [tmp EXCEPT ![k] = Absent]
            /\ UNCHANGED lost
    /\ UNCHANGED <<call, attempts, result, effects, replies, calls>>

SaveFails(p) ==
    /\ StoreFails
    /\ at[p] \in {"write", "rename"}
    /\ Goto(p, "err")
    /\ Forget(p)
    /\ UNCHANGED <<store, call, attempts, result, effects, replies, calls>>

Return(p) ==
    /\ at[p] \in {"ok", "err"}
    /\ replies' = IF at[p] = "ok" /\ call[p].key # NoKey
                  THEN replies \cup {<<call[p].key, result[p]>>} ELSE replies
    /\ Leave(p)
    /\ UNCHANGED <<store, effects, lost, calls>>

Crash(p) ==
    /\ at[p] \in CrashPoints
    /\ Forget(p)
    /\ Leave(p)
    /\ UNCHANGED <<store, effects, replies, calls>>

Run(p) == RunInTime(p) \/ RunLate(p) \/ RunFails(p)

Step(p) ==
    Load(p) \/ Run(p) \/ Write(p) \/ Rename(p) \/ SaveFails(p) \/ Return(p)

Next ==
    \E p \in Executors :
        \/ \E c \in Calls : Begin(p, c)
        \/ Step(p)
        \/ Crash(p)

Spec == Init /\ [][Next]_vars

\* One executor at a time works under a key: nothing in the store sees to it.
Serving(p) == at[p] \in {"load", "run", "write", "rename"}

Exclusive ==
    \A p, q \in Executors :
        p # q /\ Serving(p) /\ Serving(q)
            => call[p].key # call[q].key \/ call[p].key = NoKey

ExclusiveSpec == Init /\ [][Next /\ Exclusive']_vars

\* A process that is not killed goes on, and every operation returns.
FairSpec == ExclusiveSpec /\ \A p \in Executors : WF_vars(Step(p))

-----------------------------------------------------------------------------
(* Properties.                                                             *)

\* Whatever is retried, timed out, killed or lost, two calls under a key that
\* both return a value return the same, up to what saving makes of it.
RepliesAgree ==
    \A r, s \in replies : r[1] = s[1] => ReadBack[r[2]] = ReadBack[s[2]]

\* An operation takes effect under a key more than once only for a reason:
\* a success that came too late, or that a kill or an error of the store kept
\* from being recorded.
RepeatsAreExplained == \A k \in Keys : effects[k] <= 1 + lost[k]

\* Once a call has returned a value, no operation runs under its key again.
NoRunAfterReply ==
    [][\A r \in replies : effects'[r[1]] = effects[r[1]]]_vars

\* Every call returns or is killed: the attempts run out.
CallsEnd == \A p \in Executors : at[p] # "ready" ~> at[p] = "ready"

\* Docs: "idempotency replay", "file-backed idempotency stores for action
\* execution records".  A call that finds the record of a success returns it.
SuccessReplays ==
    [][\A p \in Executors :
          at[p] = "load" /\ at'[p] = "err"
              => ~Succeeded(records[call[p].key])]_vars
=============================================================================
