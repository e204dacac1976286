------------------------------ MODULE Runtime ------------------------------
(***************************************************************************)
(* Runtime of num-runtime/src/interpreter.rs with its CostLedger (cost.rs):*)
(* one run of a workflow, a service route or a test.  The program is any:  *)
(* every statement is a choice.  What is kept is the stack of constructs   *)
(* being evaluated and the state they save, change and restore on the way  *)
(* in and out, whether their body ends or fails: variable scopes, budget   *)
(* scopes, the saga flag and its list of compensations, and the store of   *)
(* idempotency records, which is taken away while an action runs.          *)
(***************************************************************************)
EXTENDS Integers, Sequences

CONSTANTS
    Actions,    \* declared actions
    Keys,       \* idempotency keys
    NoKey,      \* an action without one
    NoAction,   \* no action
    KeyOf,      \* the key of each call of an action: [Actions -> Keys or NoKey]
    Tries,      \* its `retry`: [Actions -> 1, 2, ...]
    Cost,       \* its `cost`, 0 without one: [Actions -> Nat]
    UndoOf,     \* its `rollback`: [Actions -> Actions or NoAction]
    Timed,      \* the actions with a `timeout`
    Callees,    \* what their bodies may call, also through others: [Actions -> SUBSET Actions]
    Limits,     \* the `budget`s that are declared
    NoLimit,    \* no `budget`
    MaxDepth,   \* bound: constructs inside one another
    MaxSteps    \* bound: constructs entered by the program

VARIABLES
    stack,      \* the constructs being evaluated
    failing,    \* an error is on its way up
    outcome,    \* of the run
    scopes,     \* the number of variable scopes
    budgets,    \* CostLedger.budget_scopes
    spent,      \* CostLedger.spent
    inSaga,     \* in_saga
    rollbacks,  \* saga_rollbacks
    store,      \* the keys with a record of a success
    steps,      \* constructs entered so far
    serial,     \* history: compensations registered so far
    undone,     \* history: the compensations begun, in order
    saved,      \* history: the successes recorded under each key
    unpaid,     \* history: the successes whose cost was not charged
    nested,     \* history: an action was called while another ran
    caught      \* history: an error did not end the run

frames == <<stack, failing, outcome, scopes>>
ledger == <<budgets, spent>>
sagas == <<inSaga, rollbacks, serial>>
history == <<saved, unpaid, nested>>
vars == <<stack, failing, outcome, scopes, budgets, spent, inSaga, rollbacks,
          store, steps, serial, undone, saved, unpaid, nested, caught>>

Entries == {"workflow", "route", "test"}
Undoing == {"undo", "undoAll"}
Kinds == Entries \cup Undoing \cup {"call", "block", "if", "saga", "action"}
Limit == Limits \cup {NoLimit}
Rollback == [of : Actions, n : Nat]

\* of .. expected are locals of the Rust functions; level, depth, from and
\* upto are history: the budgets, the scopes and the compensations there were
\* when the construct was entered, and when it failed.
Frame == [kind : Kinds, of : Actions \cup {NoAction}, tries : Nat,
          kept : SUBSET Keys, was : BOOLEAN, pre : Nat, todo : Seq(Rollback),
          limit : Limit, expected : BOOLEAN,
          level : Nat, depth : Nat, from : Nat, upto : Nat]

ASSUME RuntimeAssumption ==
    /\ NoAction \notin Actions
    /\ NoKey \notin Keys
    /\ KeyOf \in [Actions -> Keys \cup {NoKey}]
    /\ Tries \in [Actions -> Nat \ {0}]
    /\ Cost \in [Actions -> Nat]
    /\ UndoOf \in [Actions -> Actions \cup {NoAction}]
    /\ Timed \subseteq Actions
    /\ Callees \in [Actions -> SUBSET Actions]
    /\ Limits \subseteq Nat
    /\ NoLimit \notin Nat
    /\ MaxDepth \in Nat
    /\ MaxSteps \in Nat

TypeOK ==
    /\ stack \in Seq(Frame)
    /\ failing \in BOOLEAN
    /\ outcome \in {"new", "running", "ok", "err"}
    /\ scopes \in Nat
    /\ budgets \in Seq([limit : Nat, baseline : Nat])
    /\ spent \in Nat
    /\ inSaga \in BOOLEAN
    /\ rollbacks \in Seq(Rollback)
    /\ store \subseteq Keys
    /\ steps \in Nat
    /\ serial \in Nat
    /\ undone \in Seq(Nat)
    /\ saved \in [Keys -> Nat]
    /\ unpaid \in Nat
    /\ nested \in BOOLEAN
    /\ caught \in BOOLEAN

Init ==
    /\ stack = <<>>
    /\ failing = FALSE
    /\ outcome = "new"
    /\ scopes = 1
    /\ budgets = <<>>
    /\ spent = 0
    /\ inSaga = FALSE
    /\ rollbacks = <<>>
    /\ store = {}
    /\ steps = 0
    /\ serial = 0
    /\ undone = <<>>
    /\ saved = [k \in Keys |-> 0]
    /\ unpaid = 0
    /\ nested = FALSE
    /\ caught = FALSE

-----------------------------------------------------------------------------
Top == stack[Len(stack)]
Below == SubSeq(stack, 1, Len(stack) - 1)
Replace(f) == [stack EXCEPT ![Len(stack)] = f]

Enter(kind) ==
    [kind |-> kind, of |-> NoAction, tries |-> 0, kept |-> {}, was |-> FALSE,
     pre |-> 0, todo |-> <<>>, limit |-> NoLimit, expected |-> FALSE,
     level |-> Len(budgets), depth |-> scopes, from |-> serial, upto |-> serial]

\* A statement is next, in the construct on top.
Running == stack # <<>> /\ ~failing /\ Top.kind \notin Undoing
Ended(kind) == Running /\ Top.kind = kind
Failed(kind) == stack # <<>> /\ failing /\ Top.kind = kind

Room ==
    /\ Len(stack) < MaxDepth
    /\ steps < MaxSteps
    /\ steps' = steps + 1

\* enter_budget_scope, exit_budget_scope
OpenBudget(l) ==
    budgets' = IF l = NoLimit THEN budgets
               ELSE Append(budgets, [limit |-> l, baseline |-> spent])
CloseBudget(f) ==
    budgets' = IF f.limit = NoLimit THEN budgets
               ELSE SubSeq(budgets, 1, Len(budgets) - 1)

\* check_budget_scopes, on the way to authorize and to charge
Affordable(cost) ==
    \A i \in 1 .. Len(budgets) :
        spent + cost - budgets[i].baseline <= budgets[i].limit

\* run_workflow, run_service_route and run_test up to the body; what they
\* refuse before it leaves nothing behind.
Start(kind, l) ==
    /\ outcome = "new"
    /\ kind = "test" => l = NoLimit
    /\ outcome' = "running"
    /\ stack' = <<[Enter(kind) EXCEPT !.limit = l]>>
    /\ scopes' = scopes + 1
    /\ OpenBudget(l)
    /\ UNCHANGED <<failing, spent, sagas, store, steps, undone, history, caught>>

\* A statement fails: a rejection, a permission, a connector, a rate limit.
Fail ==
    /\ Running
    /\ failing' = TRUE
    /\ UNCHANGED <<stack, outcome, scopes, ledger, sagas, store, steps, undone,
                   history, caught>>

\* A scope, a plain transaction, the taken branch of an if or a match.
EnterBlock(kind) ==
    /\ Running /\ Room
    /\ stack' = Append(stack, Enter(kind))
    /\ scopes' = scopes + 1
    /\ UNCHANGED <<failing, outcome, ledger, sagas, store, undone, history, caught>>

\* Faulty variant: the scope of a branch is not popped.
EndOfScope ==
    /\ Ended("block") \/ Ended("if")
    /\ stack' = Below
    /\ scopes' = IF Top.kind = "if" THEN scopes ELSE scopes - 1
    /\ UNCHANGED <<failing, outcome, ledger, sagas, store, steps, undone,
                   history, caught>>

EndBlock ==
    /\ Ended("block") \/ Ended("if")
    /\ stack' = Below
    /\ scopes' = scopes - 1
    /\ UNCHANGED <<failing, outcome, ledger, sagas, store, steps, undone,
                   history, caught>>

\* The `?` in if and match leaves before pop_scope.
FailBlock ==
    /\ Failed("block") \/ Failed("if")
    /\ stack' = Below
    /\ scopes' = IF Top.kind = "if" THEN scopes ELSE scopes - 1
    /\ UNCHANGED <<failing, outcome, ledger, sagas, store, steps, undone,
                   history, caught>>

\* A function or a workflow called by name, or under expect_workflow_....
Invoke(l, expected) ==
    /\ Running /\ Room
    /\ stack' = Append(stack, [Enter("call") EXCEPT !.limit = l,
                                                    !.expected = expected])
    /\ scopes' = scopes + 1
    /\ OpenBudget(l)
    /\ UNCHANGED <<failing, outcome, spent, sagas, store, undone, history, caught>>

\* Faulty variant: the budget scope of a call that fails stays open.
ReturnEarly ==
    /\ Ended("call") \/ Failed("call")
    /\ stack' = Below
    /\ scopes' = scopes - 1
    /\ IF failing THEN UNCHANGED budgets ELSE CloseBudget(Top)
    /\ IF Top.expected THEN failing' \in BOOLEAN ELSE UNCHANGED failing
    /\ caught' = (caught \/ (failing /\ ~failing'))
    /\ UNCHANGED <<outcome, spent, sagas, store, steps, undone, history>>

\* An expectation is met, whether the call failed or not, or it is an error.
Return ==
    /\ Ended("call") \/ Failed("call")
    /\ stack' = Below
    /\ scopes' = scopes - 1
    /\ CloseBudget(Top)
    /\ IF Top.expected THEN failing' \in BOOLEAN ELSE UNCHANGED failing
    /\ caught' = (caught \/ (failing /\ ~failing'))
    /\ UNCHANGED <<outcome, spent, sagas, store, steps, undone, history>>

-----------------------------------------------------------------------------
(* Actions.                                                                *)

\* Inside a saga a compensation is registered with the values of its
\* arguments, if they can be evaluated.
Register(a) ==
    IF inSaga /\ UndoOf[a] # NoAction
    THEN \/ /\ serial' = serial + 1
            /\ rollbacks' = Append(rollbacks, [of |-> a, n |-> serial + 1])
            /\ UNCHANGED failing
         \/ failing' = TRUE /\ UNCHANGED <<serial, rollbacks>>
    ELSE UNCHANGED <<failing, serial, rollbacks>>

\* The key has a record: nothing runs and nothing is charged.
Replay(a, rest) ==
    /\ KeyOf[a] \in store
    /\ stack' = rest
    /\ Register(a)
    /\ UNCHANGED <<outcome, scopes, ledger, inSaga, store, history, caught>>

\* The action runs; until it is done nobody sees the store.
Perform(a, rest) ==
    /\ KeyOf[a] \notin store
    /\ Affordable(Cost[a])
    /\ stack' = Append(rest, [Enter("action") EXCEPT !.of = a,
                                 !.tries = Tries[a] - 1, !.kept = store])
    /\ store' = {}
    /\ scopes' = scopes + 1
    /\ nested' = (nested \/ \E i \in 1 .. Len(stack) : stack[i].kind = "action")
    /\ UNCHANGED <<failing, outcome, ledger, sagas, saved, unpaid, caught>>

\* A permission, or the cost, is refused; or the key cannot be evaluated,
\* which leaves the scope of the parameters behind.
Refuse(a, rest) ==
    /\ stack' = rest
    /\ failing' = TRUE
    /\ \/ UNCHANGED scopes
       \/ KeyOf[a] # NoKey /\ scopes' = scopes + 1
    /\ UNCHANGED <<outcome, ledger, sagas, store, history, caught>>

CallAction(a, rest) == Replay(a, rest) \/ Perform(a, rest) \/ Refuse(a, rest)

Call(a) ==
    /\ Running /\ Room
    /\ \A i \in 1 .. Len(stack) :
          stack[i].kind = "action" => a \in Callees[stack[i].of]
    /\ CallAction(a, stack)
    /\ UNCHANGED undone

\* Faulty variant: the record does not reach the store.
LeaveUnrecorded(keys) ==
    /\ stack' = Below
    /\ scopes' = scopes - 1
    /\ store' = Top.kept

Leave(keys) ==
    /\ stack' = Below
    /\ scopes' = scopes - 1
    /\ store' = keys

\* The body was evaluated in time: the success is recorded, beside what the
\* store held before the action; then its cost is charged, which may be
\* refused, and its compensation registered.
Complete ==
    /\ Ended("action")
    /\ LET a == Top.of
           k == KeyOf[a] IN
       /\ Leave(Top.kept \cup ({k} \cap Keys))
       /\ saved' = [x \in Keys |-> saved[x] + IF x = k THEN 1 ELSE 0]
       /\ IF Affordable(Cost[a])
          THEN spent' = spent + Cost[a] /\ Register(a) /\ UNCHANGED unpaid
          ELSE /\ failing' = TRUE
               /\ unpaid' = unpaid + 1
               /\ UNCHANGED <<spent, serial, rollbacks>>
    /\ UNCHANGED <<outcome, budgets, inSaga, steps, undone, nested, caught>>

\* The attempt failed, or took too long.
AttemptFails == Failed("action") \/ (Ended("action") /\ Top.of \in Timed)

Retry ==
    /\ AttemptFails
    /\ Top.tries > 0
    /\ Affordable(Cost[Top.of])
    /\ stack' = Replace([Top EXCEPT !.tries = @ - 1])
    /\ failing' = FALSE
    /\ caught' = TRUE
    /\ UNCHANGED <<outcome, scopes, ledger, sagas, store, steps, undone, history>>

\* The cost is not authorized again, or there are no attempts left.
GiveUp ==
    /\ AttemptFails
    /\ Top.tries = 0 \/ ~Affordable(Cost[Top.of])
    /\ Leave(Top.kept)
    /\ failing' = TRUE
    /\ UNCHANGED <<outcome, ledger, sagas, steps, undone, history, caught>>

-----------------------------------------------------------------------------
(* Sagas.                                                                  *)

EnterSaga ==
    /\ Running /\ Room
    /\ stack' = Append(stack, [Enter("saga") EXCEPT !.was = inSaga,
                                                    !.pre = Len(rollbacks)])
    /\ scopes' = scopes + 1
    /\ inSaga' = TRUE
    /\ UNCHANGED <<failing, outcome, ledger, rollbacks, serial, store, undone,
                   history, caught>>

EndSaga ==
    /\ Ended("saga")
    /\ stack' = Below
    /\ scopes' = scopes - 1
    /\ inSaga' = Top.was
    /\ UNCHANGED <<failing, outcome, ledger, rollbacks, serial, store, steps,
                   undone, history, caught>>

Undo(kind, todo) ==
    /\ stack' = Replace([Top EXCEPT !.kind = kind, !.todo = todo, !.upto = serial])
    /\ failing' = FALSE
    /\ caught' = TRUE

\* Faulty variant: every compensation on the list is run.
FailSagaWhole ==
    /\ Failed("saga")
    /\ Undo("undo", rollbacks)
    /\ rollbacks' = <<>>
    /\ scopes' = scopes - 1
    /\ inSaga' = Top.was
    /\ UNCHANGED <<outcome, ledger, serial, store, steps, undone, history>>

\* The compensations registered since the saga began are taken off the list.
FailSaga ==
    /\ Failed("saga")
    /\ Undo("undo", SubSeq(rollbacks, Top.pre + 1, Len(rollbacks)))
    /\ rollbacks' = SubSeq(rollbacks, 1, Top.pre)
    /\ scopes' = scopes - 1
    /\ inSaga' = Top.was
    /\ UNCHANGED <<outcome, ledger, serial, store, steps, undone, history>>

\* The next compensation is called.
Compensate ==
    /\ stack # <<>> /\ ~failing /\ Top.kind \in Undoing /\ Top.todo # <<>>
    /\ LET n == Len(Top.todo) IN
       /\ undone' = Append(undone, Top.todo[n].n)
       /\ CallAction(UndoOf[Top.todo[n].of],
                     Replace([Top EXCEPT !.todo = SubSeq(@, 1, n - 1)]))
    /\ UNCHANGED steps

\* A compensation that fails is passed over.
PassOver ==
    /\ stack # <<>> /\ failing /\ Top.kind \in Undoing
    /\ failing' = FALSE
    /\ UNCHANGED <<stack, outcome, scopes, ledger, sagas, store, steps, undone,
                   history, caught>>

\* The saga fails with the error it failed with.
EndUndo ==
    /\ stack # <<>> /\ ~failing /\ Top.kind = "undo" /\ Top.todo = <<>>
    /\ stack' = Below
    /\ failing' = TRUE
    /\ UNCHANGED <<outcome, scopes, ledger, sagas, store, steps, undone,
                   history, caught>>

\* A workflow that fails runs all compensations still on the list.
UndoWorkflow ==
    /\ Failed("workflow")
    /\ rollbacks # <<>>
    /\ Undo("undoAll", rollbacks)
    /\ UNCHANGED <<outcome, scopes, ledger, sagas, store, steps, undone, history>>

Finish ==
    /\ stack # <<>> /\ Len(stack) = 1
    /\ \/ ~failing /\ Top.kind \in Entries /\ outcome' = "ok"
       \/ failing /\ Top.kind \in Entries /\ outcome' = "err"
          /\ (Top.kind = "workflow" => rollbacks = <<>>)
       \/ ~failing /\ Top.kind = "undoAll" /\ Top.todo = <<>> /\ outcome' = "err"
    /\ stack' = <<>>
    /\ failing' = FALSE
    /\ scopes' = scopes - 1
    /\ CloseBudget(Top)
    /\ UNCHANGED <<spent, sagas, store, steps, undone, history, caught>>

Next ==
    \/ \E kind \in Entries, l \in Limit : Start(kind, l)
    \/ Fail
    \/ \E kind \in {"block", "if"} : EnterBlock(kind)
    \/ EndBlock \/ FailBlock
    \/ \E l \in Limit, expected \in BOOLEAN : Invoke(l, expected)
    \/ Return
    \/ \E a \in Actions : Call(a)
    \/ Complete \/ Retry \/ GiveUp
    \/ EnterSaga \/ EndSaga \/ FailSaga
    \/ Compensate \/ PassOver \/ EndUndo \/ UndoWorkflow
    \/ Finish

Spec == Init /\ [][Next]_vars

-----------------------------------------------------------------------------
(* Properties.                                                             *)

\* What was charged inside a budget scope that is open is within its limit.
WithinBudget ==
    \A i \in 1 .. Len(budgets) : spent - budgets[i].baseline <= budgets[i].limit

Opened(f) == IF f.limit = NoLimit THEN 0 ELSE 1

\* Whatever fails, a construct finds exactly the budget scopes it entered
\* with, and none is left open after the run.
BudgetsBalanced ==
    /\ \A i \in 1 .. Len(stack) :
          stack[i].level + Opened(stack[i])
              = IF i = Len(stack) THEN Len(budgets) ELSE stack[i + 1].level
    /\ stack = <<>> => budgets = <<>>

\* However calls nest and fail, no budget is exceeded: the outer limits hold
\* for the inner calls, and no error leaves a scope open or closes one of a
\* caller.
BudgetsHold == WithinBudget /\ BudgetsBalanced

OwnScope(f) == IF f.kind = "undo" THEN 0 ELSE 1

\* A construct never loses a variable scope of its own or of its callers;
\* without an error that did not end the run, there are no others either.
ScopesBalanced ==
    stack # <<>> =>
        /\ scopes >= Top.depth + OwnScope(Top)
        /\ ~caught /\ ~failing => scopes = Top.depth + OwnScope(Top)

\* Compensations are registered exactly inside sagas that are still running.
SagaFlag == inSaga <=> \E i \in 1 .. Len(stack) : stack[i].kind = "saga"

Numbers(s) == {s[i].n : i \in 1 .. Len(s)}
Undone == {undone[i] : i \in 1 .. Len(undone)}

\* A saga that fails undoes what was registered inside it and was not undone
\* by an inner saga, nothing that came before it; a workflow undoes the rest.
UndoesItsOwn ==
    \A i \in 1 .. Len(stack) : stack[i].kind \in Undoing =>
        Numbers(stack[i].todo) = (stack[i].from + 1 .. stack[i].upto) \ Undone

\* Each compensation is begun once, and the one registered last goes first.
UndoesNewest ==
    Len(undone') > Len(undone) =>
        LET n == undone'[Len(undone')] IN
        n \notin Undone /\ \A m \in Numbers(Top.todo) : m <= n

\* However sagas, functions and workflows nest, and whatever fails inside
\* them, each registers while it runs and undoes what is its own, all of it,
\* once, newest first.
CompensatesItsOwn == [][UndoesNewest /\ (UndoesItsOwn /\ SagaFlag)']_vars

\* In a program whose actions call no actions, a success that is recorded is
\* not repeated under its key, and its cost, authorized before, is charged.
SuccessesAreKept == ~nested => (\A k \in Keys : saved[k] <= 1) /\ unpaid = 0

\* docs/language-reference.md: "idempotency keys are ... used by the demo
\* interpreter to replay successful action executions without repeating the
\* side effect".
SuccessNotRepeated == \A k \in Keys : saved[k] <= 1
=============================================================================
