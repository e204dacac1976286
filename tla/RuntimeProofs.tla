---------------------------- MODULE RuntimeProofs ----------------------------
(***************************************************************************)
(* Proofs about Runtime for every program: every set of actions with their *)
(* keys, costs, attempts and compensations, every budget, and any depth    *)
(* and number of constructs.                                               *)
(***************************************************************************)
EXTENDS Runtime, SequenceTheorems, TLAPS

-----------------------------------------------------------------------------
(* The stack of constructs: what a step may do to it, and with what frame. *)

\* f stands for a construct of this kind that begins here.
Begun(f, kind) ==
    /\ f \in Frame
    /\ f.kind = kind /\ f.todo = <<>>
    /\ f.level = Len(budgets) /\ f.depth = scopes
    /\ f.from = serial /\ f.upto = serial

\* g stands for the same construct as f.
Continues(g, f) ==
    /\ g \in Frame
    /\ g.of = f.of /\ g.kept = f.kept /\ g.was = f.was /\ g.pre = f.pre
    /\ g.limit = f.limit /\ g.level = f.level /\ g.depth = f.depth
    /\ g.from = f.from

Pushed(s, f) ==
    /\ stack' \in Seq(Frame)
    /\ Len(stack') = Len(s) + 1
    /\ stack'[Len(s) + 1] = f
    /\ \A i \in 1 .. Len(s) : stack'[i] = s[i]

Popped ==
    /\ stack' \in Seq(Frame)
    /\ Len(stack') = Len(stack) - 1
    /\ \A i \in 1 .. Len(stack') : stack'[i] = stack[i]

Changed(s, f) ==
    /\ s \in Seq(Frame)
    /\ Len(s) = Len(stack)
    /\ s[Len(stack)] = f
    /\ \A i \in 1 .. Len(stack) - 1 : s[i] = stack[i]

LEMMA SubSeqFacts ==
    ASSUME NEW S, NEW s \in Seq(S),
           NEW m \in Nat \ {0}, NEW n \in Nat, n <= Len(s)
    PROVE  /\ SubSeq(s, m, n) \in Seq(S)
           /\ Len(SubSeq(s, m, n)) = IF m <= n THEN n - m + 1 ELSE 0
           /\ \A i \in 1 .. n - m + 1 : SubSeq(s, m, n)[i] = s[m + i - 1]
<1>1. \A i \in m .. n : s[i] \in S
  OBVIOUS
<1> QED
  BY <1>1, SubSeqProperties

LEMMA DropLastFacts ==
    ASSUME NEW S, NEW s \in Seq(S), s # <<>>
    PROVE  /\ SubSeq(s, 1, Len(s) - 1) \in Seq(S)
           /\ Len(SubSeq(s, 1, Len(s) - 1)) = Len(s) - 1
           /\ \A i \in 1 .. Len(s) - 1 : SubSeq(s, 1, Len(s) - 1)[i] = s[i]
<1>1. PICK n \in Nat : Len(s) = n + 1
  <2>1. Len(s) - 1 \in Nat /\ Len(s) = (Len(s) - 1) + 1
    OBVIOUS
  <2> QED
    BY <2>1
<1>2. n <= Len(s) /\ Len(s) - 1 = n
  BY <1>1
<1>3. /\ SubSeq(s, 1, n) \in Seq(S)
      /\ Len(SubSeq(s, 1, n)) = IF 1 <= n THEN n - 1 + 1 ELSE 0
      /\ \A i \in 1 .. n - 1 + 1 : SubSeq(s, 1, n)[i] = s[1 + i - 1]
  BY <1>2, SubSeqFacts
<1>4. Len(SubSeq(s, 1, n)) = n /\ \A i \in 1 .. n : SubSeq(s, 1, n)[i] = s[i]
  BY <1>3
<1> QED
  BY <1>2, <1>3, <1>4, SMTT(30)

LEMMA SuffixFacts ==
    ASSUME NEW S, NEW s \in Seq(S), NEW p \in Nat, p <= Len(s)
    PROVE  /\ SubSeq(s, p + 1, Len(s)) \in Seq(S)
           /\ Len(SubSeq(s, p + 1, Len(s))) = Len(s) - p
           /\ \A i \in 1 .. Len(s) - p :
                 SubSeq(s, p + 1, Len(s))[i] = s[p + i]
<1>1. p + 1 \in Nat \ {0} /\ Len(s) \in Nat
  OBVIOUS
<1>2. /\ SubSeq(s, p + 1, Len(s)) \in Seq(S)
      /\ Len(SubSeq(s, p + 1, Len(s)))
            = IF p + 1 <= Len(s) THEN Len(s) - (p + 1) + 1 ELSE 0
      /\ \A i \in 1 .. Len(s) - (p + 1) + 1 :
            SubSeq(s, p + 1, Len(s))[i] = s[p + 1 + i - 1]
  BY <1>1, SubSeqFacts
<1>3. ASSUME NEW i \in 1 .. Len(s) - p
      PROVE  SubSeq(s, p + 1, Len(s))[i] = s[p + i]
  <2>1. i \in 1 .. Len(s) - (p + 1) + 1 /\ p + 1 + i - 1 = p + i
    BY <1>1
  <2> QED
    BY <1>2, <2>1
<1> QED
  BY <1>1, <1>2, <1>3

LEMMA TopIsFrame ==
    ASSUME TypeOK, stack # <<>>
    PROVE  Len(stack) \in Nat \ {0} /\ Top \in Frame /\ Top = stack[Len(stack)]
  BY DEF TypeOK, Top

LEMMA PopsStack ==
    ASSUME TypeOK, stack # <<>>, stack' = Below
    PROVE  Popped
<1>1. stack \in Seq(Frame)
  BY DEF TypeOK
<1> QED
  BY <1>1, DropLastFacts DEF Below, Popped

LEMMA ChangesStack ==
    ASSUME TypeOK, stack # <<>>, NEW f \in Frame
    PROVE  Changed(Replace(f), f)
  BY DEF TypeOK, Replace, Changed

LEMMA PushesStack ==
    ASSUME NEW s \in Seq(Frame), NEW f \in Frame, stack' = Append(s, f)
    PROVE  Pushed(s, f)
  BY DEF Pushed

LEMMA EnterBegins ==
    ASSUME TypeOK, NEW kind \in Kinds
    PROVE  /\ Begun(Enter(kind), kind)
           /\ Enter(kind).limit = NoLimit
           /\ Enter(kind).was = FALSE /\ Enter(kind).pre = 0
<1>1. Enter(kind) \in Frame
  BY DEF TypeOK, Enter, Frame, Limit
<1> QED
  BY <1>1 DEF Begun, Enter

-----------------------------------------------------------------------------
(* What each action does to the stack.                                     *)

LEMMA StartStack ==
    ASSUME TypeOK, NEW kind \in Entries, NEW l \in Limit, Start(kind, l)
    PROVE  \E f : Begun(f, kind) /\ f.limit = l /\ Pushed(<<>>, f)
<1> DEFINE e == Enter(kind)
           f == [e EXCEPT !.limit = l]
<1>0. Begun(e, kind)
  BY EnterBegins DEF Kinds
<1> HIDE DEF e
<1>1. Begun(f, kind) /\ f.limit = l
  BY <1>0 DEF Begun, Frame
<1>2. stack' = <<f>>
  BY DEF Start, e
<1> HIDE DEF f
<1>3. Pushed(<<>>, f)
  BY <1>1, <1>2 DEF Pushed, Begun
<1> QED
  BY <1>1, <1>3

LEMMA BlockStack ==
    ASSUME TypeOK, NEW kind \in {"block", "if"}, EnterBlock(kind)
    PROVE  \E f : Begun(f, kind) /\ f.limit = NoLimit /\ Pushed(stack, f)
<1>1. Begun(Enter(kind), kind) /\ Enter(kind).limit = NoLimit
  BY EnterBegins DEF Kinds
<1>2. Pushed(stack, Enter(kind))
  BY <1>1, PushesStack DEF EnterBlock, Begun, TypeOK
<1> QED
  BY <1>1, <1>2

LEMMA InvokeStack ==
    ASSUME TypeOK, NEW l \in Limit, NEW expected \in BOOLEAN, Invoke(l, expected)
    PROVE  \E f : Begun(f, "call") /\ f.limit = l /\ Pushed(stack, f)
<1> DEFINE e == Enter("call")
           f == [e EXCEPT !.limit = l, !.expected = expected]
<1>0. Begun(e, "call")
  BY EnterBegins DEF Kinds
<1> HIDE DEF e
<1>1. Begun(f, "call") /\ f.limit = l
  BY <1>0 DEF Begun, Frame
<1>2. stack' = Append(stack, f)
  BY DEF Invoke, e
<1> HIDE DEF f
<1>3. Pushed(stack, f)
  BY <1>1, <1>2, PushesStack DEF Begun, TypeOK
<1> QED
  BY <1>1, <1>3

LEMMA SagaStack ==
    ASSUME TypeOK, EnterSaga
    PROVE  \E f : /\ Begun(f, "saga") /\ f.limit = NoLimit
                  /\ f.was = inSaga /\ f.pre = Len(rollbacks)
                  /\ Pushed(stack, f)
<1> DEFINE e == Enter("saga")
           f == [e EXCEPT !.was = inSaga, !.pre = Len(rollbacks)]
<1>. inSaga \in BOOLEAN /\ Len(rollbacks) \in Nat
  BY DEF TypeOK
<1>0. Begun(e, "saga") /\ e.limit = NoLimit
  BY EnterBegins DEF Kinds
<1> HIDE DEF e
<1>1. /\ Begun(f, "saga") /\ f.limit = NoLimit
      /\ f.was = inSaga /\ f.pre = Len(rollbacks)
  BY <1>0 DEF Begun, Frame
<1>2. stack' = Append(stack, f)
  BY DEF EnterSaga, e
<1> HIDE DEF f
<1>3. Pushed(stack, f)
  BY <1>1, <1>2, PushesStack DEF Begun, TypeOK
<1> QED
  BY <1>1, <1>3

\* The end of a construct, good or bad.
LEMMA EndStack ==
    ASSUME TypeOK,
           \/ EndBlock \/ FailBlock \/ Return \/ Complete \/ GiveUp
           \/ EndSaga \/ EndUndo
    PROVE  stack # <<>> /\ Popped
<1>1. stack # <<>> /\ stack' = Below
  BY DEF EndBlock, FailBlock, Return, Complete, GiveUp, EndSaga, EndUndo,
         AttemptFails, Ended, Failed, Running, Leave
<1> QED
  BY <1>1, PopsStack

LEMMA RetryStack ==
    ASSUME TypeOK, Retry
    PROVE  \E f : /\ Continues(f, Top)
                  /\ f.kind = Top.kind /\ f.todo = Top.todo /\ f.upto = Top.upto
                  /\ Changed(stack', f)
<1> DEFINE f == [Top EXCEPT !.tries = Top.tries - 1]
<1>1. stack # <<>> /\ Top.tries > 0 /\ stack' = Replace(f)
  BY DEF Retry, AttemptFails, Failed, Ended, Running
<1>2. Top \in Frame /\ Top.tries - 1 \in Nat
  BY <1>1, TopIsFrame DEF Frame
<1>3. /\ Continues(f, Top)
      /\ f.kind = Top.kind /\ f.todo = Top.todo /\ f.upto = Top.upto
  BY <1>2 DEF Continues, Frame
<1> HIDE DEF f
<1> QED
  BY <1>1, <1>3, ChangesStack DEF Continues

LEMMA FailSagaStack ==
    ASSUME TypeOK, FailSaga
    PROVE  \E f : /\ Continues(f, Top)
                  /\ f.kind = "undo" /\ f.upto = serial
                  /\ f.todo = SubSeq(rollbacks, Top.pre + 1, Len(rollbacks))
                  /\ Changed(stack', f)
<1> DEFINE todo == SubSeq(rollbacks, Top.pre + 1, Len(rollbacks))
           f == [Top EXCEPT !.kind = "undo", !.todo = todo, !.upto = serial]
<1>1. stack # <<>> /\ stack' = Replace(f)
  BY DEF FailSaga, Failed, Undo
<1>2. Top \in Frame /\ Top.pre \in Nat
  BY <1>1, TopIsFrame DEF Frame
<1>3. todo \in Seq(Rollback) /\ serial \in Nat /\ "undo" \in Kinds
  <2>1. rollbacks \in Seq(Rollback) /\ Len(rollbacks) \in Nat /\ serial \in Nat
    BY DEF TypeOK
  <2>2. Top.pre + 1 \in Nat \ {0}
    BY <1>2
  <2> QED
    BY <2>1, <2>2, SubSeqFacts DEF Kinds, Undoing
<1> HIDE DEF todo
<1>4. Continues(f, Top) /\ f.kind = "undo" /\ f.upto = serial /\ f.todo = todo
  BY <1>2, <1>3 DEF Continues, Frame
<1> HIDE DEF f
<1> QED
  BY <1>1, <1>4, ChangesStack DEF Continues, todo

LEMMA UndoWorkflowStack ==
    ASSUME TypeOK, UndoWorkflow
    PROVE  \E f : /\ Continues(f, Top)
                  /\ f.kind = "undoAll" /\ f.upto = serial /\ f.todo = rollbacks
                  /\ Changed(stack', f)
<1> DEFINE f == [Top EXCEPT !.kind = "undoAll", !.todo = rollbacks,
                            !.upto = serial]
<1>1. stack # <<>> /\ stack' = Replace(f)
  BY DEF UndoWorkflow, Failed, Undo
<1>2. /\ Top \in Frame
      /\ rollbacks \in Seq(Rollback) /\ serial \in Nat /\ "undoAll" \in Kinds
  BY <1>1, TopIsFrame DEF TypeOK, Kinds, Undoing
<1>3. /\ Continues(f, Top)
      /\ f.kind = "undoAll" /\ f.upto = serial /\ f.todo = rollbacks
  BY <1>2 DEF Continues, Frame
<1> HIDE DEF f
<1> QED
  BY <1>1, <1>3, ChangesStack DEF Continues

LEMMA CompensateStack ==
    ASSUME TypeOK, Compensate
    PROVE  LET n == Len(Top.todo) IN
           /\ stack # <<>> /\ Top.kind \in Undoing
           /\ n \in Nat \ {0} /\ Top.todo[n] \in Rollback
           /\ \E rest, f :
                 /\ Continues(f, Top) /\ f.kind = Top.kind /\ f.upto = Top.upto
                 /\ f.todo = SubSeq(Top.todo, 1, n - 1)
                 /\ Changed(rest, f)
                 /\ CallAction(UndoOf[Top.todo[n].of], rest)
<1> DEFINE n == Len(Top.todo)
           todo == SubSeq(Top.todo, 1, n - 1)
           f == [Top EXCEPT !.todo = todo]
<1>1. /\ stack # <<>> /\ Top.kind \in Undoing /\ Top.todo # <<>>
      /\ CallAction(UndoOf[Top.todo[n].of], Replace(f))
  BY DEF Compensate
<1>2. Top \in Frame /\ Top.todo \in Seq(Rollback)
  BY <1>1, TopIsFrame DEF Frame
<1>3. n \in Nat \ {0} /\ Top.todo[n] \in Rollback
  BY <1>1, <1>2
<1>4. todo \in Seq(Rollback)
  BY <1>2, <1>3, SubSeqFacts
<1> HIDE DEF todo
<1>5. /\ Continues(f, Top) /\ f.kind = Top.kind /\ f.upto = Top.upto
      /\ f.todo = todo
  BY <1>2, <1>4 DEF Continues, Frame
<1> HIDE DEF f
<1>6. Changed(Replace(f), f)
  BY <1>1, <1>5, ChangesStack DEF Continues
<1> QED
  BY <1>1, <1>3, <1>5, <1>6 DEF todo

LEMMA PerformStack ==
    ASSUME TypeOK, NEW a \in Actions, NEW rest \in Seq(Frame), Perform(a, rest)
    PROVE  \E f : /\ Begun(f, "action") /\ f.limit = NoLimit
                  /\ f.of = a /\ f.kept = store
                  /\ Pushed(rest, f)
<1> DEFINE e == Enter("action")
             f == [e EXCEPT !.of = a, !.tries = Tries[a] - 1, !.kept = store]
<1>1. Tries[a] - 1 \in Nat
  BY RuntimeAssumption
<1>2. store \in SUBSET Keys
  BY DEF TypeOK
<1>3. Begun(e, "action") /\ e.limit = NoLimit
  BY EnterBegins DEF Kinds
<1> HIDE DEF e
<1>4. Begun(f, "action") /\ f.limit = NoLimit /\ f.of = a /\ f.kept = store
  BY <1>1, <1>2, <1>3 DEF Begun, Frame
<1>5. stack' = Append(rest, f)
  BY DEF Perform, e
<1> HIDE DEF f
<1> QED
  BY <1>4, <1>5, PushesStack DEF Begun

-----------------------------------------------------------------------------
(* What holds of every construct on the stack.                             *)

\* The kinds of the construct at the bottom.
Bottom == Entries \cup {"undoAll"}

KindOK(f) ==
    /\ f.limit # NoLimit => f.kind \in Bottom \cup {"call"}
    /\ f.kind = "action" => f.of \in Actions
    /\ f.kind \in Undoing => caught

\* Entries are at the bottom and only there; budgets belong to them and to
\* calls; compensations run because an error was caught.
ShapeInv ==
    /\ outcome = "new" =>
          /\ stack = <<>> /\ ~failing /\ ~inSaga
          /\ budgets = <<>> /\ rollbacks = <<>> /\ undone = <<>> /\ serial = 0
    /\ \A i \in 1 .. Len(stack) :
          KindOK(stack[i]) /\ (stack[i].kind \in Bottom <=> i = 1)

Undoable(s) == \A i \in 1 .. Len(s) : UndoOf[s[i].of] \in Actions

\* What is on a list of compensations has one.
UndoableInv ==
    /\ Undoable(rollbacks)
    /\ \A i \in 1 .. Len(stack) : Undoable(stack[i].todo)

\* Each construct begins where the one around it has its own scope on top, or
\* above, where errors that were caught have left scopes behind.
ScopesInv ==
    /\ ScopesBalanced
    /\ \A i \in 1 .. Len(stack) - 1 :
          /\ stack[i].depth + OwnScope(stack[i]) <= stack[i + 1].depth
          /\ ~caught => stack[i].depth + OwnScope(stack[i]) = stack[i + 1].depth

-----------------------------------------------------------------------------
(* How compensations are numbered.                                         *)

Rising(s) == \A i, j \in 1 .. Len(s) : i < j => s[i].n < s[j].n

\* The four parts of the invariant are stated for any stack st, list rb of
\* compensations, last number se and set un of those begun, since one step of
\* the program may make several changes to them, one after the other.

\* The numbers of a construct lie above those of the constructs around it.
Ordered(st, rb, se) ==
    /\ Rising(rb)
    /\ \A i \in 1 .. Len(rb) : rb[i].n \in 1 .. se
    /\ \A i \in 1 .. Len(st) :
          /\ Rising(st[i].todo)
          /\ st[i].from <= st[i].upto /\ st[i].upto <= se
          /\ i = 1 => st[i].from = 0
    /\ \A i, j \in 1 .. Len(st) : i < j => st[i].upto <= st[j].from

\* A saga's mark in the list divides it into what came before and what was
\* registered inside.
Marked(st, rb) ==
    \A i \in 1 .. Len(st) : st[i].kind = "saga" =>
        /\ st[i].pre <= Len(rb)
        /\ \A k \in 1 .. Len(rb) : k <= st[i].pre <=> rb[k].n <= st[i].from

TakenBy(f, n) == f.kind = "undo" /\ f.from < n /\ n <= f.upto

\* A compensation was begun, or a saga that failed has it on its own list, or
\* it is on the common list.  What a failed workflow undoes stays there.
Accounted(st, rb, se, un) ==
    st # <<>> => \A n \in 1 .. se :
        st[1].kind # "undoAll" \/ n > st[1].upto =>
            (n \in Numbers(rb) <=>
                /\ n \notin un
                /\ \A i \in 1 .. Len(st) : ~TakenBy(st[i], n))

Owns(st, un) ==
    \A i \in 1 .. Len(st) : st[i].kind \in Undoing =>
        Numbers(st[i].todo) = (st[i].from + 1 .. st[i].upto) \ un

Sound(st, rb, se, un) ==
    /\ st \in Seq(Frame) /\ rb \in Seq(Rollback) /\ se \in Nat
    /\ un \subseteq 1 .. se
    /\ Ordered(st, rb, se) /\ Marked(st, rb)
    /\ Accounted(st, rb, se, un) /\ Owns(st, un)

SagasInv == Sound(stack, rollbacks, serial, Undone)

\* A saga remembers whether there is another around it.
FlagInv ==
    /\ SagaFlag
    /\ \A i \in 1 .. Len(stack) : stack[i].kind = "saga" =>
          (stack[i].was <=> \E j \in 1 .. i - 1 : stack[j].kind = "saga")

-----------------------------------------------------------------------------
(* Successes.                                                              *)

\* Where no action calls another, the one that runs keeps all records aside,
\* has none under its own key, and its cost is still within every budget that
\* was open when it was authorized.
RecordInv ==
    ~nested =>
        /\ \A i, j \in 1 .. Len(stack) :
              stack[i].kind = "action" /\ stack[j].kind = "action" => i = j
        /\ \A k \in Keys :
              /\ saved[k] <= 1
              /\ saved[k] > 0 =>
                    IF \E i \in 1 .. Len(stack) : stack[i].kind = "action"
                    THEN \A i \in 1 .. Len(stack) :
                            stack[i].kind = "action" => k \in stack[i].kept
                    ELSE k \in store
        /\ \A i \in 1 .. Len(stack) : stack[i].kind = "action" =>
              /\ KeyOf[stack[i].of] \notin stack[i].kept
              /\ \A b \in 1 .. stack[i].level :
                    spent + Cost[stack[i].of] - budgets[b].baseline
                        <= budgets[b].limit
        /\ unpaid = 0
-----------------------------------------------------------------------------
(* Type correctness.                                                       *)

LEMMA OpenBudgetType ==
    ASSUME TypeOK, NEW l \in Limit, OpenBudget(l)
    PROVE  budgets' \in Seq([limit : Nat, baseline : Nat])
<1> DEFINE b == [limit |-> l, baseline |-> spent]
           B == [limit : Nat, baseline : Nat]
<1>1. budgets \in Seq(B) /\ (l # NoLimit => b \in B)
  BY RuntimeAssumption DEF TypeOK, Limit
<1>2. budgets' = IF l = NoLimit THEN budgets ELSE Append(budgets, b)
  BY DEF OpenBudget
<1> HIDE DEF b, B
<1>3. budgets' \in Seq(B)
  BY <1>1, <1>2
<1> QED
  BY <1>3 DEF B

LEMMA CloseBudgetType ==
    ASSUME TypeOK, NEW f \in Frame, CloseBudget(f)
    PROVE  budgets' \in Seq([limit : Nat, baseline : Nat])
<1> DEFINE B == [limit : Nat, baseline : Nat]
<1>1. budgets \in Seq(B)
  BY DEF TypeOK
<1> HIDE DEF B
<1>2. Len(budgets) > 0 => SubSeq(budgets, 1, Len(budgets) - 1) \in Seq(B)
  BY <1>1, SubSeqFacts
<1>3. Len(budgets) = 0 => SubSeq(budgets, 1, Len(budgets) - 1) = <<>>
  BY <1>1
<1>4. budgets' \in Seq(B)
  BY <1>1, <1>2, <1>3 DEF CloseBudget
<1> QED
  BY <1>4 DEF B

LEMMA RegisterFacts ==
    ASSUME TypeOK, UndoableInv, NEW a \in Actions, Register(a)
    PROVE  /\ failing' \in BOOLEAN
           /\ \/ UNCHANGED <<serial, rollbacks>>
              \/ /\ inSaga
                 /\ serial' = serial + 1
                 /\ rollbacks' = Append(rollbacks, [of |-> a, n |-> serial + 1])
                 /\ [of |-> a, n |-> serial + 1] \in Rollback
                 /\ UndoOf[a] \in Actions
<1>1. [of |-> a, n |-> serial + 1] \in Rollback
  BY DEF TypeOK, Rollback
<1>2. UndoOf[a] # NoAction => UndoOf[a] \in Actions
  BY RuntimeAssumption
<1>3. failing' \in BOOLEAN
  BY DEF TypeOK, Register
<1> QED
  BY <1>1, <1>2, <1>3 DEF Register

LEMMA RegisterType ==
    ASSUME TypeOK, UndoableInv, NEW a \in Actions, Register(a)
    PROVE  /\ failing' \in BOOLEAN
           /\ serial' \in Nat
           /\ rollbacks' \in Seq(Rollback)
           /\ Undoable(rollbacks')
<1> DEFINE r == [of |-> a, n |-> serial + 1]
<1>1. r.of = a
  OBVIOUS
<1>2. /\ failing' \in BOOLEAN
      /\ \/ UNCHANGED <<serial, rollbacks>>
         \/ /\ serial' = serial + 1
            /\ rollbacks' = Append(rollbacks, r)
            /\ r \in Rollback /\ UndoOf[r.of] \in Actions
  BY <1>1, RegisterFacts
<1> HIDE DEF r
<1>3. rollbacks \in Seq(Rollback) /\ Undoable(rollbacks) /\ serial \in Nat
  BY DEF TypeOK, UndoableInv
<1> QED
  BY <1>2, <1>3 DEF Undoable

\* What a call of an action does to the variables, wherever it comes from.
LEMMA CallActionType ==
    ASSUME TypeOK, UndoableInv, NEW a \in Actions, NEW rest \in Seq(Frame),
           \A i \in 1 .. Len(rest) : Undoable(rest[i].todo),
           CallAction(a, rest)
    PROVE  /\ stack' \in Seq(Frame)
           /\ \A i \in 1 .. Len(stack') : Undoable(stack'[i].todo)
           /\ failing' \in BOOLEAN
           /\ scopes' \in Nat
           /\ serial' \in Nat
           /\ rollbacks' \in Seq(Rollback)
           /\ Undoable(rollbacks')
           /\ store' \subseteq Keys
           /\ nested' \in BOOLEAN
           /\ UNCHANGED <<outcome, budgets, spent, inSaga, saved, unpaid, caught>>
<1>1. CASE Replay(a, rest)
  BY <1>1, RegisterType DEF Replay, ledger, history, TypeOK
<1>2. CASE Refuse(a, rest)
  <2>1. /\ stack' = rest
        /\ failing' = TRUE
        /\ scopes' \in {scopes, scopes + 1}
        /\ UNCHANGED <<outcome, budgets, spent, inSaga, rollbacks, serial, store,
                       saved, unpaid, nested, caught>>
    BY <1>2 DEF Refuse, ledger, sagas, history
  <2>2. /\ scopes \in Nat /\ serial \in Nat
        /\ rollbacks \in Seq(Rollback)
        /\ store \subseteq Keys
        /\ nested \in BOOLEAN
        /\ Undoable(rollbacks)
    BY DEF TypeOK, UndoableInv
  <2>3. Undoable(rollbacks') = Undoable(rollbacks)
    BY <2>1
  <2>. QED
    BY <2>1, <2>2, <2>3
<1>3. CASE Perform(a, rest)
  <2>1. PICK f : Begun(f, "action") /\ Pushed(rest, f)
    BY <1>3, PerformStack
  <2>2. Undoable(<<>>)
    BY DEF Undoable
  <2>3. /\ stack' \in Seq(Frame)
        /\ \A i \in 1 .. Len(stack') : Undoable(stack'[i].todo)
    BY <2>1, <2>2 DEF Begun, Pushed
  <2>4. nested' \in BOOLEAN
    BY <1>3 DEF Perform, TypeOK
  <2> QED
    BY <1>3, <2>3, <2>4 DEF Perform, ledger, sagas, TypeOK, UndoableInv
<1> QED
  BY <1>1, <1>2, <1>3 DEF CallAction

\* Every step leaves the state well typed, and only compensations on the lists.
LEMMA TypeStep ==
    ASSUME TypeOK, ShapeInv, UndoableInv, ScopesInv, SagasInv, [Next]_vars
    PROVE  TypeOK' /\ UndoableInv'
<1> USE RuntimeAssumption
<1>0. ASSUME stack # <<>>
      PROVE  /\ Len(stack) \in Nat \ {0}
             /\ Top \in Frame
             /\ Undoable(Top.todo)
             /\ Top.kind # "undo" => scopes - 1 \in Nat
             /\ Top.kind = "action" => Top.of \in Actions
  <2>1. Len(stack) \in Nat \ {0} /\ Top \in Frame
    BY <1>0, TopIsFrame
  <2>2. Undoable(Top.todo) /\ (Top.kind = "action" => Top.of \in Actions)
    BY <2>1 DEF UndoableInv, ShapeInv, KindOK, Top
  <2>3. Top.kind # "undo" => scopes - 1 \in Nat
    BY <1>0, <2>1 DEF ScopesInv, ScopesBalanced, OwnScope, TypeOK, Frame
  <2> QED
    BY <2>1, <2>2, <2>3
<1> DEFINE Rest == /\ stack' \in Seq(Frame)
                   /\ \A i \in 1 .. Len(stack') : Undoable(stack'[i].todo)
<1>1. stack \in Seq(Frame) /\ Undoable(<<>>)
  BY DEF TypeOK, Undoable
<1>2. ASSUME NEW f, NEW kind, Begun(f, kind), Pushed(stack, f) \/ Pushed(<<>>, f)
      PROVE  Rest
  <2>1. Undoable(f.todo) /\ Len(stack) \in Nat
    BY <1>1, <1>2 DEF Begun
  <2>2. CASE Pushed(stack, f)
    <3> SUFFICES ASSUME NEW i \in 1 .. Len(stack') PROVE Undoable(stack'[i].todo)
      BY <2>2 DEF Pushed
    <3>1. i \in 1 .. Len(stack) \/ i = Len(stack) + 1
      BY <2>1, <2>2 DEF Pushed
    <3> QED
      BY <2>1, <2>2, <3>1 DEF Pushed, UndoableInv
  <2>3. CASE Pushed(<<>>, f)
    BY <2>1, <2>3 DEF Pushed
  <2> QED
    BY <1>2, <2>2, <2>3
<1>3. ASSUME NEW f, Undoable(f.todo), stack # <<>>, NEW s, Changed(s, f)
      PROVE  /\ s \in Seq(Frame)
             /\ \A i \in 1 .. Len(s) : Undoable(s[i].todo)
  <2>1. Len(stack) \in Nat \ {0} /\ \A i \in 1 .. Len(stack) : Undoable(stack[i].todo)
    BY <1>0, <1>3 DEF UndoableInv
  <2> QED
    <3> SUFFICES ASSUME NEW i \in 1 .. Len(s) PROVE Undoable(s[i].todo)
      BY <1>3 DEF Changed
    <3>1. i \in 1 .. Len(stack) - 1 \/ i = Len(stack)
      BY <1>3, <2>1 DEF Changed
    <3> QED
      BY <1>3, <2>1, <3>1 DEF Changed
<1>4. ASSUME Popped
      PROVE  Rest
  BY <1>1, <1>4 DEF Popped, UndoableInv
<1> HIDE DEF Rest
<1>5. ASSUME NEW kind \in Entries, NEW l \in Limit, Start(kind, l)
      PROVE  TypeOK' /\ UndoableInv'
  <2>1. Rest
    BY <1>2, <1>5, StartStack
  <2>2. budgets' \in Seq([limit : Nat, baseline : Nat])
    BY <1>5, OpenBudgetType DEF Start
  <2>3. /\ failing' \in BOOLEAN /\ outcome' = "running"
        /\ scopes' \in Nat /\ UNCHANGED <<spent, sagas, store, steps, undone>>
        /\ UNCHANGED <<history, caught>>
    BY <1>5 DEF Start, TypeOK
  <2> QED
    BY <2>1, <2>2, <2>3 DEF Rest, TypeOK, UndoableInv, sagas, history
<1>6. ASSUME NEW kind \in {"block", "if"}, EnterBlock(kind)
      PROVE  TypeOK' /\ UndoableInv'
  <2>1. Rest
    BY <1>2, <1>6, BlockStack
  <2> QED
    BY <1>6, <2>1, SMTT(30)
    DEF EnterBlock, Room, Rest, TypeOK, UndoableInv, ledger, sagas, history
<1>7. ASSUME NEW l \in Limit, NEW expected \in BOOLEAN, Invoke(l, expected)
      PROVE  TypeOK' /\ UndoableInv'
  <2>1. Rest
    BY <1>2, <1>7, InvokeStack
  <2>2. budgets' \in Seq([limit : Nat, baseline : Nat])
    BY <1>7, OpenBudgetType DEF Invoke
  <2> QED
    BY <1>7, <2>1, <2>2
    DEF Invoke, Room, Rest, TypeOK, UndoableInv, sagas, history
<1>8. ASSUME EnterSaga
      PROVE  TypeOK' /\ UndoableInv'
  <2>1. Rest
    BY <1>2, <1>8, SagaStack
  <2>2. /\ scopes' \in Nat /\ steps' \in Nat /\ inSaga' = TRUE
        /\ UNCHANGED <<failing, outcome, ledger, rollbacks, serial, store>>
        /\ UNCHANGED <<undone, history, caught>>
    BY <1>8 DEF EnterSaga, Room, TypeOK
  <2> QED
    BY <2>1, <2>2 DEF Rest, TypeOK, UndoableInv, ledger, history
<1>9. ASSUME EndBlock \/ FailBlock
      PROVE  TypeOK' /\ UndoableInv'
  <2>1. Rest /\ stack # <<>> /\ Top.kind # "undo"
    BY <1>4, <1>9, EndStack DEF EndBlock, FailBlock, Ended, Failed
  <2>2. scopes' \in Nat
    BY <1>0, <1>9, <2>1 DEF EndBlock, FailBlock, TypeOK
  <2> QED
    BY <1>9, <2>1, <2>2
    DEF EndBlock, FailBlock, Rest, TypeOK, UndoableInv, ledger, sagas, history
<1>10. ASSUME Return
       PROVE  TypeOK' /\ UndoableInv'
  <2>1. Rest /\ stack # <<>> /\ Top.kind # "undo"
    BY <1>4, <1>10, EndStack DEF Return, Ended, Failed
  <2>2. scopes' \in Nat
    BY <1>0, <1>10, <2>1 DEF Return
  <2>3. budgets' \in Seq([limit : Nat, baseline : Nat])
    BY <1>0, <1>10, <2>1, CloseBudgetType DEF Return
  <2>4. failing' \in BOOLEAN /\ caught' \in BOOLEAN
    BY <1>10 DEF Return, TypeOK
  <2> QED
    BY <1>10, <2>1, <2>2, <2>3, <2>4
    DEF Return, Rest, TypeOK, UndoableInv, sagas, history
<1>11. ASSUME NEW a \in Actions, Call(a)
       PROVE  TypeOK' /\ UndoableInv'
  <2>1. /\ stack \in Seq(Frame)
        /\ \A i \in 1 .. Len(stack) : Undoable(stack[i].todo)
        /\ CallAction(a, stack) /\ undone' = undone /\ steps' = steps + 1
    BY <1>11 DEF Call, Room, TypeOK, UndoableInv
  <2> QED
    BY <2>1, CallActionType, SMTT(30) DEF TypeOK, UndoableInv
<1>12. ASSUME Complete
       PROVE  TypeOK' /\ UndoableInv'
  <2>1. Rest /\ stack # <<>> /\ Top.kind = "action"
    BY <1>4, <1>12, EndStack DEF Complete, Ended
  <2>2. Top.of \in Actions /\ Top \in Frame /\ scopes - 1 \in Nat
    BY <1>0, <2>1
  <2>3. /\ failing' \in BOOLEAN /\ serial' \in Nat /\ spent' \in Nat
        /\ unpaid' \in Nat
        /\ rollbacks' \in Seq(Rollback) /\ Undoable(rollbacks')
    <3>1. CASE Affordable(Cost[Top.of])
      BY <1>12, <2>2, <3>1, RegisterType DEF Complete, TypeOK
    <3>2. CASE ~Affordable(Cost[Top.of])
      BY <1>12, <3>2 DEF Complete, TypeOK, UndoableInv
    <3> QED
      BY <3>1, <3>2
  <2>4. store' \subseteq Keys /\ scopes' \in Nat
    BY <1>12, <2>2 DEF Complete, Leave, Frame
  <2>5. saved' \in [Keys -> Nat]
    BY <1>12 DEF Complete, TypeOK
  <2> QED
    BY <1>12, <2>1, <2>3, <2>4, <2>5 DEF Complete, Rest, TypeOK, UndoableInv
<1>13. ASSUME Retry
       PROVE  TypeOK' /\ UndoableInv'
  <2>1. stack # <<>>
    BY <1>13 DEF Retry, AttemptFails, Ended, Failed, Running
  <2>2. PICK f : f.todo = Top.todo /\ Changed(stack', f)
    BY <1>13, RetryStack
  <2>3. Rest
    BY <1>0, <1>3, <2>1, <2>2 DEF Rest
  <2> QED
    BY <1>13, <2>3
    DEF Retry, Rest, TypeOK, UndoableInv, ledger, sagas, history
<1>14. ASSUME GiveUp
       PROVE  TypeOK' /\ UndoableInv'
  <2>1. Rest /\ stack # <<>> /\ Top.kind = "action"
    BY <1>4, <1>14, EndStack DEF GiveUp, AttemptFails, Ended, Failed
  <2>2. scopes' \in Nat /\ store' \subseteq Keys
    BY <1>0, <1>14, <2>1 DEF GiveUp, Leave, Frame
  <2> QED
    BY <1>14, <2>1, <2>2
    DEF GiveUp, Rest, TypeOK, UndoableInv, ledger, sagas, history
<1>15. ASSUME EndSaga
       PROVE  TypeOK' /\ UndoableInv'
  <2>1. Rest /\ stack # <<>> /\ Top.kind = "saga"
    BY <1>4, <1>15, EndStack DEF EndSaga, Ended
  <2>2. scopes' \in Nat /\ inSaga' \in BOOLEAN
    BY <1>0, <1>15, <2>1 DEF EndSaga, Frame
  <2> QED
    BY <1>15, <2>1, <2>2
    DEF EndSaga, Rest, TypeOK, UndoableInv, ledger, history
<1>16. ASSUME FailSaga
       PROVE  TypeOK' /\ UndoableInv'
  <2>1. stack # <<>> /\ Top.kind = "saga"
    BY <1>16 DEF FailSaga, Failed
  <2>2. /\ Top \in Frame /\ Top.pre \in Nat /\ scopes - 1 \in Nat
        /\ Top.was \in BOOLEAN
    BY <1>0, <2>1 DEF Frame
  <2>3. /\ rollbacks \in Seq(Rollback) /\ Len(rollbacks) \in Nat
        /\ Undoable(rollbacks) /\ Top.pre <= Len(rollbacks)
    BY <1>0, <2>1, <2>2 DEF TypeOK, UndoableInv, SagasInv, Sound, Marked, Top
  <2>4. /\ Undoable(SubSeq(rollbacks, Top.pre + 1, Len(rollbacks)))
        /\ Undoable(SubSeq(rollbacks, 1, Top.pre))
        /\ SubSeq(rollbacks, 1, Top.pre) \in Seq(Rollback)
    <3>1. /\ SubSeq(rollbacks, 1, Top.pre) \in Seq(Rollback)
          /\ Undoable(SubSeq(rollbacks, 1, Top.pre))
      BY <2>2, <2>3, SubSeqFacts DEF Undoable
    <3>2. /\ Len(SubSeq(rollbacks, Top.pre + 1, Len(rollbacks)))
               = Len(rollbacks) - Top.pre
          /\ \A i \in 1 .. Len(rollbacks) - Top.pre :
                SubSeq(rollbacks, Top.pre + 1, Len(rollbacks))[i]
                  = rollbacks[Top.pre + i]
      BY <2>2, <2>3, SuffixFacts
    <3>3. ASSUME NEW i \in 1 .. Len(rollbacks) - Top.pre
          PROVE  UndoOf[rollbacks[Top.pre + i].of] \in Actions
      <4>1. Top.pre + i \in 1 .. Len(rollbacks)
        BY <2>2, <2>3
      <4> QED
        BY <2>3, <4>1 DEF Undoable
    <3> QED
      BY <3>1, <3>2, <3>3 DEF Undoable
  <2>5. PICK f : /\ f.todo = SubSeq(rollbacks, Top.pre + 1, Len(rollbacks))
                 /\ Changed(stack', f)
    BY <1>16, FailSagaStack
  <2>6. Rest
    BY <1>3, <2>1, <2>4, <2>5 DEF Rest
  <2> QED
    BY <1>16, <2>2, <2>4, <2>6
    DEF FailSaga, Undo, Rest, TypeOK, UndoableInv, ledger, history
<1>17. ASSUME Compensate
       PROVE  TypeOK' /\ UndoableInv'
  <2> DEFINE n == Len(Top.todo)
  <2>1. /\ stack # <<>> /\ n \in Nat \ {0} /\ Top.todo[n] \in Rollback
        /\ undone' = Append(undone, Top.todo[n].n) /\ steps' = steps
    BY <1>17, CompensateStack DEF Compensate
  <2>2. PICK rest, f : /\ f.todo = SubSeq(Top.todo, 1, n - 1)
                       /\ Changed(rest, f)
                       /\ CallAction(UndoOf[Top.todo[n].of], rest)
    BY <1>17, CompensateStack
  <2>3. Top.todo \in Seq(Rollback) /\ Undoable(Top.todo)
    BY <1>0, <2>1 DEF Frame
  <2>4. UndoOf[Top.todo[n].of] \in Actions /\ Undoable(f.todo)
    <3>1. Top.todo # <<>>
      BY <2>1
    <3>2. n \in 1 .. Len(Top.todo)
      BY <2>1, <2>3
    <3>3. UndoOf[Top.todo[n].of] \in Actions
      BY <2>3, <3>2 DEF Undoable
    <3>4. Undoable(SubSeq(Top.todo, 1, Len(Top.todo) - 1))
      BY <2>3, <3>1, DropLastFacts DEF Undoable
    <3> QED
      BY <2>2, <3>3, <3>4
  <2>5. undone' \in Seq(Nat)
    BY <2>1 DEF TypeOK, Rollback
  <2>6. /\ rest \in Seq(Frame)
        /\ \A i \in 1 .. Len(rest) : Undoable(rest[i].todo)
    BY <1>3, <2>1, <2>2, <2>4
  <2> HIDE DEF n
  <2> QED
    BY <2>1, <2>2, <2>4, <2>5, <2>6, CallActionType DEF TypeOK, UndoableInv
<1>18. ASSUME EndUndo
       PROVE  TypeOK' /\ UndoableInv'
  <2>1. Rest
    BY <1>4, <1>18, EndStack
  <2> QED
    BY <1>18, <2>1
    DEF EndUndo, Rest, TypeOK, UndoableInv, ledger, sagas, history
<1>19. ASSUME UndoWorkflow
       PROVE  TypeOK' /\ UndoableInv'
  <2>1. stack # <<>> /\ Undoable(rollbacks)
    BY <1>19 DEF UndoWorkflow, Failed, UndoableInv
  <2>2. PICK f : f.todo = rollbacks /\ Changed(stack', f)
    BY <1>19, UndoWorkflowStack
  <2>3. Rest
    BY <1>3, <2>1, <2>2 DEF Rest
  <2> QED
    BY <1>19, <2>3
    DEF UndoWorkflow, Undo, Rest, TypeOK, UndoableInv, ledger, sagas, history
<1>20. ASSUME Finish
       PROVE  TypeOK' /\ UndoableInv'
  <2>1. /\ stack # <<>> /\ stack' = <<>>
        /\ Top.kind # "undo" /\ outcome' \in {"ok", "err"}
    BY <1>20 DEF Finish, Entries
  <2>2. scopes' \in Nat
    BY <1>0, <1>20, <2>1 DEF Finish
  <2>3. budgets' \in Seq([limit : Nat, baseline : Nat])
    BY <1>0, <1>20, <2>1, CloseBudgetType DEF Finish
  <2>4. Rest
    BY <2>1 DEF Rest
  <2> QED
    BY <1>20, <2>1, <2>2, <2>3, <2>4
    DEF Finish, Rest, TypeOK, UndoableInv, sagas, history
<1>21. CASE Fail \/ PassOver
  BY <1>21 DEF Fail, PassOver, TypeOK, UndoableInv, ledger, sagas, history
<1>22. CASE UNCHANGED vars
  BY <1>22 DEF vars, TypeOK, UndoableInv
<1> QED
  BY <1>5, <1>6, <1>7, <1>8, <1>9, <1>10, <1>11, <1>12, <1>13, <1>14, <1>15,
     <1>16, <1>17, <1>18, <1>19, <1>20, <1>21, <1>22
  DEF Next
-----------------------------------------------------------------------------
(* Kinds and scopes.                                                       *)

\* s holds the same constructs as the stack, other than in what they have
\* left to undo and to try.
Like(s) ==
    /\ s \in Seq(Frame)
    /\ Len(s) = Len(stack)
    /\ \A i \in 1 .. Len(stack) :
          Continues(s[i], stack[i]) /\ s[i].kind = stack[i].kind
                                   /\ s[i].upto = stack[i].upto

LEMMA StackIsLike == ASSUME TypeOK PROVE Like(stack)
  BY DEF TypeOK, Like, Continues

LEMMA ChangedIsLike ==
    ASSUME TypeOK, stack # <<>>, NEW s, NEW f, Changed(s, f),
           Continues(f, Top), f.kind = Top.kind, f.upto = Top.upto
    PROVE  Like(s)
<1>1. Len(stack) \in Nat \ {0} /\ Top = stack[Len(stack)] /\ stack \in Seq(Frame)
  BY TopIsFrame DEF TypeOK
<1>2. ASSUME NEW i \in 1 .. Len(stack)
      PROVE  /\ Continues(s[i], stack[i]) /\ s[i].kind = stack[i].kind
             /\ s[i].upto = stack[i].upto
  <2>1. CASE i = Len(stack)
    BY <1>1, <2>1 DEF Changed
  <2>2. CASE i # Len(stack)
    BY <1>1, <2>2 DEF Changed, Continues
  <2> QED
    BY <2>1, <2>2
<1> QED
  BY <1>2 DEF Changed, Like

\* A call of an action, whether the program or a compensation makes it.
LEMMA CallStack ==
    ASSUME TypeOK, ShapeInv, UndoableInv,
           (\E a \in Actions : Call(a)) \/ Compensate
    PROVE  \E a \in Actions, rest \in Seq(Frame) :
              /\ Like(rest) /\ CallAction(a, rest)
              /\ stack # <<>> /\ ~failing
              /\ \/ stack' = rest
                 \/ \E f : /\ Begun(f, "action") /\ f.limit = NoLimit
                           /\ f.of = a /\ f.kept = store
                           /\ Pushed(rest, f)
<1>1. ASSUME NEW a \in Actions, NEW rest, Like(rest), CallAction(a, rest)
      PROVE  \/ stack' = rest
             \/ \E f : /\ Begun(f, "action") /\ f.limit = NoLimit
                       /\ f.of = a /\ f.kept = store
                       /\ Pushed(rest, f)
  <2>1. rest \in Seq(Frame)
    BY <1>1 DEF Like
  <2> QED
    BY <1>1, <2>1, PerformStack DEF CallAction, Replay, Refuse
<1>2. ASSUME NEW a \in Actions, Call(a)
      PROVE  Like(stack) /\ CallAction(a, stack) /\ stack # <<>> /\ ~failing
  BY <1>2, StackIsLike DEF Call, Running
<1>3. ASSUME Compensate
      PROVE  \E a \in Actions, rest \in Seq(Frame) :
                /\ Like(rest) /\ CallAction(a, rest)
                /\ stack # <<>> /\ ~failing
  <2> DEFINE n == Len(Top.todo)
  <2>1. /\ stack # <<>> /\ ~failing /\ n \in Nat \ {0}
        /\ \E rest, f :
              /\ Continues(f, Top) /\ f.kind = Top.kind /\ f.upto = Top.upto
              /\ Changed(rest, f)
              /\ CallAction(UndoOf[Top.todo[n].of], rest)
    BY <1>3, CompensateStack DEF Compensate
  <2>2. Undoable(Top.todo) /\ n \in 1 .. Len(Top.todo)
    BY <2>1, TopIsFrame DEF UndoableInv
  <2>3. UndoOf[Top.todo[n].of] \in Actions
    BY <2>2 DEF Undoable
  <2> HIDE DEF n
  <2>4. PICK rest : Like(rest) /\ CallAction(UndoOf[Top.todo[n].of], rest)
    BY <2>1, ChangedIsLike
  <2>5. rest \in Seq(Frame)
    BY <2>4 DEF Like
  <2> QED
    BY <2>1, <2>3, <2>4, <2>5
<1>4. stack \in Seq(Frame)
  BY DEF TypeOK
<1>5. PICK a \in Actions, rest \in Seq(Frame) :
         Like(rest) /\ CallAction(a, rest) /\ stack # <<>> /\ ~failing
  BY <1>2, <1>3, <1>4
<1> QED
  BY <1>1, <1>5

LEMMA RetryLike ==
    ASSUME TypeOK, Retry
    PROVE  stack # <<>> /\ Like(stack')
<1>1. stack # <<>>
  BY SMTT(30) DEF Retry, AttemptFails, Ended, Failed, Running
<1> QED
  BY <1>1, RetryStack, ChangedIsLike

LEMMA CaughtStays ==
    ASSUME [Next]_vars
    PROVE  caught => caught'
  BY ZenonT(40)
     DEF Next, Start, Fail, EnterBlock, EndBlock, FailBlock, Invoke, Return,
         Call, CallAction, Replay, Perform, Refuse, Complete, Retry, GiveUp,
         EnterSaga, EndSaga, FailSaga, Undo, Compensate, PassOver, EndUndo,
         UndoWorkflow, Finish, vars

LEMMA ShapeStep ==
    ASSUME TypeOK, ShapeInv, UndoableInv, [Next]_vars
    PROVE  ShapeInv'
<1> DEFINE Good == \A i \in 1 .. Len(stack') :
              /\ KindOK(stack[i])'
              /\ stack'[i].kind \in Bottom <=> i = 1
<1>0. stack \in Seq(Frame) /\ Len(stack) \in Nat /\ (caught => caught')
  BY CaughtStays DEF TypeOK
<1>1. Next => outcome' # "new"
  BY ZenonT(40)
     DEF Next, Start, Fail, EnterBlock, EndBlock, FailBlock, Invoke, Return,
         Call, CallAction, Replay, Perform, Refuse, Complete, Retry, GiveUp,
         EnterSaga, EndSaga, FailSaga, Compensate, PassOver, EndUndo,
         UndoWorkflow, Finish, AttemptFails, Ended, Failed, Running, ShapeInv
<1>2. ASSUME NEW s, Like(s), stack # <<>>, NEW f, Pushed(s, f),
             f.kind \notin Bottom \cup Undoing,
             f.limit # NoLimit => f.kind = "call",
             f.kind = "action" => f.of \in Actions
      PROVE  Good
  <2> SUFFICES ASSUME NEW i \in 1 .. Len(stack')
               PROVE  KindOK(stack[i])' /\ (stack'[i].kind \in Bottom <=> i = 1)
    OBVIOUS
  <2>1. CASE i = Len(stack) + 1
    <3>1. stack'[i] = f /\ i # 1
      BY <1>0, <1>2, <2>1 DEF Pushed, Like
    <3> QED
      BY <1>2, <3>1 DEF KindOK
  <2>2. CASE i # Len(stack) + 1
    <3>1. i \in 1 .. Len(stack) /\ stack'[i] = s[i]
      BY <1>0, <1>2, <2>2 DEF Pushed, Like
    <3>2. /\ stack'[i].kind = stack[i].kind /\ stack'[i].limit = stack[i].limit
          /\ stack'[i].of = stack[i].of
      BY <1>2, <3>1 DEF Like, Continues
    <3> QED
      BY <1>0, <3>1, <3>2 DEF ShapeInv, KindOK
  <2> QED
    BY <2>1, <2>2
<1>3. ASSUME Popped PROVE Good
  BY <1>0, <1>3 DEF Popped, ShapeInv, KindOK
<1>4. ASSUME Like(stack') PROVE Good
  BY <1>0, <1>4 DEF Like, Continues, ShapeInv, KindOK
<1>5. ASSUME stack # <<>>, NEW f, Changed(stack', f), Continues(f, Top),
             f.kind \in Undoing, caught',
             Top.kind # "action", f.kind \in Bottom <=> Top.kind \in Bottom,
             Top.limit # NoLimit => f.kind \in Bottom
      PROVE  Good
  <2>1. Len(stack) \in Nat \ {0} /\ Top = stack[Len(stack)]
    BY <1>5, TopIsFrame
  <2> SUFFICES ASSUME NEW i \in 1 .. Len(stack')
               PROVE  KindOK(stack[i])' /\ (stack'[i].kind \in Bottom <=> i = 1)
    OBVIOUS
  <2>2. i \in 1 .. Len(stack)
    BY <1>5 DEF Changed
  <2>3. CASE i = Len(stack)
    <3>1. stack'[i] = f
      BY <1>5, <2>3 DEF Changed
    <3> QED
      BY <1>5, <2>1, <2>2, <2>3, <3>1 DEF ShapeInv, KindOK, Continues, Undoing
  <2>4. CASE i # Len(stack)
    <3>1. stack'[i] = stack[i]
      BY <1>5, <2>1, <2>2, <2>4 DEF Changed
    <3> QED
      BY <1>0, <2>2, <3>1 DEF ShapeInv, KindOK
  <2> QED
    BY <2>3, <2>4
<1> HIDE DEF Good
<1>6. ASSUME NEW kind \in Entries, NEW l \in Limit, Start(kind, l) PROVE Good
  <2>1. PICK f : Begun(f, kind) /\ f.limit = l /\ Pushed(<<>>, f)
    BY <1>6, StartStack
  <2>2. Len(stack') = 1 /\ stack'[1] = f
    BY <2>1 DEF Pushed
  <2> QED
    BY <2>1, <2>2 DEF Good, KindOK, Begun, Bottom, Entries, Undoing
<1>7. ASSUME NEW kind \in {"block", "if"}, EnterBlock(kind) PROVE Good
  BY <1>2, <1>7, BlockStack, StackIsLike
  DEF EnterBlock, Running, Begun, Bottom, Entries, Undoing
<1>8. ASSUME NEW l \in Limit, NEW expected \in BOOLEAN, Invoke(l, expected)
      PROVE  Good
  BY <1>2, <1>8, InvokeStack, StackIsLike
  DEF Invoke, Running, Begun, Bottom, Entries, Undoing
<1>9. ASSUME EnterSaga PROVE Good
  BY <1>2, <1>9, SagaStack, StackIsLike
  DEF EnterSaga, Running, Begun, Bottom, Entries, Undoing, Good
<1>10. ASSUME \/ EndBlock \/ FailBlock \/ Return \/ Complete \/ GiveUp
              \/ EndSaga \/ EndUndo
       PROVE  Good
  BY <1>3, <1>10, EndStack
<1>11. ASSUME (\E a \in Actions : Call(a)) \/ Compensate PROVE Good
  <2>1. PICK a \in Actions, rest \in Seq(Frame) :
           /\ Like(rest) /\ stack # <<>>
           /\ \/ stack' = rest
              \/ \E f : /\ Begun(f, "action") /\ f.limit = NoLimit
                        /\ f.of = a /\ Pushed(rest, f)
    BY <1>11, CallStack
  <2> QED
    BY <1>2, <1>4, <2>1 DEF Begun, Bottom, Entries, Undoing
<1>12. ASSUME Retry PROVE Good
  BY <1>4, <1>12, RetryLike
<1>13. ASSUME FailSaga PROVE Good
  <2>1. stack # <<>> /\ Top.kind = "saga" /\ caught'
    BY <1>13 DEF FailSaga, Failed, Undo
  <2>2. Top.limit = NoLimit
    BY <2>1, TopIsFrame DEF ShapeInv, KindOK, Bottom, Entries
  <2> QED
    BY <1>5, <1>13, <2>1, <2>2, FailSagaStack DEF Bottom, Entries, Undoing
<1>14. ASSUME UndoWorkflow PROVE Good
  <2>1. stack # <<>> /\ Top.kind = "workflow" /\ caught'
    BY <1>14 DEF UndoWorkflow, Failed, Undo
  <2> QED
    BY <1>5, <1>14, <2>1, UndoWorkflowStack DEF Bottom, Entries, Undoing
<1>15. ASSUME Finish PROVE Good
  BY <1>15 DEF Finish, Good
<1>16. ASSUME UNCHANGED stack PROVE Good
  BY <1>4, <1>16, StackIsLike
<1>17. Next => Good
  BY <1>6, <1>7, <1>8, <1>9, <1>10, <1>11, <1>12, <1>13, <1>14, <1>15, <1>16
  DEF Next, Fail, PassOver, vars
<1>18. CASE Next
  BY <1>1, <1>17, <1>18 DEF ShapeInv, Good
<1>19. CASE UNCHANGED vars
  BY <1>19 DEF vars, ShapeInv, KindOK
<1> QED
  BY <1>18, <1>19
\* Scopes: pushing a construct, ending one and failing keep the chain.
LEMMA ScopesStep ==
    ASSUME TypeOK, ShapeInv, UndoableInv, ScopesInv, [Next]_vars
    PROVE  ScopesInv'
<1>0. /\ stack \in Seq(Frame) /\ Len(stack) \in Nat /\ scopes \in Nat
      /\ \A i \in 1 .. Len(stack) : stack[i].depth \in Nat
      /\ caught => caught'
  <2>1. stack \in Seq(Frame) /\ scopes \in Nat
    BY DEF TypeOK
  <2>2. \A i \in 1 .. Len(stack) : stack[i] \in Frame
    BY <2>1
  <2>3. \A i \in 1 .. Len(stack) : stack[i].depth \in Nat
    BY <2>2 DEF Frame
  <2> QED
    BY <2>1, <2>3, CaughtStays
<1>1. stack # <<>> => /\ Len(stack) \in Nat \ {0} /\ Top = stack[Len(stack)]
                      /\ Top.depth \in Nat
  BY <1>0 DEF Top
<1>2. ASSUME NEW s, Like(s), stack # <<>>, ~failing,
             NEW f, NEW kind \in Kinds \ {"undo"}, Begun(f, kind), Pushed(s, f),
             scopes' = scopes + 1
      PROVE  ScopesInv'
  <2>1. /\ Len(stack') = Len(stack) + 1 /\ stack' # <<>>
        /\ stack'[Len(stack) + 1] = f /\ f.depth = scopes /\ OwnScope(f) = 1
    BY <1>0, <1>2 DEF Pushed, Like, Begun, OwnScope
  <2>2. \A i \in 1 .. Len(stack) : /\ stack'[i].depth = stack[i].depth
                                   /\ OwnScope(stack'[i]) = OwnScope(stack[i])
    BY <1>2 DEF Pushed, Like, Continues, OwnScope
  <2>3. ScopesBalanced'
    BY <1>0, <1>2, <2>1 DEF ScopesBalanced, Top
  <2>4. ASSUME NEW i \in 1 .. Len(stack') - 1
        PROVE  /\ stack'[i].depth + OwnScope(stack'[i]) <= stack'[i + 1].depth
               /\ ~caught' => stack'[i].depth + OwnScope(stack'[i])
                                 = stack'[i + 1].depth
    <3>1. i \in 1 .. Len(stack)
      BY <1>0, <2>1
    <3>2. CASE i = Len(stack)
      BY <1>0, <1>1, <1>2, <2>1, <2>2, <3>1, <3>2 DEF ScopesInv, ScopesBalanced
    <3>3. CASE i # Len(stack)
      <4>1. i \in 1 .. Len(stack) - 1 /\ i + 1 \in 1 .. Len(stack)
        BY <1>0, <3>1, <3>3
      <4> QED
        BY <1>0, <2>2, <4>1 DEF ScopesInv
    <3> QED
      BY <3>2, <3>3
  <2> QED
    BY <2>3, <2>4 DEF ScopesInv, OwnScope
<1>3. ASSUME stack # <<>>, Popped,
             scopes' >= scopes - OwnScope(Top), scopes' \in Int,
             ~caught' /\ ~failing' =>
                ~caught /\ ~failing /\ scopes' = scopes - OwnScope(Top)
      PROVE  ScopesInv'
  <2>1. /\ Len(stack') = Len(stack) - 1
        /\ \A i \in 1 .. Len(stack) - 1 : stack'[i] = stack[i]
    BY <1>3 DEF Popped
  <2>2. scopes >= Top.depth + OwnScope(Top)
    BY <1>3 DEF ScopesInv, ScopesBalanced
  <2>3. ASSUME stack' # <<>> PROVE ScopesBalanced'
    <3>1. Len(stack) - 1 \in 1 .. Len(stack) - 1 /\ (Len(stack) - 1) + 1 = Len(stack)
      BY <1>0, <1>1, <1>3, <2>1, <2>3 DEF Popped
    <3>2. /\ stack[Len(stack) - 1].depth + OwnScope(stack[Len(stack) - 1])
                <= Top.depth
          /\ ~caught => stack[Len(stack) - 1].depth
                            + OwnScope(stack[Len(stack) - 1]) = Top.depth
      BY <1>1, <1>3, <3>1 DEF ScopesInv
    <3>3. Top' = stack[Len(stack) - 1]
      BY <2>1, <3>1 DEF Top
    <3>4. /\ Top'.depth \in Nat /\ OwnScope(Top') \in {0, 1}
          /\ OwnScope(Top) \in {0, 1}
      BY <1>0, <3>1, <3>3 DEF OwnScope
    <3>5. scopes' >= Top'.depth + OwnScope(Top')
      BY <1>0, <1>1, <1>3, <2>2, <3>2, <3>3, <3>4
    <3>6. ~caught' /\ ~failing' => scopes' = Top'.depth + OwnScope(Top')
      BY <1>0, <1>1, <1>3, <3>2, <3>3, <3>4 DEF ScopesInv, ScopesBalanced
    <3> QED
      BY <3>5, <3>6 DEF ScopesBalanced, OwnScope
  <2>4. ASSUME NEW i \in 1 .. Len(stack') - 1
        PROVE  /\ stack'[i].depth + OwnScope(stack'[i]) <= stack'[i + 1].depth
               /\ ~caught' => stack'[i].depth + OwnScope(stack'[i])
                                 = stack'[i + 1].depth
    <3>1. /\ i \in 1 .. Len(stack) - 1
          /\ stack'[i] = stack[i] /\ stack'[i + 1] = stack[i + 1]
      BY <1>0, <2>1
    <3> QED
      BY <1>0, <3>1 DEF ScopesInv
  <2> QED
    BY <2>3, <2>4 DEF ScopesInv, ScopesBalanced, OwnScope
<1>4. ASSUME stack # <<>>, Len(stack') = Len(stack),
             \A i \in 1 .. Len(stack) :
                /\ stack'[i].depth = stack[i].depth
                /\ i < Len(stack) => OwnScope(stack'[i]) = OwnScope(stack[i]),
             scopes' \in Int,
             scopes' - OwnScope(stack'[Len(stack)]) >= scopes - OwnScope(Top),
             ~caught' /\ ~failing' =>
                /\ ~caught /\ ~failing
                /\ scopes' - OwnScope(stack'[Len(stack)]) = scopes - OwnScope(Top)
      PROVE  ScopesInv'
  <2>1. /\ Top' = stack'[Len(stack)] /\ Top'.depth = Top.depth
        /\ OwnScope(Top) \in {0, 1} /\ OwnScope(Top') \in {0, 1}
    BY <1>1, <1>4 DEF Top, OwnScope
  <2>2. ScopesBalanced'
    <3>1. scopes' >= Top'.depth + OwnScope(Top')
      BY <1>0, <1>1, <1>4, <2>1 DEF ScopesInv, ScopesBalanced
    <3>2. ~caught' /\ ~failing' => scopes' = Top'.depth + OwnScope(Top')
      BY <1>0, <1>1, <1>4, <2>1 DEF ScopesInv, ScopesBalanced
    <3> QED
      BY <3>1, <3>2 DEF ScopesBalanced, OwnScope
  <2>3. ASSUME NEW i \in 1 .. Len(stack') - 1
        PROVE  /\ stack'[i].depth + OwnScope(stack'[i]) <= stack'[i + 1].depth
               /\ ~caught' => stack'[i].depth + OwnScope(stack'[i])
                                 = stack'[i + 1].depth
    <3>1. i \in 1 .. Len(stack) - 1 /\ i + 1 \in 1 .. Len(stack) /\ i < Len(stack)
      BY <1>0, <1>4
    <3>2. /\ stack'[i].depth = stack[i].depth
          /\ OwnScope(stack'[i]) = OwnScope(stack[i])
          /\ stack'[i + 1].depth = stack[i + 1].depth
      BY <1>0, <1>4, <3>1
    <3> QED
      BY <1>0, <3>1, <3>2 DEF ScopesInv
  <2> QED
    BY <2>2, <2>3 DEF ScopesInv, OwnScope
<1>5. ASSUME stack # <<>>, NEW s, Like(s), stack' = s, scopes' \in Int,
             scopes' >= scopes,
             ~caught' /\ ~failing' => ~caught /\ ~failing /\ scopes' = scopes
      PROVE  ScopesInv'
  <2>1. \A i \in 1 .. Len(stack) : /\ stack'[i].depth = stack[i].depth
                                   /\ OwnScope(stack'[i]) = OwnScope(stack[i])
    BY <1>5 DEF Like, Continues, OwnScope
  <2>2. OwnScope(stack'[Len(stack)]) = OwnScope(Top) /\ OwnScope(Top) \in {0, 1}
    BY <1>1, <1>5, <2>1 DEF OwnScope
  <2> QED
    BY <1>0, <1>4, <1>5, <2>1, <2>2 DEF Like
<1>6. ASSUME NEW kind \in Entries, NEW l \in Limit, Start(kind, l)
      PROVE  ScopesInv'
  <2>1. PICK f : Begun(f, kind) /\ Pushed(<<>>, f)
    BY <1>6, StartStack
  <2>2. Len(stack') = 1 /\ stack'[1] = f /\ scopes' = scopes + 1
    BY <1>6, <2>1 DEF Pushed, Start
  <2> QED
    BY <1>0, <2>1, <2>2
    DEF ScopesInv, ScopesBalanced, Top, Begun, OwnScope, Entries
<1>7. CASE \E kind \in {"block", "if"} : EnterBlock(kind)
  BY <1>2, <1>7, BlockStack, StackIsLike DEF EnterBlock, Running, Kinds
<1>8. CASE \E l \in Limit, expected \in BOOLEAN : Invoke(l, expected)
  BY <1>2, <1>8, InvokeStack, StackIsLike DEF Invoke, Running, Kinds
<1>9. CASE EnterSaga
  BY <1>2, <1>9, SagaStack, StackIsLike DEF EnterSaga, Running, Kinds
<1>10. CASE \/ EndBlock \/ FailBlock \/ Return \/ Complete \/ GiveUp
            \/ EndSaga \/ EndUndo
  <2>1. stack # <<>> /\ Popped
    BY <1>10, EndStack
  <2>2. scopes' \in Int /\ scopes' >= scopes - OwnScope(Top)
    BY <1>0, <1>10
    DEF EndBlock, FailBlock, Return, Complete, GiveUp, EndSaga, EndUndo,
        AttemptFails, Ended, Failed, Leave, OwnScope
  <2>3. ASSUME ~caught', ~failing'
        PROVE  ~caught /\ ~failing /\ scopes' = scopes - OwnScope(Top)
    <3>1. CASE EndBlock \/ EndSaga \/ Complete
      BY <2>3, <3>1, <1>0
      DEF EndBlock, EndSaga, Complete, Ended, Running, Leave, OwnScope
    <3>2. CASE FailBlock \/ GiveUp \/ EndUndo
      BY <2>3, <3>2 DEF FailBlock, GiveUp, EndUndo, Failed
    <3>3. CASE Return
      BY <2>3, <3>3, <1>0 DEF Return, Ended, Failed, OwnScope
    <3> QED
      BY <1>10, <3>1, <3>2, <3>3
  <2> QED
    BY <1>3, <2>1, <2>2, <2>3
<1>11. CASE (\E a \in Actions : Call(a)) \/ Compensate
  <2>1. PICK a \in Actions, rest \in Seq(Frame) :
           /\ Like(rest) /\ CallAction(a, rest) /\ stack # <<>> /\ ~failing
           /\ \/ stack' = rest
              \/ \E f : Begun(f, "action") /\ Pushed(rest, f)
    BY <1>11, CallStack
  <2>2. CASE Perform(a, rest)
    <3>1. rest \in Seq(Frame)
      BY <2>1 DEF Like
    <3>2. PICK f : Begun(f, "action") /\ Pushed(rest, f)
      BY <2>2, <3>1, PerformStack
    <3> QED
      BY <1>2, <2>1, <2>2, <3>2 DEF Perform, Kinds
  <2>3. CASE Replay(a, rest) \/ Refuse(a, rest)
    <3>1. /\ stack' = rest /\ scopes' \in Int /\ scopes' >= scopes
          /\ ~caught' /\ ~failing' => ~caught /\ scopes' = scopes
      BY <1>0, <2>3 DEF Replay, Refuse
    <3> QED
      BY <1>5, <2>1, <3>1
  <2> QED
    BY <2>1, <2>2, <2>3 DEF CallAction
<1>12. CASE Retry
  <2>1. caught' /\ scopes' = scopes
    BY <1>12 DEF Retry
  <2>2. stack # <<>> /\ Like(stack')
    BY <1>12, RetryLike
  <2> QED
    BY <1>0, <1>5, <2>1, <2>2
<1>13. CASE FailSaga \/ UndoWorkflow
  <2>1. /\ stack # <<>> /\ caught' /\ Top.kind \in {"saga", "workflow"}
        /\ scopes' = IF FailSaga THEN scopes - 1 ELSE scopes
    BY <1>13 DEF FailSaga, UndoWorkflow, Failed, Undo
  <2>2. PICK f : /\ Continues(f, Top) /\ Changed(stack', f)
                 /\ f.kind = IF FailSaga THEN "undo" ELSE "undoAll"
    BY <1>13, FailSagaStack, UndoWorkflowStack
  <2>3. /\ Len(stack') = Len(stack)
        /\ \A i \in 1 .. Len(stack) :
              /\ stack'[i].depth = stack[i].depth
              /\ i < Len(stack) => OwnScope(stack'[i]) = OwnScope(stack[i])
    BY <1>1, <2>1, <2>2 DEF Changed, Continues
  <2>4. /\ scopes' \in Int
        /\ scopes' - OwnScope(stack'[Len(stack)]) >= scopes - OwnScope(Top)
    BY <1>0, <2>1, <2>2 DEF Changed, OwnScope
  <2> QED
    BY <1>4, <2>1, <2>3, <2>4
<1>14. CASE Finish
  BY <1>14 DEF Finish, ScopesInv, ScopesBalanced
<1>15. CASE Fail
  BY <1>15 DEF Fail, ScopesInv, ScopesBalanced, Top
<1>16. CASE PassOver
  <2>1. caught
    BY <1>1, <1>16 DEF PassOver, ShapeInv, KindOK
  <2> QED
    BY <1>0, <1>16, <2>1 DEF PassOver, ScopesInv, ScopesBalanced, Top
<1>17. CASE UNCHANGED vars
  BY <1>17 DEF vars, ScopesInv, ScopesBalanced, Top
<1> QED
  BY <1>6, <1>7, <1>8, <1>9, <1>10, <1>11, <1>12, <1>13, <1>14, <1>15, <1>16,
     <1>17
  DEF Next

-----------------------------------------------------------------------------
(* Budgets.                                                                *)

\* The first construct begins with no budget open.
BudgetsInv ==
    /\ BudgetsHold
    /\ stack # <<>> => stack[1].level = 0

LEMMA OpenBudgetFacts ==
    ASSUME TypeOK, NEW f \in Frame, OpenBudget(f.limit)
    PROVE  /\ Len(budgets') = Len(budgets) + Opened(f)
           /\ \A b \in 1 .. Len(budgets) : budgets'[b] = budgets[b]
           /\ \A b \in Len(budgets) + 1 .. Len(budgets') :
                 budgets'[b] = [limit |-> f.limit, baseline |-> spent]
<1> DEFINE b == [limit |-> f.limit, baseline |-> spent]
           B == [limit : Nat, baseline : Nat]
<1>1. budgets \in Seq(B) /\ (f.limit # NoLimit => b \in B)
  BY RuntimeAssumption DEF TypeOK, Frame, Limit
<1>2. budgets' = IF f.limit = NoLimit THEN budgets ELSE Append(budgets, b)
  BY DEF OpenBudget
<1> HIDE DEF b, B
<1>3. CASE f.limit = NoLimit
  BY <1>1, <1>2, <1>3 DEF Opened
<1>4. CASE f.limit # NoLimit
  BY <1>1, <1>2, <1>4 DEF Opened, b
<1> QED
  BY <1>3, <1>4

LEMMA CloseBudgetFacts ==
    ASSUME TypeOK, NEW f \in Frame, CloseBudget(f), Opened(f) <= Len(budgets)
    PROVE  /\ Len(budgets') = Len(budgets) - Opened(f)
           /\ \A b \in 1 .. Len(budgets') : budgets'[b] = budgets[b]
<1> DEFINE B == [limit : Nat, baseline : Nat]
<1>1. budgets \in Seq(B)
  BY DEF TypeOK
<1> HIDE DEF B
<1>2. CASE f.limit = NoLimit
  BY <1>1, <1>2 DEF CloseBudget, Opened
<1>3. CASE f.limit # NoLimit
  <2>1. budgets # <<>> /\ budgets' = SubSeq(budgets, 1, Len(budgets) - 1)
    BY <1>1, <1>3 DEF CloseBudget, Opened
  <2> QED
    BY <1>1, <1>3, <2>1, DropLastFacts DEF Opened
<1> QED
  BY <1>2, <1>3

\* A budget is opened by the construct that declares it and closed when that
\* construct ends; the cost of an action is added where it is affordable.
LEMMA BudgetsStep ==
    ASSUME TypeOK, ShapeInv, UndoableInv, BudgetsInv, [Next]_vars
    PROVE  BudgetsInv'
<1>0. /\ stack \in Seq(Frame) /\ Len(stack) \in Nat /\ spent \in Nat
      /\ Len(budgets) \in Nat
      /\ \A i \in 1 .. Len(stack) : stack[i] \in Frame
      /\ \A b \in 1 .. Len(budgets) :
            budgets[b].limit \in Nat /\ budgets[b].baseline \in Nat
  <2> DEFINE B == [limit : Nat, baseline : Nat]
  <2>1. stack \in Seq(Frame) /\ spent \in Nat /\ budgets \in Seq(B)
    BY DEF TypeOK
  <2>2. \A b \in B : b.limit \in Nat /\ b.baseline \in Nat
    OBVIOUS
  <2> HIDE DEF B
  <2> QED
    BY <2>1, <2>2
<1>1. stack # <<>> => /\ Len(stack) \in Nat \ {0} /\ Top = stack[Len(stack)]
                      /\ Top \in Frame
                      /\ Top.level + Opened(Top) = Len(budgets)
  BY <1>0 DEF Top, BudgetsInv, BudgetsHold, BudgetsBalanced
<1>2. \A f \in Frame : Opened(f) \in {0, 1} /\ f.level \in Nat
  BY DEF Opened, Frame
<1>3. ASSUME NEW s, Like(s), stack # <<>>, NEW f, NEW kind, Begun(f, kind),
             Pushed(s, f), OpenBudget(f.limit), spent' = spent
      PROVE  BudgetsInv'
  <2>1. /\ Len(stack') = Len(stack) + 1 /\ stack' # <<>>
        /\ stack'[Len(stack) + 1] = f /\ f.level = Len(budgets)
        /\ f \in Frame
    BY <1>0, <1>3 DEF Pushed, Like, Begun
  <2>2. \A i \in 1 .. Len(stack) : /\ stack'[i].level = stack[i].level
                                   /\ Opened(stack'[i]) = Opened(stack[i])
    BY <1>3 DEF Pushed, Like, Continues, Opened
  <2>3. /\ Len(budgets') = Len(budgets) + Opened(f)
        /\ \A b \in 1 .. Len(budgets) : budgets'[b] = budgets[b]
        /\ \A b \in Len(budgets) + 1 .. Len(budgets') :
              budgets'[b] = [limit |-> f.limit, baseline |-> spent]
    BY <1>3, <2>1, OpenBudgetFacts
  <2>4. WithinBudget'
    <3> SUFFICES ASSUME NEW b \in 1 .. Len(budgets')
                 PROVE  spent - budgets'[b].baseline <= budgets'[b].limit
      BY <1>3 DEF WithinBudget
    <3>1. CASE b \in 1 .. Len(budgets)
      BY <2>3, <3>1 DEF BudgetsInv, BudgetsHold, WithinBudget
    <3>2. CASE b \notin 1 .. Len(budgets)
      <4>1. b \in Len(budgets) + 1 .. Len(budgets') /\ f.limit # NoLimit
        BY <1>0, <2>1, <2>3, <3>2 DEF Opened
      <4>2. budgets'[b].limit = f.limit /\ budgets'[b].baseline = spent
        BY <2>3, <4>1
      <4>3. f.limit \in Nat
        BY <2>1, <4>1, RuntimeAssumption DEF Frame, Limit
      <4> QED
        BY <1>0, <4>2, <4>3
    <3> QED
      BY <3>1, <3>2
  <2>5. ASSUME NEW i \in 1 .. Len(stack')
        PROVE  stack'[i].level + Opened(stack'[i])
                  = IF i = Len(stack') THEN Len(budgets') ELSE stack'[i + 1].level
    <3>1. CASE i = Len(stack) + 1
      BY <2>1, <2>3, <3>1
    <3>2. CASE i = Len(stack)
      BY <1>0, <1>1, <1>3, <2>1, <2>2, <3>2
    <3>3. CASE i # Len(stack) /\ i # Len(stack) + 1
      <4>1. i \in 1 .. Len(stack) /\ i + 1 \in 1 .. Len(stack)
        BY <1>0, <2>1, <3>3
      <4> QED
        BY <1>0, <2>1, <2>2, <3>3, <4>1
        DEF BudgetsInv, BudgetsHold, BudgetsBalanced
    <3> QED
      BY <3>1, <3>2, <3>3
  <2>6. stack'[1].level = 0
    BY <1>1, <1>3, <2>2 DEF BudgetsInv
  <2> QED
    BY <2>1, <2>4, <2>5, <2>6
    DEF BudgetsInv, BudgetsHold, BudgetsBalanced, Opened
<1>4. ASSUME stack # <<>>, Len(stack) # 1, Popped, CloseBudget(Top),
             spent' \in Nat,
             \A b \in 1 .. Len(budgets) :
                spent' - budgets[b].baseline <= budgets[b].limit
      PROVE  BudgetsInv'
  <2>1. /\ Len(stack') = Len(stack) - 1
        /\ \A i \in 1 .. Len(stack) - 1 : stack'[i] = stack[i]
    BY <1>4 DEF Popped
  <2>6. stack' # <<>>
    BY <1>0, <1>1, <1>4, <2>1
  <2>2. /\ Len(budgets') = Top.level
        /\ \A b \in 1 .. Len(budgets') : budgets'[b] = budgets[b]
        /\ Len(budgets') <= Len(budgets)
    BY <1>0, <1>1, <1>2, <1>4, CloseBudgetFacts
  <2>3. WithinBudget'
    BY <1>0, <1>1, <1>2, <1>4, <2>2 DEF WithinBudget
  <2>4. ASSUME NEW i \in 1 .. Len(stack')
        PROVE  stack'[i].level + Opened(stack'[i])
                  = IF i = Len(stack') THEN Len(budgets') ELSE stack'[i + 1].level
    <3>1. /\ i \in 1 .. Len(stack) /\ i # Len(stack) /\ stack'[i] = stack[i]
      BY <1>0, <2>1
    <3>2. stack[i].level + Opened(stack[i]) = stack[i + 1].level
      BY <3>1 DEF BudgetsInv, BudgetsHold, BudgetsBalanced
    <3>3. CASE i = Len(stack')
      BY <1>0, <1>1, <1>4, <2>1, <2>2, <3>1, <3>2, <3>3
    <3>4. CASE i # Len(stack')
      <4>1. stack'[i + 1] = stack[i + 1]
        BY <1>0, <2>1, <3>4, SMTT(30)
      <4> QED
        BY <3>1, <3>2, <3>4, <4>1
    <3> QED
      BY <3>3, <3>4
  <2>5. stack'[1].level = 0
    BY <1>0, <1>1, <1>4, <2>1 DEF BudgetsInv
  <2> QED
    BY <2>3, <2>4, <2>5, <2>6
    DEF BudgetsInv, BudgetsHold, BudgetsBalanced, Opened
<1>5. ASSUME stack # <<>>, Len(stack') = Len(stack), stack' \in Seq(Frame),
             \A i \in 1 .. Len(stack) :
                stack'[i].level = stack[i].level /\ stack'[i].limit = stack[i].limit,
             UNCHANGED ledger
      PROVE  BudgetsInv'
  <2>1. \A i \in 1 .. Len(stack) : Opened(stack'[i]) = Opened(stack[i])
    BY <1>5 DEF Opened
  <2>2. ASSUME NEW i \in 1 .. Len(stack')
        PROVE  stack'[i].level + Opened(stack'[i])
                  = IF i = Len(stack') THEN Len(budgets') ELSE stack'[i + 1].level
    <3>1. i \in 1 .. Len(stack) /\ (i # Len(stack) => i + 1 \in 1 .. Len(stack))
      BY <1>0, <1>5
    <3>2. stack[i].level + Opened(stack[i])
             = IF i = Len(stack) THEN Len(budgets) ELSE stack[i + 1].level
      BY <3>1 DEF BudgetsInv, BudgetsHold, BudgetsBalanced
    <3> QED
      BY <1>5, <2>1, <3>1, <3>2 DEF ledger
  <2>3. stack' # <<>> /\ stack'[1].level = 0
    BY <1>0, <1>1, <1>5 DEF BudgetsInv
  <2>4. WithinBudget'
    BY <1>5 DEF ledger, BudgetsInv, BudgetsHold, WithinBudget
  <2> QED
    BY <2>2, <2>3, <2>4 DEF BudgetsInv, BudgetsHold, BudgetsBalanced, Opened
<1>6. ASSUME stack # <<>>, Len(stack) # 1, Popped, UNCHANGED budgets,
             Top.limit = NoLimit, spent' \in Nat,
             \A b \in 1 .. Len(budgets) :
                spent' - budgets[b].baseline <= budgets[b].limit
      PROVE  BudgetsInv'
  BY <1>4, <1>6 DEF CloseBudget
<1>7. ASSUME NEW kind \in Entries, NEW l \in Limit, Start(kind, l)
      PROVE  BudgetsInv'
  <2>1. PICK f : Begun(f, kind) /\ f.limit = l /\ Pushed(<<>>, f)
    BY <1>7, StartStack
  <2>2. /\ Len(stack') = 1 /\ stack'[1] = f /\ f \in Frame
        /\ budgets = <<>> /\ f.level = 0
    BY <1>7, <2>1 DEF Pushed, Begun, Start, ShapeInv
  <2>3. OpenBudget(f.limit) /\ spent' = spent
    BY <1>7, <2>1 DEF Start
  <2>4. /\ Len(budgets') = Len(budgets) + Opened(f)
        /\ \A b \in Len(budgets) + 1 .. Len(budgets') :
              budgets'[b] = [limit |-> f.limit, baseline |-> spent]
    BY <2>2, <2>3, OpenBudgetFacts
  <2>5. WithinBudget'
    <3> SUFFICES ASSUME NEW b \in 1 .. Len(budgets')
                 PROVE  spent - budgets'[b].baseline <= budgets'[b].limit
      BY <2>3 DEF WithinBudget
    <3>1. /\ budgets'[b].limit = f.limit /\ budgets'[b].baseline = spent
          /\ f.limit # NoLimit
      BY <1>2, <2>2, <2>4 DEF Opened
    <3>2. f.limit \in Nat
      BY <2>2, <3>1, RuntimeAssumption DEF Frame, Limit
    <3> QED
      BY <1>0, <3>1, <3>2
  <2>6. stack' # <<>> /\ f.level + Opened(f) = Len(budgets')
    BY <1>2, <2>1, <2>2, <2>4 DEF Pushed
  <2>7. ASSUME NEW i \in 1 .. Len(stack')
        PROVE  stack'[i].level + Opened(stack'[i])
                  = IF i = Len(stack') THEN Len(budgets') ELSE stack'[i + 1].level
    <3>1. i = 1 /\ i = Len(stack') /\ stack'[i] = f
      BY <2>2
    <3> QED
      BY <2>6, <3>1
  <2> QED
    BY <2>2, <2>5, <2>6, <2>7
    DEF BudgetsInv, BudgetsHold, BudgetsBalanced, Opened
<1>8. CASE \E kind \in {"block", "if"} : EnterBlock(kind)
  BY <1>3, <1>8, BlockStack, StackIsLike
     DEF EnterBlock, Running, OpenBudget, ledger
<1>9. CASE \E l \in Limit, expected \in BOOLEAN : Invoke(l, expected)
  BY <1>3, <1>9, InvokeStack, StackIsLike DEF Invoke, Running
<1>10. CASE EnterSaga
  BY <1>3, <1>10, SagaStack, StackIsLike
     DEF EnterSaga, Running, OpenBudget, ledger
<1>11. ASSUME stack # <<>>, Top.kind \in {"block", "if", "saga", "action", "undo"}
       PROVE  Len(stack) # 1 /\ Top.limit = NoLimit
  BY <1>1, <1>11 DEF ShapeInv, KindOK, Bottom, Entries
<1>12. \A b \in 1 .. Len(budgets) : spent - budgets[b].baseline <= budgets[b].limit
  BY DEF BudgetsInv, BudgetsHold, WithinBudget
<1>13. CASE EndBlock \/ FailBlock \/ GiveUp \/ EndSaga \/ EndUndo
  <2>1. stack # <<>> /\ Popped
    BY <1>13, EndStack
  <2>2. /\ Top.kind \in {"block", "if", "saga", "action", "undo"}
        /\ UNCHANGED ledger
    BY <1>13 DEF EndBlock, FailBlock, GiveUp, EndSaga, EndUndo, Ended, Failed,
                 AttemptFails
  <2> QED
    BY <1>0, <1>6, <1>11, <1>12, <2>1, <2>2 DEF ledger
<1>14. CASE Return
  <2>1. stack # <<>> /\ Popped
    BY <1>14, EndStack
  <2>2. Top.kind = "call" /\ CloseBudget(Top) /\ spent' = spent
    BY <1>14 DEF Return, Ended, Failed
  <2>3. Len(stack) # 1
    BY <1>1, <2>1, <2>2 DEF ShapeInv, Bottom, Entries
  <2> QED
    BY <1>0, <1>4, <1>12, <2>1, <2>2, <2>3
<1>15. CASE Complete
  <2>1. stack # <<>> /\ Popped
    BY <1>15, EndStack
  <2>2. /\ Top.kind = "action" /\ UNCHANGED budgets
        /\ \/ spent' = spent
           \/ spent' = spent + Cost[Top.of] /\ Affordable(Cost[Top.of])
    BY <1>15 DEF Complete, Ended
  <2>3. Cost[Top.of] \in Nat
    BY <1>1, <2>1, <2>2, RuntimeAssumption DEF ShapeInv, KindOK
  <2>4. /\ spent' \in Nat
        /\ \A b \in 1 .. Len(budgets) :
              spent' - budgets[b].baseline <= budgets[b].limit
    BY <1>0, <1>12, <2>2, <2>3 DEF Affordable
  <2> QED
    BY <1>6, <1>11, <2>1, <2>2, <2>4
<1>16. CASE (\E a \in Actions : Call(a)) \/ Compensate
  <2>1. PICK a \in Actions, rest \in Seq(Frame) :
           /\ Like(rest) /\ CallAction(a, rest) /\ stack # <<>> /\ ~failing
           /\ \/ stack' = rest
              \/ \E f : /\ Begun(f, "action") /\ f.limit = NoLimit
                        /\ Pushed(rest, f)
    BY <1>16, CallStack
  <2>2. UNCHANGED ledger
    BY <2>1 DEF CallAction, Replay, Perform, Refuse
  <2>3. CASE stack' = rest
    BY <1>5, <2>1, <2>2, <2>3 DEF Like, Continues
  <2>4. CASE \E f : /\ Begun(f, "action") /\ f.limit = NoLimit
                    /\ Pushed(rest, f)
    BY <1>3, <2>1, <2>2, <2>4 DEF OpenBudget, ledger
  <2> QED
    BY <2>1, <2>3, <2>4
<1>17. CASE Retry
  <2>1. stack # <<>> /\ Like(stack') /\ UNCHANGED ledger
    BY <1>17, RetryLike DEF Retry
  <2> QED
    BY <1>5, <2>1 DEF Like, Continues
<1>18. CASE FailSaga \/ UndoWorkflow
  <2>1. stack # <<>> /\ UNCHANGED ledger
    BY <1>18 DEF FailSaga, UndoWorkflow, Failed
  <2>2. PICK f : Continues(f, Top) /\ Changed(stack', f)
    BY <1>18, FailSagaStack, UndoWorkflowStack
  <2>3. /\ Len(stack') = Len(stack) /\ stack' \in Seq(Frame)
        /\ \A i \in 1 .. Len(stack) :
              stack'[i].level = stack[i].level /\ stack'[i].limit = stack[i].limit
    BY <1>1, <2>1, <2>2 DEF Changed, Continues
  <2> QED
    BY <1>5, <2>1, <2>3
<1>19. CASE Finish
  <2>1. stack # <<>> /\ Len(stack) = 1 /\ stack' = <<>> /\ CloseBudget(Top)
    BY <1>19 DEF Finish
  <2>2. Len(budgets') = Top.level /\ Top.level = 0
    BY <1>0, <1>1, <1>2, <2>1, CloseBudgetFacts DEF BudgetsInv
  <2>3. budgets' \in Seq([limit : Nat, baseline : Nat])
    BY <1>1, <2>1, CloseBudgetType
  <2>4. budgets' = <<>>
    BY <2>2, <2>3
  <2> QED
    BY <2>1, <2>4 DEF BudgetsInv, BudgetsHold, WithinBudget, BudgetsBalanced
<1>20. CASE Fail \/ PassOver \/ UNCHANGED vars
  BY <1>20
     DEF Fail, PassOver, vars, ledger, BudgetsInv, BudgetsHold, WithinBudget,
         BudgetsBalanced, Opened
<1> QED
  BY <1>7, <1>8, <1>9, <1>10, <1>13, <1>14, <1>15, <1>16, <1>17, <1>18, <1>19,
     <1>20
  DEF Next

-----------------------------------------------------------------------------
(* Sagas: the flag, the numbers and the lists.                             *)

\* The flag that a saga leaves is the one it found.
LEMMA FlagStep ==
    ASSUME TypeOK, ShapeInv, UndoableInv, FlagInv, [Next]_vars
    PROVE  FlagInv'
<1> DEFINE Same(m) == \A i \in 1 .. m :
              /\ stack'[i].kind = "saga" <=> stack[i].kind = "saga"
              /\ stack'[i].was = stack[i].was
           IsSaga(i) == stack[i].kind = "saga"
<1>0. stack \in Seq(Frame) /\ Len(stack) \in Nat
  BY DEF TypeOK
<1>1. stack # <<>> => Len(stack) \in Nat \ {0} /\ Top = stack[Len(stack)]
  BY <1>0 DEF Top
<1>2. ASSUME Same(Len(stack)), Len(stack') \in {Len(stack), Len(stack) + 1},
             Len(stack') = Len(stack) + 1 =>
                stack'[Len(stack) + 1].kind # "saga",
             inSaga' = inSaga
      PROVE  FlagInv'
  <2>1. ASSUME NEW i \in 1 .. Len(stack'), stack'[i].kind = "saga"
        PROVE  /\ i \in 1 .. Len(stack) /\ stack[i].kind = "saga"
               /\ stack'[i].was <=> \E j \in 1 .. i - 1 : stack'[j].kind = "saga"
    <3>1. i \in 1 .. Len(stack)
      BY <1>0, <1>2, <2>1
    <3>2. \A j \in 1 .. i - 1 : j \in 1 .. Len(stack)
      BY <1>0, <3>1
    <3> QED
      BY <1>2, <2>1, <3>1, <3>2 DEF FlagInv
  <2>2. SagaFlag'
    BY <1>0, <1>2, <2>1 DEF FlagInv, SagaFlag
  <2> QED
    BY <2>1, <2>2 DEF FlagInv
<1>3. ASSUME stack # <<>>, Same(Len(stack) - 1),
             Len(stack') \in {Len(stack) - 1, Len(stack)},
             Len(stack') = Len(stack) => stack'[Len(stack)].kind # "saga",
             inSaga' = IF Top.kind = "saga" THEN Top.was ELSE inSaga
      PROVE  FlagInv'
  <2>1. ASSUME NEW i \in 1 .. Len(stack'), stack'[i].kind = "saga"
        PROVE  /\ i \in 1 .. Len(stack) - 1 /\ stack[i].kind = "saga"
               /\ stack'[i].was <=> \E j \in 1 .. i - 1 : stack'[j].kind = "saga"
    <3>1. i \in 1 .. Len(stack) - 1 /\ i \in 1 .. Len(stack)
      BY <1>0, <1>1, <1>3, <2>1
    <3>2. \A j \in 1 .. i - 1 : j \in 1 .. Len(stack) - 1
      BY <1>0, <3>1
    <3> QED
      BY <1>3, <2>1, <3>1, <3>2 DEF FlagInv
  <2>2. \A i \in 1 .. Len(stack) - 1 : i \in 1 .. Len(stack')
    BY <1>0, <1>1, <1>3
  <2>3. (\E i \in 1 .. Len(stack') : stack'[i].kind = "saga")
            <=> \E i \in 1 .. Len(stack) - 1 : stack[i].kind = "saga"
    BY <1>3, <2>1, <2>2
  <2>4. CASE Top.kind = "saga"
    <3>1. Top.was <=> \E j \in 1 .. Len(stack) - 1 : stack[j].kind = "saga"
      BY <1>1, <1>3, <2>4 DEF FlagInv
    <3>2. SagaFlag'
      BY <1>3, <2>3, <2>4, <3>1 DEF SagaFlag
    <3> QED
      BY <2>1, <3>2 DEF FlagInv
  <2>5. CASE Top.kind # "saga"
    <3>1. inSaga <=> \E i \in 1 .. Len(stack) : stack[i].kind = "saga"
      BY DEF FlagInv, SagaFlag
    <3>2. \A i \in 1 .. Len(stack) : i \in 1 .. Len(stack) - 1 \/ i = Len(stack)
      BY <1>0
    <3>3. \A i \in 1 .. Len(stack) - 1 : i \in 1 .. Len(stack)
      BY <1>0
    <3>4. inSaga <=> \E i \in 1 .. Len(stack) - 1 : stack[i].kind = "saga"
      BY <1>1, <1>3, <2>5, <3>1, <3>2, <3>3
    <3>5. SagaFlag'
      BY <1>3, <2>3, <2>5, <3>4 DEF SagaFlag
    <3> QED
      BY <2>1, <3>5 DEF FlagInv
  <2> QED
    BY <2>4, <2>5
<1>4. ASSUME NEW s, Like(s), NEW f, Pushed(s, f), f.kind # "saga",
             inSaga' = inSaga
      PROVE  FlagInv'
  <2>1. Same(Len(stack)) /\ Len(stack') = Len(stack) + 1
        /\ stack'[Len(stack) + 1] = f
    BY <1>4 DEF Pushed, Like, Continues
  <2> QED
    BY <1>2, <1>4, <2>1
<1>5. ASSUME Like(stack'), inSaga' = inSaga
      PROVE  FlagInv'
  BY <1>2, <1>5 DEF Like, Continues
<1>6. ASSUME Popped, stack # <<>>,
             inSaga' = IF Top.kind = "saga" THEN Top.was ELSE inSaga
      PROVE  FlagInv'
  BY <1>3, <1>6 DEF Popped
<1>7. CASE \E kind \in Entries, l \in Limit : Start(kind, l)
  <2>1. PICK kind \in Entries, f \in Frame : Begun(f, kind) /\ Pushed(<<>>, f)
    BY <1>7, StartStack DEF Begun
  <2>2. stack = <<>> /\ ~inSaga /\ inSaga' = inSaga
    BY <1>7 DEF Start, sagas, ShapeInv
  <2>3. Len(stack') = 1 /\ stack'[1] = f /\ f.kind # "saga" /\ Len(stack) = 0
    BY <2>1, <2>2 DEF Pushed, Begun, Entries
  <2> QED
    BY <1>2, <2>2, <2>3
<1>8. CASE \E kind \in {"block", "if"} : EnterBlock(kind)
  BY <1>4, <1>8, BlockStack, StackIsLike DEF EnterBlock, sagas, Begun
<1>9. CASE \E l \in Limit, expected \in BOOLEAN : Invoke(l, expected)
  BY <1>4, <1>9, InvokeStack, StackIsLike DEF Invoke, sagas, Begun
<1>10. CASE EnterSaga
  <2>1. PICK f : /\ Begun(f, "saga") /\ f.was = inSaga /\ Pushed(stack, f)
    BY <1>10, SagaStack
  <2>2. /\ Len(stack') = Len(stack) + 1 /\ stack'[Len(stack) + 1] = f
        /\ f.kind = "saga" /\ inSaga' = TRUE
        /\ \A i \in 1 .. Len(stack) : stack'[i] = stack[i]
    BY <1>10, <2>1 DEF Pushed, Begun, EnterSaga
  <2>3. SagaFlag'
    BY <1>0, <2>2 DEF SagaFlag
  <2>4. ASSUME NEW i \in 1 .. Len(stack'), stack'[i].kind = "saga"
        PROVE  stack'[i].was <=> \E j \in 1 .. i - 1 : stack'[j].kind = "saga"
    <3>1. CASE i = Len(stack) + 1
      BY <1>0, <2>1, <2>2, <3>1 DEF FlagInv, SagaFlag
    <3>2. CASE i # Len(stack) + 1
      <4>1. i \in 1 .. Len(stack) /\ \A j \in 1 .. i - 1 : j \in 1 .. Len(stack)
        BY <1>0, <2>2, <3>2
      <4> QED
        BY <2>2, <2>4, <4>1 DEF FlagInv
    <3> QED
      BY <3>1, <3>2
  <2> QED
    BY <2>3, <2>4 DEF FlagInv
<1>11. CASE EndSaga
  BY <1>6, <1>11, EndStack DEF EndSaga, Ended
<1>12. CASE EndBlock \/ FailBlock \/ Return \/ GiveUp \/ EndUndo
  <2>1. Top.kind # "saga" /\ inSaga' = inSaga
    BY <1>12
    DEF EndBlock, FailBlock, Return, GiveUp, EndUndo, AttemptFails, Ended, Failed,
        sagas
  <2> QED
    BY <1>6, <1>12, <2>1, EndStack
<1>13. CASE Complete
  <2>1. Top.kind # "saga" /\ inSaga' = inSaga
    BY <1>13 DEF Complete, Ended
  <2> QED
    BY <1>6, <1>13, <2>1, EndStack
<1>14. CASE (\E a \in Actions : Call(a)) \/ Compensate
  <2>1. PICK a \in Actions, rest \in Seq(Frame) :
           /\ Like(rest) /\ CallAction(a, rest)
           /\ \/ stack' = rest
              \/ \E f : Begun(f, "action") /\ Pushed(rest, f)
    BY <1>14, CallStack
  <2>2. inSaga' = inSaga
    BY <2>1 DEF CallAction, Replay, Perform, Refuse, sagas
  <2> QED
    BY <1>4, <1>5, <2>1, <2>2 DEF Begun
<1>15. CASE Retry
  BY <1>5, <1>15, RetryLike DEF Retry, sagas
<1>16. CASE FailSaga
  <2>1. /\ stack # <<>> /\ Top.kind = "saga" /\ inSaga' = Top.was
    BY <1>16 DEF FailSaga, Failed
  <2>2. PICK f : f.kind = "undo" /\ Changed(stack', f)
    BY <1>16, FailSagaStack
  <2> QED
    BY <1>1, <1>3, <2>1, <2>2 DEF Changed
<1>17. CASE UndoWorkflow
  <2>1. /\ stack # <<>> /\ Top.kind = "workflow" /\ inSaga' = inSaga
    BY <1>17 DEF UndoWorkflow, Failed, sagas
  <2>2. PICK f : f.kind = "undoAll" /\ Changed(stack', f)
    BY <1>17, UndoWorkflowStack
  <2> QED
    BY <1>1, <1>3, <2>1, <2>2 DEF Changed
<1>18. CASE Finish
  <2>1. /\ stack # <<>> /\ Len(stack) = 1 /\ Top.kind # "saga"
        /\ stack' = <<>> /\ inSaga' = inSaga
    BY <1>18 DEF Finish, sagas, Entries
  <2> QED
    BY <1>1, <1>3, <2>1
<1>19. CASE Fail \/ PassOver \/ UNCHANGED vars
  <2>1. UNCHANGED <<stack, inSaga>>
    BY <1>19 DEF Fail, PassOver, vars, sagas
  <2> QED
    BY <1>5, <2>1, StackIsLike
<1> QED
  BY <1>7, <1>8, <1>9, <1>10, <1>11, <1>12, <1>13, <1>14, <1>15, <1>16, <1>17,
     <1>18, <1>19
  DEF Next

LEMMA FramesHave ==
    ASSUME NEW st \in Seq(Frame), NEW i \in 1 .. Len(st)
    PROVE  /\ st[i] \in Frame
           /\ st[i].from \in Nat /\ st[i].upto \in Nat /\ st[i].pre \in Nat
           /\ st[i].todo \in Seq(Rollback)
<1>1. st[i] \in Frame
  OBVIOUS
<1> QED
  BY <1>1 DEF Frame

\* A new compensation has the highest number.
LEMMA SoundRegister ==
    ASSUME NEW st, NEW rb, NEW se, NEW un, Sound(st, rb, se, un),
           NEW r \in Rollback, r.n = se + 1
    PROVE  Sound(st, Append(rb, r), se + 1, un)
<1> DEFINE rb2 == Append(rb, r)
<1>1. /\ st \in Seq(Frame) /\ rb \in Seq(Rollback) /\ se \in Nat
      /\ un \subseteq 1 .. se /\ Len(st) \in Nat /\ Len(rb) \in Nat
  BY DEF Sound
<1>2. \A i \in 1 .. Len(st) : st[i].from \in Nat /\ st[i].upto \in Nat
  BY <1>1, FramesHave
<1>3. \A i \in 1 .. Len(rb) : rb[i].n \in 1 .. se
  BY DEF Sound, Ordered
<1>4. /\ rb2 \in Seq(Rollback) /\ Len(rb2) = Len(rb) + 1
      /\ rb2[Len(rb) + 1].n = se + 1
      /\ \A i \in 1 .. Len(rb) : rb2[i] = rb[i]
  BY <1>1
<1> HIDE DEF rb2
<1>5. \A i \in 1 .. Len(rb2) : i \in 1 .. Len(rb) \/ i = Len(rb) + 1
  BY <1>1, <1>4
<1>6. Numbers(rb2) = Numbers(rb) \cup {se + 1}
  <2>1. \A i \in 1 .. Len(rb) : i \in 1 .. Len(rb2)
    BY <1>1, <1>4
  <2>2. Len(rb) + 1 \in 1 .. Len(rb2)
    BY <1>1, <1>4
  <2> QED
    BY <1>4, <1>5, <2>1, <2>2 DEF Numbers
<1>7. Rising(rb2)
  <2> SUFFICES ASSUME NEW i \in 1 .. Len(rb2), NEW j \in 1 .. Len(rb2), i < j
               PROVE  rb2[i].n < rb2[j].n
    BY DEF Rising
  <2>1. i \in 1 .. Len(rb)
    BY <1>1, <1>4
  <2>2. CASE j \in 1 .. Len(rb)
    BY <1>4, <2>1, <2>2 DEF Sound, Ordered, Rising
  <2>3. CASE j = Len(rb) + 1
    BY <1>1, <1>3, <1>4, <2>1, <2>3
  <2> QED
    BY <1>5, <2>2, <2>3
<1>8. Ordered(st, rb2, se + 1)
  <2>1. ASSUME NEW i \in 1 .. Len(rb2) PROVE rb2[i].n \in 1 .. se + 1
    <3>1. CASE i \in 1 .. Len(rb)
      <4>1. rb2[i].n \in 1 .. se
        BY <1>3, <1>4, <3>1
      <4> QED
        BY <1>1, <4>1
    <3>2. CASE i = Len(rb) + 1
      BY <1>1, <1>4, <3>2
    <3> QED
      BY <1>5, <3>1, <3>2
  <2>2. \A i \in 1 .. Len(st) : st[i].upto <= se + 1
    BY <1>1, <1>2 DEF Sound, Ordered
  <2> QED
    BY <1>7, <2>1, <2>2 DEF Sound, Ordered
<1>9. Marked(st, rb2)
  <2> SUFFICES ASSUME NEW i \in 1 .. Len(st), st[i].kind = "saga"
               PROVE  /\ st[i].pre <= Len(rb2)
                      /\ \A k \in 1 .. Len(rb2) :
                            k <= st[i].pre <=> rb2[k].n <= st[i].from
    BY DEF Marked
  <2>1. st[i].pre \in Nat /\ st[i].pre <= Len(rb) /\ st[i].from <= se
    BY <1>1, <1>2, FramesHave DEF Sound, Marked, Ordered
  <2>2. \A k \in 1 .. Len(rb) : k <= st[i].pre <=> rb2[k].n <= st[i].from
    BY <1>4 DEF Sound, Marked
  <2>3. ~(Len(rb) + 1 <= st[i].pre) /\ ~(rb2[Len(rb) + 1].n <= st[i].from)
    BY <1>1, <1>2, <1>4, <2>1
  <2>4. st[i].pre <= Len(rb2)
    BY <1>1, <1>4, <2>1
  <2> QED
    BY <1>5, <2>2, <2>3, <2>4
<1>10. Accounted(st, rb2, se + 1, un)
  <2> SUFFICES ASSUME st # <<>>, NEW n \in 1 .. se + 1,
                      st[1].kind # "undoAll" \/ n > st[1].upto
               PROVE  n \in Numbers(rb2) <=>
                         /\ n \notin un
                         /\ \A i \in 1 .. Len(st) : ~TakenBy(st[i], n)
    BY DEF Accounted
  <2>1. CASE n = se + 1
    <3>1. n \notin un
      BY <1>1, <2>1
    <3>2. \A i \in 1 .. Len(st) : st[i].upto <= se
      BY DEF Sound, Ordered
    <3>3. \A i \in 1 .. Len(st) : ~TakenBy(st[i], n)
      BY <1>1, <1>2, <2>1, <3>2 DEF TakenBy
    <3> QED
      BY <1>6, <2>1, <3>1, <3>3
  <2>2. CASE n # se + 1
    <3>1. n \in 1 .. se
      BY <1>1, <2>2
    <3> QED
      BY <1>6, <2>2, <3>1 DEF Sound, Accounted
  <2> QED
    BY <2>1, <2>2
<1>11. rb2 \in Seq(Rollback) /\ se + 1 \in Nat /\ un \subseteq 1 .. se + 1
  BY <1>1, <1>4
<1> QED
  BY <1>8, <1>9, <1>10, <1>11 DEF Sound, rb2

\* A construct that begins has nothing to undo.
LEMMA SoundPush ==
    ASSUME NEW st, NEW rb, NEW se, NEW un, Sound(st, rb, se, un), st # <<>>,
           NEW f \in Frame, f.kind \notin Undoing, f.todo = <<>>,
           f.from = se, f.upto = se, f.kind = "saga" => f.pre = Len(rb),
           NEW t \in Seq(Frame), Len(t) = Len(st) + 1, t[Len(st) + 1] = f,
           \A i \in 1 .. Len(st) : t[i] = st[i]
    PROVE  Sound(t, rb, se, un)
<1>1. /\ st \in Seq(Frame) /\ rb \in Seq(Rollback) /\ se \in Nat
      /\ un \subseteq 1 .. se /\ Len(st) \in Nat \ {0} /\ Len(rb) \in Nat
  BY DEF Sound
<1>2. \A i \in 1 .. Len(st) : st[i].from \in Nat /\ st[i].upto \in Nat
  BY <1>1, FramesHave
<1>3. \A i \in 1 .. Len(t) : i \in 1 .. Len(st) \/ i = Len(st) + 1
  BY <1>1
<1>4. Ordered(t, rb, se)
  <2>1. ASSUME NEW i \in 1 .. Len(t)
        PROVE  /\ Rising(t[i].todo)
               /\ t[i].from <= t[i].upto /\ t[i].upto <= se
               /\ i = 1 => t[i].from = 0
    <3>1. CASE i \in 1 .. Len(st)
      BY <3>1 DEF Sound, Ordered
    <3>2. CASE i = Len(st) + 1
      BY <1>1, <3>2 DEF Rising
    <3> QED
      BY <1>3, <3>1, <3>2
  <2>2. ASSUME NEW i \in 1 .. Len(t), NEW j \in 1 .. Len(t), i < j
        PROVE  t[i].upto <= t[j].from
    <3>1. i \in 1 .. Len(st)
      BY <1>1, <2>2
    <3>2. CASE j \in 1 .. Len(st)
      BY <2>2, <3>1, <3>2 DEF Sound, Ordered
    <3>3. CASE j = Len(st) + 1
      BY <3>1, <3>3 DEF Sound, Ordered
    <3> QED
      BY <1>3, <3>2, <3>3
  <2> QED
    BY <2>1, <2>2 DEF Sound, Ordered
<1>5. Marked(t, rb)
  <2> SUFFICES ASSUME NEW i \in 1 .. Len(t), t[i].kind = "saga"
               PROVE  /\ t[i].pre <= Len(rb)
                      /\ \A k \in 1 .. Len(rb) :
                            k <= t[i].pre <=> rb[k].n <= t[i].from
    BY DEF Marked
  <2>1. CASE i \in 1 .. Len(st)
    BY <2>1 DEF Sound, Marked
  <2>2. CASE i = Len(st) + 1
    <3>1. \A k \in 1 .. Len(rb) : rb[k].n \in 1 .. se
      BY DEF Sound, Ordered
    <3> QED
      BY <1>1, <2>2, <3>1
  <2> QED
    BY <1>3, <2>1, <2>2
<1>6. Accounted(t, rb, se, un)
  <2>1. \A n : ~TakenBy(f, n)
    BY DEF TakenBy, Undoing
  <2>2. t[1] = st[1]
    BY <1>1
  <2>3. \A n : (\A i \in 1 .. Len(t) : ~TakenBy(t[i], n))
                  <=> \A i \in 1 .. Len(st) : ~TakenBy(st[i], n)
    <3>1. \A i \in 1 .. Len(st) : i \in 1 .. Len(t)
      BY <1>1
    <3> QED
      BY <1>3, <2>1, <3>1
  <2> QED
    BY <2>2, <2>3 DEF Sound, Accounted
<1>7. Owns(t, un)
  <2> SUFFICES ASSUME NEW i \in 1 .. Len(t), t[i].kind \in Undoing
               PROVE  Numbers(t[i].todo) = (t[i].from + 1 .. t[i].upto) \ un
    BY DEF Owns
  <2>1. i \in 1 .. Len(st) /\ t[i] = st[i]
    BY <1>3
  <2> QED
    BY <2>1 DEF Sound, Owns
<1> QED
  BY <1>1, <1>4, <1>5, <1>6, <1>7 DEF Sound

\* What an undoing construct leaves undone when it ends is nothing.
LEMMA SoundPop ==
    ASSUME NEW st, NEW rb, NEW se, NEW un, Sound(st, rb, se, un), st # <<>>,
           st[Len(st)].kind = "undo" => st[Len(st)].todo = <<>>,
           NEW t \in Seq(Frame), Len(t) = Len(st) - 1,
           \A i \in 1 .. Len(t) : t[i] = st[i]
    PROVE  Sound(t, rb, se, un)
<1>1. /\ st \in Seq(Frame) /\ rb \in Seq(Rollback) /\ se \in Nat
      /\ un \subseteq 1 .. se /\ Len(st) \in Nat \ {0}
  BY DEF Sound
<1>2. \A i \in 1 .. Len(t) : i \in 1 .. Len(st)
  BY <1>1
<1>3. Ordered(t, rb, se)
  BY <1>2 DEF Sound, Ordered
<1>4. Marked(t, rb)
  BY <1>2 DEF Sound, Marked
<1>5. Owns(t, un)
  BY <1>2 DEF Sound, Owns
<1>6. Accounted(t, rb, se, un)
  <2> SUFFICES ASSUME t # <<>>, NEW n \in 1 .. se,
                      t[1].kind # "undoAll" \/ n > t[1].upto
               PROVE  n \in Numbers(rb) <=>
                         /\ n \notin un
                         /\ \A i \in 1 .. Len(t) : ~TakenBy(t[i], n)
    BY DEF Accounted
  <2> DEFINE top == st[Len(st)]
  <2>1. t[1] = st[1]
    BY <1>1
  <2>2. n \in Numbers(rb) <=>
           n \notin un /\ \A i \in 1 .. Len(st) : ~TakenBy(st[i], n)
    BY <2>1 DEF Sound, Accounted
  <2>3. TakenBy(top, n) => n \in un
    <3>1. ASSUME TakenBy(top, n) PROVE n \in un
      <4>1. /\ Len(st) \in 1 .. Len(st) /\ top.kind = "undo" /\ top.todo = <<>>
            /\ top.from \in Nat /\ top.upto \in Nat
            /\ top.from < n /\ n <= top.upto
        BY <1>1, <3>1, FramesHave DEF TakenBy
      <4>2. Numbers(top.todo) = (top.from + 1 .. top.upto) \ un
        BY <4>1 DEF Sound, Owns, Undoing
      <4>3. Numbers(top.todo) = {}
        BY <4>1 DEF Numbers
      <4> QED
        BY <1>1, <4>1, <4>2, <4>3
    <3> QED
      BY <3>1
  <2>4. \A i \in 1 .. Len(st) : i \in 1 .. Len(t) \/ i = Len(st)
    BY <1>1
  <2> QED
    BY <1>2, <2>2, <2>3, <2>4
<1> QED
  BY <1>1, <1>3, <1>4, <1>5, <1>6 DEF Sound

LEMMA SoundStart ==
    ASSUME NEW f \in Frame, f.kind \in Entries, f.todo = <<>>,
           f.from = 0, f.upto = 0,
           NEW t \in Seq(Frame), Len(t) = 1, t[1] = f
    PROVE  Sound(t, <<>>, 0, {})
<1>1. Rising(<<>>) /\ \A i \in 1 .. Len(t) : i = 1
  BY DEF Rising
<1>2. Ordered(t, <<>>, 0)
  <2>1. ASSUME NEW i \in 1 .. Len(t)
        PROVE  Rising(t[i].todo) /\ t[i].from = 0 /\ t[i].upto = 0
    BY <1>1
  <2> QED
    BY <1>1, <2>1 DEF Ordered
<1>3. Marked(t, <<>>) /\ Accounted(t, <<>>, 0, {}) /\ Owns(t, {})
  BY <1>1 DEF Marked, Accounted, Owns, Entries, Undoing
<1> QED
  BY <1>2, <1>3 DEF Sound

LEMMA SoundLike ==
    ASSUME NEW st, NEW rb, NEW se, NEW un, Sound(st, rb, se, un),
           NEW t \in Seq(Frame), Len(t) = Len(st),
           \A i \in 1 .. Len(st) :
              /\ t[i].kind = st[i].kind /\ t[i].todo = st[i].todo
              /\ t[i].from = st[i].from /\ t[i].upto = st[i].upto
              /\ t[i].pre = st[i].pre
    PROVE  Sound(t, rb, se, un)
<1>1. st \in Seq(Frame) /\ Len(st) \in Nat
  BY DEF Sound
<1>2. Ordered(t, rb, se)
  BY DEF Sound, Ordered
<1>3. Marked(t, rb)
  BY DEF Sound, Marked
<1>4. Owns(t, un)
  BY DEF Sound, Owns
<1>5. Accounted(t, rb, se, un)
  <2>1. t # <<>> => st # <<>> /\ 1 \in 1 .. Len(st)
    BY <1>1
  <2>2. \A n : (\A i \in 1 .. Len(t) : ~TakenBy(t[i], n))
                  <=> \A i \in 1 .. Len(st) : ~TakenBy(st[i], n)
    BY DEF TakenBy
  <2> QED
    BY <2>1, <2>2 DEF Sound, Accounted
<1> QED
  BY <1>2, <1>3, <1>4, <1>5 DEF Sound

\* The newest of what is left to undo is begun.
LEMMA SoundCompensate ==
    ASSUME NEW st, NEW rb, NEW se, NEW un, Sound(st, rb, se, un), st # <<>>,
           st[Len(st)].kind \in Undoing,
           st[Len(st)].kind = "undoAll" => Len(st) = 1,
           st[Len(st)].todo # <<>>,
           NEW t \in Seq(Frame), Len(t) = Len(st),
           t[Len(st)].kind = st[Len(st)].kind,
           t[Len(st)].from = st[Len(st)].from,
           t[Len(st)].upto = st[Len(st)].upto,
           t[Len(st)].todo
              = SubSeq(st[Len(st)].todo, 1, Len(st[Len(st)].todo) - 1),
           \A i \in 1 .. Len(st) - 1 : t[i] = st[i]
    PROVE  LET todo == st[Len(st)].todo
               m == todo[Len(todo)].n IN
           /\ Sound(t, rb, se, un \cup {m})
           /\ m \notin un /\ \A x \in Numbers(todo) : x <= m
<1> DEFINE top == st[Len(st)]
           todo == top.todo
           m == todo[Len(todo)].n
           f == t[Len(st)]
<1>. /\ todo = top.todo /\ todo # <<>> /\ m = todo[Len(todo)].n
     /\ f.todo = SubSeq(todo, 1, Len(todo) - 1)
  OBVIOUS
<1> HIDE DEF todo, m
<1>1. /\ st \in Seq(Frame) /\ rb \in Seq(Rollback) /\ se \in Nat
      /\ un \subseteq 1 .. se /\ Len(st) \in Nat \ {0}
  BY DEF Sound
<1>2. \A i \in 1 .. Len(st) : st[i].from \in Nat /\ st[i].upto \in Nat
  BY <1>1, FramesHave
<1>3. Len(st) \in 1 .. Len(st) /\ todo \in Seq(Rollback)
  BY <1>1, FramesHave
<1>4. /\ Len(todo) \in Nat \ {0}
      /\ \A i \in 1 .. Len(todo) : todo[i].n \in Nat
  <2>1. \A i \in 1 .. Len(todo) : todo[i] \in Rollback
    BY <1>3
  <2> QED
    BY <1>3, <2>1 DEF Rollback
<1>5. /\ Len(f.todo) = Len(todo) - 1
      /\ \A i \in 1 .. Len(todo) - 1 : f.todo[i] = todo[i]
  BY <1>3, DropLastFacts
<1>6. Rising(todo)
  BY <1>3 DEF Sound, Ordered
<1>7. \A i \in 1 .. Len(todo) - 1 : todo[i].n < m
  BY <1>4, <1>6 DEF Rising
<1>8. \A i \in 1 .. Len(todo) : i \in 1 .. Len(todo) - 1 \/ i = Len(todo)
  BY <1>4
<1>9. m \in Nat /\ m \in Numbers(todo) /\ \A x \in Numbers(todo) : x <= m
  <2>1. m \in Nat /\ m \in Numbers(todo)
    BY <1>4 DEF Numbers
  <2>2. \A i \in 1 .. Len(todo) : todo[i].n <= m
    BY <1>4, <1>7, <1>8, <2>1
  <2> QED
    BY <2>1, <2>2 DEF Numbers
<1>10. Numbers(f.todo) = Numbers(todo) \ {m}
  <2>1. \A i \in 1 .. Len(todo) - 1 : i \in 1 .. Len(todo) /\ todo[i].n # m
    BY <1>4, <1>7, <1>9
  <2>2. ASSUME NEW x \in Numbers(f.todo) PROVE x \in Numbers(todo) \ {m}
    <3>1. PICK i \in 1 .. Len(todo) - 1 : x = f.todo[i].n
      BY <1>5 DEF Numbers
    <3> QED
      BY <1>5, <2>1, <3>1 DEF Numbers
  <2>3. ASSUME NEW x \in Numbers(todo) \ {m} PROVE x \in Numbers(f.todo)
    <3>1. PICK i \in 1 .. Len(todo) : x = todo[i].n
      BY DEF Numbers
    <3>2. i \in 1 .. Len(todo) - 1
      BY <1>8, <3>1
    <3> QED
      BY <1>5, <3>1, <3>2 DEF Numbers
  <2> QED
    BY <2>2, <2>3
<1>11. Numbers(todo) = (top.from + 1 .. top.upto) \ un
  BY <1>3 DEF Sound, Owns
<1>12. m \in top.from + 1 .. top.upto /\ m \notin un /\ top.upto <= se
  BY <1>3, <1>9, <1>11 DEF Sound, Ordered
<1>13. m \in 1 .. se
  BY <1>1, <1>2, <1>3, <1>12
<1>14. \A i \in 1 .. Len(st) : i \in 1 .. Len(st) - 1 \/ i = Len(st)
  BY <1>1
<1>15. \A i \in 1 .. Len(st) - 1 : i \in 1 .. Len(st) /\ i < Len(st)
  BY <1>1
<1>16. \A i \in 1 .. Len(st) : /\ t[i].kind = st[i].kind
                               /\ t[i].from = st[i].from
                               /\ t[i].upto = st[i].upto
  BY <1>14
<1>17. Ordered(t, rb, se)
  <2>1. Rising(f.todo)
    <3>1. \A i \in 1 .. Len(f.todo) :
             i \in 1 .. Len(todo) /\ f.todo[i] = todo[i]
      BY <1>4, <1>5
    <3> QED
      BY <1>6, <3>1 DEF Rising
  <2>2. ASSUME NEW i \in 1 .. Len(t)
        PROVE  Rising(t[i].todo)
    BY <1>14, <2>1 DEF Sound, Ordered
  <2> QED
    BY <1>16, <2>2 DEF Sound, Ordered
<1>18. Marked(t, rb)
  <2>1. \A i \in 1 .. Len(st) : t[i].kind = "saga" => t[i] = st[i]
    BY <1>14 DEF Undoing
  <2> QED
    BY <2>1 DEF Sound, Marked
<1>19. Owns(t, un \cup {m})
  <2> SUFFICES ASSUME NEW i \in 1 .. Len(st), t[i].kind \in Undoing
               PROVE  Numbers(t[i].todo)
                         = (t[i].from + 1 .. t[i].upto) \ (un \cup {m})
    BY DEF Owns
  <2>1. CASE i = Len(st)
    BY <1>10, <1>11, <1>16, <2>1
  <2>2. CASE i # Len(st)
    <3>1. i \in 1 .. Len(st) - 1 /\ t[i] = st[i]
      BY <1>14, <2>2
    <3>2. st[i].upto <= top.from
      BY <1>3, <1>15, <3>1 DEF Sound, Ordered
    <3>3. m \notin st[i].from + 1 .. st[i].upto
      BY <1>2, <1>3, <1>12, <3>1, <3>2
    <3>4. Numbers(st[i].todo) = (st[i].from + 1 .. st[i].upto) \ un
      BY <3>1 DEF Sound, Owns
    <3> QED
      BY <3>1, <3>3, <3>4
  <2> QED
    BY <2>1, <2>2
<1>20. Accounted(t, rb, se, un \cup {m})
  <2> SUFFICES ASSUME NEW x \in 1 .. se,
                      t[1].kind # "undoAll" \/ x > t[1].upto
               PROVE  x \in Numbers(rb) <=>
                         /\ x \notin un \cup {m}
                         /\ \A i \in 1 .. Len(t) : ~TakenBy(t[i], x)
    BY DEF Accounted
  <2>1. t[1].kind = st[1].kind /\ t[1].upto = st[1].upto
    BY <1>1, <1>16
  <2>2. \A i \in 1 .. Len(st) : TakenBy(t[i], x) <=> TakenBy(st[i], x)
    BY <1>16 DEF TakenBy
  <2>3. x \in Numbers(rb) <=>
           x \notin un /\ \A i \in 1 .. Len(st) : ~TakenBy(st[i], x)
    BY <2>1 DEF Sound, Accounted
  <2>4. CASE x # m
    BY <2>2, <2>3, <2>4
  <2>5. CASE x = m
    <3>1. top.kind = "undo"
      BY <1>2, <1>3, <1>12, <2>1, <2>5 DEF Undoing
    <3>2. TakenBy(top, x)
      BY <1>2, <1>3, <1>12, <2>5, <3>1 DEF TakenBy
    <3> QED
      BY <1>3, <2>3, <2>5, <3>2
  <2> QED
    BY <2>4, <2>5
<1>21. un \cup {m} \subseteq 1 .. se
  BY <1>1, <1>13
<1> QED
  BY <1>1, <1>9, <1>12, <1>17, <1>18, <1>19, <1>20, <1>21 DEF Sound, todo, m

LEMMA SplitFacts ==
    ASSUME NEW rb \in Seq(Rollback), NEW p \in Nat, p <= Len(rb)
    PROVE  /\ SubSeq(rb, 1, p) \in Seq(Rollback)
           /\ Len(SubSeq(rb, 1, p)) = p
           /\ \A k \in 1 .. p :
                 k \in 1 .. Len(rb) /\ SubSeq(rb, 1, p)[k] = rb[k]
           /\ Len(SubSeq(rb, p + 1, Len(rb))) = Len(rb) - p
           /\ \A k \in 1 .. Len(rb) - p :
                 /\ p + k \in 1 .. Len(rb) /\ ~(p + k <= p)
                 /\ SubSeq(rb, p + 1, Len(rb))[k] = rb[p + k]
           /\ Rising(rb) => /\ Rising(SubSeq(rb, 1, p))
                            /\ Rising(SubSeq(rb, p + 1, Len(rb)))
<1> DEFINE keep == SubSeq(rb, 1, p)
           todo == SubSeq(rb, p + 1, Len(rb))
<1>1. /\ keep \in Seq(Rollback)
      /\ Len(keep) = IF 1 <= p THEN p - 1 + 1 ELSE 0
      /\ \A k \in 1 .. p - 1 + 1 : keep[k] = rb[1 + k - 1]
  BY SubSeqFacts
<1>2. Len(keep) = p /\ \A k \in 1 .. p : keep[k] = rb[k]
  BY <1>1
<1>3. /\ Len(todo) = Len(rb) - p
      /\ \A k \in 1 .. Len(rb) - p : todo[k] = rb[p + k]
  BY SuffixFacts
<1> HIDE DEF keep, todo
<1>4. \A k \in 1 .. p : k \in 1 .. Len(rb)
  OBVIOUS
<1>5. \A k \in 1 .. Len(rb) - p : p + k \in 1 .. Len(rb) /\ ~(p + k <= p)
  OBVIOUS
<1>6. Rising(rb) => Rising(keep)
  BY <1>2, <1>4 DEF Rising
<1>7. ASSUME Rising(rb) PROVE Rising(todo)
  <2> SUFFICES ASSUME NEW i \in 1 .. Len(rb) - p, NEW j \in 1 .. Len(rb) - p,
                      i < j
               PROVE  todo[i].n < todo[j].n
    BY <1>3 DEF Rising
  <2>1. p + i < p + j
    OBVIOUS
  <2> QED
    BY <1>3, <1>5, <1>7, <2>1 DEF Rising
<1> QED
  BY <1>1, <1>2, <1>3, <1>4, <1>5, <1>6, <1>7 DEF keep, todo

\* What was registered since the saga began is taken off the common list.
LEMMA SoundFailSaga ==
    ASSUME NEW st, NEW rb, NEW se, NEW un, Sound(st, rb, se, un),
           Len(st) > 1, st[Len(st)].kind = "saga",
           NEW p, p = st[Len(st)].pre,
           NEW f \in Frame, f.kind = "undo",
           f.from = st[Len(st)].from, f.upto = se,
           f.todo = SubSeq(rb, p + 1, Len(rb)),
           NEW t \in Seq(Frame), Len(t) = Len(st), t[Len(st)] = f,
           \A i \in 1 .. Len(st) - 1 : t[i] = st[i]
    PROVE  Sound(t, SubSeq(rb, 1, p), se, un)
<1> DEFINE top == st[Len(st)]
           from == top.from
           keep == SubSeq(rb, 1, p)
<1>1. /\ st \in Seq(Frame) /\ rb \in Seq(Rollback) /\ se \in Nat
      /\ un \subseteq 1 .. se /\ Len(st) \in Nat \ {0} /\ Len(rb) \in Nat
  BY DEF Sound
<1>2. \A i \in 1 .. Len(st) : st[i].from \in Nat /\ st[i].upto \in Nat
  BY <1>1, FramesHave
<1>3. Len(st) \in 1 .. Len(st) /\ 1 \in 1 .. Len(st) - 1
  BY <1>1
<1>4. p \in Nat /\ p <= Len(rb) /\ from \in Nat /\ from <= se
  BY <1>1, <1>2, <1>3, FramesHave, SMTT(30) DEF Sound, Marked, Ordered
<1>5. \A k \in 1 .. Len(rb) : k <= p <=> rb[k].n <= from
  BY <1>3 DEF Sound, Marked
<1>6. \A k \in 1 .. Len(rb) : rb[k].n \in 1 .. se
  BY DEF Sound, Ordered
<1> DEFINE q == SubSeq(rb, p + 1, Len(rb))
<1>7. /\ keep \in Seq(Rollback) /\ Len(keep) = p
      /\ \A k \in 1 .. p : k \in 1 .. Len(rb) /\ keep[k] = rb[k]
      /\ Rising(keep)
      /\ Len(q) = Len(rb) - p
      /\ \A k \in 1 .. Len(rb) - p :
            p + k \in 1 .. Len(rb) /\ ~(p + k <= p) /\ q[k] = rb[p + k]
      /\ Rising(q)
  BY <1>1, <1>4, SplitFacts DEF Sound, Ordered
<1>8. f.todo = q
  OBVIOUS
<1> HIDE DEF keep, q
<1>9. \A n : n \in Numbers(keep) <=> n \in Numbers(rb) /\ n <= from
  <2>1. \A k \in 1 .. p : k \in 1 .. Len(rb) /\ k <= p
    BY <1>1, <1>4
  <2>2. ASSUME NEW n \in Numbers(keep) PROVE n \in Numbers(rb) /\ n <= from
    <3>1. PICK k \in 1 .. p : n = keep[k].n
      BY <1>7 DEF Numbers
    <3> QED
      BY <1>5, <1>7, <2>1, <3>1 DEF Numbers
  <2>3. ASSUME NEW n \in Numbers(rb), n <= from PROVE n \in Numbers(keep)
    <3>1. PICK k \in 1 .. Len(rb) : n = rb[k].n
      BY DEF Numbers
    <3>2. k \in 1 .. p
      BY <1>1, <1>4, <1>5, <2>3, <3>1
    <3> QED
      BY <1>7, <3>1, <3>2 DEF Numbers
  <2> QED
    BY <2>2, <2>3
<1>10. \A n : n \in Numbers(q) <=> n \in Numbers(rb) /\ ~(n <= from)
  <2>1. ASSUME NEW n \in Numbers(q) PROVE n \in Numbers(rb) /\ ~(n <= from)
    <3>1. PICK k \in 1 .. Len(rb) - p : n = q[k].n
      BY <1>7 DEF Numbers
    <3> QED
      BY <1>5, <1>7, <3>1 DEF Numbers
  <2>2. ASSUME NEW n \in Numbers(rb), ~(n <= from) PROVE n \in Numbers(q)
    <3>1. PICK k \in 1 .. Len(rb) : n = rb[k].n
      BY DEF Numbers
    <3>2. k - p \in 1 .. Len(rb) - p /\ p + (k - p) = k
      BY <1>1, <1>4, <1>5, <2>2, <3>1, SMTT(30)
    <3>3. n = q[k - p].n
      BY <1>7, <3>1, <3>2
    <3> QED
      BY <1>7, <3>2, <3>3 DEF Numbers
  <2> QED
    BY <2>1, <2>2
<1>11. Numbers(rb) \subseteq 1 .. se
  BY <1>6 DEF Numbers
<1>12. \A i \in 1 .. Len(st) : i \in 1 .. Len(st) - 1 \/ i = Len(st)
  BY <1>1
<1>13. \A i \in 1 .. Len(st) - 1 :
          /\ i \in 1 .. Len(st)
          /\ st[i].from <= st[i].upto /\ st[i].upto <= from
  <2> SUFFICES ASSUME NEW i \in 1 .. Len(st) - 1
               PROVE  /\ i \in 1 .. Len(st)
                      /\ st[i].from <= st[i].upto /\ st[i].upto <= from
    OBVIOUS
  <2>1. i \in 1 .. Len(st) /\ i < Len(st)
    BY <1>1
  <2> QED
    BY <1>3, <2>1 DEF Sound, Ordered
<1>14. Ordered(t, keep, se)
  <2>3. \A k \in 1 .. Len(keep) : keep[k].n \in 1 .. se
    BY <1>6, <1>7
  <2>4. ASSUME NEW i \in 1 .. Len(t)
        PROVE  /\ Rising(t[i].todo)
               /\ t[i].from <= t[i].upto /\ t[i].upto <= se
               /\ i = 1 => t[i].from = 0
    <3>1. CASE i \in 1 .. Len(st) - 1
      BY <1>13, <3>1 DEF Sound, Ordered
    <3>2. CASE i = Len(st)
      <4>1. t[i] = f /\ i # 1
        BY <1>3, <3>2
      <4> QED
        BY <1>1, <1>4, <1>7, <1>8, <4>1, SMTT(30)
    <3> QED
      BY <1>12, <3>1, <3>2
  <2>5. ASSUME NEW i \in 1 .. Len(t), NEW j \in 1 .. Len(t), i < j
        PROVE  t[i].upto <= t[j].from
    <3>1. i \in 1 .. Len(st) - 1
      BY <1>1, <2>5
    <3>2. CASE j \in 1 .. Len(st) - 1
      BY <1>13, <2>5, <3>1, <3>2 DEF Sound, Ordered
    <3>3. CASE j = Len(st)
      BY <1>13, <3>1, <3>3
    <3> QED
      BY <1>12, <3>2, <3>3
  <2> QED
    BY <1>7, <2>3, <2>4, <2>5 DEF Ordered
<1>15. Marked(t, keep)
  <2> SUFFICES ASSUME NEW i \in 1 .. Len(t), t[i].kind = "saga"
               PROVE  /\ t[i].pre <= Len(keep)
                      /\ \A k \in 1 .. Len(keep) :
                            k <= t[i].pre <=> keep[k].n <= t[i].from
    BY DEF Marked
  <2>1. i \in 1 .. Len(st) - 1 /\ i \in 1 .. Len(st) /\ t[i] = st[i]
    BY <1>12, <1>13
  <2>2. /\ st[i].pre <= Len(rb) /\ st[i].pre \in Nat
        /\ \A k \in 1 .. Len(rb) : k <= st[i].pre <=> rb[k].n <= st[i].from
    BY <1>1, <2>1, FramesHave DEF Sound, Marked
  <2>3. st[i].pre <= p
    <3>1. ASSUME ~(st[i].pre <= p) PROVE FALSE
      <4>1. p + 1 \in 1 .. Len(rb) /\ p + 1 <= st[i].pre /\ ~(p + 1 <= p)
        <5>1. p \in Nat /\ Len(rb) \in Nat
          BY <1>1, <1>4
        <5> QED
          BY <2>2, <3>1, <5>1
      <4>2. rb[p + 1].n <= st[i].from /\ ~(rb[p + 1].n <= from)
        BY <1>5, <2>2, <4>1
      <4>3. st[i].from <= from /\ st[i].from \in Nat
        <5>1. /\ st[i].from \in Nat /\ st[i].upto \in Nat
              /\ st[i].from <= st[i].upto /\ st[i].upto <= from
          BY <1>2, <1>13, <2>1
        <5> HIDE DEF from
        <5> QED
          BY <1>4, <5>1
      <4>4. rb[p + 1].n \in Nat
        BY <1>1, <1>6, <4>1
      <4>5. from \in Nat
        BY <1>4
      <4> HIDE DEF from
      <4> QED
        BY <4>2, <4>3, <4>4, <4>5
    <3> QED
      BY <3>1
  <2> QED
    BY <1>7, <2>1, <2>2, <2>3
<1>16. \A n \in 1 .. se : ~(n <= from) => (n \in Numbers(rb) <=> n \notin un)
  <2> SUFFICES ASSUME NEW n \in 1 .. se, ~(n <= from)
               PROVE  n \in Numbers(rb) <=> n \notin un
    OBVIOUS
  <2>1. \A i \in 1 .. Len(st) - 1 : ~TakenBy(st[i], n)
    BY <1>2, <1>4, <1>13 DEF TakenBy
  <2>2. \A i \in 1 .. Len(st) : ~TakenBy(st[i], n)
    BY <1>12, <2>1 DEF TakenBy
  <2>3. n > st[1].upto
    <3>1. st[1].upto <= from /\ st[1].upto \in Nat
      BY <1>2, <1>3, <1>13
    <3> QED
      BY <1>1, <1>4, <3>1
  <2> QED
    BY <1>1, <2>2, <2>3 DEF Sound, Accounted
<1>17. Accounted(t, keep, se, un)
  <2> SUFFICES ASSUME NEW n \in 1 .. se,
                      t[1].kind # "undoAll" \/ n > t[1].upto
               PROVE  n \in Numbers(keep) <=>
                         /\ n \notin un
                         /\ \A i \in 1 .. Len(t) : ~TakenBy(t[i], n)
    BY DEF Accounted
  <2>1. CASE n <= from
    <3>1. t[1] = st[1]
      BY <1>3
    <3>2. n \in Numbers(rb) <=>
             n \notin un /\ \A i \in 1 .. Len(st) : ~TakenBy(st[i], n)
      BY <1>1, <3>1 DEF Sound, Accounted
    <3>3. ~TakenBy(f, n) /\ ~TakenBy(top, n)
      BY <1>4, <2>1 DEF TakenBy
    <3>4. (\A i \in 1 .. Len(st) : ~TakenBy(st[i], n))
              <=> \A i \in 1 .. Len(t) : ~TakenBy(t[i], n)
      BY <1>12, <1>13, <3>3
    <3> QED
      BY <1>9, <2>1, <3>2, <3>4
  <2>2. CASE ~(n <= from)
    <3>1. TakenBy(t[Len(st)], n)
      BY <1>4, <2>2 DEF TakenBy
    <3> QED
      BY <1>3, <1>9, <2>2, <3>1
  <2> QED
    BY <2>1, <2>2
<1>18. Owns(t, un)
  <2> SUFFICES ASSUME NEW i \in 1 .. Len(st), t[i].kind \in Undoing
               PROVE  Numbers(t[i].todo) = (t[i].from + 1 .. t[i].upto) \ un
    BY DEF Owns
  <2>1. CASE i = Len(st)
    <3>1. t[i].todo = q /\ t[i].from = from /\ t[i].upto = se
      BY <1>8, <2>1
    <3>2. \A n : n \in from + 1 .. se <=> n \in 1 .. se /\ ~(n <= from)
      BY <1>1, <1>4
    <3>3. \A n : n \in Numbers(q) <=> n \in from + 1 .. se /\ n \notin un
      BY <1>10, <1>11, <1>16, <3>2
    <3> QED
      BY <3>1, <3>3
  <2>2. CASE i \in 1 .. Len(st) - 1
    BY <1>13, <2>2 DEF Sound, Owns
  <2> QED
    BY <1>12, <2>1, <2>2
<1> QED
  BY <1>1, <1>7, <1>14, <1>15, <1>17, <1>18 DEF Sound, keep

\* A workflow that fails undoes all that is on the list.
LEMMA SoundUndoWorkflow ==
    ASSUME NEW st, NEW rb, NEW se, NEW un, Sound(st, rb, se, un),
           Len(st) = 1, st[1].kind \notin Undoing,
           NEW f \in Frame, f.kind = "undoAll",
           f.from = st[1].from, f.upto = se, f.todo = rb,
           NEW t \in Seq(Frame), Len(t) = 1, t[1] = f
    PROVE  Sound(t, rb, se, un)
<1>1. /\ st \in Seq(Frame) /\ rb \in Seq(Rollback) /\ se \in Nat
      /\ un \subseteq 1 .. se /\ 1 \in 1 .. Len(st)
  BY DEF Sound
<1>2. \A i \in 1 .. 1 : i = 1
  OBVIOUS
<1>3. f.from = 0
  BY <1>1 DEF Sound, Ordered
<1>4. Ordered(t, rb, se)
  <2>1. Rising(rb) /\ \A i \in 1 .. Len(rb) : rb[i].n \in 1 .. se
    BY DEF Sound, Ordered
  <2>2. ASSUME NEW i \in 1 .. Len(t)
        PROVE  /\ Rising(t[i].todo)
               /\ t[i].from <= t[i].upto /\ t[i].upto <= se
               /\ i = 1 => t[i].from = 0
    BY <1>1, <1>2, <1>3, <2>1
  <2>3. \A i, j \in 1 .. Len(t) : i < j => t[i].upto <= t[j].from
    BY <1>2
  <2> QED
    BY <2>1, <2>2, <2>3 DEF Ordered
<1>5. Marked(t, rb)
  BY <1>2 DEF Marked
<1>6. Accounted(t, rb, se, un)
  BY <1>1 DEF Accounted
<1>7. Owns(t, un)
  <2>1. Numbers(rb) \subseteq 1 .. se
    BY DEF Sound, Ordered, Numbers
  <2>2. ASSUME NEW n \in 1 .. se PROVE n \in Numbers(rb) <=> n \notin un
    <3>1. st # <<>> /\ \A i \in 1 .. Len(st) : ~TakenBy(st[i], n)
      BY <1>1, <1>2 DEF TakenBy, Undoing
    <3> QED
      BY <3>1 DEF Sound, Accounted, Undoing
  <2>3. Numbers(rb) = (0 + 1 .. se) \ un
    BY <2>1, <2>2
  <2> QED
    BY <1>2, <1>3, <2>3 DEF Owns
<1> QED
  BY <1>1, <1>4, <1>5, <1>6, <1>7 DEF Sound

LEMMA SoundAfterRegister ==
    ASSUME TypeOK, UndoableInv, NEW a \in Actions, Register(a),
           NEW t, NEW un, Sound(t, rollbacks, serial, un)
    PROVE  Sound(t, rollbacks', serial', un)
<1> DEFINE r == [of |-> a, n |-> serial + 1]
<1>1. \/ UNCHANGED <<serial, rollbacks>>
      \/ /\ serial' = serial + 1 /\ rollbacks' = Append(rollbacks, r)
         /\ r \in Rollback
  BY RegisterFacts
<1>2. r.n = serial + 1
  OBVIOUS
<1> HIDE DEF r
<1> QED
  BY <1>1, <1>2, SoundRegister

LEMMA SoundAfterCall ==
    ASSUME TypeOK, UndoableInv, NEW a \in Actions, NEW rest \in Seq(Frame),
           rest # <<>>, CallAction(a, rest),
           NEW un, Sound(rest, rollbacks, serial, un)
    PROVE  Sound(stack', rollbacks', serial', un)
<1>1. CASE Replay(a, rest)
  BY <1>1, SoundAfterRegister DEF Replay
<1>2. CASE Refuse(a, rest)
  BY <1>2 DEF Refuse, sagas
<1>3. CASE Perform(a, rest)
  <2>1. PICK f : Begun(f, "action") /\ Pushed(rest, f)
    BY <1>3, PerformStack
  <2>2. UNCHANGED <<rollbacks, serial>>
    BY <1>3 DEF Perform, sagas
  <2> QED
    BY <2>1, <2>2, SoundPush DEF Begun, Pushed, Undoing
<1> QED
  BY <1>1, <1>2, <1>3 DEF CallAction

\* Every step keeps the account of compensations, and undoes the newest.
LEMMA SagasStep ==
    ASSUME TypeOK, ShapeInv, UndoableInv, SagasInv, [Next]_vars
    PROVE  SagasInv' /\ UndoesNewest
<1>0. /\ stack \in Seq(Frame) /\ Len(stack) \in Nat
      /\ undone \in Seq(Nat) /\ Len(undone) \in Nat
      /\ Sound(stack, rollbacks, serial, Undone)
  BY DEF TypeOK, SagasInv
<1>1. stack # <<>> => /\ Len(stack) \in Nat \ {0} /\ Top = stack[Len(stack)]
                      /\ Top \in Frame
                      /\ Top.kind \in Bottom <=> Len(stack) = 1
  <2> SUFFICES ASSUME stack # <<>>
               PROVE  /\ Len(stack) \in Nat \ {0} /\ Top = stack[Len(stack)]
                      /\ Top \in Frame
                      /\ Top.kind \in Bottom <=> Len(stack) = 1
    OBVIOUS
  <2>1. /\ Len(stack) \in Nat \ {0} /\ Top = stack[Len(stack)]
        /\ Top \in Frame /\ Len(stack) \in 1 .. Len(stack)
    BY <1>0 DEF Top
  <2> QED
    BY <2>1 DEF ShapeInv
<1>2. ASSUME undone' = undone, Sound(stack', rollbacks', serial', Undone)
      PROVE  SagasInv' /\ UndoesNewest
  <2>1. Undone' = Undone
    BY <1>2 DEF Undone
  <2>2. UndoesNewest
    BY <1>0, <1>2 DEF UndoesNewest
  <2> QED
    BY <1>2, <2>1, <2>2 DEF SagasInv
<1>3. ASSUME NEW f, NEW kind, Begun(f, kind), kind \notin Undoing,
             kind = "saga" => f.pre = Len(rollbacks), stack # <<>>,
             Pushed(stack, f), UNCHANGED <<rollbacks, serial>>
      PROVE  Sound(stack', rollbacks', serial', Undone)
  BY <1>0, <1>3, SoundPush DEF Begun, Pushed
<1>4. ASSUME stack # <<>>, Popped, Top.kind = "undo" => Top.todo = <<>>
      PROVE  Sound(stack', rollbacks, serial, Undone)
  BY <1>0, <1>1, <1>4, SoundPop DEF Popped
<1>5. ASSUME NEW kind \in Entries, NEW l \in Limit, Start(kind, l)
      PROVE  SagasInv' /\ UndoesNewest
  <2>1. PICK f : Begun(f, kind) /\ Pushed(<<>>, f)
    BY <1>5, StartStack
  <2>2. /\ Len(stack') = 1 /\ stack'[1] = f /\ stack' \in Seq(Frame)
        /\ rollbacks = <<>> /\ serial = 0 /\ undone = <<>>
        /\ UNCHANGED <<rollbacks, serial, undone>>
    BY <1>5, <2>1 DEF Pushed, Start, ShapeInv, sagas
  <2>3. Undone = {}
    BY <2>2 DEF Undone
  <2>4. Sound(stack', <<>>, 0, {})
    BY <2>1, <2>2, SoundStart DEF Begun
  <2> QED
    BY <1>2, <2>2, <2>3, <2>4
<1>6. CASE \E kind \in {"block", "if"} : EnterBlock(kind)
  BY <1>2, <1>3, <1>6, BlockStack DEF EnterBlock, Running, sagas, Undoing
<1>7. CASE \E l \in Limit, expected \in BOOLEAN : Invoke(l, expected)
  BY <1>2, <1>3, <1>7, InvokeStack DEF Invoke, Running, sagas, Undoing
<1>8. CASE EnterSaga
  BY <1>2, <1>3, <1>8, SagaStack DEF EnterSaga, Running, Undoing
<1>9. CASE EndBlock \/ FailBlock \/ Return \/ GiveUp \/ EndSaga \/ EndUndo
  <2>1. stack # <<>> /\ Popped
    BY <1>9, EndStack
  <2>2. /\ Top.kind = "undo" => Top.todo = <<>>
        /\ UNCHANGED <<rollbacks, serial, undone>>
    BY <1>9
    DEF EndBlock, FailBlock, Return, GiveUp, EndSaga, EndUndo, AttemptFails, Ended,
        Failed, sagas
  <2> QED
    BY <1>2, <1>4, <2>1, <2>2
<1>10. CASE Complete
  <2>1. stack # <<>> /\ Popped
    BY <1>10, EndStack
  <2>2. /\ Top.kind = "action" /\ undone' = undone
        /\ \/ Register(Top.of)
           \/ UNCHANGED <<rollbacks, serial>>
    BY <1>10 DEF Complete, Ended
  <2>3. Top.of \in Actions
    BY <1>1, <2>1, <2>2 DEF ShapeInv, KindOK
  <2> QED
    BY <1>2, <1>4, <2>1, <2>2, <2>3, SoundAfterRegister
<1>11. ASSUME NEW a \in Actions, Call(a) PROVE SagasInv' /\ UndoesNewest
  <2>1. stack # <<>> /\ CallAction(a, stack) /\ undone' = undone
    BY <1>11 DEF Call, Running
  <2> QED
    BY <1>0, <1>2, <2>1, SoundAfterCall
<1>12. CASE Compensate
  <2> DEFINE n == Len(Top.todo)
             m == Top.todo[n].n
  <2>1. /\ stack # <<>> /\ Top.kind \in Undoing /\ Top.todo # <<>>
        /\ n \in Nat \ {0} /\ Top.todo[n] \in Rollback
        /\ undone' = Append(undone, m)
    BY <1>12, CompensateStack DEF Compensate
  <2>2. PICK rest, f :
           /\ Continues(f, Top) /\ f.kind = Top.kind /\ f.upto = Top.upto
           /\ f.todo = SubSeq(Top.todo, 1, n - 1)
           /\ Changed(rest, f)
           /\ CallAction(UndoOf[Top.todo[n].of], rest)
    BY <1>12, CompensateStack
  <2>3. UndoOf[Top.todo[n].of] \in Actions
    <3>1. n \in 1 .. Len(Top.todo) /\ Undoable(Top.todo)
      BY <1>1, <2>1 DEF UndoableInv
    <3> QED
      BY <3>1 DEF Undoable
  <2>4. Top.kind = "undoAll" => Len(stack) = 1
    BY <1>1, <2>1 DEF Bottom
  <2>5. m \in Nat
    BY <2>1 DEF Rollback
  <2> HIDE DEF m
  <2>6. /\ Sound(rest, rollbacks, serial, Undone \cup {m})
        /\ m \notin Undone /\ \A x \in Numbers(Top.todo) : x <= m
    <3> DEFINE top == stack[Len(stack)]
    <3>1. /\ rest \in Seq(Frame) /\ Len(rest) = Len(stack)
          /\ rest[Len(stack)] = f
          /\ \A i \in 1 .. Len(stack) - 1 : rest[i] = stack[i]
      BY <2>2 DEF Changed
    <3>2. /\ rest[Len(stack)].kind = top.kind
          /\ rest[Len(stack)].from = top.from
          /\ rest[Len(stack)].upto = top.upto
          /\ rest[Len(stack)].todo = SubSeq(top.todo, 1, Len(top.todo) - 1)
          /\ m = top.todo[Len(top.todo)].n
      BY <1>1, <2>1, <2>2, <3>1 DEF Continues, m
    <3>3. /\ stack # <<>> /\ top.kind \in Undoing /\ top.todo # <<>>
          /\ top.kind = "undoAll" => Len(stack) = 1
      BY <1>1, <2>1, <2>4
    <3>4. /\ Sound(rest, rollbacks, serial, Undone \cup {m})
          /\ m \notin Undone /\ \A x \in Numbers(top.todo) : x <= m
      BY <1>0, <3>1, <3>2, <3>3, SoundCompensate
    <3> QED
      BY <1>1, <2>1, <3>4
  <2>7. rest \in Seq(Frame) /\ rest # <<>>
    BY <1>1, <2>1, <2>2 DEF Changed
  <2> HIDE DEF n
  <2>8. Sound(stack', rollbacks', serial', Undone \cup {m})
    BY <2>2, <2>3, <2>6, <2>7, SoundAfterCall
  <2>9. /\ Len(undone') = Len(undone) + 1 /\ undone'[Len(undone')] = m
        /\ \A i \in 1 .. Len(undone) : undone'[i] = undone[i]
    BY <1>0, <2>1, <2>5
  <2>10. Undone' = Undone \cup {m}
    <3>1. \A i \in 1 .. Len(undone') : i \in 1 .. Len(undone) \/ i = Len(undone')
      BY <1>0, <2>9
    <3>2. /\ \A i \in 1 .. Len(undone) : i \in 1 .. Len(undone')
          /\ Len(undone') \in 1 .. Len(undone')
      BY <1>0, <2>9
    <3> QED
      BY <2>9, <3>1, <3>2 DEF Undone
  <2>11. UndoesNewest
    BY <2>6, <2>9 DEF UndoesNewest
  <2> QED
    BY <2>8, <2>10, <2>11 DEF SagasInv
<1>13. CASE Retry
  <2>1. stack # <<>> /\ UNCHANGED <<rollbacks, serial, undone>>
    BY <1>13, RetryLike DEF Retry, sagas
  <2>2. PICK f : /\ Continues(f, Top) /\ f.kind = Top.kind
                 /\ f.todo = Top.todo /\ f.upto = Top.upto
                 /\ Changed(stack', f)
    BY <1>13, RetryStack
  <2>3. ASSUME NEW i \in 1 .. Len(stack)
        PROVE  /\ stack'[i].kind = stack[i].kind /\ stack'[i].todo = stack[i].todo
               /\ stack'[i].from = stack[i].from /\ stack'[i].upto = stack[i].upto
               /\ stack'[i].pre = stack[i].pre
    <3>1. CASE i = Len(stack)
      BY <1>1, <2>1, <2>2, <3>1 DEF Changed, Continues
    <3>2. CASE i # Len(stack)
      BY <1>0, <2>2, <3>2, SMTT(30) DEF Changed
    <3> QED
      BY <3>1, <3>2
  <2>4. stack' \in Seq(Frame) /\ Len(stack') = Len(stack)
    BY <2>2 DEF Changed
  <2>5. Sound(stack', rollbacks, serial, Undone)
    BY <1>0, <2>3, <2>4, SoundLike
  <2> QED
    BY <1>2, <2>1, <2>5
<1>14. CASE FailSaga
  <2>1. /\ stack # <<>> /\ Top.kind = "saga"
        /\ rollbacks' = SubSeq(rollbacks, 1, Top.pre)
        /\ UNCHANGED <<serial, undone>>
    BY <1>14 DEF FailSaga, Failed
  <2>2. Len(stack) > 1
    <3>1. Len(stack) # 1 /\ Len(stack) \in Nat \ {0}
      BY <1>1, <2>1 DEF Bottom, Entries
    <3> QED
      BY <3>1
  <2>3. PICK f : /\ Continues(f, Top) /\ f.kind = "undo" /\ f.upto = serial
                 /\ f.todo = SubSeq(rollbacks, Top.pre + 1, Len(rollbacks))
                 /\ Changed(stack', f)
    BY <1>14, FailSagaStack
  <2>4. Sound(stack', SubSeq(rollbacks, 1, Top.pre), serial, Undone)
    BY <1>0, <1>1, <2>1, <2>2, <2>3, SoundFailSaga DEF Continues, Changed
  <2> QED
    BY <1>2, <2>1, <2>4
<1>15. CASE UndoWorkflow
  <2>1. /\ stack # <<>> /\ Top.kind = "workflow"
        /\ UNCHANGED <<rollbacks, serial, undone>>
    BY <1>15 DEF UndoWorkflow, Failed, sagas
  <2>2. Len(stack) = 1 /\ Top = stack[1]
    BY <1>1, <2>1 DEF Bottom, Entries
  <2>3. PICK f : /\ Continues(f, Top) /\ f.kind = "undoAll" /\ f.upto = serial
                 /\ f.todo = rollbacks /\ Changed(stack', f)
    BY <1>15, UndoWorkflowStack
  <2>4. Sound(stack', rollbacks, serial, Undone)
    BY <1>0, <1>1, <2>1, <2>2, <2>3, SoundUndoWorkflow
    DEF Continues, Changed, Undoing
  <2> QED
    BY <1>2, <2>1, <2>4
<1>16. CASE Finish
  <2>1. /\ stack # <<>> /\ Len(stack) = 1 /\ stack' = <<>> /\ Top.kind # "undo"
        /\ UNCHANGED <<rollbacks, serial, undone>>
    BY <1>16 DEF Finish, sagas, Entries
  <2>2. Popped
    BY <2>1 DEF Popped
  <2> QED
    BY <1>2, <1>4, <2>1, <2>2
<1>17. CASE Fail \/ PassOver \/ UNCHANGED vars
  <2>1. UNCHANGED <<stack, rollbacks, serial, undone>>
    BY <1>17 DEF Fail, PassOver, vars, sagas
  <2> QED
    BY <1>0, <1>2, <2>1
<1> QED
  BY <1>5, <1>6, <1>7, <1>8, <1>9, <1>10, <1>11, <1>12, <1>13, <1>14, <1>15,
     <1>16, <1>17
  DEF Next

-----------------------------------------------------------------------------
(* Successes are recorded and charged.                                     *)

\* What is inside finds more budgets open.
LevelsInv ==
    /\ \A i, j \in 1 .. Len(stack) : i < j => stack[i].level <= stack[j].level
    /\ \A i \in 1 .. Len(stack) : stack[i].level <= Len(budgets)

\* A step lets at most one construct begin or end.
LEMMA StackMoves ==
    ASSUME TypeOK, ShapeInv, UndoableInv, [Next]_vars
    PROVE  \/ \E s \in Seq(Frame), f \in Frame, kind \in Kinds :
                 Like(s) /\ Begun(f, kind) /\ Pushed(s, f)
           \/ /\ stack' \in Seq(Frame) /\ Len(stack') <= Len(stack)
              /\ \A i \in 1 .. Len(stack') : Continues(stack'[i], stack[i])
<1> DEFINE Push == \E s \in Seq(Frame), f \in Frame, kind \in Kinds :
                      Like(s) /\ Begun(f, kind) /\ Pushed(s, f)
           Less == /\ stack' \in Seq(Frame) /\ Len(stack') <= Len(stack)
                   /\ \A i \in 1 .. Len(stack') : Continues(stack'[i], stack[i])
<1>0. stack \in Seq(Frame) /\ Len(stack) \in Nat /\ Like(stack)
  BY StackIsLike DEF TypeOK
<1>1. ASSUME NEW s, Like(s), NEW f, NEW kind \in Kinds, Begun(f, kind),
             Pushed(s, f)
      PROVE  Push
  BY <1>1 DEF Like, Begun
<1>2. ASSUME Popped PROVE Less
  <2>1. Len(stack') <= Len(stack) /\ stack' \in Seq(Frame)
    BY <1>0, <1>2 DEF Popped
  <2>2. \A i \in 1 .. Len(stack') : stack'[i] = stack[i] /\ stack'[i] \in Frame
    BY <1>2 DEF Popped
  <2> QED
    BY <2>1, <2>2 DEF Continues
<1>3. ASSUME Like(stack') PROVE Less
  BY <1>0, <1>3 DEF Like
<1>4. ASSUME stack # <<>>, NEW f, Changed(stack', f), Continues(f, Top)
      PROVE  Less
  <2>1. \A i \in 1 .. Len(stack) : i \in 1 .. Len(stack) - 1 \/ i = Len(stack)
    BY <1>0
  <2>2. ASSUME NEW i \in 1 .. Len(stack) PROVE Continues(stack'[i], stack[i])
    <3>1. CASE i = Len(stack)
      BY <1>4, <3>1 DEF Changed, Top
    <3>2. CASE i # Len(stack)
      BY <1>0, <1>4, <2>1, <3>2 DEF Changed, Continues
    <3> QED
      BY <3>1, <3>2
  <2> QED
    BY <1>0, <1>4, <2>2 DEF Changed
<1> HIDE DEF Push, Less
<1>5. ASSUME NEW kind \in Entries, NEW l \in Limit, Start(kind, l) PROVE Push
  <2>1. PICK f : Begun(f, kind) /\ Pushed(<<>>, f)
    BY <1>5, StartStack
  <2>2. stack = <<>>
    BY <1>5 DEF Start, ShapeInv
  <2> QED
    BY <1>0, <1>1, <2>1, <2>2 DEF Kinds
<1>6. CASE \E kind \in {"block", "if"} : EnterBlock(kind)
  BY <1>0, <1>1, <1>6, BlockStack DEF Kinds, Push, Less
<1>7. CASE \E l \in Limit, expected \in BOOLEAN : Invoke(l, expected)
  BY <1>0, <1>1, <1>7, InvokeStack DEF Kinds, Push, Less
<1>8. CASE EnterSaga
  BY <1>0, <1>1, <1>8, SagaStack DEF Kinds, Push, Less
<1>9. CASE \/ EndBlock \/ FailBlock \/ Return \/ Complete \/ GiveUp
           \/ EndSaga \/ EndUndo
  BY <1>2, <1>9, EndStack DEF Less
<1>10. CASE (\E a \in Actions : Call(a)) \/ Compensate
  <2>1. PICK a \in Actions, rest \in Seq(Frame) :
           /\ Like(rest)
           /\ \/ stack' = rest
              \/ \E f : Begun(f, "action") /\ Pushed(rest, f)
    BY <1>10, CallStack
  <2> QED
    BY <1>1, <1>3, <2>1 DEF Kinds, Push, Less
<1>11. CASE Retry
  BY <1>3, <1>11, RetryLike DEF Less
<1>12. CASE FailSaga \/ UndoWorkflow
  <2>1. stack # <<>>
    BY <1>12 DEF FailSaga, UndoWorkflow, Failed
  <2> QED
    BY <1>4, <1>12, <2>1, FailSagaStack, UndoWorkflowStack DEF Less
<1>13. CASE Finish
  <2>1. stack' = <<>>
    BY <1>13 DEF Finish
  <2>2. stack' \in Seq(Frame) /\ Len(stack') = 0
    BY <2>1
  <2> QED
    BY <1>0, <2>2 DEF Less
<1>14. CASE Fail \/ PassOver \/ UNCHANGED vars
  <2>1. stack' = stack
    BY <1>14 DEF Fail, PassOver, vars
  <2> QED
    BY <1>0, <1>3, <2>1 DEF Less
<1>15. Push \/ Less
  BY <1>5, <1>6, <1>7, <1>8, <1>9, <1>10, <1>11, <1>12, <1>13, <1>14
  DEF Next, Push, Less
<1> QED
  BY <1>15 DEF Push, Less

LEMMA LevelsWithin ==
    ASSUME NEW st \in Seq(Frame), NEW m \in Nat,
           \A i, j \in 1 .. Len(st) : i < j => st[i].level <= st[j].level,
           st # <<>> => st[Len(st)].level + Opened(st[Len(st)]) = m
    PROVE  \A i \in 1 .. Len(st) : st[i].level <= m
<1> SUFFICES ASSUME NEW i \in 1 .. Len(st)
             PROVE  st[i].level <= m
  OBVIOUS
<1>1. Len(st) \in Nat /\ Len(st) \in 1 .. Len(st) /\ st # <<>>
  OBVIOUS
<1>2. \A j \in 1 .. Len(st) : st[j] \in Frame
  OBVIOUS
<1>3. st[i].level \in Nat /\ st[Len(st)].level \in Nat
  BY <1>1, <1>2 DEF Frame
<1>4. Opened(st[Len(st)]) \in {0, 1}
  BY DEF Opened
<1>5. i = Len(st) \/ st[i].level <= st[Len(st)].level
  BY <1>1
<1> QED
  BY <1>1, <1>3, <1>4, <1>5

LEMMA LevelsStep ==
    ASSUME TypeOK, TypeOK', ShapeInv, UndoableInv, BudgetsInv', LevelsInv,
           [Next]_vars
    PROVE  LevelsInv'
<1>1. Len(stack) \in Nat
  BY DEF TypeOK
<1>2. ASSUME NEW s \in Seq(Frame), NEW f \in Frame, NEW kind \in Kinds,
             Like(s), Begun(f, kind), Pushed(s, f)
      PROVE  \A i, j \in 1 .. Len(stack') :
                i < j => stack'[i].level <= stack'[j].level
  <2>1. /\ Len(stack') = Len(stack) + 1 /\ stack'[Len(stack) + 1].level = Len(budgets)
        /\ \A i \in 1 .. Len(stack) : stack'[i].level = stack[i].level
    BY <1>2 DEF Like, Begun, Pushed, Continues
  <2> SUFFICES ASSUME NEW i \in 1 .. Len(stack'), NEW j \in 1 .. Len(stack'), i < j
               PROVE  stack'[i].level <= stack'[j].level
    OBVIOUS
  <2>2. i \in 1 .. Len(stack)
    BY <1>1, <2>1
  <2>3. CASE j = Len(stack) + 1
    BY <2>1, <2>2, <2>3 DEF LevelsInv
  <2>4. CASE j # Len(stack) + 1
    <3>1. j \in 1 .. Len(stack) + 1
      BY <2>1
    <3>2. j \in 1 .. Len(stack)
      BY <1>1, <2>4, <3>1
    <3> QED
      BY <2>1, <2>2, <3>2 DEF LevelsInv
  <2> QED
    BY <2>3, <2>4
<1>3. ASSUME stack' \in Seq(Frame), Len(stack') <= Len(stack),
             \A i \in 1 .. Len(stack') : Continues(stack'[i], stack[i])
      PROVE  \A i, j \in 1 .. Len(stack') :
                i < j => stack'[i].level <= stack'[j].level
  <2>1. Len(stack') \in Nat
    BY <1>3
  <2>2. \A i \in 1 .. Len(stack') :
           i \in 1 .. Len(stack) /\ stack'[i].level = stack[i].level
    BY <1>1, <1>3, <2>1 DEF Continues
  <2> QED
    BY <2>2 DEF LevelsInv
<1>4. \A i, j \in 1 .. Len(stack') : i < j => stack'[i].level <= stack'[j].level
  BY <1>2, <1>3, StackMoves
<1>5. stack' \in Seq(Frame) /\ Len(budgets') \in Nat
  BY DEF TypeOK
<1>6. stack' # <<>> =>
         stack'[Len(stack')].level + Opened(stack'[Len(stack')]) = Len(budgets')
  BY <1>5 DEF BudgetsInv, BudgetsHold, BudgetsBalanced, Opened
<1>7. \A i \in 1 .. Len(stack') : stack'[i].level <= Len(budgets')
  BY <1>4, <1>5, <1>6, LevelsWithin
<1> QED
  BY <1>4, <1>7 DEF LevelsInv

\* A budget that stays open is the same.
LEMMA BudgetsAgree ==
    ASSUME TypeOK, ShapeInv, BudgetsInv, [Next]_vars
    PROVE  \A b \in 1 .. Len(budgets) :
              b \in 1 .. Len(budgets') => budgets'[b] = budgets[b]
<1> DEFINE Agree == \A b \in 1 .. Len(budgets) :
                       b \in 1 .. Len(budgets') => budgets'[b] = budgets[b]
           B == [limit : Nat, baseline : Nat]
<1>0. budgets \in Seq(B)
  BY DEF TypeOK
<1>1. ASSUME NEW l \in Limit, OpenBudget(l) PROVE Agree
  <2> DEFINE b == [limit |-> l, baseline |-> spent]
  <2>1. budgets' = budgets \/ budgets' = Append(budgets, b)
    BY <1>1 DEF OpenBudget
  <2>2. l # NoLimit => b \in B
    BY RuntimeAssumption DEF TypeOK, Limit
  <2> HIDE DEF b, B
  <2> QED
    BY <1>0, <1>1, <2>1, <2>2
<1>2. ASSUME NEW f, CloseBudget(f) PROVE Agree
  <2> HIDE DEF B
  <2>1. CASE budgets # <<>>
    BY <1>0, <1>2, <2>1, DropLastFacts DEF CloseBudget
  <2>2. CASE budgets = <<>>
    BY <2>2
  <2> QED
    BY <2>1, <2>2
<1>3. ASSUME UNCHANGED budgets PROVE Agree
  BY <1>3
<1> HIDE DEF Agree, B
<1>4. CASE \E kind \in Entries, l \in Limit : Start(kind, l)
  BY <1>1, <1>4 DEF Start, Agree
<1>5. CASE \E l \in Limit, expected \in BOOLEAN : Invoke(l, expected)
  BY <1>1, <1>5 DEF Invoke, Agree
<1>6. CASE Return \/ Finish
  BY <1>2, <1>6 DEF Return, Finish, Agree
<1>7. CASE \/ Fail \/ (\E kind \in {"block", "if"} : EnterBlock(kind))
           \/ EndBlock \/ FailBlock \/ Complete \/ Retry \/ GiveUp
           \/ EnterSaga \/ EndSaga \/ FailSaga \/ PassOver \/ EndUndo
           \/ UndoWorkflow \/ UNCHANGED vars
  BY <1>3, <1>7, SMTT(30)
  DEF Fail, EnterBlock, EndBlock, FailBlock, Complete, Retry, GiveUp, EnterSaga,
      EndSaga, FailSaga, PassOver, EndUndo, UndoWorkflow, vars, ledger, Agree
<1>8. CASE (\E a \in Actions : Call(a)) \/ Compensate
  BY <1>3, <1>8, ZenonT(40)
  DEF Call, Compensate, CallAction, Replay, Perform, Refuse, ledger, Agree
<1>9. Agree
  BY <1>4, <1>5, <1>6, <1>7, <1>8 DEF Next, Agree
<1> QED
  BY <1>9 DEF Agree

\* Nothing but the end of the action that runs changes the records, and no
\* budget that was open when it was authorized.
LEMMA RecordStep ==
    ASSUME TypeOK, TypeOK', ShapeInv, UndoableInv, BudgetsInv, LevelsInv,
           LevelsInv', RecordInv, [Next]_vars
    PROVE  RecordInv'
<1> DEFINE Acting(i) == stack[i].kind = "action"
<1> SUFFICES ASSUME ~nested'
             PROVE  RecordInv'
  BY DEF RecordInv
<1>0. /\ stack \in Seq(Frame) /\ Len(stack) \in Nat
      /\ stack' \in Seq(Frame) /\ Len(stack') \in Nat
      /\ saved \in [Keys -> Nat] /\ unpaid \in Nat
      /\ Len(budgets) \in Nat /\ Len(budgets') \in Nat
  BY SMTT(30) DEF TypeOK
<1>1. stack # <<>> => /\ Len(stack) \in 1 .. Len(stack) /\ Top = stack[Len(stack)]
                      /\ Top \in Frame
  BY <1>0 DEF Top
<1>2. ~nested
  BY ZenonT(40)
     DEF Next, Start, Fail, EnterBlock, EndBlock, FailBlock, Invoke, Return,
         Call, CallAction, Replay, Perform, Refuse, Complete, Retry, GiveUp,
         EnterSaga, EndSaga, FailSaga, Compensate, PassOver, EndUndo,
         UndoWorkflow, Finish, vars, history
<1>3. \A i \in 1 .. Len(stack), j \in 1 .. Len(stack) :
         Acting(i) /\ Acting(j) => i = j
  BY <1>2 DEF RecordInv
<1>4. unpaid = 0 /\ \A k \in Keys : saved[k] <= 1
  BY <1>2 DEF RecordInv
<1>5. ASSUME NEW k \in Keys, saved[k] > 0
      PROVE  /\ \A i \in 1 .. Len(stack) : Acting(i) => k \in stack[i].kept
             /\ (\A i \in 1 .. Len(stack) : ~Acting(i)) => k \in store
  BY <1>2, <1>5 DEF RecordInv
<1>6. ASSUME NEW i \in 1 .. Len(stack), Acting(i)
      PROVE  /\ KeyOf[stack[i].of] \notin stack[i].kept
             /\ \A b \in 1 .. stack[i].level :
                   spent + Cost[stack[i].of] - budgets[b].baseline
                      <= budgets[b].limit
  BY <1>2, <1>6 DEF RecordInv
<1>7. ASSUME \A i \in 1 .. Len(stack') : Acting(i)' =>
                /\ i \in 1 .. Len(stack) /\ Acting(i)
                /\ Continues(stack'[i], stack[i]),
             \A i \in 1 .. Len(stack) : Acting(i) =>
                i \in 1 .. Len(stack') /\ Acting(i)',
             UNCHANGED <<saved, unpaid, spent, store>>
      PROVE  RecordInv'
  <2>1. \A i, j \in 1 .. Len(stack') : Acting(i)' /\ Acting(j)' => i = j
    BY <1>3, <1>7
  <2>2. ASSUME NEW k \in Keys, saved'[k] > 0
        PROVE  IF \E i \in 1 .. Len(stack') : Acting(i)'
               THEN \A i \in 1 .. Len(stack') : Acting(i)' => k \in stack'[i].kept
               ELSE k \in store'
    BY <1>5, <1>7, <2>2 DEF Continues
  <2>3. ASSUME NEW i \in 1 .. Len(stack'), Acting(i)'
        PROVE  /\ KeyOf[stack'[i].of] \notin stack'[i].kept
               /\ \A b \in 1 .. stack'[i].level :
                     spent' + Cost[stack'[i].of] - budgets'[b].baseline
                        <= budgets'[b].limit
    <3>1. /\ i \in 1 .. Len(stack) /\ Acting(i)
          /\ stack'[i].of = stack[i].of /\ stack'[i].kept = stack[i].kept
          /\ stack'[i].level = stack[i].level
      BY <1>7, <2>3 DEF Continues
    <3>2. stack[i].level \in Nat
      <4>1. stack[i] \in Frame
        BY <1>0, <3>1
      <4> QED
        BY <4>1 DEF Frame
    <3>3. stack[i].level <= Len(budgets) /\ stack[i].level <= Len(budgets')
      BY <3>1 DEF LevelsInv
    <3>4. ASSUME NEW b \in 1 .. stack[i].level PROVE budgets'[b] = budgets[b]
      <4>1. b \in 1 .. Len(budgets) /\ b \in 1 .. Len(budgets')
        BY <1>0, <3>2, <3>3
      <4> QED
        BY <4>1, BudgetsAgree
    <3> QED
      BY <1>6, <1>7, <3>1, <3>4
  <2> QED
    BY <1>4, <1>7, <2>1, <2>2, <2>3 DEF RecordInv
<1>8. ASSUME NEW s, Like(s), NEW f, Pushed(s, f), f.kind # "action",
             UNCHANGED <<saved, unpaid, spent, store>>
      PROVE  RecordInv'
  <2>1. /\ Len(stack') = Len(stack) + 1 /\ stack'[Len(stack) + 1] = f
        /\ \A i \in 1 .. Len(stack) :
              stack'[i].kind = stack[i].kind /\ Continues(stack'[i], stack[i])
    BY <1>8 DEF Like, Pushed
  <2>2. \A i \in 1 .. Len(stack') : i \in 1 .. Len(stack) \/ i = Len(stack) + 1
    BY <1>0, <2>1
  <2>3. \A i \in 1 .. Len(stack) : i \in 1 .. Len(stack')
    BY <1>0, <2>1
  <2> QED
    BY <1>7, <1>8, <2>1, <2>2, <2>3
<1>9. ASSUME stack # <<>>, Popped, Top.kind # "action",
             UNCHANGED <<saved, unpaid, spent, store>>
      PROVE  RecordInv'
  <2>1. /\ Len(stack') = Len(stack) - 1
        /\ \A i \in 1 .. Len(stack') : stack'[i] = stack[i] /\ stack'[i] \in Frame
    BY <1>9 DEF Popped
  <2>2. \A i \in 1 .. Len(stack) : i \in 1 .. Len(stack') \/ i = Len(stack)
    BY <1>0, <2>1
  <2>3. \A i \in 1 .. Len(stack') : i \in 1 .. Len(stack)
    BY <1>0, <2>1
  <2>4. \A i \in 1 .. Len(stack') : Continues(stack'[i], stack[i])
    BY <2>1 DEF Continues
  <2> QED
    BY <1>1, <1>7, <1>9, <2>1, <2>2, <2>3, <2>4
<1>10. ASSUME stack # <<>>, NEW f, Changed(stack', f), Continues(f, Top),
              Top.kind # "action", f.kind # "action",
              UNCHANGED <<saved, unpaid, spent, store>>
       PROVE  RecordInv'
  <2>1. \A i \in 1 .. Len(stack) : i \in 1 .. Len(stack) - 1 \/ i = Len(stack)
    BY <1>0
  <2>2. /\ Len(stack') = Len(stack) /\ stack'[Len(stack)] = f
        /\ \A i \in 1 .. Len(stack) - 1 :
              stack'[i] = stack[i] /\ Continues(stack'[i], stack[i])
    BY <1>0, <1>10 DEF Changed, Continues
  <2> QED
    BY <1>1, <1>7, <1>10, <2>1, <2>2
<1>11. ASSUME Like(stack'), UNCHANGED <<saved, unpaid, spent, store>>
       PROVE  RecordInv'
  BY <1>7, <1>11 DEF Like
<1>12. CASE \E kind \in Entries, l \in Limit : Start(kind, l)
  <2>1. PICK kind \in Entries, f \in Frame : Begun(f, kind) /\ Pushed(<<>>, f)
    BY <1>12, StartStack DEF Begun
  <2>2. stack = <<>> /\ UNCHANGED <<saved, unpaid, spent, store>>
    BY <1>12 DEF Start, ShapeInv, history
  <2> QED
    BY <1>8, <2>1, <2>2, StackIsLike DEF Begun, Entries
<1>13. CASE \E kind \in {"block", "if"} : EnterBlock(kind)
  BY <1>8, <1>13, BlockStack, StackIsLike DEF EnterBlock, Begun, ledger, history
<1>14. CASE \E l \in Limit, expected \in BOOLEAN : Invoke(l, expected)
  BY <1>8, <1>14, InvokeStack, StackIsLike DEF Invoke, Begun, history
<1>15. CASE EnterSaga
  BY <1>8, <1>15, SagaStack, StackIsLike DEF EnterSaga, Begun, ledger, history
<1>16. CASE EndBlock \/ FailBlock \/ Return \/ EndSaga \/ EndUndo
  <2>1. stack # <<>> /\ Popped
    BY <1>16, EndStack
  <2>2. Top.kind # "action" /\ UNCHANGED <<saved, unpaid, spent, store>>
    BY <1>16
    DEF EndBlock, FailBlock, Return, EndSaga, EndUndo, Ended, Failed, ledger,
        history
  <2> QED
    BY <1>9, <2>1, <2>2
<1>17. CASE Complete \/ GiveUp
  <2>1. stack # <<>> /\ Popped
    BY <1>17, EndStack
  <2>2. Top.kind = "action"
    BY <1>17 DEF Complete, GiveUp, AttemptFails, Ended, Failed
  <2>3. \A i \in 1 .. Len(stack') : ~Acting(i)'
    <3>1. \A i \in 1 .. Len(stack') :
             i \in 1 .. Len(stack) /\ i # Len(stack) /\ stack'[i] = stack[i]
      BY <1>0, <2>1 DEF Popped
    <3> QED
      BY <1>1, <1>3, <2>1, <2>2, <3>1
  <2>4. Top.kept \subseteq store' /\ KeyOf[Top.of] \notin Top.kept
    BY <1>1, <1>6, <1>17, <2>1, <2>2 DEF Complete, GiveUp, Leave
  <2>5. ASSUME NEW k \in Keys, saved[k] > 0 PROVE k \in Top.kept
    BY <1>1, <1>5, <2>1, <2>2, <2>5
  <2>6. unpaid' = 0
    <3>1. Affordable(Cost[Top.of])
      <4>1. Top.level + Opened(Top) = Len(budgets)
        BY <1>1, <2>1 DEF BudgetsInv, BudgetsHold, BudgetsBalanced
      <4>2. Opened(Top) = 0
        BY <1>1, <2>1, <2>2 DEF ShapeInv, KindOK, Opened, Bottom, Entries
      <4>3. Top.level = Len(budgets)
        BY <1>1, <2>1, <4>1, <4>2 DEF Frame
      <4> QED
        BY <1>1, <1>6, <2>1, <2>2, <4>3 DEF Affordable
    <3> QED
      BY <1>4, <1>17, <3>1 DEF Complete, GiveUp, history
  <2>7. ASSUME NEW k \in Keys
        PROVE  saved'[k] <= 1 /\ (saved'[k] > 0 => k \in store')
    <3>1. saved[k] \in Nat /\ saved[k] <= 1 /\ (saved[k] > 0 => k \in Top.kept)
      BY <1>0, <1>4, <2>5
    <3>2. CASE GiveUp
      BY <2>4, <3>1, <3>2 DEF GiveUp, history
    <3>3. CASE Complete
      <4>1. /\ saved'[k] = saved[k] + IF k = KeyOf[Top.of] THEN 1 ELSE 0
            /\ k = KeyOf[Top.of] => k \in store'
        BY <3>3 DEF Complete, Leave
      <4> QED
        BY <2>4, <3>1, <4>1
    <3> QED
      BY <1>17, <3>2, <3>3
  <2> QED
    BY <2>3, <2>6, <2>7 DEF RecordInv
<1>18. CASE (\E a \in Actions : Call(a)) \/ Compensate
  <2>1. PICK a \in Actions, rest \in Seq(Frame) :
           /\ Like(rest) /\ CallAction(a, rest) /\ stack # <<>>
    BY <1>18, CallStack
  <2>2. CASE Replay(a, rest) \/ Refuse(a, rest)
    BY <1>11, <2>1, <2>2 DEF Replay, Refuse, ledger, history
  <2>3. CASE Perform(a, rest)
    <3>1. PICK f : /\ Begun(f, "action") /\ f.of = a /\ f.kept = store
                   /\ Pushed(rest, f)
      BY <2>3, PerformStack
    <3>2. /\ KeyOf[a] \notin store /\ Affordable(Cost[a])
          /\ UNCHANGED <<saved, unpaid, spent, budgets>>
          /\ \A i \in 1 .. Len(stack) : ~Acting(i)
      BY <2>3 DEF Perform, ledger
    <3>3. /\ Len(stack') = Len(stack) + 1 /\ stack'[Len(stack) + 1] = f
          /\ \A i \in 1 .. Len(stack) : stack'[i].kind = stack[i].kind
      BY <2>1, <3>1 DEF Like, Pushed
    <3>4. \A i \in 1 .. Len(stack') : Acting(i)' => i = Len(stack) + 1
      <4>1. \A i \in 1 .. Len(stack') :
               i \in 1 .. Len(stack) \/ i = Len(stack) + 1
        BY <1>0, <3>3
      <4> QED
        BY <3>2, <3>3, <4>1
    <3>5. ASSUME NEW i \in 1 .. Len(stack'), Acting(i)'
          PROVE  /\ stack'[i].of = a /\ stack'[i].kept = store
                 /\ stack'[i].level = Len(budgets)
      BY <3>1, <3>3, <3>4, <3>5 DEF Begun
    <3>6. \E i \in 1 .. Len(stack') : Acting(i)'
      <4>1. Len(stack) + 1 \in 1 .. Len(stack')
        BY <1>0, <3>3
      <4> QED
        BY <3>1, <3>3, <4>1 DEF Begun
    <3>7. ASSUME NEW k \in Keys, saved'[k] > 0
          PROVE  k \in store
      BY <1>5, <3>2, <3>7
    <3>8. \A b \in 1 .. Len(budgets) :
             spent' + Cost[a] - budgets'[b].baseline <= budgets'[b].limit
      BY <3>2 DEF Affordable
    <3> QED
      BY <1>4, <3>2, <3>4, <3>5, <3>6, <3>7, <3>8 DEF RecordInv
  <2> QED
    BY <2>1, <2>2, <2>3 DEF CallAction
<1>19. CASE Retry
  BY <1>11, <1>19, RetryLike DEF Retry, ledger, history
<1>20. CASE FailSaga \/ UndoWorkflow
  <2>1. /\ stack # <<>> /\ Top.kind # "action"
        /\ UNCHANGED <<saved, unpaid, spent, store>>
    BY <1>20 DEF FailSaga, UndoWorkflow, Failed, ledger, history
  <2>2. PICK f : /\ Continues(f, Top) /\ f.kind \in Undoing
                 /\ Changed(stack', f)
    BY <1>20, FailSagaStack, UndoWorkflowStack DEF Undoing
  <2> QED
    BY <1>10, <2>1, <2>2 DEF Undoing
<1>21. CASE Finish
  <2>1. /\ stack # <<>> /\ Len(stack) = 1 /\ stack' = <<>> /\ Top.kind # "action"
        /\ UNCHANGED <<saved, unpaid, spent, store>>
    BY <1>21 DEF Finish, history, Entries
  <2>2. Popped
    BY <2>1 DEF Popped
  <2> QED
    BY <1>9, <2>1, <2>2
<1>22. CASE Fail \/ PassOver \/ UNCHANGED vars
  <2>1. UNCHANGED <<stack, saved, unpaid, spent, store>>
    BY <1>22 DEF Fail, PassOver, vars, ledger, history
  <2> QED
    BY <1>11, <2>1, StackIsLike
<1> QED
  BY <1>12, <1>13, <1>14, <1>15, <1>16, <1>17, <1>18, <1>19, <1>20, <1>21,
     <1>22
  DEF Next

-----------------------------------------------------------------------------
(* The theorems.  The parts of the invariant need each other: types need   *)
(* the marks of sagas and the scopes, which need the kinds, and so on.     *)

RuntimeInv ==
    /\ TypeOK /\ ShapeInv /\ UndoableInv /\ ScopesInv /\ BudgetsInv
    /\ LevelsInv /\ FlagInv /\ SagasInv /\ RecordInv

LEMMA RuntimeInit ==
    ASSUME Init
    PROVE  RuntimeInv
<1>1. TypeOK
  <2>1. saved \in [Keys -> Nat] /\ store \subseteq Keys
    BY DEF Init
  <2>2. /\ stack \in Seq(Frame) /\ rollbacks \in Seq(Rollback)
        /\ budgets \in Seq([limit : Nat, baseline : Nat])
        /\ undone \in Seq(Nat)
    BY DEF Init
  <2> QED
    BY <2>1, <2>2 DEF Init, TypeOK
<1>2. /\ stack = <<>> /\ Len(stack) = 0 /\ budgets = <<>>
      /\ outcome = "new" /\ ~failing /\ ~inSaga /\ rollbacks = <<>>
      /\ undone = <<>> /\ serial = 0 /\ unpaid = 0
      /\ \A k \in Keys : saved[k] = 0
  BY DEF Init
<1>3. ShapeInv /\ UndoableInv /\ LevelsInv
  BY <1>2 DEF ShapeInv, UndoableInv, Undoable, LevelsInv
<1>4. ScopesInv /\ BudgetsInv
  BY <1>2 DEF ScopesInv, ScopesBalanced, BudgetsInv, BudgetsHold, WithinBudget,
              BudgetsBalanced
<1>5. FlagInv
  BY <1>2 DEF FlagInv, SagaFlag
<1>6. SagasInv
  <2>1. Undone = {}
    BY <1>2 DEF Undone
  <2>2. Sound(<<>>, <<>>, 0, {})
    BY DEF Sound, Ordered, Rising, Marked, Accounted, Owns
  <2> QED
    BY <1>2, <2>1, <2>2 DEF SagasInv
<1>7. RecordInv
  BY <1>2 DEF RecordInv
<1> QED
  BY <1>1, <1>3, <1>4, <1>5, <1>6, <1>7 DEF RuntimeInv

LEMMA RuntimeStep ==
    ASSUME RuntimeInv, [Next]_vars
    PROVE  RuntimeInv' /\ UndoesNewest
<1> USE DEF RuntimeInv
<1>1. TypeOK' /\ UndoableInv'
  BY TypeStep
<1>2. ShapeInv' /\ ScopesInv' /\ BudgetsInv' /\ FlagInv'
  BY ShapeStep, ScopesStep, BudgetsStep, FlagStep
<1>3. SagasInv' /\ UndoesNewest
  BY SagasStep
<1>4. LevelsInv'
  BY <1>1, <1>2, LevelsStep
<1>5. RecordInv'
  BY <1>1, <1>4, RecordStep
<1> QED
  BY <1>1, <1>2, <1>3, <1>4, <1>5

LEMMA RuntimeInvariant == Spec => []RuntimeInv
<1>1. RuntimeInv /\ [Next]_vars => RuntimeInv'
  BY RuntimeStep
<1> QED
  BY <1>1, RuntimeInit, PTL DEF Spec

\* The state of a run is always what the interpreter declares it to be: no
\* index of a saga into the list of compensations is out of range, no scope is
\* popped that is not there, and what is called as a compensation is declared.
THEOREM TypeCorrect == Spec => []TypeOK
<1>1. RuntimeInv => TypeOK
  BY DEF RuntimeInv
<1> QED
  BY <1>1, RuntimeInvariant, PTL

\* However calls nest and fail, what CostLedger charges inside a budget scope
\* stays within its limit, every construct finds the budget scopes it entered
\* with, and none is open after the run.
THEOREM BudgetsAlwaysHold == Spec => []BudgetsHold
<1>1. RuntimeInv => BudgetsHold
  BY DEF RuntimeInv, BudgetsInv
<1> QED
  BY <1>1, RuntimeInvariant, PTL

\* Without a caught error the variable scopes are exactly those of the
\* constructs being evaluated; with one, scopes may be left behind, never lost.
THEOREM ScopesAreBalanced == Spec => []ScopesBalanced
<1>1. RuntimeInv => ScopesBalanced
  BY DEF RuntimeInv, ScopesInv
<1> QED
  BY <1>1, RuntimeInvariant, PTL

\* In a program whose actions call no actions, a recorded success is not
\* repeated under its key, and what was authorized before can be charged after.
THEOREM SuccessesStay == Spec => []SuccessesAreKept
<1>1. RuntimeInv => SuccessesAreKept
  BY DEF RuntimeInv, RecordInv, SuccessesAreKept
<1> QED
  BY <1>1, RuntimeInvariant, PTL

\* A saga that fails undoes what was registered inside it and not yet undone,
\* all of it, once, newest first, and a failed workflow the rest; compensations
\* are registered exactly while a saga runs.
THEOREM CompensationsAreOwn == Spec => CompensatesItsOwn
<1>1. RuntimeInv /\ [Next]_vars =>
         RuntimeInv' /\ [UndoesNewest /\ (UndoesItsOwn /\ SagaFlag)']_vars
  <2>1. RuntimeInv' => (UndoesItsOwn /\ SagaFlag)'
    BY DEF RuntimeInv, SagasInv, Sound, Owns, FlagInv, UndoesItsOwn
  <2> QED
    BY <2>1, RuntimeStep
<1> QED
  BY <1>1, RuntimeInvariant, PTL DEF Spec, CompensatesItsOwn
=============================================================================
