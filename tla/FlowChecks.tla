----------------------------- MODULE FlowChecks ------------------------------
(***************************************************************************)
(* What the checker (num-compiler: semantic.rs, option_flow.rs,            *)
(* result_flow.rs, match_patterns.rs) knows at each point of a body about  *)
(* its Option and Result variables, and whether every path through a block *)
(* ends, beside what the interpreter does with the same statements.        *)
(*                                                                         *)
(* A behaviour writes a body statement by statement.  The checker visits   *)
(* every block; one of them at a time runs.                                *)
(***************************************************************************)
EXTENDS Naturals

CONSTANTS
    Options,    \* names of variables of type Option, declared with var
    Results,    \* names of variables of type Result
    Variants,   \* of the enum that is matched
    MaxDepth,   \* bound: blocks in one another
    MaxSteps    \* bound: statements

VARIABLES
    blocks,     \* the blocks around this point, from the body inwards
    depth,      \* the number of the innermost one
    left,       \* run: the body was left by a return or an error
    steps       \* statements written

vars == <<blocks, depth, left, steps>>

Names == Options \cup Results
\* Some and Ok are good, None and Err are bad.
Sides == {"good", "bad"}
Knowledge == [Names -> Sides \cup {"unknown"}]
Ignorance == [n \in Names |-> "unknown"]

\* Conditions: an is_some, is_none, is_ok or is_err, one the checker learns
\* nothing from, and two of these under && or ||.
Other == [op |-> "other"]
Atoms == [op : {"is"}, name : Names, side : Sides] \cup {Other}
Conditions == Atoms \cup [op : {"and", "or"}, left : Atoms, right : Atoms]

\* A block is an environment of the checker and a scope of the interpreter:
\*   env       what the checker knows of the variables
\*   ends      it takes a statement of the block to end every path
\*   live      run: the block is run unless the body was left
\*   holds     run: what the variables that the block sees hold
\*   own       run: those that it declared itself
\*   assigned  history: those of the block around it that it assigned
\*   outdated  history: what is known of them was learnt before an inner
\*             block assigned them
\*   leaked    history: it was learnt of the variable of a transaction
\* and of an if or a match what the checker and the run keep of it.
Kinds == {"none", "body", "scope", "transaction", "then", "else", "match", "arm"}
Blocks ==
    [kind : Kinds, env : Knowledge, ends : BOOLEAN, live : BOOLEAN,
     holds : [Names -> Sides], own : SUBSET Names, assigned : SUBSET Names,
     outdated : SUBSET Names, leaked : SUBSET Names,
     ifTrue : Knowledge, ifFalse : Knowledge, truth : BOOLEAN, thenEnds : BOOLEAN,
     covered : SUBSET Variants, allEnd : BOOLEAN, taken : BOOLEAN,
     subject : SUBSET Variants]

Block(kind, env, holds, live) ==
    [kind |-> kind, env |-> env, ends |-> FALSE, live |-> live,
     holds |-> holds, own |-> {}, assigned |-> {}, outdated |-> {}, leaked |-> {},
     ifTrue |-> Ignorance, ifFalse |-> Ignorance, truth |-> TRUE, thenEnds |-> FALSE,
     covered |-> {}, allEnd |-> TRUE, taken |-> FALSE, subject |-> {}]
NoBlock == Block("none", Ignorance, [n \in Names |-> "bad"], FALSE)

\* A block inside b begins with a copy of its environment.
Inner(b, kind, live) ==
    [Block(kind, b.env, b.holds, live) EXCEPT !.outdated = b.outdated,
                                              !.leaked = b.leaked]

Top == blocks[depth]
Outer == blocks[depth - 1]
Running == Top.live /\ ~left

TypeOK ==
    /\ depth \in 1 .. MaxDepth
    /\ blocks \in [1 .. MaxDepth -> Blocks]
    /\ left \in BOOLEAN
    /\ steps \in 0 .. MaxSteps

Init ==
    /\ \E holds \in [Names -> Sides] :
          blocks = [i \in 1 .. MaxDepth |->
                       IF i > 1 THEN NoBlock
                       ELSE [Block("body", Ignorance, holds, TRUE)
                                EXCEPT !.own = Names]]
    /\ depth = 1
    /\ left = FALSE
    /\ steps = 0

-----------------------------------------------------------------------------
(* What a condition implies (option_flow.rs, result_flow.rs).              *)

Invert(side) == IF side = "good" THEN "bad" ELSE "good"

AtomImplies(a, truth) ==
    [n \in Names |-> IF a.op = "other" \/ a.name # n THEN "unknown"
                     ELSE IF truth THEN a.side ELSE Invert(a.side)]

UnionConsistent(k, l) ==
    [n \in Names |-> IF k[n] = "unknown" THEN l[n]
                     ELSE IF l[n] \in {"unknown", k[n]} THEN k[n] ELSE "unknown"]

IntersectionMatching(k, l) ==
    [n \in Names |-> IF k[n] = l[n] THEN k[n] ELSE "unknown"]

\* Faulty variant: either side of an || is believed.
ImpliedByAny(c, truth) ==
    IF c.op \in {"is", "other"} THEN AtomImplies(c, truth)
    ELSE UnionConsistent(AtomImplies(c.left, truth), AtomImplies(c.right, truth))

Implied(c, truth) ==
    IF c.op \in {"is", "other"} THEN AtomImplies(c, truth)
    ELSE LET l == AtomImplies(c.left, truth)
             r == AtomImplies(c.right, truth) IN
         IF (c.op = "and") = truth THEN UnionConsistent(l, r)
         ELSE IntersectionMatching(l, r)

\* Of an option only its presence is remembered.
Learned(known) ==
    {n \in Names : known[n] # "unknown" /\ (n \in Options => known[n] = "good")}
Learn(env, known) ==
    [n \in Names |-> IF n \in Learned(known) THEN known[n] ELSE env[n]]
Knowing(b, known) ==
    [b EXCEPT !.env = Learn(@, known), !.outdated = @ \ Learned(known),
              !.leaked = @ \ Learned(known)]

\* The condition when it is run; other is what the rest of it answers.
AtomHolds(a, other) == IF a.op = "other" THEN other ELSE Top.holds[a.name] = a.side
Holds(c, other) ==
    CASE c.op = "and" -> AtomHolds(c.left, other) /\ AtomHolds(c.right, other)
      [] c.op = "or"  -> AtomHolds(c.left, other) \/ AtomHolds(c.right, other)
      [] OTHER        -> AtomHolds(c, other)

-----------------------------------------------------------------------------
(* Statements.                                                             *)

\* A statement is written in a block of statements.
Step ==
    /\ Top.kind # "match"
    /\ steps < MaxSteps
    /\ steps' = steps + 1

\* The innermost block becomes b, b is opened in it, or it is closed and the
\* one around it becomes b.
Set(b) == blocks' = [blocks EXCEPT ![depth] = b] /\ UNCHANGED depth
Open(b) ==
    /\ depth < MaxDepth
    /\ depth' = depth + 1
    /\ blocks' = [blocks EXCEPT ![depth + 1] = b]
Close(b) ==
    /\ depth' = depth - 1
    /\ blocks' = [blocks EXCEPT ![depth - 1] = b, ![depth] = NoBlock]

\* What was assigned in the closed block is no longer what b knows of it.
Closed(b) == [b EXCEPT !.outdated = @ \cup Top.assigned]

\* Nothing is known of a variable that is assigned or declared in b.
Forget(b, n) ==
    [b EXCEPT !.env[n] = "unknown", !.outdated = @ \ {n}, !.leaked = @ \ {n}]

\* Block i sees, under the name n, the variable that the innermost one sees.
Sees(i, n) == i <= depth /\ \A j \in i + 1 .. depth : n \notin blocks[j].own

\* assign_var looks for the name from the innermost scope outwards.
AssignVar(b, n, side) ==
    [b EXCEPT !.holds[n] = side, !.assigned = @ \cup ({n} \ b.own)]

\* Faulty variant: the variable is removed from what is known.
AssignRemoves(n, side) ==
    /\ Step
    /\ Set([Top EXCEPT !.env = [m \in Names \ {n} |-> Top.env[m]]])
    /\ UNCHANGED left

\* assign_stmt resets what this block knows; assign_var changes the variable
\* wherever it was declared.
Assign(n, side) ==
    /\ Step
    /\ blocks' = [i \in 1 .. MaxDepth |->
          LET b == IF i = depth THEN Forget(Top, n) ELSE blocks[i] IN
          IF Running /\ Sees(i, n) THEN AssignVar(b, n, side) ELSE b]
    /\ UNCHANGED <<depth, left>>

\* let or var, of the same type as the variable that it hides, if it does.
Let(n, side) ==
    /\ Step
    /\ LET b == Forget(Top, n) IN
       Set(IF Running THEN [b EXCEPT !.holds[n] = side, !.own = @ \cup {n}] ELSE b)
    /\ UNCHANGED left

\* return, or a call of reject.
Return ==
    /\ Step
    /\ Set([Top EXCEPT !.ends = TRUE])
    /\ left' = (left \/ Running)

\* Any other statement, when it is an error.
Fail ==
    /\ Step
    /\ Running
    /\ left' = TRUE
    /\ UNCHANGED <<blocks, depth>>

Scope ==
    /\ Step
    /\ Open(Inner(Top, "scope", Running))
    /\ UNCHANGED left

EndScope ==
    /\ Top.kind = "scope"
    /\ Close([Closed(Outer) EXCEPT !.ends = @ \/ Top.ends])
    /\ UNCHANGED <<left, steps>>

Transaction ==
    /\ Step
    /\ Open(Inner(Top, "transaction", Running))
    /\ UNCHANGED left

\* The checker reads a transaction as if its statements stood outside, with
\* one environment; the interpreter opens a scope for them.
EndTransaction ==
    /\ Top.kind = "transaction"
    /\ Close([Outer EXCEPT !.env = Top.env, !.outdated = Top.outdated \ Top.own,
                           !.leaked = Top.leaked \cup Top.own,
                           !.ends = @ \/ Top.ends])
    /\ UNCHANGED <<left, steps>>

If(c, other) ==
    /\ Step
    /\ LET then == Inner(Top, "then", Running /\ Holds(c, other)) IN
       Open([Knowing(then, Implied(c, TRUE))
                EXCEPT !.ifTrue = Implied(c, TRUE), !.ifFalse = Implied(c, FALSE),
                       !.truth = Holds(c, other)])
    /\ UNCHANGED left

\* The else block, which may be empty, is checked with what was known before.
Else ==
    /\ Top.kind = "then"
    /\ LET else == Inner(Outer, "else", Outer.live /\ ~left /\ ~Top.truth) IN
       Set([Knowing(else, Top.ifFalse)
               EXCEPT !.ifTrue = Top.ifTrue, !.ifFalse = Top.ifFalse,
                      !.thenEnds = Top.ends, !.assigned = Top.assigned])
    /\ UNCHANGED <<left, steps>>

\* Where one branch ends, what the other implies holds from here on.
Survives ==
    CASE Top.thenEnds /\ ~Top.ends -> Top.ifFalse
      [] Top.ends /\ ~Top.thenEnds -> Top.ifTrue
      [] OTHER -> Ignorance

\* Faulty variant: that one branch ends is enough.
EndIfEither ==
    /\ Top.kind = "else"
    /\ Close([Closed(Knowing(Outer, Survives))
                 EXCEPT !.ends = @ \/ Top.thenEnds \/ Top.ends])
    /\ UNCHANGED <<left, steps>>

EndIf ==
    /\ Top.kind = "else"
    /\ Close([Closed(Knowing(Outer, Survives))
                 EXCEPT !.ends = @ \/ (Top.thenEnds /\ Top.ends)])
    /\ UNCHANGED <<left, steps>>

\* The subject is one of the variants, whatever the checker thinks.
Match(v) ==
    /\ Step
    /\ Open([Inner(Top, "match", Running) EXCEPT !.subject = {v}])
    /\ UNCHANGED left

\* An arm is run if it is the first whose pattern and guard match; a pattern
\* is a set of variants, all of them for the wildcard.
Arm(pattern, guarded, guard) ==
    /\ Top.kind = "match"
    /\ steps < MaxSteps /\ steps' = steps + 1
    /\ depth < MaxDepth /\ depth' = depth + 1
    /\ LET runs == Top.subject \subseteq pattern /\ ~Top.taken
                   /\ (guarded => guard) IN
       blocks' = [blocks EXCEPT
          ![depth] = [Top EXCEPT !.taken = @ \/ runs,
                               !.covered = IF guarded THEN @ ELSE @ \cup pattern],
          ![depth + 1] = Inner(Top, "arm", Running /\ runs)]
    /\ UNCHANGED left

EndArm ==
    /\ Top.kind = "arm"
    /\ Close([Closed(Outer) EXCEPT !.allEnd = @ /\ Top.ends])
    /\ UNCHANGED <<left, steps>>

\* A match without a matching arm is an error.
EndMatch ==
    /\ Top.kind = "match"
    /\ LET exhaustive == Top.covered = Variants IN
       Close([Closed(Outer) EXCEPT !.ends = @ \/ (exhaustive /\ Top.allEnd)])
    /\ left' = (left \/ (Running /\ ~Top.taken))
    /\ UNCHANGED steps

Next ==
    \/ \E n \in Names, side \in Sides : Assign(n, side) \/ Let(n, side)
    \/ Return \/ Fail
    \/ Scope \/ EndScope
    \/ Transaction \/ EndTransaction
    \/ \E c \in Conditions, other \in BOOLEAN : If(c, other)
    \/ Else \/ EndIf
    \/ \E v \in Variants : Match(v)
    \/ \E pattern \in {{v} : v \in Variants} \cup {Variants},
          guarded, guard \in BOOLEAN : Arm(pattern, guarded, guard)
    \/ EndArm \/ EndMatch

Spec == Init /\ [][Next]_vars

-----------------------------------------------------------------------------
(* Properties.                                                             *)

\* A read of .value or .error that the checker accepts finds what it reads,
\* unless an inner block assigned the variable since the check was made, or
\* the check was made of another, declared in a transaction.
AcceptedReadsSucceed ==
    Running => \A n \in Names \ (Top.outdated \cup Top.leaked) :
        Top.env[n] \in {"unknown", Top.holds[n]}

\* docs/language-reference.md: "`option.value` is only available when the
\* current branch guarantees a present value."
AvailableIsPresent ==
    Running => \A n \in Options : Top.env[n] = "good" => Top.holds[n] = "good"

\* Where the checker says that a block returns on every path, no run comes
\* past it: a callable with a result never ends without one.
EndsIsLeft == Top.ends /\ Top.live => left
=============================================================================
