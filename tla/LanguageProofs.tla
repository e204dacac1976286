--------------------------- MODULE LanguageProofs ---------------------------
(***************************************************************************)
(* Proofs about the parts of the language: the flow checks, for any        *)
(* variables and variants and bodies of any length and depth; the walk     *)
(* over the imports, for any program; the calendar, for every year; the    *)
(* decimals, for every width and precision; and the types of every part.   *)
(***************************************************************************)
EXTENDS MCLanguage, RuntimeProofs, FiniteSetTheorems

-----------------------------------------------------------------------------
(* The invariant, block by block.                                          *)

\* What is known in block b when it runs is so, but for what was assigned or
\* learnt of another variable since, and it has not ended.
KnowsRight(b, changed) == b.live =>
    /\ ~b.ends
    /\ \A n \in Flow!Names \ (b.outdated \cup b.leaked \cup changed) :
          b.env[n] \in {"unknown", b.holds[n]}

\* An arm of a match that was left behind did not end.
ArmsAreTaken(b, armRuns) ==
    b.kind = "match" /\ b.live /\ b.taken => ~b.allEnd \/ armRuns

\* What k says of a variable of o, the block around b, is so unless it was
\* assigned in b.
SoAround(k, b, o) == \A n \in Flow!Names \ b.assigned : k[n] \in {"unknown", o.holds[n]}

\* A block inside a scope or a match runs with it, one of two branches does,
\* and the condition had the answer that leads there.
BranchIsTaken(b, o) ==
    /\ b.kind \in {"scope", "transaction", "match"} => b.live
    /\ b.kind = "then" =>
          /\ b.live = b.truth
          /\ b.truth => SoAround(b.ifTrue, b, o)
          /\ ~b.truth => SoAround(b.ifFalse, b, o) /\ b.assigned = {}
    /\ b.kind = "else" =>
          /\ b.live => SoAround(b.ifFalse, b, o)
          /\ ~b.live => SoAround(b.ifTrue, b, o) /\ ~b.thenEnds

\* A block sees the variables of the one around it, but for its own.
Inside(b, o) ==
    /\ \A n \in Flow!Names \ b.own : b.holds[n] = o.holds[n]
    /\ o.live => BranchIsTaken(b, o)

\* What the block inside block i does to it.
ChangedIn(i) == IF i < depth THEN blocks[i + 1].assigned ELSE {}
ArmRuns(i) == i < depth /\ blocks[i + 1].live

Level(i) ==
    /\ KnowsRight(blocks[i], ChangedIn(i))
    /\ ArmsAreTaken(blocks[i], ArmRuns(i))
    /\ i > 1 => Inside(blocks[i], blocks[i - 1])

\* The body is around all blocks, a match around arms only, and what runs is
\* in a block that runs.
NestedAt(i) ==
    /\ blocks[i].kind # "none"
    /\ blocks[i].kind = "body" <=> i = 1
    /\ i > 1 => (blocks[i].kind = "arm" <=> blocks[i - 1].kind = "match")
    /\ \A j \in 1 .. i - 1 : blocks[i].live => blocks[j].live
Nested == \A i \in 1 .. depth : NestedAt(i)

FlowInv ==
    /\ Flow!TypeOK
    /\ Nested
    /\ ~left => \A i \in 1 .. depth : Level(i)

LEMMA BoundsAreNumbers == Nesting \in Nat /\ 1 \in 1 .. Nesting /\ Statements \in Nat
  BY LanguageAssumption

-----------------------------------------------------------------------------
(* What a condition implies is so.                                         *)

LEMMA AtomsTyped ==
  ASSUME NEW a \in Flow!Atoms
  PROVE  \/ a.op = "is" /\ a.name \in Flow!Names /\ a.side \in Flow!Sides
         \/ a.op = "other"
  BY DEF Flow!Atoms, Flow!Other

LEMMA AtomImpliesTyped ==
  ASSUME NEW a \in Flow!Atoms, NEW truth \in BOOLEAN
  PROVE  Flow!AtomImplies(a, truth) \in Flow!Knowledge
  BY AtomsTyped DEF Flow!AtomImplies, Flow!Knowledge, Flow!Sides, Flow!Invert

LEMMA ConditionsTyped ==
  ASSUME NEW c \in Flow!Conditions
  PROVE  \/ c \in Flow!Atoms /\ c.op \in {"is", "other"}
         \/ c.op \in {"and", "or"} /\ c.left \in Flow!Atoms /\ c.right \in Flow!Atoms
<1>1. CASE c \in Flow!Atoms
  BY <1>1, AtomsTyped
<1>2. CASE c \in [op : {"and", "or"}, left : Flow!Atoms, right : Flow!Atoms]
  BY <1>2
<1> QED
  BY <1>1, <1>2 DEF Flow!Conditions

LEMMA UnionTyped ==
  ASSUME NEW k \in Flow!Knowledge, NEW l \in Flow!Knowledge
  PROVE  /\ Flow!UnionConsistent(k, l) \in Flow!Knowledge
         /\ Flow!IntersectionMatching(k, l) \in Flow!Knowledge
  BY DEF Flow!UnionConsistent, Flow!IntersectionMatching, Flow!Knowledge

LEMMA ImpliedTyped ==
  ASSUME NEW c \in Flow!Conditions, NEW truth \in BOOLEAN
  PROVE  Flow!Implied(c, truth) \in Flow!Knowledge
<1>1. CASE c \in Flow!Atoms /\ c.op \in {"is", "other"}
  BY <1>1, AtomImpliesTyped DEF Flow!Implied
<1>2. CASE c.op \in {"and", "or"} /\ c.left \in Flow!Atoms /\ c.right \in Flow!Atoms
  <2>1. /\ Flow!AtomImplies(c.left, truth) \in Flow!Knowledge
        /\ Flow!AtomImplies(c.right, truth) \in Flow!Knowledge
    BY <1>2, AtomImpliesTyped
  <2> QED
    BY <1>2, <2>1, UnionTyped DEF Flow!Implied
<1> QED
  BY <1>1, <1>2, ConditionsTyped

LEMMA LearnTyped ==
  ASSUME NEW k \in Flow!Knowledge, NEW l \in Flow!Knowledge
  PROVE  Flow!Learn(k, l) \in Flow!Knowledge
  BY DEF Flow!Learn, Flow!Learned, Flow!Knowledge

\* Whatever is known of the variables by k is what they hold.
IsSo(k) == \A n \in Flow!Names : k[n] \in {"unknown", Flow!Top.holds[n]}

LEMMA AtomIsSo ==
  ASSUME Flow!Top.holds \in [Flow!Names -> Flow!Sides], NEW a \in Flow!Atoms,
         NEW other \in BOOLEAN, NEW truth \in BOOLEAN, Flow!AtomHolds(a, other) = truth
  PROVE  IsSo(Flow!AtomImplies(a, truth))
<1>1. CASE a.op = "other"
  BY <1>1 DEF IsSo, Flow!AtomImplies
<1>2. CASE a.op = "is" /\ a.name \in Flow!Names /\ a.side \in Flow!Sides
  <2>1. Flow!Top.holds[a.name] = IF truth THEN a.side ELSE Flow!Invert(a.side)
    <3>1. Flow!Top.holds[a.name] \in Flow!Sides
      BY <1>2
    <3>2. (Flow!Top.holds[a.name] = a.side) = truth
      BY <1>2 DEF Flow!AtomHolds
    <3> QED
      BY <1>2, <3>1, <3>2 DEF Flow!Sides, Flow!Invert
  <2> QED
    BY <1>2, <2>1 DEF IsSo, Flow!AtomImplies
<1> QED
  BY <1>1, <1>2, AtomsTyped

LEMMA JoinedAreSo ==
  ASSUME NEW k, NEW l
  PROVE  /\ IsSo(k) /\ IsSo(l) => IsSo(Flow!UnionConsistent(k, l))
         /\ IsSo(k) \/ IsSo(l) => IsSo(Flow!IntersectionMatching(k, l))
  BY DEF IsSo, Flow!UnionConsistent, Flow!IntersectionMatching

LEMMA AtomHoldsTyped ==
  ASSUME NEW a \in Flow!Atoms, NEW other \in BOOLEAN
  PROVE  Flow!AtomHolds(a, other) \in BOOLEAN
  BY DEF Flow!AtomHolds

\* The branch that a condition leads to knows of it what is so.
LEMMA ImpliedIsSo ==
  ASSUME Flow!Top.holds \in [Flow!Names -> Flow!Sides], NEW c \in Flow!Conditions,
         NEW other \in BOOLEAN
  PROVE  /\ Flow!Holds(c, other) \in BOOLEAN
         /\ IsSo(Flow!Implied(c, Flow!Holds(c, other)))
<1>1. CASE c \in Flow!Atoms /\ c.op \in {"is", "other"}
  <2>1. Flow!Holds(c, other) = Flow!AtomHolds(c, other)
    BY <1>1 DEF Flow!Holds
  <2>2. Flow!Holds(c, other) \in BOOLEAN
    BY <1>1, <2>1, AtomHoldsTyped
  <2>3. IsSo(Flow!AtomImplies(c, Flow!Holds(c, other)))
    BY <1>1, <2>1, <2>2, AtomIsSo
  <2> QED
    BY <1>1, <2>2, <2>3 DEF Flow!Implied
<1>2. CASE c.op \in {"and", "or"} /\ c.left \in Flow!Atoms /\ c.right \in Flow!Atoms
  <2> DEFINE l == Flow!AtomHolds(c.left, other)
             r == Flow!AtomHolds(c.right, other)
             h == Flow!Holds(c, other)
  <2>1. l \in BOOLEAN /\ r \in BOOLEAN
    BY <1>2, AtomHoldsTyped
  <2>2. /\ IsSo(Flow!AtomImplies(c.left, l))
        /\ IsSo(Flow!AtomImplies(c.right, r))
    BY <1>2, <2>1, AtomIsSo
  <2>3. /\ c.op = "and" => h = (l /\ r)
        /\ c.op = "or" => h = (l \/ r)
    BY <1>2 DEF Flow!Holds
  <2>4. h \in BOOLEAN
    BY <1>2, <2>1, <2>3
  <2> HIDE DEF l, r, h
  <2>5. CASE (c.op = "and") = h
    <3>1. l = h /\ r = h
      BY <1>2, <2>1, <2>3, <2>4, <2>5
    <3> QED
      BY <1>2, <2>2, <2>4, <2>5, <3>1, JoinedAreSo DEF Flow!Implied, h
  <2>6. CASE (c.op = "and") # h
    <3>1. l = h \/ r = h
      BY <1>2, <2>1, <2>3, <2>4, <2>6
    <3> QED
      BY <1>2, <2>2, <2>4, <2>6, <3>1, JoinedAreSo DEF Flow!Implied, h
  <2> QED
    BY <2>4, <2>5, <2>6 DEF h
<1> QED
  BY <1>1, <1>2, ConditionsTyped

-----------------------------------------------------------------------------
(* Blocks: what the operations on one leave of it.                         *)

LEMMA BlockTyped ==
  ASSUME NEW kind \in Flow!Kinds, NEW env \in Flow!Knowledge,
         NEW holds \in [Flow!Names -> Flow!Sides], NEW live \in BOOLEAN
  PROVE  Flow!Block(kind, env, holds, live) \in Flow!Blocks
<1>1. Flow!Ignorance \in Flow!Knowledge
  BY DEF Flow!Ignorance, Flow!Knowledge
<1> QED
  BY <1>1 DEF Flow!Block, Flow!Blocks

LEMMA NoBlockTyped == Flow!NoBlock \in Flow!Blocks
<1>1. Flow!Ignorance \in Flow!Knowledge /\ [n \in Flow!Names |-> "bad"] \in [Flow!Names -> Flow!Sides]
  BY DEF Flow!Ignorance, Flow!Knowledge, Flow!Sides
<1> QED
  BY <1>1, BlockTyped DEF Flow!NoBlock, Flow!Kinds

\* The parts of b that the blocks around it depend on.
SameOutside(c, b) ==
    /\ c.live = b.live /\ c.assigned = b.assigned

\* The parts of b that only its own statements change.
SameInside(c, b) ==
    /\ c.kind = b.kind /\ c.own = b.own /\ c.holds = b.holds
    /\ c.truth = b.truth /\ c.ifTrue = b.ifTrue /\ c.ifFalse = b.ifFalse
    /\ c.thenEnds = b.thenEnds

LEMMA InnerIs ==
  ASSUME NEW b \in Flow!Blocks, NEW kind \in Flow!Kinds, NEW live \in BOOLEAN
  PROVE  LET c == Flow!Inner(b, kind, live) IN
         /\ c \in Flow!Blocks
         /\ c.kind = kind /\ c.live = live /\ c.env = b.env /\ c.holds = b.holds
         /\ c.own = {} /\ c.assigned = {} /\ ~c.ends /\ ~c.taken
         /\ c.outdated = b.outdated /\ c.leaked = b.leaked
<1> DEFINE f == Flow!Block(kind, b.env, b.holds, live)
<1>1. f \in Flow!Blocks
  BY BlockTyped DEF Flow!Blocks
<1>2. /\ f.kind = kind /\ f.live = live /\ f.env = b.env /\ f.holds = b.holds
      /\ f.own = {} /\ f.assigned = {} /\ ~f.ends /\ ~f.taken
  BY DEF Flow!Block
<1> HIDE DEF f
<1>3. Flow!Inner(b, kind, live) = [f EXCEPT !.outdated = b.outdated, !.leaked = b.leaked]
  BY DEF Flow!Inner, f
<1> QED
  BY <1>1, <1>2, <1>3 DEF Flow!Blocks

LEMMA KnowingIs ==
  ASSUME NEW b \in Flow!Blocks, NEW k \in Flow!Knowledge
  PROVE  LET c == Flow!Knowing(b, k) IN
         /\ c \in Flow!Blocks
         /\ SameOutside(c, b) /\ SameInside(c, b)
         /\ c.ends = b.ends /\ c.taken = b.taken /\ c.allEnd = b.allEnd
         /\ c.env = Flow!Learn(b.env, k)
         /\ c.outdated = b.outdated \ Flow!Learned(k)
         /\ c.leaked = b.leaked \ Flow!Learned(k)
<1>1. Flow!Learn(b.env, k) \in Flow!Knowledge
  BY LearnTyped DEF Flow!Blocks
<1> QED
  BY <1>1 DEF Flow!Knowing, Flow!Blocks, SameOutside, SameInside

LEMMA ClosedIs ==
  ASSUME NEW b \in Flow!Blocks, Flow!Top \in Flow!Blocks
  PROVE  LET c == Flow!Closed(b) IN
         /\ c \in Flow!Blocks
         /\ SameOutside(c, b) /\ SameInside(c, b)
         /\ c.ends = b.ends /\ c.taken = b.taken /\ c.allEnd = b.allEnd
         /\ c.env = b.env /\ c.leaked = b.leaked
         /\ c.outdated = b.outdated \cup Flow!Top.assigned
  BY DEF Flow!Closed, Flow!Blocks, SameOutside, SameInside

\* What a condition implies may be learnt where it is so.
LEMMA KnowingIsRight ==
  ASSUME NEW b \in Flow!Blocks, NEW k \in Flow!Knowledge, NEW changed,
         KnowsRight(b, changed),
         b.live => \A n \in Flow!Names \ changed : k[n] \in {"unknown", b.holds[n]}
  PROVE  KnowsRight(Flow!Knowing(b, k), changed)
<1> DEFINE c == Flow!Knowing(b, k)
<1>1. /\ c.live = b.live /\ c.ends = b.ends /\ c.holds = b.holds
      /\ c.env = Flow!Learn(b.env, k)
      /\ c.outdated = b.outdated \ Flow!Learned(k)
      /\ c.leaked = b.leaked \ Flow!Learned(k)
  BY KnowingIs DEF SameOutside, SameInside
<1> HIDE DEF c
<1>2. ASSUME b.live, NEW n \in Flow!Names \ (c.outdated \cup c.leaked \cup changed)
      PROVE  c.env[n] \in {"unknown", c.holds[n]}
  <2>1. CASE n \in Flow!Learned(k)
    BY <1>1, <1>2, <2>1 DEF Flow!Learn
  <2>2. CASE n \notin Flow!Learned(k)
    BY <1>1, <1>2, <2>2 DEF Flow!Learn, KnowsRight
  <2> QED
    BY <2>1, <2>2
<1> QED
  BY <1>1, <1>2 DEF KnowsRight, c

BlocksTyped == depth \in 1 .. Nesting /\ blocks \in [1 .. Nesting -> Flow!Blocks]

OthersTyped == left \in BOOLEAN /\ written \in 0 .. Statements

\* What every step starts from.
LEMMA FlowFacts ==
  ASSUME FlowInv
  PROVE  /\ BlocksTyped
         /\ OthersTyped
         /\ Flow!Top \in Flow!Blocks
         /\ Flow!Top.kind # "none"
         /\ Flow!Top.kind = "body" <=> depth = 1
         /\ depth > 1 => /\ Flow!Outer \in Flow!Blocks
                         /\ Flow!Top.kind = "arm" <=> Flow!Outer.kind = "match"
                         /\ Flow!Top.live => Flow!Outer.live
         /\ depth \in 1 .. Nesting /\ depth \in Nat
         /\ depth - 1 \in Nat
         /\ ~left => /\ KnowsRight(Flow!Top, {})
                     /\ ArmsAreTaken(Flow!Top, FALSE)
         /\ ~left /\ depth > 1 =>
               /\ Inside(Flow!Top, Flow!Outer)
               /\ KnowsRight(Flow!Outer, Flow!Top.assigned)
               /\ ArmsAreTaken(Flow!Outer, Flow!Top.live)
<1>1. BlocksTyped /\ depth \in 1 .. Nesting /\ depth - 1 \in Nat /\ depth \in Nat
  BY BoundsAreNumbers DEF FlowInv, Flow!TypeOK, BlocksTyped
<1>2. /\ depth \in 1 .. depth
      /\ depth > 1 => depth - 1 \in 1 .. Nesting /\ depth - 1 \in 1 .. depth
                      /\ depth - 1 < depth
  BY <1>1, BoundsAreNumbers
<1>3. /\ Flow!Top \in Flow!Blocks
      /\ depth > 1 => Flow!Outer \in Flow!Blocks
  BY <1>1, <1>2 DEF BlocksTyped, Flow!Top, Flow!Outer
<1>4. /\ Flow!Top.kind # "none"
      /\ Flow!Top.kind = "body" <=> depth = 1
      /\ depth > 1 => /\ Flow!Top.kind = "arm" <=> Flow!Outer.kind = "match"
                      /\ Flow!Top.live => Flow!Outer.live
  BY <1>1, <1>2 DEF FlowInv, Nested, NestedAt, Flow!Top, Flow!Outer
<1>5. OthersTyped
  BY DEF FlowInv, Flow!TypeOK, OthersTyped
<1>6. ~left => /\ KnowsRight(Flow!Top, {})
               /\ ArmsAreTaken(Flow!Top, FALSE)
  <2> SUFFICES ASSUME ~left
               PROVE  KnowsRight(Flow!Top, {}) /\ ArmsAreTaken(Flow!Top, FALSE)
    OBVIOUS
  <2>1. Level(depth)
    BY <1>2 DEF FlowInv
  <2>2. ChangedIn(depth) = {} /\ ArmRuns(depth) = FALSE
    BY <1>1 DEF ChangedIn, ArmRuns
  <2> QED
    BY <2>1, <2>2 DEF Level, Flow!Top
<1>7. ~left /\ depth > 1 =>
         /\ Inside(Flow!Top, Flow!Outer)
         /\ KnowsRight(Flow!Outer, Flow!Top.assigned)
         /\ ArmsAreTaken(Flow!Outer, Flow!Top.live)
  <2> SUFFICES ASSUME ~left, depth > 1
               PROVE  /\ Inside(Flow!Top, Flow!Outer)
                      /\ KnowsRight(Flow!Outer, Flow!Top.assigned)
                      /\ ArmsAreTaken(Flow!Outer, Flow!Top.live)
    OBVIOUS
  <2>1. Level(depth) /\ Level(depth - 1)
    BY <1>2 DEF FlowInv
  <2>2. ChangedIn(depth - 1) = Flow!Top.assigned
    BY <1>2, <1>1 DEF ChangedIn, Flow!Top
  <2>3. ArmRuns(depth - 1) = Flow!Top.live
    <3>1. depth - 1 + 1 = depth /\ depth - 1 < depth /\ Flow!Top.live \in BOOLEAN
      BY <1>1, <1>2, <1>3 DEF Flow!Blocks
    <3> QED
      BY <3>1 DEF ArmRuns, Flow!Top
  <2> QED
    BY <2>1, <2>2, <2>3 DEF Level, Flow!Top, Flow!Outer
<1> QED
  BY <1>1, <1>3, <1>4, <1>5, <1>6, <1>7

-----------------------------------------------------------------------------
(* The innermost block is replaced, a block is opened in it, or closed: what*)
(* remains to show is said of the blocks that change.                      *)

\* Blocks of the same kinds, as much alive, are nested as they were.
LEMMA NestedKept ==
  ASSUME Nested, depth \in Nat, NEW m \in Nat, m <= depth,
         \A i \in 1 .. m : /\ blocks'[i].kind = blocks[i].kind
                           /\ blocks'[i].live = blocks[i].live
  PROVE  \A i \in 1 .. m : NestedAt(i)'
<1> SUFFICES ASSUME NEW i \in 1 .. m
             PROVE  NestedAt(i)'
  OBVIOUS
<1>1. /\ i \in 1 .. depth /\ i \in Nat
      /\ i > 1 => i - 1 \in 1 .. m
      /\ \A j \in 1 .. i - 1 : j \in 1 .. m
  OBVIOUS
<1>2. NestedAt(i)
  BY <1>1 DEF Nested
<1>3. /\ blocks'[i].kind = blocks[i].kind /\ blocks'[i].live = blocks[i].live
      /\ i > 1 => blocks'[i - 1].kind = blocks[i - 1].kind
      /\ \A j \in 1 .. i - 1 : blocks'[j].live = blocks[j].live
  BY <1>1
<1> QED
  BY <1>2, <1>3 DEF NestedAt

\* What runs is in a block that runs.
LEMMA LiveInLive ==
  ASSUME Nested, depth \in Nat, NEW i \in 1 .. depth, NEW j \in 1 .. i, blocks[i].live
  PROVE  blocks[j].live
<1>1. j = i \/ j \in 1 .. i - 1
  OBVIOUS
<1> QED
  BY <1>1 DEF Nested, NestedAt

\* Blocks up to m are as they were, and so is what the next one does to them.
LEMMA LevelsKept ==
  ASSUME BlocksTyped, BlocksTyped', \A i \in 1 .. depth : Level(i),
         NEW m \in Nat, m < depth, m < depth',
         \A i \in 1 .. m : blocks'[i] = blocks[i],
         blocks'[m + 1].assigned = blocks[m + 1].assigned,
         blocks[m].kind = "match" => blocks'[m + 1].live = blocks[m + 1].live
  PROVE  \A i \in 1 .. m : Level(i)'
<1> SUFFICES ASSUME NEW i \in 1 .. m
             PROVE  Level(i)'
  OBVIOUS
<1>1. /\ i \in Nat /\ i \in 1 .. depth /\ blocks'[i] = blocks[i] /\ Level(i)
      /\ i < depth /\ i < depth'
      /\ i > 1 => i - 1 \in 1 .. m /\ blocks'[i - 1] = blocks[i - 1]
      /\ i < m => i + 1 \in 1 .. m /\ blocks'[i + 1] = blocks[i + 1]
      /\ i < m \/ i = m
  BY DEF BlocksTyped
<1>2. ChangedIn(i)' = ChangedIn(i)
  BY <1>1 DEF ChangedIn
<1>3. blocks[i].kind = "match" => ArmRuns(i)' = ArmRuns(i)
  BY <1>1 DEF ArmRuns
<1>4. KnowsRight(blocks[i], ChangedIn(i))'
  BY <1>1, <1>2 DEF Level, KnowsRight
<1>5. ArmsAreTaken(blocks[i], ArmRuns(i))'
  BY <1>1, <1>3 DEF Level, ArmsAreTaken
<1>6. i > 1 => Inside(blocks[i], blocks[i - 1])'
  BY <1>1 DEF Level, Inside, BranchIsTaken, SoAround
<1> QED
  BY <1>4, <1>5, <1>6 DEF Level

LEMMA FlowBySet ==
  ASSUME FlowInv, NEW b \in Flow!Blocks, Flow!Set(b), OthersTyped', ~left' => ~left,
         b.kind # "match",
         b.kind = Flow!Top.kind \/ (Flow!Top.kind = "then" /\ b.kind = "else"),
         b.assigned = Flow!Top.assigned,
         b.live = Flow!Top.live \/ Flow!Top.kind = "then",
         b.live => Flow!Top.live \/ (depth > 1 /\ Flow!Outer.live),
         ~left' => KnowsRight(b, {}) /\ (depth > 1 => Inside(b, Flow!Outer))
  PROVE  FlowInv'
<1> SUFFICES ASSUME NEW d \in Nat, d = depth
             PROVE  FlowInv'
  BY FlowFacts
<1>1. /\ BlocksTyped /\ d \in 1 .. Nesting /\ d - 1 \in Nat /\ Nesting \in Nat
      /\ Nested /\ Flow!Top = blocks[d]
      /\ d > 1 => Flow!Outer = blocks[d - 1]
  BY FlowFacts, BoundsAreNumbers DEF FlowInv, Flow!Top, Flow!Outer
<1>2. /\ BlocksTyped' /\ depth' = d /\ blocks'[d] = b
      /\ \A i \in 1 .. d - 1 : blocks'[i] = blocks[i]
  BY <1>1 DEF Flow!Set, BlocksTyped
<1>3. Flow!TypeOK'
  BY <1>2 DEF BlocksTyped, OthersTyped, Flow!TypeOK
<1>4. Nested'
  <2>1. \A i \in 1 .. d - 1 : NestedAt(i)'
    BY <1>1, <1>2, NestedKept
  <2>2. NestedAt(d)'
    <3>1. NestedAt(d) /\ (d > 1 => d - 1 \in 1 .. d - 1)
      BY <1>1 DEF Nested
    <3>2. ASSUME NEW j \in 1 .. d - 1, b.live
          PROVE  blocks[j].live
      <4>1. d > 1 /\ j \in 1 .. d /\ d - 1 \in 1 .. d /\ j \in 1 .. d - 1
        BY <1>1
      <4>2. CASE blocks[d].live
        BY <1>1, <4>1, <4>2, LiveInLive
      <4>3. CASE blocks[d - 1].live
        BY <1>1, <4>1, <4>3, LiveInLive
      <4> QED
        BY <1>1, <3>2, <4>1, <4>2, <4>3
    <3>3. /\ b.kind # "none" /\ (b.kind = "body" <=> d = 1)
          /\ d > 1 => (b.kind = "arm" <=> blocks[d - 1].kind = "match")
      BY <1>1, <3>1, FlowFacts
    <3> QED
      BY <1>2, <3>1, <3>2, <3>3 DEF NestedAt
  <2>3. \A i \in 1 .. d : i \in 1 .. d - 1 \/ i = d
    BY <1>1
  <2> QED
    BY <1>2, <2>1, <2>2, <2>3 DEF Nested
<1>5. ASSUME ~left'
      PROVE  \A i \in 1 .. d : Level(i)'
  <2>1. \A i \in 1 .. d - 1 : Level(i)'
    <3>1. d > 1 /\ blocks[d - 1].kind = "match" => b.live = Flow!Top.live
      BY <1>1, FlowFacts
    <3>2. \A i \in 1 .. depth : Level(i)
      BY <1>5 DEF FlowInv
    <3>3. d - 1 + 1 = d /\ d - 1 < depth /\ d - 1 < depth'
      BY <1>1, <1>2
    <3>4. CASE d > 1
      <4>1. blocks[d - 1].kind = "match"
               => blocks'[d - 1 + 1].live = blocks[d - 1 + 1].live
        BY <1>1, <1>2, <3>1, <3>3, <3>4
      <4>2. blocks'[d - 1 + 1].assigned = blocks[d - 1 + 1].assigned
        BY <1>1, <1>2, <3>3
      <4> QED
        BY <1>1, <1>2, <3>2, <3>3, <4>1, <4>2, LevelsKept
    <3> QED
      BY <1>1, <3>4
  <2>2. Level(d)'
    <3>1. ChangedIn(d)' = {}
      BY <1>1, <1>2 DEF ChangedIn
    <3>2. ArmsAreTaken(blocks[d], ArmRuns(d))'
      BY <1>2 DEF ArmsAreTaken
    <3>3. KnowsRight(blocks[d], ChangedIn(d))'
      BY <1>2, <1>5, <3>1 DEF KnowsRight
    <3>4. d > 1 => Inside(blocks[d], blocks[d - 1])'
      BY <1>1, <1>2, <1>5 DEF Inside, BranchIsTaken, SoAround
    <3> QED
      BY <3>2, <3>3, <3>4 DEF Level
  <2> QED
    BY <1>1, <2>1, <2>2
<1> QED
  BY <1>2, <1>3, <1>4, <1>5 DEF FlowInv

\* A block is opened; of the one around it, only what a match keeps of its
\* arms may change.
LEMMA FlowByOpen ==
  ASSUME FlowInv, NEW t \in Flow!Blocks, NEW b \in Flow!Blocks,
         depth < Nesting, depth' = depth + 1,
         blocks' = [blocks EXCEPT ![depth] = t, ![depth + 1] = b],
         OthersTyped', left' = left,
         SameOutside(t, Flow!Top), SameInside(t, Flow!Top),
         t.env = Flow!Top.env, t.ends = Flow!Top.ends,
         t.outdated = Flow!Top.outdated, t.leaked = Flow!Top.leaked,
         b.kind \notin {"none", "body"}, b.assigned = {}, ~b.taken,
         b.kind = "arm" <=> Flow!Top.kind = "match",
         b.live => Flow!Top.live,
         ~left => /\ KnowsRight(b, {}) /\ Inside(b, Flow!Top)
                  /\ ArmsAreTaken(t, b.live)
  PROVE  FlowInv'
<1> SUFFICES ASSUME NEW d \in Nat, d = depth
             PROVE  FlowInv'
  BY FlowFacts
<1>1. /\ BlocksTyped /\ d \in 1 .. Nesting /\ d - 1 \in Nat /\ Nesting \in Nat
      /\ Nested /\ Flow!Top = blocks[d] /\ d + 1 \in 1 .. Nesting
      /\ (d + 1) - 1 = d /\ d + 1 > d /\ d + 1 > 1
  <2>1. d \in 1 .. Nesting /\ Nesting \in Nat /\ d < Nesting
    BY FlowFacts, BoundsAreNumbers
  <2>2. /\ d - 1 \in Nat /\ d + 1 \in 1 .. Nesting
        /\ (d + 1) - 1 = d /\ d + 1 > d /\ d + 1 > 1
    BY <2>1
  <2> QED
    BY <2>1, <2>2, FlowFacts DEF FlowInv, Flow!Top
<1>2. /\ BlocksTyped' /\ depth' = d + 1 /\ blocks'[d] = t /\ blocks'[d + 1] = b
      /\ \A i \in 1 .. d - 1 : blocks'[i] = blocks[i]
  BY <1>1 DEF BlocksTyped
<1>3. Flow!TypeOK'
  BY <1>2 DEF BlocksTyped, OthersTyped, Flow!TypeOK
<1>4. t.kind = Flow!Top.kind /\ t.live = Flow!Top.live /\ t.assigned = Flow!Top.assigned
      /\ t.holds = Flow!Top.holds
  BY DEF SameOutside, SameInside
<1>5. Nested'
  <2>1. \A i \in 1 .. d : /\ blocks'[i].kind = blocks[i].kind
                          /\ blocks'[i].live = blocks[i].live
    <3> SUFFICES ASSUME NEW i \in 1 .. d
                 PROVE  blocks'[i].kind = blocks[i].kind /\ blocks'[i].live = blocks[i].live
      OBVIOUS
    <3>1. i = d \/ i \in 1 .. d - 1
      BY <1>1
    <3> QED
      BY <1>1, <1>2, <1>4, <3>1
  <2>2. \A i \in 1 .. d : NestedAt(i)'
    <3>1. d <= depth /\ depth \in Nat
      BY <1>1
    <3> QED
      BY <1>1, <2>1, <3>1, NestedKept
  <2>3. NestedAt(d + 1)'
    <3>1. \A j \in 1 .. d : b.live => blocks[j].live
      BY <1>1, LiveInLive
    <3>2. b.kind # "none" /\ ~(b.kind = "body") /\ ~(d + 1 = 1)
      BY <1>1
    <3>3. b.kind = "arm" <=> blocks'[d].kind = "match"
      BY <1>2, <1>4
    <3>4. \A j \in 1 .. (d + 1) - 1 : b.live => blocks'[j].live
      BY <1>1, <2>1, <3>1
    <3>5. blocks'[(d + 1) - 1].kind = blocks'[d].kind /\ blocks'[d + 1] = b
      BY <1>1, <1>2
    <3>6. /\ blocks'[d + 1].kind # "none"
          /\ blocks'[d + 1].kind = "body" <=> d + 1 = 1
      BY <3>2, <3>5
    <3>7. blocks'[d + 1].kind = "arm" <=> blocks'[(d + 1) - 1].kind = "match"
      BY <3>3, <3>5
    <3>8. \A j \in 1 .. (d + 1) - 1 : blocks'[d + 1].live => blocks'[j].live
      BY <3>4, <3>5
    <3> DEFINE e == d + 1
               B == blocks'
    <3>9. /\ B[e].kind # "none"
          /\ B[e].kind = "body" <=> e = 1
      BY <3>6
    <3>10. B[e].kind = "arm" <=> B[e - 1].kind = "match"
      BY <3>7
    <3>11. \A j \in 1 .. e - 1 : B[e].live => B[j].live
      BY <3>8
    <3> HIDE DEF e
    <3>12. NestedAt(e)'
      BY <3>9, <3>10, <3>11 DEF NestedAt
    <3> QED
      BY <3>12 DEF e
  <2>4. \A i \in 1 .. d + 1 : i \in 1 .. d \/ i = d + 1
    BY <1>1
  <2> QED
    BY <1>2, <2>2, <2>3, <2>4 DEF Nested
<1>6. ASSUME ~left'
      PROVE  \A i \in 1 .. d + 1 : Level(i)'
  <2>1. \A i \in 1 .. depth : Level(i)
    BY <1>6 DEF FlowInv
  <2>2. \A i \in 1 .. d - 1 : Level(i)'
    <3>1. d - 1 + 1 = d /\ d - 1 < depth /\ d - 1 < depth'
      BY <1>1, <1>2
    <3>2. /\ blocks'[d - 1 + 1].live = blocks[d - 1 + 1].live
          /\ blocks'[d - 1 + 1].assigned = blocks[d - 1 + 1].assigned
      BY <1>1, <1>2, <1>4, <3>1
    <3> QED
      BY <1>1, <1>2, <2>1, <3>1, <3>2, LevelsKept
  <2>3. Level(d)'
    <3>1. ChangedIn(d)' = {} /\ ChangedIn(d) = {}
      BY <1>1, <1>2 DEF ChangedIn
    <3>2. ArmRuns(d)' = b.live
      <4>1. ArmRuns(d)' = (d < d + 1 /\ b.live)
        BY <1>2 DEF ArmRuns
      <4>2. b.live \in BOOLEAN /\ d < d + 1
        BY <1>1 DEF Flow!Blocks
      <4> QED
        BY <4>1, <4>2
    <3>3. Level(d) /\ ~left
      BY <1>1, <1>6, <2>1
    <3>4. KnowsRight(blocks[d], ChangedIn(d))'
      <4>1. KnowsRight(blocks[d], {})
        BY <3>1, <3>3 DEF Level
      <4>2. KnowsRight(t, {})
        BY <1>1, <1>4, <4>1 DEF KnowsRight
      <4> QED
        BY <1>2, <3>1, <4>2 DEF KnowsRight
    <3>5. ArmsAreTaken(blocks[d], ArmRuns(d))'
      BY <1>2, <3>2, <3>3 DEF ArmsAreTaken
    <3>6. d > 1 => Inside(blocks[d], blocks[d - 1])'
      <4> SUFFICES ASSUME d > 1
                   PROVE  Inside(blocks[d], blocks[d - 1])'
        OBVIOUS
      <4>1. Inside(blocks[d], blocks[d - 1]) /\ d - 1 \in 1 .. d - 1
        BY <1>1, <3>3 DEF Level
      <4>2. Inside(t, blocks[d - 1])
        BY <1>1, <1>4, <4>1 DEF Inside, BranchIsTaken, SoAround, SameInside
      <4>3. blocks'[d] = t /\ blocks'[d - 1] = blocks[d - 1]
        BY <1>2, <4>1
      <4> QED
        <5>1. Inside(blocks'[d], blocks'[d - 1])
          BY <4>2, <4>3
        <5> QED
          BY <5>1 DEF Inside, BranchIsTaken, SoAround
    <3> QED
      BY <3>4, <3>5, <3>6 DEF Level
  <2>4. Level(d + 1)'
    <3>1. ChangedIn(d + 1)' = {}
      BY <1>1, <1>2 DEF ChangedIn
    <3>2. KnowsRight(blocks[d + 1], ChangedIn(d + 1))'
      BY <1>2, <1>6, <3>1 DEF KnowsRight
    <3>3. ArmsAreTaken(blocks[d + 1], ArmRuns(d + 1))'
      BY <1>2 DEF ArmsAreTaken
    <3>4. Inside(blocks[d + 1], blocks[d])'
      <4>1. Inside(b, Flow!Top)
        BY <1>6
      <4>2. Inside(b, t)
        BY <1>4, <4>1 DEF Inside, BranchIsTaken, SoAround
      <4> QED
        <5>1. Inside(blocks'[d + 1], blocks'[d])
          BY <1>2, <4>2
        <5> QED
          BY <5>1 DEF Inside, BranchIsTaken, SoAround
    <3> QED
      BY <1>1, <3>2, <3>3, <3>4 DEF Level
  <2> QED
    BY <1>1, <2>2, <2>3, <2>4
<1> QED
  BY <1>2, <1>3, <1>5, <1>6 DEF FlowInv

LEMMA FlowByClose ==
  ASSUME FlowInv, depth > 1, NEW b \in Flow!Blocks, Flow!Close(b), OthersTyped',
         ~left' => ~left, SameOutside(b, Flow!Outer), SameInside(b, Flow!Outer),
         ~left' => KnowsRight(b, {}) /\ ArmsAreTaken(b, FALSE)
  PROVE  FlowInv'
<1> SUFFICES ASSUME NEW d \in Nat, d = depth - 1
             PROVE  FlowInv'
  BY FlowFacts
<1>1. /\ BlocksTyped /\ d \in 1 .. Nesting /\ d - 1 \in Nat /\ Nesting \in Nat
      /\ Nested /\ Flow!Outer = blocks[d] /\ depth = d + 1 /\ d + 1 \in 1 .. Nesting
  <2>1. depth \in 1 .. Nesting /\ Nesting \in Nat
    BY FlowFacts, BoundsAreNumbers
  <2>2. /\ d \in 1 .. Nesting /\ d - 1 \in Nat
        /\ depth = d + 1 /\ d + 1 \in 1 .. Nesting
    BY <2>1
  <2> QED
    BY <2>1, <2>2, FlowFacts DEF FlowInv, Flow!Outer
<1>2. /\ BlocksTyped' /\ depth' = d /\ blocks'[d] = b
      /\ \A i \in 1 .. d - 1 : blocks'[i] = blocks[i]
  BY <1>1, NoBlockTyped DEF Flow!Close, BlocksTyped
<1>3. Flow!TypeOK'
  BY <1>2 DEF BlocksTyped, OthersTyped, Flow!TypeOK
<1>4. b.kind = blocks[d].kind /\ b.live = blocks[d].live /\ b.assigned = blocks[d].assigned
      /\ b.holds = blocks[d].holds
  BY <1>1 DEF SameOutside, SameInside
<1>5. Nested'
  <2>1. \A i \in 1 .. d : /\ blocks'[i].kind = blocks[i].kind
                          /\ blocks'[i].live = blocks[i].live
    <3> SUFFICES ASSUME NEW i \in 1 .. d
                 PROVE  blocks'[i].kind = blocks[i].kind /\ blocks'[i].live = blocks[i].live
      OBVIOUS
    <3>1. i = d \/ i \in 1 .. d - 1
      BY <1>1
    <3> QED
      BY <1>1, <1>2, <1>4, <3>1
  <2>2. d <= depth /\ depth \in Nat
    BY <1>1
  <2>3. \A i \in 1 .. d : NestedAt(i)'
    BY <1>1, <2>1, <2>2, NestedKept
  <2> QED
    BY <1>2, <2>3 DEF Nested
<1>6. ASSUME ~left'
      PROVE  \A i \in 1 .. d : Level(i)'
  <2>1. \A i \in 1 .. depth : Level(i)
    BY <1>6 DEF FlowInv
  <2>2. \A i \in 1 .. d - 1 : Level(i)'
    <3>1. d - 1 + 1 = d /\ d - 1 < depth /\ d - 1 < depth'
      <4>1. depth = d + 1 /\ depth' = d
        BY <1>1, <1>2
      <4> QED
        BY <4>1
    <3>2. /\ blocks'[d - 1 + 1].live = blocks[d - 1 + 1].live
          /\ blocks'[d - 1 + 1].assigned = blocks[d - 1 + 1].assigned
      BY <1>1, <1>2, <1>4, <3>1
    <3> QED
      BY <1>1, <1>2, <2>1, <3>1, <3>2, LevelsKept
  <2>3. Level(d)'
    <3>1. ChangedIn(d)' = {}
      BY <1>1, <1>2 DEF ChangedIn
    <3>2. ArmRuns(d)' = FALSE
      BY <1>1, <1>2 DEF ArmRuns
    <3>3. Level(d)
      BY <1>1, <2>1
    <3>4. KnowsRight(blocks[d], ChangedIn(d))'
      BY <1>2, <1>6, <3>1 DEF KnowsRight
    <3>5. ArmsAreTaken(blocks[d], ArmRuns(d))'
      BY <1>2, <1>6, <3>2 DEF ArmsAreTaken
    <3>6. d > 1 => Inside(blocks[d], blocks[d - 1])'
      BY <1>1, <1>2, <1>4, <3>3 DEF Level, Inside, BranchIsTaken, SoAround, SameInside
    <3> QED
      BY <3>4, <3>5, <3>6 DEF Level
  <2> QED
    BY <1>1, <2>2, <2>3
<1> QED
  BY <1>2, <1>3, <1>5, <1>6 DEF FlowInv

-----------------------------------------------------------------------------
(* Every statement keeps the invariant.                                    *)

LEMMA StepIs ==
  ASSUME FlowInv, Flow!Step
  PROVE  written' \in 0 .. Statements /\ Flow!Top.kind # "match"
  BY FlowFacts, BoundsAreNumbers DEF Flow!Step, OthersTyped

LEMMA ForgetIs ==
  ASSUME NEW b \in Flow!Blocks, NEW n \in Flow!Names
  PROVE  LET c == Flow!Forget(b, n) IN
         /\ c \in Flow!Blocks
         /\ SameOutside(c, b) /\ SameInside(c, b)
         /\ c.ends = b.ends /\ c.taken = b.taken /\ c.allEnd = b.allEnd
         /\ c.env[n] = "unknown" /\ \A m \in Flow!Names \ {n} : c.env[m] = b.env[m]
         /\ c.outdated = b.outdated \ {n} /\ c.leaked = b.leaked \ {n}
<1>1. [b.env EXCEPT ![n] = "unknown"] \in Flow!Knowledge
  BY DEF Flow!Blocks, Flow!Knowledge
<1> QED
  BY <1>1 DEF Flow!Forget, Flow!Blocks, Flow!Knowledge, SameOutside, SameInside

LEMMA AssignVarIs ==
  ASSUME NEW b \in Flow!Blocks, NEW n \in Flow!Names, NEW side \in Flow!Sides
  PROVE  LET c == Flow!AssignVar(b, n, side) IN
         /\ c \in Flow!Blocks
         /\ c.kind = b.kind /\ c.live = b.live /\ c.own = b.own
         /\ c.ends = b.ends /\ c.taken = b.taken /\ c.allEnd = b.allEnd
         /\ c.env = b.env /\ c.outdated = b.outdated /\ c.leaked = b.leaked
         /\ c.truth = b.truth /\ c.ifTrue = b.ifTrue /\ c.ifFalse = b.ifFalse
         /\ c.thenEnds = b.thenEnds
         /\ c.holds[n] = side /\ \A m \in Flow!Names \ {n} : c.holds[m] = b.holds[m]
         /\ c.assigned = b.assigned \cup ({n} \ b.own)
  BY DEF Flow!AssignVar, Flow!Blocks

\* A variable that is assigned changes for every block that sees it; a block
\* that is dead, or sees another, stays as it is.
LEMMA AssignKeeps ==
  ASSUME FlowInv, NEW n \in Flow!Names, NEW side \in Flow!Sides, Flow!Assign(n, side)
  PROVE  FlowInv'
<1> SUFFICES ASSUME NEW d \in Nat, d = depth
             PROVE  FlowInv'
  BY FlowFacts
<1> DEFINE f(i) == IF i = d THEN Flow!Forget(Flow!Top, n) ELSE blocks[i]
           g(i) == Flow!AssignVar(f(i), n, side)
           hit(i) == Flow!Running /\ Flow!Sees(i, n)
<1>1. /\ BlocksTyped /\ d \in 1 .. Nesting /\ Nested /\ Flow!Top = blocks[d]
      /\ Flow!Top \in Flow!Blocks /\ Flow!Top.kind # "match"
      /\ depth' = depth /\ left' = left /\ Nesting \in Nat
      /\ \A i \in 1 .. d : i \in 1 .. Nesting /\ blocks[i] \in Flow!Blocks
  <2>1. BlocksTyped /\ d \in 1 .. Nesting /\ Nesting \in Nat
    BY FlowFacts, BoundsAreNumbers
  <2>2. \A i \in 1 .. d : i \in 1 .. Nesting /\ blocks[i] \in Flow!Blocks
    BY <2>1 DEF BlocksTyped
  <2> QED
    BY <2>1, <2>2, FlowFacts, StepIs DEF Flow!Assign, FlowInv, Flow!Top
<1>2. blocks' = [i \in 1 .. Nesting |-> IF hit(i) THEN g(i) ELSE f(i)]
  BY DEF Flow!Assign
<1>3. ASSUME NEW i \in 1 .. Nesting
      PROVE  /\ f(i) \in Flow!Blocks
             /\ SameOutside(f(i), blocks[i]) /\ SameInside(f(i), blocks[i])
             /\ f(i).ends = blocks[i].ends /\ f(i).taken = blocks[i].taken
             /\ f(i).allEnd = blocks[i].allEnd
             /\ i # d => f(i) = blocks[i]
             /\ i = d => /\ f(i).env[n] = "unknown"
                         /\ \A m \in Flow!Names \ {n} : f(i).env[m] = blocks[i].env[m]
                         /\ f(i).outdated = blocks[i].outdated \ {n}
                         /\ f(i).leaked = blocks[i].leaked \ {n}
  <2>1. CASE i = d
    BY <1>1, <2>1, ForgetIs
  <2>2. CASE i # d
    BY <1>1, <2>2 DEF SameOutside, SameInside, BlocksTyped
  <2> QED
    BY <2>1, <2>2
<1>4. ASSUME NEW i \in 1 .. Nesting
      PROVE  /\ g(i) \in Flow!Blocks
             /\ g(i).kind = blocks[i].kind /\ g(i).live = blocks[i].live
             /\ g(i).own = blocks[i].own
             /\ g(i).ends = blocks[i].ends /\ g(i).taken = blocks[i].taken
             /\ g(i).allEnd = blocks[i].allEnd
             /\ g(i).truth = blocks[i].truth /\ g(i).ifTrue = blocks[i].ifTrue
             /\ g(i).ifFalse = blocks[i].ifFalse /\ g(i).thenEnds = blocks[i].thenEnds
             /\ g(i).env = f(i).env /\ g(i).outdated = f(i).outdated
             /\ g(i).leaked = f(i).leaked
             /\ g(i).holds[n] = side
             /\ \A m \in Flow!Names \ {n} : g(i).holds[m] = blocks[i].holds[m]
             /\ g(i).assigned = blocks[i].assigned \cup ({n} \ blocks[i].own)
  <2>1. f(i) \in Flow!Blocks /\ SameOutside(f(i), blocks[i]) /\ SameInside(f(i), blocks[i])
        /\ f(i).ends = blocks[i].ends /\ f(i).taken = blocks[i].taken
        /\ f(i).allEnd = blocks[i].allEnd
    BY <1>3
  <2> HIDE DEF f
  <2> QED
    BY <2>1, AssignVarIs DEF SameOutside, SameInside
<1> HIDE DEF f, g, hit
<1>5. BlocksTyped'
  BY <1>1, <1>2, <1>3, <1>4 DEF BlocksTyped
<1>6. Flow!TypeOK'
  BY <1>1, <1>5, FlowFacts, StepIs DEF BlocksTyped, OthersTyped, Flow!TypeOK, Flow!Assign
<1>7. ASSUME NEW i \in 1 .. d
      PROVE  /\ blocks'[i].kind = blocks[i].kind /\ blocks'[i].live = blocks[i].live
             /\ blocks'[i].own = blocks[i].own
             /\ blocks'[i].ends = blocks[i].ends /\ blocks'[i].taken = blocks[i].taken
             /\ blocks'[i].allEnd = blocks[i].allEnd
             /\ blocks'[i].truth = blocks[i].truth /\ blocks'[i].ifTrue = blocks[i].ifTrue
             /\ blocks'[i].ifFalse = blocks[i].ifFalse
             /\ blocks'[i].thenEnds = blocks[i].thenEnds
             /\ blocks'[i].env = f(i).env /\ blocks'[i].outdated = f(i).outdated
             /\ blocks'[i].leaked = f(i).leaked
             /\ \A m \in Flow!Names \ {n} : blocks'[i].holds[m] = blocks[i].holds[m]
             /\ hit(i) => /\ blocks'[i].holds[n] = side
                          /\ blocks'[i].assigned
                                = blocks[i].assigned \cup ({n} \ blocks[i].own)
             /\ ~hit(i) => /\ blocks'[i].holds[n] = blocks[i].holds[n]
                           /\ blocks'[i].assigned = blocks[i].assigned
  <2>1. i \in 1 .. Nesting
    BY <1>1
  <2>2. CASE hit(i)
    <3>1. blocks'[i] = g(i)
      BY <1>2, <2>1, <2>2
    <3> QED
      BY <1>4, <2>1, <2>2, <3>1
  <2>3. CASE ~hit(i)
    <3>1. blocks'[i] = f(i)
      BY <1>2, <2>1, <2>3
    <3> QED
      BY <1>3, <2>1, <2>3, <3>1 DEF SameOutside, SameInside
  <2> QED
    BY <2>2, <2>3
<1>8. Nested'
  <2>1. \A i \in 1 .. d : /\ blocks'[i].kind = blocks[i].kind
                          /\ blocks'[i].live = blocks[i].live
    BY <1>7
  <2>2. d <= depth /\ depth \in Nat
    BY <1>1
  <2>3. \A i \in 1 .. d : NestedAt(i)'
    BY <1>1, <2>1, <2>2, NestedKept
  <2> QED
    BY <1>1, <2>3 DEF Nested
<1>9. ASSUME ~left', NEW i \in 1 .. d
      PROVE  Level(i)'
  <2>1. Level(i) /\ ~left
    BY <1>1, <1>9 DEF FlowInv
  <2>2. hit(i) => blocks[i].live
    <3> SUFFICES ASSUME Flow!Top.live
                 PROVE  blocks[i].live
      BY DEF Flow!Running, hit
    <3>1. d \in 1 .. depth /\ depth \in Nat
      BY <1>1
    <3> QED
      BY <1>1, <3>1, LiveInLive
  <2>3. /\ i < d => i + 1 \in 1 .. d
        /\ i > 1 => i - 1 \in 1 .. d
        /\ i + 1 - 1 = i
    BY <1>1
  <2>4. /\ i < d /\ hit(i) => hit(i + 1) /\ n \notin blocks[i + 1].own
        /\ i > 1 /\ n \notin blocks[i].own => (hit(i) <=> hit(i - 1))
        /\ i > 1 /\ hit(i - 1) => hit(i) /\ n \notin blocks[i].own
    BY <1>1 DEF Flow!Sees, hit
  <2>5. KnowsRight(blocks[i], ChangedIn(i))'
    <3> SUFFICES KnowsRight(blocks'[i], ChangedIn(i)')
      BY DEF KnowsRight
    <3> SUFFICES ASSUME blocks'[i].live
                 PROVE  /\ ~blocks'[i].ends
                        /\ \A m \in Flow!Names \ (blocks'[i].outdated \cup blocks'[i].leaked
                                                      \cup ChangedIn(i)') :
                              blocks'[i].env[m] \in {"unknown", blocks'[i].holds[m]}
      BY DEF KnowsRight
    <3>0. blocks[i].live
      BY <1>7
    <3>1. ~blocks'[i].ends
      BY <1>7, <2>1, <3>0 DEF Level, KnowsRight
    <3> SUFFICES ASSUME NEW m \in Flow!Names \ (blocks'[i].outdated \cup blocks'[i].leaked
                                                   \cup ChangedIn(i)')
                 PROVE  blocks'[i].env[m] \in {"unknown", blocks'[i].holds[m]}
      BY <3>1
    <3>2. CASE i = d
      <4>1. ChangedIn(i) = {}
        BY <1>1, <3>2 DEF ChangedIn
      <4>2. CASE m = n
        <5>1. f(i).env[n] = "unknown"
          BY <1>1, <1>3, <3>2
        <5>2. blocks'[i].env = f(i).env
          BY <1>7
        <5> QED
          BY <3>1, <4>2, <5>1, <5>2
      <4>3. CASE m # n
        BY <1>1, <1>3, <1>7, <2>1, <3>0, <3>2, <4>1, <4>3 DEF Level, KnowsRight
      <4> QED
        BY <3>1, <4>2, <4>3
    <3>3. CASE i < d
      <4>1. /\ ChangedIn(i) = blocks[i + 1].assigned
            /\ ChangedIn(i)' = blocks'[i + 1].assigned
        BY <1>1, <3>3 DEF ChangedIn
      <4>2. m \notin ChangedIn(i)
        BY <1>7, <2>3, <3>3, <4>1
      <4>3. f(i) = blocks[i]
        BY <1>1, <1>3, <3>3
      <4>4. blocks[i].env[m] \in {"unknown", blocks[i].holds[m]}
        BY <1>7, <2>1, <3>0, <4>2, <4>3 DEF Level, KnowsRight
      <4>5. hit(i) => m # n
        BY <1>7, <2>3, <2>4, <3>3, <4>1
      <4>6. blocks'[i].holds[m] = blocks[i].holds[m]
        BY <1>7, <4>5
      <4> QED
        BY <1>7, <3>1, <4>3, <4>4, <4>6
    <3> QED
      BY <1>1, <3>2, <3>3
  <2>6. ArmsAreTaken(blocks[i], ArmRuns(i))'
    <3>1. ArmRuns(i)' = ArmRuns(i)
      BY <1>1, <1>7, <2>3 DEF ArmRuns
    <3> QED
      BY <1>7, <2>1, <3>1 DEF Level, ArmsAreTaken
  <2>7. ASSUME i > 1
        PROVE  Inside(blocks[i], blocks[i - 1])'
    <3>1. Inside(blocks[i], blocks[i - 1])
      BY <2>1, <2>7 DEF Level
    <3>2. \A m \in Flow!Names \ blocks'[i].own : blocks'[i].holds[m] = blocks'[i - 1].holds[m]
      <4> SUFFICES ASSUME NEW m \in Flow!Names \ blocks[i].own
                   PROVE  blocks'[i].holds[m] = blocks'[i - 1].holds[m]
        BY <1>7
      <4>1. blocks[i].holds[m] = blocks[i - 1].holds[m]
        BY <3>1 DEF Inside
      <4>2. CASE m = n
        BY <1>7, <2>3, <2>4, <2>7, <4>1, <4>2
      <4>3. CASE m # n
        BY <1>7, <2>3, <2>7, <4>1, <4>3
      <4> QED
        BY <4>2, <4>3
    <3>3. ASSUME NEW k, SoAround(k, blocks[i], blocks[i - 1])
          PROVE  \A m \in Flow!Names \ blocks'[i].assigned :
                    k[m] \in {"unknown", blocks'[i - 1].holds[m]}
      <4> SUFFICES ASSUME NEW m \in Flow!Names \ blocks'[i].assigned
                   PROVE  k[m] \in {"unknown", blocks'[i - 1].holds[m]}
        OBVIOUS
      <4>1. m \notin blocks[i].assigned
        BY <1>7
      <4>2. m = n => ~hit(i - 1)
        BY <1>7, <2>4, <2>7
      <4>3. blocks'[i - 1].holds[m] = blocks[i - 1].holds[m]
        BY <1>7, <2>3, <2>7, <4>2
      <4> QED
        BY <3>3, <4>1, <4>3 DEF SoAround
    <3>4. /\ SoAround(blocks[i].ifTrue, blocks[i], blocks[i - 1])
               => SoAround(blocks[i].ifTrue, blocks[i], blocks[i - 1])'
          /\ SoAround(blocks[i].ifFalse, blocks[i], blocks[i - 1])
               => SoAround(blocks[i].ifFalse, blocks[i], blocks[i - 1])'
      BY <1>7, <3>3 DEF SoAround
    <3>5. ~blocks[i].live => blocks'[i].assigned = blocks[i].assigned
      BY <1>7, <2>2
    <3>6. blocks'[i - 1].live = blocks[i - 1].live
      BY <1>7, <2>3, <2>7
    <3>7. ASSUME blocks[i - 1].live
          PROVE  BranchIsTaken(blocks[i], blocks[i - 1])'
      <4>1. BranchIsTaken(blocks[i], blocks[i - 1])
        BY <3>1, <3>7 DEF Inside
      <4> QED
        BY <1>7, <3>4, <3>5, <4>1 DEF BranchIsTaken
    <3> QED
      BY <3>2, <3>6, <3>7 DEF Inside
  <2> QED
    BY <2>5, <2>6, <2>7 DEF Level
<1> QED
  BY <1>1, <1>6, <1>8, <1>9 DEF FlowInv

LEMMA LetKeeps ==
  ASSUME FlowInv, NEW n \in Flow!Names, NEW side \in Flow!Sides, Flow!Let(n, side)
  PROVE  FlowInv'
<1> DEFINE c == Flow!Forget(Flow!Top, n)
           b == IF Flow!Running THEN [c EXCEPT !.holds[n] = side, !.own = @ \cup {n}] ELSE c
<1>1. /\ Flow!Set(b) /\ left' = left /\ Flow!Top.kind # "match"
      /\ OthersTyped' /\ Flow!Top \in Flow!Blocks
  BY FlowFacts, StepIs DEF Flow!Let, OthersTyped
<1>2. /\ c \in Flow!Blocks /\ SameOutside(c, Flow!Top) /\ SameInside(c, Flow!Top)
      /\ c.ends = Flow!Top.ends
      /\ c.env[n] = "unknown" /\ \A m \in Flow!Names \ {n} : c.env[m] = Flow!Top.env[m]
      /\ c.outdated = Flow!Top.outdated \ {n} /\ c.leaked = Flow!Top.leaked \ {n}
  BY <1>1, ForgetIs
<1> HIDE DEF c
<1>3. /\ b \in Flow!Blocks
      /\ b.kind = c.kind /\ b.live = c.live /\ b.assigned = c.assigned
      /\ b.ends = c.ends /\ b.env = c.env /\ b.outdated = c.outdated
      /\ b.leaked = c.leaked /\ b.truth = c.truth /\ b.ifTrue = c.ifTrue
      /\ b.ifFalse = c.ifFalse /\ b.thenEnds = c.thenEnds
      /\ c.own \subseteq b.own
      /\ \A m \in Flow!Names \ {n} : b.holds[m] = c.holds[m]
      /\ Flow!Running => n \in b.own
      /\ ~Flow!Running => b.holds = c.holds
  BY <1>2 DEF Flow!Blocks
<1> HIDE DEF b
<1>4. /\ b.kind = Flow!Top.kind /\ b.live = Flow!Top.live
      /\ b.assigned = Flow!Top.assigned /\ b.ends = Flow!Top.ends
      /\ b.truth = Flow!Top.truth /\ b.ifTrue = Flow!Top.ifTrue
      /\ b.ifFalse = Flow!Top.ifFalse /\ b.thenEnds = Flow!Top.thenEnds
      /\ Flow!Top.own \subseteq b.own
      /\ \A m \in Flow!Names \ {n} : b.holds[m] = Flow!Top.holds[m]
      /\ ~Flow!Running => b.holds = Flow!Top.holds
  BY <1>2, <1>3 DEF SameOutside, SameInside
<1>5. ASSUME ~left
      PROVE  KnowsRight(b, {})
  BY <1>2, <1>3, <1>4, <1>5, FlowFacts DEF KnowsRight
<1>6. ASSUME ~left, depth > 1
      PROVE  Inside(b, Flow!Outer)
  <2>1. Inside(Flow!Top, Flow!Outer)
    BY <1>6, FlowFacts
  <2>2. \A m \in Flow!Names \ b.own : b.holds[m] = Flow!Outer.holds[m]
    BY <1>3, <1>4, <2>1 DEF Inside
  <2> QED
    BY <1>4, <2>1, <2>2 DEF Inside, BranchIsTaken, SoAround
<1> QED
  BY <1>1, <1>3, <1>4, <1>5, <1>6, FlowBySet

LEMMA ReturnKeeps ==
  ASSUME FlowInv, Flow!Return
  PROVE  FlowInv'
<1> DEFINE b == [Flow!Top EXCEPT !.ends = TRUE]
<1>1. /\ Flow!Set(b) /\ Flow!Top.kind # "match" /\ Flow!Top \in Flow!Blocks
      /\ left' = (left \/ Flow!Running)
  BY FlowFacts, StepIs DEF Flow!Return
<1>2. /\ b \in Flow!Blocks
      /\ SameOutside(b, Flow!Top) /\ SameInside(b, Flow!Top)
  BY <1>1 DEF Flow!Blocks, SameOutside, SameInside
<1> HIDE DEF b
<1>3. Flow!Top.live \in BOOLEAN /\ left \in BOOLEAN
  BY <1>1, FlowFacts DEF Flow!Blocks, OthersTyped
<1>4. OthersTyped'
  BY <1>1, <1>3, FlowFacts, StepIs DEF OthersTyped, Flow!Return, Flow!Running
<1>5. ASSUME ~left'
      PROVE  ~left /\ ~b.live
  BY <1>1, <1>2, <1>3, <1>5 DEF Flow!Running, SameOutside
<1>6. ASSUME ~left', depth > 1
      PROVE  Inside(b, Flow!Outer)
  <2>1. Inside(Flow!Top, Flow!Outer)
    BY <1>5, <1>6, FlowFacts
  <2> QED
    BY <1>2, <2>1 DEF Inside, BranchIsTaken, SoAround, SameOutside, SameInside
<1>7. ~left' => KnowsRight(b, {})
  BY <1>5 DEF KnowsRight
<1> QED
  BY <1>1, <1>2, <1>4, <1>5, <1>6, <1>7, FlowBySet DEF SameOutside, SameInside

LEMMA FailKeeps ==
  ASSUME FlowInv, Flow!Fail
  PROVE  FlowInv'
<1>1. /\ blocks' = blocks /\ depth' = depth
      /\ left' = TRUE /\ written' \in 0 .. Statements
  BY StepIs DEF Flow!Fail
<1>2. Flow!TypeOK'
  BY <1>1 DEF FlowInv, Flow!TypeOK
<1>3. Nested'
  BY <1>1 DEF FlowInv, Nested, NestedAt
<1> QED
  BY <1>1, <1>2, <1>3 DEF FlowInv

\* A block is opened in one of statements.
LEMMA FlowByOpening ==
  ASSUME FlowInv, NEW b \in Flow!Blocks, Flow!Step, Flow!Open(b), left' = left,
         b.kind \in {"scope", "transaction", "then", "match"},
         b.assigned = {}, ~b.taken, b.live => Flow!Top.live,
         ~left => KnowsRight(b, {}) /\ Inside(b, Flow!Top)
  PROVE  FlowInv'
<1>1. /\ Flow!Top.kind # "match" /\ OthersTyped'
      /\ depth < Nesting /\ depth' = depth + 1
      /\ Flow!Top \in Flow!Blocks /\ BlocksTyped /\ depth \in 1 .. Nesting
  BY FlowFacts, StepIs DEF Flow!Open, OthersTyped
<1>2. blocks' = [blocks EXCEPT ![depth] = Flow!Top, ![depth + 1] = b]
  <2>1. blocks = [blocks EXCEPT ![depth] = Flow!Top]
    BY <1>1 DEF BlocksTyped, Flow!Top
  <2> QED
    BY <2>1 DEF Flow!Open
<1>3. SameOutside(Flow!Top, Flow!Top) /\ SameInside(Flow!Top, Flow!Top)
  BY DEF SameOutside, SameInside
<1>4. ArmsAreTaken(Flow!Top, b.live)
  BY <1>1 DEF ArmsAreTaken
<1>5. b.kind \notin {"none", "body"} /\ (b.kind = "arm" <=> Flow!Top.kind = "match")
  BY <1>1
<1> QED
  BY <1>1, <1>2, <1>3, <1>4, <1>5, FlowByOpen

\* A copy of what is known around it is right in a block that runs.
LEMMA InnerIsRight ==
  ASSUME NEW o \in Flow!Blocks, NEW kind \in Flow!Kinds, NEW live \in BOOLEAN,
         KnowsRight(o, {}), live => o.live
  PROVE  KnowsRight(Flow!Inner(o, kind, live), {})
<1> DEFINE c == Flow!Inner(o, kind, live)
<1>1. /\ c.live = live /\ c.env = o.env /\ c.holds = o.holds /\ ~c.ends
      /\ c.outdated = o.outdated /\ c.leaked = o.leaked
  BY InnerIs
<1> HIDE DEF c
<1> QED
  BY <1>1 DEF KnowsRight, c

\* What a block is opened with, if its kind says nothing more of it.
LEMMA OpenedTyped ==
  ASSUME FlowInv
  PROVE  /\ Flow!Top \in Flow!Blocks
         /\ Flow!Top.live \in BOOLEAN /\ Flow!Running \in BOOLEAN
         /\ Flow!Running => Flow!Top.live
         /\ ~left => Flow!Running = Flow!Top.live
  BY FlowFacts DEF Flow!Blocks, Flow!Running

LEMMA ScopeKeeps ==
  ASSUME FlowInv, NEW kind \in {"scope", "transaction"}, Flow!Step,
         Flow!Open(Flow!Inner(Flow!Top, kind, Flow!Running)), left' = left
  PROVE  FlowInv'
<1> DEFINE b == Flow!Inner(Flow!Top, kind, Flow!Running)
<1>1. kind \in Flow!Kinds /\ Flow!Top \in Flow!Blocks /\ Flow!Running \in BOOLEAN
  BY OpenedTyped DEF Flow!Kinds
<1>2. /\ b \in Flow!Blocks /\ b.kind = kind /\ b.live = Flow!Running
      /\ b.own = {} /\ b.assigned = {} /\ ~b.taken
      /\ b.holds = Flow!Top.holds
  BY <1>1, InnerIs
<1>3. Flow!Open(b) /\ (~left => KnowsRight(b, {}))
  BY <1>1, OpenedTyped, FlowFacts, InnerIsRight
<1> HIDE DEF b
<1>4. ~left => Inside(b, Flow!Top)
  BY <1>2, OpenedTyped DEF Inside, BranchIsTaken
<1> QED
  BY <1>2, <1>3, <1>4, OpenedTyped, FlowByOpening

LEMMA MatchKeeps ==
  ASSUME FlowInv, NEW v \in Variants, Flow!Match(v)
  PROVE  FlowInv'
<1> DEFINE o == Flow!Inner(Flow!Top, "match", Flow!Running)
           b == [o EXCEPT !.subject = {v}]
<1>1. Flow!Top \in Flow!Blocks /\ Flow!Running \in BOOLEAN /\ "match" \in Flow!Kinds
  BY OpenedTyped DEF Flow!Kinds
<1>2. /\ o \in Flow!Blocks /\ o.kind = "match" /\ o.live = Flow!Running
      /\ o.own = {} /\ o.assigned = {} /\ ~o.taken
      /\ o.holds = Flow!Top.holds
  BY <1>1, InnerIs
<1>3. ~left => KnowsRight(o, {})
  BY <1>1, OpenedTyped, FlowFacts, InnerIsRight
<1>4. Flow!Step /\ Flow!Open(b) /\ left' = left
  BY DEF Flow!Match
<1> HIDE DEF o
<1>5. /\ b \in Flow!Blocks /\ b.kind = o.kind /\ b.live = o.live
      /\ b.own = o.own /\ b.assigned = o.assigned /\ b.taken = o.taken
      /\ b.holds = o.holds /\ b.env = o.env /\ b.ends = o.ends
      /\ b.outdated = o.outdated /\ b.leaked = o.leaked
  BY <1>2 DEF Flow!Blocks
<1> HIDE DEF b
<1>6. ~left => Inside(b, Flow!Top) /\ KnowsRight(b, {})
  BY <1>2, <1>3, <1>5, OpenedTyped DEF Inside, BranchIsTaken, KnowsRight
<1> QED
  BY <1>2, <1>4, <1>5, <1>6, OpenedTyped, FlowByOpening

LEMMA IfKeeps ==
  ASSUME FlowInv, NEW c \in Flow!Conditions, NEW other \in BOOLEAN, Flow!If(c, other)
  PROVE  FlowInv'
<1> DEFINE h == Flow!Holds(c, other)
           t == Flow!Implied(c, TRUE)
           f == Flow!Implied(c, FALSE)
           o == Flow!Inner(Flow!Top, "then", Flow!Running /\ h)
           k == Flow!Knowing(o, t)
           b == [k EXCEPT !.ifTrue = t, !.ifFalse = f, !.truth = h]
<1>1. t \in Flow!Knowledge /\ f \in Flow!Knowledge
  BY ImpliedTyped
<1>2. h \in BOOLEAN /\ IsSo(Flow!Implied(c, h))
  BY ImpliedIsSo, FlowFacts DEF Flow!Blocks
<1>3. (h => IsSo(t)) /\ (~h => IsSo(f))
  BY <1>2
<1>4. Flow!Step /\ Flow!Open(b) /\ left' = left
  BY DEF Flow!If
<1> HIDE DEF h, t, f
<1>5. /\ Flow!Top \in Flow!Blocks /\ (Flow!Running /\ h) \in BOOLEAN
      /\ "then" \in Flow!Kinds
  BY <1>2, OpenedTyped DEF Flow!Kinds
<1>6. /\ o \in Flow!Blocks /\ o.kind = "then" /\ o.live = (Flow!Running /\ h)
      /\ o.own = {} /\ o.assigned = {} /\ ~o.taken
      /\ o.holds = Flow!Top.holds
  BY <1>5, InnerIs
<1>7. ~left => KnowsRight(o, {})
  BY <1>5, OpenedTyped, FlowFacts, InnerIsRight
<1> HIDE DEF o
<1>8. /\ k \in Flow!Blocks /\ SameOutside(k, o) /\ SameInside(k, o) /\ k.taken = o.taken
  BY <1>1, <1>6, KnowingIs
<1>9. ~left => KnowsRight(k, {})
  <2>1. o.live => \A n \in Flow!Names \ {} : t[n] \in {"unknown", o.holds[n]}
    BY <1>3, <1>6 DEF IsSo
  <2> QED
    BY <1>1, <1>6, <1>7, <2>1, KnowingIsRight
<1> HIDE DEF k
<1>10. /\ b \in Flow!Blocks /\ b.kind = k.kind /\ b.live = k.live
       /\ b.own = k.own /\ b.assigned = k.assigned /\ b.taken = k.taken
       /\ b.holds = k.holds /\ b.env = k.env /\ b.ends = k.ends
       /\ b.outdated = k.outdated /\ b.leaked = k.leaked
       /\ b.ifTrue = t /\ b.ifFalse = f /\ b.truth = h
  BY <1>1, <1>2, <1>8 DEF Flow!Blocks
<1> HIDE DEF b
<1>11. /\ b.kind = "then" /\ b.live = (Flow!Running /\ h) /\ b.own = {}
       /\ b.assigned = {} /\ ~b.taken /\ b.holds = Flow!Top.holds
  BY <1>6, <1>8, <1>10 DEF SameOutside, SameInside
<1>12. ~left => KnowsRight(b, {})
  BY <1>9, <1>10 DEF KnowsRight
<1>13. ASSUME ~left
       PROVE  Inside(b, Flow!Top)
  <2>1. (h => SoAround(b.ifTrue, b, Flow!Top)) /\ (~h => SoAround(b.ifFalse, b, Flow!Top))
    BY <1>3, <1>10 DEF SoAround, IsSo
  <2>2. Flow!Top.live => b.live = b.truth
    BY <1>2, <1>10, <1>11, <1>13, OpenedTyped
  <2> QED
    BY <1>10, <1>11, <2>1, <2>2 DEF Inside, BranchIsTaken
<1> QED
  BY <1>4, <1>10, <1>11, <1>12, <1>13, OpenedTyped, FlowByOpening

LEMMA ElseKeeps ==
  ASSUME FlowInv, Flow!Else
  PROVE  FlowInv'
<1> DEFINE live == Flow!Outer.live /\ ~left /\ ~Flow!Top.truth
           o == Flow!Inner(Flow!Outer, "else", live)
           k == Flow!Knowing(o, Flow!Top.ifFalse)
           b == [k EXCEPT !.ifTrue = Flow!Top.ifTrue, !.ifFalse = Flow!Top.ifFalse,
                          !.thenEnds = Flow!Top.ends, !.assigned = Flow!Top.assigned]
<1>1. /\ Flow!Top.kind = "then" /\ Flow!Set(b) /\ left' = left /\ written' = written
      /\ OthersTyped'
  BY FlowFacts DEF Flow!Else, OthersTyped
<1>2. /\ depth > 1 /\ Flow!Top \in Flow!Blocks /\ Flow!Outer \in Flow!Blocks
  BY <1>1, FlowFacts, BoundsAreNumbers
<1>3. /\ Flow!Top.ifTrue \in Flow!Knowledge /\ Flow!Top.ifFalse \in Flow!Knowledge
      /\ Flow!Top.truth \in BOOLEAN /\ Flow!Top.ends \in BOOLEAN
      /\ Flow!Top.assigned \in SUBSET Flow!Names /\ Flow!Top.live \in BOOLEAN
      /\ Flow!Outer.live \in BOOLEAN /\ left \in BOOLEAN
  BY <1>2, FlowFacts DEF Flow!Blocks, OthersTyped
<1>4. live \in BOOLEAN /\ "else" \in Flow!Kinds
  BY <1>3 DEF Flow!Kinds
<1>5. live <=> Flow!Outer.live /\ ~left /\ ~Flow!Top.truth
  OBVIOUS
<1> HIDE DEF live
<1>6. /\ o \in Flow!Blocks /\ o.kind = "else" /\ o.live = live
      /\ o.own = {} /\ o.holds = Flow!Outer.holds
  BY <1>2, <1>4, InnerIs
<1>7. ASSUME ~left, Flow!Outer.live
      PROVE  /\ Flow!Top.live = Flow!Top.truth
             /\ Flow!Top.truth =>
                   SoAround(Flow!Top.ifTrue, Flow!Top, Flow!Outer) /\ ~Flow!Top.ends
             /\ ~Flow!Top.truth =>
                   /\ SoAround(Flow!Top.ifFalse, Flow!Top, Flow!Outer)
                   /\ Flow!Top.assigned = {}
                   /\ KnowsRight(Flow!Outer, {})
  <2>1. BranchIsTaken(Flow!Top, Flow!Outer) /\ KnowsRight(Flow!Top, {})
        /\ KnowsRight(Flow!Outer, Flow!Top.assigned)
    BY <1>2, <1>7, FlowFacts DEF Inside
  <2> QED
    BY <1>1, <2>1 DEF BranchIsTaken, KnowsRight
<1>8. ~left => KnowsRight(o, {})
  <2>1. CASE live
    BY <1>2, <1>4, <1>5, <1>7, <2>1, InnerIsRight
  <2>2. CASE ~live
    BY <1>6, <2>2 DEF KnowsRight
  <2> QED
    BY <2>1, <2>2
<1> HIDE DEF o
<1>9. k \in Flow!Blocks /\ SameOutside(k, o) /\ SameInside(k, o)
  BY <1>3, <1>6, KnowingIs
<1>10. ~left => KnowsRight(k, {})
  <2>1. o.live => \A n \in Flow!Names \ {} : Flow!Top.ifFalse[n] \in {"unknown", o.holds[n]}
    BY <1>5, <1>6, <1>7 DEF SoAround
  <2> QED
    BY <1>3, <1>6, <1>8, <2>1, KnowingIsRight
<1> HIDE DEF k
<1>11. /\ b \in Flow!Blocks /\ b.kind = k.kind /\ b.live = k.live
       /\ b.own = k.own /\ b.holds = k.holds /\ b.env = k.env /\ b.ends = k.ends
       /\ b.outdated = k.outdated /\ b.leaked = k.leaked
       /\ b.ifTrue = Flow!Top.ifTrue /\ b.ifFalse = Flow!Top.ifFalse
       /\ b.thenEnds = Flow!Top.ends /\ b.assigned = Flow!Top.assigned
  BY <1>3, <1>9 DEF Flow!Blocks
<1> HIDE DEF b
<1>12. b.kind = "else" /\ b.live = live /\ b.own = {} /\ b.holds = Flow!Outer.holds
  BY <1>6, <1>9, <1>11 DEF SameOutside, SameInside
<1>13. ~left => KnowsRight(b, {})
  BY <1>10, <1>11 DEF KnowsRight
<1>14. ASSUME ~left
       PROVE  Inside(b, Flow!Outer)
  <2>1. ASSUME Flow!Outer.live
        PROVE  /\ b.live => SoAround(b.ifFalse, b, Flow!Outer)
               /\ ~b.live => SoAround(b.ifTrue, b, Flow!Outer) /\ ~b.thenEnds
    BY <1>3, <1>5, <1>7, <1>11, <1>12, <1>14, <2>1 DEF SoAround
  <2> QED
    BY <1>12, <2>1 DEF Inside, BranchIsTaken
<1>15. b.live => Flow!Outer.live
  BY <1>5, <1>12
<1> QED
  BY <1>1, <1>2, <1>11, <1>12, <1>13, <1>14, <1>15, FlowBySet

LEMMA EndScopeKeeps ==
  ASSUME FlowInv, Flow!EndScope
  PROVE  FlowInv'
<1> DEFINE o == Flow!Closed(Flow!Outer)
           b == [o EXCEPT !.ends = @ \/ Flow!Top.ends]
<1>1. /\ depth > 1 /\ Flow!Outer \in Flow!Blocks /\ Flow!Top \in Flow!Blocks
      /\ Flow!Top.kind = "scope" /\ Flow!Outer.kind # "match" /\ OthersTyped'
      /\ Flow!Close(b) /\ left' = left
  BY FlowFacts, BoundsAreNumbers DEF Flow!EndScope, OthersTyped
<1>2. /\ o \in Flow!Blocks /\ SameOutside(o, Flow!Outer) /\ SameInside(o, Flow!Outer)
      /\ o.ends = Flow!Outer.ends /\ o.env = Flow!Outer.env /\ o.leaked = Flow!Outer.leaked
      /\ o.outdated = Flow!Outer.outdated \cup Flow!Top.assigned
  BY <1>1, ClosedIs
<1> HIDE DEF o
<1>3. /\ b \in Flow!Blocks /\ SameOutside(b, o) /\ SameInside(b, o)
      /\ b.env = o.env /\ b.leaked = o.leaked /\ b.outdated = o.outdated
      /\ b.ends = (o.ends \/ Flow!Top.ends)
  BY <1>1, <1>2 DEF Flow!Blocks, SameOutside, SameInside
<1> HIDE DEF b
<1>4. SameOutside(b, Flow!Outer) /\ SameInside(b, Flow!Outer)
  BY <1>2, <1>3 DEF SameOutside, SameInside
<1>5. ASSUME ~left
      PROVE  KnowsRight(b, {}) /\ ArmsAreTaken(b, FALSE)
  <2>1. /\ KnowsRight(Flow!Outer, Flow!Top.assigned) /\ KnowsRight(Flow!Top, {})
        /\ Flow!Outer.live => BranchIsTaken(Flow!Top, Flow!Outer)
    BY <1>1, <1>5, FlowFacts DEF Inside
  <2>2. Flow!Outer.live => ~Flow!Top.ends
    BY <1>1, <2>1 DEF BranchIsTaken, KnowsRight
  <2> QED
    BY <1>1, <1>2, <1>3, <1>4, <2>1, <2>2
       DEF KnowsRight, ArmsAreTaken, SameOutside, SameInside
<1> QED
  BY <1>1, <1>3, <1>4, <1>5, FlowByClose

\* The environment of a transaction is taken over, but its own variables are
\* not those that are seen from now on.
LEMMA EndTransactionKeeps ==
  ASSUME FlowInv, Flow!EndTransaction
  PROVE  FlowInv'
<1> DEFINE b == [Flow!Outer EXCEPT !.env = Flow!Top.env,
                                   !.outdated = Flow!Top.outdated \ Flow!Top.own,
                                   !.leaked = Flow!Top.leaked \cup Flow!Top.own,
                                   !.ends = @ \/ Flow!Top.ends]
<1>1. /\ depth > 1 /\ Flow!Outer \in Flow!Blocks /\ Flow!Top \in Flow!Blocks
      /\ Flow!Top.kind = "transaction" /\ Flow!Outer.kind # "match" /\ OthersTyped'
      /\ Flow!Close(b) /\ left' = left
  BY FlowFacts, BoundsAreNumbers DEF Flow!EndTransaction, OthersTyped
<1>2. /\ b \in Flow!Blocks /\ SameOutside(b, Flow!Outer) /\ SameInside(b, Flow!Outer)
      /\ b.env = Flow!Top.env /\ b.ends = (Flow!Outer.ends \/ Flow!Top.ends)
      /\ b.outdated = Flow!Top.outdated \ Flow!Top.own
      /\ b.leaked = Flow!Top.leaked \cup Flow!Top.own
  BY <1>1 DEF Flow!Blocks, SameOutside, SameInside
<1> HIDE DEF b
<1>3. ASSUME ~left
      PROVE  KnowsRight(b, {}) /\ ArmsAreTaken(b, FALSE)
  <2>1. /\ KnowsRight(Flow!Outer, Flow!Top.assigned) /\ KnowsRight(Flow!Top, {})
        /\ \A n \in Flow!Names \ Flow!Top.own : Flow!Top.holds[n] = Flow!Outer.holds[n]
        /\ Flow!Outer.live => BranchIsTaken(Flow!Top, Flow!Outer)
    BY <1>1, <1>3, FlowFacts DEF Inside
  <2>2. Flow!Outer.live => ~Flow!Outer.ends /\ Flow!Top.live
    BY <1>1, <2>1 DEF BranchIsTaken, KnowsRight
  <2>3. b.live = Flow!Outer.live /\ b.holds = Flow!Outer.holds /\ b.kind # "match"
    BY <1>1, <1>2 DEF SameOutside, SameInside
  <2>4. ASSUME b.live,
               NEW n \in Flow!Names \ (b.outdated \cup b.leaked \cup {})
        PROVE  b.env[n] \in {"unknown", b.holds[n]}
    <3>1. n \notin Flow!Top.own /\ n \notin Flow!Top.outdated /\ n \notin Flow!Top.leaked
      BY <1>2, <2>4
    <3>2. Flow!Top.env[n] \in {"unknown", Flow!Top.holds[n]}
      BY <2>1, <2>2, <2>3, <2>4, <3>1 DEF KnowsRight
    <3> QED
      BY <1>2, <2>1, <2>3, <3>1, <3>2
  <2>5. b.live => ~b.ends
    BY <1>2, <2>1, <2>2, <2>3 DEF KnowsRight
  <2>6. KnowsRight(b, {})
    BY <2>4, <2>5 DEF KnowsRight
  <2>7. ArmsAreTaken(b, FALSE)
    BY <2>3 DEF ArmsAreTaken
  <2> QED
    BY <2>6, <2>7
<1> QED
  BY <1>1, <1>2, <1>3, FlowByClose

LEMMA EndIfKeeps ==
  ASSUME FlowInv, Flow!EndIf
  PROVE  FlowInv'
<1> DEFINE known == Flow!Survives
           k == Flow!Knowing(Flow!Outer, known)
           o == Flow!Closed(k)
           b == [o EXCEPT !.ends = @ \/ (Flow!Top.thenEnds /\ Flow!Top.ends)]
<1>1. /\ depth > 1 /\ Flow!Outer \in Flow!Blocks /\ Flow!Top \in Flow!Blocks
      /\ Flow!Top.kind = "else" /\ Flow!Outer.kind # "match" /\ OthersTyped'
      /\ Flow!Close(b) /\ left' = left
  BY FlowFacts, BoundsAreNumbers DEF Flow!EndIf, OthersTyped
<1>2. /\ Flow!Top.thenEnds \in BOOLEAN /\ Flow!Top.ends \in BOOLEAN
      /\ Flow!Top.live \in BOOLEAN
      /\ Flow!Top.ifTrue \in Flow!Knowledge /\ Flow!Top.ifFalse \in Flow!Knowledge
  BY <1>1 DEF Flow!Blocks
<1>3. known \in Flow!Knowledge
  <2>1. Flow!Ignorance \in Flow!Knowledge
    BY DEF Flow!Ignorance, Flow!Knowledge
  <2> QED
    BY <1>2, <2>1 DEF Flow!Survives
<1>4. ASSUME ~left, Flow!Outer.live
      PROVE  /\ ~(Flow!Top.thenEnds /\ Flow!Top.ends)
             /\ SoAround(known, Flow!Top, Flow!Outer)
  <2>1. KnowsRight(Flow!Top, {}) /\ BranchIsTaken(Flow!Top, Flow!Outer)
    BY <1>1, <1>4, FlowFacts DEF Inside
  <2>2. SoAround(Flow!Ignorance, Flow!Top, Flow!Outer)
    BY DEF Flow!Ignorance, SoAround
  <2>3. CASE Flow!Top.live
    <3>1. ~Flow!Top.ends /\ SoAround(Flow!Top.ifFalse, Flow!Top, Flow!Outer)
      BY <1>1, <2>1, <2>3 DEF BranchIsTaken, KnowsRight
    <3>2. known = Flow!Top.ifFalse \/ known = Flow!Ignorance
      BY <1>2, <3>1 DEF Flow!Survives
    <3> HIDE DEF known
    <3> QED
      BY <2>2, <3>1, <3>2
  <2>4. CASE ~Flow!Top.live
    <3>1. ~Flow!Top.thenEnds /\ SoAround(Flow!Top.ifTrue, Flow!Top, Flow!Outer)
      BY <1>1, <2>1, <2>4 DEF BranchIsTaken
    <3>2. known = Flow!Top.ifTrue \/ known = Flow!Ignorance
      BY <1>2, <3>1 DEF Flow!Survives
    <3> HIDE DEF known
    <3> QED
      BY <2>2, <3>1, <3>2
  <2> QED
    BY <2>3, <2>4
<1> HIDE DEF known
<1>5. /\ k \in Flow!Blocks /\ SameOutside(k, Flow!Outer) /\ SameInside(k, Flow!Outer)
      /\ k.ends = Flow!Outer.ends
  BY <1>1, <1>3, KnowingIs
<1>6. ~left => KnowsRight(k, Flow!Top.assigned)
  <2> SUFFICES ASSUME ~left
               PROVE  KnowsRight(k, Flow!Top.assigned)
    OBVIOUS
  <2>1. KnowsRight(Flow!Outer, Flow!Top.assigned)
    BY <1>1, FlowFacts
  <2>2. Flow!Outer.live => \A n \in Flow!Names \ Flow!Top.assigned :
                              known[n] \in {"unknown", Flow!Outer.holds[n]}
    BY <1>4 DEF SoAround
  <2> QED
    BY <1>1, <1>3, <2>1, <2>2, KnowingIsRight
<1> HIDE DEF k
<1>7. /\ o \in Flow!Blocks /\ SameOutside(o, k) /\ SameInside(o, k)
      /\ o.ends = k.ends /\ o.env = k.env /\ o.leaked = k.leaked
      /\ o.outdated = k.outdated \cup Flow!Top.assigned
  BY <1>1, <1>5, ClosedIs
<1> HIDE DEF o
<1>8. /\ b \in Flow!Blocks /\ SameOutside(b, o) /\ SameInside(b, o)
      /\ b.env = o.env /\ b.leaked = o.leaked /\ b.outdated = o.outdated
      /\ b.ends = (o.ends \/ (Flow!Top.thenEnds /\ Flow!Top.ends))
  BY <1>2, <1>7 DEF Flow!Blocks, SameOutside, SameInside
<1> HIDE DEF b
<1>9. SameOutside(b, Flow!Outer) /\ SameInside(b, Flow!Outer)
  BY <1>5, <1>7, <1>8 DEF SameOutside, SameInside
<1>10. ASSUME ~left
       PROVE  KnowsRight(b, {}) /\ ArmsAreTaken(b, FALSE)
  <2>1. b.live = Flow!Outer.live /\ b.kind # "match" /\ b.live = k.live /\ b.holds = k.holds
    BY <1>1, <1>7, <1>8, <1>9 DEF SameOutside, SameInside
  <2>2. b.live => ~b.ends
    BY <1>4, <1>6, <1>7, <1>8, <1>10, <2>1 DEF KnowsRight
  <2>3. KnowsRight(b, {})
    BY <1>6, <1>7, <1>8, <1>10, <2>1, <2>2 DEF KnowsRight
  <2> QED
    BY <2>1, <2>3 DEF ArmsAreTaken
<1> QED
  BY <1>1, <1>8, <1>9, <1>10, FlowByClose

LEMMA ArmKeeps ==
  ASSUME FlowInv, NEW pattern \in SUBSET Variants, NEW guarded \in BOOLEAN,
         NEW guard \in BOOLEAN, Flow!Arm(pattern, guarded, guard)
  PROVE  FlowInv'
<1> DEFINE runs == Flow!Top.subject \subseteq pattern /\ ~Flow!Top.taken
                   /\ (guarded => guard)
           t == [Flow!Top EXCEPT !.taken = @ \/ runs,
                                 !.covered = IF guarded THEN @ ELSE @ \cup pattern]
           live == Flow!Running /\ runs
           b == Flow!Inner(Flow!Top, "arm", live)
<1>1. /\ Flow!Top.kind = "match" /\ depth < Nesting /\ depth' = depth + 1
      /\ blocks' = [blocks EXCEPT ![depth] = t, ![depth + 1] = b]
      /\ left' = left /\ written < Statements /\ written' = written + 1
      /\ Flow!Top \in Flow!Blocks
  BY OpenedTyped DEF Flow!Arm
<1>2. OthersTyped'
  BY <1>1, FlowFacts, BoundsAreNumbers DEF OthersTyped
<1>3. runs \in BOOLEAN /\ live \in BOOLEAN /\ "arm" \in Flow!Kinds
  BY OpenedTyped DEF Flow!Kinds
<1>4. runs => ~Flow!Top.taken
  OBVIOUS
<1> HIDE DEF runs
<1>5. /\ t \in Flow!Blocks /\ SameOutside(t, Flow!Top) /\ SameInside(t, Flow!Top)
      /\ t.env = Flow!Top.env /\ t.ends = Flow!Top.ends
      /\ t.outdated = Flow!Top.outdated /\ t.leaked = Flow!Top.leaked
      /\ t.allEnd = Flow!Top.allEnd /\ t.taken = (Flow!Top.taken \/ runs)
  BY <1>1, <1>3 DEF Flow!Blocks, SameOutside, SameInside
<1>6. /\ b \in Flow!Blocks /\ b.kind = "arm" /\ b.live = (Flow!Running /\ runs)
      /\ b.own = {} /\ b.assigned = {} /\ ~b.taken /\ b.holds = Flow!Top.holds
  <2>1. live = (Flow!Running /\ runs)
    OBVIOUS
  <2> HIDE DEF live
  <2>2. b.live = live /\ b \in Flow!Blocks /\ b.kind = "arm"
        /\ b.own = {} /\ b.assigned = {} /\ ~b.taken /\ b.holds = Flow!Top.holds
    BY <1>1, <1>3, InnerIs
  <2> QED
    BY <2>1, <2>2
<1>7. ~left => KnowsRight(b, {})
  BY <1>1, <1>3, OpenedTyped, FlowFacts, InnerIsRight
<1> HIDE DEF t, b
<1>8. ASSUME ~left
      PROVE  ArmsAreTaken(t, b.live) /\ Inside(b, Flow!Top)
  <2>1. Flow!Running = Flow!Top.live
    BY <1>8, OpenedTyped
  <2>2. ArmsAreTaken(Flow!Top, FALSE)
    BY <1>8, FlowFacts
  <2>3. ArmsAreTaken(t, b.live)
    BY <1>1, <1>3, <1>5, <1>6, <2>1, <2>2 DEF ArmsAreTaken, SameOutside, SameInside
  <2> QED
    BY <1>6, <2>3 DEF Inside, BranchIsTaken
<1>9. /\ b.kind \notin {"none", "body"} /\ (b.kind = "arm" <=> Flow!Top.kind = "match")
      /\ b.live => Flow!Top.live
  BY <1>1, <1>3, <1>6, OpenedTyped
<1> QED
  BY <1>1, <1>2, <1>5, <1>6, <1>7, <1>8, <1>9, FlowByOpen

LEMMA EndArmKeeps ==
  ASSUME FlowInv, Flow!EndArm
  PROVE  FlowInv'
<1> DEFINE o == Flow!Closed(Flow!Outer)
           b == [o EXCEPT !.allEnd = @ /\ Flow!Top.ends]
<1>1. /\ depth > 1 /\ Flow!Outer \in Flow!Blocks /\ Flow!Top \in Flow!Blocks
      /\ Flow!Top.kind = "arm" /\ OthersTyped' /\ Flow!Close(b) /\ left' = left
  BY FlowFacts, BoundsAreNumbers DEF Flow!EndArm, OthersTyped
<1>2. /\ o \in Flow!Blocks /\ SameOutside(o, Flow!Outer) /\ SameInside(o, Flow!Outer)
      /\ o.ends = Flow!Outer.ends /\ o.env = Flow!Outer.env /\ o.leaked = Flow!Outer.leaked
      /\ o.taken = Flow!Outer.taken /\ o.allEnd = Flow!Outer.allEnd
      /\ o.outdated = Flow!Outer.outdated \cup Flow!Top.assigned
  BY <1>1, ClosedIs
<1> HIDE DEF o
<1>3. /\ b \in Flow!Blocks /\ SameOutside(b, o) /\ SameInside(b, o)
      /\ b.env = o.env /\ b.leaked = o.leaked /\ b.outdated = o.outdated
      /\ b.ends = o.ends /\ b.taken = o.taken
      /\ b.allEnd = (o.allEnd /\ Flow!Top.ends)
  BY <1>1, <1>2 DEF Flow!Blocks, SameOutside, SameInside
<1> HIDE DEF b
<1>4. SameOutside(b, Flow!Outer) /\ SameInside(b, Flow!Outer)
  BY <1>2, <1>3 DEF SameOutside, SameInside
<1>5. ASSUME ~left
      PROVE  KnowsRight(b, {}) /\ ArmsAreTaken(b, FALSE)
  <2>1. /\ KnowsRight(Flow!Outer, Flow!Top.assigned) /\ KnowsRight(Flow!Top, {})
        /\ ArmsAreTaken(Flow!Outer, Flow!Top.live)
    BY <1>1, <1>5, FlowFacts
  <2>2. KnowsRight(b, {})
    BY <1>2, <1>3, <1>4, <2>1 DEF KnowsRight, SameOutside, SameInside
  <2>3. ArmsAreTaken(b, FALSE)
    BY <1>2, <1>3, <1>4, <2>1 DEF KnowsRight, ArmsAreTaken, SameOutside, SameInside
  <2> QED
    BY <2>2, <2>3
<1> QED
  BY <1>1, <1>3, <1>4, <1>5, FlowByClose

LEMMA EndMatchKeeps ==
  ASSUME FlowInv, Flow!EndMatch
  PROVE  FlowInv'
<1> DEFINE exhaustive == Flow!Top.covered = Variants
           o == Flow!Closed(Flow!Outer)
           b == [o EXCEPT !.ends = @ \/ (exhaustive /\ Flow!Top.allEnd)]
<1>1. /\ depth > 1 /\ Flow!Outer \in Flow!Blocks /\ Flow!Top \in Flow!Blocks
      /\ Flow!Top.kind = "match" /\ Flow!Outer.kind # "match"
      /\ Flow!Close(b) /\ written' = written
      /\ left' = (left \/ (Flow!Running /\ ~Flow!Top.taken))
  BY FlowFacts, BoundsAreNumbers DEF Flow!EndMatch
<1>2. exhaustive \in BOOLEAN /\ Flow!Top.live \in BOOLEAN /\ Flow!Top.taken \in BOOLEAN
      /\ Flow!Top.allEnd \in BOOLEAN /\ left \in BOOLEAN
  BY <1>1, FlowFacts DEF Flow!Blocks, OthersTyped
<1> HIDE DEF exhaustive
<1>3. OthersTyped' /\ (~left' => ~left)
  BY <1>1, <1>2, FlowFacts DEF OthersTyped, Flow!Running
<1>4. /\ o \in Flow!Blocks /\ SameOutside(o, Flow!Outer) /\ SameInside(o, Flow!Outer)
      /\ o.ends = Flow!Outer.ends /\ o.env = Flow!Outer.env /\ o.leaked = Flow!Outer.leaked
      /\ o.outdated = Flow!Outer.outdated \cup Flow!Top.assigned
  BY <1>1, ClosedIs
<1> HIDE DEF o
<1>5. /\ b \in Flow!Blocks /\ SameOutside(b, o) /\ SameInside(b, o)
      /\ b.env = o.env /\ b.leaked = o.leaked /\ b.outdated = o.outdated
      /\ b.ends = (o.ends \/ (exhaustive /\ Flow!Top.allEnd))
  BY <1>2, <1>4 DEF Flow!Blocks, SameOutside, SameInside
<1> HIDE DEF b
<1>6. SameOutside(b, Flow!Outer) /\ SameInside(b, Flow!Outer)
  BY <1>4, <1>5 DEF SameOutside, SameInside
<1>7. ASSUME ~left'
      PROVE  KnowsRight(b, {}) /\ ArmsAreTaken(b, FALSE)
  <2>1. /\ KnowsRight(Flow!Outer, Flow!Top.assigned) /\ ArmsAreTaken(Flow!Top, FALSE)
        /\ Flow!Outer.live => BranchIsTaken(Flow!Top, Flow!Outer)
    BY <1>1, <1>3, <1>7, FlowFacts DEF Inside
  <2>2. Flow!Outer.live => Flow!Top.live /\ Flow!Top.taken
    BY <1>1, <1>2, <1>7, <2>1 DEF BranchIsTaken, Flow!Running
  <2>3. Flow!Outer.live => ~Flow!Top.allEnd
    BY <1>1, <2>1, <2>2 DEF ArmsAreTaken
  <2>4. KnowsRight(b, {})
    BY <1>4, <1>5, <1>6, <2>1, <2>3 DEF KnowsRight, SameOutside, SameInside
  <2>5. ArmsAreTaken(b, FALSE)
    BY <1>1, <1>6 DEF ArmsAreTaken, SameInside
  <2> QED
    BY <2>4, <2>5
<1> QED
  BY <1>1, <1>3, <1>5, <1>6, <1>7, FlowByClose

-----------------------------------------------------------------------------
(* The theorems.                                                           *)

LEMMA FlowStarts == Flow!Init => FlowInv
<1> SUFFICES ASSUME Flow!Init
             PROVE  FlowInv
  OBVIOUS
<1>1. PICK holds \in [Flow!Names -> Flow!Sides] :
         blocks = [i \in 1 .. Nesting |->
                      IF i > 1 THEN Flow!NoBlock
                      ELSE [Flow!Block("body", Flow!Ignorance, holds, TRUE)
                               EXCEPT !.own = Flow!Names]]
  BY DEF Flow!Init
<1>2. Flow!Ignorance \in Flow!Knowledge /\ "body" \in Flow!Kinds
  BY DEF Flow!Ignorance, Flow!Knowledge, Flow!Kinds
<1> DEFINE f == Flow!Block("body", Flow!Ignorance, holds, TRUE)
           b == [f EXCEPT !.own = Flow!Names]
<1>3. /\ f \in Flow!Blocks /\ f.kind = "body" /\ f.env = Flow!Ignorance /\ ~f.ends
  BY <1>2, BlockTyped DEF Flow!Block
<1> HIDE DEF f
<1>4. /\ b \in Flow!Blocks /\ b.kind = "body" /\ b.env = Flow!Ignorance /\ ~b.ends
  BY <1>3 DEF Flow!Blocks
<1>5. blocks = [i \in 1 .. Nesting |-> IF i > 1 THEN Flow!NoBlock ELSE b]
  BY <1>1 DEF f
<1> HIDE DEF b
<1>6. blocks \in [1 .. Nesting -> Flow!Blocks] /\ blocks[1] = b
  BY <1>4, <1>5, NoBlockTyped, BoundsAreNumbers
<1>7. depth = 1 /\ left = FALSE /\ written = 0
  BY DEF Flow!Init
<1>8. Flow!TypeOK
  <2>1. depth \in 1 .. Nesting /\ written \in 0 .. Statements
    BY <1>7, BoundsAreNumbers
  <2> QED
    BY <1>6, <1>7, <2>1 DEF Flow!TypeOK
<1>9. Nested
  BY <1>4, <1>6, <1>7 DEF Nested, NestedAt
<1>10. Level(1)
  BY <1>4, <1>6 DEF Level, KnowsRight, ArmsAreTaken, Flow!Ignorance
<1> QED
  BY <1>7, <1>8, <1>9, <1>10 DEF FlowInv

LEMMA FlowKept == FlowInv /\ Flow!Next => FlowInv'
<1> SUFFICES ASSUME FlowInv, Flow!Next
             PROVE  FlowInv'
  OBVIOUS
<1>1. ASSUME NEW n \in Flow!Names, NEW side \in Flow!Sides,
             Flow!Assign(n, side) \/ Flow!Let(n, side)
      PROVE  FlowInv'
  BY <1>1, AssignKeeps, LetKeeps
<1>2. CASE Flow!Return \/ Flow!Fail
  BY <1>2, ReturnKeeps, FailKeeps
<1>3. CASE Flow!Scope \/ Flow!Transaction
  BY <1>3, ScopeKeeps DEF Flow!Scope, Flow!Transaction
<1>4. CASE Flow!EndScope \/ Flow!EndTransaction
  BY <1>4, EndScopeKeeps, EndTransactionKeeps
<1>5. ASSUME NEW c \in Flow!Conditions, NEW other \in BOOLEAN, Flow!If(c, other)
      PROVE  FlowInv'
  BY <1>5, IfKeeps
<1>6. CASE Flow!Else \/ Flow!EndIf
  BY <1>6, ElseKeeps, EndIfKeeps
<1>7. ASSUME NEW v \in Variants, Flow!Match(v)
      PROVE  FlowInv'
  BY <1>7, MatchKeeps
<1>8. ASSUME NEW pattern \in {{v} : v \in Variants} \cup {Variants},
             NEW guarded \in BOOLEAN, NEW guard \in BOOLEAN,
             Flow!Arm(pattern, guarded, guard)
      PROVE  FlowInv'
  <2>1. pattern \in SUBSET Variants
    OBVIOUS
  <2> QED
    BY <1>8, <2>1, ArmKeeps
<1>9. CASE Flow!EndArm \/ Flow!EndMatch
  BY <1>9, EndArmKeeps, EndMatchKeeps
<1> QED
  BY <1>1, <1>2, <1>3, <1>4, <1>5, <1>6, <1>7, <1>8, <1>9 DEF Flow!Next

LEMMA FlowUnchanged == FlowInv /\ UNCHANGED flowVars => FlowInv'
<1> SUFFICES ASSUME FlowInv, UNCHANGED flowVars
             PROVE  FlowInv'
  OBVIOUS
<1>1. blocks' = blocks /\ depth' = depth /\ left' = left /\ written' = written
  BY DEF flowVars
<1>2. Flow!TypeOK'
  BY <1>1 DEF FlowInv, Flow!TypeOK
<1>3. Nested'
  BY <1>1 DEF FlowInv, Nested, NestedAt
<1>4. ASSUME NEW i \in 1 .. depth, ~left
      PROVE  Level(i)'
  <2>1. Level(i)
    BY <1>4 DEF FlowInv
  <2>2. ChangedIn(i)' = ChangedIn(i) /\ ArmRuns(i)' = ArmRuns(i)
    BY <1>1 DEF ChangedIn, ArmRuns
  <2> QED
    BY <1>1, <2>1, <2>2
       DEF Level, KnowsRight, ArmsAreTaken, Inside, BranchIsTaken, SoAround
<1> QED
  BY <1>1, <1>2, <1>3, <1>4 DEF FlowInv

\* In every body, of any length, what the checker knows of the variables in a
\* block is so when the block is run, and no run comes past a block that it
\* takes to end on every path.
THEOREM FlowIsSound == PartsSpec => []FlowInv
<1>1. PartsInit => FlowInv
  BY FlowStarts DEF PartsInit
<1>2. FlowInv /\ [PartsNext]_<<part, vars, flowVars, importVars, dateVars, amountVars>>
         => FlowInv'
  BY FlowKept, FlowUnchanged DEF PartsNext
<1> QED
  BY <1>1, <1>2, PTL DEF PartsSpec

\* A read of .value or .error that the checker accepts (option_flow.rs,
\* result_flow.rs) finds what it reads, whatever the nesting of the blocks
\* around it, unless an inner block has assigned the variable since the check
\* or the check was made, in a transaction, of another.
THEOREM AcceptedReadsAlwaysSucceed == PartsSpec => []AcceptedReadsSucceed
<1>1. FlowInv => AcceptedReadsSucceed
  BY FlowFacts
     DEF AcceptedReadsSucceed, Flow!AcceptedReadsSucceed, Flow!Running, KnowsRight
<1> QED
  BY <1>1, FlowIsSound, PTL

\* A block that the checker takes to return on every path (semantic.rs) is
\* never run to its end: a callable with a result does not end without one.
THEOREM EndedBlocksAreLeft == PartsSpec => []EndsIsLeft
<1>1. FlowInv => EndsIsLeft
  BY FlowFacts DEF EndsIsLeft, Flow!EndsIsLeft, KnowsRight
<1> QED
  BY <1>1, FlowIsSound, PTL

-----------------------------------------------------------------------------
(* The walk over the imports: what holds between two of its steps.         *)

\* The files that were left, the file that is checked not counted.
Placed == IF open = <<>> THEN Imports!Front(visible) ELSE visible

\* The files that were entered by an import.
Entered(f) ==
    \/ \E i \in 2 .. Len(open) : open[i] = f
    \/ \E i \in 1 .. Len(Placed) : Placed[i] = f

WalkTypeOK ==
    /\ Imports!TypeOK
    /\ \A i \in 1 .. Len(open) : line[i] \in 1 .. Len(uses[open[i]]) + 1
    /\ open = <<>> => visible # <<>> /\ visible[Len(visible)] = unit

\* The open files lead from the file that is checked to the innermost.
OpenIsPath ==
    \A i \in 1 .. Len(open) :
        /\ i = 1 => open[i] = unit
        /\ \A j \in 1 .. i - 1 : open[i] \in Imports!Reached(open[j])

\* What the files that were left use was met, and so was what the open ones
\* use before their line.
LinesAreMet ==
    /\ \A i \in 1 .. Len(open) : \A k \in 1 .. line[i] - 1 :
          uses[open[i]][k] \in visited
    /\ \A i \in 1 .. Len(Placed) : \A k \in 1 .. Len(uses[Placed[i]]) :
          uses[Placed[i]][k] \in visited
    /\ open = <<>> => \A k \in 1 .. Len(uses[unit]) : uses[unit][k] \in visited

\* A file is entered with the first use of its path, and only once.
MetAreEntered ==
    \A f \in Files : Entered(f) <=> \E p \in visited : f \in Imports!Found(p)

EnteredOnce ==
    /\ \A i, j \in 2 .. Len(open) : open[i] = open[j] => i = j
    /\ \A i, j \in 1 .. Len(Placed) : Placed[i] = Placed[j] => i = j
    /\ \A i \in 2 .. Len(open) : \A j \in 1 .. Len(Placed) : open[i] # Placed[j]

\* The files that are entered can be reached, and their lines are all there is.
EnteredAreReached ==
    /\ \A f \in Files : Entered(f) => f \in Imports!Reached(unit)
    /\ \A p \in visited : \E f \in Imports!Reached(unit) \cup {unit} :
          \E k \in 1 .. Len(uses[f]) : uses[f][k] = p

\* A file is left after the files it uses, but for those that lead to it.
UsesAreFirst ==
    \A i \in 1 .. Len(Placed) : \A g \in Imports!Used(Placed[i]) :
        \/ Placed[i] \in Imports!Reached(g)
        \/ \E j \in 1 .. i - 1 : Placed[j] = g

UnknownOnce ==
    /\ \A i, j \in 1 .. Len(unknown) : unknown[i] = unknown[j] => i = j
    /\ \A p \in Paths : (\E i \in 1 .. Len(unknown) : unknown[i] = p)
                            <=> p \in visited /\ Imports!Found(p) = {}

RepeatedAtEnd ==
    duplicates = IF open = <<>> THEN Imports!Repeated(visible) ELSE {}

ImportInv ==
    /\ WalkTypeOK
    /\ OpenIsPath
    /\ LinesAreMet
    /\ MetAreEntered
    /\ EnteredOnce
    /\ EnteredAreReached
    /\ UsesAreFirst
    /\ UnknownOnce
    /\ RepeatedAtEnd
-----------------------------------------------------------------------------
(* The graph of the files.                                                 *)

LEMMA AppendIs ==
  ASSUME NEW S, NEW s \in Seq(S), NEW e \in S
  PROVE  /\ Append(s, e) \in Seq(S)
         /\ Len(Append(s, e)) = Len(s) + 1
         /\ \A i \in 1 .. Len(s) : Append(s, e)[i] = s[i]
         /\ Append(s, e)[Len(s) + 1] = e
  OBVIOUS

LEMMA FrontIs ==
  ASSUME NEW S, NEW s \in Seq(S), Len(s) >= 1
  PROVE  /\ Imports!Front(s) \in Seq(S)
         /\ Len(Imports!Front(s)) = Len(s) - 1
         /\ \A i \in 1 .. Len(s) - 1 : Imports!Front(s)[i] = s[i]
<1> DEFINE n == Len(s) - 1
<1>1. n \in Nat /\ n \in Int /\ 1 \in Int /\ \A i \in 1 .. n : s[i] \in S
  OBVIOUS
<1> HIDE DEF n
<1>2. /\ SubSeq(s, 1, n) \in Seq(S)
      /\ Len(SubSeq(s, 1, n)) = n
      /\ \A i \in 1 .. n : SubSeq(s, 1, n)[i] = s[i]
  <2>1. /\ SubSeq(s, 1, n) \in Seq(S)
        /\ Len(SubSeq(s, 1, n)) = IF 1 <= n THEN n - 1 + 1 ELSE 0
        /\ \A i \in 1 .. n - 1 + 1 : SubSeq(s, 1, n)[i] = s[1 + i - 1]
    BY <1>1, SubSeqProperties
  <2>2. n - 1 + 1 = n /\ \A i \in 1 .. n : 1 + i - 1 = i
    BY <1>1
  <2> QED
    BY <1>1, <2>1, <2>2
<1> QED
  BY <1>2 DEF n, Imports!Front

LEMMA FrontOfAppend ==
  ASSUME NEW S, NEW s \in Seq(S), NEW e \in S
  PROVE  Imports!Front(Append(s, e)) = s
  BY DEF Imports!Front

LEMMA FoundIsOne ==
  ASSUME NEW p, NEW f \in Imports!Found(p)
  PROVE  /\ f \in Files /\ path[f] = p
         /\ \A g \in Imports!Found(p) : g = f
  BY LanguageAssumption DEF Imports!Found

LEMMA UsedIs ==
  ASSUME Imports!TypeOK, NEW f \in Files
  PROVE  /\ Imports!Used(f) \subseteq Files
         /\ \A g : g \in Imports!Used(f)
                      <=> \E k \in 1 .. Len(uses[f]) : g \in Imports!Found(uses[f][k])
<1>1. uses[f] \in Seq(Paths)
  BY DEF Imports!TypeOK
<1>2. DOMAIN uses[f] = 1 .. Len(uses[f])
  BY <1>1
<1> QED
  BY <1>2 DEF Imports!Used, Imports!Found

LEMMA UsedIsReached ==
  ASSUME Imports!TypeOK, NEW f \in Files
  PROVE  Imports!Used(f) \subseteq Imports!Reached(f)
  BY UsedIs DEF Imports!Reached

LEMMA ReachedIsClosed ==
  ASSUME Imports!TypeOK, NEW f \in Files, NEW h \in Imports!Reached(f)
  PROVE  h \in Files /\ Imports!Used(h) \subseteq Imports!Reached(f)
<1>1. h \in Files
  BY DEF Imports!Reached
<1>2. ASSUME NEW g \in Imports!Used(h), NEW files \in SUBSET Files,
             \A e \in files \cup {f} : Imports!Used(e) \subseteq files
      PROVE  g \in files
  BY <1>2 DEF Imports!Reached
<1>3. Imports!Used(h) \subseteq Files
  BY <1>1, UsedIs
<1> QED
  BY <1>1, <1>2, <1>3 DEF Imports!Reached

LEMMA ReachedIsLeast ==
  ASSUME NEW f, NEW files \in SUBSET Files,
         \A h \in files \cup {f} : Imports!Used(h) \subseteq files
  PROVE  Imports!Reached(f) \subseteq files
  BY DEF Imports!Reached

LEMMA GraphKept ==
  ASSUME UNCHANGED <<path, uses>>
  PROVE  /\ \A p : Imports!Found(p)' = Imports!Found(p)
         /\ \A f : Imports!Used(f)' = Imports!Used(f)
         /\ \A f : Imports!Reached(f)' = Imports!Reached(f)
<1>1. \A p : Imports!Found(p)' = Imports!Found(p)
  BY DEF Imports!Found
<1>2. \A f : Imports!Used(f)' = Imports!Used(f)
  BY <1>1 DEF Imports!Used
<1> QED
  BY <1>1, <1>2 DEF Imports!Reached

\* The innermost open file and its line.
LEMMA TopIs ==
  ASSUME ImportInv, open # <<>>
  PROVE  /\ Len(open) \in Nat \ {0} /\ Len(line) = Len(open)
         /\ \A i \in 1 .. Len(open) : open[i] \in Files
         /\ Imports!Top = open[Len(open)] /\ Imports!Top \in Files
         /\ Imports!Line = line[Len(open)]
         /\ Imports!Line \in 1 .. Len(uses[Imports!Top]) + 1
         /\ uses[Imports!Top] \in Seq(Paths)
         /\ Placed = visible
<1>1. Imports!TypeOK
  BY DEF ImportInv, WalkTypeOK
<1>2. open \in Seq(Files) /\ Len(line) = Len(open)
  BY <1>1 DEF Imports!TypeOK
<1>3. Len(open) \in Nat \ {0} /\ \A i \in 1 .. Len(open) : open[i] \in Files
  BY <1>2
<1>4. Imports!Top = open[Len(open)] /\ Imports!Line = line[Len(open)]
  BY <1>2 DEF Imports!Top, Imports!Line
<1>5. Imports!Top \in Files
  BY <1>3, <1>4
<1>6. uses[Imports!Top] \in Seq(Paths)
  BY <1>1, <1>5 DEF Imports!TypeOK
<1>7. Imports!Line \in 1 .. Len(uses[Imports!Top]) + 1
  BY <1>3, <1>4 DEF ImportInv, WalkTypeOK
<1> QED
  BY <1>2, <1>3, <1>4, <1>5, <1>6, <1>7 DEF Placed

\* The innermost open file is the one that is checked, or reached from it.
LEMMA TopIsReached ==
  ASSUME ImportInv, open # <<>>
  PROVE  Imports!Top \in Imports!Reached(unit) \cup {unit}
<1> DEFINE n == Len(open)
<1>1. n \in Nat \ {0} /\ Imports!Top = open[n]
  BY TopIs
<1>2. open[1] = unit
  BY <1>1 DEF ImportInv, OpenIsPath
<1>3. CASE n = 1
  BY <1>1, <1>2, <1>3
<1>4. CASE n > 1
  <2>1. 1 \in 1 .. n - 1 /\ n \in 1 .. n
    BY <1>1, <1>4
  <2> QED
    BY <1>1, <1>2, <2>1 DEF ImportInv, OpenIsPath
<1>5. n = 1 \/ n > 1
  <2> HIDE DEF n
  <2> QED
    BY <1>1
<1> QED
  BY <1>3, <1>4, <1>5

\* A step that goes to the next line of the innermost file.
LEMMA AdvanceIs ==
  ASSUME ImportInv, open # <<>>
  PROVE  /\ Imports!Advance \in Seq(Nat) /\ Len(Imports!Advance) = Len(open)
         /\ \A i \in 1 .. Len(open) : Imports!Advance[i] \in Nat
         /\ \A i \in 1 .. Len(open) - 1 : Imports!Advance[i] = line[i]
         /\ Imports!Advance[Len(open)] = line[Len(open)] + 1
<1>1. Len(open) \in Nat \ {0} /\ Len(line) = Len(open)
  BY TopIs
<1>2. line \in Seq(Nat)
  BY DEF ImportInv, WalkTypeOK, Imports!TypeOK
<1> QED
  BY <1>1, <1>2 DEF Imports!Advance
-----------------------------------------------------------------------------
(* Each step keeps the invariant.                                          *)

\* A use that goes on to the next line, of a path that is met now.
LEMMA LinesByAdvance ==
  ASSUME ImportInv, Imports!AtImport, UNCHANGED <<path, uses, unit, open, visible>>,
         line' = Imports!Advance, visited' = visited \cup {Imports!Import}
  PROVE  LinesAreMet'
<1>1. open # <<>> /\ Imports!Import = uses[open[Len(open)]][line[Len(open)]]
  BY TopIs DEF Imports!AtImport, Imports!Import
<1>2. Placed' = Placed
  BY DEF Placed
<1>3. ASSUME NEW i \in 1 .. Len(open), NEW k \in 1 .. line'[i] - 1
      PROVE  uses[open[i]][k] \in visited'
  <2>1. CASE i = Len(open) /\ k = line[i]
    BY <1>1, <2>1
  <2>2. CASE k \in 1 .. line[i] - 1
    BY <2>2 DEF ImportInv, LinesAreMet
  <2> DEFINE n == Len(open)
  <2>3. /\ n \in Nat \ {0} /\ line' = Imports!Advance
        /\ \A j \in 1 .. n - 1 : Imports!Advance[j] = line[j]
        /\ Imports!Advance[n] = line[n] + 1
    BY <1>1, TopIs, AdvanceIs
  <2>4. line[i] \in Int
    BY TopIs, <1>1 DEF ImportInv, WalkTypeOK, Imports!TypeOK
  <2>5. i \in 1 .. n
    OBVIOUS
  <2> HIDE DEF n
  <2>6. (i = n /\ k = line[i]) \/ k \in 1 .. line[i] - 1
    BY <2>3, <2>4, <2>5
  <2> QED
    BY <2>1, <2>2, <2>6 DEF n
<1>4. \A i \in 1 .. Len(Placed) : \A k \in 1 .. Len(uses[Placed[i]]) :
        uses[Placed[i]][k] \in visited'
  BY DEF ImportInv, LinesAreMet
<1> QED
  BY <1>1, <1>2, <1>3, <1>4 DEF LinesAreMet

LEMMA LineTyped ==
  ASSUME ImportInv, Imports!AtImport
  PROVE  /\ Imports!Import \in Paths
         /\ \A i \in 1 .. Len(open) : Imports!Advance[i] \in 1 .. Len(uses[open[i]]) + 1
         /\ Imports!Import = uses[Imports!Top][Imports!Line]
         /\ Imports!Line \in 1 .. Len(uses[Imports!Top])
<1>1. open # <<>> /\ Imports!Line <= Len(uses[Imports!Top])
  BY DEF Imports!AtImport
<1>2. Len(uses[Imports!Top]) \in Nat
  BY <1>1, TopIs
<1>3. Imports!Line \in 1 .. Len(uses[Imports!Top])
  BY <1>1, <1>2, TopIs
<1>4. Imports!Import \in Paths
  BY <1>1, <1>3, TopIs DEF Imports!Import
<1>5. ASSUME NEW i \in 1 .. Len(open)
      PROVE  Imports!Advance[i] \in 1 .. Len(uses[open[i]]) + 1
  <2>1. CASE i = Len(open)
    BY <1>1, <1>2, <1>3, <2>1, TopIs, AdvanceIs
  <2>2. CASE i \in 1 .. Len(open) - 1
    BY <1>1, <2>2, AdvanceIs DEF ImportInv, WalkTypeOK
  <2> QED
    BY <1>1, <2>1, <2>2, TopIs
<1> QED
  BY <1>3, <1>4, <1>5 DEF Imports!Import

LEMMA SeenKeeps ==
  ASSUME ImportInv, Imports!Seen
  PROVE  ImportInv'
<1>1. /\ UNCHANGED <<path, uses, name, unit, open, visited, visible, unknown, duplicates>>
      /\ Imports!AtImport /\ Imports!Import \in visited
      /\ line' = Imports!Advance
  BY DEF Imports!Seen, Imports!input
<1>2. open # <<>>
  BY <1>1 DEF Imports!AtImport
<1>3. WalkTypeOK'
  BY <1>1, <1>2, TopIs, AdvanceIs, LineTyped DEF ImportInv, WalkTypeOK, Imports!TypeOK
<1>4. LinesAreMet'
  BY <1>1, LinesByAdvance
<1>5. Placed' = Placed
  BY <1>1 DEF Placed
<1>6. \A f : Entered(f)' = Entered(f)
  BY <1>1, <1>5 DEF Entered
<1>7. OpenIsPath' /\ EnteredOnce'
  BY <1>1, <1>5, GraphKept DEF ImportInv, OpenIsPath, EnteredOnce
<1>8. MetAreEntered' /\ EnteredAreReached'
  BY <1>1, <1>6, GraphKept DEF ImportInv, MetAreEntered, EnteredAreReached
<1>9. UsesAreFirst'
  BY <1>1, <1>5, GraphKept DEF ImportInv, UsesAreFirst
<1>10. UnknownOnce' /\ RepeatedAtEnd'
  BY <1>1, GraphKept DEF ImportInv, UnknownOnce, RepeatedAtEnd, Imports!Repeated
<1> QED
  BY <1>3, <1>4, <1>7, <1>8, <1>9, <1>10 DEF ImportInv

\* The path that is met is one of a line of a file that is reached.
LEMMA PathsByImport ==
  ASSUME ImportInv, Imports!AtImport, UNCHANGED <<path, uses, unit>>,
         visited' = visited \cup {Imports!Import}
  PROVE  \A p \in visited' : \E f \in Imports!Reached(unit)' \cup {unit'} :
            \E k \in 1 .. Len(uses'[f]) : uses'[f][k] = p
<1>1. Imports!Top \in Imports!Reached(unit) \cup {unit}
  BY TopIsReached DEF Imports!AtImport
<1>2. Imports!Import = uses[Imports!Top][Imports!Line]
      /\ Imports!Line \in 1 .. Len(uses[Imports!Top])
  BY LineTyped
<1>3. Imports!Reached(unit)' = Imports!Reached(unit)
  BY GraphKept
<1>4. \A p \in visited : \E f \in Imports!Reached(unit) \cup {unit} :
        \E k \in 1 .. Len(uses[f]) : uses[f][k] = p
  BY DEF ImportInv, EnteredAreReached
<1> QED
  BY <1>1, <1>2, <1>3, <1>4

LEMMA UnknownKeeps ==
  ASSUME ImportInv, Imports!Unknown
  PROVE  ImportInv'
<1> DEFINE p == Imports!Import
<1>1. /\ UNCHANGED <<path, uses, name, unit, open, visible, duplicates>>
      /\ Imports!AtImport /\ p \notin visited /\ Imports!Found(p) = {}
      /\ visited' = visited \cup {p} /\ unknown' = Append(unknown, p)
      /\ line' = Imports!Advance
  BY DEF Imports!Unknown, Imports!input
<1>2. open # <<>> /\ p \in Paths
  BY <1>1, LineTyped DEF Imports!AtImport
<1>3. unknown \in Seq(Paths)
  BY DEF ImportInv, WalkTypeOK, Imports!TypeOK
<1>4. /\ unknown' \in Seq(Paths) /\ Len(unknown') = Len(unknown) + 1
      /\ \A i \in 1 .. Len(unknown) : unknown'[i] = unknown[i]
      /\ unknown'[Len(unknown) + 1] = p
  BY <1>1, <1>2, <1>3, AppendIs
<1>5. WalkTypeOK'
  BY <1>1, <1>2, <1>4, TopIs, AdvanceIs, LineTyped DEF ImportInv, WalkTypeOK, Imports!TypeOK
<1>6. LinesAreMet'
  BY <1>1, LinesByAdvance
<1>7. Placed' = Placed
  BY <1>1 DEF Placed
<1>8. \A f : Entered(f)' = Entered(f)
  BY <1>1, <1>7 DEF Entered
<1>9. OpenIsPath' /\ EnteredOnce'
  BY <1>1, <1>7, GraphKept DEF ImportInv, OpenIsPath, EnteredOnce
<1>10. MetAreEntered'
  BY <1>1, <1>8, GraphKept DEF ImportInv, MetAreEntered
<1>11. EnteredAreReached'
  <2>1. \A f \in Files : Entered(f)' => f \in Imports!Reached(unit)'
    BY <1>1, <1>8, GraphKept DEF ImportInv, EnteredAreReached
  <2> QED
    BY <1>1, <2>1, PathsByImport DEF EnteredAreReached
<1>12. UsesAreFirst'
  BY <1>1, <1>7, GraphKept DEF ImportInv, UsesAreFirst
<1>13. UnknownOnce'
  <2>1. \A i \in 1 .. Len(unknown) : unknown[i] # p
    BY <1>1, <1>2 DEF ImportInv, UnknownOnce
  <2>2. Len(unknown) \in Nat
    BY <1>3
  <2>3. \A i \in 1 .. Len(unknown') : i \in 1 .. Len(unknown) \/ i = Len(unknown) + 1
    BY <1>4, <2>2
  <2>4. \A i, j \in 1 .. Len(unknown') : unknown'[i] = unknown'[j] => i = j
    BY <1>4, <2>1, <2>3 DEF ImportInv, UnknownOnce
  <2>5. Len(unknown) + 1 \in 1 .. Len(unknown')
        /\ \A i \in 1 .. Len(unknown) : i \in 1 .. Len(unknown')
    BY <1>4, <2>2
  <2>6. \A q : (\E i \in 1 .. Len(unknown') : unknown'[i] = q)
                  <=> q = p \/ \E i \in 1 .. Len(unknown) : unknown[i] = q
    BY <1>4, <2>3, <2>5
  <2>7. \A q \in Paths : (\E i \in 1 .. Len(unknown) : unknown[i] = q)
                            <=> q \in visited /\ Imports!Found(q) = {}
    BY DEF ImportInv, UnknownOnce
  <2>8. \A q \in Paths : (\E i \in 1 .. Len(unknown') : unknown'[i] = q)
                            <=> q \in visited' /\ Imports!Found(q) = {}
    BY <1>1, <2>6, <2>7
  <2> QED
    BY <1>1, <2>4, <2>8, GraphKept DEF UnknownOnce
<1>14. RepeatedAtEnd'
  BY <1>1, <1>2 DEF ImportInv, RepeatedAtEnd
<1> QED
  BY <1>5, <1>6, <1>9, <1>10, <1>11, <1>12, <1>13, <1>14 DEF ImportInv
LEMMA EnterKeeps ==
  ASSUME ImportInv, Imports!Enter
  PROVE  ImportInv'
<1> DEFINE p == Imports!Import
           n == Len(open)
<1>1. /\ UNCHANGED <<path, uses, name, unit, visible, unknown, duplicates>>
      /\ Imports!AtImport /\ p \notin visited /\ visited' = visited \cup {p}
      /\ line' = Append(Imports!Advance, 1)
  BY DEF Imports!Enter, Imports!input
<1>2. PICK f \in Imports!Found(p) : open' = Append(open, f)
  BY DEF Imports!Enter
<1>3. open # <<>> /\ n \in Nat \ {0} /\ p \in Paths /\ Len(line) = n
  BY <1>1, LineTyped, TopIs DEF Imports!AtImport
<1>4. f \in Files /\ path[f] = p /\ \A g \in Imports!Found(p) : g = f
  BY FoundIsOne
<1>5. Imports!TypeOK
  BY DEF ImportInv, WalkTypeOK
<1>6. /\ open' \in Seq(Files) /\ Len(open') = n + 1
      /\ \A i \in 1 .. n : open'[i] = open[i]
      /\ open'[n + 1] = f
  BY <1>2, <1>4, <1>5, AppendIs DEF Imports!TypeOK
<1>7. /\ line' \in Seq(Nat) /\ Len(line') = n + 1
      /\ \A i \in 1 .. n : line'[i] = Imports!Advance[i]
      /\ line'[n + 1] = 1
  <2>1. Imports!Advance \in Seq(Nat) /\ Len(Imports!Advance) = n
    BY <1>3, AdvanceIs
  <2> QED
    BY <1>1, <2>1, AppendIs
<1>8. n + 1 \in 2 .. n + 1 /\ open' # <<>> /\ n + 1 # 1
      /\ \A i \in 1 .. n + 1 : i \in 1 .. n \/ i = n + 1
  <2> HIDE DEF n
  <2> QED
    BY <1>3, <1>6
<1>9. Placed' = Placed
  BY <1>1, <1>3, <1>8 DEF Placed
<1>10. \A g : Entered(g)' <=> Entered(g) \/ g = f
  <2>1. \A g : (\E i \in 2 .. n + 1 : open'[i] = g)
                  <=> g = f \/ \E i \in 2 .. n : open[i] = g
    <3>1. \A i \in 2 .. n : i \in 1 .. n /\ i \in 2 .. n + 1
      BY <1>3
    <3>2. \A i \in 2 .. n + 1 : i \in 2 .. n \/ i = n + 1
      BY <1>3
    <3> HIDE DEF n
    <3> QED
      BY <1>6, <1>8, <3>1, <3>2
  <2> QED
    BY <1>6, <1>9, <2>1 DEF Entered
<1>11. ~Entered(f)
  BY <1>1, <1>4 DEF ImportInv, MetAreEntered, Imports!Found
<1>12. f \in Imports!Used(Imports!Top)
  BY <1>1, <1>3, <1>5, UsedIs, TopIs, LineTyped
<1>13. WalkTypeOK'
  <2>1. \A i \in 1 .. n : line'[i] \in 1 .. Len(uses[open'[i]]) + 1
    BY <1>1, <1>6, <1>7, LineTyped
  <2>2. line'[n + 1] \in 1 .. Len(uses[open'[n + 1]]) + 1
    <3>1. Len(uses[f]) \in Nat
      BY <1>4, <1>5 DEF Imports!TypeOK
    <3> QED
      BY <1>6, <1>7, <3>1
  <2>3. \A i \in 1 .. Len(open') : line'[i] \in 1 .. Len(uses'[open'[i]]) + 1
    BY <1>1, <1>6, <1>8, <2>1, <2>2
  <2>4. Imports!TypeOK'
    BY <1>1, <1>3, <1>5, <1>6, <1>7 DEF Imports!TypeOK
  <2> QED
    BY <1>8, <2>3, <2>4 DEF WalkTypeOK
<1>14. OpenIsPath'
  <2>1. \A j \in 1 .. n : f \in Imports!Reached(open[j])
    <3>1. f \in Imports!Reached(Imports!Top)
      BY <1>3, <1>5, <1>12, TopIs, UsedIsReached
    <3>2. ASSUME NEW j \in 1 .. n - 1
          PROVE  f \in Imports!Reached(open[j])
      <4>1. n \in 1 .. n /\ j \in 1 .. n
        BY <1>3
      <4>2. Imports!Top \in Imports!Reached(open[j])
        BY <1>3, <4>1, TopIs DEF ImportInv, OpenIsPath
      <4>3. open[j] \in Files
        BY <1>3, <4>1, TopIs
      <4> QED
        BY <1>5, <1>12, <4>2, <4>3, ReachedIsClosed
    <3>3. \A j \in 1 .. n : j \in 1 .. n - 1 \/ j = n
      BY <1>3
    <3> QED
      BY <1>3, <3>1, <3>2, <3>3, TopIs
  <2>2. \A i \in 1 .. n : \A j \in 1 .. i - 1 : j \in 1 .. n
    BY <1>3
  <2>3. \A j \in 1 .. n + 1 - 1 : j \in 1 .. n
    BY <1>3
  <2>4. \A i \in 1 .. n :
            /\ i = 1 => open[i] = unit
            /\ \A j \in 1 .. i - 1 : open[i] \in Imports!Reached(open[j])
    BY DEF ImportInv, OpenIsPath
  <2>5. \A i \in 1 .. n + 1 :
            /\ i = 1 => open'[i] = unit
            /\ \A j \in 1 .. i - 1 : open'[i] \in Imports!Reached(open'[j])
    <3> HIDE DEF n
    <3>1. ASSUME NEW i \in 1 .. n
          PROVE  /\ i = 1 => open'[i] = unit
                 /\ \A j \in 1 .. i - 1 : open'[i] \in Imports!Reached(open'[j])
      BY <1>6, <2>2, <2>4
    <3>2. \A j \in 1 .. n + 1 - 1 : open'[n + 1] \in Imports!Reached(open'[j])
      BY <1>6, <2>1, <2>3
    <3> SUFFICES ASSUME NEW i \in 1 .. n + 1
                 PROVE  /\ i = 1 => open'[i] = unit
                        /\ \A j \in 1 .. i - 1 : open'[i] \in Imports!Reached(open'[j])
      OBVIOUS
    <3>3. CASE i \in 1 .. n
      BY <3>1, <3>3
    <3>4. CASE i = n + 1
      <4>1. i # 1
        BY <1>8, <3>4
      <4>2. ASSUME NEW j \in 1 .. i - 1
            PROVE  open'[i] \in Imports!Reached(open'[j])
        <5>1. j \in 1 .. n + 1 - 1
          BY <1>3, <3>4
        <5>2. open'[n + 1] \in Imports!Reached(open'[j])
          BY <3>2, <5>1
        <5> QED
          BY <3>4, <5>2, Zenon
      <4> QED
        BY <4>1, <4>2
    <3> QED
      BY <1>8, <3>3, <3>4
  <2> QED
    BY <1>1, <1>6, <2>5, GraphKept DEF OpenIsPath
<1>15. LinesAreMet'
  <2>1. ASSUME NEW i \in 1 .. n, NEW k \in 1 .. Imports!Advance[i] - 1
        PROVE  uses[open[i]][k] \in visited'
    <3>1. CASE i = n /\ k = line[n]
      BY <1>1, <1>3, <3>1, LineTyped, TopIs
    <3>2. CASE k \in 1 .. line[i] - 1
      BY <1>1, <3>2 DEF ImportInv, LinesAreMet
    <3>3. line[i] \in Int
      BY <1>3, <1>5 DEF Imports!TypeOK
    <3>4. /\ \A j \in 1 .. n - 1 : Imports!Advance[j] = line[j]
          /\ Imports!Advance[n] = line[n] + 1
      BY <1>3, AdvanceIs
    <3>5. (i = n /\ k = line[n]) \/ k \in 1 .. line[i] - 1
      <4> HIDE DEF n
      <4> QED
        BY <1>3, <3>3, <3>4
    <3> QED
      BY <3>1, <3>2, <3>5
  <2>2. \A i \in 1 .. n + 1 : \A k \in 1 .. line'[i] - 1 : uses[open'[i]][k] \in visited'
    <3> HIDE DEF n
    <3>1. 1 .. line'[n + 1] - 1 = {}
      BY <1>7
    <3>2. \A i \in 1 .. n : \A k \in 1 .. line'[i] - 1 : uses[open'[i]][k] \in visited'
      BY <1>6, <1>7, <2>1
    <3> QED
      BY <1>8, <3>1, <3>2
  <2>3. \A i \in 1 .. Len(Placed) : \A k \in 1 .. Len(uses[Placed[i]]) :
          uses[Placed[i]][k] \in visited'
    BY <1>1 DEF ImportInv, LinesAreMet
  <2> QED
    BY <1>1, <1>6, <1>8, <1>9, <2>2, <2>3 DEF LinesAreMet
<1>16. MetAreEntered'
  <2>1. \A g \in Files : (\E q \in visited' : g \in Imports!Found(q))
                            <=> g = f \/ \E q \in visited : g \in Imports!Found(q)
    BY <1>1, <1>2, <1>4
  <2>2. \A g \in Files : Entered(g) <=> \E q \in visited : g \in Imports!Found(q)
    BY DEF ImportInv, MetAreEntered
  <2> QED
    BY <1>1, <1>10, <2>1, <2>2, GraphKept DEF MetAreEntered
<1>17. EnteredOnce'
  <2>1. /\ \A i \in 2 .. n : open[i] # f
        /\ \A i \in 1 .. Len(Placed) : Placed[i] # f
    BY <1>11 DEF Entered
  <2>2. /\ \A i, j \in 2 .. n : open[i] = open[j] => i = j
        /\ \A i, j \in 1 .. Len(Placed) : Placed[i] = Placed[j] => i = j
        /\ \A i \in 2 .. n : \A j \in 1 .. Len(Placed) : open[i] # Placed[j]
    BY DEF ImportInv, EnteredOnce
  <2>3. /\ \A i \in 2 .. n : open'[i] = open[i]
        /\ \A i \in 2 .. n + 1 : i \in 2 .. n \/ i = n + 1
    BY <1>3, <1>6
  <2>4. \A i, j \in 2 .. n + 1 : open'[i] = open'[j] => i = j
    <3> HIDE DEF n
    <3> QED
      BY <1>6, <2>1, <2>2, <2>3
  <2>5. \A i \in 2 .. n + 1 : \A j \in 1 .. Len(Placed) : open'[i] # Placed[j]
    <3> HIDE DEF n
    <3> QED
      BY <1>6, <2>1, <2>2, <2>3
  <2> QED
    BY <1>6, <1>9, <2>2, <2>4, <2>5 DEF EnteredOnce
<1>18. EnteredAreReached'
  <2>1. f \in Imports!Reached(unit)
    <3>1. unit \in Files
      BY <1>5 DEF Imports!TypeOK
    <3>2. Imports!Top \in Imports!Reached(unit) \cup {unit}
      BY <1>3, TopIsReached
    <3> QED
      BY <1>5, <1>12, <3>1, <3>2, UsedIsReached, ReachedIsClosed
  <2>2. \A g \in Files : Entered(g) => g \in Imports!Reached(unit)
    BY DEF ImportInv, EnteredAreReached
  <2>3. \A g \in Files : Entered(g)' => g \in Imports!Reached(unit)'
    BY <1>1, <1>10, <2>1, <2>2, GraphKept
  <2> QED
    BY <1>1, <2>3, PathsByImport DEF EnteredAreReached
<1>19. UsesAreFirst'
  BY <1>1, <1>9, GraphKept DEF ImportInv, UsesAreFirst
<1>20. UnknownOnce'
  <2>1. Imports!Found(p) # {}
    BY <1>2
  <2> QED
    BY <1>1, <2>1, GraphKept DEF ImportInv, UnknownOnce
<1>21. RepeatedAtEnd'
  BY <1>1, <1>3, <1>8 DEF ImportInv, RepeatedAtEnd
<1> QED
  BY <1>13, <1>14, <1>15, <1>16, <1>17, <1>18, <1>19, <1>20, <1>21 DEF ImportInv
LEMMA LeaveKeeps ==
  ASSUME ImportInv, Imports!Leave
  PROVE  ImportInv'
<1> DEFINE n == Len(open)
           f == Imports!Top
           m == Len(visible)
<1>1. /\ UNCHANGED <<path, uses, name, unit, visited, unknown, duplicates>>
      /\ open # <<>> /\ Imports!Line > Len(uses[f]) /\ n > 1
      /\ visible' = Append(visible, f)
      /\ open' = Imports!Front(open) /\ line' = Imports!Front(line)
  BY DEF Imports!Leave, Imports!AtEnd, Imports!input
<1>2. Imports!TypeOK
  BY DEF ImportInv, WalkTypeOK
<1>3. /\ n \in Nat \ {0} /\ Len(line) = n /\ f = open[n] /\ f \in Files
      /\ Imports!Line = line[n] /\ line[n] = Len(uses[f]) + 1
      /\ Len(uses[f]) \in Nat
      /\ Placed = visible
  <2>1. Len(uses[f]) \in Nat
    BY <1>1, TopIs
  <2> QED
    BY <1>1, <2>1, TopIs
<1>4. /\ open \in Seq(Files) /\ line \in Seq(Nat) /\ visible \in Seq(Files) /\ m \in Nat
  BY <1>2 DEF Imports!TypeOK
<1>5. /\ open' \in Seq(Files) /\ Len(open') = n - 1
      /\ \A i \in 1 .. n - 1 : open'[i] = open[i]
  BY <1>1, <1>3, <1>4, FrontIs
<1>6. /\ line' \in Seq(Nat) /\ Len(line') = n - 1
      /\ \A i \in 1 .. n - 1 : line'[i] = line[i]
  BY <1>1, <1>3, <1>4, FrontIs
<1>7. /\ visible' \in Seq(Files) /\ Len(visible') = m + 1
      /\ \A i \in 1 .. m : visible'[i] = visible[i]
      /\ visible'[m + 1] = f
  BY <1>1, <1>3, <1>4, AppendIs
<1>8. open' # <<>> /\ Placed' = visible'
  <2>1. Len(open') # 0
    BY <1>1, <1>3, <1>5
  <2>2. open' # <<>>
    BY <2>1
  <2> QED
    BY <2>2 DEF Placed
<1> HIDE DEF n, m
<1>9. /\ \A i \in 1 .. n - 1 : i \in 1 .. n
      /\ \A i \in 2 .. n - 1 : i \in 2 .. n /\ i \in 1 .. n - 1
      /\ \A i \in 2 .. n : i \in 2 .. n - 1 \/ i = n
      /\ n \in 2 .. n /\ n \in 1 .. n
      /\ ~ (n \in 2 .. n - 1)
  BY <1>1, <1>3
<1>10. /\ \A i \in 1 .. m + 1 : i \in 1 .. m \/ i = m + 1
       /\ \A i \in 1 .. m : i \in 1 .. m + 1
       /\ m + 1 \in 1 .. m + 1
       /\ ~ (m + 1 \in 1 .. m)
  BY <1>4
<1>11. \A g : Entered(g) <=> (\E i \in 2 .. n : open[i] = g) \/ \E i \in 1 .. m : visible[i] = g
  BY <1>3 DEF Entered, n, m
<1>12. \A g : Entered(g)' <=> Entered(g)
  <2>1. \A g : Entered(g)' <=> (\E i \in 2 .. n - 1 : open'[i] = g)
                                  \/ \E i \in 1 .. m + 1 : visible'[i] = g
    BY <1>5, <1>7, <1>8 DEF Entered
  <2>2. \A g : (\E i \in 2 .. n : open[i] = g)
                  <=> (\E i \in 2 .. n - 1 : open'[i] = g) \/ g = f
    BY <1>3, <1>5, <1>9
  <2>3. \A g : (\E i \in 1 .. m + 1 : visible'[i] = g)
                  <=> (\E i \in 1 .. m : visible[i] = g) \/ g = f
    BY <1>7, <1>10
  <2> QED
    BY <1>11, <2>1, <2>2, <2>3
<1>13. WalkTypeOK'
  <2>1. \A i \in 1 .. n : line[i] \in 1 .. Len(uses[open[i]]) + 1
    BY DEF ImportInv, WalkTypeOK, n
  <2>2. \A i \in 1 .. n - 1 : line'[i] \in 1 .. Len(uses'[open'[i]]) + 1
    BY <1>1, <1>5, <1>6, <1>9, <2>1
  <2>3. Imports!TypeOK'
    BY <1>1, <1>2, <1>5, <1>6, <1>7 DEF Imports!TypeOK
  <2> QED
    BY <1>5, <1>8, <2>2, <2>3 DEF WalkTypeOK
<1>14. OpenIsPath'
  <2>1. \A i \in 1 .. n :
            /\ i = 1 => open[i] = unit
            /\ \A j \in 1 .. i - 1 : open[i] \in Imports!Reached(open[j])
    BY DEF ImportInv, OpenIsPath, n
  <2>2. \A i \in 1 .. n - 1 : \A j \in 1 .. i - 1 : j \in 1 .. n - 1
    BY <1>3
  <2>3. \A i \in 1 .. n - 1 :
            /\ i = 1 => open'[i] = unit
            /\ \A j \in 1 .. i - 1 : open'[i] \in Imports!Reached(open'[j])
    BY <1>5, <1>9, <2>1, <2>2
  <2> QED
    BY <1>1, <1>5, <2>3, GraphKept DEF OpenIsPath
<1>15. \A k \in 1 .. Len(uses[f]) : uses[f][k] \in visited
  <2>1. \A k \in 1 .. Len(uses[f]) : k \in 1 .. line[n] - 1
    BY <1>3
  <2>2. \A k \in 1 .. line[n] - 1 : uses[open[n]][k] \in visited
    BY <1>9 DEF ImportInv, LinesAreMet, n
  <2> QED
    BY <1>3, <2>1, <2>2
<1>16. LinesAreMet'
  <2>1. \A i \in 1 .. n - 1 : \A k \in 1 .. line'[i] - 1 : uses[open'[i]][k] \in visited
    BY <1>5, <1>6, <1>9 DEF ImportInv, LinesAreMet, n
  <2>2. \A i \in 1 .. m : \A k \in 1 .. Len(uses[visible[i]]) :
          uses[visible[i]][k] \in visited
    BY <1>3 DEF ImportInv, LinesAreMet, m
  <2>3. \A i \in 1 .. m + 1 : \A k \in 1 .. Len(uses[visible'[i]]) :
          uses[visible'[i]][k] \in visited
    BY <1>7, <1>10, <1>15, <2>2
  <2> QED
    BY <1>1, <1>5, <1>7, <1>8, <2>1, <2>3 DEF LinesAreMet
<1>17. MetAreEntered' /\ EnteredAreReached'
  BY <1>1, <1>12, GraphKept DEF ImportInv, MetAreEntered, EnteredAreReached
<1>18. EnteredOnce'
  <2>1. /\ \A i, j \in 2 .. n : open[i] = open[j] => i = j
        /\ \A i, j \in 1 .. m : visible[i] = visible[j] => i = j
        /\ \A i \in 2 .. n : \A j \in 1 .. m : open[i] # visible[j]
    BY <1>3 DEF ImportInv, EnteredOnce, n, m
  <2>2. \A i, j \in 2 .. n - 1 : open'[i] = open'[j] => i = j
    BY <1>5, <1>9, <2>1
  <2>3. \A i, j \in 1 .. m + 1 : visible'[i] = visible'[j] => i = j
    BY <1>3, <1>7, <1>9, <1>10, <2>1
  <2>4. \A i \in 2 .. n - 1 : \A j \in 1 .. m + 1 : open'[i] # visible'[j]
    BY <1>3, <1>5, <1>7, <1>9, <1>10, <2>1
  <2> QED
    BY <1>5, <1>7, <1>8, <2>2, <2>3, <2>4 DEF EnteredOnce
<1>19. UsesAreFirst'
  <2>1. ASSUME NEW g \in Imports!Used(f)
        PROVE  f \in Imports!Reached(g) \/ \E j \in 1 .. m : visible[j] = g
    <3>1. g \in Files
      BY <1>2, <1>3, UsedIs
    <3>2. \E p \in visited : g \in Imports!Found(p)
      BY <1>2, <1>3, <1>15, UsedIs
    <3>3. Entered(g)
      BY <3>1, <3>2 DEF ImportInv, MetAreEntered
    <3>4. ASSUME NEW i \in 2 .. n, open[i] = g
          PROVE  f \in Imports!Reached(g)
      <4>1. CASE i = n
        BY <1>2, <1>3, <3>4, <4>1, UsedIsReached
      <4>2. CASE i < n
        <5>1. i \in 1 .. n - 1
          BY <1>3, <4>2
        <5> QED
          BY <1>3, <1>9, <3>4, <5>1 DEF ImportInv, OpenIsPath, n
      <4> QED
        BY <1>3, <4>1, <4>2
    <3> QED
      BY <1>11, <3>3, <3>4
  <2>2. \A i \in 1 .. m : \A g \in Imports!Used(visible[i]) :
            \/ visible[i] \in Imports!Reached(g)
            \/ \E j \in 1 .. i - 1 : visible[j] = g
    BY <1>3 DEF ImportInv, UsesAreFirst, m
  <2>3. ASSUME NEW i \in 1 .. m, NEW g \in Imports!Used(visible'[i])
        PROVE  \/ visible'[i] \in Imports!Reached(g)
               \/ \E j \in 1 .. i - 1 : visible'[j] = g
    <3>1. \A j \in 1 .. i - 1 : j \in 1 .. m
      BY <1>4
    <3> QED
      BY <1>7, <2>2, <2>3, <3>1
  <2>4. ASSUME NEW i, i = m + 1, NEW g \in Imports!Used(visible'[i])
        PROVE  \/ visible'[i] \in Imports!Reached(g)
               \/ \E j \in 1 .. i - 1 : visible'[j] = g
    <3>1. \A j \in 1 .. m : j \in 1 .. i - 1
      BY <1>4, <2>4
    <3>2. visible'[i] = f
      BY <1>7, <2>4
    <3> QED
      BY <1>7, <2>1, <2>4, <3>1, <3>2
  <2>5. \A i \in 1 .. m + 1 : \A g \in Imports!Used(visible'[i]) :
            \/ visible'[i] \in Imports!Reached(g)
            \/ \E j \in 1 .. i - 1 : visible'[j] = g
    BY <1>10, <2>3, <2>4
  <2> QED
    BY <1>1, <1>7, <1>8, <2>5, GraphKept DEF UsesAreFirst
<1>20. UnknownOnce'
  BY <1>1, GraphKept DEF ImportInv, UnknownOnce
<1>21. RepeatedAtEnd'
  BY <1>1, <1>8 DEF ImportInv, RepeatedAtEnd
<1> QED
  BY <1>13, <1>14, <1>16, <1>17, <1>18, <1>19, <1>20, <1>21 DEF ImportInv

LEMMA CheckKeeps ==
  ASSUME ImportInv, Imports!Check
  PROVE  ImportInv'
<1>1. /\ UNCHANGED <<path, uses, name, unit, visited, unknown>>
      /\ open # <<>> /\ Imports!Line > Len(uses[Imports!Top]) /\ Len(open) = 1
      /\ visible' = Append(visible, unit)
      /\ duplicates' = Imports!Repeated(visible')
      /\ open' = <<>> /\ line' = <<>>
  BY DEF Imports!Check, Imports!AtEnd, Imports!input
<1>2. Imports!TypeOK
  BY DEF ImportInv, WalkTypeOK
<1>3. unit \in Files /\ visible \in Seq(Files) /\ name \in [Files -> Declared]
  BY <1>2 DEF Imports!TypeOK
<1>4. /\ visible' \in Seq(Files) /\ Len(visible') = Len(visible) + 1
      /\ visible'[Len(visible) + 1] = unit
  BY <1>1, <1>3, AppendIs
<1>5. Placed' = visible /\ Placed = visible
  BY <1>1, <1>3, FrontOfAppend DEF Placed
<1>6. open[1] = unit /\ Imports!Top = unit /\ Imports!Line = line[1]
      /\ line[1] = Len(uses[unit]) + 1 /\ Len(uses[unit]) \in Nat
  <2>1. 1 \in 1 .. Len(open) /\ Imports!Top = open[1] /\ Imports!Line = line[1]
    BY <1>1, TopIs
  <2>2. open[1] = unit
    BY <2>1 DEF ImportInv, OpenIsPath
  <2>3. Len(uses[unit]) \in Nat
    BY <1>2, <1>3 DEF Imports!TypeOK
  <2> QED
    BY <1>1, <2>1, <2>2, <2>3, TopIs
<1>7. 2 .. Len(open) = {} /\ Len(open') = 0 /\ 2 .. 0 = {} /\ 1 .. 0 = {}
  BY <1>1
<1>8. \A g : Entered(g)' = Entered(g)
  BY <1>5, <1>7 DEF Entered
<1>9. WalkTypeOK'
  <2>1. duplicates' \subseteq Declared
    <3>1. \A i \in 1 .. Len(visible') : visible'[i] \in Files
      BY <1>4
    <3> QED
      BY <1>1, <1>3, <3>1 DEF Imports!Repeated
  <2>2. Imports!TypeOK'
    BY <1>1, <1>2, <1>4, <2>1 DEF Imports!TypeOK
  <2>3. visible' # <<>> /\ visible'[Len(visible')] = unit'
    BY <1>1, <1>3, <1>4
  <2> QED
    BY <1>7, <2>2, <2>3 DEF WalkTypeOK
<1>10. OpenIsPath'
  BY <1>7 DEF OpenIsPath
<1>11. LinesAreMet'
  <2>1. \A k \in 1 .. line[1] - 1 : uses[open[1]][k] \in visited
    BY <1>1 DEF ImportInv, LinesAreMet
  <2>2. \A k \in 1 .. Len(uses[unit]) : k \in 1 .. line[1] - 1
    BY <1>6
  <2>3. \A k \in 1 .. Len(uses[unit]) : uses[unit][k] \in visited
    BY <1>6, <2>1, <2>2
  <2> QED
    BY <1>1, <1>5, <1>7, <2>3 DEF ImportInv, LinesAreMet
<1>12. MetAreEntered' /\ EnteredAreReached'
  BY <1>1, <1>8, GraphKept DEF ImportInv, MetAreEntered, EnteredAreReached
<1>13. EnteredOnce'
  BY <1>5, <1>7 DEF ImportInv, EnteredOnce
<1>14. UsesAreFirst'
  BY <1>1, <1>5, GraphKept DEF ImportInv, UsesAreFirst
<1>15. UnknownOnce'
  BY <1>1, GraphKept DEF ImportInv, UnknownOnce
<1>16. RepeatedAtEnd'
  BY <1>1 DEF RepeatedAtEnd, Imports!Repeated
<1> QED
  BY <1>9, <1>10, <1>11, <1>12, <1>13, <1>14, <1>15, <1>16 DEF ImportInv
LEMMA UseLinesTyped == Imports!UseLines \subseteq Seq(Paths)
  BY DEF Imports!UseLines, Imports!SeqOf

LEMMA ImportsStart ==
  ASSUME PartsInit, part = "imports"
  PROVE  ImportInv
<1>1. Imports!Init
  BY DEF PartsInit
<1>2. /\ open = <<unit>> /\ line = <<1>> /\ visited = {} /\ visible = <<>>
      /\ unknown = <<>> /\ duplicates = {} /\ unit \in Files
      /\ path \in [Files -> Paths \cup {NoPath}]
      /\ uses \in [Files -> Seq(Paths)] /\ name \in [Files -> Declared]
  BY <1>1, UseLinesTyped DEF Imports!Init
<1>3. /\ Len(open) = 1 /\ open[1] = unit /\ Len(line) = 1 /\ line[1] = 1 /\ open # <<>>
      /\ open \in Seq(Files) /\ line \in Seq(Nat)
      /\ Len(uses[unit]) \in Nat
  BY <1>2
<1>4. Placed = <<>> /\ Len(Placed) = 0 /\ Len(unknown) = 0
  BY <1>2, <1>3 DEF Placed
<1>5. 2 .. 1 = {} /\ 1 .. 0 = {} /\ 1 .. 1 = {1} /\ 1 .. 1 - 1 = {}
  OBVIOUS
<1>6. \A f : ~Entered(f)
  BY <1>3, <1>4, <1>5 DEF Entered
<1>7. WalkTypeOK
  <2>1. Imports!TypeOK
    BY <1>2, <1>3 DEF Imports!TypeOK
  <2>2. 1 \in 1 .. Len(uses[unit]) + 1
    BY <1>3
  <2> QED
    BY <1>3, <1>5, <2>1, <2>2 DEF WalkTypeOK
<1>8. OpenIsPath
  BY <1>3, <1>5 DEF OpenIsPath
<1>9. LinesAreMet
  BY <1>3, <1>4, <1>5 DEF LinesAreMet
<1>10. MetAreEntered /\ EnteredAreReached
  BY <1>2, <1>6 DEF MetAreEntered, EnteredAreReached
<1>11. EnteredOnce /\ UsesAreFirst
  BY <1>3, <1>4, <1>5 DEF EnteredOnce, UsesAreFirst
<1>12. UnknownOnce
  BY <1>2, <1>4, <1>5 DEF UnknownOnce
<1>13. RepeatedAtEnd
  BY <1>2, <1>3 DEF RepeatedAtEnd
<1> QED
  BY <1>7, <1>8, <1>9, <1>10, <1>11, <1>12, <1>13 DEF ImportInv

LEMMA ImportsUnchanged ==
  ASSUME ImportInv, UNCHANGED importVars
  PROVE  ImportInv'
<1>1. /\ path' = path /\ uses' = uses /\ name' = name /\ unit' = unit /\ open' = open
      /\ line' = line /\ visited' = visited /\ visible' = visible
      /\ unknown' = unknown /\ duplicates' = duplicates
  BY DEF importVars
<1>2. Placed' = Placed
  BY <1>1 DEF Placed
<1>3. \A f : Entered(f)' = Entered(f)
  BY <1>1, <1>2 DEF Entered
<1>4. WalkTypeOK' /\ RepeatedAtEnd'
  BY <1>1 DEF ImportInv, WalkTypeOK, RepeatedAtEnd, Imports!TypeOK, Imports!Repeated
<1>5. OpenIsPath' /\ UsesAreFirst' /\ UnknownOnce'
  BY <1>1, <1>2, GraphKept DEF ImportInv, OpenIsPath, UsesAreFirst, UnknownOnce
<1>6. MetAreEntered' /\ EnteredAreReached'
  BY <1>1, <1>3, GraphKept DEF ImportInv, MetAreEntered, EnteredAreReached
<1>7. LinesAreMet' /\ EnteredOnce'
  BY <1>1, <1>2 DEF ImportInv, LinesAreMet, EnteredOnce
<1> QED
  BY <1>4, <1>5, <1>6, <1>7 DEF ImportInv

LEMMA ImportsKept ==
  ASSUME part = "imports" => ImportInv,
         [PartsNext]_<<part, vars, flowVars, importVars, dateVars, amountVars>>
  PROVE  (part = "imports" => ImportInv)'
<1> SUFFICES ASSUME part' = "imports"
             PROVE  ImportInv'
  OBVIOUS
<1>1. part = "imports"
  BY DEF PartsNext
<1>2. Imports!Next \/ UNCHANGED importVars
  BY <1>1 DEF PartsNext
<1> QED
  BY <1>1, <1>2, ImportsUnchanged, SeenKeeps, UnknownKeeps, EnterKeeps, LeaveKeeps,
     CheckKeeps DEF Imports!Next

\* In every program, of any number of files, the walk enters a file once, with
\* the first use of its path that is met, leaves it when all it uses was met,
\* and comes back to the file it began with.
THEOREM WalkIsInOrder == PartsSpec => [](part = "imports" => ImportInv)
<1>1. PartsInit => (part = "imports" => ImportInv)
  BY ImportsStart
<1> QED
  BY <1>1, ImportsKept, PTL DEF PartsSpec

-----------------------------------------------------------------------------
(* What the walk found.                                                    *)

LEMMA EndIs ==
  ASSUME ImportInv, open = <<>>
  PROVE  /\ Imports!TypeOK /\ unit \in Files
         /\ visible \in Seq(Files) /\ Len(visible) \in Nat \ {0}
         /\ visible[Len(visible)] = unit
         /\ Imports!Imported = Placed
         /\ Placed \in Seq(Files) /\ Len(Placed) = Len(visible) - 1
         /\ \A i \in 1 .. Len(Placed) : Placed[i] = visible[i] /\ Placed[i] \in Files
         /\ \A f : Entered(f) <=> \E i \in 1 .. Len(Placed) : Placed[i] = f
<1>1. Imports!TypeOK /\ unit \in Files /\ visible \in Seq(Files)
      /\ visible # <<>> /\ visible[Len(visible)] = unit
  BY DEF ImportInv, WalkTypeOK, Imports!TypeOK
<1>2. Len(visible) \in Nat \ {0} /\ Len(visible) >= 1
  BY <1>1
<1>3. Imports!Imported = Placed /\ Placed = Imports!Front(visible)
  BY DEF Placed, Imports!Imported
<1>4. /\ Placed \in Seq(Files) /\ Len(Placed) = Len(visible) - 1
      /\ \A i \in 1 .. Len(visible) - 1 : Placed[i] = visible[i]
  BY <1>1, <1>2, <1>3, FrontIs
<1>5. Len(open) = 0 /\ 2 .. 0 = {}
  OBVIOUS
<1>6. \A f : Entered(f) <=> \E i \in 1 .. Len(Placed) : Placed[i] = f
  BY <1>5 DEF Entered
<1> QED
  BY <1>1, <1>2, <1>3, <1>4, <1>6

LEMMA VisibleAreReached ==
  ASSUME ImportInv, open = <<>>
  PROVE  /\ Imports!IsInjective(Imports!Imported)
         /\ \A f : f \in Imports!Reached(unit) <=> \E i \in 1 .. Len(Placed) : Placed[i] = f
         /\ Imports!ToSet(Imports!Imported) = Imports!Reached(unit)
<1> DEFINE files == {f \in Files : Entered(f)}
<1>1. DOMAIN Placed = 1 .. Len(Placed)
  BY EndIs
<1>2. Imports!IsInjective(Imports!Imported)
  BY <1>1, EndIs DEF ImportInv, EnteredOnce, Imports!IsInjective
<1>3. ASSUME NEW h \in files \cup {unit}
      PROVE  Imports!Used(h) \subseteq files
  <2>1. h \in Files
    BY EndIs
  <2>2. \A k \in 1 .. Len(uses[h]) : uses[h][k] \in visited
    BY EndIs DEF ImportInv, LinesAreMet
  <2>3. \A g \in Imports!Used(h) : g \in Files /\ \E p \in visited : g \in Imports!Found(p)
    BY <2>1, <2>2, EndIs, UsedIs
  <2> QED
    BY <2>3 DEF ImportInv, MetAreEntered
<1>4. Imports!Reached(unit) \subseteq files
  BY <1>3, ReachedIsLeast
<1>5. files \subseteq Imports!Reached(unit)
  BY DEF ImportInv, EnteredAreReached
<1>6. \A f : f \in Imports!Reached(unit) <=> \E i \in 1 .. Len(Placed) : Placed[i] = f
  BY <1>4, <1>5, EndIs
<1>7. Imports!ToSet(Imports!Imported) = Imports!Reached(unit)
  BY <1>1, <1>6, EndIs DEF Imports!ToSet
<1> QED
  BY <1>2, <1>6, <1>7

LEMMA UsesBeforeUsers ==
  ASSUME ImportInv
  PROVE  Imports!UsesComeFirst
  BY EndIs DEF ImportInv, UsesAreFirst, Imports!UsesComeFirst, Imports!Done

LEMMA DuplicatesFound ==
  ASSUME ImportInv
  PROVE  Imports!DuplicatesAreReal
<1> SUFFICES ASSUME open = <<>>, NEW d \in duplicates
             PROVE  \/ \E f, g \in Imports!Reached(unit) \cup {unit} :
                          f # g /\ name[f] = d /\ name[g] = d
                    \/ d = name[unit] /\ unit \in Imports!Reached(unit)
  BY DEF Imports!DuplicatesAreReal, Imports!Done
<1>1. PICK i \in 1 .. Len(visible) :
        d = name[visible[i]] /\ \E k \in 1 .. i - 1 : name[visible[k]] = name[visible[i]]
  BY DEF ImportInv, RepeatedAtEnd, Imports!Repeated
<1>2. PICK k \in 1 .. i - 1 : name[visible[k]] = d
  BY <1>1
<1> DEFINE m == Len(visible)
<1>3. m \in Nat \ {0} /\ i \in 1 .. m
  BY EndIs
<1>4. k # i /\ k \in 1 .. m - 1 /\ (i = m \/ i \in 1 .. m - 1)
  <2> HIDE DEF m
  <2> QED
    BY <1>2, <1>3
<1>5. visible[k] \in Imports!Reached(unit)
  BY <1>4, EndIs, VisibleAreReached
<1>6. CASE i = m
  BY <1>1, <1>2, <1>5, <1>6, EndIs
<1>7. CASE i \in 1 .. m - 1
  <2>1. visible[i] \in Imports!Reached(unit)
    BY <1>7, EndIs, VisibleAreReached
  <2>2. visible[i] # visible[k]
    BY <1>4, <1>7, EndIs DEF ImportInv, EnteredOnce
  <2> QED
    BY <1>1, <1>2, <1>5, <2>1, <2>2
<1> QED
  BY <1>4, <1>6, <1>7

LEMMA UnknownFound ==
  ASSUME ImportInv
  PROVE  Imports!UnknownIsReported
<1> SUFFICES ASSUME open = <<>>
             PROVE  /\ Imports!IsInjective(unknown)
                    /\ Imports!ToSet(unknown)
                         = {p \in UNION {Imports!ToSet(uses[f]) :
                                            f \in Imports!Reached(unit) \cup {unit}} :
                               Imports!Found(p) = {}}
  BY DEF Imports!UnknownIsReported, Imports!Done
<1>1. unknown \in Seq(Paths) /\ DOMAIN unknown = 1 .. Len(unknown)
  BY EndIs DEF Imports!TypeOK
<1>2. Imports!IsInjective(unknown)
  BY <1>1 DEF ImportInv, UnknownOnce, Imports!IsInjective
<1>3. \A p : p \in Imports!ToSet(unknown) <=> p \in visited /\ Imports!Found(p) = {}
  <2>1. \A p : p \in Imports!ToSet(unknown) <=> \E i \in 1 .. Len(unknown) : unknown[i] = p
    BY <1>1 DEF Imports!ToSet
  <2>2. \A i \in 1 .. Len(unknown) : unknown[i] \in Paths
    BY <1>1
  <2>3. visited \subseteq Paths
    BY EndIs DEF Imports!TypeOK
  <2> QED
    BY <2>1, <2>2, <2>3 DEF ImportInv, UnknownOnce
<1>4. ASSUME NEW f \in Imports!Reached(unit) \cup {unit}
      PROVE  /\ \A k \in 1 .. Len(uses[f]) : uses[f][k] \in visited
             /\ \A p : p \in Imports!ToSet(uses[f]) <=> \E k \in 1 .. Len(uses[f]) : uses[f][k] = p
  <2>1. f \in Files
    BY EndIs DEF Imports!Reached
  <2>2. DOMAIN uses[f] = 1 .. Len(uses[f])
    BY <2>1, EndIs DEF Imports!TypeOK
  <2>3. f = unit \/ \E i \in 1 .. Len(Placed) : Placed[i] = f
    BY VisibleAreReached
  <2> QED
    BY <2>2, <2>3 DEF ImportInv, LinesAreMet, Imports!ToSet
<1>5. \A p : p \in visited
                <=> \E f \in Imports!Reached(unit) \cup {unit} : p \in Imports!ToSet(uses[f])
  <2>1. \A p \in visited : \E f \in Imports!Reached(unit) \cup {unit} :
          \E k \in 1 .. Len(uses[f]) : uses[f][k] = p
    BY DEF ImportInv, EnteredAreReached
  <2>2. ASSUME NEW p \in visited
        PROVE  \E f \in Imports!Reached(unit) \cup {unit} : p \in Imports!ToSet(uses[f])
    <3>1. PICK f \in Imports!Reached(unit) \cup {unit} :
            \E k \in 1 .. Len(uses[f]) : uses[f][k] = p
      BY <2>1
    <3> QED
      BY <1>4, <3>1
  <2>3. ASSUME NEW f \in Imports!Reached(unit) \cup {unit},
               NEW p \in Imports!ToSet(uses[f])
        PROVE  p \in visited
    BY <1>4
  <2> QED
    BY <2>2, <2>3
<1> QED
  BY <1>2, <1>3, <1>5

\* visible_module and collect_imports (program.rs): in every program, of any
\* number of files, what is visible is what the uses lead to, each file once
\* and after what it uses but for cycles; a name is a duplicate and a path is
\* unknown just when the files say so.
THEOREM ImportsAreInOrder == PartsSpec => []ImportsInOrder
<1>1. (part = "imports" => ImportInv) => ImportsInOrder
  <2> SUFFICES ASSUME ImportInv
               PROVE  Imports!ImportsInOrder
    BY DEF ImportsInOrder
  <2>1. Imports!VisibleIsReached
    BY VisibleAreReached DEF Imports!VisibleIsReached, Imports!Done
  <2> QED
    BY <2>1, UsesBeforeUsers, DuplicatesFound, UnknownFound DEF Imports!ImportsInOrder
<1> QED
  BY <1>1, WalkIsInOrder, PTL

-----------------------------------------------------------------------------
(* Dates: cycles of 400 years, which begin in March.                       *)

\* The day of a cycle that is the doy'th of its year yoe.
DayOfEra(yoe, doy) == 365 * yoe + yoe \div 4 - yoe \div 100 + doy

\* The days of a cycle are numbered.
InEra(doe) == doe \in Int /\ 0 <= doe /\ doe <= 146096

\* Only a year that ends with a leap day has 366 days.
InYear(yoe, doy) ==
    /\ yoe \in 0 .. 399
    /\ doy \in 0 .. 365
    /\ doy = 365 => Dates!IsLeapYear(yoe + 1)

\* By centuries, cycles of four years, and years.
LEMMA YearOfSum ==
  ASSUME NEW yoe, NEW doy, InYear(yoe, doy),
         NEW doe, doe = 365 * yoe + yoe \div 4 - yoe \div 100 + doy
  PROVE  InEra(doe) /\ Dates!YearOfEra(doe) = yoe
<1>1. yoe \in 0 .. 399 /\ doy \in 0 .. 365
  BY DEF InYear
<1>2. \E c \in 0 .. 3, q \in 0 .. 24, r \in 0 .. 3 : yoe = 100 * c + 4 * q + r
  <2>1. /\ yoe \div 100 \in 0 .. 3 /\ (yoe % 100) \div 4 \in 0 .. 24 /\ yoe % 4 \in 0 .. 3
        /\ yoe = 100 * (yoe \div 100) + 4 * ((yoe % 100) \div 4) + (yoe % 4)
    BY <1>1
  <2> QED
    BY <2>1
<1>3. PICK c \in 0 .. 3, q \in 0 .. 24, r \in 0 .. 3 : yoe = 100 * c + 4 * q + r
  BY <1>2
<1>4. doy = 365 => r = 3 /\ (q < 24 \/ c = 3)
  BY <1>1, <1>3 DEF InYear, Dates!IsLeapYear
<1>5. /\ doe = 36524 * c + 1461 * q + 365 * r + doy
      /\ (doe - doe \div 1460 + doe \div 36524 - doe \div 146096) \div 365 = yoe
  BY <1>1, <1>3, <1>4
<1>6. InEra(doe)
  <2>1. /\ doe = 36524 * c + 1461 * q + 365 * r + doy
        /\ c \in 0 .. 3 /\ q \in 0 .. 24 /\ r \in 0 .. 3 /\ doy \in 0 .. 365
    BY <1>1, <1>3, <1>5
  <2> QED
    BY ONLY <2>1 DEF InEra
<1>7. Dates!YearOfEra(doe) = yoe
  <2>1. (doe - doe \div 1460 + doe \div 36524 - doe \div 146096) \div 365 = yoe
    BY <1>5
  <2> QED
    BY ONLY <2>1 DEF Dates!YearOfEra
<1> QED
  BY ONLY <1>6, <1>7

LEMMA YearOfDay ==
  ASSUME NEW yoe, NEW doy, InYear(yoe, doy)
  PROVE  /\ InEra(DayOfEra(yoe, doy))
         /\ Dates!YearOfEra(DayOfEra(yoe, doy)) = yoe
<1>1. DayOfEra(yoe, doy) = 365 * yoe + yoe \div 4 - yoe \div 100 + doy
  BY DEF DayOfEra
<1> QED
  BY <1>1, YearOfSum

LEMMA DayHasYear ==
  ASSUME NEW doe, InEra(doe)
  PROVE  \E yoe, doy \in Int : InYear(yoe, doy) /\ doe = DayOfEra(yoe, doy)
<1> DEFINE c == IF doe \div 36524 > 3 THEN 3 ELSE doe \div 36524
           q == (doe - 36524 * c) \div 1461
           inCycle == doe - 36524 * c - 1461 * q
           r == IF inCycle \div 365 > 3 THEN 3 ELSE inCycle \div 365
           doy == inCycle - 365 * r
           yoe == 100 * c + 4 * q + r
<1>1. c \in 0 .. 3 /\ doe - 36524 * c \in Int
      /\ 0 <= doe - 36524 * c /\ doe - 36524 * c <= 36524 /\ (doe - 36524 * c = 36524 => c = 3)
  BY DEF InEra
<1> HIDE DEF c
<1>2. q \in 0 .. 24 /\ inCycle \in 0 .. 1460 /\ (inCycle = 1460 /\ q = 24 => c = 3)
  BY <1>1
<1>3. inCycle = doe - 36524 * c - 1461 * q
  OBVIOUS
<1> HIDE DEF q, inCycle
<1>4. r \in 0 .. 3 /\ doy \in 0 .. 365 /\ (doy = 365 => r = 3 /\ inCycle = 1460)
  BY <1>2
<1>5. inCycle = doy + 365 * r
  BY <1>2, <1>4
<1> HIDE DEF r, doy
<1>6. yoe = 100 * c + 4 * q + r
  OBVIOUS
<1> HIDE DEF yoe
<1>7. yoe \in 0 .. 399 /\ yoe \div 4 = 25 * c + q /\ yoe \div 100 = c
  BY <1>1, <1>2, <1>4, <1>6
<1>8. doe = 365 * yoe + yoe \div 4 - yoe \div 100 + doy
  <2>1. doe = 36524 * c + 1461 * q + 365 * r + doy
    BY <1>1, <1>2, <1>3, <1>4, <1>5 DEF InEra
  <2> QED
    BY <1>1, <1>2, <1>4, <1>6, <1>7, <2>1
<1>9. doy = 365 => Dates!IsLeapYear(yoe + 1)
  BY <1>1, <1>2, <1>4, <1>6 DEF Dates!IsLeapYear
<1>10. InYear(yoe, doy)
  BY <1>4, <1>7, <1>9 DEF InYear
<1>11. doe = DayOfEra(yoe, doy) /\ yoe \in Int /\ doy \in Int
  BY <1>4, <1>7, <1>8 DEF DayOfEra
<1> QED
  BY <1>10, <1>11

-----------------------------------------------------------------------------
(* The months of a year that begins in March, by number mp.                *)

MonthOf(mp) == IF mp < 10 THEN mp + 3 ELSE mp - 9
FirstOf(mp) == (153 * mp + 2) \div 5

\* Day d of month mp is in the year; leap says whether there is a 29 February.
InMonth(mp, d, leap) ==
    /\ mp \in 0 .. 11
    /\ d \in 1 .. 31
    /\ mp \in {1, 3, 6, 8} => d <= 30
    /\ mp = 11 => d <= IF leap THEN 29 ELSE 28

LEMMA MonthOfDay ==
  ASSUME NEW mp, NEW d, NEW leap \in BOOLEAN, InMonth(mp, d, leap)
  PROVE  /\ FirstOf(mp) + d - 1 \in 0 .. 365
         /\ FirstOf(mp) + d - 1 = 365 => leap
         /\ (5 * (FirstOf(mp) + d - 1) + 2) \div 153 = mp
  BY DEF InMonth, FirstOf

LEMMA DayHasMonth ==
  ASSUME NEW doy \in 0 .. 365, NEW leap \in BOOLEAN, doy = 365 => leap
  PROVE  LET mp == (5 * doy + 2) \div 153 IN InMonth(mp, doy - FirstOf(mp) + 1, leap)
  BY DEF InMonth, FirstOf

\* The table of month lengths says the same.
LEMMA TableIs ==
  ASSUME NEW y \in Int, NEW mp \in 0 .. 11, NEW d \in Int
  PROVE  d \in 1 .. Dates!DaysInMonth(y, MonthOf(mp))
            <=> InMonth(mp, d, Dates!IsLeapYear(y))
  BY DEF InMonth, MonthOf, Dates!DaysInMonth

-----------------------------------------------------------------------------
(* A date and a day by the cycle, the year of it, the month and the day.   *)

Place(era, yoe, mp, d) ==
    era \in Int /\ yoe \in 0 .. 399 /\ InMonth(mp, d, Dates!IsLeapYear(yoe + 1))
YearAt(era, yoe, mp) == yoe + era * 400 + IF mp < 10 THEN 0 ELSE 1
DayAt(era, yoe, mp, d) == era * 146097 + DayOfEra(yoe, FirstOf(mp) + d - 1) - 719468

LEMMA PlaceInYear ==
  ASSUME NEW era, NEW yoe, NEW mp, NEW d, Place(era, yoe, mp, d)
  PROVE  /\ InYear(yoe, FirstOf(mp) + d - 1)
         /\ (5 * (FirstOf(mp) + d - 1) + 2) \div 153 = mp
         /\ FirstOf(mp) + d - 1 \in Int /\ FirstOf(mp) \in Int
         /\ mp \in 0 .. 11 /\ d \in 1 .. 31
<1>1. Dates!IsLeapYear(yoe + 1) \in BOOLEAN
  BY DEF Dates!IsLeapYear
<1>2. InMonth(mp, d, Dates!IsLeapYear(yoe + 1)) /\ yoe \in 0 .. 399
  BY DEF Place
<1>3. mp \in 0 .. 11 /\ d \in 1 .. 31
  BY <1>2 DEF InMonth
<1>4. FirstOf(mp) \in Int
  BY <1>3 DEF FirstOf
<1> QED
  BY <1>1, <1>2, <1>3, <1>4, MonthOfDay DEF InYear

\* The date that the code makes of a cycle, a year of it, a day of that year
\* and a month.
CivilOf(era, yoe, doy, mp) ==
    LET month == mp + IF mp < 10 THEN 3 ELSE -9 IN
    Dates!Date(yoe + era * 400 + (IF month <= 2 THEN 1 ELSE 0), month,
               doy - (153 * mp + 2) \div 5 + 1)

CivilInYear(era, yoe, doy) == CivilOf(era, yoe, doy, (5 * doy + 2) \div 153)
CivilInEra(era, doe) ==
    LET yoe == Dates!YearOfEra(doe) IN
    CivilInYear(era, yoe, doe - (365 * yoe + yoe \div 4 - yoe \div 100))

LEMMA CivilOfDay ==
  ASSUME NEW era, NEW yoe, NEW mp, NEW d, Place(era, yoe, mp, d)
  PROVE  Dates!CivilFromDays(DayAt(era, yoe, mp, d))
            = Dates!Date(YearAt(era, yoe, mp), MonthOf(mp), d)
<1> DEFINE doy == FirstOf(mp) + d - 1
           doe == DayOfEra(yoe, doy)
           n == DayAt(era, yoe, mp, d)
<1>1. /\ InYear(yoe, doy)
      /\ (5 * doy + 2) \div 153 = mp
      /\ doy \in Int /\ FirstOf(mp) \in Int
      /\ mp \in 0 .. 11 /\ d \in 1 .. 31
  BY PlaceInYear
<1>2. InEra(doe) /\ Dates!YearOfEra(doe) = yoe
  BY <1>1, YearOfDay
<1>3. doe = 365 * yoe + yoe \div 4 - yoe \div 100 + doy
  BY DEF DayOfEra
<1>4. n = era * 146097 + doe - 719468 /\ d = doy - FirstOf(mp) + 1
  BY <1>1 DEF DayAt
<1> HIDE DEF doe, n, doy
<1>5. doe \in Int /\ era \in Int /\ yoe \in 0 .. 399 /\ n \in Int
  BY <1>1, <1>2, <1>4 DEF InEra, Place
<1>6. (n + 719468) \div 146097 = era
  BY <1>2, <1>4, <1>5 DEF InEra
<1>7. n + 719468 - era * 146097 = doe
  BY <1>4, <1>5
<1>8. doe - (365 * yoe + yoe \div 4 - yoe \div 100) = doy
  BY <1>1, <1>3, <1>5
<1>9. Dates!CivilFromDays(n) = CivilOf(era, yoe, doy, mp)
  <2>1. Dates!CivilFromDays(n) = CivilInEra(era, doe)
    <3>1. LET shifted == n + 719468
              ofShifted == shifted \div 146097 IN
          Dates!CivilFromDays(n) = CivilInEra(ofShifted, shifted - ofShifted * 146097)
      BY DEF Dates!CivilFromDays, CivilInEra, CivilInYear, CivilOf
    <3> QED
      BY <1>5, <1>6, <1>7, <3>1
  <2>2. CivilInEra(era, doe) = CivilInYear(era, yoe, doy)
    BY <1>2, <1>8 DEF CivilInEra
  <2>3. CivilInYear(era, yoe, doy) = CivilOf(era, yoe, doy, mp)
    BY <1>1 DEF CivilInYear
  <2> QED
    BY <2>1, <2>2, <2>3
<1>10. mp + (IF mp < 10 THEN 3 ELSE -9) = MonthOf(mp)
  BY <1>1 DEF MonthOf
<1>11. (IF MonthOf(mp) <= 2 THEN 1 ELSE 0) = IF mp < 10 THEN 0 ELSE 1
  BY <1>1 DEF MonthOf
<1>12. doy - (153 * mp + 2) \div 5 + 1 = d
  BY <1>1, <1>4 DEF FirstOf
<1>13. Dates!CivilFromDays(n) = Dates!Date(YearAt(era, yoe, mp), MonthOf(mp), d)
  BY <1>9, <1>10, <1>11, <1>12 DEF YearAt, CivilOf
<1> QED
  BY <1>13 DEF n

LEMMA DayOfCivil ==
  ASSUME NEW era, NEW yoe, NEW mp, NEW d, Place(era, yoe, mp, d)
  PROVE  /\ Dates!DaysFromCivil(YearAt(era, yoe, mp), MonthOf(mp), d) = DayAt(era, yoe, mp, d)
         /\ d \in 1 .. Dates!DaysInMonth(YearAt(era, yoe, mp), MonthOf(mp))
<1>1. mp \in 0 .. 11 /\ d \in 1 .. 31 /\ FirstOf(mp) \in Int
  BY PlaceInYear
<1>2. era \in Int /\ yoe \in 0 .. 399 /\ InMonth(mp, d, Dates!IsLeapYear(yoe + 1))
  BY DEF Place
<1> DEFINE y == YearAt(era, yoe, mp)
           m == MonthOf(mp)
<1>3. /\ y = yoe + era * 400 + (IF mp < 10 THEN 0 ELSE 1)
      /\ m = IF mp < 10 THEN mp + 3 ELSE mp - 9
  BY DEF YearAt, MonthOf
<1> HIDE DEF y, m
<1>4. y \in Int /\ m \in 1 .. 12
  BY <1>1, <1>2, <1>3
<1>5. y - (IF m <= 2 THEN 1 ELSE 0) = yoe + era * 400
  BY <1>1, <1>2, <1>3
<1>6. (yoe + era * 400) \div 400 = era /\ yoe + era * 400 - era * 400 = yoe
  BY <1>2
<1>7. (153 * (m + IF m > 2 THEN -3 ELSE 9) + 2) \div 5 = FirstOf(mp)
  BY <1>1, <1>3 DEF FirstOf
<1>8. Dates!DaysFromCivil(y, m, d)
        = era * 146097 + (yoe * 365 + yoe \div 4 - yoe \div 100 + (FirstOf(mp) + d - 1)) - 719468
  BY <1>1, <1>2, <1>4, <1>5, <1>6, <1>7 DEF Dates!DaysFromCivil
<1>9. Dates!DaysFromCivil(y, m, d) = DayAt(era, yoe, mp, d)
  BY <1>2, <1>8 DEF DayAt, DayOfEra
<1>10. mp >= 10 => (Dates!IsLeapYear(y) <=> Dates!IsLeapYear(yoe + 1))
  BY <1>1, <1>2, <1>3 DEF Dates!IsLeapYear
<1>11. InMonth(mp, d, Dates!IsLeapYear(y))
  BY <1>1, <1>2, <1>10 DEF InMonth
<1>12. d \in 1 .. Dates!DaysInMonth(y, MonthOf(mp))
  BY <1>1, <1>4, <1>11, TableIs
<1> QED
  BY <1>9, <1>12 DEF y, m

LEMMA DateHasPlace ==
  ASSUME NEW y \in Int, NEW m \in 1 .. 12, NEW d \in 1 .. Dates!DaysInMonth(y, m)
  PROVE  \E era, yoe, mp \in Int :
            Place(era, yoe, mp, d) /\ YearAt(era, yoe, mp) = y /\ MonthOf(mp) = m
<1> DEFINE mp == m + IF m > 2 THEN -3 ELSE 9
           year == y - (IF m <= 2 THEN 1 ELSE 0)
           era == year \div 400
           yoe == year - era * 400
<1>1. mp \in 0 .. 11 /\ MonthOf(mp) = m /\ (mp < 10 <=> m > 2)
  BY DEF MonthOf
<1>2. year \in Int /\ y = year + IF mp < 10 THEN 0 ELSE 1
  BY <1>1
<1>3. d \in Int
  BY DEF Dates!DaysInMonth
<1>4. InMonth(mp, d, Dates!IsLeapYear(y))
  BY <1>1, <1>3, TableIs
<1> HIDE DEF mp, year
<1>5. era \in Int /\ yoe \in 0 .. 399 /\ year = yoe + era * 400
  BY <1>2
<1> HIDE DEF era, yoe
<1>6. YearAt(era, yoe, mp) = y
  BY <1>2, <1>5 DEF YearAt
<1>7. mp >= 10 => (Dates!IsLeapYear(y) <=> Dates!IsLeapYear(yoe + 1))
  BY <1>1, <1>2, <1>5 DEF Dates!IsLeapYear
<1>8. InMonth(mp, d, Dates!IsLeapYear(yoe + 1))
  BY <1>1, <1>4, <1>7 DEF InMonth
<1> QED
  BY <1>1, <1>5, <1>6, <1>8 DEF Place

LEMMA DayHasPlace ==
  ASSUME NEW n \in Int
  PROVE  \E era, yoe, mp, d \in Int : Place(era, yoe, mp, d) /\ DayAt(era, yoe, mp, d) = n
<1> DEFINE era == (n + 719468) \div 146097
           doe == n + 719468 - era * 146097
<1>1. era \in Int /\ InEra(doe) /\ n = era * 146097 + doe - 719468
  BY DEF InEra
<1> HIDE DEF era, doe
<1>2. PICK yoe \in Int, doy \in Int : InYear(yoe, doy) /\ doe = DayOfEra(yoe, doy)
  BY <1>1, DayHasYear
<1>3. yoe \in 0 .. 399 /\ doy \in 0 .. 365 /\ (doy = 365 => Dates!IsLeapYear(yoe + 1))
  BY <1>2 DEF InYear
<1> DEFINE mp == (5 * doy + 2) \div 153
           d == doy - FirstOf(mp) + 1
<1>4. Dates!IsLeapYear(yoe + 1) \in BOOLEAN
  BY DEF Dates!IsLeapYear
<1>5. InMonth(mp, d, Dates!IsLeapYear(yoe + 1))
  BY <1>3, <1>4, DayHasMonth
<1>6. mp \in Int /\ FirstOf(mp) \in Int
  BY <1>3 DEF FirstOf
<1>7. d = doy - FirstOf(mp) + 1
  OBVIOUS
<1> HIDE DEF mp, d
<1>8. d \in Int /\ FirstOf(mp) + d - 1 = doy
  BY <1>3, <1>6, <1>7
<1>9. Place(era, yoe, mp, d)
  BY <1>1, <1>3, <1>5 DEF Place
<1>10. DayAt(era, yoe, mp, d) = n
  BY <1>1, <1>2, <1>8 DEF DayAt
<1> QED
  BY <1>1, <1>2, <1>6, <1>8, <1>9, <1>10

-----------------------------------------------------------------------------
(* The formulas are each other's inverse.                                  *)

IsDate(d) == d = Dates!Date(d.year, d.month, d.day) /\ d.year \in Int /\ Dates!Accepted(d)
DayOf(d) == Dates!DaysFromCivil(d.year, d.month, d.day)

LEMMA DateIsDate ==
  ASSUME NEW y \in Int, NEW m \in 1 .. 12, NEW d \in 1 .. Dates!DaysInMonth(y, m)
  PROVE  /\ IsDate(Dates!Date(y, m, d))
         /\ DayOf(Dates!Date(y, m, d)) = Dates!DaysFromCivil(y, m, d)
  BY DEF IsDate, DayOf, Dates!Date, Dates!Accepted

LEMMA CivilIsBack ==
  ASSUME NEW d, IsDate(d)
  PROVE  DayOf(d) \in Int /\ Dates!CivilFromDays(DayOf(d)) = d
<1> DEFINE y == d.year
           m == d.month
           dd == d.day
<1>1. d = Dates!Date(y, m, dd) /\ y \in Int /\ m \in 1 .. 12 /\ dd \in 1 .. Dates!DaysInMonth(y, m)
  BY DEF IsDate, Dates!Accepted
<1>2. DayOf(d) = Dates!DaysFromCivil(y, m, dd)
  BY DEF DayOf
<1> HIDE DEF y, m, dd
<1>3. PICK era \in Int, yoe \in Int, mp \in Int :
         Place(era, yoe, mp, dd) /\ YearAt(era, yoe, mp) = y /\ MonthOf(mp) = m
  BY <1>1, DateHasPlace
<1>4. Dates!DaysFromCivil(y, m, dd) = DayAt(era, yoe, mp, dd)
  BY <1>3, DayOfCivil
<1>5. Dates!CivilFromDays(DayAt(era, yoe, mp, dd)) = d
  BY <1>1, <1>3, CivilOfDay
<1>6. DayAt(era, yoe, mp, dd) \in Int
  <2>1. InYear(yoe, FirstOf(mp) + dd - 1)
    BY <1>3, PlaceInYear
  <2>2. DayOfEra(yoe, FirstOf(mp) + dd - 1) \in Int
    BY <2>1, YearOfDay DEF InEra
  <2> QED
    BY <1>3, <2>2 DEF DayAt
<1> QED
  BY <1>2, <1>4, <1>5, <1>6

LEMMA DaysAreBack ==
  ASSUME NEW n \in Int
  PROVE  IsDate(Dates!CivilFromDays(n)) /\ DayOf(Dates!CivilFromDays(n)) = n
<1>1. PICK era \in Int, yoe \in Int, mp \in Int, d \in Int :
         Place(era, yoe, mp, d) /\ DayAt(era, yoe, mp, d) = n
  BY DayHasPlace
<1> DEFINE y == YearAt(era, yoe, mp)
           m == MonthOf(mp)
<1>2. Dates!CivilFromDays(n) = Dates!Date(y, m, d)
  BY <1>1, CivilOfDay
<1>3. Dates!DaysFromCivil(y, m, d) = n /\ d \in 1 .. Dates!DaysInMonth(y, m)
  BY <1>1, DayOfCivil
<1>4. y \in Int
  BY <1>1 DEF YearAt, Place
<1>5. m \in 1 .. 12
  BY <1>1, PlaceInYear DEF MonthOf
<1> HIDE DEF y, m
<1> QED
  BY <1>2, <1>3, <1>4, <1>5, DateIsDate

-----------------------------------------------------------------------------
(* The table of month lengths counts the same days.                        *)

\* The day before 1 March of a year.
MarchFirst(year) == (year \div 400) * 146097 + DayOfEra(year - (year \div 400) * 400, 0)

\* The year that begins in March before month mp of year y.
MarchYear(y, mp) == IF mp < 10 THEN y ELSE y - 1

LEMMA MarchAYearLater ==
  ASSUME NEW year \in Int
  PROVE  /\ MarchFirst(year) \in Int
         /\ MarchFirst(year + 1)
               = MarchFirst(year) + 365 + IF Dates!IsLeapYear(year + 1) THEN 1 ELSE 0
<1>1. PICK era \in Int, yoe \in 0 .. 399 : year = era * 400 + yoe
  <2>1. year \div 400 \in Int /\ year % 400 \in 0 .. 399 /\ year = (year \div 400) * 400 + (year % 400)
    OBVIOUS
  <2> QED
    BY <2>1
<1>2. year \div 400 = era /\ year - era * 400 = yoe
  BY <1>1
<1>3. MarchFirst(year) = era * 146097 + (365 * yoe + yoe \div 4 - yoe \div 100)
  BY <1>1, <1>2 DEF MarchFirst, DayOfEra
<1>4. CASE yoe < 399
  <2>1. (year + 1) \div 400 = era /\ (year + 1) - era * 400 = yoe + 1
    BY <1>1, <1>4
  <2>2. MarchFirst(year + 1)
          = era * 146097 + (365 * (yoe + 1) + (yoe + 1) \div 4 - (yoe + 1) \div 100)
    BY <1>1, <2>1 DEF MarchFirst, DayOfEra
  <2>3. Dates!IsLeapYear(year + 1) <=> (yoe + 1) % 4 = 0 /\ (yoe + 1) % 100 # 0
    BY <1>1, <1>4 DEF Dates!IsLeapYear
  <2>4. (yoe + 1) \div 4 = yoe \div 4 + IF (yoe + 1) % 4 = 0 THEN 1 ELSE 0
    BY <1>1
  <2>5. (yoe + 1) \div 100 = yoe \div 100 + IF (yoe + 1) % 100 = 0 THEN 1 ELSE 0
    BY <1>1
  <2>6. (yoe + 1) % 100 = 0 => (yoe + 1) % 4 = 0
    BY <1>1
  <2> QED
    BY <1>1, <1>3, <2>2, <2>3, <2>4, <2>5, <2>6
<1>5. CASE yoe = 399
  <2>1. (year + 1) \div 400 = era + 1 /\ (year + 1) - (era + 1) * 400 = 0
    BY <1>1, <1>5
  <2>2. MarchFirst(year + 1) = (era + 1) * 146097
    BY <1>1, <2>1 DEF MarchFirst, DayOfEra
  <2>3. Dates!IsLeapYear(year + 1)
    BY <1>1, <1>5 DEF Dates!IsLeapYear
  <2>4. MarchFirst(year) = era * 146097 + (365 * 399 + 99 - 3)
    BY <1>1, <1>3, <1>5
  <2> QED
    BY <1>1, <2>2, <2>3, <2>4
<1> QED
  BY <1>1, <1>4, <1>5

LEMMA CivilFromMarch ==
  ASSUME NEW y \in Int, NEW mp \in 0 .. 11, NEW d \in Int
  PROVE  Dates!DaysFromCivil(y, MonthOf(mp), d)
            = MarchFirst(MarchYear(y, mp)) + FirstOf(mp) + d - 719469
<1> DEFINE m == MonthOf(mp)
           year == MarchYear(y, mp)
<1>1. m \in 1 .. 12 /\ year \in Int /\ FirstOf(mp) \in Int
  BY DEF MonthOf, FirstOf, MarchYear
<1>2. y - (IF m <= 2 THEN 1 ELSE 0) = year
  BY DEF MonthOf, MarchYear
<1>3. (153 * (m + IF m > 2 THEN -3 ELSE 9) + 2) \div 5 = FirstOf(mp)
  BY DEF MonthOf, FirstOf
<1> HIDE DEF m, year
<1> DEFINE era == year \div 400
           yoe == year - era * 400
<1>4. Dates!DaysFromCivil(y, m, d)
        = era * 146097 + (yoe * 365 + yoe \div 4 - yoe \div 100 + (FirstOf(mp) + d - 1)) - 719468
  BY <1>1, <1>2, <1>3 DEF Dates!DaysFromCivil
<1>5. MarchFirst(year) = era * 146097 + (365 * yoe + yoe \div 4 - yoe \div 100 + 0)
  BY DEF MarchFirst, DayOfEra
<1>6. era \in Int /\ yoe \in 0 .. 399
  BY <1>1
<1> HIDE DEF era, yoe
<1>7. Dates!DaysFromCivil(y, m, d) = MarchFirst(year) + FirstOf(mp) + d - 719469
  BY <1>1, <1>4, <1>5, <1>6
<1> QED
  BY <1>7 DEF m, year

LEMMA YearIsCounted ==
  ASSUME NEW y \in Int
  PROVE  /\ Dates!DaysFromCivil(y, 1, 1) \in Int
         /\ Dates!DaysFromCivil(y + 1, 1, 1)
               = Dates!DaysFromCivil(y, 1, 1) + 365 + IF Dates!IsLeapYear(y) THEN 1 ELSE 0
<1>1. /\ MonthOf(10) = 1 /\ FirstOf(10) = 306
      /\ MarchYear(y, 10) = y - 1 /\ MarchYear(y + 1, 10) = (y + 1) - 1
  BY DEF MonthOf, FirstOf, MarchYear
<1>2. /\ Dates!DaysFromCivil(y, 1, 1) = MarchFirst(y - 1) + 306 + 1 - 719469
      /\ Dates!DaysFromCivil(y + 1, 1, 1) = MarchFirst((y + 1) - 1) + 306 + 1 - 719469
  BY <1>1, CivilFromMarch
<1>3. /\ MarchFirst(y - 1) \in Int
      /\ MarchFirst((y - 1) + 1)
           = MarchFirst(y - 1) + 365 + IF Dates!IsLeapYear((y - 1) + 1) THEN 1 ELSE 0
  BY MarchAYearLater
<1>4. (y - 1) + 1 = y /\ (y + 1) - 1 = y
  OBVIOUS
<1> QED
  BY <1>2, <1>3, <1>4

LEMMA NextIsCounted ==
  ASSUME NEW y \in Int, NEW m \in 1 .. 12, NEW d \in 1 .. Dates!DaysInMonth(y, m)
  PROVE  /\ d < Dates!DaysInMonth(y, m) =>
               Dates!DaysFromCivil(y, m, d + 1) = Dates!DaysFromCivil(y, m, d) + 1
         /\ m < 12 /\ d = Dates!DaysInMonth(y, m) =>
               Dates!DaysFromCivil(y, m + 1, 1) = Dates!DaysFromCivil(y, m, d) + 1
<1>1. PICK mp \in 0 .. 11 : mp = (m + IF m > 2 THEN -3 ELSE 9) /\ MonthOf(mp) = m
  BY DEF MonthOf
<1>2. d \in Int
  BY DEF Dates!DaysInMonth
<1>3. \A year \in Int : MarchFirst(year) \in Int
  BY MarchAYearLater
<1>4. ASSUME NEW x_ \in Int
      PROVE  Dates!DaysFromCivil(y, m, x_)
               = MarchFirst(MarchYear(y, mp)) + FirstOf(mp) + x_ - 719469
  BY <1>1, CivilFromMarch
<1>5. d < Dates!DaysInMonth(y, m) =>
        Dates!DaysFromCivil(y, m, d + 1) = Dates!DaysFromCivil(y, m, d) + 1
  <2>1. FirstOf(mp) \in Int /\ MarchFirst(MarchYear(y, mp)) \in Int
    BY <1>1, <1>3 DEF FirstOf, MarchYear
  <2> QED
    BY <1>2, <1>4, <2>1
<1>6. ASSUME m < 12, d = Dates!DaysInMonth(y, m)
      PROVE  Dates!DaysFromCivil(y, m + 1, 1) = Dates!DaysFromCivil(y, m, d) + 1
  <2>1. CASE m = 2
    <3>1. /\ mp = 11 /\ FirstOf(11) = 337 /\ FirstOf(0) = 0 /\ MonthOf(0) = 3
          /\ MarchYear(y, 11) = y - 1 /\ MarchYear(y, 0) = y
          /\ d = 28 + IF Dates!IsLeapYear(y) THEN 1 ELSE 0
      BY <1>1, <1>6, <2>1 DEF Dates!DaysInMonth, FirstOf, MonthOf, MarchYear
    <3>2. Dates!DaysFromCivil(y, 3, 1) = MarchFirst(y) + 0 + 1 - 719469
      BY <3>1, CivilFromMarch
    <3>3. Dates!DaysFromCivil(y, 2, d) = MarchFirst(y - 1) + 337 + d - 719469
      BY <1>2, <1>4, <2>1, <3>1
    <3>4. MarchFirst((y - 1) + 1) = MarchFirst(y - 1) + 365 + IF Dates!IsLeapYear((y - 1) + 1) THEN 1 ELSE 0
      BY MarchAYearLater
    <3>5. (y - 1) + 1 = y /\ MarchFirst(y - 1) \in Int /\ MarchFirst(y) \in Int
      BY <1>3
    <3> QED
      BY <1>2, <2>1, <3>1, <3>2, <3>3, <3>4, <3>5
  <2>2. CASE m # 2
    <3>1. /\ mp + 1 \in 0 .. 11 /\ MonthOf(mp + 1) = m + 1 /\ MarchYear(y, mp + 1) = MarchYear(y, mp)
          /\ FirstOf(mp + 1) = FirstOf(mp) + d /\ FirstOf(mp) \in Int
      BY <1>1, <1>6, <2>2 DEF Dates!DaysInMonth, FirstOf, MonthOf, MarchYear
    <3>2. Dates!DaysFromCivil(y, MonthOf(mp + 1), 1)
            = MarchFirst(MarchYear(y, mp + 1)) + FirstOf(mp + 1) + 1 - 719469
      BY <3>1, CivilFromMarch
    <3>3. MarchFirst(MarchYear(y, mp)) \in Int
      BY <1>3 DEF MarchYear
    <3> QED
      BY <1>1, <1>2, <1>4, <3>1, <3>2, <3>3
  <2> QED
    BY <2>1, <2>2
<1> QED
  BY <1>5, <1>6

LEMMA LeapDaysAre ==
  ASSUME NEW a \in Int, NEW b \in Int
  PROVE  /\ Dates!LeapDays(a .. b) \in Nat
         /\ a > b => Dates!LeapDays(a .. b) = 0
         /\ a <= b + 1 => Dates!LeapDays(a .. b + 1)
               = Dates!LeapDays(a .. b) + IF Dates!IsLeapYear(b + 1) THEN 1 ELSE 0
         /\ a <= b + 1 => Dates!LeapDays(a - 1 .. b)
               = Dates!LeapDays(a .. b) + IF Dates!IsLeapYear(a - 1) THEN 1 ELSE 0
<1> DEFINE these == {y \in a .. b : Dates!IsLeapYear(y)}
           above == {y \in a .. b + 1 : Dates!IsLeapYear(y)}
           below == {y \in a - 1 .. b : Dates!IsLeapYear(y)}
<1>1. /\ Dates!LeapDays(a .. b) = Cardinality(these)
      /\ Dates!LeapDays(a .. b + 1) = Cardinality(above)
      /\ Dates!LeapDays(a - 1 .. b) = Cardinality(below)
  <2>1. \A years : Dates!LeapDays(years) = Dates!Cardinality({y \in years : Dates!IsLeapYear(y)})
    BY DEF Dates!LeapDays
  <2>2. \A S : Dates!Cardinality(S) = Cardinality(S)
    BY DEF Dates!Cardinality, Cardinality
  <2> QED
    BY <2>1, <2>2
<1>2. IsFiniteSet(these)
  <2>1. IsFiniteSet(a .. b)
    BY FS_Interval
  <2>2. these \in SUBSET (a .. b)
    OBVIOUS
  <2> HIDE DEF these
  <2> QED
    BY <2>1, <2>2, FS_Subset
<1>3. a > b => these = {}
  OBVIOUS
<1>4. a <= b + 1 => above = IF Dates!IsLeapYear(b + 1) THEN these \cup {b + 1} ELSE these
  OBVIOUS
<1>5. a <= b + 1 => below = IF Dates!IsLeapYear(a - 1) THEN these \cup {a - 1} ELSE these
  OBVIOUS
<1>6. b + 1 \notin these /\ a - 1 \notin these
  OBVIOUS
<1> HIDE DEF these, above, below
<1>7. Cardinality(these) \in Nat
  BY <1>2, FS_CardinalityType
<1>8. Cardinality({}) = 0
  BY FS_EmptySet
<1>9. /\ Cardinality(these \cup {b + 1}) = Cardinality(these) + 1
      /\ Cardinality(these \cup {a - 1}) = Cardinality(these) + 1
  BY <1>2, <1>6, FS_AddElement
<1>10. a <= b + 1 => Cardinality(above)
          = Cardinality(these) + IF Dates!IsLeapYear(b + 1) THEN 1 ELSE 0
  <2>1. CASE Dates!IsLeapYear(b + 1)
    <3>1. a <= b + 1 => above = these \cup {b + 1}
      BY <1>4, <2>1
    <3> QED
      BY <1>9, <2>1, <3>1
  <2>2. CASE ~Dates!IsLeapYear(b + 1)
    <3>1. a <= b + 1 => above = these
      BY <1>4, <2>2
    <3> QED
      BY <1>7, <2>2, <3>1
  <2> QED
    BY <2>1, <2>2
<1>11. a <= b + 1 => Cardinality(below)
          = Cardinality(these) + IF Dates!IsLeapYear(a - 1) THEN 1 ELSE 0
  <2>1. CASE Dates!IsLeapYear(a - 1)
    <3>1. a <= b + 1 => below = these \cup {a - 1}
      BY <1>5, <2>1
    <3> QED
      BY <1>9, <2>1, <3>1
  <2>2. CASE ~Dates!IsLeapYear(a - 1)
    <3>1. a <= b + 1 => below = these
      BY <1>5, <2>2
    <3> QED
      BY <1>7, <2>2, <3>1
  <2> QED
    BY <2>1, <2>2
<1> QED
  BY <1>1, <1>3, <1>7, <1>8, <1>10, <1>11

LEMMA DaysBeforeAYearLater ==
  ASSUME NEW y \in Int
  PROVE  /\ Dates!DaysBefore(y) \in Int
         /\ Dates!DaysBefore(y + 1)
               = Dates!DaysBefore(y) + 365 + IF Dates!IsLeapYear(y) THEN 1 ELSE 0
<1> DEFINE up(z) == Dates!LeapDays(1970 .. z)
           down(z) == Dates!LeapDays(z .. 1969)
           leap == IF Dates!IsLeapYear(y) THEN 1 ELSE 0
<1>1. \A z \in Int : up(z) \in Nat /\ down(z) \in Nat
  BY LeapDaysAre
<1>2. up(y) = up(y - 1) + IF y >= 1970 THEN leap ELSE 0
  <2>1. CASE y >= 1970
    <3>1. /\ 1970 <= (y - 1) + 1
          /\ 1970 <= (y - 1) + 1 => up((y - 1) + 1)
                = up(y - 1) + IF Dates!IsLeapYear((y - 1) + 1) THEN 1 ELSE 0
      BY <2>1, LeapDaysAre
    <3>2. (y - 1) + 1 = y
      OBVIOUS
    <3> QED
      BY <2>1, <3>1, <3>2
  <2>2. CASE y < 1970
    <3>1. up(y) = 0 /\ up(y - 1) = 0
      BY <2>2, LeapDaysAre
    <3> HIDE DEF up
    <3> QED
      BY <2>2, <3>1
  <2> QED
    BY <2>1, <2>2
<1>3. down(y) = down(y + 1) + IF y < 1970 THEN leap ELSE 0
  <2>1. CASE y < 1970
    <3>1. /\ y + 1 <= 1969 + 1
          /\ y + 1 <= 1969 + 1 => down((y + 1) - 1)
                = down(y + 1) + IF Dates!IsLeapYear((y + 1) - 1) THEN 1 ELSE 0
      BY <2>1, LeapDaysAre
    <3>2. (y + 1) - 1 = y
      OBVIOUS
    <3> QED
      BY <2>1, <3>1, <3>2
  <2>2. CASE y >= 1970
    <3>1. down(y) = 0 /\ down(y + 1) = 0
      BY <2>2, LeapDaysAre
    <3> HIDE DEF down
    <3> QED
      BY <2>2, <3>1
  <2> QED
    BY <2>1, <2>2
<1>4. /\ Dates!DaysBefore(y) = 365 * (y - 1970) + up(y - 1) - down(y)
      /\ Dates!DaysBefore(y + 1) = 365 * ((y + 1) - 1970) + up((y + 1) - 1) - down(y + 1)
  BY DEF Dates!DaysBefore
<1>5. (y + 1) - 1 = y
  OBVIOUS
<1>6. leap \in {0, 1}
  OBVIOUS
<1>7. Dates!DaysBefore(y) \in Int /\ Dates!DaysBefore(y + 1) = Dates!DaysBefore(y) + 365 + leap
  <2> HIDE DEF up, down, leap
  <2>1. /\ up(y) \in Nat /\ up(y - 1) \in Nat
        /\ down(y) \in Nat /\ down(y + 1) \in Nat
    BY <1>1
  <2> QED
    BY <1>2, <1>3, <1>4, <1>5, <1>6, <2>1
<1> QED
  BY <1>7

\* What holds of 0 and with a number of the next holds of all.
LEMMA NatSetInduction ==
  ASSUME NEW S, 0 \in S, \A n \in Nat : n \in S => n + 1 \in S
  PROVE  Nat \subseteq S
<1> DEFINE T == Nat \ S
           R == {ss \in Nat \X Nat : ss[1] < ss[2]}
<1> SUFFICES ASSUME T # {} PROVE  FALSE
  OBVIOUS
<1>1. IsWellFoundedOn(R, Nat)
  BY NatLessThanWellFounded DEF OpToRel
<1>2. PICK m \in T : \A y \in T : ~(<<y, m>> \in R)
  <2> HIDE DEF R
  <2>2. T \subseteq Nat
    OBVIOUS
  <2> HIDE DEF T
  <2> QED
    BY <1>1, <2>2, WFMin
<1>3. m - 1 \notin T
  <2>1. ASSUME m - 1 \in T PROVE  <<m - 1, m>> \in R
    BY <2>1
  <2> QED
    BY <1>2, <2>1
<1> QED
  BY <1>3

\* From 1970 up and down.
LEMMA YearsAreCounted ==
  ASSUME NEW y \in Int
  PROVE  Dates!DaysBefore(y) = Dates!DaysFromCivil(y, 1, 1)
<1> DEFINE Counted(z) == Dates!DaysBefore(z) = Dates!DaysFromCivil(z, 1, 1)
           S == {n \in Nat : Counted(1970 + n) /\ Counted(1970 - n)}
<1>1. ASSUME NEW z \in Int PROVE  Counted(z) <=> Counted(z + 1)
  <2>1. /\ Dates!DaysBefore(z) \in Int /\ Dates!DaysFromCivil(z, 1, 1) \in Int
        /\ Dates!DaysBefore(z + 1)
              = Dates!DaysBefore(z) + 365 + IF Dates!IsLeapYear(z) THEN 1 ELSE 0
        /\ Dates!DaysFromCivil(z + 1, 1, 1)
              = Dates!DaysFromCivil(z, 1, 1) + 365 + IF Dates!IsLeapYear(z) THEN 1 ELSE 0
    BY <1>1, DaysBeforeAYearLater, YearIsCounted
  <2> QED
    BY <2>1
<1>2. Counted(1970)
  <2>1. Dates!LeapDays(1970 .. 1969) = 0
    BY LeapDaysAre
  <2>2. Dates!DaysBefore(1970) = 365 * (1970 - 1970)
                  + Dates!LeapDays(1970 .. 1970 - 1) - Dates!LeapDays(1970 .. 1969)
    BY DEF Dates!DaysBefore
  <2>3. 1970 - 1 = 1969
    OBVIOUS
  <2>4. Dates!DaysBefore(1970) = 0
    BY <2>1, <2>2, <2>3
  <2>5. Dates!DaysFromCivil(1970, 1, 1) = 0
    BY DEF Dates!DaysFromCivil
  <2> QED
    BY <2>4, <2>5
<1> HIDE DEF Counted
<1>3. 0 \in S
  BY <1>2
<1>4. ASSUME NEW n \in Nat, n \in S PROVE  n + 1 \in S
  <2>1. Counted(1970 + n) <=> Counted((1970 + n) + 1)
    BY <1>1
  <2>2. Counted(1970 - (n + 1)) <=> Counted((1970 - (n + 1)) + 1)
    BY <1>1
  <2>3. (1970 + n) + 1 = 1970 + (n + 1) /\ (1970 - (n + 1)) + 1 = 1970 - n
    OBVIOUS
  <2> QED
    BY <1>4, <2>1, <2>2, <2>3
<1>5. Nat \subseteq S
  <2> HIDE DEF S
  <2> QED
    BY <1>3, <1>4, NatSetInduction
<1>6. CASE y >= 1970
  <2>1. y - 1970 \in S /\ 1970 + (y - 1970) = y
    BY <1>5, <1>6
  <2>2. Counted(1970 + (y - 1970))
    BY <2>1
  <2> QED
    BY <2>1, <2>2 DEF Counted
<1>7. CASE y < 1970
  <2>1. 1970 - y \in S /\ 1970 - (1970 - y) = y
    BY <1>5, <1>7
  <2>2. Counted(1970 - (1970 - y))
    BY <2>1
  <2> QED
    BY <2>1, <2>2 DEF Counted
<1> QED
  BY <1>6, <1>7

-----------------------------------------------------------------------------
(* A behaviour that counts the days of a year.                             *)

DatesInv == IsDate(date) /\ days = DayOf(date)

LEMMA DatesInit ==
  ASSUME Dates!Init
  PROVE  DatesInv
<1>1. PICK y \in FirstYear .. LastYear :
         date = Dates!Date(y, 1, 1) /\ days = Dates!DaysBefore(y)
  BY DEF Dates!Init
<1>2. y \in Int
  OBVIOUS
<1>3. 1 \in 1 .. Dates!DaysInMonth(y, 1)
  BY DEF Dates!DaysInMonth
<1>4. IsDate(date) /\ DayOf(date) = Dates!DaysFromCivil(y, 1, 1)
  BY <1>1, <1>2, <1>3, DateIsDate
<1> QED
  BY <1>1, <1>2, <1>4, YearsAreCounted DEF DatesInv

LEMMA DatesStep ==
  ASSUME DatesInv, [Dates!Next]_<<date, days>>
  PROVE  DatesInv'
<1>1. CASE UNCHANGED <<date, days>>
  BY <1>1 DEF DatesInv
<1>2. CASE Dates!NextDay
  <2> DEFINE y == date.year
             m == date.month
             d == date.day
  <2>1. /\ date = Dates!Date(y, m, d) /\ y \in Int /\ m \in 1 .. 12
        /\ d \in 1 .. Dates!DaysInMonth(y, m)
        /\ days = Dates!DaysFromCivil(y, m, d)
    BY DEF DatesInv, IsDate, DayOf, Dates!Accepted
  <2>2. Dates!DaysInMonth(y, m) \in 28 .. 31 /\ (m = 12 => Dates!DaysInMonth(y, m) = 31)
    BY <2>1 DEF Dates!DaysInMonth
  <2>3. days' = days + 1
    BY <1>2 DEF Dates!NextDay
  <2>4. CASE d < Dates!DaysInMonth(y, m)
    <3>1. date' = Dates!Date(y, m, d + 1)
      BY <1>2, <2>1, <2>4 DEF Dates!NextDay, Dates!Date
    <3> HIDE DEF y, m, d
    <3>2. d + 1 \in 1 .. Dates!DaysInMonth(y, m)
      BY <2>1, <2>2, <2>4
    <3>3. Dates!DaysFromCivil(y, m, d + 1) = Dates!DaysFromCivil(y, m, d) + 1
      BY <2>1, <2>4, NextIsCounted
    <3>4. IsDate(date') /\ DayOf(date') = Dates!DaysFromCivil(y, m, d + 1)
      BY <2>1, <3>1, <3>2, DateIsDate
    <3> QED
      BY <2>1, <2>3, <3>3, <3>4 DEF DatesInv
  <2>5. CASE ~(d < Dates!DaysInMonth(y, m))
    <3>1. date' = Dates!Date(y, m + 1, 1) /\ date # Dates!Date(y, 12, 31)
      BY <1>2, <2>1, <2>5 DEF Dates!NextDay
    <3> HIDE DEF y, m, d
    <3>2. d = Dates!DaysInMonth(y, m) /\ m < 12
      BY <2>1, <2>2, <2>5, <3>1
    <3>3. m + 1 \in 1 .. 12 /\ 1 \in 1 .. Dates!DaysInMonth(y, m + 1)
      BY <2>1, <3>2 DEF Dates!DaysInMonth
    <3>4. Dates!DaysFromCivil(y, m + 1, 1) = Dates!DaysFromCivil(y, m, d) + 1
      BY <2>1, <3>2, NextIsCounted
    <3>5. IsDate(date') /\ DayOf(date') = Dates!DaysFromCivil(y, m + 1, 1)
      BY <2>1, <3>1, <3>3, DateIsDate
    <3> QED
      BY <2>1, <2>3, <3>4, <3>5 DEF DatesInv
  <2> QED
    BY <2>4, <2>5
<1> QED
  BY <1>1, <1>2 DEF Dates!Next

LEMMA DatesAreCountedThen ==
  ASSUME DatesInv
  PROVE  Dates!DatesAreCounted /\ Dates!DaysAreDates
  BY CivilIsBack DEF DatesInv, DayOf, Dates!DatesAreCounted, Dates!DaysAreDates

\* A duration that is added moves by that many hours.
Moved(d, hour, hours, there) ==
    /\ IsDate(there.date) /\ there.hour \in 0 .. 23
    /\ DayOf(there.date) * 24 + there.hour = DayOf(d) * 24 + hour + hours

LEMMA ShiftMoves ==
  ASSUME NEW d, IsDate(d), NEW hour \in 0 .. 23, NEW hours \in Int
  PROVE  Moved(d, hour, hours, Dates!Shift(d, hour, hours))
<1> DEFINE there == Dates!Shift(d, hour, hours)
<1> DEFINE at == DayOf(d) * 24 + hour + hours
<1>1. at \in Int
  BY CivilIsBack
<1>2. there = [date |-> Dates!CivilFromDays(at \div 24), hour |-> at % 24]
  BY DEF Dates!Shift, DayOf
<1> HIDE DEF at, there
<1>3. /\ at \div 24 \in Int /\ at % 24 \in 0 .. 23
      /\ (at \div 24) * 24 + (at % 24) = at
  BY <1>1
<1>4. /\ IsDate(Dates!CivilFromDays(at \div 24))
      /\ DayOf(Dates!CivilFromDays(at \div 24)) = at \div 24
  BY <1>3, DaysAreBack
<1>5. there.date = Dates!CivilFromDays(at \div 24) /\ there.hour = at % 24
  BY <1>2
<1>6. /\ IsDate(there.date) /\ there.hour \in 0 .. 23
      /\ DayOf(there.date) * 24 + there.hour = at
  BY <1>3, <1>4, <1>5
<1> QED
  BY <1>6 DEF at, there, Moved

LEMMA ShiftsReturnThen ==
  ASSUME DatesInv
  PROVE  Dates!ShiftsReturn
<1> SUFFICES ASSUME NEW hour \in {0, 23},
                    NEW hours \in {-9000, -25, -1, 1, 24, 1416, 9000}
             PROVE  LET there == Dates!Shift(date, hour, hours)
                        back == Dates!Shift(there.date, there.hour, -hours) IN
                    /\ Dates!Accepted(there.date) /\ there.hour \in 0 .. 23
                    /\ back.date = date /\ back.hour = hour
  BY DEF Dates!ShiftsReturn
<1> DEFINE there == Dates!Shift(date, hour, hours)
           back == Dates!Shift(there.date, there.hour, -hours)
<1>1. IsDate(date) /\ hour \in 0 .. 23 /\ hours \in Int /\ -hours \in Int
  BY DEF DatesInv
<1>2. Moved(date, hour, hours, there)
  BY <1>1, ShiftMoves
<1> HIDE DEF there
<1>3. Moved(there.date, there.hour, -hours, back)
  <2>1. IsDate(there.date) /\ there.hour \in 0 .. 23
    BY <1>2 DEF Moved
  <2> QED
    BY <1>1, <2>1, ShiftMoves
<1> HIDE DEF back
<1>4. /\ DayOf(date) \in Int /\ Dates!CivilFromDays(DayOf(date)) = date
      /\ DayOf(there.date) \in Int
      /\ DayOf(back.date) \in Int /\ Dates!CivilFromDays(DayOf(back.date)) = back.date
  BY <1>1, <1>2, <1>3, CivilIsBack DEF Moved
<1>5. DayOf(back.date) = DayOf(date) /\ back.hour = hour
  BY <1>1, <1>2, <1>3, <1>4 DEF Moved
<1>6. Dates!Accepted(there.date) /\ there.hour \in 0 .. 23
  BY <1>2 DEF IsDate, Moved
<1> QED
  BY <1>4, <1>5, <1>6 DEF there, back

LEMMA DatesKept ==
  ASSUME part = "dates" => DatesInv,
         [PartsNext]_<<part, vars, flowVars, importVars, dateVars, amountVars>>
  PROVE  (part = "dates" => DatesInv)'
<1>1. part' = part /\ (part = "dates" => [Dates!Next]_<<date, days>>)
  BY DEF PartsNext, dateVars
<1>2. CASE part = "dates"
  BY <1>1, <1>2, DatesStep
<1>3. CASE part # "dates"
  BY <1>1, <1>3
<1> QED
  BY <1>2, <1>3

\* In every year the days that the table of month lengths allows are counted
\* by the formula, one after the other.
THEOREM DatesAreInStep == PartsSpec => [](part = "dates" => DatesInv)
<1>1. PartsInit => (part = "dates" => DatesInv)
  BY DatesInit DEF PartsInit
<1> QED
  BY <1>1, DatesKept, PTL DEF PartsSpec

\* days_from_civil, civil_from_days and shift_duration_hours (datetime.rs):
\* days and accepted dates stand for each other, in every year before and after
\* 1970, and a duration that is added and subtracted leads back.
THEOREM DatesAreAlwaysDays == PartsSpec => []DatesAreDays
<1>1. (part = "dates" => DatesInv) => DatesAreDays
  BY DatesAreCountedThen, ShiftsReturnThen DEF DatesAreDays, Dates!DatesAreDays
<1> QED
  BY <1>1, DatesAreInStep, PTL

-----------------------------------------------------------------------------
(* Decimals: powers of ten.                                                *)

\* The values of the loop of pow10, up to n turns of it.
TenUpTo(n, f) ==
    /\ f \in [0 .. n -> Nat \ {0}]
    /\ f[0] = 1
    /\ \A i \in 0 .. n - 1 : f[i + 1] = f[i] * 10

LEMMA TenUpToIs == \A n \in Nat : \E f : TenUpTo(n, f)
<1> DEFINE S == {n \in Nat : \E f : TenUpTo(n, f)}
<1>1. 0 \in S
  <2>1. TenUpTo(0, [i \in 0 .. 0 |-> 1])
    BY DEF TenUpTo
  <2> QED
    BY <2>1
<1>2. ASSUME NEW n \in Nat, n \in S PROVE  n + 1 \in S
  <2>1. PICK f : TenUpTo(n, f)
    BY <1>2
  <2> DEFINE g == [i \in 0 .. n + 1 |-> IF i = n + 1 THEN f[n] * 10 ELSE f[i]]
  <2>2. f[n] \in Nat \ {0} /\ \A i \in 0 .. n : f[i] \in Nat \ {0}
    BY <2>1 DEF TenUpTo
  <2>3. g \in [0 .. n + 1 -> Nat \ {0}]
    BY <2>2
  <2>4. \A i \in 0 .. n : g[i] = f[i]
    OBVIOUS
  <2>5. g[n + 1] = f[n] * 10
    OBVIOUS
  <2> HIDE DEF g
  <2>6. \A i \in 0 .. (n + 1) - 1 : g[i + 1] = g[i] * 10
    <3> SUFFICES ASSUME NEW i \in 0 .. n PROVE  g[i + 1] = g[i] * 10
      OBVIOUS
    <3>1. CASE i = n
      BY <2>4, <2>5, <3>1
    <3>2. CASE i < n
      <4>1. f[i + 1] = f[i] * 10
        BY <2>1, <3>2 DEF TenUpTo
      <4> QED
        BY <2>4, <3>2, <4>1
    <3> QED
      BY <3>1, <3>2
  <2>7. TenUpTo(n + 1, g)
    BY <2>1, <2>3, <2>4, <2>6 DEF TenUpTo
  <2> QED
    BY <2>7
<1> HIDE DEF S
<1>3. Nat \subseteq S
  BY <1>1, <1>2, NatSetInduction
<1> QED
  BY <1>3 DEF S

LEMMA TenUpToSame ==
  ASSUME NEW m \in Nat, NEW n \in Nat, NEW f, NEW g, TenUpTo(m, f), TenUpTo(n, g), m <= n
  PROVE  \A i \in 0 .. m : f[i] = g[i]
<1> DEFINE S == {i \in Nat : i <= m => f[i] = g[i]}
<1>1. 0 \in S
  BY DEF TenUpTo
<1>2. ASSUME NEW i \in Nat, i \in S PROVE  i + 1 \in S
  <2> SUFFICES ASSUME i + 1 <= m PROVE  f[i + 1] = g[i + 1]
    OBVIOUS
  <2>1. f[i + 1] = f[i] * 10 /\ g[i + 1] = g[i] * 10
    BY DEF TenUpTo
  <2>2. f[i] = g[i]
    BY <1>2
  <2> QED
    BY <2>1, <2>2
<1> HIDE DEF S
<1>3. Nat \subseteq S
  BY <1>1, <1>2, NatSetInduction
<1> QED
  BY <1>3 DEF S

LEMMA TenToIs ==
  /\ Amounts!TenTo[0] = 1
  /\ \A n \in Nat : /\ Amounts!TenTo[n] \in Nat \ {0}
                     /\ Amounts!TenTo[n + 1] = Amounts!TenTo[n] * 10
<1> DEFINE chosen(n) == CHOOSE f : TenUpTo(n, f)
           ten == [n \in Nat |-> chosen(n)[n]]
<1>1. \A n \in Nat : TenUpTo(n, chosen(n))
  BY TenUpToIs
<1> HIDE DEF chosen
<1>2. ten[0] = 1
  BY <1>1 DEF TenUpTo
<1>3. ASSUME NEW n \in Nat
      PROVE  ten[n] \in Nat \ {0} /\ ten[n + 1] = ten[n] * 10
  <2>1. TenUpTo(n, chosen(n)) /\ TenUpTo(n + 1, chosen(n + 1))
    BY <1>1
  <2>2. chosen(n)[n] = chosen(n + 1)[n]
    BY <2>1, TenUpToSame
  <2>3. chosen(n)[n] \in Nat \ {0} /\ chosen(n + 1)[n + 1] = chosen(n + 1)[n] * 10
    BY <2>1 DEF TenUpTo
  <2> QED
    BY <2>2, <2>3
<1>a. ten = [n \in Nat |-> ten[n]]
  OBVIOUS
<1> HIDE DEF ten
<1>b. ASSUME NEW n \in Nat
      PROVE  ten[n] = IF n = 0 THEN 1 ELSE ten[n - 1] * 10
  <2>1. CASE n = 0
    BY <1>2, <2>1
  <2>2. CASE n # 0
    <3>1. n - 1 \in Nat /\ (n - 1) + 1 = n
      BY <2>2
    <3>2. ten[(n - 1) + 1] = ten[n - 1] * 10
      BY <1>3, <3>1
    <3> QED
      BY <2>2, <3>1, <3>2
  <2> QED
    BY <2>1, <2>2
<1>4. ten = [n \in Nat |-> IF n = 0 THEN 1 ELSE ten[n - 1] * 10]
  <2>1. [n \in Nat |-> ten[n]] = [n \in Nat |-> IF n = 0 THEN 1 ELSE ten[n - 1] * 10]
    BY <1>b
  <2> QED
    BY <1>a, <2>1
<1> DEFINE Unfolds(f) == f = [n \in Nat |-> IF n = 0 THEN 1 ELSE f[n - 1] * 10]
<1>5. Amounts!TenTo = CHOOSE f : Unfolds(f)
  BY DEF Amounts!TenTo
<1>6. Unfolds(Amounts!TenTo)
  <2>1. Unfolds(ten)
    BY <1>4
  <2> HIDE DEF Unfolds
  <2> QED
    BY <1>5, <2>1
<1>7. ASSUME NEW f, Unfolds(f)
      PROVE  /\ f[0] = 1
             /\ \A n \in Nat : f[n + 1] = f[n] * 10
  <2>1. \A n \in Nat : f[n] = IF n = 0 THEN 1 ELSE f[n - 1] * 10
    BY <1>7
  <2> HIDE DEF Unfolds
  <2>2. \A n \in Nat : n + 1 \in Nat /\ n + 1 # 0 /\ (n + 1) - 1 = n
    OBVIOUS
  <2> QED
    BY <2>1, <2>2
<1>8. \A n \in Nat : Amounts!TenTo[n] \in Nat \ {0}
  <2> DEFINE S == {n \in Nat : Amounts!TenTo[n] \in Nat \ {0}}
  <2>1. 0 \in S
    BY <1>6, <1>7
  <2>2. ASSUME NEW n \in Nat, n \in S PROVE  n + 1 \in S
    <3>1. Amounts!TenTo[n + 1] = Amounts!TenTo[n] * 10 /\ Amounts!TenTo[n] \in Nat \ {0}
      BY <1>6, <1>7, <2>2
    <3> QED
      BY <3>1
  <2> HIDE DEF S
  <2>3. Nat \subseteq S
    BY <2>1, <2>2, NatSetInduction
  <2> QED
    BY <2>3 DEF S
<1> QED
  BY <1>6, <1>7, <1>8

LEMMA TenToSum ==
  ASSUME NEW a \in Nat, NEW b \in Nat
  PROVE  Amounts!TenTo[a + b] = Amounts!TenTo[a] * Amounts!TenTo[b]
<1> DEFINE T(n) == Amounts!TenTo[n]
           S == {n \in Nat : T(a + n) = T(a) * T(n)}
<1>1. T(0) = 1 /\ T(a) \in Nat
  BY TenToIs
<1>2. \A n \in Nat : T(n) \in Nat /\ T(n + 1) = T(n) * 10
  BY TenToIs
<1> HIDE DEF T
<1>3. 0 \in S
  BY <1>1
<1>4. ASSUME NEW n \in Nat, n \in S PROVE  n + 1 \in S
  <2>1. T(a + n) = T(a) * T(n) /\ T(n + 1) = T(n) * 10 /\ T(a) \in Nat /\ T(n) \in Nat
    BY <1>1, <1>2, <1>4
  <2>2. T((a + n) + 1) = T(a + n) * 10 /\ (a + n) + 1 = a + (n + 1)
    BY <1>2
  <2>3. (T(a) * T(n)) * 10 = T(a) * (T(n) * 10)
    BY <2>1
  <2> QED
    BY <2>1, <2>2, <2>3
<1> HIDE DEF S
<1>5. Nat \subseteq S
  BY <1>3, <1>4, NatSetInduction
<1> QED
  BY <1>5 DEF S, T

-----------------------------------------------------------------------------
(* Quotients and remainders, which round towards zero.                     *)

LEMMA MultiplesInOrder ==
  ASSUME NEW a \in Int, NEW k \in Int, NEW b \in Nat \ {0}, a * b < k * b
  PROVE  a < k
<1> SUFFICES ASSUME k <= a PROVE  FALSE
  OBVIOUS
<1>1. (a - k) * b >= 0
  BY a - k >= 0
<1>2. (a - k) * b = a * b - k * b
  OBVIOUS
<1> QED
  BY <1>1, <1>2

LEMMA DivIs ==
  ASSUME NEW a \in Nat, NEW b \in Nat \ {0}
  PROVE  /\ a \div b \in Nat
         /\ (a \div b) * b <= a
         /\ a < (a \div b) * b + b
  OBVIOUS

LEMMA DivOf ==
  ASSUME NEW a \in Nat, NEW b \in Nat \ {0}, NEW m \in Int, m * b <= a, a < m * b + b
  PROVE  a \div b = m
<1> DEFINE q == a \div b
<1>1. q \in Nat /\ q * b <= a /\ a < q * b + b
  BY DivIs
<1> HIDE DEF q
<1>2. q * b + b = (q + 1) * b /\ m * b + b = (m + 1) * b
  BY <1>1
<1>3. q * b < (m + 1) * b /\ m * b < (q + 1) * b
  <2>1. q * b \in Int /\ m * b \in Int
    BY <1>1
  <2> QED
    BY <1>1, <1>2, <2>1
<1>4. q < m + 1 /\ m < q + 1
  BY <1>1, <1>3, MultiplesInOrder
<1>5. q = m
  BY <1>1, <1>4
<1> QED
  BY <1>5 DEF q

LEMMA AbsIs ==
  ASSUME NEW a \in Int
  PROVE  /\ Amounts!Abs(a) \in Nat
         /\ a = Amounts!Abs(a) \/ a = -Amounts!Abs(a)
         /\ a >= 0 => Amounts!Abs(a) = a
         /\ a < 0 => Amounts!Abs(a) = -a
  BY DEF Amounts!Abs

LEMMA QuotientIs ==
  ASSUME NEW a \in Int, NEW b \in Int \ {0}
  PROVE  /\ Amounts!Abs(a) \div Amounts!Abs(b) \in Nat
         /\ Amounts!Quotient(a, b) \in Int
         /\ Amounts!Abs(Amounts!Quotient(a, b)) = Amounts!Abs(a) \div Amounts!Abs(b)
         /\ b > 0 => Amounts!Quotient(a, b) = IF a < 0 THEN -(Amounts!Abs(a) \div b)
                                             ELSE Amounts!Abs(a) \div b
<1> DEFINE n == Amounts!Abs(a)
           r == Amounts!Abs(b)
           q == n \div r
<1>1. n \in Nat /\ r \in Nat \ {0} /\ (b > 0 => r = b)
  BY DEF Amounts!Abs
<1> HIDE DEF n, r
<1>2. q \in Nat
  BY <1>1, DivIs
<1>3. b > 0 => q = n \div b
  BY <1>1
<1>4. Amounts!Quotient(a, b) = IF (a < 0) = (b < 0) THEN q ELSE -q
  BY DEF Amounts!Quotient, n, r
<1> HIDE DEF q
<1>5. Amounts!Quotient(a, b) \in Int /\ Amounts!Abs(Amounts!Quotient(a, b)) = q
  BY <1>2, <1>4 DEF Amounts!Abs
<1>6. b > 0 => Amounts!Quotient(a, b) = IF a < 0 THEN -q ELSE q
  BY <1>2, <1>4
<1>7. b > 0 => Amounts!Quotient(a, b) = IF a < 0 THEN -(n \div b) ELSE n \div b
  BY <1>3, <1>6
<1> QED
  BY <1>2, <1>5, <1>7 DEF n, r, q

\* For a divisor that is positive, as powers of ten are.
LEMMA RemainderIs ==
  ASSUME NEW a \in Int, NEW b \in Nat \ {0}
  PROVE  /\ Amounts!Quotient(a, b) \in Int
         /\ Amounts!Remainder(a, b) \in Int
         /\ a = Amounts!Quotient(a, b) * b + Amounts!Remainder(a, b)
         /\ Amounts!Remainder(a, b) = 0 <=> \E k \in Int : a = k * b
<1> DEFINE n == Amounts!Abs(a)
           m == n \div b
           q == Amounts!Quotient(a, b)
           r == Amounts!Remainder(a, b)
<1>1. n \in Nat /\ (a >= 0 => n = a) /\ (a < 0 => n = -a)
  BY AbsIs
<1>2. m \in Nat /\ m * b <= n /\ n < m * b + b
  BY <1>1, DivIs
<1>3. q \in Int /\ q = IF a < 0 THEN -m ELSE m
  BY QuotientIs
<1>4. r = a - b * q
  BY DEF Amounts!Remainder
<1>5. ASSUME NEW k \in Int, a = k * b PROVE  n = m * b
  <2> DEFINE p == Amounts!Abs(k)
  <2>1. p \in Nat /\ n = p * b
    <3>1. p \in Nat /\ (k >= 0 => p = k) /\ (k < 0 => p = -k)
      BY AbsIs
    <3> HIDE DEF p, n
    <3>2. CASE k >= 0
      <4>1. k * b >= 0
        BY <3>2
      <4> QED
        BY <1>1, <1>5, <3>1, <3>2, <4>1
    <3>3. CASE k < 0
      <4>1. k * b < 0 /\ (-k) * b = -(k * b)
        BY <3>3
      <4> QED
        BY <1>1, <1>5, <3>1, <3>3, <4>1
    <3> QED
      BY <3>1, <3>2, <3>3
  <2> HIDE DEF p, n
  <2>2. p * b <= n /\ n < p * b + b
    BY <2>1
  <2>3. n \div b = p
    BY <1>1, <2>1, <2>2, DivOf
  <2> QED
    BY <2>1, <2>3
<1> HIDE DEF n, m, q, r
<1>6. m * b \in Nat /\ b * q = IF a < 0 THEN -(m * b) ELSE m * b
  BY <1>2, <1>3
<1>7. /\ r \in Int /\ a = q * b + r
      /\ r = 0 <=> n = m * b
  <2>1. b * q = q * b
    BY <1>3
  <2> QED
    BY <1>1, <1>2, <1>3, <1>4, <1>6, <2>1
<1>8. r = 0 <=> \E k \in Int : a = k * b
  <2>1. ASSUME r = 0 PROVE  \E k \in Int : a = k * b
    <3>1. q * b \in Int /\ a = q * b
      BY <1>3, <1>7, <2>1
    <3> QED
      BY <1>3, <3>1
  <2>2. ASSUME NEW k \in Int, a = k * b PROVE  r = 0
    <3>1. n = m * b
      BY <1>5, <2>2
    <3> QED
      BY <1>1, <1>6, <1>7, <3>1
  <2> QED
    BY <2>1, <2>2
<1> QED
  BY <1>3, <1>7, <1>8 DEF q, r

-----------------------------------------------------------------------------
(* The normal form.                                                        *)

\* What new returns: no zero at the end as long as there is a scale.
IsDecimal(d) ==
    /\ d = [coefficient |-> d.coefficient, scale |-> d.scale]
    /\ d.coefficient \in Int /\ d.scale \in Nat
    /\ \A k \in Int : d.scale > 0 => d.coefficient # k * 10

\* d stands for c with scale s.
Stands(d, c, s) ==
    IsDecimal(d) /\ d.scale <= s /\ c = d.coefficient * Amounts!TenTo[s - d.scale]

LEMMA LargestIs ==
  ASSUME NEW S \in SUBSET Nat, NEW s \in Nat, \A k \in S : k <= s, 0 \in S
  PROVE  Amounts!Max(S) \in S /\ \A k \in S : Amounts!Max(S) >= k
<1> DEFINE T == {n \in Nat : (\A k \in S : k <= n) => \E l \in S : \A k \in S : l >= k}
<1>1. 0 \in T
  OBVIOUS
<1>2. ASSUME NEW n \in Nat, n \in T PROVE  n + 1 \in T
  <2> SUFFICES ASSUME \A k \in S : k <= n + 1
               PROVE  \E l \in S : \A k \in S : l >= k
    OBVIOUS
  <2>1. CASE n + 1 \in S
    BY <2>1
  <2>2. CASE n + 1 \notin S
    <3>1. \A k \in S : k <= n
      BY <2>2
    <3> QED
      BY <1>2, <3>1
  <2> QED
    BY <2>1, <2>2
<1> HIDE DEF T
<1>3. Nat \subseteq T
  BY <1>1, <1>2, NatSetInduction
<1>4. \E l \in S : \A k \in S : l >= k
  BY <1>3 DEF T
<1>5. Amounts!Max(S) = CHOOSE l \in S : \A k \in S : l >= k
  BY DEF Amounts!Max
<1> QED
  BY <1>4, <1>5, Zenon

LEMMA NewStands ==
  ASSUME NEW c \in Int, NEW s \in Nat
  PROVE  Stands(Amounts!New(c, s), c, s)
<1> DEFINE T(n) == Amounts!TenTo[n]
           S == {k \in 0 .. s : Amounts!Remainder(c, T(k)) = 0}
           cut == Amounts!Max(S)
           q == Amounts!Quotient(c, T(cut))
           d == Amounts!New(c, s)
<1>1. T(0) = 1 /\ \A n \in Nat : T(n) \in Nat \ {0} /\ T(n + 1) = T(n) * 10
  BY TenToIs
<1>2. d = [coefficient |-> q, scale |-> s - cut]
  BY DEF Amounts!New
<1> HIDE DEF T
<1>3. ASSUME NEW k \in 0 .. s
      PROVE  k \in S <=> \E p \in Int : c = p * T(k)
  <2>1. T(k) \in Nat \ {0}
    BY <1>1
  <2>2. Amounts!Remainder(c, T(k)) = 0 <=> \E p \in Int : c = p * T(k)
    BY <2>1, RemainderIs
  <2> QED
    BY <2>2
<1>4. 0 \in S
  <2>1. c = c * T(0)
    BY <1>1
  <2> QED
    BY <1>3, <2>1
<1>5. S \in SUBSET Nat /\ \A k \in S : k <= s
  OBVIOUS
<1> HIDE DEF S
<1>6. cut \in S /\ \A k \in S : cut >= k
  BY <1>4, <1>5, LargestIs
<1>7. cut \in 0 .. s /\ Amounts!Remainder(c, T(cut)) = 0
  BY <1>6 DEF S
<1> HIDE DEF cut
<1>8. q \in Int /\ c = q * T(cut)
  <2>1. T(cut) \in Nat \ {0}
    BY <1>1, <1>7
  <2>2. q \in Int /\ c = q * T(cut) + Amounts!Remainder(c, T(cut))
    BY <2>1, RemainderIs
  <2>3. q * T(cut) \in Int
    BY <2>1, <2>2
  <2> QED
    BY <1>7, <2>2, <2>3
<1> HIDE DEF q, d
<1>9. d.coefficient = q /\ d.scale = s - cut /\ d.scale \in Nat /\ s - d.scale = cut
  BY <1>2, <1>7
<1>10. ASSUME NEW k \in Int, s - cut > 0, q = k * 10 PROVE  FALSE
  <2>1. T(cut + 1) = T(cut) * 10 /\ T(cut) \in Nat
    BY <1>1, <1>7
  <2>2. (k * 10) * T(cut) = k * (T(cut) * 10)
    BY <2>1
  <2>3. c = k * T(cut + 1)
    BY <1>8, <1>10, <2>1, <2>2
  <2>4. cut + 1 \in S
    BY <1>3, <1>7, <1>10, <2>3
  <2> QED
    BY <1>6, <1>7, <2>4
<1>11. IsDecimal(d)
  BY <1>2, <1>8, <1>9, <1>10 DEF IsDecimal
<1> QED
  BY <1>7, <1>8, <1>9, <1>11 DEF Stands, d, T

-----------------------------------------------------------------------------
(* The operations.                                                         *)

LEMMA StandsIs ==
  ASSUME NEW d, NEW c \in Int, NEW s \in Nat, Stands(d, c, s)
  PROVE  /\ IsDecimal(d) /\ d.coefficient \in Int /\ d.scale \in Nat
         /\ s - d.scale \in Nat /\ d.scale <= s
         /\ c = d.coefficient * Amounts!TenTo[s - d.scale]
  BY DEF Stands, IsDecimal

LEMMA AlignedIs ==
  ASSUME IsDecimal(operand), IsDecimal(right), NEW d \in {operand, right}
  PROVE  /\ Amounts!Scale \in Nat /\ Amounts!Scale - d.scale \in Nat
         /\ operand.scale + right.scale - Amounts!Scale \in Nat
         /\ Amounts!Scale \in {operand.scale, right.scale}
         /\ Amounts!Aligned(d) = d.coefficient * Amounts!TenTo[Amounts!Scale - d.scale]
         /\ Amounts!Aligned(d) \in Int
<1>1. /\ operand.scale \in Nat /\ right.scale \in Nat /\ d.scale \in Nat
      /\ d.coefficient \in Int /\ d.scale \in {operand.scale, right.scale}
  BY DEF IsDecimal
<1>2. /\ Amounts!Scale \in {operand.scale, right.scale}
      /\ Amounts!Scale \in Nat /\ Amounts!Scale - d.scale \in Nat
      /\ operand.scale + right.scale - Amounts!Scale \in Nat
  BY <1>1 DEF Amounts!Scale
<1>3. Amounts!Aligned(d) = d.coefficient * Amounts!TenTo[Amounts!Scale - d.scale]
  BY DEF Amounts!Aligned
<1>4. Amounts!TenTo[Amounts!Scale - d.scale] \in Int
  BY <1>2, TenToIs
<1>5. d.coefficient * Amounts!TenTo[Amounts!Scale - d.scale] \in Int
  BY <1>1, <1>4
<1> QED
  BY <1>2, <1>3, <1>5

LEMMA CheckedStands ==
  ASSUME NEW c \in Int, NEW s \in Nat, NEW d \in Amounts!Checked(c, s)
  PROVE  Stands(d, c, s)
  BY NewStands DEF Amounts!Checked, Amounts!Failed

LEMMA SumStands ==
  ASSUME IsDecimal(operand), IsDecimal(right), NEW sign \in {1, -1},
         NEW d \in Amounts!Sum(sign)
  PROVE  Stands(d, Amounts!Aligned(operand) + sign * Amounts!Aligned(right), Amounts!Scale)
<1>1. /\ Amounts!Aligned(operand) \in Int /\ Amounts!Aligned(right) \in Int
      /\ Amounts!Scale \in Nat
  BY AlignedIs
<1>2. Amounts!Aligned(operand) + sign * Amounts!Aligned(right) \in Int
  BY <1>1
<1>3. d \in Amounts!Checked(Amounts!Aligned(operand) + sign * Amounts!Aligned(right),
                           Amounts!Scale)
  BY DEF Amounts!Sum, Amounts!Failed
<1> QED
  BY <1>1, <1>2, <1>3, CheckedStands

\* With a and b, the powers that align l and r, m for what both scales have in
\* common, and c and e, those that make d from the sum.
LEMMA SumCommutes ==
  ASSUME NEW l \in Int, NEW r \in Int, NEW d \in Int, NEW a \in Int, NEW b \in Int,
         NEW m \in Int, NEW c \in Int, NEW e \in Int, NEW sign \in {1, -1},
         l * a + sign * (r * b) = d * c
  PROVE  d * ((e * c) * m) = e * (l * (a * m) + sign * (r * (b * m)))
<1>1. (l * a + sign * (r * b)) * (e * m) = (d * c) * (e * m)
  OBVIOUS
<1>2. (d * c) * (e * m) = d * ((e * c) * m)
  OBVIOUS
<1>3. CASE sign = 1
  <2>1. (l * a + sign * (r * b)) * (e * m) = e * (l * (a * m) + sign * (r * (b * m)))
    BY <1>3
  <2> QED
    BY <1>1, <1>2, <2>1
<1>4. CASE sign = -1
  <2>1. (l * a + sign * (r * b)) * (e * m) = e * (l * (a * m) + sign * (r * (b * m)))
    BY <1>4
  <2> QED
    BY <1>1, <1>2, <2>1
<1> QED
  BY <1>3, <1>4

LEMMA SumIsExact ==
  ASSUME IsDecimal(operand), IsDecimal(right), NEW sign \in {1, -1},
         NEW d \in Amounts!Sum(sign)
  PROVE  d.coefficient * Amounts!TenTo[operand.scale + right.scale]
           = Amounts!TenTo[d.scale] *
               (operand.coefficient * Amounts!TenTo[right.scale]
                  + sign * (right.coefficient * Amounts!TenTo[operand.scale]))
<1> DEFINE T(n) == Amounts!TenTo[n]
           s == Amounts!Scale
           ls == operand.scale
           rs == right.scale
           m == ls + rs - s
           l == operand.coefficient
           r == right.coefficient
<1>1. Stands(d, Amounts!Aligned(operand) + sign * Amounts!Aligned(right), s)
  BY SumStands
<1>2. /\ s \in Nat /\ s - ls \in Nat /\ s - rs \in Nat /\ m \in Nat
      /\ Amounts!Aligned(operand) = l * T(s - ls) /\ Amounts!Aligned(right) = r * T(s - rs)
      /\ Amounts!Aligned(operand) \in Int /\ Amounts!Aligned(right) \in Int
  BY AlignedIs
<1>3. l \in Int /\ r \in Int /\ ls \in Nat /\ rs \in Nat
  BY DEF IsDecimal
<1>4. Amounts!Aligned(operand) + sign * Amounts!Aligned(right) \in Int
  BY <1>2
<1>5. /\ d.coefficient \in Int /\ d.scale \in Nat /\ s - d.scale \in Nat
      /\ Amounts!Aligned(operand) + sign * Amounts!Aligned(right)
           = d.coefficient * T(s - d.scale)
  BY <1>1, <1>2, <1>4, StandsIs
<1>6. \A n \in Nat : T(n) \in Int
  BY TenToIs
<1>8. m = ls + rs - s
  OBVIOUS
<1> HIDE DEF s, ls, rs, l, r, m
<1> DEFINE a == s - ls
           b == s - rs
           c == s - d.scale
<1>9. a \in Nat /\ b \in Nat /\ c \in Nat /\ s \in Nat /\ ls + rs \in Nat
  BY <1>2, <1>3, <1>5
<1>10. rs = a + m /\ ls = b + m /\ s = d.scale + c /\ ls + rs = s + m
  BY <1>2, <1>3, <1>5, <1>8
<1>11. l * T(a) + sign * (r * T(b)) = d.coefficient * T(c)
  BY <1>2, <1>5
<1> HIDE DEF a, b, c
<1>7. /\ T(a + m) = T(a) * T(m) /\ T(b + m) = T(b) * T(m)
      /\ T(d.scale + c) = T(d.scale) * T(c) /\ T(s + m) = T(s) * T(m)
  <2>1. T(a + m) = T(a) * T(m)
    BY <1>2, <1>9, TenToSum
  <2>2. T(b + m) = T(b) * T(m)
    BY <1>2, <1>9, TenToSum
  <2>3. T(d.scale + c) = T(d.scale) * T(c)
    BY <1>5, <1>9, TenToSum
  <2>4. T(s + m) = T(s) * T(m)
    BY <1>2, <1>9, TenToSum
  <2> QED
    BY <2>1, <2>2, <2>3, <2>4
<1> HIDE DEF T
<1>12. T(rs) = T(a) * T(m) /\ T(ls) = T(b) * T(m)
  BY <1>7, <1>10
<1>13. T(ls + rs) = (T(d.scale) * T(c)) * T(m)
  BY <1>7, <1>10
<1> DEFINE ta == T(a)
           tb == T(b)
           tm == T(m)
           tc == T(c)
           te == T(d.scale)
           dc == d.coefficient
<1>14. /\ ta \in Int /\ tb \in Int /\ tm \in Int /\ tc \in Int /\ te \in Int
       /\ dc \in Int /\ l * ta + sign * (r * tb) = dc * tc
  BY <1>2, <1>5, <1>6, <1>9, <1>11
<1> HIDE DEF ta, tb, tm, tc, te, dc
<1>15. dc * ((te * tc) * tm) = te * (l * (ta * tm) + sign * (r * (tb * tm)))
  BY <1>3, <1>14, SumCommutes
<1>16. dc * T(ls + rs) = te * (l * T(rs) + sign * (r * T(ls)))
  BY <1>12, <1>13, <1>15 DEF ta, tb, tm, tc, te
<1> QED
  BY <1>16 DEF T, ls, rs, l, r, te, dc

LEMMA ProductStands ==
  ASSUME IsDecimal(operand), IsDecimal(right), NEW d \in Amounts!Product
  PROVE  Stands(d, operand.coefficient * right.coefficient, operand.scale + right.scale)
<1>1. operand.coefficient * right.coefficient \in Int /\ operand.scale + right.scale \in Nat
  BY DEF IsDecimal
<1> QED
  BY <1>1, CheckedStands DEF Amounts!Product

LEMMA ProductIsExact ==
  ASSUME IsDecimal(operand), IsDecimal(right), NEW d \in Amounts!Product
  PROVE  d.coefficient * Amounts!TenTo[operand.scale + right.scale]
           = Amounts!TenTo[d.scale] * (operand.coefficient * right.coefficient)
<1> DEFINE T(n) == Amounts!TenTo[n]
           c == operand.coefficient * right.coefficient
           s == operand.scale + right.scale
<1>1. c \in Int /\ s \in Nat
  BY DEF IsDecimal
<1>2. Stands(d, c, s)
  BY ProductStands
<1> HIDE DEF c, s
<1>3. /\ d.coefficient \in Int /\ d.scale \in Nat /\ s - d.scale \in Nat
      /\ c = d.coefficient * T(s - d.scale)
  BY <1>1, <1>2, StandsIs
<1>4. T(d.scale) \in Int /\ T(s - d.scale) \in Int
  BY <1>3, TenToIs
<1>5. T(d.scale + (s - d.scale)) = T(d.scale) * T(s - d.scale)
  BY <1>3, TenToSum
<1> HIDE DEF T
<1>6. d.scale + (s - d.scale) = s
  BY <1>1, <1>3
<1>7. d.coefficient * (T(d.scale) * T(s - d.scale)) = T(d.scale) * (d.coefficient * T(s - d.scale))
  BY <1>3, <1>4
<1>8. d.coefficient * T(s) = T(d.scale) * c
  BY <1>3, <1>5, <1>6, <1>7
<1> QED
  BY <1>8 DEF T, c, s

\* Decimals that align to the same number are the same decimal.
LEMMA FormIsUnique ==
  ASSUME NEW d, NEW e, IsDecimal(d), IsDecimal(e), d.scale >= e.scale,
         d.coefficient = e.coefficient * Amounts!TenTo[d.scale - e.scale]
  PROVE  d = e
<1> DEFINE n == d.scale - e.scale
<1>1. /\ d = [coefficient |-> d.coefficient, scale |-> d.scale]
      /\ e = [coefficient |-> e.coefficient, scale |-> e.scale]
      /\ d.coefficient \in Int /\ e.coefficient \in Int
      /\ d.scale \in Nat /\ e.scale \in Nat
      /\ \A k \in Int : d.scale > 0 => d.coefficient # k * 10
  BY DEF IsDecimal
<1>2. n \in Nat
  BY <1>1
<1>3. CASE n = 0
  <2>1. d.scale = e.scale
    BY <1>1, <1>3
  <2>2. d.coefficient = e.coefficient
    BY <1>1, <1>3, TenToIs
  <2> QED
    BY <1>1, <2>1, <2>2
<1>4. CASE n # 0
  <2> DEFINE t == Amounts!TenTo[n - 1]
  <2>1. n - 1 \in Nat /\ (n - 1) + 1 = n /\ d.scale > 0
    BY <1>1, <1>2, <1>4
  <2>2. t \in Nat /\ Amounts!TenTo[(n - 1) + 1] = t * 10
    BY <2>1, TenToIs
  <2>3. d.coefficient = e.coefficient * (t * 10)
    BY <2>1, <2>2
  <2> HIDE DEF t, n
  <2>4. e.coefficient * t \in Int /\ e.coefficient * (t * 10) = (e.coefficient * t) * 10
    BY <1>1, <2>2
  <2> QED
    BY <1>1, <2>1, <2>3, <2>4
<1> QED
  BY <1>3, <1>4

LEMMA OrderIsEquality ==
  ASSUME IsDecimal(operand), IsDecimal(right), Amounts!Order # {}
  PROVE  Amounts!Order = {0} <=> operand = right
<1> DEFINE s == Amounts!Scale
           a == Amounts!Aligned(operand)
           b == Amounts!Aligned(right)
<1>1. a \in Int /\ b \in Int /\ s \in Nat
  BY AlignedIs
<1>2. Amounts!Order = CASE a < b -> {-1} [] a = b -> {0} [] a > b -> {1}
  <2>1. Amounts!CanAlign
    BY DEF Amounts!Order, Amounts!Failed
  <2> QED
    BY <2>1, Zenon DEF Amounts!Order
<1> HIDE DEF a, b, s
<1>3. Amounts!Order = {0} <=> a = b
  BY <1>1, <1>2
<1>4. operand = right => a = b
  BY DEF a, b
<1>5. ASSUME a = b PROVE  operand = right
  <2>1. operand.scale \in Nat /\ right.scale \in Nat
    BY DEF IsDecimal
  <2>2. /\ a = operand.coefficient * Amounts!TenTo[s - operand.scale]
        /\ b = right.coefficient * Amounts!TenTo[s - right.scale]
    BY AlignedIs DEF a, b, s
  <2>3. operand.coefficient \in Int /\ right.coefficient \in Int
    BY DEF IsDecimal
  <2>4. CASE operand.scale >= right.scale
    <3>1. s = operand.scale
      BY <2>1, <2>4 DEF s, Amounts!Scale
    <3>2. s - operand.scale = 0
      BY <2>1, <3>1
    <3>3. a = operand.coefficient
      BY <2>2, <2>3, <3>2, TenToIs
    <3>4. operand.coefficient = right.coefficient * Amounts!TenTo[operand.scale - right.scale]
      BY <1>5, <2>2, <3>1, <3>3, Zenon
    <3> QED
      BY <2>4, <3>4, FormIsUnique
  <2>5. CASE ~(operand.scale >= right.scale)
    <3>1. s = right.scale
      BY <2>1, <2>5 DEF s, Amounts!Scale
    <3>2. s - right.scale = 0
      BY <2>1, <3>1
    <3>3. b = right.coefficient
      BY <2>2, <2>3, <3>2, TenToIs
    <3>4. right.coefficient = operand.coefficient * Amounts!TenTo[right.scale - operand.scale]
      BY <1>5, <2>2, <3>1, <3>3, Zenon
    <3>5. right.scale >= operand.scale
      BY <2>1, <2>5
    <3> QED
      BY <3>4, <3>5, FormIsUnique
  <2> QED
    BY <2>4, <2>5
<1> QED
  BY <1>3, <1>4, <1>5

LEMMA AbsOfProduct ==
  ASSUME NEW a \in Int, NEW t \in Nat
  PROVE  Amounts!Abs(a * t) = Amounts!Abs(a) * t
<1>1. CASE a >= 0
  <2>1. a * t >= 0
    BY <1>1
  <2> QED
    BY <1>1, <2>1 DEF Amounts!Abs
<1>2. CASE a < 0
  <2>1. (-a) * t >= 0 /\ (-a) * t = -(a * t)
    BY <1>2
  <2>2. Amounts!Abs(a) = -a
    BY <1>2 DEF Amounts!Abs
  <2>3. a * t \in Int /\ a * t <= 0
    BY <2>1
  <2>4. Amounts!Abs(a * t) = -(a * t)
    BY <2>3 DEF Amounts!Abs
  <2> QED
    BY <2>1, <2>2, <2>4
<1> QED
  BY <1>1, <1>2

LEMMA RatioIs ==
  ASSUME IsDecimal(operand), IsDecimal(right), NEW d \in Amounts!Ratio
  PROVE  LET numerator == operand.coefficient * Amounts!TenTo[Precision]
             scale == operand.scale + Precision - right.scale IN
         /\ numerator \in Int /\ scale \in Nat /\ right.coefficient \in Int \ {0}
         /\ Amounts!Quotient(numerator, right.coefficient) \in Int
         /\ Stands(d, Amounts!Quotient(numerator, right.coefficient), scale)
<1> DEFINE numerator == operand.coefficient * Amounts!TenTo[Precision]
           scale == operand.scale + Precision - right.scale
           q == Amounts!Quotient(numerator, right.coefficient)
<1>1. right.coefficient # 0 /\ ~(scale < 0) /\ d = Amounts!New(q, scale)
  BY DEF Amounts!Ratio, Amounts!Failed
<1>2. Amounts!TenTo[Precision] \in Int
  BY LanguageAssumption, TenToIs
<1>3. /\ numerator \in Int /\ right.coefficient \in Int /\ scale \in Int
  BY <1>2, LanguageAssumption DEF IsDecimal
<1> HIDE DEF numerator, scale
<1>4. q \in Int
  BY <1>1, <1>3, QuotientIs
<1>5. scale \in Nat
  BY <1>1, <1>3
<1> HIDE DEF q
<1>6. Stands(d, q, scale)
  BY <1>1, <1>4, <1>5, NewStands
<1> QED
  BY <1>1, <1>3, <1>4, <1>5, <1>6 DEF numerator, scale, q

LEMMA RatioIsTruncated ==
  ASSUME IsDecimal(operand), IsDecimal(right), NEW d \in Amounts!Ratio
  PROVE  LET digits == operand.scale + Precision - right.scale
             q == Amounts!Abs(d.coefficient) * Amounts!TenTo[digits - d.scale]
             n == Amounts!Abs(operand.coefficient) * Amounts!TenTo[Precision]
             r == Amounts!Abs(right.coefficient) IN
         q * r <= n /\ n < (q + 1) * r
<1> DEFINE digits == operand.scale + Precision - right.scale
           numerator == operand.coefficient * Amounts!TenTo[Precision]
           quotient == Amounts!Quotient(numerator, right.coefficient)
           q == Amounts!Abs(d.coefficient) * Amounts!TenTo[digits - d.scale]
           n == Amounts!Abs(operand.coefficient) * Amounts!TenTo[Precision]
           r == Amounts!Abs(right.coefficient)
<1>1. /\ numerator \in Int /\ digits \in Nat /\ right.coefficient \in Int \ {0}
      /\ quotient \in Int /\ Stands(d, quotient, digits)
  BY RatioIs
<1>2. operand.coefficient \in Int /\ Amounts!TenTo[Precision] \in Nat
  BY LanguageAssumption, TenToIs DEF IsDecimal
<1>3. Amounts!Abs(numerator) = n
  BY <1>2, AbsOfProduct
<1>4. n \in Nat
  BY <1>1, <1>3, AbsIs
<1>5. r \in Nat \ {0}
  BY <1>1 DEF Amounts!Abs
<1>6. Amounts!Abs(quotient) = Amounts!Abs(numerator) \div r
  BY <1>1, QuotientIs
<1> HIDE DEF quotient, numerator, n, r, digits
<1>7. /\ d.coefficient \in Int /\ digits - d.scale \in Nat
      /\ quotient = d.coefficient * Amounts!TenTo[digits - d.scale]
  BY <1>1, StandsIs
<1> DEFINE t == Amounts!TenTo[digits - d.scale]
           k == d.coefficient
<1>8. t \in Nat /\ k \in Int /\ quotient = k * t /\ q = Amounts!Abs(k) * t
  BY <1>7, TenToIs
<1> HIDE DEF t, k, q
<1>9. Amounts!Abs(quotient) = q
  <2>1. Amounts!Abs(k * t) = Amounts!Abs(k) * t
    BY <1>8, AbsOfProduct
  <2> QED
    BY <1>8, <2>1
<1>10. q = n \div r
  BY <1>3, <1>6, <1>9
<1>11. q \in Nat /\ q * r <= n /\ n < q * r + r
  BY <1>4, <1>5, <1>10, DivIs
<1>12. (q + 1) * r = q * r + r
  BY <1>5, <1>11
<1>13. q * r <= n /\ n < (q + 1) * r
  BY <1>11, <1>12
<1> QED
  BY <1>13 DEF q, n, r, digits

LEMMA RoundedIsNearest ==
  ASSUME IsDecimal(operand), NEW factor \in Int, NEW amount \in Amounts!Rounded(factor)
  PROVE  LET exact == operand.coefficient * factor
             whole == Amounts!TenTo[operand.scale]
             nearest == (2 * Amounts!Abs(exact) + whole) \div (2 * whole) IN
         amount = IF exact < 0 THEN -nearest ELSE nearest
<1> DEFINE exact == operand.coefficient * factor
           whole == Amounts!TenTo[operand.scale]
           e == Amounts!Abs(exact)
           m == e \div whole
           quotient == Amounts!Quotient(exact, whole)
           rest == Amounts!Remainder(exact, whole)
           nearest == (2 * e + whole) \div (2 * whole)
<1>1. exact \in Int
  BY DEF IsDecimal
<1>2. whole \in Nat \ {0}
  BY TenToIs DEF IsDecimal
<1>3. amount = IF 2 * Amounts!Abs(rest) < whole THEN quotient
               ELSE IF exact >= 0 THEN quotient + 1 ELSE quotient - 1
  BY DEF Amounts!Rounded, Amounts!Failed
<1>4. rest = exact - whole * quotient
  BY DEF Amounts!Remainder
<1> HIDE DEF exact, whole, rest
<1>5. e \in Nat /\ (exact >= 0 => e = exact) /\ (exact < 0 => e = -exact)
  BY <1>1, AbsIs
<1>6. quotient = (IF exact < 0 THEN -m ELSE m)
  <2>1. whole > 0 /\ whole \in Int \ {0}
    BY <1>2
  <2> QED
    BY <1>1, <2>1, QuotientIs
<1> HIDE DEF e, quotient
<1>7. m \in Nat /\ m * whole <= e /\ e < m * whole + whole
  BY <1>2, <1>5, DivIs
<1>8. \A k \in Nat : k * (2 * whole) <= 2 * e + whole /\ 2 * e + whole < k * (2 * whole) + 2 * whole
                       => nearest = k
  <2>1. 2 * whole \in Nat \ {0} /\ 2 * e + whole \in Nat
    BY <1>2, <1>5
  <2> QED
    BY <2>1, DivOf
<1> HIDE DEF m, nearest
<1> DEFINE p == m * whole
<1>9. /\ p \in Int /\ p <= e /\ e < p + whole
      /\ whole * (-m) = -p /\ whole * m = p
      /\ m * (2 * whole) = 2 * p /\ (m + 1) * (2 * whole) = 2 * p + 2 * whole
  BY <1>2, <1>7
<1> HIDE DEF p
<1>10. Amounts!Abs(rest) = e - p
  <2>1. rest = IF exact < 0 THEN exact + p ELSE exact - p
    BY <1>1, <1>4, <1>6, <1>9
  <2> QED
    BY <1>1, <1>5, <1>9, <2>1 DEF Amounts!Abs
<1>11. nearest = IF 2 * (e - p) < whole THEN m ELSE m + 1
  <2>1. CASE 2 * (e - p) < whole
    <3>1. 2 * p <= 2 * e + whole /\ 2 * e + whole < 2 * p + 2 * whole
      BY <1>2, <1>5, <1>9, <2>1
    <3>2. m * (2 * whole) <= 2 * e + whole /\ 2 * e + whole < m * (2 * whole) + 2 * whole
      BY <1>9, <3>1
    <3>3. nearest = m
      BY <1>7, <1>8, <3>2
    <3> QED
      BY <2>1, <3>3
  <2>2. CASE ~(2 * (e - p) < whole)
    <3>1. 2 * p + 2 * whole <= 2 * e + whole /\ 2 * e + whole < (2 * p + 2 * whole) + 2 * whole
      BY <1>2, <1>5, <1>9, <2>2
    <3>2. /\ (m + 1) * (2 * whole) <= 2 * e + whole
          /\ 2 * e + whole < (m + 1) * (2 * whole) + 2 * whole
      BY <1>9, <3>1
    <3>3. m + 1 \in Nat
      BY <1>7
    <3>4. nearest = m + 1
      BY <1>8, <3>2, <3>3
    <3> QED
      BY <2>2, <3>4
  <2> QED
    BY <2>1, <2>2
<1>12. amount = IF exact < 0 THEN -nearest ELSE nearest
  BY <1>1, <1>3, <1>6, <1>7, <1>10, <1>11
<1> QED
  BY <1>12 DEF exact, whole, e, nearest

-----------------------------------------------------------------------------
(* An execution: the result is the one of the operation that was applied.  *)

AmountsInv ==
    /\ IsDecimal(operand) /\ IsDecimal(right)
    /\ op \in {"none", "add", "subtract", "multiply", "divide", "round", "cmp"}
    /\ op = "none" => result = {}
    /\ op = "add" => result = Amounts!Sum(1)
    /\ op = "subtract" => result = Amounts!Sum(-1)
    /\ op = "multiply" => result = Amounts!Product
    /\ op = "divide" => result = Amounts!Ratio
    /\ op = "round" => right.scale = 0 /\ result = Amounts!Rounded(right.coefficient)
    /\ op = "cmp" => result = Amounts!Order

LEMMA AmountsInit ==
  ASSUME Amounts!Init
  PROVE  AmountsInv
<1>1. \A d \in Amounts!Parsed : IsDecimal(d)
  <2> SUFFICES ASSUME NEW c \in -MaxDigits .. MaxDigits, NEW s \in 0 .. MaxScale
               PROVE  IsDecimal(Amounts!New(c, s))
    BY DEF Amounts!Parsed
  <2>1. c \in Int /\ s \in Nat
    BY LanguageAssumption
  <2> QED
    BY <2>1, NewStands DEF Stands
<1> QED
  BY <1>1 DEF Amounts!Init, Amounts!Failed, AmountsInv

LEMMA ResultIsDecimal ==
  ASSUME AmountsInv, op \in {"add", "subtract", "multiply", "divide"}, NEW d \in result
  PROVE  IsDecimal(d)
<1>1. IsDecimal(operand) /\ IsDecimal(right)
  BY DEF AmountsInv
<1>2. CASE op = "add"
  <2>1. d \in Amounts!Sum(1)
    BY <1>2 DEF AmountsInv
  <2> QED
    BY <1>1, <2>1, SumStands DEF Stands
<1>3. CASE op = "subtract"
  <2>1. d \in Amounts!Sum(-1)
    BY <1>3 DEF AmountsInv
  <2> QED
    BY <1>1, <2>1, SumStands DEF Stands
<1>4. CASE op = "multiply"
  <2>1. d \in Amounts!Product
    BY <1>4 DEF AmountsInv
  <2> QED
    BY <1>1, <2>1, ProductStands DEF Stands
<1>5. CASE op = "divide"
  <2>1. d \in Amounts!Ratio
    BY <1>5 DEF AmountsInv
  <2> QED
    BY <1>1, <2>1, RatioIs DEF Stands
<1> QED
  BY <1>2, <1>3, <1>4, <1>5

LEMMA AmountsStep ==
  ASSUME AmountsInv, [Amounts!Next]_<<operand, right, op, result, ops>>
  PROVE  AmountsInv'
<1>1. IsDecimal(operand) /\ IsDecimal(right)
  BY DEF AmountsInv
<1>2. ASSUME NEW kind, NEW given, Amounts!Apply(kind, given)
      PROVE  /\ op' = kind /\ result' = given
             /\ operand' = operand /\ right' = right
             /\ IsDecimal(operand)' /\ IsDecimal(right)'
  BY <1>1, <1>2 DEF Amounts!Apply, IsDecimal
<1>3. CASE Amounts!Apply("add", Amounts!Sum(1))
  <2>1. Amounts!Sum(1)' = Amounts!Sum(1)
    BY <1>2, <1>3 DEF Amounts!Sum, Amounts!CanAlign, Amounts!Aligned, Amounts!Scale
  <2> QED
    BY <1>2, <1>3, <2>1 DEF AmountsInv
<1>4. CASE Amounts!Apply("subtract", Amounts!Sum(-1))
  <2>1. Amounts!Sum(-1)' = Amounts!Sum(-1)
    BY <1>2, <1>4 DEF Amounts!Sum, Amounts!CanAlign, Amounts!Aligned, Amounts!Scale
  <2> QED
    BY <1>2, <1>4, <2>1 DEF AmountsInv
<1>5. CASE Amounts!Apply("multiply", Amounts!Product)
  <2>1. Amounts!Product' = Amounts!Product
    BY <1>2, <1>5 DEF Amounts!Product
  <2> QED
    BY <1>2, <1>5, <2>1 DEF AmountsInv
<1>6. CASE Amounts!Apply("divide", Amounts!Ratio)
  <2>1. Amounts!Ratio' = Amounts!Ratio
    BY <1>2, <1>6 DEF Amounts!Ratio
  <2> QED
    BY <1>2, <1>6, <2>1 DEF AmountsInv
<1>7. CASE right.scale = 0 /\ Amounts!Apply("round", Amounts!Rounded(right.coefficient))
  <2>1. Amounts!Rounded(right.coefficient)' = Amounts!Rounded(right.coefficient)
    BY <1>2, <1>7 DEF Amounts!Rounded
  <2> QED
    BY <1>2, <1>7, <2>1 DEF AmountsInv
<1>8. CASE Amounts!Apply("cmp", Amounts!Order)
  <2>1. /\ Amounts!CanAlign' = Amounts!CanAlign
        /\ Amounts!Aligned(operand)' = Amounts!Aligned(operand)
        /\ Amounts!Aligned(right)' = Amounts!Aligned(right)
    BY <1>2, <1>8 DEF Amounts!CanAlign, Amounts!Aligned, Amounts!Scale
  <2>2. Amounts!Order' = Amounts!Order
    BY <2>1 DEF Amounts!Order
  <2> QED
    BY <1>2, <1>8, <2>2 DEF AmountsInv
<1>9. CASE Amounts!Continue
  <2>1. /\ operand' \in result /\ right' = right /\ op' = "none" /\ result' = {}
        /\ op \in {"add", "subtract", "multiply", "divide"}
    BY <1>9 DEF Amounts!Continue, Amounts!Failed
  <2>2. IsDecimal(operand)' /\ IsDecimal(right)'
    BY <1>1, <2>1, ResultIsDecimal DEF IsDecimal
  <2> QED
    BY <2>1, <2>2 DEF AmountsInv
<1>10. CASE UNCHANGED <<operand, right, op, result, ops>>
  BY <1>10 DEF AmountsInv, IsDecimal, Amounts!Sum, Amounts!Product, Amounts!Ratio,
               Amounts!Rounded, Amounts!Order, Amounts!CanAlign, Amounts!Aligned,
               Amounts!Scale
<1> QED
  BY <1>3, <1>4, <1>5, <1>6, <1>7, <1>8, <1>9, <1>10 DEF Amounts!Next

LEMMA ExactThen ==
  ASSUME AmountsInv
  PROVE  Amounts!ResultIsExact
<1>1. IsDecimal(operand) /\ IsDecimal(right)
  BY DEF AmountsInv
<1> DEFINE l == operand.coefficient * Amounts!TenTo[right.scale]
           r == right.coefficient * Amounts!TenTo[operand.scale]
           digits == operand.scale + right.scale
<1>2. l \in Int /\ r \in Int
  <2>1. Amounts!TenTo[right.scale] \in Int /\ Amounts!TenTo[operand.scale] \in Int
    BY <1>1, TenToIs DEF IsDecimal
  <2> QED
    BY <1>1, <2>1 DEF IsDecimal
<1>3. ASSUME op = "add", NEW d \in result
      PROVE  d.coefficient * Amounts!TenTo[digits] = Amounts!TenTo[d.scale] * (l + r)
  <2>1. d \in Amounts!Sum(1)
    BY <1>3 DEF AmountsInv
  <2>2. d.coefficient * Amounts!TenTo[digits] = Amounts!TenTo[d.scale] * (l + 1 * r)
    BY <1>1, <2>1, SumIsExact
  <2> HIDE DEF l, r
  <2>3. l + 1 * r = l + r
    BY <1>2
  <2> QED
    BY <2>2, <2>3
<1>4. ASSUME op = "subtract", NEW d \in result
      PROVE  d.coefficient * Amounts!TenTo[digits] = Amounts!TenTo[d.scale] * (l - r)
  <2>1. d \in Amounts!Sum(-1)
    BY <1>4 DEF AmountsInv
  <2>2. d.coefficient * Amounts!TenTo[digits] = Amounts!TenTo[d.scale] * (l + (-1) * r)
    BY <1>1, <2>1, SumIsExact
  <2> HIDE DEF l, r
  <2>3. l + (-1) * r = l - r
    BY <1>2
  <2> QED
    BY <2>2, <2>3
<1>5. ASSUME op = "multiply", NEW d \in result
      PROVE  d.coefficient * Amounts!TenTo[digits]
               = Amounts!TenTo[d.scale] * (operand.coefficient * right.coefficient)
  <2>1. d \in Amounts!Product
    BY <1>5 DEF AmountsInv
  <2> QED
    BY <1>1, <2>1, ProductIsExact
<1> HIDE DEF l, r, digits
<1>6. op \in {"add", "subtract", "multiply"} => \A d \in result :
        d.coefficient * Amounts!TenTo[digits] = Amounts!TenTo[d.scale] *
            CASE op = "add" -> l + r
              [] op = "subtract" -> l - r
              [] op = "multiply" -> operand.coefficient * right.coefficient
  BY <1>3, <1>4, <1>5
<1> QED
  BY <1>6 DEF l, r, digits, Amounts!ResultIsExact

LEMMA OthersThen ==
  ASSUME AmountsInv
  PROVE  Amounts!EqualIsIdentical /\ Amounts!QuotientIsTruncated /\ Amounts!RoundsHalfAway
<1>1. IsDecimal(operand) /\ IsDecimal(right)
  BY DEF AmountsInv
<1>2. Amounts!EqualIsIdentical
  BY <1>1, OrderIsEquality DEF AmountsInv, Amounts!EqualIsIdentical, Amounts!Failed
<1>3. Amounts!QuotientIsTruncated
  <2> SUFFICES ASSUME op = "divide", NEW d \in result
               PROVE  LET digits == operand.scale + Precision - right.scale
                          q == Amounts!Abs(d.coefficient) * Amounts!TenTo[digits - d.scale]
                          n == Amounts!Abs(operand.coefficient) * Amounts!TenTo[Precision]
                          r == Amounts!Abs(right.coefficient) IN
                      q * r <= n /\ n < (q + 1) * r
    BY DEF Amounts!QuotientIsTruncated
  <2>1. d \in Amounts!Ratio
    BY DEF AmountsInv
  <2> QED
    BY <1>1, <2>1, RatioIsTruncated
<1>4. Amounts!RoundsHalfAway
  <2> SUFFICES ASSUME op = "round", NEW amount \in result
               PROVE  LET exact == operand.coefficient * right.coefficient
                          whole == Amounts!TenTo[operand.scale]
                          nearest == (2 * Amounts!Abs(exact) + whole) \div (2 * whole) IN
                      amount = IF exact < 0 THEN -nearest ELSE nearest
    BY DEF Amounts!RoundsHalfAway
  <2>1. amount \in Amounts!Rounded(right.coefficient) /\ right.coefficient \in Int
    BY <1>1 DEF AmountsInv, IsDecimal
  <2> QED
    BY <1>1, <2>1, RoundedIsNearest
<1> QED
  BY <1>2, <1>3, <1>4

LEMMA AmountsKept ==
  ASSUME part = "amounts" => AmountsInv,
         [PartsNext]_<<part, vars, flowVars, importVars, dateVars, amountVars>>
  PROVE  (part = "amounts" => AmountsInv)'
<1>1. /\ part' = part
      /\ part = "amounts" => [Amounts!Next]_<<operand, right, op, result, ops>>
  BY DEF PartsNext, amountVars
<1>2. CASE part = "amounts"
  BY <1>1, <1>2, AmountsStep
<1>3. CASE part # "amounts"
  BY <1>1, <1>3
<1> QED
  BY <1>2, <1>3

\* Every decimal that a program reaches has no zero at the end of its digits
\* after the point, so each value has one form.
THEOREM AmountsKeepForm == PartsSpec => [](part = "amounts" => AmountsInv)
<1>1. PartsInit => (part = "amounts" => AmountsInv)
  BY AmountsInit DEF PartsInit
<1> QED
  BY <1>1, AmountsKept, PTL DEF PartsSpec

\* decimal.rs, for every width and precision: sums, differences and products
\* are exact, equality of the fields is equality of the numbers, quotients are
\* truncated and amounts rounded half away from zero.
THEOREM AmountsAreAlwaysExact == PartsSpec => []AmountsAreExact
<1>1. (part = "amounts" => AmountsInv) => AmountsAreExact
  BY ExactThen, OthersThen DEF AmountsAreExact, Amounts!AmountsAreExact
<1> QED
  BY <1>1, AmountsKeepForm, PTL

-----------------------------------------------------------------------------
(* The interpreter, and the types of every part.                           *)

\* The interpreter runs, or stays as it is, in an execution of any part: what
\* RuntimeProofs shows of it holds here.
LEMMA PartsRun == PartsSpec => Spec
<1>1. PartsInit => Init
  BY DEF PartsInit
<1>2. [PartsNext]_<<part, vars, flowVars, importVars, dateVars, amountVars>> => [Next]_vars
  BY DEF PartsNext
<1> QED
  BY <1>1, <1>2, PTL DEF PartsSpec, Spec

\* Whichever part runs, for any program, files, years and nesting, its state is
\* of its type: frames, blocks, the open files and the date that is looked at.
THEOREM PartsAreTyped == PartsSpec => []PartsTypeOK
<1>1. /\ TypeOK /\ FlowInv
      /\ part = "imports" => ImportInv
      /\ part = "dates" => DatesInv
      => PartsTypeOK
  <2>1. FlowInv => (part = "check" => Flow!TypeOK)
    BY DEF FlowInv
  <2>2. ImportInv => Imports!TypeOK
    BY DEF ImportInv, WalkTypeOK
  <2>3. DatesInv => Dates!TypeOK
    BY CivilIsBack DEF DatesInv, IsDate, Dates!TypeOK
  <2> QED
    BY <2>1, <2>2, <2>3 DEF PartsTypeOK
<1> QED
  BY <1>1, PartsRun, TypeCorrect, FlowIsSound, WalkIsInOrder, DatesAreInStep, PTL

=============================================================================
