----------------------------- MODULE ImportGraph -----------------------------
(***************************************************************************)
(* How a program of several source files is put together (num-compiler,    *)
(* program.rs): module_index finds the file of each module path, and       *)
(* visible_module walks the `use` declarations of one file depth first and *)
(* puts the declarations it meets before those of the file itself, which   *)
(* is then checked for duplicate names (semantic.rs).  Each file has one   *)
(* declaration.                                                            *)
(***************************************************************************)
EXTENDS Naturals, Sequences, FiniteSets, SequencesExt

CONSTANTS
    Files,      \* source files, in the order they are given: 1 .. n
    Paths,      \* module paths
    NoPath,     \* a file without a `module` line
    Declared,   \* names of declarations
    MaxUses     \* bound: `use` lines of a file

VARIABLES
    path,       \* the module path of each file
    uses,       \* its `use` lines
    name,       \* the name it declares
    unit,       \* the file that is checked
    stack,      \* collect_imports: the files that are open, the innermost last
    next,       \* the `use` line that each of them is at
    visited,    \* the paths met
    visible,    \* the files whose declarations are visible, in order
    unknown,    \* the paths reported as unknown (N1002)
    duplicates  \* the names reported as duplicates (N1000)

input == <<path, uses, name, unit>>
vars == <<input, stack, next, visited, visible, unknown, duplicates>>

UseLines == {s \in SeqOf(Paths, MaxUses) : IsInjective(s)}

TypeOK ==
    /\ path \in [Files -> Paths \cup {NoPath}]
    /\ uses \in [Files -> Seq(Paths)]
    /\ name \in [Files -> Declared]
    /\ unit \in Files
    /\ stack \in Seq(Files)
    /\ next \in Seq(Nat)
    /\ Len(next) = Len(stack)
    /\ visited \subseteq Paths
    /\ visible \in Seq(Files)
    /\ unknown \in Seq(Paths)
    /\ duplicates \subseteq Declared

Init ==
    /\ path \in [Files -> Paths \cup {NoPath}]
    /\ uses \in [Files -> UseLines]
    /\ name \in [Files -> Declared]
    /\ unit \in Files
    /\ stack = <<unit>>
    /\ next = <<1>>
    /\ visited = {}
    /\ visible = <<>>
    /\ unknown = <<>>
    /\ duplicates = {}

-----------------------------------------------------------------------------
\* module_index: of the files with one path only the first is found.
Found(p) == {f \in Files : path[f] = p /\ \A g \in Files : path[g] = p => f <= g}

Top == stack[Len(stack)]
Line == next[Len(next)]
Import == uses[Top][Line]
AtImport == stack # <<>> /\ Line <= Len(uses[Top])

Advance == [next EXCEPT ![Len(next)] = @ + 1]

Seen ==
    /\ AtImport
    /\ Import \in visited
    /\ next' = Advance
    /\ UNCHANGED <<input, stack, visited, visible, unknown, duplicates>>

\* A path is met before it is looked up, so it is reported once.
Unknown ==
    /\ AtImport
    /\ Import \notin visited
    /\ Found(Import) = {}
    /\ visited' = visited \cup {Import}
    /\ unknown' = Append(unknown, Import)
    /\ next' = Advance
    /\ UNCHANGED <<input, stack, visible, duplicates>>

\* The set `resolving` that is kept beside `visited` is a subset of it and
\* never decides anything.
Enter ==
    /\ AtImport
    /\ Import \notin visited
    /\ \E f \in Found(Import) : stack' = Append(stack, f)
    /\ next' = Append(Advance, 1)
    /\ visited' = visited \cup {Import}
    /\ UNCHANGED <<input, visible, unknown, duplicates>>

AtEnd == stack # <<>> /\ Line > Len(uses[Top])

LeaveInFront ==
    /\ AtEnd /\ Len(stack) > 1
    /\ visible' = <<Top>> \o visible
    /\ stack' = Front(stack) /\ next' = Front(next)
    /\ UNCHANGED <<input, visited, unknown, duplicates>>

Leave ==
    /\ AtEnd /\ Len(stack) > 1
    /\ visible' = Append(visible, Top)
    /\ stack' = Front(stack) /\ next' = Front(next)
    /\ UNCHANGED <<input, visited, unknown, duplicates>>

\* duplicate_declarations: a name that was seen before.
Repeated(files) ==
    {name[files[i]] : i \in {j \in 1 .. Len(files) :
                                \E k \in 1 .. j - 1 : name[files[k]] = name[files[j]]}}

\* The file itself comes last, and is not in `visited` unless it is imported.
Check ==
    /\ AtEnd /\ Len(stack) = 1
    /\ visible' = Append(visible, unit)
    /\ duplicates' = Repeated(visible')
    /\ stack' = <<>> /\ next' = <<>>
    /\ UNCHANGED <<input, visited, unknown>>

Next == Seen \/ Unknown \/ Enter \/ Leave \/ Check

Spec == Init /\ [][Next]_vars

-----------------------------------------------------------------------------
(* What the walk should find, by reference to the graph.                   *)

Used(f) == UNION {Found(uses[f][i]) : i \in DOMAIN uses[f]}

\* The files that can be reached from f in one use or more: those in every set
\* that has what f uses and what its own members use.
Reached(f) ==
    {g \in Files : \A files \in SUBSET Files :
        (\A h \in files \cup {f} : Used(h) \subseteq files) => g \in files}

Imported == Front(visible)
Done == stack = <<>>

\* Every file that a chain of uses leads to is visible, exactly once, and no
\* other is, whatever the shape of the graph.
VisibleIsReached ==
    Done => IsInjective(Imported) /\ ToSet(Imported) = Reached(unit)

\* A file comes after the files it uses; the files of a cycle, which have no
\* such order, excepted.
UsesComeFirst ==
    Done => \A i \in 1 .. Len(Imported) :
        \A g \in Used(Imported[i]) :
            Imported[i] \in Reached(g) \/ \E j \in 1 .. i - 1 : Imported[j] = g

\* A name is reported as a duplicate only if two visible files declare it, or
\* the file is on a cycle of uses and so is a duplicate of itself.
DuplicatesAreReal ==
    Done => \A n \in duplicates :
        \/ \E f, g \in Reached(unit) \cup {unit} : f # g /\ name[f] = n /\ name[g] = n
        \/ n = name[unit] /\ unit \in Reached(unit)

\* A path without a file is reported exactly once, however many files use it.
UnknownIsReported ==
    Done =>
        /\ IsInjective(unknown)
        /\ ToSet(unknown) = {p \in UNION {ToSet(uses[f]) : f \in Reached(unit) \cup {unit}} :
                                Found(p) = {}}

\* Over chains, diamonds and cycles of imports, with files that are missing or
\* declare the same names: what is visible, in which order, and what is
\* reported is what the graph says.
ImportsInOrder ==
    VisibleIsReached /\ UsesComeFirst /\ DuplicatesAreReal /\ UnknownIsReported
=============================================================================
