----------------------------- MODULE MCLanguage -----------------------------
(***************************************************************************)
(* The parts of the language for TLC, each in executions of its own: the   *)
(* initial state says whether the files of a program are put together, a   *)
(* body is checked, a program is run, or its dates and decimals are        *)
(* computed; the other parts stay as they are.                             *)
(***************************************************************************)
EXTENDS MCRuntime

CONSTANTS
    Options, Results, Variants, Nesting, Statements,
    Files, Paths, NoPath, m1, m2, Declared, x, MaxUses,
    FirstYear, LastYear,
    MaxCoefficient, Precision, MaxDigits, MaxScale, MaxOps

VARIABLES
    part,   \* the part that runs
    blocks, depth, left, written,
    path, uses, name, unit, open, line, visited, visible, unknown, duplicates,
    date, days,
    operand, right, op, result, ops

Flow ==
    INSTANCE FlowChecks WITH
        MaxDepth <- Nesting, MaxSteps <- Statements, steps <- written
Imports == INSTANCE ImportGraph WITH stack <- open, next <- line
Dates == INSTANCE CivilDates
Amounts == INSTANCE Decimals WITH left <- operand

flowVars == <<blocks, depth, left, written>>
importVars == <<path, uses, name, unit, open, line, visited, visible, unknown,
                duplicates>>
dateVars == <<date, days>>
amountVars == <<operand, right, op, result, ops>>

\* One representative of the programs that differ in the names of paths and
\* declarations only; a bound: the last file has at most one `use` line.
Representative ==
    /\ path \in [Files -> Paths \cup {NoPath}]
    /\ path[1] = m1 /\ path[2] \in {m1, m2, NoPath}
    /\ name \in [Files -> Declared]
    /\ name[1] = x
    /\ uses \in [Files -> Imports!UseLines]
    /\ Len(uses[3]) <= 1

PartsInit ==
    /\ part \in {"imports", "check", "run", "dates", "amounts"}
    /\ Init
    /\ Flow!Init
    /\ part = "check" \/ blocks[1].holds = [n \in Flow!Names |-> "bad"]
    /\ \/ part = "imports" /\ Representative /\ Imports!Init
       \/ /\ part # "imports"
          /\ path = [f \in Files |-> m1] /\ uses = [f \in Files |-> <<>>]
          /\ name = [f \in Files |-> x] /\ unit = 1
          /\ open = <<1>> /\ line = <<1>> /\ visited = {} /\ visible = <<>>
          /\ unknown = <<>> /\ duplicates = {}
    /\ \/ part = "dates" /\ Dates!Init
       \/ part # "dates" /\ date = Dates!Date(1970, 1, 1) /\ days = 0
    /\ \/ part = "amounts" /\ Amounts!Init
       \/ /\ part # "amounts"
          /\ operand = Amounts!Zero /\ right = Amounts!Zero
          /\ op = "none" /\ result = {} /\ ops = 0

PartsNext ==
    \/ /\ part = "run" /\ Next
       /\ UNCHANGED <<part, flowVars, importVars, dateVars, amountVars>>
    \/ /\ part = "check" /\ Flow!Next
       /\ ~left     \* a run that left its body shows nothing more
       /\ UNCHANGED <<part, vars, importVars, dateVars, amountVars>>
    \/ /\ part = "imports" /\ Imports!Next
       /\ UNCHANGED <<part, vars, flowVars, dateVars, amountVars>>
    \/ /\ part = "dates" /\ Dates!Next
       /\ UNCHANGED <<part, vars, flowVars, importVars, amountVars>>
    \/ /\ part = "amounts" /\ Amounts!Next
       /\ UNCHANGED <<part, vars, flowVars, importVars, dateVars>>

PartsSpec ==
    PartsInit /\ [][PartsNext]_<<part, vars, flowVars, importVars, dateVars, amountVars>>

-----------------------------------------------------------------------------
\* The bounds on bodies are numbers, and there is room for the body itself; the
\* files of a program are numbered; decimals have a number of digits.
ASSUME LanguageAssumption ==
    /\ Nesting \in Nat \ {0}
    /\ Statements \in Nat
    /\ Files \subseteq Nat
    /\ {Precision, MaxDigits, MaxScale} \subseteq Nat

-----------------------------------------------------------------------------
\* Each part's state is of its type.
PartsTypeOK ==
    /\ part = "run" => TypeOK
    /\ part = "check" => Flow!TypeOK
    /\ part = "imports" => Imports!TypeOK
    /\ part = "dates" => Dates!TypeOK

\* The properties of FlowChecks, ImportGraph, CivilDates and Decimals, stated
\* there.
AcceptedReadsSucceed == part = "check" => Flow!AcceptedReadsSucceed
EndsIsLeft == part = "check" => Flow!EndsIsLeft
ImportsInOrder == part = "imports" => Imports!ImportsInOrder
DatesAreDays == part = "dates" => Dates!DatesAreDays
AmountsAreExact == part = "amounts" => Amounts!AmountsAreExact
=============================================================================
