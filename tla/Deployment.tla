------------------------------ MODULE Deployment ------------------------------
(***************************************************************************)
(* `num deploy --apply` writes an artifact directory (num-cli/src/deploy.rs,*)
(* materialize_deployment_artifact), file by file; the process may be      *)
(* killed between any two, and be started again.  The project is edited    *)
(* while it runs: the program is in memory from the start, num.toml and    *)
(* num.lock are copied from the disk.                                      *)
(***************************************************************************)
EXTENDS Naturals, Sequences, SequencesExt

CONSTANTS
    Sources,        \* source files a version of the program may have
    MaxVersions     \* bound: versions of the project

VARIABLES
    project,    \* the version on the disk
    sources,    \* the source files of each version
    locked,     \* the versions that have a valid num.lock
    there,      \* the artifact directory exists
    file,       \* the version of each file in it
    todo,       \* the files that the process has yet to write
    stage,      \* what it is doing
    loaded,     \* the version it has in memory
    torn        \* history: the last removal of the directory was stopped

vars == <<project, sources, locked, there, file, todo, stage, loaded, torn>>

Absent == 0     \* a file that is not there
Versions == 1 .. MaxVersions
Files == Sources \cup {"num-deploy.json", "num.toml", "num.lock", "deploy",
                       "manifest.json", "RUNBOOK.md"}
Left == {f \in Files : file[f] # Absent}

TypeOK ==
    /\ project \in Versions
    /\ sources \in [Versions -> SUBSET Sources]
    /\ locked \subseteq Versions
    /\ there \in BOOLEAN
    /\ file \in [Files -> Versions \cup {Absent}]
    /\ ToSet(todo) \subseteq Files
    /\ stage \in {"idle", "remove", "create", "write", "done"}
    /\ loaded \in Versions
    /\ torn \in BOOLEAN

Init ==
    /\ project = 1
    /\ sources \in [Versions -> SUBSET Sources]
    /\ locked \in SUBSET Versions
    /\ there = FALSE
    /\ file = [f \in Files |-> Absent]
    /\ todo = <<>>
    /\ stage = "idle"
    /\ loaded = 1
    /\ torn = FALSE

\* The files of a version, in the order in which they are written.
Plan(v) ==
    <<"num-deploy.json", "num.toml">>
    \o (IF v \in locked THEN <<"num.lock">> ELSE <<>>)
    \o SetToSeq(sources[v])
    \o <<"deploy", "manifest.json", "RUNBOOK.md">>

\* The lockfile is there and valid, or not there; the directory is not, or
\* is to be replaced; otherwise the command ends with nothing done.
Start(over) ==
    /\ stage \in {"idle", "done"}
    /\ there => over
    /\ loaded' = project
    /\ todo' = Plan(project)
    /\ stage' = IF there THEN "remove" ELSE "create"
    /\ UNCHANGED <<project, sources, locked, there, file, torn>>

\* remove_dir_all takes the files in the order the directory has them.
RemoveFile ==
    /\ stage = "remove"
    /\ \E f \in Left : file' = [file EXCEPT ![f] = Absent]
    /\ torn' = TRUE
    /\ UNCHANGED <<project, sources, locked, there, todo, stage, loaded>>

RemoveDir ==
    /\ stage = "remove"
    /\ Left = {}
    /\ stage' = "create"
    /\ there' = FALSE
    /\ torn' = FALSE
    /\ UNCHANGED <<project, sources, locked, file, todo, loaded>>

Create ==
    /\ stage = "create"
    /\ stage' = "write"
    /\ there' = TRUE
    /\ UNCHANGED <<project, sources, locked, file, todo, loaded, torn>>

\* Faulty variant: the files are written in any order.
WriteAny ==
    /\ stage = "write"
    /\ \E f \in ToSet(todo) :
        /\ file' = [file EXCEPT ![f] = IF f \in {"num.toml", "num.lock"} THEN project
                                       ELSE loaded]
        /\ todo' = SelectSeq(todo, LAMBDA g : g # f)
    /\ UNCHANGED <<project, sources, locked, there, stage, loaded, torn>>

\* write_text and copy_file.  A lockfile that has gone is an error.
Write ==
    /\ stage = "write"
    /\ todo # <<>>
    /\ Head(todo) = "num.lock" => project \in locked
    /\ file' = [file EXCEPT ![Head(todo)] =
          IF Head(todo) \in {"num.toml", "num.lock"} THEN project ELSE loaded]
    /\ todo' = Tail(todo)
    /\ UNCHANGED <<project, sources, locked, there, stage, loaded, torn>>

Finish ==
    /\ stage = "write"
    /\ todo = <<>>
    /\ stage' = "done"
    /\ UNCHANGED <<project, sources, locked, there, file, todo, loaded, torn>>

\* The process is killed, or an error ends it.
Stop ==
    /\ stage \in {"remove", "create", "write"}
    /\ stage' = "idle"
    /\ todo' = <<>>
    /\ UNCHANGED <<project, sources, locked, there, file, loaded, torn>>

Edit ==
    /\ project < MaxVersions
    /\ project' = project + 1
    /\ UNCHANGED <<sources, locked, there, file, todo, stage, loaded, torn>>

Next ==
    \/ \E over \in BOOLEAN : Start(over)
    \/ RemoveFile \/ RemoveDir \/ Create \/ Write \/ Finish \/ Stop \/ Edit

Spec == Init /\ [][Next]_vars

-----------------------------------------------------------------------------
(* Properties.                                                             *)

\* The files that come from memory are those of version v and no other.
IsOf(v) ==
    /\ \A f \in {"num-deploy.json", "deploy"} \cup sources[v] : file[f] = v
    /\ \A f \in Sources \ sources[v] : file[f] = Absent
    /\ file["num.toml"] # Absent
    /\ file["num.lock"] # Absent <=> v \in locked

\* manifest.json is written after all that it lists: an artifact that has it,
\* after any sequence of deployments and kills, is one whole version, unless
\* the removal of an older one was stopped half-way.
ManifestMeansWhole ==
    file["manifest.json"] # Absent /\ ~torn => IsOf(file["manifest.json"])

\* A deployment that is reported leaves one whole version with its runbook
\* and nothing else, whatever stopped deployments left behind before.
ReportedIsWhole ==
    stage = "done" =>
        /\ IsOf(loaded)
        /\ file["manifest.json"] = loaded /\ file["RUNBOOK.md"] = loaded

\* An artifact that looks finished is finished: by its manifest, whatever was
\* stopped, and by the report of the command.
ArtifactIsWhole == ManifestMeansWhole /\ ReportedIsWhole
=============================================================================
