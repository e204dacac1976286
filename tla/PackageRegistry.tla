-------------------------- MODULE PackageRegistry ---------------------------
(***************************************************************************)
(* LocalRegistry (num-cli/src/registry.rs), with the lock file (package.rs)*)
(* and the version upgrade of dependencies (version_upgrade.rs), for one   *)
(* version of one package: `registry publish` copies the project into the  *)
(* registry, `registry install` copies the registry's package into the     *)
(* directory of installed packages, `lock` pins its content hash,          *)
(* `lock --check` compares it, and `upgrade-version --write-dependencies`  *)
(* rewrites its manifest where it lies.  Commands are processes without    *)
(* locks, so any of them overlap; files are removed and copied one by one, *)
(* a command can be killed anywhere, also inside the writing of a file, and*)
(* the project is edited at any time.  Install never reads num.lock.       *)
(***************************************************************************)
EXTENDS Naturals, FiniteSets

CONSTANTS
    Commands,   \* processes
    FileCount,  \* files of the package, in the order they are copied
    Manifest,   \* num.toml, one of them
    NoHash,     \* no metadata, no pin
    Garbled,    \* metadata, or a lock, that a killed command wrote in part
    MaxEdits,   \* bound: edits of the project
    MaxRuns     \* bound: commands started, those beside another counted double

VARIABLES
    project,    \* the project: a revision of each file
    copies,     \* the registry's package and the installed one
    lock,       \* the hash pinned in num.lock
    pc,         \* where each command stands
    job,        \* the kind of command, and --replace
    listed,     \* the files it collected
    hash,       \* the revisions of those it read
    runs,       \* commands started, counted so
    edits,      \* edits made
    made,       \* history: the packages publish hashed
    torn,       \* history: a publish was stopped, failed, or met another writer,
                \* and was not repeated alone
    dirty,      \* history: the project was edited since a publish began
    drifted,    \* history: it was edited inside the publish that is in place
    upgraded,   \* history: a manifest was rewritten in the registry since
    checked,    \* history: lock --check accepted, and since then no publish,
                \* upgrade or lock began
    overlapped  \* history: the commands that met one that disturbs them

dirs == <<project, copies, lock>>
locals == <<pc, job, listed, hash>>
history == <<made, torn, dirty, drifted, upgraded, checked,
             overlapped>>
vars == <<dirs, locals, runs, edits, history>>

Files == 1 .. FileCount
Missing == 0
Cut == MaxEdits + 2     \* a file copied in part, by a command that was killed
Nothing == [f \in Files |-> Missing]

\* SHA-256 of names and contents; what is hashed is what is compared.
Package == [Files -> Nat]
Copy == [there : BOOLEAN, files : Package, meta : Package \cup {NoHash, Garbled}]
Kinds == {"publish", "install", "lock", "check", "upgrade"}

ASSUME RegistryAssumption ==
    /\ FileCount \in Nat
    /\ Manifest \in Files
    /\ {NoHash, Garbled} \cap Package = {}
    /\ MaxEdits \in Nat
    /\ MaxRuns \in Nat

TypeOK ==
    /\ project \in Package
    /\ copies \in [{"registry", "installed"} -> Copy]
    /\ lock \in Package \cup {NoHash, Garbled}
    /\ pc \in [Commands -> {"idle", "scan", "rescan", "read", "reread", "place",
                            "clear", "copy", "write"}]
    /\ job \in [Commands -> [kind : Kinds, replace : BOOLEAN]]
    /\ listed \in [Commands -> SUBSET Files]
    /\ hash \in [Commands -> Package]
    /\ runs \in 0 .. MaxRuns
    /\ edits \in 0 .. MaxEdits
    /\ made \subseteq Package
    /\ {torn, dirty, drifted, upgraded, checked} \subseteq BOOLEAN
    /\ overlapped \subseteq Commands

Absent == [there |-> FALSE, files |-> Nothing, meta |-> NoHash]

NoJob == [kind |-> "check", replace |-> FALSE]

Init ==
    /\ project = [f \in Files |-> 1]
    /\ copies = [d \in {"registry", "installed"} |-> Absent]
    /\ lock = NoHash
    /\ pc = [c \in Commands |-> "idle"]
    /\ job = [c \in Commands |-> NoJob]
    /\ listed = [c \in Commands |-> {}]
    /\ hash = [c \in Commands |-> Nothing]
    /\ runs = 0
    /\ edits = 0
    /\ made = {}
    /\ torn = FALSE
    /\ dirty = FALSE
    /\ drifted = FALSE
    /\ upgraded = FALSE
    /\ checked = FALSE
    /\ overlapped = {}

-----------------------------------------------------------------------------
Goto(c, to) == pc' = [pc EXCEPT ![c] = to]

\* The command ends, with or without an error.
Done(c) ==
    /\ Goto(c, "idle")
    /\ listed' = [listed EXCEPT ![c] = {}]
    /\ hash' = [hash EXCEPT ![c] = Nothing]
    /\ job' = [job EXCEPT ![c] = NoJob]

Kind(c) == job[c].kind
Busy(c) == pc[c] # "idle"
Source(c) == IF Kind(c) = "publish" THEN project ELSE copies["registry"].files
Target(c) == IF Kind(c) = "publish" THEN "registry" ELSE "installed"
\* A command of kind k changes what one of kind l reads or writes.
Disturbs(k, l) ==
    \/ k \in {"publish", "upgrade"}
    \/ k = "install" /\ l = "install"
    \/ k = "lock" /\ l \in {"lock", "check"}

There(p) == {f \in Files : p[f] # Missing}

\* A file of the project is changed, or removed.
Edit(f) ==
    /\ edits < MaxEdits
    /\ edits' = edits + 1
    /\ \E rev \in {edits + 2, Missing} : project' = [project EXCEPT ![f] = rev]
    /\ dirty' = TRUE
    /\ UNCHANGED <<copies, lock, locals, runs, made, torn, drifted, upgraded, checked,
                   overlapped>>

\* Whom a command that starts disturbs, and whether it is disturbed.
Met(c, kind) ==
    {d \in Commands : Busy(d) /\ Disturbs(kind, Kind(d))}
        \cup {d \in {c} : \E e \in Commands : Busy(e) /\ Disturbs(Kind(e), kind)}

Start(c, kind, replace) ==
    /\ runs' = runs + (IF \E d \in Commands : Busy(d) THEN 2 ELSE 1)
    /\ runs' <= MaxRuns
    /\ ~Busy(c)
    /\ replace => kind \in {"publish", "install"}
    /\ Goto(c, "scan")
    /\ job' = [job EXCEPT ![c] = [kind |-> kind, replace |-> replace]]
    /\ dirty' = (dirty /\ kind # "publish")
    /\ checked' = (checked /\ kind \notin {"publish", "upgrade", "lock"})
    /\ overlapped' = (overlapped \ {c}) \cup Met(c, kind)
    /\ UNCHANGED <<dirs, listed, hash, edits, made, torn, drifted, upgraded>>

\* collect_package_files; to resolve a package its manifest must be there, to
\* validate it once more the directory.
Scan(c) ==
    /\ pc[c] \in {"scan", "rescan"}
    /\ IF \/ pc[c] = "scan" /\ Source(c)[Manifest] = Missing
          \/ pc[c] = "rescan" /\ ~copies["registry"].there
       THEN Done(c)
       ELSE /\ Goto(c, IF pc[c] = "scan" THEN "read" ELSE "reread")
            /\ listed' = [listed EXCEPT ![c] = There(Source(c))]
            /\ hash' = [hash EXCEPT ![c] = Nothing]
            /\ UNCHANGED job
    /\ UNCHANGED <<dirs, runs, edits, history>>

\* from_package reads the files that were listed; one may be gone.
Read(c) ==
    /\ pc[c] \in {"read", "reread"}
    /\ \E f \in listed[c] :
          /\ hash[c][f] = Missing
          /\ \A g \in listed[c] : g < f => hash[c][g] # Missing
          /\ IF Source(c)[f] = Missing THEN Done(c)
             ELSE /\ hash' = [hash EXCEPT ![c][f] = Source(c)[f]]
                  /\ UNCHANGED <<pc, job, listed>>
    /\ UNCHANGED <<dirs, runs, edits, history>>

WholeRead(c) == pc[c] \in {"read", "reread"} /\ listed[c] = There(hash[c])

\* Faulty variant: the metadata is not compared.
ValidAlways(c) == TRUE

\* validate_registry_metadata; without metadata any package is valid.
Valid(c) == copies["registry"].meta \in {NoHash, hash[c]}

\* The package is hashed: publish goes on to place it, the others validate it;
\* install resolves, and then validates again.
Hashed(c) ==
    /\ WholeRead(c)
    /\ IF Kind(c) = "publish" THEN Goto(c, "place")
       ELSE /\ Valid(c)
            /\ Goto(c, IF Kind(c) = "install" /\ pc[c] = "read" THEN "rescan"
                       ELSE IF Kind(c) = "install" THEN "place" ELSE "write")
    /\ made' = IF Kind(c) = "publish" THEN made \cup {hash[c]} ELSE made
    /\ UNCHANGED <<dirs, job, listed, hash, runs, edits, torn, dirty, drifted, upgraded,
                   checked, overlapped>>

Reject(c) ==
    /\ WholeRead(c)
    /\ Kind(c) # "publish"
    /\ ~Valid(c)
    /\ Done(c)
    /\ UNCHANGED <<dirs, runs, edits, history>>

-----------------------------------------------------------------------------
(* publish and install: the target is replaced.                            *)

Exists(c) == copies[Target(c)].there

\* Install lists the files once more.  Without --replace an existing target is
\* refused.
Place(c) ==
    /\ pc[c] = "place"
    /\ IF \/ Kind(c) = "install" /\ ~copies["registry"].there
          \/ Exists(c) /\ ~job[c].replace
       THEN Done(c)
       ELSE /\ Goto(c, "clear")
            /\ listed' = [listed EXCEPT ![c] =
                             IF Kind(c) = "install" THEN There(Source(c)) ELSE @]
            /\ UNCHANGED <<job, hash>>
    /\ UNCHANGED <<dirs, runs, edits, history>>

\* Faulty variant: what was there and is not listed stays.
ClearNothing(c) ==
    /\ pc[c] = "clear"
    /\ Goto(c, "copy")
    /\ UNCHANGED <<dirs, job, listed, hash, runs, edits, history>>

\* Whether the target exists is asked again.  remove_dir_all removes the entries
\* in any order, then the directory; where another command adds or removes some
\* meanwhile it may fail, with the outcome of Kill.
Clear(c) ==
    /\ pc[c] = "clear"
    /\ LET d == Target(c) IN
       \/ \E f \in There(copies[d].files) :
             copies' = [copies EXCEPT ![d].files[f] = Missing]
             /\ UNCHANGED pc
       \/ copies[d].meta # NoHash
          /\ copies' = [copies EXCEPT ![d].meta = NoHash]
          /\ UNCHANGED pc
       \/ There(copies[d].files) = {} /\ copies[d].meta = NoHash
          /\ copies' = [copies EXCEPT ![d] = Absent]
          /\ Goto(c, "copy")
    /\ UNCHANGED <<project, lock, job, listed, hash, runs, edits, history>>

\* The files are copied as they are now; one that is gone is an error.
CopyFile(c) ==
    /\ pc[c] = "copy"
    /\ \E f \in listed[c] :
          /\ \A g \in listed[c] : f <= g
          /\ IF Source(c)[f] = Missing
             THEN /\ Done(c) /\ UNCHANGED copies
                  /\ torn' = (torn \/ Kind(c) = "publish")
             ELSE /\ copies' = [copies EXCEPT ![Target(c)].there = TRUE,
                                              ![Target(c)].files[f] = Source(c)[f]]
                  /\ listed' = [listed EXCEPT ![c] = @ \ {f}]
                  /\ UNCHANGED <<pc, job, hash, torn>>
    /\ UNCHANGED <<project, lock, runs, edits, made, dirty, drifted, upgraded, checked,
                   overlapped>>

\* write_to: the hash that was computed before the files were copied.
WriteMeta(c) ==
    /\ pc[c] = "copy"
    /\ listed[c] = {}
    /\ copies' = [copies EXCEPT ![Target(c)].there = TRUE, ![Target(c)].meta = hash[c]]
    /\ Done(c)
    /\ torn' = IF Kind(c) = "publish" THEN c \in overlapped ELSE torn
    /\ upgraded' = (upgraded /\ Kind(c) # "publish")
    /\ drifted' = IF Kind(c) = "publish" THEN dirty ELSE drifted
    /\ UNCHANGED <<project, lock, runs, edits, made, dirty, checked, overlapped>>

-----------------------------------------------------------------------------
(* lock, lock --check and the version upgrade, of what was resolved.       *)

Pin(c) ==
    /\ pc[c] = "write" /\ Kind(c) = "lock"
    /\ lock' = hash[c]
    /\ Done(c)
    /\ UNCHANGED <<project, copies, runs, edits, history>>

Check(c) ==
    /\ pc[c] = "write" /\ Kind(c) = "check"
    /\ checked' = (c \notin overlapped /\ lock = hash[c])
    /\ Done(c)
    /\ UNCHANGED <<dirs, runs, edits, made, torn, dirty, drifted, upgraded, overlapped>>

\* The manifest is read again and written in place; the metadata beside it,
\* which holds its hash, is not.
Upgrade(c) ==
    /\ pc[c] = "write" /\ Kind(c) = "upgrade"
    /\ edits < MaxEdits
    /\ edits' = edits + 1
    /\ IF copies["registry"].files[Manifest] = Missing THEN UNCHANGED copies
       ELSE copies' = [copies EXCEPT !["registry"].files[Manifest] = edits + 2]
    /\ Done(c)
    /\ upgraded' = TRUE
    /\ UNCHANGED <<project, lock, runs, made, torn, dirty, drifted, checked, overlapped>>

\* What fs::copy and fs::write, which write in place, leave of a file when the
\* command is killed inside them.
HalfWritten(c) ==
    LET d == Target(c) IN
    \/ /\ pc[c] = "copy"
       /\ \/ \E f \in listed[c] :
                /\ \A g \in listed[c] : f <= g
                /\ copies' = [copies EXCEPT ![d].there = TRUE, ![d].files[f] = Cut]
          \/ /\ listed[c] = {}
             /\ copies' = [copies EXCEPT ![d].there = TRUE, ![d].meta = Garbled]
       /\ UNCHANGED lock
    \/ /\ pc[c] = "write" /\ Kind(c) = "upgrade"
       /\ copies["registry"].files[Manifest] # Missing
       /\ copies' = [copies EXCEPT !["registry"].files[Manifest] = Cut]
       /\ UNCHANGED lock
    \/ /\ pc[c] = "write" /\ Kind(c) = "lock"
       /\ lock' = Garbled
       /\ UNCHANGED copies

\* Ctrl-C, or the machine stops.
Kill(c) ==
    /\ Busy(c)
    /\ HalfWritten(c) \/ UNCHANGED <<copies, lock>>
    /\ Done(c)
    /\ torn' = (torn \/ (Kind(c) = "publish" /\ pc[c] \in {"clear", "copy"}))
    /\ upgraded' = (upgraded \/ (Kind(c) = "upgrade" /\ pc[c] = "write"))
    /\ UNCHANGED <<project, runs, edits, made, dirty, drifted, checked, overlapped>>

Next ==
    \/ \E f \in Files : Edit(f)
    \/ \E c \in Commands :
          \/ \E kind \in Kinds, replace \in BOOLEAN : Start(c, kind, replace)
          \/ Scan(c) \/ Read(c) \/ Hashed(c) \/ Reject(c)
          \/ Place(c) \/ Clear(c) \/ CopyFile(c) \/ WriteMeta(c)
          \/ Pin(c) \/ Check(c) \/ Upgrade(c)
          \/ Kill(c)

Spec == Init /\ [][Next]_vars

-----------------------------------------------------------------------------
(* Properties.                                                             *)

Installs(c) == WriteMeta(c) /\ Kind(c) = "install"

\* An install that met no writer puts in place, whole, what it validated, and
\* that is a package publish hashed, unless a publish was left unfinished: one
\* that was edited while it was published, or whose manifest was rewritten
\* later, is refused.
InstalledIsPublished ==
    \A c \in Commands : Installs(c) /\ c \notin overlapped =>
        /\ copies["installed"].files = hash[c]
        /\ ~torn => hash[c] \in made

\* And it is what the lock names only as long as nobody began to publish, to
\* upgrade or to lock since lock --check accepted it; also of a package that a
\* stopped publish left behind.
InstalledIsLocked ==
    \A c \in Commands : Installs(c) /\ c \notin overlapped /\ checked =>
        copies["installed"].files = lock

\* Both hold of every install, of any interleaving.
InstalledIsTrue == [][InstalledIsPublished /\ InstalledIsLocked]_vars

Publishing == \E c \in Commands : Busy(c) /\ Kind(c) = "publish"

\* A package in the registry can be resolved, unless it was edited while it was
\* published, an upgrade rewrote it, or its publish was stopped, failed or met
\* another writer.  What those leave is cleared by the next publish.
PublishedResolves ==
    LET r == copies["registry"] IN
    ~torn /\ ~drifted /\ ~upgraded /\ ~Publishing /\ r.there
        => r.meta = r.files
=============================================================================
