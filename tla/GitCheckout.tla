----------------------------- MODULE GitCheckout -----------------------------
(***************************************************************************)
(* One git dependency of a project (num-cli/src/package.rs): `num lock`    *)
(* and every command that loads the program resolve it in the directory    *)
(* .num-git/<name>-<hash>, whose name depends on the selector.  A resolve  *)
(* is a sequence of git commands, then the manifest is read and HEAD is    *)
(* recorded.  Each git command is a step, what it does is git's own        *)
(* behaviour; it fails where another one holds the lock file it needs, or  *)
(* was killed and left it.  Commands of several processes interleave, but  *)
(* assumed is that the first one, which clones, is alone and not killed.   *)
(***************************************************************************)
EXTENDS Naturals

CONSTANTS
    Users,      \* processes that resolve the dependency
    PinnedRev,  \* the revision that a rev selector names
    NoRev,      \* no revision, no answer
    MaxRevs     \* bound: revisions ever pushed

VARIABLES
    selector,   \* of the dependency in num.toml
    remote,     \* the revisions that origin has, and its references
    up,         \* origin can be reached
    cache,      \* the checkout: its revisions and references, HEAD's revision
    left,       \* what a killed git left: the lock of the index, of the references
    step,       \* where each process stands
    manifest,   \* the revision whose num.toml it read
    answer,     \* the one it recorded
    latest,     \* revisions pushed
    since,      \* history: what the branch has been since the process started
    cached,     \* history: the pin was in the cache when the process started
    alone       \* history: no lock was left then, and no other process is there since

origin == <<remote, up, latest>>
read == <<manifest, answer>>
history == <<since, cached, alone>>
vars == <<selector, origin, cache, left, step, read, history>>

Revs == 1 .. MaxRevs
Some == Revs \cup {NoRev}
Refs == {"main", "release", "tag"}
Remote == [revs : SUBSET Revs, main : Revs, release : Revs, tag : Revs]
\* release is the local branch, which exists from its first checkout on.
Cache == [revs : SUBSET Revs, release : Some, fetched : Some, tag : Some,
          head : Some]
NoCache == [revs |-> {}, release |-> NoRev, fetched |-> NoRev, tag |-> NoRev,
            head |-> NoRev]

TypeOK ==
    /\ selector \in {"rev", "tag", "branch", "none"}
    /\ remote \in Remote
    /\ up \in BOOLEAN
    /\ cache \in Cache
    /\ left \subseteq {"index", "refs"}
    /\ step \in [Users -> {"idle", "clone", "pin", "fetch", "select", "again", "read",
                           "head"}]
    /\ manifest \in [Users -> Some]
    /\ answer \in [Users -> Some]
    /\ latest \in Revs
    /\ since \in [Users -> SUBSET Revs]
    /\ {cached, alone} \subseteq [Users -> BOOLEAN]

Init ==
    /\ selector \in {"rev", "tag", "branch", "none"}
    /\ remote = [revs |-> {1}, main |-> 1, release |-> 1, tag |-> 1]
    /\ up = TRUE
    /\ cache = NoCache
    /\ left = {}
    /\ step = [u \in Users |-> "idle"]
    /\ manifest = [u \in Users |-> NoRev]
    /\ answer = [u \in Users |-> NoRev]
    /\ latest = 1
    /\ since = [u \in Users |-> {}]
    /\ cached = [u \in Users |-> FALSE]
    /\ alone = [u \in Users |-> FALSE]

-----------------------------------------------------------------------------
(* The repository the dependency comes from.                               *)

\* A reference moves to a new revision; a forced push drops the old one.
Push(ref, forced) ==
    /\ latest < MaxRevs
    /\ latest' = latest + 1
    /\ remote' = [remote EXCEPT
          ![ref] = latest + 1,
          !.revs = {latest + 1} \cup IF ~forced THEN @
                   ELSE (@ \ {remote[ref]}) \cup {remote[r] : r \in Refs \ {ref}}]
    /\ since' = [u \in Users |-> since[u] \cup {remote'.release}]
    /\ UNCHANGED <<selector, up, cache, left, step, read, cached, alone>>

Reach ==
    /\ up' = ~up
    /\ UNCHANGED <<selector, remote, latest, cache, left, step, read, history>>

-----------------------------------------------------------------------------
(* load_git_dependency_manifest.                                           *)

Goto(u, to) == step' = [step EXCEPT ![u] = to]

Others(u) == Users \ {u}

\* checkout_git_dependency branches on the presence of .git.
Start(u) ==
    /\ step[u] = "idle"
    /\ \A v \in Users : step[v] # "clone"
    /\ cache = NoCache => \A v \in Users : step[v] = "idle"
    /\ Goto(u, IF cache = NoCache THEN "clone"
               ELSE IF selector = "rev" THEN "pin" ELSE "fetch")
    /\ manifest' = [manifest EXCEPT ![u] = NoRev]
    /\ answer' = [answer EXCEPT ![u] = NoRev]
    /\ since' = [since EXCEPT ![u] = {remote.release}]
    /\ cached' = [cached EXCEPT ![u] = PinnedRev \in cache.revs]
    /\ alone' = [v \in Users |->
                    v = u /\ left = {} /\ \A w \in Others(u) : step[w] = "idle"]
    /\ UNCHANGED <<selector, origin, cache, left>>

\* git clone checks the default branch out; a failed one leaves nothing.
Clone(u) ==
    /\ step[u] = "clone"
    /\ IF ~up THEN Goto(u, "idle") /\ UNCHANGED cache
       ELSE /\ Goto(u, "select")
            /\ cache' = [revs |-> remote.revs, release |-> NoRev,
                         fetched |-> remote.release, tag |-> remote.tag,
                         head |-> remote.main]
    /\ UNCHANGED <<selector, origin, left, read, history>>

\* git checkout needs the lock of the index, git fetch those of references that
\* move: another process may hold it, or a killed git has left it.
CanCheckOut == "index" \notin left
MayFailToCheckOut(u) ==
    ~CanCheckOut \/ \E v \in Others(u) : step[v] \in {"pin", "select", "again"}
CanFetch == "refs" \notin left \/ cache.fetched = remote.release
MayFailToFetch(u) == "refs" \in left \/ \E v \in Others(u) : step[v] = "fetch"

\* A revision that is there is checked out without a fetch.  That is_ok()
\* takes any failure to do so for a revision that is not there.
Pinned(u) ==
    /\ step[u] = "pin"
    /\ \/ /\ PinnedRev \in cache.revs /\ CanCheckOut
          /\ Goto(u, "read") /\ cache' = [cache EXCEPT !.head = PinnedRev]
       \/ /\ PinnedRev \notin cache.revs \/ MayFailToCheckOut(u)
          /\ Goto(u, "fetch") /\ UNCHANGED cache
    /\ UNCHANGED <<selector, origin, left, read, history>>

\* git fetch --tags: remote-tracking branches follow, a tag that is there is
\* not clobbered, and then the command fails although it fetched.
Fetch(u) ==
    /\ step[u] = "fetch"
    /\ \/ /\ up /\ CanFetch
          /\ Goto(u, IF cache.tag = remote.tag THEN "select" ELSE "idle")
          /\ cache' = [cache EXCEPT !.revs = @ \cup remote.revs,
                                    !.fetched = remote.release]
       \/ /\ up /\ MayFailToFetch(u)
          /\ Goto(u, "idle")
          /\ cache' = [cache EXCEPT !.revs = @ \cup remote.revs]
       \/ /\ ~up
          /\ Goto(u, "idle") /\ UNCHANGED cache
    /\ UNCHANGED <<selector, origin, left, read, history>>

\* Faulty variant: a revision that is not there is not an error.
SelectIfThere(u) ==
    /\ step[u] = "select"
    /\ Goto(u, "read")
    /\ cache' = [cache EXCEPT !.head = IF selector = "rev" /\ PinnedRev \in cache.revs
                                       THEN PinnedRev ELSE @]
    /\ UNCHANGED <<selector, origin, left, read, history>>

\* checkout_git_selector: git checkout of a branch name takes the local
\* branch, and makes it of the remote-tracking one only if it is not there.
\* Without selector HEAD stays.
Select(u) ==
    /\ step[u] = "select"
    /\ LET branch == IF cache.release = NoRev THEN cache.fetched
                     ELSE cache.release IN
       \/ /\ selector = "none"
          /\ Goto(u, "read") /\ UNCHANGED cache
       \/ /\ selector # "none" /\ CanCheckOut
          /\ selector = "rev" => PinnedRev \in cache.revs
          /\ Goto(u, "read")
          /\ \/ selector = "rev" /\ cache' = [cache EXCEPT !.head = PinnedRev]
             \/ selector = "tag" /\ cache' = [cache EXCEPT !.head = cache.tag]
             \/ /\ selector = "branch"
                /\ cache' = [cache EXCEPT !.release = branch, !.head = branch]
       \/ /\ selector # "none"
          /\ (selector = "rev" /\ PinnedRev \notin cache.revs) \/ MayFailToCheckOut(u)
          /\ Goto(u, "again") /\ UNCHANGED cache
    /\ UNCHANGED <<selector, origin, left, read, history>>

\* After any failure origin/<selector> is tried, which only a branch has.
SelectAgain(u) ==
    /\ step[u] = "again"
    /\ \/ /\ selector = "branch" /\ CanCheckOut
          /\ Goto(u, "read") /\ cache' = [cache EXCEPT !.head = cache.fetched]
       \/ /\ selector # "branch" \/ MayFailToCheckOut(u)
          /\ Goto(u, "idle") /\ UNCHANGED cache
    /\ UNCHANGED <<selector, origin, left, read, history>>

Read(u) ==
    /\ step[u] = "read"
    /\ Goto(u, "head")
    /\ manifest' = [manifest EXCEPT ![u] = cache.head]
    /\ UNCHANGED <<selector, origin, cache, left, answer, history>>

\* git rev-parse HEAD, which num.lock records.
Head(u) ==
    /\ step[u] = "head"
    /\ Goto(u, "idle")
    /\ answer' = [answer EXCEPT ![u] = cache.head]
    /\ UNCHANGED <<selector, origin, cache, left, manifest, history>>

\* The git that runs may leave its lock, or files of the checkout that it had
\* changed, over which git does not check out either.
Kill(u) ==
    /\ step[u] \notin {"idle", "clone"}
    /\ Goto(u, "idle")
    /\ \/ UNCHANGED left
       \/ step[u] \in {"pin", "select", "again"} /\ left' = left \cup {"index"}
       \/ step[u] = "fetch" /\ left' = left \cup {"refs"}
    /\ UNCHANGED <<selector, origin, cache, read, history>>

Command(u) ==
    \/ Start(u) \/ Clone(u) \/ Pinned(u) \/ Fetch(u)
    \/ Select(u) \/ SelectAgain(u) \/ Read(u) \/ Head(u)

Next ==
    \/ \E ref \in Refs, forced \in BOOLEAN : Push(ref, forced)
    \/ Reach
    \/ \E u \in Users : Command(u) \/ Kill(u)

Spec == Init /\ [][Next]_vars

-----------------------------------------------------------------------------
(* Properties.                                                             *)

\* The revision that is recorded is the one whose manifest was used, also
\* when another process resolves the dependency in between: unless it is
\* that of a branch.
RecordedIsUsed ==
    \A u \in Users :
        selector # "branch" /\ answer[u] # NoRev => answer[u] = manifest[u]

\* A dependency on a revision is resolved to that revision or not at all,
\* whatever is pushed, and however earlier resolves were stopped.
PinIsExact ==
    \A u \in Users :
        selector = "rev" /\ manifest[u] # NoRev => manifest[u] = PinnedRev

Fails(u) == step[u] # "idle" /\ step'[u] = "idle" /\ answer'[u] = NoRev

\* A pinned revision that was in the cache when a command began is resolved,
\* where no other process is at work and none has left a lock: neither a dead
\* origin nor a push that drops it is noticed.
PinIsCached ==
    \A u \in Users :
        selector = "rev" /\ cached[u] /\ alone[u] => ~(Fails(u) /\ ~Kill(u))

\* docs/project-configuration.md: "`tag`, `branch`, and `ref` selectors fetch
\* from `origin` before checkout because those selectors can move": what is
\* recorded is what the branch was when the command ran.
BranchIsCurrent ==
    \A u \in Users :
        selector = "branch" /\ answer[u] # NoRev => answer[u] \in since[u]
=============================================================================
