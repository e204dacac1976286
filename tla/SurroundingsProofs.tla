------------------------- MODULE SurroundingsProofs -------------------------
(***************************************************************************)
(* Proofs about the components around the workflow runtime, for any number *)
(* of processes, clients, files and versions.  Each component has an       *)
(* inductive invariant, kept by its own steps; the steps of the other      *)
(* components leave it alone.                                              *)
(***************************************************************************)
EXTENDS MCSurroundings, TLAPS, FiniteSetTheorems, SequenceTheorems

-----------------------------------------------------------------------------
(* The connector process.                                                  *)

\* Nothing that the child printed is lost or made up.
NothingLost == collected + output + unsaid = call.reply

\* Success means that everything was printed, and an answered call that
\* nothing is left in the pipe and that nobody can write to it.
SuccessIsWhole ==
    /\ child = "succeeded" => unsaid = 0
    /\ result = "ok" => child = "succeeded" /\ output = 0
    /\ result # "none" => caller = "done"
    /\ caller = "done" => ~Connector!Alive

ConnectorInv == Connector!TypeOK /\ NothingLost /\ SuccessIsWhole

LEMMA ConnectorInit == PartsInit => ConnectorInv
<1> SUFFICES ASSUME PartsInit PROVE ConnectorInv
  OBVIOUS
<1>a. Capacity \in Nat
  BY SurroundingsAssumption
<1>1. Connector!Init
  BY DEF PartsInit
<1>2. call \in Connector!Calls
  BY <1>1 DEF Connector!Init
<1>3. call.reply \in Nat /\ call.request \in Nat
  BY <1>2 DEF Connector!Calls
<1>4. wants \in {"read", "print", "exit"}
  BY <1>1 DEF Connector!Init, Connector!Then
<1>5. /\ caller = "write" /\ unsent = call.request /\ input = 0 /\ child = "runs"
      /\ unsaid = call.reply /\ output = 0 /\ heir = FALSE /\ overdue = FALSE
      /\ collected = 0 /\ result = "none"
  BY <1>1 DEF Connector!Init
<1>6. Connector!TypeOK
  <2>1. heir \in BOOLEAN /\ overdue \in BOOLEAN
    BY <1>5, Zenon
  <2>2. /\ unsent \in 0 .. call.request /\ input \in 0 .. Capacity
        /\ unsaid \in 0 .. call.reply /\ output \in 0 .. Capacity
        /\ collected \in 0 .. call.reply
    BY <1>a, <1>3, <1>5
  <2> QED
    BY <1>2, <1>4, <1>5, <2>1, <2>2 DEF Connector!TypeOK
<1> QED
  BY <1>3, <1>5, <1>6
     DEF ConnectorInv, NothingLost, SuccessIsWhole, Connector!Alive

LEMMA ConnectorStep == ConnectorInv /\ Connector!Next => ConnectorInv'
<1> SUFFICES ASSUME ConnectorInv, Connector!Next PROVE ConnectorInv'
  OBVIOUS
<1>a. Capacity \in Nat
  BY SurroundingsAssumption
<1> USE <1>a
<1> USE DEF ConnectorInv, Connector!TypeOK, NothingLost, SuccessIsWhole,
            Connector!Alive, Connector!caller
<1>0. call.reply \in Nat /\ call.request \in Nat /\ call.forks \in BOOLEAN
  BY DEF Connector!Calls
<1>1. CASE Connector!Write
  BY <1>0, <1>1 DEF Connector!Write, Connector!Connected
<1>2. CASE Connector!Poll
  BY <1>0, <1>2 DEF Connector!Poll
<1>3. CASE Connector!GiveUp
  BY <1>0, <1>3 DEF Connector!GiveUp
<1>4. CASE Connector!Collect
  BY <1>0, <1>4 DEF Connector!Collect, Connector!Answer, Connector!Connected
<1>5. CASE Connector!Read
  BY <1>0, <1>5 DEF Connector!Read, Connector!Then
<1>6. CASE Connector!Emit
  BY <1>0, <1>6 DEF Connector!Emit, Connector!Then
<1>7. CASE Connector!Exit
  BY <1>0, <1>7 DEF Connector!Exit
<1>8. CASE Connector!Hang
  BY <1>0, <1>8 DEF Connector!Hang
<1>9. CASE Connector!Elapse
  BY <1>0, <1>9 DEF Connector!Elapse
<1> QED
  BY <1>1, <1>2, <1>3, <1>4, <1>5, <1>6, <1>7, <1>8, <1>9
     DEF Connector!Next, Connector!Caller, Connector!Child

LEMMA ConnectorKept == PartsSpec => []ConnectorInv
<1>1. ConnectorInv /\ UNCHANGED connectorVars => ConnectorInv'
  BY DEF ConnectorInv, Connector!TypeOK, NothingLost, SuccessIsWhole,
         Connector!Alive, connectorVars
<1>2. ConnectorInv /\ [Registry \/ Limiter \/ Connection \/ Service \/ Checkout
                          \/ Delivery]_allVars => ConnectorInv'
  BY <1>1, ConnectorStep
     DEF Registry, Limiter, Connection, Service, Checkout, Delivery, allVars
<1> QED
  BY <1>2, ConnectorInit, PTL DEF PartsSpec

\* A connector call that succeeds returns all that its child printed, and no
\* child outlives its call, however its reads, writes and exit meet the
\* timeout and whatever process it leaves behind.
THEOREM ChildrenAreCollected == PartsSpec => []ChildIsCollected
<1>1. ConnectorInv => ChildIsCollected
  BY DEF ConnectorInv, Connector!TypeOK, Connector!Calls, NothingLost, SuccessIsWhole,
         ChildIsCollected, Connector!ChildIsCollected, Connector!OkIsComplete,
         Connector!NoneLeftBehind
<1> QED
  BY <1>1, ConnectorKept, PTL

-----------------------------------------------------------------------------
(* The HTTP service.                                                       *)

\* Clients wait once, and the one that is being served no longer.
Queued ==
    /\ \A i \in 1 .. Len(backlog) : conn[backlog[i]] = "open" /\ backlog[i] # serving
    /\ \A i, j \in 1 .. Len(backlog) : backlog[i] = backlog[j] => i = j

\* Who is served where the loop stands.
InService ==
    /\ server = "accept" => serving = NoClient
    /\ server \in {"read", "handle", "record", "respond"} => serving \in Clients
    /\ serving \in Clients => conn[serving] = "open"

\* Only a client whose connection is closed, or whose route has run, has
\* something to show for it.
TracesAreEarned ==
    \A c \in Clients :
        /\ answer[c] # "none" => conn[c] = "closed"
        /\ c \in effects \cup audited =>
              conn[c] = "closed" \/ (c = serving /\ server \in {"record", "respond"})

\* What answer o says of client c is so.
IsTrueOf(o, c) ==
    /\ o \in Http!AtTheDoor => c \notin effects
    /\ recorder => /\ o \in Http!Recorded => c \in audited
                   /\ c \in effects /\ c \notin audited => o = "internal"

\* The answer that is under way is true, but for the audit that comes first.
OutcomeIsTrue ==
    /\ server = "record" =>
          /\ outcome \in Http!Recorded
          /\ outcome \in Http!AtTheDoor => serving \notin effects
          /\ serving \notin audited
    /\ server = "respond" => outcome # "none" /\ IsTrueOf(outcome, serving)

HttpInv ==
    /\ Http!TypeOK
    /\ Queued
    /\ InService
    /\ TracesAreEarned
    /\ OutcomeIsTrue
    /\ \A c \in Clients : answer[c] # "none" => IsTrueOf(answer[c], c)

LEMMA HttpInit == PartsInit => HttpInv
<1> SUFFICES ASSUME PartsInit PROVE HttpInv
  OBVIOUS
<1>1. Http!Init
  BY DEF PartsInit
<1>2. NoClient \notin Clients
  BY SurroundingsAssumption
<1>3. Http!TypeOK
  BY <1>1 DEF Http!Init, Http!TypeOK, Http!Outcomes, Http!Manners
<1>4. Queued /\ InService
  BY <1>1, <1>2 DEF Http!Init, Queued, InService
<1> QED
  BY <1>1, <1>3, <1>4 DEF Http!Init, HttpInv, TracesAreEarned, OutcomeIsTrue

\* What the handler ends with: an outcome at the door leaves no effect.
LEMMA HttpHandled ==
  Http!Handle =>
    \E o \in Http!Outcomes :
        /\ Http!Handled(o)
        /\ effects' \subseteq effects \cup {serving} /\ effects \subseteq effects'
        /\ o \in Http!AtTheDoor => effects' = effects
        /\ o \notin Http!Recorded => o \in Http!AtTheDoor
<1> SUFFICES ASSUME Http!Handle
             PROVE  \E o \in Http!Outcomes :
                       /\ Http!Handled(o)
                       /\ effects' \subseteq effects \cup {serving} /\ effects \subseteq effects'
                       /\ o \in Http!AtTheDoor => effects' = effects
                       /\ o \notin Http!Recorded => o \in Http!AtTheDoor
  OBVIOUS
<1> USE DEF Http!Outcomes, Http!AtTheDoor, Http!Recorded, Http!Messages
<1>1. CASE \E o \in {"refused", "tenant"} : Http!Refuse(o)
  BY <1>1 DEF Http!Refuse
<1>2. CASE \E o \in {"miss", "denied", "limited"} : Http!FailEarly(o)
  BY <1>2 DEF Http!FailEarly
<1>3. CASE Http!Succeed
  BY <1>3 DEF Http!Succeed
<1>4. CASE \E message \in Http!Messages, noted \in Http!Noted :
                 Http!FailInside(message, noted)
  <2>1. PICK message \in Http!Messages, noted \in Http!Noted :
                Http!FailInside(message, noted)
    BY <1>4
  <2>2. Http!Classified(message, noted) \in Http!Messages \cup {"limited", "connector"}
    BY DEF Http!Classified, Http!Noted
  <2> QED
    BY <2>1, <2>2 DEF Http!FailInside
<1> QED
  BY <1>1, <1>2, <1>3, <1>4 DEF Http!Handle

LEMMA HttpTyped == HttpInv /\ Http!Next => Http!TypeOK'
<1> SUFFICES ASSUME HttpInv, Http!Next PROVE Http!TypeOK'
  OBVIOUS
<1> USE DEF HttpInv, Http!TypeOK
<1>1. ASSUME NEW c \in Clients, Http!Connect(c) PROVE Http!TypeOK'
  BY <1>1 DEF Http!Connect
<1>2. CASE Http!Accept
  BY <1>2 DEF Http!Accept
<1>3. CASE Http!Read \/ Http!ReadFails
  BY <1>3 DEF Http!Read, Http!ReadFails, Http!Outcomes, Http!AtTheDoor
<1>4. CASE Http!Handle
  <2>1. PICK o \in Http!Outcomes : Http!Handled(o)
    BY <1>4, HttpHandled
  <2>2. effects' \subseteq Clients
    BY <1>4 DEF Http!Handle, Http!Refuse, Http!FailEarly, Http!Succeed, Http!FailInside,
                Http!Handled, InService
  <2> QED
    BY <2>1, <2>2 DEF Http!Handled
<1>5. CASE Http!Record
  BY <1>5 DEF Http!Record, Http!Outcomes, InService
<1>6. CASE Http!Respond
  <2>1. outcome \in Http!Outcomes /\ serving \in Clients
    BY <1>6 DEF Http!Respond, OutcomeIsTrue, InService
  <2> QED
    BY <1>6, <2>1 DEF Http!Respond
<1> QED
  BY <1>1, <1>2, <1>3, <1>4, <1>5, <1>6 DEF Http!Next, Http!Serve

LEMMA HttpQueued == HttpInv /\ Http!Next => Queued' /\ InService'
<1> SUFFICES ASSUME HttpInv, Http!Next PROVE Queued' /\ InService'
  OBVIOUS
<1>a. NoClient \notin Clients
  BY SurroundingsAssumption
<1> USE DEF HttpInv, Http!TypeOK, Queued, InService
<1>1. ASSUME NEW c \in Clients, Http!Connect(c) PROVE Queued' /\ InService'
  <2>1. \A i \in 1 .. Len(backlog) : backlog[i] # c
    BY <1>1 DEF Http!Connect
  <2>2. serving # c
    BY <1>1 DEF Http!Connect
  <2>3. /\ backlog' = Append(backlog, c)
        /\ Len(backlog') = Len(backlog) + 1
        /\ \A i \in 1 .. Len(backlog) : backlog'[i] = backlog[i]
        /\ backlog'[Len(backlog) + 1] = c
    BY <1>1 DEF Http!Connect
  <2>4. conn' = [conn EXCEPT ![c] = "open"] /\ UNCHANGED <<server, serving>>
    BY <1>1 DEF Http!Connect
  <2>5. InService'
    BY <2>4
  <2>6. \A i \in 1 .. Len(backlog') :
            \/ backlog'[i] = backlog[i] /\ i \in 1 .. Len(backlog)
            \/ backlog'[i] = c /\ i = Len(backlog) + 1
    <3>1. Len(backlog) \in Nat
      OBVIOUS
    <3> QED
      BY <2>3, <3>1
  <2>7. \A i \in 1 .. Len(backlog) : backlog[i] \in Clients
    OBVIOUS
  <2> QED
    BY <2>1, <2>2, <2>4, <2>5, <2>6, <2>7
<1>2. CASE Http!Accept
  <2>1. /\ backlog' = Tail(backlog) /\ serving' = backlog[1]
        /\ Len(backlog) \in Nat /\ Len(backlog) > 0
        /\ Len(backlog') = Len(backlog) - 1
        /\ \A i \in 1 .. Len(backlog') : backlog'[i] = backlog[i + 1]
        /\ serving' \in Clients
    BY <1>2 DEF Http!Accept
  <2> QED
    BY <1>2, <2>1 DEF Http!Accept
<1>3. CASE Http!Read
  BY <1>3 DEF Http!Read
<1>4. CASE Http!Handle
  BY <1>4, HttpHandled DEF Http!Handled
<1>5. CASE Http!Record
  BY <1>5 DEF Http!Record
<1>6. CASE Http!Respond \/ Http!ReadFails
  <2>1. /\ conn' = [conn EXCEPT ![serving] = "closed"]
        /\ serving' = NoClient /\ backlog' = backlog
        /\ server' \in {"stopped", "accept"} /\ serving \in Clients
    BY <1>6 DEF Http!Respond, Http!ReadFails
  <2>2. \A i \in 1 .. Len(backlog) : backlog[i] \in Clients
    OBVIOUS
  <2> QED
    BY <1>a, <2>1, <2>2
<1> QED
  BY <1>1, <1>2, <1>3, <1>4, <1>5, <1>6 DEF Http!Next, Http!Serve

LEMMA HttpTrue ==
  HttpInv /\ Http!Next =>
    /\ TracesAreEarned' /\ OutcomeIsTrue'
    /\ \A c \in Clients : answer'[c] # "none" => IsTrueOf(answer[c], c)'
<1> DEFINE Goal == /\ TracesAreEarned' /\ OutcomeIsTrue'
                   /\ \A c \in Clients : answer'[c] # "none" => IsTrueOf(answer[c], c)'
<1> SUFFICES ASSUME HttpInv, Http!Next PROVE Goal
  OBVIOUS
<1>a. NoClient \notin Clients
  BY SurroundingsAssumption
<1> USE DEF HttpInv, Http!TypeOK, TracesAreEarned, OutcomeIsTrue, IsTrueOf
<1>1. ASSUME NEW c \in Clients, Http!Connect(c) PROVE Goal
  BY <1>1 DEF Http!Connect, InService
<1>2. CASE Http!Accept
  BY <1>a, <1>2 DEF Http!Accept, InService
<1>3. CASE Http!Read
  BY <1>3 DEF Http!Read, InService, Http!AtTheDoor, Http!Recorded, Http!Messages
<1>4. CASE Http!Handle
  <2>1. PICK o \in Http!Outcomes :
           /\ Http!Handled(o)
           /\ effects' \subseteq effects \cup {serving} /\ effects \subseteq effects'
           /\ o \in Http!AtTheDoor => effects' = effects
           /\ o \notin Http!Recorded => o \in Http!AtTheDoor
    BY <1>4, HttpHandled
  <2>2. /\ server = "handle" /\ server' \in {"record", "respond"}
        /\ server' = "record" <=> o \in Http!Recorded
        /\ outcome' = o /\ o # "none"
        /\ UNCHANGED <<recorder, conn, serving, audited, answer>>
    BY <2>1 DEF Http!Handled, Http!Outcomes, Http!AtTheDoor, Http!Recorded, Http!Messages
  <2>3. serving \in Clients /\ conn[serving] = "open"
    BY <2>2 DEF InService
  <2>4. serving \notin effects /\ serving \notin audited
    BY <2>2, <2>3
  <2>5. TracesAreEarned'
    BY <2>1, <2>2, <2>3
  <2>6. \A c \in Clients : answer'[c] # "none" => IsTrueOf(answer[c], c)'
    BY <2>1, <2>2, <2>3
  <2>7. OutcomeIsTrue'
    BY <2>1, <2>2, <2>3, <2>4
  <2> QED
    BY <2>5, <2>6, <2>7
<1>5. CASE Http!Record
  <2>1. serving \in Clients /\ conn[serving] = "open"
    BY <1>5 DEF Http!Record, InService
  <2> QED
    BY <1>5, <2>1 DEF Http!Record, Http!AtTheDoor, Http!Recorded, Http!Messages
<1>6. CASE Http!Respond
  <2>1. serving \in Clients /\ conn[serving] = "open"
    BY <1>6 DEF Http!Respond, InService
  <2> QED
    BY <1>6, <2>1 DEF Http!Respond
<1>7. CASE Http!ReadFails
  BY <1>a, <1>7 DEF Http!ReadFails, InService
<1> QED
  BY <1>1, <1>2, <1>3, <1>4, <1>5, <1>6, <1>7 DEF Http!Next, Http!Serve

LEMMA HttpKept == PartsSpec => []HttpInv
<1>1. HttpInv /\ UNCHANGED httpVars => HttpInv'
  BY DEF HttpInv, Http!TypeOK, Queued, InService, TracesAreEarned, OutcomeIsTrue,
         IsTrueOf, httpVars
<1>2. HttpInv /\ Http!Next => HttpInv'
  BY HttpTyped, HttpQueued, HttpTrue DEF HttpInv
<1>3. HttpInv /\ [Registry \/ Limiter \/ Connection \/ Service \/ Checkout
                    \/ Delivery]_allVars => HttpInv'
  BY <1>1, <1>2
     DEF Registry, Limiter, Connection, Service, Checkout, Delivery, allVars
<1> QED
  BY <1>3, HttpInit, PTL DEF PartsSpec

\* Nobody who is refused at the door has had an effect, and with a recorder no
\* client is answered, save by an internal error, before what its route did is
\* on record: for any number of clients and whatever they send.
THEOREM ClientsAreToldTheTruth == PartsSpec => []AnswersAreTrue
<1>1. HttpInv => AnswersAreTrue
  <2> SUFFICES ASSUME HttpInv, NEW c \in Clients
               PROVE  /\ answer[c] \in Http!AtTheDoor => c \notin effects
                      /\ recorder => /\ answer[c] \in Http!Recorded => c \in audited
                                     /\ c \in effects /\ answer[c] # "none" /\ c \notin audited
                                           => answer[c] = "internal"
    BY DEF AnswersAreTrue, Http!AnswersAreTrue, Http!RefusedHasNoEffect,
           Http!AnswerIsAudited
  <2>1. answer[c] # "none" => IsTrueOf(answer[c], c)
    BY DEF HttpInv
  <2>2. "none" \notin Http!AtTheDoor /\ "none" \notin Http!Recorded
    BY DEF Http!AtTheDoor, Http!Recorded, Http!Messages
  <2> QED
    BY <2>1, <2>2 DEF IsTrueOf
<1> QED
  BY <1>1, HttpKept, PTL

-----------------------------------------------------------------------------
(* The git checkout.                                                       *)

\* The first resolve clones, alone; what it leaves has a HEAD, a tag and a
\* branch to go on from.
ClonedOnce ==
    /\ \A u \in Users : step[u] = "clone" =>
          cache = Git!NoCache /\ \A v \in Users \ {u} : step[v] = "idle"
    /\ cache = Git!NoCache => \A u \in Users : step[u] \in {"idle", "clone"}
    /\ cache # Git!NoCache => NoRev \notin {cache.head, cache.fetched, cache.tag}

\* HEAD is where a checkout of the selector leaves it, whoever makes it; only
\* of a branch there are two, the local one and that of the origin.
Chosen ==
    /\ selector = "rev" => cache.head = PinnedRev
    /\ selector = "tag" => cache.head = cache.tag

ReadsAreChosen ==
    \A u \in Users :
        /\ step[u] = "pin" => selector = "rev"
        /\ step[u] \in {"read", "head"} => Chosen
        /\ selector # "branch" /\ step[u] = "head" => manifest[u] = cache.head
        /\ step[u] # "idle" => recorded[u] = NoRev

\* Who found the pinned revision in the cache, and is alone with it, needs
\* neither fetch nor select.
PinStays ==
    \A u \in Users : selector = "rev" /\ cached[u] /\ alone[u] /\ step[u] # "idle" =>
        /\ step[u] \in {"pin", "read", "head"}
        /\ PinnedRev \in cache.revs
        /\ left = {}
        /\ \A v \in Users \ {u} : step[v] = "idle"

GitInv ==
    /\ Git!TypeOK
    /\ ClonedOnce
    /\ ReadsAreChosen
    /\ PinStays
    /\ Git!RecordedIsUsed
    /\ Git!PinIsExact

LEMMA GitInit == PartsInit => GitInv
<1> SUFFICES ASSUME PartsInit PROVE GitInv
  OBVIOUS
<1>1. Git!Init
  BY DEF PartsInit
<1>2. MaxRevs \in Nat \ {0}
  BY SurroundingsAssumption
<1>3. Git!NoCache \in Git!Cache
  BY DEF Git!NoCache, Git!Cache, Git!Some
<1>4. 1 \in Git!Revs
  BY <1>2 DEF Git!Revs
<1>5. Git!TypeOK
  BY <1>1, <1>3, <1>4 DEF Git!Init, Git!TypeOK, Git!Remote, Git!Some
<1> QED
  BY <1>1, <1>5
     DEF Git!Init, GitInv, ClonedOnce, ReadsAreChosen, PinStays,
         Git!RecordedIsUsed, Git!PinIsExact

LEMMA GitTyped == GitInv /\ Git!Next => Git!TypeOK'
<1> SUFFICES ASSUME GitInv, Git!Next PROVE Git!TypeOK'
  OBVIOUS
<1>a. MaxRevs \in Nat \ {0}
  BY SurroundingsAssumption
<1> USE DEF GitInv, Git!TypeOK
<1>1. ASSUME NEW ref \in Git!Refs, NEW forced \in BOOLEAN, Git!Push(ref, forced)
      PROVE  Git!TypeOK'
  <2> DEFINE kept == IF ~forced THEN remote.revs
                     ELSE (remote.revs \ {remote[ref]})
                              \cup {remote[r] : r \in Git!Refs \ {ref}}
  <2>1. latest' = latest + 1 /\ latest' \in Git!Revs
    <3>1. latest' = latest + 1 /\ latest < MaxRevs
      BY <1>1, Zenon DEF Git!Push
    <3> QED
      BY <1>a, <3>1 DEF Git!Revs
  <2>2. \A r \in Git!Refs : remote[r] \in Git!Revs
    BY DEF Git!Remote, Git!Refs
  <2>3. {latest'} \cup kept \in SUBSET Git!Revs
    BY <2>1, <2>2 DEF Git!Remote
  <2>4. remote' = [remote EXCEPT ![ref] = latest', !.revs = {latest'} \cup kept]
    BY <1>1 DEF Git!Push
  <2> HIDE DEF kept
  <2>5. remote' \in Git!Remote
    BY <2>1, <2>3, <2>4 DEF Git!Remote, Git!Refs
  <2>6. since' \in [Users -> SUBSET Git!Revs]
    BY <1>1, <2>5 DEF Git!Push, Git!Remote
  <2> QED
    BY <1>1, <2>1, <2>5, <2>6 DEF Git!Push, Git!read
<1>2. CASE Git!Reach
  BY <1>2 DEF Git!Reach, Git!read, Git!history
<1>3. ASSUME NEW u \in Users, Git!Start(u) PROVE Git!TypeOK'
  <2>1. since' \in [Users -> SUBSET Git!Revs]
    BY <1>3 DEF Git!Start, Git!Remote
  <2>2. cached' \in [Users -> BOOLEAN] /\ alone' \in [Users -> BOOLEAN]
    <3> HIDE DEF GitInv, Git!TypeOK
    <3>0. cached \in [Users -> BOOLEAN]
      BY DEF GitInv, Git!TypeOK
    <3>1. (PinnedRev \in cache.revs) \in BOOLEAN
      OBVIOUS
    <3>2. cached' = [cached EXCEPT ![u] = PinnedRev \in cache.revs]
      BY <1>3, Zenon DEF Git!Start
    <3>3. cached' \in [Users -> BOOLEAN]
      BY <3>0, <3>1, <3>2, Zenon
    <3>4. alone' \in [Users -> BOOLEAN]
      BY <1>3, Zenon DEF Git!Start
    <3> QED
      BY <3>3, <3>4
  <2>3. manifest' \in [Users -> Git!Some] /\ recorded' \in [Users -> Git!Some]
    BY <1>3 DEF Git!Start, Git!Some
  <2>4. step' \in [Users -> {"idle", "clone", "pin", "fetch", "select", "again", "read",
                             "head"}]
    BY <1>3 DEF Git!Start, Git!Goto
  <2> QED
    BY <1>3, <2>1, <2>2, <2>3, <2>4 DEF Git!Start, Git!origin
<1>4. ASSUME NEW u \in Users, Git!Clone(u) PROVE Git!TypeOK'
  <2>1. [revs |-> remote.revs, release |-> NoRev, fetched |-> remote.release,
         tag |-> remote.tag, head |-> remote.main] \in Git!Cache
    BY DEF Git!Cache, Git!Remote, Git!Some
  <2> QED
    BY <1>4, <2>1 DEF Git!Clone, Git!Goto, Git!origin, Git!read, Git!history
<1>5. ASSUME NEW u \in Users, Git!Pinned(u) PROVE Git!TypeOK'
  <2>1. PinnedRev \in cache.revs => [cache EXCEPT !.head = PinnedRev] \in Git!Cache
    BY DEF Git!Cache, Git!Some
  <2> QED
    BY <1>5, <2>1 DEF Git!Pinned, Git!Goto, Git!origin, Git!read, Git!history
<1>6. ASSUME NEW u \in Users, Git!Fetch(u) PROVE Git!TypeOK'
  <2>1. /\ [cache EXCEPT !.revs = @ \cup remote.revs, !.fetched = remote.release]
            \in Git!Cache
         /\ [cache EXCEPT !.revs = @ \cup remote.revs] \in Git!Cache
    BY DEF Git!Cache, Git!Remote, Git!Some
  <2> QED
    BY <1>6, <2>1 DEF Git!Fetch, Git!Goto, Git!origin, Git!read, Git!history
<1>7. ASSUME NEW u \in Users, Git!Select(u) PROVE Git!TypeOK'
  <2> DEFINE branch == IF cache.release = NoRev THEN cache.fetched
                       ELSE cache.release
  <2>1. /\ PinnedRev \in cache.revs => [cache EXCEPT !.head = PinnedRev] \in Git!Cache
        /\ [cache EXCEPT !.head = cache.tag] \in Git!Cache
        /\ [cache EXCEPT !.release = branch, !.head = branch] \in Git!Cache
    BY DEF Git!Cache, Git!Some
  <2>2. cache' \in Git!Cache
    BY <1>7, <2>1 DEF Git!Select
  <2>3. step' \in [Users -> {"idle", "clone", "pin", "fetch", "select", "again", "read",
                             "head"}]
    BY <1>7 DEF Git!Select, Git!Goto
  <2> QED
    BY <1>7, <2>2, <2>3 DEF Git!Select, Git!origin, Git!read, Git!history
<1>11. ASSUME NEW u \in Users, Git!SelectAgain(u) PROVE Git!TypeOK'
  <2>1. [cache EXCEPT !.head = cache.fetched] \in Git!Cache
    BY DEF Git!Cache, Git!Some
  <2> QED
    BY <1>11, <2>1 DEF Git!SelectAgain, Git!Goto, Git!origin, Git!read, Git!history
<1>8. ASSUME NEW u \in Users, Git!Read(u) PROVE Git!TypeOK'
  BY <1>8 DEF Git!Read, Git!Goto, Git!origin, Git!Cache, Git!history
<1>9. ASSUME NEW u \in Users, Git!Head(u) PROVE Git!TypeOK'
  BY <1>9 DEF Git!Head, Git!Goto, Git!origin, Git!Cache, Git!history
<1>10. ASSUME NEW u \in Users, Git!Kill(u) PROVE Git!TypeOK'
  BY <1>10 DEF Git!Kill, Git!Goto, Git!origin, Git!read, Git!history
<1> QED
  BY <1>1, <1>2, <1>3, <1>4, <1>5, <1>6, <1>7, <1>8, <1>9, <1>10, <1>11
     DEF Git!Next, Git!Command

LEMMA GitClonedOnce == GitInv /\ Git!Next => ClonedOnce'
<1> SUFFICES ASSUME GitInv, Git!Next PROVE ClonedOnce'
  OBVIOUS
<1>a. MaxRevs \in Nat \ {0} /\ NoRev \notin Nat
  BY SurroundingsAssumption
<1> USE DEF GitInv, Git!TypeOK, ClonedOnce
<1>b. NoRev \notin Git!Revs /\ \A r \in {"main", "release", "tag"} : remote[r] # NoRev
  BY <1>a DEF Git!Remote, Git!Revs
<1>1. ASSUME NEW ref \in Git!Refs, NEW forced \in BOOLEAN, Git!Push(ref, forced)
      PROVE  ClonedOnce'
  BY <1>1, Zenon DEF Git!Push
<1>2. CASE Git!Reach
  BY <1>2 DEF Git!Reach, Git!read, Git!history
<1>3. ASSUME NEW u \in Users, Git!Start(u) PROVE ClonedOnce'
  BY <1>3 DEF Git!Start, Git!Goto
<1>4. ASSUME NEW u \in Users, Git!Clone(u) PROVE ClonedOnce'
  <2>1. CASE up
    <3>1. /\ cache' = [revs |-> remote.revs, release |-> NoRev,
                       fetched |-> remote.release, tag |-> remote.tag,
                       head |-> remote.main]
          /\ step' = [step EXCEPT ![u] = "select"]
      BY <1>4, <2>1 DEF Git!Clone, Git!Goto
    <3>2. NoRev \notin {cache'.head, cache'.fetched, cache'.tag}
      BY <1>b, <3>1
    <3>3. cache' # Git!NoCache
      BY <3>2 DEF Git!NoCache
    <3>4. \A v \in Users : step'[v] # "clone"
      BY <1>4, <3>1 DEF Git!Clone
    <3> QED
      BY <3>2, <3>3, <3>4
  <2>2. CASE ~up
    BY <1>4, <2>2 DEF Git!Clone, Git!Goto
  <2> QED
    BY <2>1, <2>2
<1>5. ASSUME NEW u \in Users, step[u] \notin {"idle", "clone"},
             \E to : to # "clone" /\ Git!Goto(u, to),
             cache' = cache \/ NoRev \notin {cache'.head, cache'.fetched, cache'.tag}
      PROVE  ClonedOnce'
  <2>1. cache # Git!NoCache /\ \A v \in Users : step[v] # "clone"
    BY <1>5
  <2>2. \A v \in Users : step'[v] # "clone"
    BY <1>5, <2>1 DEF Git!Goto
  <2>3. cache' # Git!NoCache /\ NoRev \notin {cache'.head, cache'.fetched, cache'.tag}
    BY <1>5, <2>1 DEF Git!NoCache
  <2> QED
    BY <2>2, <2>3
<1>c. ASSUME NEW u \in Users, step[u] \notin {"idle", "clone"}
      PROVE  cache \in Git!Cache /\ NoRev \notin {cache.head, cache.fetched, cache.tag}
  BY <1>c
<1>6. ASSUME NEW u \in Users, Git!Pinned(u) PROVE ClonedOnce'
  <2>1. PinnedRev \in cache.revs => PinnedRev # NoRev
    BY <1>b DEF Git!Cache
  <2>2. cache' = cache \/ NoRev \notin {cache'.head, cache'.fetched, cache'.tag}
    BY <1>6, <1>c, <2>1 DEF Git!Pinned, Git!Cache
  <2>3. \E to : to # "clone" /\ Git!Goto(u, to)
    BY <1>6 DEF Git!Pinned
  <2> QED
    BY <1>5, <1>6, <2>2, <2>3 DEF Git!Pinned
<1>7. ASSUME NEW u \in Users, Git!Fetch(u) PROVE ClonedOnce'
  <2>1. cache' = cache \/ NoRev \notin {cache'.head, cache'.fetched, cache'.tag}
    BY <1>7, <1>b, <1>c DEF Git!Fetch, Git!Cache
  <2>2. \E to : to # "clone" /\ Git!Goto(u, to)
    BY <1>7 DEF Git!Fetch
  <2> QED
    BY <1>5, <1>7, <2>1, <2>2 DEF Git!Fetch
<1>8. ASSUME NEW u \in Users, Git!Select(u) PROVE ClonedOnce'
  <2>1. PinnedRev \in cache.revs => PinnedRev # NoRev
    BY <1>b DEF Git!Cache
  <2>2. cache' = cache \/ NoRev \notin {cache'.head, cache'.fetched, cache'.tag}
    <3>1. cache \in Git!Cache /\ NoRev \notin {cache.head, cache.fetched, cache.tag}
      BY <1>8, <1>c DEF Git!Select
    <3> HIDE DEF GitInv, Git!TypeOK, ClonedOnce
    <3>2. \/ cache' = cache
          \/ cache' = [cache EXCEPT !.head = PinnedRev] /\ PinnedRev \in cache.revs
          \/ cache' = [cache EXCEPT !.head = cache.tag]
          \/ /\ cache.release = NoRev
             /\ cache' = [cache EXCEPT !.release = cache.fetched, !.head = cache.fetched]
          \/ /\ cache.release # NoRev
             /\ cache' = [cache EXCEPT !.release = cache.release, !.head = cache.release]
      BY <1>8, Zenon DEF Git!Select
    <3> QED
      BY <2>1, <3>1, <3>2 DEF Git!Cache
  <2>3. \E to : to # "clone" /\ Git!Goto(u, to)
    BY <1>8 DEF Git!Select
  <2> QED
    BY <1>5, <1>8, <2>2, <2>3 DEF Git!Select
<1>10. ASSUME NEW u \in Users, Git!SelectAgain(u) PROVE ClonedOnce'
  <2>1. cache' = cache \/ NoRev \notin {cache'.head, cache'.fetched, cache'.tag}
    BY <1>10, <1>c DEF Git!SelectAgain, Git!Cache
  <2>2. \E to : to # "clone" /\ Git!Goto(u, to)
    BY <1>10 DEF Git!SelectAgain
  <2> QED
    BY <1>5, <1>10, <2>1, <2>2 DEF Git!SelectAgain
<1>9. ASSUME NEW u \in Users, Git!Read(u) \/ Git!Head(u) \/ Git!Kill(u)
      PROVE  ClonedOnce'
  <2>1. \E to : to # "clone" /\ Git!Goto(u, to)
    BY <1>9 DEF Git!Read, Git!Head, Git!Kill
  <2> QED
    BY <1>5, <1>9, <2>1 DEF Git!Read, Git!Head, Git!Kill
<1> QED
  BY <1>1, <1>2, <1>3, <1>4, <1>6, <1>7, <1>8, <1>9, <1>10 DEF Git!Next, Git!Command

\* What a process reads stays in place until it has recorded it, unless it is
\* a branch.
LEMMA GitHeadStays ==
  ASSUME GitInv, Git!Next, NEW w \in Users, step[w] \in {"read", "head"}
  PROVE  Chosen' /\ (selector # "branch" => cache'.head = cache.head)
<1> DEFINE Stays == Chosen' /\ (selector # "branch" => cache'.head = cache.head)
<1> USE DEF GitInv, Git!TypeOK
<1>1. Chosen /\ cache # Git!NoCache /\ cache.head # NoRev
  BY DEF ReadsAreChosen, ClonedOnce
<1>2. \A u \in Users : ~Git!Clone(u)
  BY DEF Git!Clone, ClonedOnce
<1>3. selector' = selector
  BY DEF Git!Next, Git!Push, Git!Reach, Git!Command, Git!Start, Git!Clone, Git!Pinned,
         Git!Fetch, Git!Select, Git!SelectAgain, Git!Read, Git!Head, Git!Kill
<1>4. CASE cache' = cache
  BY <1>1, <1>3, <1>4 DEF Chosen
<1>5. ASSUME NEW u \in Users, Git!Pinned(u) PROVE Stays
  <2>1. selector = "rev"
    BY <1>5 DEF Git!Pinned, ReadsAreChosen
  <2> QED
    BY <1>1, <1>3, <1>4, <1>5, <2>1 DEF Git!Pinned, Chosen, Git!Cache
<1>6. ASSUME NEW u \in Users, Git!Fetch(u) PROVE Stays
  BY <1>1, <1>3, <1>6 DEF Git!Fetch, Chosen, Git!Cache
<1>7. ASSUME NEW u \in Users, Git!Select(u) PROVE Stays
  BY <1>1, <1>3, <1>7 DEF Git!Select, Chosen, Git!Cache
<1>8. ASSUME NEW u \in Users, Git!SelectAgain(u) PROVE Stays
  BY <1>1, <1>3, <1>8 DEF Git!SelectAgain, Chosen, Git!Cache
<1> QED
  BY <1>2, <1>4, <1>5, <1>6, <1>7, <1>8
     DEF Git!Next, Git!Command, Git!Push, Git!Reach, Git!Start, Git!Read, Git!Head,
         Git!Kill

LEMMA GitReads ==
  GitInv /\ Git!Next => ReadsAreChosen' /\ Git!RecordedIsUsed' /\ Git!PinIsExact'
<1> DEFINE Of(u) ==
      /\ step[u] = "pin" => selector = "rev"
      /\ step[u] \in {"read", "head"} => Chosen
      /\ selector # "branch" /\ step[u] = "head" => manifest[u] = cache.head
      /\ step[u] # "idle" => recorded[u] = NoRev
      /\ selector # "branch" /\ recorded[u] # NoRev => recorded[u] = manifest[u]
      /\ selector = "rev" /\ manifest[u] # NoRev => manifest[u] = PinnedRev
<1> SUFFICES ASSUME GitInv, Git!Next, NEW w \in Users PROVE Of(w)'
  BY DEF ReadsAreChosen, Git!RecordedIsUsed, Git!PinIsExact
<1> USE DEF GitInv, Git!TypeOK
<1>1. Of(w)
  BY DEF ReadsAreChosen, Git!RecordedIsUsed, Git!PinIsExact
<1>2. step[w] \in {"read", "head"} =>
         Chosen' /\ (selector # "branch" => cache'.head = cache.head)
  BY GitHeadStays
<1>3. selector' = selector
  BY DEF Git!Next, Git!Push, Git!Reach, Git!Command, Git!Start, Git!Clone, Git!Pinned,
         Git!Fetch, Git!Select, Git!SelectAgain, Git!Read, Git!Head, Git!Kill
\* A step of the origin or of another process.
<1>4. ASSUME step'[w] = step[w], manifest'[w] = manifest[w],
             recorded'[w] = recorded[w]
      PROVE  Of(w)'
  BY <1>1, <1>2, <1>3, <1>4
<1>5. CASE \/ \E ref \in Git!Refs, forced \in BOOLEAN : Git!Push(ref, forced)
           \/ Git!Reach
  <2>1. UNCHANGED <<step, manifest, recorded>>
    BY <1>5, Zenon DEF Git!Push, Git!Reach, Git!read, Git!history
  <2> QED
    BY <1>4, <2>1
<1>6. ASSUME NEW u \in Users, u # w, Git!Command(u) \/ Git!Kill(u) PROVE Of(w)'
  <2>1. step'[w] = step[w]
    BY <1>6 DEF Git!Command, Git!Start, Git!Clone, Git!Pinned, Git!Fetch, Git!Select,
       Git!SelectAgain, Git!Read, Git!Head, Git!Kill, Git!Goto
  <2>2. manifest'[w] = manifest[w] /\ recorded'[w] = recorded[w]
    BY <1>6 DEF Git!Command, Git!Start, Git!Clone, Git!Pinned, Git!Fetch, Git!Select,
       Git!SelectAgain, Git!Read, Git!Head, Git!Kill, Git!read
  <2> QED
    BY <1>4, <2>1, <2>2
<1>7. CASE Git!Start(w)
  <2>1. step'[w] \in {"clone", "pin", "fetch"} /\ (step'[w] = "pin" => selector = "rev")
    BY <1>7 DEF Git!Start, Git!Goto
  <2>2. manifest'[w] = NoRev /\ recorded'[w] = NoRev
    BY <1>7 DEF Git!Start
  <2> QED
    BY <1>3, <2>1, <2>2
<1>8. CASE Git!Clone(w) \/ Git!Fetch(w) \/ Git!Kill(w)
  <2>1. step'[w] \in {"select", "idle"} /\ step[w] # "idle"
    BY <1>8 DEF Git!Clone, Git!Fetch, Git!Kill, Git!Goto
  <2>2. UNCHANGED <<manifest, recorded>>
    BY <1>8 DEF Git!Clone, Git!Fetch, Git!Kill, Git!read
  <2> QED
    BY <1>1, <1>3, <2>1, <2>2
<1>9. CASE Git!Pinned(w) \/ Git!Select(w) \/ Git!SelectAgain(w)
  <2>1. step'[w] \in {"fetch", "idle", "again", "read"} /\ step[w] # "idle"
    BY <1>9 DEF Git!Pinned, Git!Select, Git!SelectAgain, Git!Goto
  <2>2. UNCHANGED <<manifest, recorded>>
    BY <1>9 DEF Git!Pinned, Git!Select, Git!SelectAgain, Git!read
  <2>3. Git!Pinned(w) => selector = "rev"
    BY <1>1 DEF Git!Pinned
  <2>4. step'[w] = "read" => Chosen'
    BY <1>3, <1>9, <2>3
       DEF Git!Pinned, Git!Select, Git!SelectAgain, Chosen, Git!Cache, Git!Goto
  <2> QED
    BY <1>1, <1>3, <2>1, <2>2, <2>4
<1>10. CASE Git!Read(w)
  <2>1. step[w] = "read" /\ step'[w] = "head"
    BY <1>10 DEF Git!Read, Git!Goto
  <2>2. manifest'[w] = cache.head /\ UNCHANGED <<cache, recorded>>
    BY <1>10 DEF Git!Read
  <2> QED
    BY <1>1, <1>2, <1>3, <2>1, <2>2 DEF Chosen
<1>11. CASE Git!Head(w)
  <2>1. step[w] = "head" /\ step'[w] = "idle"
    BY <1>11 DEF Git!Head, Git!Goto
  <2>2. recorded'[w] = cache.head /\ UNCHANGED <<cache, manifest>>
    BY <1>11 DEF Git!Head
  <2> QED
    BY <1>1, <1>3, <2>1, <2>2
<1> HIDE DEF Of
<1> QED
  BY <1>5, <1>6, <1>7, <1>8, <1>9, <1>10, <1>11 DEF Git!Next, Git!Command

LEMMA GitPinStays == GitInv /\ Git!Next => PinStays'
<1> DEFINE Of(u) == /\ step[u] \in {"pin", "read", "head"}
                    /\ PinnedRev \in cache.revs
                    /\ left = {}
                    /\ \A v \in Users \ {u} : step[v] = "idle"
<1> SUFFICES ASSUME GitInv, Git!Next, NEW w \in Users,
                    selector' = "rev", cached'[w], alone'[w], step'[w] # "idle"
             PROVE  Of(w)'
  BY DEF PinStays
<1> USE DEF GitInv, Git!TypeOK
<1>1. selector = "rev"
  BY DEF Git!Next, Git!Push, Git!Reach, Git!Command, Git!Start, Git!Clone, Git!Pinned,
         Git!Fetch, Git!Select, Git!SelectAgain, Git!Read, Git!Head, Git!Kill
<1>2. ASSUME cached[w], alone[w], step[w] # "idle" PROVE Of(w)
  BY <1>1, <1>2 DEF PinStays
<1>3. CASE \/ \E ref \in Git!Refs, forced \in BOOLEAN : Git!Push(ref, forced)
           \/ Git!Reach
  <2>1. UNCHANGED <<cache, left, step, cached, alone>>
    BY <1>3, Zenon DEF Git!Push, Git!Reach, Git!read, Git!history
  <2> QED
    BY <1>2, <2>1
\* Another process would have to start, and then this one is no longer alone.
<1>4. ASSUME NEW u \in Users, u # w, Git!Command(u) \/ Git!Kill(u) PROVE FALSE
  <2>1. ~Git!Start(u)
    BY <1>4 DEF Git!Start
  <2>2. step[u] # "idle"
    BY <1>4, <2>1 DEF Git!Command, Git!Clone, Git!Pinned, Git!Fetch, Git!Select,
       Git!SelectAgain, Git!Read, Git!Head, Git!Kill
  <2>3. step'[w] = step[w] /\ UNCHANGED <<cached, alone>>
    BY <1>4, <2>1 DEF Git!Command, Git!Clone, Git!Pinned, Git!Fetch, Git!Select,
       Git!SelectAgain, Git!Read, Git!Head, Git!Kill, Git!Goto, Git!history
  <2> QED
    BY <1>2, <1>4, <2>2, <2>3
<1>5. CASE Git!Start(w)
  <2>1. PinnedRev \in cache.revs /\ UNCHANGED <<cache, left>>
    BY <1>5 DEF Git!Start
  <2>2. cache # Git!NoCache
    BY <2>1 DEF Git!NoCache
  <2>3. left = {} /\ \A v \in Users \ {w} : step[v] = "idle"
    BY <1>5 DEF Git!Start, Git!Others
  <2> QED
    BY <1>1, <1>5, <2>1, <2>2, <2>3 DEF Git!Start, Git!Goto
<1>6. ASSUME Git!Clone(w) \/ Git!Fetch(w) \/ Git!Select(w) \/ Git!SelectAgain(w)
      PROVE  FALSE
  BY <1>2, <1>6 DEF Git!Clone, Git!Fetch, Git!Select, Git!SelectAgain, Git!history
<1>7. CASE Git!Pinned(w)
  <2>1. UNCHANGED <<left, cached, alone>> /\ step[w] = "pin"
    BY <1>7 DEF Git!Pinned, Git!history
  <2>2. Of(w)
    BY <1>2, <2>1
  <2>3. ~Git!MayFailToCheckOut(w)
    BY <2>2 DEF Git!MayFailToCheckOut, Git!CanCheckOut, Git!Others
  <2>4. step' = [step EXCEPT ![w] = "read"] /\ cache' = [cache EXCEPT !.head = PinnedRev]
    BY <1>7, <2>2, <2>3 DEF Git!Pinned, Git!Goto
  <2> QED
    BY <2>1, <2>2, <2>4 DEF Git!Cache
<1>8. CASE Git!Read(w)
  <2>1. /\ UNCHANGED <<cache, left, cached, alone>>
        /\ step[w] = "read" /\ step' = [step EXCEPT ![w] = "head"]
    BY <1>8 DEF Git!Read, Git!Goto, Git!history
  <2> QED
    BY <1>2, <2>1
<1>9. ASSUME Git!Head(w) \/ Git!Kill(w) PROVE FALSE
  BY <1>9 DEF Git!Head, Git!Kill, Git!Goto
<1> QED
  BY <1>3, <1>4, <1>5, <1>6, <1>7, <1>8, <1>9 DEF Git!Next, Git!Command

LEMMA GitKept == PartsSpec => []GitInv
<1>1. GitInv /\ UNCHANGED gitVars => GitInv'
  BY DEF GitInv, Git!TypeOK, ClonedOnce, ReadsAreChosen, Chosen, PinStays,
         Git!RecordedIsUsed, Git!PinIsExact, gitVars
<1>2. GitInv /\ Git!Next => GitInv'
  BY GitTyped, GitClonedOnce, GitReads, GitPinStays DEF GitInv
<1>3. GitInv /\ [Registry \/ Limiter \/ Connection \/ Service \/ Checkout
                   \/ Delivery]_allVars => GitInv'
  BY <1>1, <1>2
     DEF Registry, Limiter, Connection, Service, Checkout, Delivery, allVars
<1> QED
  BY <1>3, GitInit, PTL DEF PartsSpec

LEMMA GitPinIsCached == GitInv /\ Git!Next => Git!PinIsCached
<1> SUFFICES ASSUME GitInv, Git!Next, NEW w \in Users, selector = "rev", cached[w],
                    alone[w], step[w] # "idle", step'[w] = "idle", recorded'[w] = NoRev
             PROVE  Git!Kill(w)
  BY DEF Git!PinIsCached, Git!Fails
<1> USE DEF GitInv, Git!TypeOK
<1>1. /\ step[w] \in {"pin", "read", "head"}
      /\ \A v \in Users \ {w} : step[v] = "idle"
  BY DEF PinStays
<1>2. PinnedRev # NoRev
  BY SurroundingsAssumption
<1>3. ASSUME \/ \E ref \in Git!Refs, forced \in BOOLEAN : Git!Push(ref, forced)
             \/ Git!Reach
      PROVE  FALSE
  <2>1. step' = step
    BY <1>3, Zenon DEF Git!Push, Git!Reach
  <2> QED
    BY <2>1
<1>4. ASSUME NEW u \in Users, u # w, Git!Command(u) \/ Git!Kill(u) PROVE FALSE
  BY <1>4 DEF Git!Command, Git!Start, Git!Clone, Git!Pinned, Git!Fetch, Git!Select,
       Git!SelectAgain, Git!Read, Git!Head, Git!Kill, Git!Goto
<1>5. ASSUME \/ Git!Start(w) \/ Git!Clone(w) \/ Git!Pinned(w) \/ Git!Fetch(w)
             \/ Git!Select(w) \/ Git!SelectAgain(w) \/ Git!Read(w)
      PROVE  FALSE
  BY <1>1, <1>5 DEF Git!Start, Git!Clone, Git!Pinned, Git!Fetch, Git!Select,
     Git!SelectAgain, Git!Read, Git!Goto
<1>6. ASSUME Git!Head(w) PROVE FALSE
  BY <1>1, <1>2, <1>6 DEF Git!Head, ReadsAreChosen, Chosen
<1> QED
  BY <1>3, <1>4, <1>5, <1>6 DEF Git!Next, Git!Command

\* A dependency pinned to a revision is resolved to it or not at all, and what
\* is recorded is what was used, unless of a branch, however many processes
\* resolve it at once, whatever is pushed and whichever git is killed; and a
\* process that is alone, with no lock left behind, finds a revision that is in
\* the cache without the origin.
THEOREM PinsHold == PartsSpec => PinHolds
<1> DEFINE Safe == Git!PinIsExact /\ Git!RecordedIsUsed
<1> DEFINE Good == Git!PinIsCached /\ Safe'
<1>1. GitInv /\ GitInv' /\ [Registry \/ Limiter \/ Connection \/ Service \/ Checkout
                              \/ Delivery]_allVars => [Good]_gitVars
  <2>1. GitInv' => Safe'
    BY DEF GitInv
  <2> QED
    BY <2>1, GitPinIsCached
       DEF Registry, Limiter, Connection, Service, Checkout, Delivery, allVars, gitVars
<1> QED
  BY <1>1, GitKept, PTL DEF PartsSpec, PinHolds

-----------------------------------------------------------------------------
(* The deployment artifact.                                                *)

\* The order in which the files are written: none twice, and after the
\* manifest only the runbook.
Orderly(s) ==
    /\ \A i, j \in 1 .. Len(s) : s[i] = s[j] => i = j
    /\ \A i, j \in 1 .. Len(s) :
          s[i] = "manifest.json" /\ i < j => s[j] = "RUNBOOK.md"

InSeq(s) == {s[i] : i \in 1 .. Len(s)}

LEMMA JoinedOrderly ==
  ASSUME NEW S, NEW s \in Seq(S), NEW t \in Seq(S), Orderly(s), Orderly(t),
         InSeq(s) \cap InSeq(t) = {}, "manifest.json" \notin InSeq(s)
  PROVE  /\ s \o t \in Seq(S)
         /\ Orderly(s \o t)
         /\ InSeq(s \o t) = InSeq(s) \cup InSeq(t)
<1> DEFINE st == s \o t
<1>1. /\ st \in Seq(S)
      /\ Len(s) \in Nat /\ Len(t) \in Nat
      /\ Len(st) = Len(s) + Len(t)
      /\ \A i \in 1 .. Len(s) + Len(t) :
            st[i] = IF i <= Len(s) THEN s[i] ELSE t[i - Len(s)]
  BY ConcatProperties, LenProperties
<1> HIDE DEF st
<1>2. \A i \in 1 .. Len(s) : st[i] = s[i] /\ i \in 1 .. Len(st) /\ s[i] \in InSeq(s)
  BY <1>1 DEF InSeq
<1>3. \A i \in 1 .. Len(t) : st[Len(s) + i] = t[i] /\ Len(s) + i \in 1 .. Len(st)
                               /\ t[i] \in InSeq(t)
  BY <1>1 DEF InSeq
<1>4. \A k \in 1 .. Len(st) :
        \/ k \in 1 .. Len(s) /\ st[k] = s[k]
        \/ /\ k - Len(s) \in 1 .. Len(t)
           /\ st[k] = t[k - Len(s)]
           /\ k > Len(s)
  BY <1>1
<1>5. InSeq(st) = InSeq(s) \cup InSeq(t)
  <2>1. \A k \in 1 .. Len(st) : st[k] \in InSeq(s) \cup InSeq(t)
    BY <1>2, <1>3, <1>4
  <2>2. \A x \in InSeq(s) : \E k \in 1 .. Len(st) : st[k] = x
    BY <1>2 DEF InSeq
  <2>3. \A x \in InSeq(t) : \E k \in 1 .. Len(st) : st[k] = x
    <3>1. \A i \in 1 .. Len(t) : \E k \in 1 .. Len(st) : st[k] = t[i]
      BY <1>3
    <3> QED
      BY <3>1 DEF InSeq
  <2>4. \A x : x \in InSeq(st) <=> \E k \in 1 .. Len(st) : st[k] = x
    BY DEF InSeq
  <2> QED
    BY <2>1, <2>2, <2>3, <2>4
<1>6. ASSUME NEW i \in 1 .. Len(st), NEW j \in 1 .. Len(st), st[i] = st[j] PROVE i = j
  <2>1. CASE i \in 1 .. Len(s) /\ j \in 1 .. Len(s)
    BY <1>2, <1>6, <2>1 DEF Orderly
  <2>2. CASE i - Len(s) \in 1 .. Len(t) /\ j - Len(s) \in 1 .. Len(t)
    <3>1. /\ t[i - Len(s)] = t[j - Len(s)]
          /\ i - Len(s) = j - Len(s) => i = j
      BY <1>1, <1>6, <2>2
    <3> QED
      BY <2>2, <3>1 DEF Orderly
  <2> QED
    BY <1>2, <1>3, <1>4, <1>6, <2>1, <2>2
<1>7. ASSUME NEW i \in 1 .. Len(st), NEW j \in 1 .. Len(st),
             st[i] = "manifest.json", i < j
      PROVE  st[j] = "RUNBOOK.md"
  <2>1. i - Len(s) \in 1 .. Len(t) /\ st[i] = t[i - Len(s)] /\ i > Len(s)
    BY <1>2, <1>4, <1>7
  <2>2. j - Len(s) \in 1 .. Len(t) /\ st[j] = t[j - Len(s)]
    BY <1>1, <1>4, <1>7, <2>1
  <2>3. i - Len(s) < j - Len(s)
    BY <1>1, <1>7
  <2> QED
    BY <1>7, <2>1, <2>2, <2>3 DEF Orderly
<1>8. Orderly(st)
  BY <1>6, <1>7 DEF Orderly
<1> QED
  BY <1>1, <1>5, <1>8 DEF st

LEMMA SeqOfSet ==
  ASSUME NEW S, IsFiniteSet(S)
  PROVE  /\ Deploy!SetToSeq(S) \in Seq(S)
         /\ Len(Deploy!SetToSeq(S)) = Cardinality(S)
         /\ InSeq(Deploy!SetToSeq(S)) = S
         /\ \A i, j \in 1 .. Cardinality(S) :
               Deploy!SetToSeq(S)[i] = Deploy!SetToSeq(S)[j] => i = j
<1> DEFINE n == Cardinality(S)
           s == Deploy!SetToSeq(S)
<1>1. n \in Nat /\ ExistsBijection(1 .. n, S)
  BY FS_CardinalityType
<1>2. PICK f \in [1 .. n -> S] : \A a, b \in 1 .. n : f[a] = f[b] => a = b
  BY <1>1 DEF ExistsBijection, Bijection, Injection, IsInjective
<1>3. s \in [1 .. n -> S] /\ \A a, b \in 1 .. n : s[a] = s[b] => a = b
  <2>1. \E g \in [1 .. n -> S] : Deploy!IsInjective(g)
    BY <1>2 DEF Deploy!IsInjective
  <2>2. s \in [1 .. n -> S] /\ Deploy!IsInjective(s)
    <3>1. Deploy!Cardinality(S) = n
      BY DEF Deploy!Cardinality, Cardinality
    <3> QED
      BY <2>1, <3>1 DEF Deploy!SetToSeq
  <2> QED
    BY <2>2 DEF Deploy!IsInjective
<1> HIDE DEF s
<1>4. s \in Injection(1 .. n, S)
  BY <1>3 DEF Injection, IsInjective
<1>5. Cardinality(1 .. n) = n
  BY <1>1, FS_Interval
<1>6. s \in Surjection(1 .. n, S)
  BY <1>4, <1>5, FS_Injection DEF n
<1>7. s \in Seq(S) /\ Len(s) = n
  BY <1>1, <1>3
<1>8. InSeq(s) = S
  BY <1>3, <1>6, <1>7 DEF Surjection, InSeq
<1> QED
  BY <1>3, <1>7, <1>8 DEF s

\* The files of version v.
PlanSet(v) ==
    {"num-deploy.json", "num.toml", "deploy", "manifest.json", "RUNBOOK.md"}
        \cup sources[v] \cup (IF v \in locked THEN {"num.lock"} ELSE {})

LEMMA PlanIsOrderly ==
  ASSUME Deploy!TypeOK, NEW v \in Deploy!Versions
  PROVE  /\ Deploy!Plan(v) \in Seq(Deploy!Files)
         /\ Orderly(Deploy!Plan(v))
         /\ InSeq(Deploy!Plan(v)) = PlanSet(v)
<1> DEFINE head == <<"num-deploy.json", "num.toml">>
           mid == IF v \in locked THEN <<"num.lock">> ELSE <<>>
           srcs == Deploy!SetToSeq(sources[v])
           end == <<"deploy", "manifest.json", "RUNBOOK.md">>
           F == Deploy!Files
<1>1. sources[v] \subseteq Sources /\ IsFiniteSet(sources[v])
  BY SurroundingsAssumption, FS_Subset DEF Deploy!TypeOK
<1>2. Sources \cap {"num-deploy.json", "num.toml", "num.lock", "deploy",
                    "manifest.json", "RUNBOOK.md"} = {}
  BY SurroundingsAssumption
<1>3. /\ head \in Seq(F) /\ Orderly(head)
      /\ InSeq(head) = {"num-deploy.json", "num.toml"}
  BY DEF Deploy!Files, Orderly, InSeq
<1>4. /\ mid \in Seq(F) /\ Orderly(mid)
      /\ InSeq(mid) = IF v \in locked THEN {"num.lock"} ELSE {}
  <2>1. CASE v \in locked
    <3>1. mid \in Seq(F) /\ Len(mid) = 1 /\ mid[1] = "num.lock"
      BY <2>1 DEF Deploy!Files
    <3> HIDE DEF mid
    <3> QED
      BY <2>1, <3>1 DEF Orderly, InSeq
  <2>2. CASE v \notin locked
    <3>1. mid \in Seq(F) /\ Len(mid) = 0
      BY <2>2
    <3> HIDE DEF mid
    <3> QED
      BY <2>2, <3>1 DEF Orderly, InSeq
  <2> QED
    BY <2>1, <2>2
<1>5. /\ srcs \in Seq(F) /\ Orderly(srcs)
      /\ InSeq(srcs) = sources[v]
  <2>1. srcs \in Seq(sources[v]) /\ InSeq(srcs) = sources[v]
    BY <1>1, SeqOfSet
  <2>2. \A i, j \in 1 .. Len(srcs) : srcs[i] = srcs[j] => i = j
    BY <1>1, SeqOfSet
  <2>3. \A i \in 1 .. Len(srcs) : srcs[i] # "manifest.json"
    BY <1>1, <1>2, <2>1, ElementOfSeq
  <2>4. srcs \in Seq(F)
    BY <1>1, <2>1, SeqMonotonic DEF Deploy!Files
  <2> QED
    BY <2>1, <2>2, <2>3, <2>4 DEF Orderly
<1>6. /\ end \in Seq(F) /\ Orderly(end)
      /\ InSeq(end) = {"deploy", "manifest.json", "RUNBOOK.md"}
  <2>1. end \in Seq(F) /\ Len(end) = 3
    BY DEF Deploy!Files
  <2>2. 1 .. Len(end) = {1, 2, 3}
    BY <2>1
  <2>3. end[1] = "deploy" /\ end[2] = "manifest.json" /\ end[3] = "RUNBOOK.md"
    OBVIOUS
  <2> HIDE DEF end
  <2> QED
    BY <2>1, <2>2, <2>3 DEF Orderly, InSeq
<1>7. Deploy!Plan(v) = ((head \o mid) \o srcs) \o end
  BY DEF Deploy!Plan
<1> HIDE DEF head, mid, srcs, end, F
<1> DEFINE two == head \o mid
           three == two \o srcs
           all == three \o end
<1>8. two \in Seq(F) /\ Orderly(two) /\ InSeq(two) = InSeq(head) \cup InSeq(mid)
  BY <1>3, <1>4, JoinedOrderly
<1> HIDE DEF two
<1>9. three \in Seq(F) /\ Orderly(three) /\ InSeq(three) = InSeq(two) \cup InSeq(srcs)
  <2>1. InSeq(two) \cap InSeq(srcs) = {}
    BY <1>1, <1>2, <1>3, <1>4, <1>5, <1>8
  <2>2. "manifest.json" \notin InSeq(two)
    BY <1>3, <1>4, <1>8
  <2> QED
    BY <1>5, <1>8, <2>1, <2>2, JoinedOrderly
<1> HIDE DEF three
<1>10. all \in Seq(F) /\ Orderly(all) /\ InSeq(all) = InSeq(three) \cup InSeq(end)
  <2>1. InSeq(three) \cap InSeq(end) = {}
    BY <1>1, <1>2, <1>3, <1>4, <1>5, <1>6, <1>8, <1>9
  <2>2. "manifest.json" \notin InSeq(three)
    BY <1>1, <1>2, <1>3, <1>4, <1>5, <1>8, <1>9
  <2> QED
    BY <1>6, <1>9, <2>1, <2>2, JoinedOrderly
<1> HIDE DEF all
<1>11. InSeq(all) = PlanSet(v)
  BY <1>3, <1>4, <1>5, <1>6, <1>8, <1>9, <1>10 DEF PlanSet
<1> QED
  BY <1>7, <1>10, <1>11 DEF F, all, three, two

LEMMA TailOrderly ==
  ASSUME NEW S, NEW s \in Seq(S), s # <<>>, Orderly(s)
  PROVE  /\ Orderly(Tail(s))
         /\ Head(s) \in InSeq(s) /\ Head(s) \in S
         /\ InSeq(Tail(s)) = InSeq(s) \ {Head(s)}
         /\ Head(s) = "manifest.json" => InSeq(Tail(s)) \subseteq {"RUNBOOK.md"}
<1> DEFINE t == Tail(s)
<1>1. /\ t \in Seq(S) /\ Len(s) \in Nat \ {0} /\ Len(t) = Len(s) - 1
      /\ \A i \in 1 .. Len(t) : t[i] = s[i + 1]
      /\ Head(s) = s[1] /\ Head(s) \in S
  BY HeadTailProperties, EmptySeq
<1> HIDE DEF t
<1>2. \A i \in 1 .. Len(t) : i + 1 \in 1 .. Len(s) /\ i + 1 # 1
  BY <1>1
<1>3. \A k \in 1 .. Len(s) : k # 1 => k - 1 \in 1 .. Len(t) /\ s[k] = t[k - 1]
  BY <1>1
<1>4. Orderly(t)
  BY <1>1, <1>2 DEF Orderly
<1>5. 1 \in 1 .. Len(s)
  BY <1>1
<1>6. \A x : x \in InSeq(t) <=> \E i \in 1 .. Len(t) : t[i] = x
  BY DEF InSeq
<1>7. \A x : x \in InSeq(s) <=> \E k \in 1 .. Len(s) : s[k] = x
  BY DEF InSeq
<1>8. ASSUME NEW x \in InSeq(t) PROVE x \in InSeq(s) /\ x # s[1]
  BY <1>1, <1>2, <1>5, <1>6, <1>7, <1>8 DEF Orderly
<1>9. ASSUME NEW x \in InSeq(s), x # s[1] PROVE x \in InSeq(t)
  BY <1>3, <1>6, <1>7, <1>9
<1>10. InSeq(t) = InSeq(s) \ {Head(s)}
  BY <1>1, <1>8, <1>9
<1>11. ASSUME s[1] = "manifest.json", NEW x \in InSeq(t) PROVE x = "RUNBOOK.md"
  BY <1>1, <1>2, <1>5, <1>6, <1>11 DEF Orderly
<1>12. Head(s) \in InSeq(s)
  BY <1>1, <1>5, <1>7
<1> QED
  BY <1>1, <1>4, <1>10, <1>11, <1>12 DEF t

\* What is left to write, and that it ends with the manifest and the runbook.
PlanIsFollowed ==
    /\ todo \in Seq(Deploy!Files)
    /\ stage \in {"remove", "create", "write"} => Orderly(todo)
    /\ stage \in {"remove", "create"} => InSeq(todo) = PlanSet(loaded)
    /\ stage = "write" =>
          /\ InSeq(todo) \subseteq PlanSet(loaded)
          /\ "manifest.json" \notin InSeq(todo) => InSeq(todo) \subseteq {"RUNBOOK.md"}

\* The files in place are those of the plan that are not left to write.
FilesAreInPlace ==
    \A f \in Deploy!Files :
        IF f \in PlanSet(loaded) \ InSeq(todo)
        THEN /\ artifact[f] # Deploy!Absent
             /\ f \notin {"num.toml", "num.lock"} => artifact[f] = loaded
        ELSE artifact[f] = Deploy!Absent

\* Nothing lies where no directory is.
EmptyUnlessThere ==
    /\ ~there => \A f \in Deploy!Files : artifact[f] = Deploy!Absent
    /\ stage = "create" => ~there
    /\ stage = "write" => there

DeployInv ==
    /\ Deploy!TypeOK
    /\ PlanIsFollowed
    /\ EmptyUnlessThere
    /\ stage = "write" => FilesAreInPlace
    /\ Deploy!ManifestMeansWhole
    /\ Deploy!ReportedIsWhole

LEMMA DeployInit == PartsInit => DeployInv
<1> SUFFICES ASSUME PartsInit PROVE DeployInv
  OBVIOUS
<1>1. Deploy!Init
  BY DEF PartsInit
<1>2. MaxVersions \in Nat \ {0}
  BY SurroundingsAssumption
<1>3. 1 \in Deploy!Versions
  BY <1>2 DEF Deploy!Versions
<1>4. todo \in Seq(Deploy!Files) /\ Deploy!ToSet(todo) \subseteq Deploy!Files
  BY <1>1 DEF Deploy!Init, Deploy!ToSet
<1>5. Deploy!TypeOK
  BY <1>1, <1>3, <1>4 DEF Deploy!Init, Deploy!TypeOK
<1>6. "manifest.json" \in Deploy!Files
  BY DEF Deploy!Files
<1> QED
  BY <1>1, <1>4, <1>5, <1>6
     DEF Deploy!Init, DeployInv, PlanIsFollowed, EmptyUnlessThere,
         Deploy!ManifestMeansWhole, Deploy!ReportedIsWhole

\* When only the runbook is left, the rest is whole.
AllButRunbook ==
    Deploy!TypeOK /\ FilesAreInPlace /\ InSeq(todo) \subseteq {"RUNBOOK.md"} =>
        /\ Deploy!IsOf(loaded)
        /\ artifact["manifest.json"] = loaded
        /\ InSeq(todo) = {} => artifact["RUNBOOK.md"] = loaded

LEMMA RestIsWhole == AllButRunbook
<1> SUFFICES ASSUME Deploy!TypeOK, FilesAreInPlace, InSeq(todo) \subseteq {"RUNBOOK.md"}
             PROVE  /\ Deploy!IsOf(loaded)
                    /\ artifact["manifest.json"] = loaded
                    /\ InSeq(todo) = {} => artifact["RUNBOOK.md"] = loaded
  BY DEF AllButRunbook
<1>1. loaded \in Deploy!Versions /\ sources[loaded] \subseteq Sources
  BY DEF Deploy!TypeOK
<1>2. Sources \cap {"num-deploy.json", "num.toml", "num.lock", "deploy",
                    "manifest.json", "RUNBOOK.md"} = {}
  BY SurroundingsAssumption
<1>3. \A f \in PlanSet(loaded) \ {"RUNBOOK.md"} :
        /\ artifact[f] # Deploy!Absent
        /\ f \notin {"num.toml", "num.lock"} => artifact[f] = loaded
  BY <1>1 DEF FilesAreInPlace, PlanSet, Deploy!Files
<1>4. \A f \in Deploy!Files \ PlanSet(loaded) : artifact[f] = Deploy!Absent
  BY DEF FilesAreInPlace
<1>5. Deploy!IsOf(loaded)
  <2>1. \A f \in {"num-deploy.json", "deploy"} \cup sources[loaded] :
            artifact[f] = loaded
    BY <1>1, <1>2, <1>3 DEF PlanSet
  <2>2. \A f \in Sources \ sources[loaded] : artifact[f] = Deploy!Absent
    BY <1>1, <1>2, <1>4 DEF PlanSet, Deploy!Files
  <2>3. artifact["num.toml"] # Deploy!Absent
    BY <1>3 DEF PlanSet
  <2>4. artifact["num.lock"] # Deploy!Absent <=> loaded \in locked
    BY <1>1, <1>2, <1>3, <1>4 DEF PlanSet, Deploy!Files
  <2> QED
    BY <2>1, <2>2, <2>3, <2>4 DEF Deploy!IsOf
<1>6. artifact["manifest.json"] = loaded
  BY <1>3 DEF PlanSet
<1>7. InSeq(todo) = {} => artifact["RUNBOOK.md"] = loaded
  BY DEF FilesAreInPlace, PlanSet, Deploy!Files
<1> QED
  BY <1>5, <1>6, <1>7

LEMMA RestIsWholeNext == AllButRunbook'
  BY RestIsWhole, PTL

LEMMA DeployTyped ==
  DeployInv /\ Deploy!Next => Deploy!TypeOK' /\ todo' \in Seq(Deploy!Files)
<1> SUFFICES ASSUME DeployInv, Deploy!Next
             PROVE  Deploy!TypeOK' /\ todo' \in Seq(Deploy!Files)
  OBVIOUS
<1>a. MaxVersions \in Nat \ {0}
  BY SurroundingsAssumption
<1> USE DEF DeployInv, Deploy!TypeOK, PlanIsFollowed
<1>b. \A s \in Seq(Deploy!Files) : Deploy!ToSet(s) \subseteq Deploy!Files
  BY DEF Deploy!ToSet
<1>1. ASSUME NEW over \in BOOLEAN, Deploy!Start(over)
      PROVE  Deploy!TypeOK' /\ todo' \in Seq(Deploy!Files)
  <2>1. todo' \in Seq(Deploy!Files)
    BY <1>1, PlanIsOrderly DEF Deploy!Start
  <2> QED
    BY <1>b, <1>1, <2>1 DEF Deploy!Start
<1>2. CASE Deploy!RemoveFile
  BY <1>2 DEF Deploy!RemoveFile
<1>3. CASE Deploy!RemoveDir
  BY <1>3 DEF Deploy!RemoveDir
<1>4. CASE Deploy!Create
  BY <1>4 DEF Deploy!Create
<1>5. CASE Deploy!Write
  <2>1. todo' \in Seq(Deploy!Files)
    BY <1>5 DEF Deploy!Write
  <2> QED
    BY <1>b, <1>5, <2>1 DEF Deploy!Write
<1>6. CASE Deploy!Finish
  BY <1>6 DEF Deploy!Finish
<1>7. CASE Deploy!Stop
  <2>1. todo' \in Seq(Deploy!Files)
    BY <1>7 DEF Deploy!Stop
  <2> QED
    BY <1>b, <1>7, <2>1 DEF Deploy!Stop
<1>8. CASE Deploy!Edit
  BY <1>a, <1>8 DEF Deploy!Edit, Deploy!Versions
<1> QED
  BY <1>1, <1>2, <1>3, <1>4, <1>5, <1>6, <1>7, <1>8 DEF Deploy!Next

LEMMA DeployStep == DeployInv /\ Deploy!Next => DeployInv'
<1> SUFFICES ASSUME DeployInv, Deploy!Next PROVE DeployInv'
  OBVIOUS
<1>a. Deploy!TypeOK' /\ todo' \in Seq(Deploy!Files)
  BY DeployTyped
<1>b. Deploy!TypeOK /\ todo \in Seq(Deploy!Files)
  BY DEF DeployInv, PlanIsFollowed
<1>c. \A f \in Deploy!Files : artifact[f] = Deploy!Absent <=> f \notin Deploy!Left
  BY DEF Deploy!Left
<1>d. "manifest.json" \in Deploy!Files
  BY DEF Deploy!Files
<1> USE DEF DeployInv, PlanIsFollowed, EmptyUnlessThere
<1>1. ASSUME NEW over \in BOOLEAN, Deploy!Start(over) PROVE DeployInv'
  <2>1. /\ stage' \in {"remove", "create"} /\ loaded' = disk
        /\ todo' = Deploy!Plan(disk)
        /\ UNCHANGED <<disk, sources, locked, there, artifact, removing>>
        /\ stage' = "create" <=> ~there
    BY <1>1 DEF Deploy!Start
  <2>2. disk \in Deploy!Versions
    BY <1>b DEF Deploy!TypeOK
  <2>3. Orderly(todo') /\ InSeq(todo') = PlanSet(loaded)'
    BY <1>b, <2>1, <2>2, PlanIsOrderly DEF PlanSet
  <2>4. Deploy!ManifestMeansWhole'
    BY <2>1 DEF Deploy!ManifestMeansWhole, Deploy!IsOf
  <2>5. Deploy!ReportedIsWhole'
    BY <2>1 DEF Deploy!ReportedIsWhole
  <2> QED
    BY <1>a, <2>1, <2>3, <2>4, <2>5
<1>2. CASE Deploy!RemoveFile
  <2>1. /\ stage = "remove" /\ removing'
        /\ UNCHANGED <<disk, sources, locked, there, todo, stage, loaded>>
    BY <1>2 DEF Deploy!RemoveFile
  <2>2. \A f \in Deploy!Files :
            artifact[f] = Deploy!Absent => artifact'[f] = Deploy!Absent
    BY <1>2, <1>b DEF Deploy!RemoveFile, Deploy!Left, Deploy!TypeOK
  <2>3. PlanSet(loaded)' = PlanSet(loaded)
    BY <2>1 DEF PlanSet
  <2> QED
    BY <1>a, <2>1, <2>2, <2>3 DEF Deploy!ManifestMeansWhole, Deploy!ReportedIsWhole
<1>3. CASE Deploy!RemoveDir
  <2>1. /\ stage = "remove" /\ stage' = "create" /\ ~there' /\ Deploy!Left = {}
        /\ UNCHANGED <<disk, sources, locked, artifact, todo, loaded>>
    BY <1>3 DEF Deploy!RemoveDir
  <2>2. \A f \in Deploy!Files : artifact'[f] = Deploy!Absent
    BY <1>c, <2>1
  <2>3. PlanSet(loaded)' = PlanSet(loaded)
    BY <2>1 DEF PlanSet
  <2> QED
    BY <1>a, <1>d, <2>1, <2>2, <2>3
       DEF Deploy!ManifestMeansWhole, Deploy!ReportedIsWhole
<1>4. CASE Deploy!Create
  <2>1. /\ stage = "create" /\ stage' = "write" /\ there'
        /\ UNCHANGED <<disk, sources, locked, artifact, todo, loaded, removing>>
    BY <1>4 DEF Deploy!Create
  <2>2. \A f \in Deploy!Files : artifact'[f] = Deploy!Absent
    BY <2>1
  <2>3. InSeq(todo') = PlanSet(loaded)' /\ "manifest.json" \in InSeq(todo')
    BY <2>1 DEF PlanSet
  <2>4. FilesAreInPlace'
    BY <2>2, <2>3 DEF FilesAreInPlace
  <2> QED
    BY <1>a, <1>d, <2>1, <2>2, <2>3, <2>4
       DEF Deploy!ManifestMeansWhole, Deploy!ReportedIsWhole
<1>5. CASE Deploy!Write
  <2> DEFINE f0 == Head(todo)
  <2>1. /\ stage = "write" /\ todo # <<>> /\ todo' = Tail(todo)
        /\ artifact' = [artifact EXCEPT ![f0] =
              IF f0 \in {"num.toml", "num.lock"} THEN disk ELSE loaded]
        /\ UNCHANGED <<disk, sources, locked, there, stage, loaded, removing>>
    BY <1>5 DEF Deploy!Write
  <2>2. /\ Orderly(todo')
        /\ f0 \in InSeq(todo) /\ f0 \in Deploy!Files
        /\ InSeq(todo') = InSeq(todo) \ {f0}
        /\ f0 = "manifest.json" => InSeq(todo') \subseteq {"RUNBOOK.md"}
    BY <1>b, <2>1, TailOrderly
  <2> HIDE DEF f0
  <2>3. PlanSet(loaded)' = PlanSet(loaded)
    BY <2>1 DEF PlanSet
  <2>4. disk # Deploy!Absent /\ loaded # Deploy!Absent
    BY <1>b, SurroundingsAssumption DEF Deploy!TypeOK, Deploy!Versions, Deploy!Absent
  <2>5. "manifest.json" \notin InSeq(todo') => InSeq(todo') \subseteq {"RUNBOOK.md"}
    BY <2>1, <2>2
  <2>6. InSeq(todo) \subseteq PlanSet(loaded)
    BY <2>1
  <2>7. FilesAreInPlace'
    <3>1. ASSUME NEW f \in Deploy!Files
          PROVE  artifact'[f] = IF f # f0 THEN artifact[f]
                                ELSE IF f0 \in {"num.toml", "num.lock"} THEN disk
                                ELSE loaded
      BY <1>b, <2>1, <2>2 DEF Deploy!TypeOK
    <3> QED
      BY <2>1, <2>2, <2>3, <2>4, <2>6, <3>1 DEF FilesAreInPlace
  <2>8. Deploy!ManifestMeansWhole'
    <3>1. CASE "manifest.json" \in InSeq(todo')
      BY <1>d, <2>7, <3>1 DEF FilesAreInPlace, Deploy!ManifestMeansWhole
    <3>2. CASE InSeq(todo') \subseteq {"RUNBOOK.md"}
      <4>1. Deploy!IsOf(loaded)' /\ artifact'["manifest.json"] = loaded'
        BY <1>a, <2>7, <3>2, RestIsWholeNext DEF AllButRunbook
      <4> QED
        BY <4>1 DEF Deploy!ManifestMeansWhole, Deploy!IsOf
    <3> QED
      BY <2>5, <3>1, <3>2
  <2> QED
    BY <1>a, <2>1, <2>2, <2>3, <2>5, <2>6, <2>7, <2>8 DEF Deploy!ReportedIsWhole
<1>6. CASE Deploy!Finish
  <2>1. /\ stage = "write" /\ stage' = "done" /\ todo = <<>>
        /\ UNCHANGED <<disk, sources, locked, there, artifact, todo, loaded, removing>>
    BY <1>6 DEF Deploy!Finish
  <2>2. InSeq(todo) = {}
    BY <2>1 DEF InSeq
  <2>3. /\ Deploy!IsOf(loaded)
        /\ artifact["manifest.json"] = loaded /\ artifact["RUNBOOK.md"] = loaded
    BY <1>b, <2>1, <2>2, RestIsWhole DEF AllButRunbook
  <2> QED
    BY <1>a, <2>1, <2>3
       DEF Deploy!ManifestMeansWhole, Deploy!ReportedIsWhole, Deploy!IsOf
<1>7. CASE Deploy!Stop
  BY <1>a, <1>7
     DEF Deploy!Stop, Deploy!ManifestMeansWhole, Deploy!ReportedIsWhole, Deploy!IsOf
<1>8. CASE Deploy!Edit
  <2>1. UNCHANGED <<sources, locked, there, artifact, todo, stage, loaded, removing>>
    BY <1>8 DEF Deploy!Edit
  <2> QED
    BY <1>a, <2>1
       DEF PlanSet, FilesAreInPlace, Deploy!ManifestMeansWhole, Deploy!ReportedIsWhole,
           Deploy!IsOf
<1> QED
  BY <1>1, <1>2, <1>3, <1>4, <1>5, <1>6, <1>7, <1>8 DEF Deploy!Next

LEMMA DeployKept == PartsSpec => []DeployInv
<1>1. DeployInv /\ UNCHANGED deployVars => DeployInv'
  BY DEF DeployInv, Deploy!TypeOK, PlanIsFollowed, EmptyUnlessThere, FilesAreInPlace,
         PlanSet, Deploy!ManifestMeansWhole, Deploy!ReportedIsWhole, Deploy!IsOf,
         deployVars
<1>2. DeployInv /\ [Registry \/ Limiter \/ Connection \/ Service \/ Checkout
                      \/ Delivery]_allVars => DeployInv'
  BY <1>1, DeployStep
     DEF Registry, Limiter, Connection, Service, Checkout, Delivery, allVars
<1> QED
  BY <1>2, DeployInit, PTL DEF PartsSpec

\* An artifact that has its manifest, or is reported, is one whole version and
\* nothing else, for any set of source files and any sequence of deployments,
\* kills and edits; but for a removal that was stopped half-way.
THEOREM ArtifactsAreWhole == PartsSpec => []ArtifactIsWhole
<1>1. DeployInv => ArtifactIsWhole
  BY DEF DeployInv, ArtifactIsWhole, Deploy!ArtifactIsWhole
<1> QED
  BY <1>1, DeployKept, PTL

-----------------------------------------------------------------------------
(* The rate limiter.                                                       *)

CountSince(g, from) == Cardinality({i \in 1 .. Len(g) : g[i] >= from})

LEMMA PartOfInterval ==
  ASSUME NEW m \in Int, NEW n \in Int, NEW T \in SUBSET (m .. n)
  PROVE  /\ IsFiniteSet(T)
         /\ Cardinality(T) \in Nat
         /\ n >= m - 1 => Cardinality(T) <= n - m + 1
<1>1. IsFiniteSet(m .. n) /\ Cardinality(m .. n) = IF m > n THEN 0 ELSE n - m + 1
  BY FS_Interval
<1>2. IsFiniteSet(T) /\ Cardinality(T) <= Cardinality(m .. n)
  BY <1>1, FS_Subset
<1>3. Cardinality(T) \in Nat
  BY <1>2, FS_CardinalityType
<1> QED
  BY <1>1, <1>2, <1>3

LEMMA CountSinceAppend ==
  ASSUME NEW g \in Seq(Nat), NEW e \in Nat, NEW from \in Nat
  PROVE  /\ CountSince(g, from) \in Nat
         /\ CountSince(Append(g, e), from) =
               IF e >= from THEN CountSince(g, from) + 1 ELSE CountSince(g, from)
<1> DEFINE h == Append(g, e)
           G == {i \in 1 .. Len(g) : g[i] >= from}
           H == {i \in 1 .. Len(h) : h[i] >= from}
<1>1. /\ Len(g) \in Nat /\ Len(h) = Len(g) + 1
      /\ \A i \in 1 .. Len(g) : h[i] = g[i]
      /\ h[Len(g) + 1] = e
  OBVIOUS
<1>2. G \in SUBSET (1 .. Len(g))
  OBVIOUS
<1>3. IsFiniteSet(G) /\ Cardinality(G) \in Nat
  BY <1>1, <1>2, PartOfInterval
<1> HIDE DEF h
<1>4. H = IF e >= from THEN G \cup {Len(g) + 1} ELSE G
  BY <1>1
<1>5. Len(g) + 1 \notin G
  BY <1>1
<1>6. Cardinality(G \cup {Len(g) + 1}) = Cardinality(G) + 1
  BY <1>3, <1>5, FS_AddElement
<1> QED
  BY <1>3, <1>4, <1>6 DEF CountSince, h

\* w is a window that began in the past, with at most spare more requests than
\* were let through since.
IsBacked(w, spare) ==
    w # NoWindow =>
        w.started <= now /\ w.count <= CountSince(granted, w.started) + spare

\* No window, in the store or on its way there, counts a request that was not
\* let through, save the one it is written for.
CountsAreBacked ==
    /\ \A i \in 1 .. Len(granted) : granted[i] <= now
    /\ \A p \in Processes : sampled[p] <= now /\ IsBacked(counted[p], 1)
    /\ IsBacked(file, 0)
    /\ IsBacked(tmp, 1)

\* Processes that take turns write what they counted on top of the store.
TurnsAreWhole ==
    /\ \A p, q \in Processes : limiter[p] # "idle" /\ limiter[q] # "idle" => p = q
    /\ \A p \in Processes :
          /\ limiter[p] # "idle" =>
                \A i \in 1 .. Len(granted) : granted[i] <= sampled[p]
          /\ limiter[p] \in {"write", "rename"} =>
                /\ ~Limit!Full(Limit!Opened(file, sampled[p]))
                /\ counted[p] = [Limit!Opened(file, sampled[p]) EXCEPT !.count = @ + 1]
          /\ limiter[p] = "rename" => tmp = counted[p]

\* The requests let through in earlier windows.
Earlier == Len(granted) - file.count

\* The last requests are those of the window in the store; a window's length
\* before it began saw no more than the limit, and nothing more than twice.
WindowsFollow ==
    /\ file = NoWindow => granted = <<>>
    /\ file # NoWindow =>
          /\ Earlier >= 0
          /\ \A i \in 1 .. Len(granted) :
                IF i <= Earlier THEN granted[i] <= file.started
                ELSE granted[i] >= file.started
          /\ Cardinality({i \in 1 .. Earlier : granted[i] + Window > file.started})
                <= Limit!Max
    /\ \A t \in Nat : Limit!GrantedIn(t, t + Window) <= 2 * Limit!Max

LimitInv ==
    /\ Limit!TypeOK
    /\ CountsAreBacked
    /\ ~met => TurnsAreWhole /\ WindowsFollow

LEMMA LimitFacts ==
  /\ Limit!Max \in Nat \ {0}
  /\ MaxNow \in Nat /\ Window \in Nat
  /\ NoWindow \notin Limit!WindowState
  BY SurroundingsAssumption DEF Limit!Max

LEMMA LimitInit == PartsInit => LimitInv
<1> SUFFICES ASSUME PartsInit PROVE LimitInv
  OBVIOUS
<1>1. Limit!Init
  BY DEF PartsInit
<1>2. Limit!TypeOK
  <2>1. met \in BOOLEAN
    BY <1>1, Zenon DEF Limit!Init
  <2>2. now \in 0 .. MaxNow /\ sampled \in [Processes -> 0 .. MaxNow]
    BY <1>1, LimitFacts DEF Limit!Init
  <2>3. granted \in Seq(0 .. MaxNow)
    BY <1>1 DEF Limit!Init
  <2> QED
    BY <1>1, <2>1, <2>2, <2>3 DEF Limit!Init, Limit!TypeOK
<1>3. CountsAreBacked
  BY <1>1 DEF Limit!Init, CountsAreBacked, IsBacked
<1>4. TurnsAreWhole
  BY <1>1 DEF Limit!Init, TurnsAreWhole
<1>5. WindowsFollow
  <2>1. granted = <<>> /\ file = NoWindow
    BY <1>1 DEF Limit!Init
  <2>2. ASSUME NEW t \in Nat PROVE Limit!GrantedIn(t, t + Window) = 0
    <3>1. {i \in 1 .. Len(granted) : granted[i] >= t /\ granted[i] < t + Window} = {}
      BY <2>1
    <3>2. Limit!Cardinality({}) = Cardinality({})
      BY DEF Limit!Cardinality, Cardinality
    <3> QED
      BY <3>1, <3>2, FS_EmptySet DEF Limit!GrantedIn
  <2> QED
    BY <2>1, <2>2, LimitFacts DEF WindowsFollow
<1> QED
  BY <1>2, <1>3, <1>4, <1>5 DEF LimitInv

LEMMA OpenedIsWindow ==
  ASSUME Limit!TypeOK, NEW w \in Limit!WindowState \cup {NoWindow}, NEW t \in Nat
  PROVE  /\ Limit!Opened(w, t) \in Limit!WindowState
         /\ ~Limit!Full(Limit!Opened(w, t)) =>
               [Limit!Opened(w, t) EXCEPT !.count = @ + 1] \in Limit!WindowState
<1>1. Limit!Opened(w, t) \in Limit!WindowState
  BY LimitFacts DEF Limit!Opened, Limit!NewWindow, Limit!WindowState
<1> QED
  BY <1>1, LimitFacts DEF Limit!Full, Limit!WindowState

LEMMA LimitTyped == LimitInv /\ Limit!Next => Limit!TypeOK'
<1> SUFFICES ASSUME LimitInv, Limit!Next PROVE Limit!TypeOK'
  OBVIOUS
<1> USE LimitFacts DEF LimitInv, Limit!TypeOK
<1>1. CASE Limit!Tick
  BY <1>1 DEF Limit!Tick
<1>2. ASSUME NEW p \in Processes, Limit!Check(p) PROVE Limit!TypeOK'
  BY <1>2 DEF Limit!Check
<1>3. ASSUME NEW p \in Processes, Limit!Refuse(p) \/ Limit!Kill(p) PROVE Limit!TypeOK'
  <2>1. Limit!Leave(p) /\ UNCHANGED <<now, file, tmp, granted, met>>
    BY <1>3 DEF Limit!Refuse, Limit!Kill
  <2> QED
    BY <2>1 DEF Limit!Leave
<1>4. ASSUME NEW p \in Processes, Limit!Count(p) PROVE Limit!TypeOK'
  <2>1. counted' \in [Processes -> Limit!WindowState \cup {NoWindow}]
    BY <1>4, OpenedIsWindow DEF Limit!Count
  <2> QED
    BY <1>4, <2>1 DEF Limit!Count
<1>5. ASSUME NEW p \in Processes, Limit!Write(p) PROVE Limit!TypeOK'
  BY <1>5 DEF Limit!Write
<1>6. ASSUME NEW p \in Processes, Limit!Rename(p) PROVE Limit!TypeOK'
  BY <1>6 DEF Limit!Rename, Limit!Leave
<1> QED
  BY <1>1, <1>2, <1>3, <1>4, <1>5, <1>6 DEF Limit!Next

LEMMA LimitBacked == LimitInv /\ Limit!Next => CountsAreBacked'
<1> SUFFICES ASSUME LimitInv, Limit!Next PROVE CountsAreBacked'
  OBVIOUS
<1>a. granted \in Seq(Nat) /\ now \in Nat /\ Len(granted) \in Nat
  BY SeqMonotonic, LimitFacts DEF LimitInv, Limit!TypeOK
<1>b. \A w \in Limit!WindowState :
        w # NoWindow /\ w.started \in Nat /\ w.count \in Nat
  BY LimitFacts DEF Limit!WindowState
<1> USE DEF LimitInv, Limit!TypeOK, CountsAreBacked, IsBacked
<1>1. CASE Limit!Tick
  <2>1. now' = now + 1 /\ UNCHANGED <<file, tmp, limiter, sampled, counted, granted>>
    BY <1>1 DEF Limit!Tick
  <2>2. \A w : IsBacked(w, 0)' <=> (w' # NoWindow => w'.started <= now + 1
                 /\ w'.count <= CountSince(granted, w'.started) + 0)
    BY <2>1
  <2>3. \A p \in Processes : sampled[p] \in Nat
    BY LimitFacts
  <2> QED
    BY <1>a, <1>b, <2>1, <2>3
<1>2. ASSUME NEW p \in Processes, Limit!Check(p) PROVE CountsAreBacked'
  <2>1. sampled' = [sampled EXCEPT ![p] = now] /\ UNCHANGED <<now, file, tmp, counted, granted>>
    BY <1>2 DEF Limit!Check
  <2> QED
    BY <1>a, <2>1
<1>3. ASSUME NEW p \in Processes, Limit!Refuse(p) \/ Limit!Kill(p)
      PROVE  CountsAreBacked'
  <2>1. Limit!Leave(p) /\ UNCHANGED <<now, file, tmp, granted, met>>
    BY <1>3 DEF Limit!Refuse, Limit!Kill
  <2> QED
    BY <1>a, <2>1 DEF Limit!Leave
<1>4. ASSUME NEW p \in Processes, Limit!Count(p) PROVE CountsAreBacked'
  <2> DEFINE w == Limit!Opened(file, sampled[p])
             v == [w EXCEPT !.count = @ + 1]
  <2>1. /\ counted' = [counted EXCEPT ![p] = v]
        /\ UNCHANGED <<now, file, tmp, sampled, granted>>
        /\ ~Limit!Full(w)
    BY <1>4 DEF Limit!Count
  <2>2. sampled[p] \in Nat /\ sampled[p] <= now
    BY LimitFacts
  <2>3. /\ w.started \in Nat /\ w.started <= now
        /\ w.count \in Nat /\ w.count <= CountSince(granted, w.started)
        /\ w \in Limit!WindowState
    <3>1. CASE w = file /\ file # NoWindow
      <4>1. file \in Limit!WindowState /\ file.started \in Nat /\ file.count \in Nat
        BY <1>b, <3>1
      <4>2. CountSince(granted, file.started) \in Nat
        BY <1>a, <4>1, CountSinceAppend
      <4>3. /\ file.started <= now
            /\ file.count <= CountSince(granted, file.started) + 0
        BY <3>1
      <4> HIDE DEF w
      <4> QED
        BY <3>1, <4>1, <4>2, <4>3
    <3>2. CASE w = Limit!NewWindow(sampled[p])
      <4>1. CountSince(granted, sampled[p]) \in Nat
        BY <1>a, <2>2, CountSinceAppend
      <4> QED
        BY <2>2, <3>2, <4>1, LimitFacts DEF Limit!NewWindow, Limit!WindowState
    <3> QED
      BY <3>1, <3>2 DEF Limit!Opened
  <2>4. v.started = w.started /\ v.count = w.count + 1
    BY <2>3 DEF Limit!WindowState
  <2> HIDE DEF w, v
  <2>5. CountSince(granted, w.started) \in Nat
    BY <1>a, <2>3, CountSinceAppend
  <2>6. IsBacked(v, 1)
    BY <2>3, <2>4, <2>5
  <2> QED
    BY <2>1, <2>6
<1>5. ASSUME NEW p \in Processes, Limit!Write(p) PROVE CountsAreBacked'
  BY <1>5 DEF Limit!Write
<1>6. ASSUME NEW p \in Processes, Limit!Rename(p) PROVE CountsAreBacked'
  <2>1. Limit!Leave(p) /\ tmp' = NoWindow /\ now' = now
    BY <1>6 DEF Limit!Rename
  <2>2. CASE tmp = NoWindow
    <3>1. UNCHANGED <<file, granted>>
      BY <1>6, <2>2 DEF Limit!Rename
    <3> QED
      BY <1>a, <2>1, <3>1 DEF Limit!Leave
  <2>3. CASE tmp # NoWindow
    <3>1. file' = tmp /\ granted' = Append(granted, now)
      BY <1>6, <2>3 DEF Limit!Rename
    <3>2. \A i \in 1 .. Len(granted') : granted'[i] <= now
      BY <1>a, <3>1
    <3>3. ASSUME NEW t \in Nat
          PROVE  /\ CountSince(granted, t) \in Nat
                 /\ CountSince(granted', t) \in Nat
                 /\ CountSince(granted', t) >= CountSince(granted, t)
                 /\ t <= now => CountSince(granted', t) = CountSince(granted, t) + 1
      <4>1. /\ CountSince(granted, t) \in Nat
            /\ CountSince(granted', t) = IF now >= t THEN CountSince(granted, t) + 1
                                         ELSE CountSince(granted, t)
        BY <1>a, <3>1, CountSinceAppend
      <4> QED
        BY <1>a, <4>1
    <3>4. IsBacked(file, 0)'
      <4>1. tmp \in Limit!WindowState /\ tmp.started \in Nat /\ tmp.count \in Nat
        BY <1>b, <2>3
      <4>2. tmp.started <= now /\ tmp.count <= CountSince(granted, tmp.started) + 1
        BY <2>3
      <4>3. CountSince(granted', tmp.started) = CountSince(granted, tmp.started) + 1
            /\ CountSince(granted', tmp.started) \in Nat
        BY <3>3, <4>1, <4>2
      <4>4. tmp.count <= CountSince(granted', tmp.started) + 0
        BY <4>2, <4>3, <4>1
      <4> QED
        BY <2>1, <3>1, <4>2, <4>4
    <3>5. ASSUME NEW q \in Processes PROVE sampled'[q] <= now /\ IsBacked(counted[q], 1)'
      <4>1. CASE q = p
        BY <1>a, <2>1, <4>1 DEF Limit!Leave
      <4>2. CASE q # p
        <5>1. counted'[q] = counted[q] /\ sampled'[q] = sampled[q]
          BY <2>1, <4>2 DEF Limit!Leave
        <5>2. CASE counted[q] = NoWindow
          BY <2>1, <5>1, <5>2
        <5>3. CASE counted[q] # NoWindow
          <6> DEFINE w == counted[q]
          <6>1. w.started \in Nat /\ w.count \in Nat
            BY <1>b, <5>3
          <6>2. w.started <= now /\ w.count <= CountSince(granted, w.started) + 1
            BY <5>3
          <6>3. /\ CountSince(granted, w.started) \in Nat
                /\ CountSince(granted', w.started) \in Nat
                /\ CountSince(granted', w.started) >= CountSince(granted, w.started)
            BY <3>3, <6>1
          <6>4. w.count <= CountSince(granted', w.started) + 1
            BY <6>1, <6>2, <6>3
          <6> QED
            BY <2>1, <5>1, <6>2, <6>4
        <5> QED
          BY <5>2, <5>3
      <4> QED
        BY <4>1, <4>2
    <3> QED
      BY <2>1, <3>2, <3>4, <3>5
  <2> QED
    BY <2>2, <2>3
<1> QED
  BY <1>1, <1>2, <1>3, <1>4, <1>5, <1>6 DEF Limit!Next

LEMMA LimitTurns ==
  LimitInv /\ Limit!Next /\ ~met' => ~met /\ TurnsAreWhole'
<1> SUFFICES ASSUME LimitInv, Limit!Next, ~met' PROVE ~met /\ TurnsAreWhole'
  OBVIOUS
<1> USE DEF LimitInv, Limit!TypeOK
<1>a. ~met
  BY DEF Limit!Next, Limit!Tick, Limit!Check, Limit!Refuse, Limit!Count, Limit!Write,
     Limit!Rename, Limit!Kill
<1>b. TurnsAreWhole
  BY <1>a
<1>c. granted \in Seq(Nat) /\ now \in Nat /\ Len(granted) \in Nat
  BY SeqMonotonic, LimitFacts
<1>1. CASE Limit!Tick
  BY <1>b, <1>1 DEF Limit!Tick, TurnsAreWhole
<1>2. ASSUME NEW p \in Processes, Limit!Check(p) PROVE TurnsAreWhole'
  <2>1. \A q \in Processes : limiter[q] = "idle"
    BY <1>2 DEF Limit!Check
  <2>2. limiter' = [limiter EXCEPT ![p] = "read"] /\ sampled' = [sampled EXCEPT ![p] = now]
        /\ UNCHANGED <<now, file, tmp, counted, granted>>
    BY <1>2 DEF Limit!Check
  <2>3. \A i \in 1 .. Len(granted) : granted[i] <= now
    BY DEF CountsAreBacked
  <2> QED
    BY <2>1, <2>2, <2>3 DEF TurnsAreWhole
<1>3. ASSUME NEW p \in Processes, Limit!Leave(p), limiter[p] # "idle"
      PROVE  TurnsAreWhole'
  <2>1. \A q \in Processes : limiter'[q] = "idle"
    BY <1>b, <1>3 DEF Limit!Leave, TurnsAreWhole
  <2> QED
    BY <2>1 DEF TurnsAreWhole
<1>4. ASSUME NEW p \in Processes, Limit!Count(p) PROVE TurnsAreWhole'
  <2>1. \A q \in Processes : q # p => limiter[q] = "idle"
    BY <1>b, <1>4 DEF Limit!Count, TurnsAreWhole
  <2> QED
    BY <1>b, <1>4, <2>1 DEF Limit!Count, TurnsAreWhole
<1>5. ASSUME NEW p \in Processes, Limit!Write(p) PROVE TurnsAreWhole'
  <2>1. \A q \in Processes : q # p => limiter[q] = "idle"
    BY <1>b, <1>5 DEF Limit!Write, TurnsAreWhole
  <2> QED
    BY <1>b, <1>5, <2>1 DEF Limit!Write, TurnsAreWhole
<1> QED
  BY <1>a, <1>1, <1>2, <1>3, <1>4, <1>5
     DEF Limit!Next, Limit!Refuse, Limit!Rename, Limit!Kill

\* The steps of WindowsFollow when w is put into the store, with base the
\* window that w adds one request to.
LEMMA OneMoreGrant ==
  ASSUME LimitInv, ~met, NEW p \in Processes, limiter[p] = "rename", tmp # NoWindow,
         file' = tmp, granted' = Append(granted, now)
  PROVE  WindowsFollow'
<1> DEFINE n == Len(granted)
           o == Limit!Opened(file, sampled[p])
           M == Limit!Max
<1> USE LimitFacts
<1>1. /\ granted \in Seq(Nat) /\ now \in Nat /\ n \in Nat
      /\ sampled[p] \in Nat /\ sampled[p] <= now
      /\ \A i \in 1 .. n : granted[i] \in Nat
  BY SeqMonotonic DEF LimitInv, Limit!TypeOK, CountsAreBacked
<1>2. /\ o \in Limit!WindowState /\ o.count < M /\ o.count \in Nat /\ o.started \in Nat
      /\ tmp.started = o.started /\ tmp.count = o.count + 1
  <2>1. ~Limit!Full(o) /\ tmp = [o EXCEPT !.count = @ + 1]
    BY DEF LimitInv, TurnsAreWhole
  <2>2. o \in Limit!WindowState
    BY <1>1, OpenedIsWindow DEF LimitInv, Limit!TypeOK
  <2> HIDE DEF o
  <2> QED
    BY <2>1, <2>2 DEF Limit!Full, Limit!WindowState
<1>3. \A i \in 1 .. n : granted[i] <= sampled[p]
  BY DEF LimitInv, TurnsAreWhole
<1>4. WindowsFollow
  BY DEF LimitInv
<1>5. /\ Len(granted') = n + 1
      /\ \A i \in 1 .. n : granted'[i] = granted[i]
      /\ granted'[n + 1] = now
  BY <1>1
<1>6. Earlier' = n - o.count
  <2>1. file'.count = o.count + 1
    BY <1>2
  <2>2. Earlier' = Len(granted') - file'.count
    BY DEF Earlier
  <2>3. Len(granted') = n + 1 /\ n \in Nat /\ o.count \in Nat
    BY <1>1, <1>2, <1>5
  <2> HIDE DEF o, n
  <2> QED
    BY <2>1, <2>2, <2>3
\* Of the new window and its past: the claims about Earlier'.
<1> DEFINE e == n - o.count
           Before == {i \in 1 .. e : granted[i] + Window > o.started}
<1>7. /\ e >= 0 /\ o.started <= now
      /\ \A i \in 1 .. n : IF i <= e THEN granted[i] <= o.started
                           ELSE granted[i] >= o.started
      /\ Cardinality(Before) <= M
  <2>1. CASE file # NoWindow /\ o = file
    <3>1. Earlier = e
      BY <2>1 DEF Earlier
    <3>2. o.started <= now
      BY <2>1 DEF LimitInv, CountsAreBacked, IsBacked
    <3> QED
      BY <1>4, <2>1, <3>1, <3>2 DEF WindowsFollow
  <2>2. CASE /\ o = Limit!NewWindow(sampled[p])
             /\ \/ file = NoWindow
                \/ file # NoWindow /\ Limit!Since(sampled[p], file.started) >= Window
    <3>1. o.started = sampled[p] /\ o.count = 0
      BY <2>2 DEF Limit!NewWindow
    <3>2. e = n
      BY <1>1, <3>1
    <3> HIDE DEF e, o
    <3>3. Cardinality(Before) <= M
      <4>1. CASE file = NoWindow
        <5>1. n = 0
          BY <1>4, <4>1 DEF WindowsFollow
        <5>2. Before = {}
          BY <3>2, <5>1
        <5> HIDE DEF Before
        <5> QED
          BY <5>2, FS_EmptySet
      <4>2. CASE file # NoWindow
        <5>1. /\ file.started \in Nat /\ file.count \in Nat /\ file.count <= M
          BY <4>2 DEF LimitInv, Limit!TypeOK, Limit!WindowState
        <5>2. \A i \in 1 .. n : i <= n - file.count => granted[i] <= file.started
          BY <1>4, <4>2 DEF WindowsFollow, Earlier
        <5>3. n - file.count >= 0
          BY <1>4, <4>2 DEF WindowsFollow, Earlier
        <5>4. \A i \in 1 .. n :
                granted[i] + Window > sampled[p] => i > n - file.count
          <6>a. \A i \in 1 .. n : i > n - file.count \/ i <= n - file.count
            <7>1. n \in Nat /\ file.count \in Nat
              BY <1>1, <5>1
            <7> HIDE DEF n
            <7> QED
              BY <7>1
          <6> SUFFICES ASSUME NEW i \in 1 .. n, granted[i] + Window > sampled[p],
                              i <= n - file.count
                       PROVE  FALSE
            BY <6>a
          <6>1. granted[i] <= file.started /\ granted[i] <= sampled[p]
            BY <1>3, <5>2
          <6>2. granted[i] \in Nat
            BY <1>1
          <6>3. Limit!Since(sampled[p], file.started) >= Window
            BY <2>2, <4>2
          <6> HIDE DEF n
          <6> QED
            BY <1>1, <5>1, <6>1, <6>2, <6>3 DEF Limit!Since
        <5>5. Before \in SUBSET ((n - file.count + 1) .. n)
          <6>1. \A i \in Before : i \in 1 .. n /\ granted[i] + Window > sampled[p]
            BY <3>1, <3>2
          <6>2. \A i \in Before : i \in 1 .. n /\ i > n - file.count
            BY <5>4, <6>1
          <6> HIDE DEF Before, n
          <6> QED
            BY <1>1, <5>1, <6>2
        <5>6. Cardinality(Before) <= n - (n - file.count + 1) + 1
          <6> HIDE DEF Before
          <6>1. n - file.count + 1 \in Int /\ n \in Int
                /\ n >= (n - file.count + 1) - 1
            BY <1>1, <5>1
          <6> QED
            BY <5>5, <6>1, PartOfInterval
        <5>7. Cardinality(Before) \in Nat
          <6>1. n - file.count + 1 \in Int /\ n \in Int
            BY <1>1, <5>1
          <6> HIDE DEF Before
          <6> QED
            BY <5>5, <6>1, PartOfInterval
        <5> HIDE DEF Before
        <5> QED
          BY <1>1, <5>1, <5>6, <5>7
      <4> QED
        BY <4>1, <4>2
    <3> QED
      BY <1>1, <1>3, <3>1, <3>2, <3>3
  <2> QED
    BY <2>1, <2>2 DEF Limit!Opened
<1>8. file' # NoWindow /\ file'.started = o.started
  BY <1>2
<1> HIDE DEF o
<1>9. \A i \in 1 .. Len(granted') : IF i <= Earlier' THEN granted'[i] <= file'.started
                                    ELSE granted'[i] >= file'.started
  BY <1>1, <1>2, <1>5, <1>6, <1>7, <1>8
<1>10. {i \in 1 .. Earlier' : granted'[i] + Window > file'.started} = Before
  BY <1>1, <1>2, <1>5, <1>6, <1>8
<1>11. ASSUME NEW t \in Nat PROVE Limit!GrantedIn(t, t + Window)' <= 2 * M
  <2> DEFINE Old == {i \in 1 .. n : granted[i] >= t /\ granted[i] < t + Window}
             New == {i \in 1 .. Len(granted') :
                        granted'[i] >= t /\ granted'[i] < t + Window}
  <2>1. /\ Limit!GrantedIn(t, t + Window) = Cardinality(Old)
        /\ Limit!GrantedIn(t, t + Window)' = Cardinality(New)
    BY DEF Limit!GrantedIn, Limit!Cardinality, Cardinality
  <2>2. CASE now >= t /\ now < t + Window
    <3>a. n \in Nat /\ e \in Int /\ e <= n
      BY <1>1, <1>2
    <3>1. Before \in SUBSET (1 .. e) /\ e \in Int /\ 1 \in Int
      BY <1>1, <1>2
    <3>2. IsFiniteSet(Before) /\ Cardinality(Before) \in Nat
      <4> HIDE DEF Before
      <4> QED
        BY <3>1, PartOfInterval
    <3>3. (e + 1) .. (n + 1) \in SUBSET ((e + 1) .. (n + 1))
          /\ e + 1 \in Int /\ n + 1 \in Int /\ n + 1 >= (e + 1) - 1
      BY <1>1, <1>2
    <3>4. /\ IsFiniteSet((e + 1) .. (n + 1))
          /\ Cardinality((e + 1) .. (n + 1)) \in Nat
          /\ Cardinality((e + 1) .. (n + 1)) <= (n + 1) - (e + 1) + 1
      BY <3>3, PartOfInterval
    <3>5. (n + 1) - (e + 1) + 1 <= M
      BY <1>1, <1>2
    <3>6. New \subseteq Before \cup ((e + 1) .. (n + 1))
      <4> SUFFICES ASSUME NEW i \in New, i \notin (e + 1) .. (n + 1)
                   PROVE  i \in Before
        OBVIOUS
      <4>1. i \in 1 .. (n + 1) /\ granted'[i] >= t
        BY <1>5
      <4>2. e \in Int /\ i \in 1 .. e /\ i \in 1 .. n
        <5> HIDE DEF n, e
        <5> QED
          BY <3>a, <4>1
      <4>3. granted[i] >= t /\ granted[i] \in Nat
        BY <1>1, <1>5, <4>1, <4>2
      <4>4. granted[i] + Window > o.started
        BY <1>1, <1>2, <1>7, <2>2, <4>3
      <4> QED
        BY <4>2, <4>4
    <3> HIDE DEF Before, New
    <3> DEFINE Both == Before \cup ((e + 1) .. (n + 1))
               Common == Before \cap ((e + 1) .. (n + 1))
    <3>7. /\ IsFiniteSet(Both)
          /\ Cardinality(Both) = Cardinality(Before)
                + Cardinality((e + 1) .. (n + 1)) - Cardinality(Common)
      BY <3>2, <3>4, FS_Union
    <3>8. Cardinality(Common) \in Nat
      BY <3>2, FS_Intersection, FS_CardinalityType
    <3>9. Cardinality(New) <= Cardinality(Both)
      BY <3>6, <3>7, FS_Subset
    <3>10. Cardinality(New) \in Nat /\ Cardinality(Both) \in Nat
      BY <3>6, <3>7, FS_Subset, FS_CardinalityType
    <3>11. (n + 1) - (e + 1) + 1 \in Int
      BY <3>3
    <3> HIDE DEF Both, Common, e
    <3> QED
      BY <1>7, <2>1, <3>2, <3>4, <3>5, <3>7, <3>8, <3>9, <3>10, <3>11
  <2>3. CASE ~(now >= t /\ now < t + Window)
    <3>1. New = Old
      BY <1>1, <1>5, <2>3
    <3>2. Limit!GrantedIn(t, t + Window) <= 2 * M
      BY <1>4 DEF WindowsFollow
    <3> QED
      BY <2>1, <3>1, <3>2
  <2> QED
    BY <2>2, <2>3
<1> QED
  BY <1>1, <1>2, <1>6, <1>7, <1>8, <1>9, <1>10, <1>11 DEF WindowsFollow

LEMMA LimitWindows == LimitInv /\ Limit!Next /\ ~met' => WindowsFollow'
<1> SUFFICES ASSUME LimitInv, Limit!Next, ~met' PROVE WindowsFollow'
  OBVIOUS
<1>1. ~met /\ WindowsFollow
  BY LimitTurns DEF LimitInv
<1>2. CASE UNCHANGED <<file, granted>>
  BY <1>1, <1>2 DEF WindowsFollow, Earlier, Limit!GrantedIn
<1>3. ASSUME NEW p \in Processes, Limit!Rename(p), tmp # NoWindow PROVE WindowsFollow'
  <2>1. limiter[p] = "rename" /\ file' = tmp /\ granted' = Append(granted, now)
    BY <1>3 DEF Limit!Rename
  <2> QED
    BY <1>1, <1>3, <2>1, OneMoreGrant
<1> QED
  BY <1>2, <1>3
     DEF Limit!Next, Limit!Tick, Limit!Check, Limit!Refuse, Limit!Count, Limit!Write,
         Limit!Rename, Limit!Kill

LEMMA LimitKept == PartsSpec => []LimitInv
<1>1. LimitInv /\ UNCHANGED limitVars => LimitInv'
  BY DEF LimitInv, Limit!TypeOK, CountsAreBacked, IsBacked, TurnsAreWhole,
         WindowsFollow, Earlier, Limit!GrantedIn, limitVars
<1>2. LimitInv /\ Limit!Next => LimitInv'
  BY LimitTyped, LimitBacked, LimitTurns, LimitWindows DEF LimitInv
<1>3. LimitInv /\ [Registry \/ Limiter \/ Connection \/ Service \/ Checkout
                     \/ Delivery]_allVars => LimitInv'
  BY <1>1, <1>2
     DEF Registry, Limiter, Connection, Service, Checkout, Delivery, allVars
<1> QED
  BY <1>3, LimitInit, PTL DEF PartsSpec

LEMMA RefusalsAreEarned == LimitInv => Limit!RefusalIsEarned
<1> SUFFICES ASSUME LimitInv, NEW p \in Processes, Limit!Refuse(p)
             PROVE  Limit!GrantedIn(Limit!Since(sampled[p], Window - 1), now + 1)
                        >= Limit!Max
  BY DEF Limit!RefusalIsEarned
<1> USE LimitFacts
<1> DEFINE from == Limit!Since(sampled[p], Window - 1)
           n == Len(granted)
           Old == {i \in 1 .. n : granted[i] >= file.started}
           All == {i \in 1 .. n : granted[i] >= from /\ granted[i] < now + 1}
<1>1. /\ granted \in Seq(Nat) /\ now \in Nat /\ n \in Nat
      /\ sampled[p] \in Nat /\ sampled[p] <= now
      /\ \A i \in 1 .. n : granted[i] \in Nat /\ granted[i] <= now
  BY SeqMonotonic DEF LimitInv, Limit!TypeOK, CountsAreBacked
<1>2. Limit!Full(Limit!Opened(file, sampled[p]))
  BY DEF Limit!Refuse
<1>3. /\ file # NoWindow /\ Limit!Since(sampled[p], file.started) < Window
      /\ file.count >= Limit!Max /\ file.started \in Nat /\ file.count \in Nat
  <2>1. ~Limit!Full(Limit!NewWindow(sampled[p]))
    BY DEF Limit!Full, Limit!NewWindow
  <2>2. Limit!Opened(file, sampled[p]) = file /\ file # NoWindow
    BY <1>2, <2>1 DEF Limit!Opened
  <2>3. file \in Limit!WindowState
    BY <2>2 DEF LimitInv, Limit!TypeOK
  <2>4. file.started \in Nat /\ file.count \in Nat
    BY <2>3 DEF Limit!WindowState
  <2>5. ~(Limit!Since(sampled[p], file.started) >= Window)
    BY <1>2, <2>1, <2>2 DEF Limit!Opened
  <2>6. Limit!Since(sampled[p], file.started) \in Nat
    BY <1>1, <2>4 DEF Limit!Since
  <2>7. file.count >= Limit!Max
    BY <1>2, <2>2 DEF Limit!Full
  <2> QED
    BY <2>2, <2>4, <2>5, <2>6, <2>7
<1>4. from <= file.started /\ from \in Nat
  BY <1>1, <1>3 DEF Limit!Since
<1>5. file.count <= Cardinality(Old)
  <2>1. file.count <= CountSince(granted, file.started) + 0
    BY <1>3 DEF LimitInv, CountsAreBacked, IsBacked
  <2>2. CountSince(granted, file.started) \in Nat
    BY <1>1, <1>3, CountSinceAppend
  <2> QED
    BY <1>3, <2>1, <2>2 DEF CountSince
<1> HIDE DEF from
<1>6. Old \in SUBSET All /\ All \in SUBSET (1 .. n)
  BY <1>1, <1>3, <1>4
<1>7. IsFiniteSet(All) /\ Cardinality(All) \in Nat
  <2>1. 1 \in Int /\ n \in Int
    BY <1>1
  <2> HIDE DEF All, n
  <2> QED
    BY <1>6, <2>1, PartOfInterval
<1>8. Cardinality(Old) <= Cardinality(All) /\ Cardinality(Old) \in Nat
  BY <1>6, <1>7, FS_Subset, FS_CardinalityType
<1>9. Limit!GrantedIn(from, now + 1) = Cardinality(All)
  BY DEF Limit!GrantedIn, Limit!Cardinality, Cardinality
<1> HIDE DEF All, Old
<1> QED
  BY <1>3, <1>5, <1>7, <1>8, <1>9 DEF from

\* The shared limiter refuses nobody without as many requests let through
\* within a window, however its processes overlap or are killed; and where
\* they take turns, no window's length sees more than twice the limit.
THEOREM LimitHolds == PartsSpec => LimitIsKept
<1> DEFINE Good == Limit!RefusalIsEarned /\ Limit!AtMostTwice'
<1>1. LimitInv => Limit!AtMostTwice
  <2> SUFFICES ASSUME LimitInv, ~met, NEW t \in 0 .. MaxNow
               PROVE  Limit!GrantedIn(t, t + Window) <= 2 * Limit!Max
    BY DEF Limit!AtMostTwice
  <2> QED
    BY LimitFacts DEF LimitInv, WindowsFollow
<1>2. PartsSpec => [][Good]_limitVars
  <2>1. [][LimitInv /\ LimitInv']_limitVars => [][Good]_limitVars
    BY <1>1, RefusalsAreEarned, PTL
  <2> QED
    BY <2>1, LimitKept, PTL
<1> QED
  BY <1>2 DEF LimitIsKept

-----------------------------------------------------------------------------
(* The package registry.                                                   *)

\* A command that meets one that disturbs it is known to have.
MeetingsAreKnown ==
    \A c, d \in Commands :
        c # d /\ Busy(c) /\ Busy(d) /\ Disturbs(Kind(d), Kind(c)) => c \in overlapped

\* What each kind of command gets to do.
KindFits(c) ==
    /\ pc[c] \in {"place", "clear", "copy"} => Kind(c) \in {"publish", "install"}
    /\ pc[c] \in {"rescan", "reread"} => Kind(c) = "install"
    /\ pc[c] = "write" => Kind(c) \in {"lock", "check", "upgrade"}

\* What an undisturbed command reads does not change while it runs, but for a
\* project that is edited while it is published: it has listed, hashed and
\* copied that.
ReadsAreOfSource(c) == Kind(c) # "publish" \/ ~dirty =>
    /\ pc[c] \in {"read", "rescan", "reread", "place", "clear", "copy", "write"} =>
          Source(c)[Manifest] # Missing
    /\ pc[c] \in {"read", "reread"} =>
          \A f \in Files : hash[c][f] \in {Missing, Source(c)[f]}
    /\ pc[c] \in {"read", "reread", "place", "clear"} => listed[c] = There(Source(c))
    /\ pc[c] \in {"place", "clear", "copy", "write"} => hash[c] = Source(c)
    /\ pc[c] = "copy" =>
          /\ listed[c] \subseteq There(Source(c))
          /\ \A f \in Files : copies[Target(c)].files[f] =
                IF f \in listed[c] THEN Missing ELSE Source(c)[f]

\* What is resolved is what the metadata names, if there is any.
ResolvedIsValid(c) ==
    Kind(c) # "publish" /\ pc[c] \in {"place", "clear", "copy", "write"} => Valid(c)

\* What is published was hashed.
PublishedIsMade(c) ==
    Kind(c) = "publish" /\ pc[c] \in {"place", "clear", "copy"} => hash[c] \in made

CommandHolds(c) ==
    /\ KindFits(c)
    /\ PublishedIsMade(c)
    /\ c \notin overlapped => ReadsAreOfSource(c) /\ ResolvedIsValid(c)

AbsentIsEmpty ==
    \A d \in {"registry", "installed"} : ~copies[d].there => copies[d] = Absent

Replacing == \E c \in Commands : Kind(c) = "publish" /\ pc[c] \in {"clear", "copy"}

\* The registry between publishes.
RegistryHolds ==
    LET r == copies["registry"] IN
    ~Replacing /\ ~torn /\ r.there =>
        /\ r.meta \in made
        /\ ~drifted /\ ~upgraded => r.meta = r.files

\* What lock --check accepted and nobody began to replace is what the lock names.
CheckedIsLocked == checked =>
    /\ lock = copies["registry"].files
    /\ \A c \in Commands : Busy(c) => Kind(c) \notin {"publish", "upgrade", "lock"}

RegistryInv ==
    /\ TypeOK
    /\ MeetingsAreKnown
    /\ \A c \in Commands : CommandHolds(c)
    /\ AbsentIsEmpty
    /\ RegistryHolds
    /\ CheckedIsLocked

LEMMA RegistryFacts ==
  /\ Manifest \in Files /\ Files \subseteq Nat
  /\ Nothing \in Package /\ NoHash \notin Package
  /\ Absent \in Copy
  /\ MaxEdits \in Nat /\ MaxRuns \in Nat /\ Cut \in Nat
  BY RegistryAssumption DEF Files, Nothing, Missing, Package, Absent, Copy, Cut

LEMMA RegistryInit == PartsInit => RegistryInv
<1> SUFFICES ASSUME PartsInit PROVE RegistryInv
  OBVIOUS
<1>1. Init
  BY DEF PartsInit
<1> USE RegistryFacts
<1>2. TypeOK
  <2>1. {torn, dirty, drifted, upgraded, checked} \subseteq BOOLEAN
    BY <1>1, Zenon DEF Init
  <2>2. project \in Package
    BY <1>1 DEF Init, Package
  <2>3. /\ copies \in [{"registry", "installed"} -> Copy]
        /\ hash \in [Commands -> Package]
        /\ listed \in [Commands -> SUBSET Files]
    BY <1>1 DEF Init
  <2>4. /\ pc \in [Commands -> {"idle", "scan", "rescan", "read", "reread", "place",
                                "clear", "copy", "write"}]
        /\ job \in [Commands -> [kind : Kinds, replace : BOOLEAN]]
    BY <1>1 DEF Init, NoJob, Kinds
  <2>5. lock \in Package \cup {NoHash, Garbled} /\ made \subseteq Package
        /\ overlapped \subseteq Commands
        /\ runs \in 0 .. MaxRuns /\ edits \in 0 .. MaxEdits
    BY <1>1 DEF Init
  <2> QED
    BY <2>1, <2>2, <2>3, <2>4, <2>5 DEF TypeOK
<1>3. \A c \in Commands : pc[c] = "idle" /\ Kind(c) = "check"
  BY <1>1 DEF Init, NoJob, Kind
<1>4. MeetingsAreKnown /\ \A c \in Commands : CommandHolds(c)
  BY <1>3 DEF MeetingsAreKnown, Busy, CommandHolds, KindFits, ReadsAreOfSource,
              ResolvedIsValid, PublishedIsMade
<1>5. AbsentIsEmpty
  BY <1>1 DEF Init, AbsentIsEmpty
<1>6. RegistryHolds
  BY <1>1 DEF Init, RegistryHolds, Absent
<1>7. CheckedIsLocked
  BY <1>1 DEF Init, CheckedIsLocked
<1> QED
  BY <1>2, <1>4, <1>5, <1>6, <1>7 DEF RegistryInv

LEMMA DoneTyped ==
  ASSUME TypeOK, NEW c \in Commands, Done(c)
  PROVE  /\ pc' = [pc EXCEPT ![c] = "idle"] /\ job' = [job EXCEPT ![c] = NoJob]
         /\ pc' \in [Commands -> {"idle", "scan", "rescan", "read", "reread", "place",
                                  "clear", "copy", "write"}]
         /\ job' \in [Commands -> [kind : Kinds, replace : BOOLEAN]]
         /\ listed' \in [Commands -> SUBSET Files]
         /\ hash' \in [Commands -> Package]
  BY RegistryFacts DEF TypeOK, Done, Goto, NoJob, Kinds

LEMMA GotoTyped ==
  ASSUME TypeOK, NEW c \in Commands,
         NEW to \in {"idle", "scan", "rescan", "read", "reread", "place", "clear",
                     "copy", "write"}, Goto(c, to)
  PROVE  pc' \in [Commands -> {"idle", "scan", "rescan", "read", "reread", "place",
                               "clear", "copy", "write"}]
  BY DEF TypeOK, Goto

LEMMA SourceTyped ==
  ASSUME TypeOK, NEW c \in Commands
  PROVE  /\ Source(c) \in Package /\ \A f \in Files : Source(c)[f] \in Nat
         /\ There(Source(c)) \in SUBSET Files
         /\ Target(c) \in {"registry", "installed"}
  BY DEF TypeOK, Source, Target, There, Copy, Package

LEMMA RegistryTyped == RegistryInv /\ Next => TypeOK'
<1> SUFFICES ASSUME RegistryInv, Next PROVE TypeOK'
  OBVIOUS
<1> USE RegistryFacts DEF RegistryInv
<1>a. TypeOK
  OBVIOUS
<1>b. edits \in Nat /\ runs \in Nat
  BY DEF TypeOK
<1>c. \A d \in {"registry", "installed"} : copies[d] \in Copy /\ copies[d].files \in Package
  BY DEF TypeOK, Copy
<1>d. \A p \in Package, f \in Files, n \in Nat : [p EXCEPT ![f] = n] \in Package
  BY DEF Package
<1>1. ASSUME NEW f \in Files, Edit(f) PROVE TypeOK'
  <2>1. project' \in Package
    <3>1. PICK rev \in {edits + 2, Missing} : project' = [project EXCEPT ![f] = rev]
      BY <1>1 DEF Edit
    <3>2. rev \in Nat
      BY <1>b, <3>1 DEF Missing
    <3> QED
      BY <1>d, <3>1, <3>2 DEF TypeOK
  <2>2. edits' \in 0 .. MaxEdits
    BY <1>1 DEF Edit, TypeOK
  <2> QED
    BY <1>1, <2>1, <2>2 DEF Edit, TypeOK, locals
<1>2. ASSUME NEW c \in Commands, NEW kind \in Kinds, NEW replace \in BOOLEAN,
             Start(c, kind, replace)
      PROVE  TypeOK'
  <2>1. pc' \in [Commands -> {"idle", "scan", "rescan", "read", "reread", "place",
                              "clear", "copy", "write"}]
    BY <1>2, GotoTyped DEF Start
  <2>2. job' \in [Commands -> [kind : Kinds, replace : BOOLEAN]] /\ runs' \in 0 .. MaxRuns
    BY <1>2 DEF Start, TypeOK
  <2>3. dirty' \in BOOLEAN /\ checked' \in BOOLEAN
    BY <1>2 DEF Start
  <2>4. overlapped' \subseteq Commands
    BY <1>2 DEF Start, Met, TypeOK
  <2> QED
    BY <1>2, <2>1, <2>2, <2>3, <2>4 DEF Start, TypeOK, dirs
<1>3. ASSUME NEW c \in Commands, Scan(c) PROVE TypeOK'
  <2>1. /\ pc' \in [Commands -> {"idle", "scan", "rescan", "read", "reread", "place",
                                 "clear", "copy", "write"}]
        /\ job' \in [Commands -> [kind : Kinds, replace : BOOLEAN]]
        /\ listed' \in [Commands -> SUBSET Files]
        /\ hash' \in [Commands -> Package]
    <3>1. CASE Done(c)
      BY <1>3, <3>1, DoneTyped DEF Scan
    <3>2. CASE ~Done(c)
      <4>1. Goto(c, "read") \/ Goto(c, "reread")
        BY <1>3, <3>2 DEF Scan
      <4>2. listed' \in [Commands -> SUBSET Files]
        BY <1>3, <3>2, SourceTyped DEF Scan, TypeOK
      <4>3. hash' \in [Commands -> Package] /\ job' = job
        BY <1>3, <3>2 DEF Scan, TypeOK
      <4> QED
        BY <4>1, <4>2, <4>3, GotoTyped DEF TypeOK
    <3> QED
      BY <3>1, <3>2
  <2> QED
    BY <1>3, <2>1 DEF Scan, TypeOK, dirs, history
<1>4. ASSUME NEW c \in Commands, Read(c) PROVE TypeOK'
  <2>1. /\ pc' \in [Commands -> {"idle", "scan", "rescan", "read", "reread", "place",
                                 "clear", "copy", "write"}]
        /\ job' \in [Commands -> [kind : Kinds, replace : BOOLEAN]]
        /\ listed' \in [Commands -> SUBSET Files]
        /\ hash' \in [Commands -> Package]
    <3>1. CASE Done(c)
      BY <3>1, DoneTyped
    <3>2. CASE UNCHANGED <<pc, job, listed>> /\
               \E f \in listed[c] : hash' = [hash EXCEPT ![c][f] = Source(c)[f]]
      <4>1. PICK f \in listed[c] : hash' = [hash EXCEPT ![c][f] = Source(c)[f]]
        BY <3>2
      <4>2. f \in Files /\ Source(c)[f] \in Nat
        BY SourceTyped DEF TypeOK
      <4>3. [hash[c] EXCEPT ![f] = Source(c)[f]] \in Package
        BY <1>d, <4>2 DEF TypeOK
      <4>4. hash' \in [Commands -> Package]
        BY <4>1, <4>3 DEF TypeOK
      <4> QED
        BY <3>2, <4>4 DEF TypeOK
    <3> QED
      BY <1>4, <3>1, <3>2 DEF Read
  <2> QED
    BY <1>4, <2>1 DEF Read, TypeOK, dirs, history
<1>5. ASSUME NEW c \in Commands, Hashed(c) PROVE TypeOK'
  <2>1. \E to \in {"place", "rescan", "write"} : Goto(c, to)
    BY <1>5 DEF Hashed
  <2>2. made' \subseteq Package
    BY <1>5 DEF Hashed, TypeOK
  <2> QED
    BY <1>5, <2>1, <2>2, GotoTyped DEF Hashed, TypeOK, dirs
<1>6. ASSUME NEW c \in Commands, Reject(c) \/ Pin(c) \/ Check(c) PROVE TypeOK'
  <2>1. /\ Done(c)
        /\ UNCHANGED <<project, copies, runs, edits, made, torn, dirty, drifted, upgraded,
                       overlapped>>
    BY <1>6 DEF Reject, Pin, Check, dirs, history
  <2>2. lock' \in Package \cup {NoHash, Garbled}
    BY <1>6 DEF Reject, Pin, Check, dirs, TypeOK
  <2>3. checked' \in BOOLEAN
    BY <1>6 DEF Reject, Pin, Check, history, TypeOK
  <2> QED
    BY <2>1, <2>2, <2>3, DoneTyped DEF TypeOK
<1>7. ASSUME NEW c \in Commands, Place(c) PROVE TypeOK'
  <2>1. CASE Done(c)
    BY <1>7, <2>1, DoneTyped DEF Place, TypeOK, dirs, history
  <2>2. CASE /\ Goto(c, "clear")
             /\ \E L \in SUBSET Files : listed' = [listed EXCEPT ![c] = L]
             /\ UNCHANGED <<job, hash>>
    BY <1>7, <2>2, GotoTyped DEF Place, TypeOK, dirs, history
  <2>3. listed[c] \in SUBSET Files /\ There(Source(c)) \in SUBSET Files
    BY SourceTyped DEF TypeOK
  <2> QED
    BY <1>7, <2>1, <2>2, <2>3 DEF Place
<1>8. ASSUME NEW c \in Commands, Clear(c) PROVE TypeOK'
  <2>1. Target(c) \in {"registry", "installed"}
    BY SourceTyped
  <2>2. copies' \in [{"registry", "installed"} -> Copy]
    <3>1. CASE \E f \in There(copies[Target(c)].files) :
                  copies' = [copies EXCEPT ![Target(c)].files[f] = Missing]
      <4>1. PICK f \in There(copies[Target(c)].files) :
                   copies' = [copies EXCEPT ![Target(c)].files[f] = Missing]
        BY <3>1
      <4>2. f \in Files /\ Missing \in Nat
        BY <4>1 DEF There, Missing
      <4>3. [copies[Target(c)].files EXCEPT ![f] = Missing] \in Package
        BY <1>c, <1>d, <2>1, <4>2
      <4> QED
        BY <1>c, <2>1, <4>1, <4>3 DEF TypeOK, Copy
    <3>2. CASE copies' = [copies EXCEPT ![Target(c)].meta = NoHash]
      BY <1>c, <2>1, <3>2 DEF TypeOK, Copy
    <3>3. CASE copies' = [copies EXCEPT ![Target(c)] = Absent]
      BY <2>1, <3>3 DEF TypeOK
    <3> QED
      BY <1>8, <3>1, <3>2, <3>3 DEF Clear
  <2>3. pc' = pc \/ Goto(c, "copy")
    BY <1>8 DEF Clear
  <2> QED
    BY <1>8, <2>2, <2>3, GotoTyped DEF Clear, TypeOK, history
<1>9. ASSUME NEW c \in Commands, CopyFile(c) PROVE TypeOK'
  <2>1. PICK f \in listed[c] :
          \/ Done(c) /\ UNCHANGED copies
          \/ /\ copies' = [copies EXCEPT ![Target(c)].there = TRUE,
                                         ![Target(c)].files[f] = Source(c)[f]]
             /\ listed' = [listed EXCEPT ![c] = @ \ {f}]
             /\ UNCHANGED <<pc, job, hash>>
    BY <1>9 DEF CopyFile
  <2>2. f \in Files /\ Source(c)[f] \in Nat /\ Target(c) \in {"registry", "installed"}
    BY SourceTyped DEF TypeOK
  <2>3. torn' \in BOOLEAN
    BY <1>9 DEF CopyFile, TypeOK
  <2>4. CASE Done(c) /\ UNCHANGED copies
    BY <1>9, <2>3, <2>4, DoneTyped DEF CopyFile, TypeOK
  <2>5. CASE /\ copies' = [copies EXCEPT ![Target(c)].there = TRUE,
                                        ![Target(c)].files[f] = Source(c)[f]]
             /\ listed' = [listed EXCEPT ![c] = @ \ {f}]
             /\ UNCHANGED <<pc, job, hash>>
    <3>1. copies' \in [{"registry", "installed"} -> Copy]
      BY <1>c, <1>d, <2>2, <2>5 DEF TypeOK, Copy
    <3>2. listed' \in [Commands -> SUBSET Files]
      BY <2>5 DEF TypeOK
    <3> QED
      BY <1>9, <2>3, <2>5, <3>1, <3>2 DEF CopyFile, TypeOK
  <2> QED
    BY <2>1, <2>4, <2>5
<1>10. ASSUME NEW c \in Commands, WriteMeta(c) PROVE TypeOK'
  <2>1. Target(c) \in {"registry", "installed"} /\ hash[c] \in Package
    BY SourceTyped DEF TypeOK
  <2>2. copies' \in [{"registry", "installed"} -> Copy]
    BY <1>10, <1>c, <2>1 DEF WriteMeta, TypeOK, Copy
  <2>3. torn' \in BOOLEAN /\ upgraded' \in BOOLEAN
    <3>1. torn \in BOOLEAN
      BY DEF TypeOK
    <3>2. (c \in overlapped) \in BOOLEAN
      OBVIOUS
    <3>3. torn' = (c \in overlapped) \/ torn' = torn
      BY <1>10 DEF WriteMeta
    <3>4. torn' \in BOOLEAN
      BY <3>1, <3>2, <3>3, Zenon
    <3> QED
      BY <1>10, <3>4 DEF WriteMeta
  <2>4. drifted' \in BOOLEAN
    BY <1>10 DEF WriteMeta, TypeOK
  <2> QED
    BY <1>10, <2>2, <2>3, <2>4, DoneTyped DEF WriteMeta, TypeOK
<1>11. ASSUME NEW c \in Commands, Upgrade(c) PROVE TypeOK'
  <2>1. copies' \in [{"registry", "installed"} -> Copy]
    <3>1. CASE copies' = [copies EXCEPT !["registry"].files[Manifest] = edits + 2]
      <4>1. [copies["registry"].files EXCEPT ![Manifest] = edits + 2] \in Package
        BY <1>b, <1>c, <1>d
      <4> QED
        BY <1>c, <3>1, <4>1 DEF TypeOK, Copy
    <3> QED
      BY <1>11, <3>1 DEF Upgrade, TypeOK
  <2>2. edits' \in 0 .. MaxEdits
    BY <1>11 DEF Upgrade, TypeOK
  <2>3. upgraded' \in BOOLEAN
    BY <1>11 DEF Upgrade
  <2> QED
    BY <1>11, <2>1, <2>2, <2>3, DoneTyped DEF Upgrade, TypeOK
<1>12. ASSUME NEW c \in Commands, Kill(c) PROVE TypeOK'
  <2>1. copies' \in [{"registry", "installed"} -> Copy]
    <3>1. Target(c) \in {"registry", "installed"}
      BY SourceTyped
    <3>2. CASE \E f \in listed[c] :
                  copies' = [copies EXCEPT ![Target(c)].there = TRUE,
                                           ![Target(c)].files[f] = Cut]
      <4>1. PICK f \in Files : copies' = [copies EXCEPT ![Target(c)].there = TRUE,
                                                       ![Target(c)].files[f] = Cut]
        BY <3>2 DEF TypeOK
      <4>2. [copies[Target(c)].files EXCEPT ![f] = Cut] \in Package
        BY <1>c, <1>d, <3>1
      <4> QED
        BY <1>c, <3>1, <4>1, <4>2 DEF TypeOK, Copy
    <3>3. CASE copies' = [copies EXCEPT ![Target(c)].there = TRUE,
                                        ![Target(c)].meta = Garbled]
      BY <1>c, <3>1, <3>3 DEF TypeOK, Copy
    <3>4. CASE copies' = [copies EXCEPT !["registry"].files[Manifest] = Cut]
      <4>1. [copies["registry"].files EXCEPT ![Manifest] = Cut] \in Package
        BY <1>c, <1>d
      <4> QED
        BY <1>c, <3>4, <4>1 DEF TypeOK, Copy
    <3> QED
      BY <1>12, <3>2, <3>3, <3>4 DEF Kill, HalfWritten, TypeOK
  <2>2. lock' \in Package \cup {NoHash, Garbled}
    BY <1>12 DEF Kill, HalfWritten, TypeOK
  <2>3. torn' \in BOOLEAN /\ upgraded' \in BOOLEAN
    BY <1>12 DEF Kill
  <2> QED
    BY <1>12, <2>1, <2>2, <2>3, DoneTyped DEF Kill, TypeOK
<1> QED
  BY <1>1, <1>2, <1>3, <1>4, <1>5, <1>6, <1>7, <1>8, <1>9, <1>10, <1>11, <1>12 DEF Next

\* A step of a command that runs leaves the other commands, and what they read
\* and write, as they are.
LeavesOthers(c) ==
    /\ Busy(c)
    /\ UNCHANGED <<project, dirty, overlapped>>
    /\ \A d \in Commands \ {c} :
          /\ pc'[d] = pc[d] /\ job'[d] = job[d]
          /\ listed'[d] = listed[d] /\ hash'[d] = hash[d]
    /\ Busy(c)' => job'[c] = job[c]
    /\ Kind(c) \in {"publish", "upgrade"} \/ copies'["registry"] = copies["registry"]
    /\ Kind(c) = "install" \/ copies'["installed"] = copies["installed"]
    /\ made \subseteq made'

Steps(c) ==
    \/ Scan(c) \/ Read(c) \/ Hashed(c) \/ Reject(c)
    \/ Place(c) \/ Clear(c) \/ CopyFile(c) \/ WriteMeta(c)
    \/ Pin(c) \/ Check(c) \/ Upgrade(c) \/ Kill(c)

LEMMA StepsLeaveOthers ==
  ASSUME RegistryInv, NEW c \in Commands, Steps(c)
  PROVE  LeavesOthers(c)
<1>1. TypeOK /\ KindFits(c)
  BY DEF RegistryInv, CommandHolds
<1>2. ASSUME Done(c)
      PROVE  /\ ~Busy(c)'
             /\ \A d \in Commands \ {c} :
                   /\ pc'[d] = pc[d] /\ job'[d] = job[d]
                   /\ listed'[d] = listed[d] /\ hash'[d] = hash[d]
  BY <1>1, <1>2 DEF Done, Goto, Busy, TypeOK
<1>3. CASE Scan(c)
  <2>1. Busy(c)
    BY <1>3 DEF Scan, Busy
  <2>2. CASE Done(c)
    BY <1>2, <1>3, <2>1, <2>2 DEF Scan, LeavesOthers, dirs, history
  <2>3. CASE ~Done(c)
    BY <1>1, <1>3, <2>1, <2>3 DEF Scan, LeavesOthers, dirs, history, Goto, TypeOK
  <2> QED
    BY <2>2, <2>3
<1>4. CASE Read(c)
  <2>1. Busy(c)
    BY <1>4 DEF Read, Busy
  <2>2. CASE Done(c)
    BY <1>2, <1>4, <2>1, <2>2 DEF Read, LeavesOthers, dirs, history
  <2>3. CASE ~Done(c)
    BY <1>1, <1>4, <2>1, <2>3 DEF Read, LeavesOthers, dirs, history, TypeOK
  <2> QED
    BY <2>2, <2>3
<1>5. CASE Hashed(c)
  <2>1. Busy(c) /\ made \subseteq made'
    BY <1>5 DEF Hashed, WholeRead, Busy
  <2> QED
    BY <1>1, <1>5, <2>1 DEF Hashed, LeavesOthers, dirs, Goto, TypeOK
<1>6. CASE Reject(c) \/ Pin(c) \/ Check(c)
  <2>1. Busy(c) /\ Done(c)
    BY <1>6 DEF Reject, WholeRead, Pin, Check, Busy
  <2> QED
    BY <1>2, <1>6, <2>1 DEF Reject, Pin, Check, LeavesOthers, dirs, history
<1>7. CASE Place(c)
  <2>1. Busy(c)
    BY <1>7 DEF Place, Busy
  <2>2. CASE Done(c)
    BY <1>2, <1>7, <2>1, <2>2 DEF Place, LeavesOthers, dirs, history
  <2>3. CASE ~Done(c)
    BY <1>1, <1>7, <2>1, <2>3 DEF Place, LeavesOthers, dirs, history, Goto, TypeOK
  <2> QED
    BY <2>2, <2>3
<1>8. ASSUME Clear(c) \/ CopyFile(c) \/ WriteMeta(c)
      PROVE  /\ Busy(c) /\ Kind(c) \in {"publish", "install"}
             /\ Kind(c) = "publish" \/ copies'["registry"] = copies["registry"]
             /\ Kind(c) = "install" \/ copies'["installed"] = copies["installed"]
  <2>1. Busy(c) /\ Kind(c) \in {"publish", "install"}
    BY <1>1, <1>8 DEF Clear, CopyFile, WriteMeta, Busy, KindFits
  <2>2. Target(c) = IF Kind(c) = "publish" THEN "registry" ELSE "installed"
    BY DEF Target
  <2>3. \A d \in {"registry", "installed"} \ {Target(c)} : copies'[d] = copies[d]
    BY <1>1, <1>8 DEF Clear, CopyFile, WriteMeta, TypeOK
  <2> QED
    BY <2>1, <2>2, <2>3
<1>9. CASE Clear(c)
  <2>1. \A d \in Commands \ {c} : pc'[d] = pc[d]
    BY <1>1, <1>9 DEF Clear, Goto, TypeOK
  <2> QED
    BY <1>8, <1>9, <2>1 DEF Clear, LeavesOthers, history
<1>10. CASE CopyFile(c)
  <2>1. CASE Done(c)
    BY <1>2, <1>8, <1>10, <2>1 DEF CopyFile, LeavesOthers
  <2>2. CASE ~Done(c)
    BY <1>1, <1>8, <1>10, <2>2 DEF CopyFile, LeavesOthers, TypeOK
  <2> QED
    BY <2>1, <2>2
<1>11. CASE WriteMeta(c)
  BY <1>2, <1>8, <1>11 DEF WriteMeta, LeavesOthers
<1>12. CASE Upgrade(c)
  <2>1. Busy(c) /\ Kind(c) = "upgrade" /\ Done(c)
    BY <1>12 DEF Upgrade, Busy
  <2>2. copies'["installed"] = copies["installed"]
    BY <1>1, <1>12 DEF Upgrade, TypeOK
  <2> QED
    BY <1>2, <1>12, <2>1, <2>2 DEF Upgrade, LeavesOthers
<1>13. CASE Kill(c)
  <2>1. Busy(c) /\ Done(c)
    BY <1>13 DEF Kill
  <2>2. /\ Kind(c) \in {"publish", "upgrade"} \/ copies'["registry"] = copies["registry"]
        /\ Kind(c) = "install" \/ copies'["installed"] = copies["installed"]
    BY <1>1, <1>13 DEF Kill, HalfWritten, Target, KindFits, TypeOK
  <2> QED
    BY <1>2, <1>13, <2>1, <2>2 DEF Kill, LeavesOthers
<1> QED
  BY <1>3, <1>4, <1>5, <1>6, <1>7, <1>9, <1>10, <1>11, <1>12, <1>13 DEF Steps

LEMMA OthersHold ==
  ASSUME RegistryInv, NEW c \in Commands, LeavesOthers(c),
         NEW d \in Commands, d # c
  PROVE  CommandHolds(d)'
<1>1. /\ pc'[d] = pc[d] /\ listed'[d] = listed[d] /\ hash'[d] = hash[d]
      /\ Kind(d)' = Kind(d) /\ project' = project /\ dirty' = dirty
      /\ overlapped' = overlapped /\ made \subseteq made'
  BY DEF LeavesOthers, Kind
<1>2. CommandHolds(d)
  BY DEF RegistryInv
<1>3. KindFits(d)' /\ PublishedIsMade(d)'
  BY <1>1, <1>2 DEF CommandHolds, KindFits, PublishedIsMade
<1>4. ASSUME d \notin overlapped PROVE ReadsAreOfSource(d)' /\ ResolvedIsValid(d)'
  <2>1. CASE ~Busy(d)
    BY <1>1, <2>1 DEF Busy, ReadsAreOfSource, ResolvedIsValid
  <2>2. CASE Busy(d)
    <3>1. ~Disturbs(Kind(c), Kind(d))
      BY <1>4, <2>2 DEF RegistryInv, MeetingsAreKnown, LeavesOthers
    <3>2. /\ copies'["registry"] = copies["registry"]
          /\ Kind(d) = "install" => copies'["installed"] = copies["installed"]
      BY <3>1 DEF Disturbs, LeavesOthers
    <3>3. /\ Source(d)' = Source(d) /\ Valid(d)' = Valid(d) /\ Target(d)' = Target(d)
          /\ Kind(d) \in {"publish", "install"} => copies'[Target(d)] = copies[Target(d)]
      BY <1>1, <3>2 DEF Source, Valid, Target
    <3>4. There(Source(d))' = There(Source(d))
      BY <3>3 DEF There
    <3>5. ResolvedIsValid(d)'
      BY <1>1, <1>2, <1>4, <3>3 DEF CommandHolds, ResolvedIsValid
    <3>6. ReadsAreOfSource(d)'
      BY <1>1, <1>2, <1>4, <3>3, <3>4 DEF CommandHolds, KindFits, ReadsAreOfSource
    <3> QED
      BY <3>5, <3>6
  <2> QED
    BY <2>1, <2>2
<1> QED
  BY <1>1, <1>3, <1>4 DEF CommandHolds

LEMMA MeetingsKept ==
  ASSUME RegistryInv, NEW c \in Commands, LeavesOthers(c)
  PROVE  MeetingsAreKnown'
<1>1. \A d \in Commands : Busy(d)' => Busy(d) /\ Kind(d)' = Kind(d)
  BY DEF LeavesOthers, Kind, Busy
<1>2. overlapped' = overlapped
  BY DEF LeavesOthers
<1> QED
  BY <1>1, <1>2 DEF RegistryInv, MeetingsAreKnown, Disturbs

LEMMA EndedHolds ==
  ASSUME TypeOK, NEW c \in Commands, Done(c)
  PROVE  CommandHolds(c)'
<1>1. pc'[c] = "idle"
  BY DEF Done, Goto, TypeOK
<1> QED
  BY <1>1 DEF CommandHolds, KindFits, ReadsAreOfSource, ResolvedIsValid, PublishedIsMade

\* The registry is as it was, and who replaces it still does.
LEMMA RegistryUntouched ==
  ASSUME RegistryInv, NEW c \in Commands, LeavesOthers(c),
         copies'["registry"] = copies["registry"],
         UNCHANGED <<torn, drifted, upgraded>>,
         Kind(c) = "publish" /\ pc[c] \in {"clear", "copy"} => pc'[c] \in {"clear", "copy"}
  PROVE  RegistryHolds'
<1>1. Replacing => Replacing'
  <2>1. SUFFICES ASSUME NEW d \in Commands, Kind(d) = "publish", pc[d] \in {"clear", "copy"}
                 PROVE  Kind(d)' = "publish" /\ pc'[d] \in {"clear", "copy"}
    BY DEF Replacing
  <2>2. pc'[d] \in {"clear", "copy"}
    BY <2>1 DEF LeavesOthers
  <2>3. Kind(d)' = Kind(d)
    BY <2>2 DEF LeavesOthers, Kind, Busy
  <2> QED
    BY <2>1, <2>2, <2>3
<1> QED
  BY <1>1 DEF RegistryInv, RegistryHolds, LeavesOthers

\* What was checked stays, for who writes the registry or the lock has reset it.
LEMMA CheckStays ==
  ASSUME RegistryInv, NEW c \in Commands, LeavesOthers(c), checked' = checked,
         Kind(c) \notin {"publish", "upgrade", "lock"} => lock' = lock
  PROVE  CheckedIsLocked'
<1>1. \A d \in Commands : Busy(d)' => Busy(d) /\ Kind(d)' = Kind(d)
  BY DEF LeavesOthers, Kind, Busy
<1>2. ASSUME checked
      PROVE  copies'["registry"] = copies["registry"] /\ lock' = lock
  BY <1>2 DEF RegistryInv, CheckedIsLocked, LeavesOthers
<1> QED
  BY <1>1, <1>2 DEF RegistryInv, CheckedIsLocked

LEMMA ScanHolds ==
  ASSUME RegistryInv, TypeOK', NEW c \in Commands, Scan(c)
  PROVE  CommandHolds(c)'
<1>1. TypeOK /\ CommandHolds(c)
  BY DEF RegistryInv
<1>2. CASE Done(c)
  BY <1>1, <1>2, EndedHolds
<1>3. CASE ~Done(c)
  <2>1. /\ pc[c] \in {"scan", "rescan"}
        /\ pc'[c] = (IF pc[c] = "scan" THEN "read" ELSE "reread")
        /\ listed'[c] = There(Source(c))
        /\ hash'[c] = Nothing
        /\ pc[c] = "scan" => Source(c)[Manifest] # Missing
        /\ job' = job /\ project' = project /\ copies' = copies /\ dirty' = dirty
        /\ overlapped' = overlapped
    BY <1>1, <1>3 DEF Scan, Goto, TypeOK, dirs, history
  <2>2. Kind(c)' = Kind(c) /\ Source(c)' = Source(c)
    BY <2>1 DEF Kind, Source
  <2>3. There(Source(c))' = There(Source(c))
    BY <2>1, <2>2, RegistryFacts DEF There
  <2>4. KindFits(c)'
    BY <1>1, <1>3, <2>1, <2>2 DEF Scan, CommandHolds, KindFits
  <2>5. ASSUME c \notin overlapped PROVE ReadsAreOfSource(c)'
    <3>1. Kind(c) # "publish" \/ ~dirty => Source(c)[Manifest] # Missing
      BY <1>1, <2>1, <2>5 DEF CommandHolds, ReadsAreOfSource
    <3> QED
      BY <2>1, <2>2, <2>3, <3>1 DEF ReadsAreOfSource, Nothing
  <2> QED
    BY <2>1, <2>4, <2>5 DEF CommandHolds, ResolvedIsValid, PublishedIsMade
<1> QED
  BY <1>2, <1>3

LEMMA ReadHolds ==
  ASSUME RegistryInv, TypeOK', NEW c \in Commands, Read(c)
  PROVE  CommandHolds(c)'
<1>1. TypeOK /\ CommandHolds(c)
  BY DEF RegistryInv
<1>2. CASE Done(c)
  BY <1>1, <1>2, EndedHolds
<1>3. CASE ~Done(c)
  <2>1. /\ pc[c] \in {"read", "reread"} /\ pc'[c] = pc[c] /\ listed'[c] = listed[c]
        /\ job' = job /\ project' = project /\ copies' = copies /\ dirty' = dirty
        /\ overlapped' = overlapped
    BY <1>1, <1>3 DEF Read, TypeOK, dirs, history
  <2>2. PICK f \in Files : hash' = [hash EXCEPT ![c][f] = Source(c)[f]]
    BY <1>1, <1>3 DEF Read, TypeOK
  <2>3. \A g \in Files : hash'[c][g] \in {hash[c][g], Source(c)[g]}
    BY <1>1, <2>2 DEF TypeOK, Package
  <2>4. Kind(c)' = Kind(c) /\ Source(c)' = Source(c)
    BY <2>1 DEF Kind, Source
  <2>5. There(Source(c))' = There(Source(c))
    BY <2>4 DEF There
  <2>6. c \notin overlapped => ReadsAreOfSource(c)'
    BY <1>1, <2>1, <2>3, <2>4, <2>5 DEF ReadsAreOfSource, CommandHolds
  <2>7. KindFits(c)'
    BY <1>1, <2>1, <2>4 DEF CommandHolds, KindFits
  <2> QED
    BY <2>1, <2>6, <2>7 DEF CommandHolds, ResolvedIsValid, PublishedIsMade
<1> QED
  BY <1>2, <1>3

\* The hash is of what was listed; where that is the source, of the source.
LEMMA WholeReadIsSource ==
  ASSUME RegistryInv, NEW c \in Commands, c \notin overlapped, WholeRead(c),
         Kind(c) # "publish" \/ ~dirty
  PROVE  hash[c] = Source(c)
<1>1. /\ \A f \in Files : hash[c][f] \in {Missing, Source(c)[f]}
      /\ There(hash[c]) = There(Source(c))
  BY DEF RegistryInv, CommandHolds, ReadsAreOfSource, WholeRead
<1>2. hash[c] \in [Files -> Nat] /\ Source(c) \in [Files -> Nat]
  BY SourceTyped DEF RegistryInv, TypeOK, Package
<1>3. \A f \in Files : hash[c][f] = Source(c)[f]
  BY <1>1 DEF There
<1> QED
  BY <1>2, <1>3

LEMMA HashedHolds ==
  ASSUME RegistryInv, TypeOK', NEW c \in Commands, Hashed(c)
  PROVE  CommandHolds(c)'
<1>1. TypeOK /\ CommandHolds(c)
  BY DEF RegistryInv
<1>2. /\ pc[c] \in {"read", "reread"} /\ hash' = hash /\ listed' = listed
      /\ job' = job /\ project' = project /\ copies' = copies /\ dirty' = dirty
      /\ overlapped' = overlapped
      /\ Kind(c) = "publish" => pc'[c] = "place" /\ hash[c] \in made'
      /\ Kind(c) # "publish" => /\ Valid(c) /\ pc'[c] \in {"rescan", "place", "write"}
                                /\ pc'[c] \in {"rescan", "place"} <=> Kind(c) = "install"
  BY <1>1 DEF Hashed, WholeRead, Goto, TypeOK, dirs
<1>3. Kind(c)' = Kind(c) /\ Source(c)' = Source(c) /\ Valid(c)' = Valid(c)
  BY <1>2 DEF Kind, Source, Valid
<1>4. There(Source(c))' = There(Source(c))
  BY <1>3 DEF There
<1>5. KindFits(c)'
  <2>1. Kind(c) \in {"publish", "install", "lock", "check", "upgrade"}
    BY <1>1 DEF Kind, TypeOK, Kinds
  <2> QED
    BY <1>2, <1>3, <2>1 DEF KindFits
<1>6. ResolvedIsValid(c)' /\ PublishedIsMade(c)'
  BY <1>1, <1>2, <1>3 DEF CommandHolds, ResolvedIsValid, PublishedIsMade
<1>7. ASSUME c \notin overlapped PROVE ReadsAreOfSource(c)'
  <2>1. SUFFICES ASSUME Kind(c) # "publish" \/ ~dirty
                 PROVE  /\ Source(c)[Manifest] # Missing
                        /\ listed[c] = There(Source(c))
                        /\ hash[c] = Source(c)
    BY <1>2, <1>3, <1>4 DEF ReadsAreOfSource
  <2>2. hash[c] = Source(c)
    BY <1>7, <2>1, WholeReadIsSource DEF Hashed
  <2> QED
    BY <1>1, <1>2, <1>7, <2>1, <2>2 DEF CommandHolds, ReadsAreOfSource
<1> QED
  BY <1>2, <1>5, <1>6, <1>7 DEF CommandHolds

\* Nothing is there, and the files are copied next.
LEMMA CopyingBegins ==
  ASSUME RegistryInv, TypeOK', NEW c \in Commands, pc[c] = "clear",
         pc'[c] = "copy", copies'[Target(c)] = Absent, Source(c)' = Source(c),
         job' = job, hash' = hash, dirty' = dirty, made' = made, listed' = listed,
         overlapped' = overlapped,
         Kind(c) = "install" => copies'["registry"] = copies["registry"]
  PROVE  CommandHolds(c)'
<1>1. TypeOK /\ CommandHolds(c)
  BY DEF RegistryInv
<1>2. Kind(c)' = Kind(c) /\ Target(c)' = Target(c) /\ Kind(c) \in {"publish", "install"}
  BY <1>1 DEF Kind, Target, CommandHolds, KindFits
<1>3. There(Source(c))' = There(Source(c))
  BY DEF There
<1>4. KindFits(c)' /\ PublishedIsMade(c)'
  BY <1>1, <1>2 DEF CommandHolds, KindFits, PublishedIsMade
<1>5. c \notin overlapped => ResolvedIsValid(c)'
  BY <1>1, <1>2 DEF CommandHolds, ResolvedIsValid, Valid
<1>6. ASSUME c \notin overlapped PROVE ReadsAreOfSource(c)'
  <2>1. Kind(c) # "publish" \/ ~dirty =>
           /\ Source(c)[Manifest] # Missing /\ listed'[c] = There(Source(c))
           /\ hash[c] = Source(c)
    BY <1>1, <1>6 DEF CommandHolds, ReadsAreOfSource
  <2>2. \A f \in Files : copies'[Target(c)].files[f] = Missing
    BY DEF Absent, Nothing
  <2>3. \A f \in Files : f \notin There(Source(c)) => Source(c)[f] = Missing
    BY DEF There
  <2> QED
    BY <1>2, <1>3, <2>1, <2>2, <2>3 DEF ReadsAreOfSource
<1> QED
  BY <1>4, <1>5, <1>6 DEF CommandHolds

LEMMA PlaceHolds ==
  ASSUME RegistryInv, TypeOK', NEW c \in Commands, Place(c)
  PROVE  CommandHolds(c)'
<1>1. TypeOK /\ CommandHolds(c)
  BY DEF RegistryInv
<1>2. CASE Done(c)
  BY <1>1, <1>2, EndedHolds
<1>3. CASE ~Done(c)
  <2>1. /\ pc[c] = "place" /\ pc'[c] = "clear"
        /\ listed'[c] = IF Kind(c) = "install" THEN There(Source(c)) ELSE listed[c]
        /\ job' = job /\ hash' = hash /\ project' = project /\ copies' = copies
        /\ dirty' = dirty /\ made' = made /\ overlapped' = overlapped
    BY <1>1, <1>3 DEF Place, Goto, TypeOK, dirs, history
  <2>2. Kind(c)' = Kind(c) /\ Source(c)' = Source(c) /\ Valid(c)' = Valid(c)
    BY <2>1 DEF Kind, Source, Valid
  <2>3. There(Source(c))' = There(Source(c))
    BY <2>2 DEF There
  <2>4. c \notin overlapped => ReadsAreOfSource(c)'
    BY <1>1, <2>1, <2>2, <2>3 DEF CommandHolds, ReadsAreOfSource
  <2>5. c \notin overlapped => ResolvedIsValid(c)'
    BY <1>1, <2>1, <2>2 DEF CommandHolds, ResolvedIsValid
  <2>6. KindFits(c)' /\ PublishedIsMade(c)'
    BY <1>1, <2>1, <2>2 DEF CommandHolds, KindFits, PublishedIsMade
  <2> QED
    BY <2>1, <2>4, <2>5, <2>6 DEF CommandHolds
<1> QED
  BY <1>2, <1>3

LEMMA ClearHolds ==
  ASSUME RegistryInv, TypeOK', NEW c \in Commands, Clear(c)
  PROVE  CommandHolds(c)' /\ AbsentIsEmpty' /\ RegistryHolds' /\ CheckedIsLocked'
<1> DEFINE d == Target(c)
<1>1. TypeOK /\ CommandHolds(c) /\ d \in {"registry", "installed"}
  BY SourceTyped DEF RegistryInv
<1>2. LeavesOthers(c)
  BY StepsLeaveOthers DEF Steps
<1>3. /\ pc[c] = "clear" /\ job' = job /\ listed' = listed /\ hash' = hash
      /\ project' = project /\ dirty' = dirty /\ made' = made /\ lock' = lock
      /\ torn' = torn /\ drifted' = drifted /\ upgraded' = upgraded
      /\ checked' = checked /\ overlapped' = overlapped
      /\ pc'[c] \in {"clear", "copy"}
  BY <1>1 DEF Clear, Goto, TypeOK, history
<1>4. Kind(c) \in {"publish", "install"} /\ Kind(c)' = Kind(c) /\ d' = d
  BY <1>1, <1>3 DEF Kind, Target, CommandHolds, KindFits
<1>5. /\ d = IF Kind(c) = "publish" THEN "registry" ELSE "installed"
      /\ Kind(c) = "install" => copies'["registry"] = copies["registry"]
      /\ Kind(c) = "publish" => copies'["installed"] = copies["installed"]
  BY <1>2, <1>4 DEF Target, LeavesOthers
<1>6. Source(c)' = Source(c)
  BY <1>3, <1>4, <1>5 DEF Source
<1>7. \/ /\ pc'[c] = "clear" /\ copies'[d].there = copies[d].there
         /\ copies[d].there
      \/ pc'[c] = "copy" /\ copies'[d] = Absent
  <2>1. CASE \E f \in There(copies[d].files) :
                copies' = [copies EXCEPT ![d].files[f] = Missing] /\ UNCHANGED pc
    <3>1. copies[d] # Absent
      BY <2>1 DEF There, Absent, Nothing
    <3>2. copies[d].there
      BY <1>1, <3>1 DEF RegistryInv, AbsentIsEmpty
    <3>3. copies'[d].there = copies[d].there
      BY <1>1, <2>1 DEF TypeOK, Copy
    <3> QED
      BY <1>3, <2>1, <3>2, <3>3
  <2>2. CASE /\ copies[d].meta # NoHash
             /\ copies' = [copies EXCEPT ![d].meta = NoHash]
             /\ UNCHANGED pc
    <3>1. copies[d].there
      BY <1>1, <2>2 DEF RegistryInv, AbsentIsEmpty, Absent
    <3>2. copies'[d].there = copies[d].there
      BY <1>1, <2>2 DEF TypeOK, Copy
    <3> QED
      BY <1>3, <2>2, <3>1, <3>2
  <2>3. CASE copies' = [copies EXCEPT ![d] = Absent] /\ Goto(c, "copy")
    BY <1>1, <2>3 DEF Goto, TypeOK
  <2> HIDE DEF d
  <2>4. \/ \E f \in There(copies[d].files) :
              copies' = [copies EXCEPT ![d].files[f] = Missing] /\ UNCHANGED pc
        \/ /\ copies[d].meta # NoHash
           /\ copies' = [copies EXCEPT ![d].meta = NoHash]
           /\ UNCHANGED pc
        \/ copies' = [copies EXCEPT ![d] = Absent] /\ Goto(c, "copy")
    BY DEF Clear, d
  <2> QED
    BY <2>1, <2>2, <2>3, <2>4
<1>8. CommandHolds(c)'
  <2>1. CASE pc'[c] = "copy" /\ copies'[d] = Absent
    BY <1>3, <1>4, <1>5, <1>6, <2>1, CopyingBegins
  <2>2. CASE pc'[c] = "clear"
    <3>1. There(Source(c))' = There(Source(c))
      BY <1>6 DEF There
    <3>2. KindFits(c)' /\ PublishedIsMade(c)'
      BY <1>1, <1>3, <1>4, <1>6, <2>2 DEF CommandHolds, KindFits, PublishedIsMade
    <3>3. c \notin overlapped => ReadsAreOfSource(c)'
      BY <1>1, <1>3, <1>4, <1>6, <2>2, <3>1 DEF CommandHolds, ReadsAreOfSource
    <3>4. c \notin overlapped => ResolvedIsValid(c)'
      BY <1>1, <1>3, <1>4, <1>5, <2>2 DEF CommandHolds, ResolvedIsValid, Valid
    <3> QED
      BY <1>3, <3>2, <3>3, <3>4 DEF CommandHolds
  <2> QED
    BY <1>7, <2>1, <2>2
<1>9. AbsentIsEmpty'
  <2>1. ~copies'[d].there => copies'[d] = Absent
    BY <1>7
  <2>2. \A e \in {"registry", "installed"} : e # d => copies'[e] = copies[e]
    BY <1>4, <1>5
  <2> QED
    BY <2>1, <2>2 DEF RegistryInv, AbsentIsEmpty
<1>10. RegistryHolds'
  <2>1. CASE Kind(c) = "publish"
    BY <1>3, <1>4, <2>1 DEF RegistryHolds, Replacing
  <2>2. CASE Kind(c) = "install"
    BY <1>2, <1>3, <1>5, <2>2, RegistryUntouched
  <2> QED
    BY <1>4, <2>1, <2>2
<1>11. CheckedIsLocked'
  BY <1>2, <1>3, <1>4, <1>5, CheckStays
<1> QED
  BY <1>8, <1>9, <1>10, <1>11

LEMMA CopyFileHolds ==
  ASSUME RegistryInv, TypeOK', NEW c \in Commands, CopyFile(c)
  PROVE  CommandHolds(c)' /\ AbsentIsEmpty' /\ RegistryHolds' /\ CheckedIsLocked'
<1> DEFINE d == Target(c)
<1>1. TypeOK /\ CommandHolds(c) /\ d \in {"registry", "installed"}
  BY SourceTyped DEF RegistryInv
<1>2. LeavesOthers(c)
  BY StepsLeaveOthers DEF Steps
<1>3. /\ pc[c] = "copy" /\ project' = project /\ dirty' = dirty
      /\ made' = made /\ lock' = lock /\ drifted' = drifted /\ upgraded' = upgraded
      /\ checked' = checked /\ overlapped' = overlapped
  BY <1>2 DEF CopyFile, LeavesOthers
<1>4. Kind(c) \in {"publish", "install"}
  BY <1>1, <1>3 DEF CommandHolds, KindFits
<1>5. /\ d = IF Kind(c) = "publish" THEN "registry" ELSE "installed"
      /\ Kind(c) = "install" => copies'["registry"] = copies["registry"]
      /\ Kind(c) = "publish" => copies'["installed"] = copies["installed"]
  BY <1>2, <1>4 DEF Target, LeavesOthers
<1>6. CheckedIsLocked'
  BY <1>2, <1>3, CheckStays
<1>7. CASE Done(c) /\ UNCHANGED copies
  <2>1. RegistryHolds'
    <3>1. CASE Kind(c) = "publish"
      <4>1. CASE torn'
        BY <4>1 DEF RegistryHolds
      <4>2. CASE ~torn'
        <5>1. pc' # pc
          BY <1>1, <1>3, <1>7 DEF Done, Goto, TypeOK
        <5> QED
          BY <3>1, <4>2, <5>1 DEF CopyFile
      <4> QED
        BY <4>1, <4>2
    <3>2. CASE Kind(c) = "install"
      <4>1. torn' = torn
        BY <1>1, <3>2 DEF CopyFile, TypeOK
      <4> QED
        BY <1>2, <1>3, <1>7, <3>2, <4>1, RegistryUntouched
    <3> QED
      BY <1>4, <3>1, <3>2
  <2>2. AbsentIsEmpty'
    BY <1>7 DEF RegistryInv, AbsentIsEmpty
  <2> QED
    BY <1>1, <1>6, <1>7, <2>1, <2>2, EndedHolds
<1>8. CASE ~(Done(c) /\ UNCHANGED copies)
  <2>1. PICK f \in listed[c] :
           /\ Source(c)[f] # Missing
           /\ copies' = [copies EXCEPT ![Target(c)].there = TRUE,
                                       ![Target(c)].files[f] = Source(c)[f]]
           /\ listed' = [listed EXCEPT ![c] = @ \ {f}]
           /\ UNCHANGED <<pc, job, hash, torn>>
    BY <1>8 DEF CopyFile
  <2>a. Kind(c)' = Kind(c) /\ d' = d
    BY <2>1 DEF Kind, Target
  <2>2. f \in Files /\ Source(c) \in Package
    BY <1>1, SourceTyped DEF TypeOK
  <2>3. /\ copies'[d].there /\ copies'[d].meta = copies[d].meta
        /\ copies'[d].files = [copies[d].files EXCEPT ![f] = Source(c)[f]]
    BY <1>1, <2>1 DEF TypeOK, Copy
  <2>4. \A g \in Files : copies'[d].files[g] =
                            IF g = f THEN Source(c)[f] ELSE copies[d].files[g]
    BY <1>1, <2>2, <2>3 DEF TypeOK, Copy, Package
  <2>5. listed'[c] = listed[c] \ {f} /\ pc'[c] = "copy" /\ hash'[c] = hash[c] /\ torn' = torn
    BY <1>1, <1>3, <2>1 DEF TypeOK
  <2>6. Source(c)' = Source(c)
    BY <1>3, <1>4, <1>5, <2>a DEF Source
  <2>7. There(Source(c))' = There(Source(c))
    BY <2>6 DEF There
  <2>8. ASSUME c \notin overlapped PROVE ReadsAreOfSource(c)'
    <3>1. SUFFICES ASSUME Kind(c) # "publish" \/ ~dirty
                   PROVE  /\ Source(c)[Manifest] # Missing /\ hash[c] = Source(c)
                          /\ listed'[c] \subseteq There(Source(c))
                          /\ \A g \in Files : copies'[d].files[g] =
                                IF g \in listed'[c] THEN Missing ELSE Source(c)[g]
      BY <1>3, <1>4, <2>a, <2>5, <2>6, <2>7 DEF ReadsAreOfSource
    <3>2. /\ Source(c)[Manifest] # Missing /\ hash[c] = Source(c)
          /\ listed[c] \subseteq There(Source(c))
          /\ \A g \in Files : copies[d].files[g] =
                IF g \in listed[c] THEN Missing ELSE Source(c)[g]
      BY <1>1, <1>3, <2>8, <3>1 DEF CommandHolds, ReadsAreOfSource
    <3> QED
      BY <2>4, <2>5, <3>2
  <2>9. KindFits(c)' /\ PublishedIsMade(c)'
    BY <1>1, <1>3, <1>4, <2>a, <2>3, <2>5 DEF CommandHolds, KindFits, PublishedIsMade
  <2>10. c \notin overlapped => ResolvedIsValid(c)'
    BY <1>1, <1>3, <1>4, <1>5, <2>a, <2>5 DEF CommandHolds, ResolvedIsValid, Valid
  <2>11. AbsentIsEmpty'
    <3>1. \A e \in {"registry", "installed"} : e # d => copies'[e] = copies[e]
      BY <1>4, <1>5
    <3> QED
      BY <2>3, <3>1 DEF RegistryInv, AbsentIsEmpty
  <2>12. RegistryHolds'
    <3>1. CASE Kind(c) = "publish"
      BY <1>4, <2>a, <2>5, <3>1 DEF RegistryHolds, Replacing
    <3>2. CASE Kind(c) = "install"
      BY <1>2, <1>3, <1>5, <2>5, <3>2, RegistryUntouched
    <3> QED
      BY <1>4, <3>1, <3>2
  <2> QED
    BY <1>3, <1>6, <2>8, <2>9, <2>10, <2>11, <2>12 DEF CommandHolds
<1> QED
  BY <1>7, <1>8

\* What is in place once the metadata is to be written.
LEMMA CopiedIsWhole ==
  ASSUME RegistryInv, NEW c \in Commands, WriteMeta(c)
  PROVE  /\ Kind(c) \in {"publish", "install"}
         /\ c \notin overlapped /\ (Kind(c) # "publish" \/ ~dirty) =>
               copies[Target(c)].files = hash[c] /\ hash[c] = Source(c)
<1>1. pc[c] = "copy" /\ listed[c] = {} /\ CommandHolds(c) /\ TypeOK
  BY DEF WriteMeta, RegistryInv
<1>2. Kind(c) \in {"publish", "install"}
  BY <1>1 DEF CommandHolds, KindFits
<1>3. ASSUME c \notin overlapped, Kind(c) # "publish" \/ ~dirty
      PROVE  copies[Target(c)].files = hash[c] /\ hash[c] = Source(c)
  <2>1. /\ hash[c] = Source(c)
        /\ \A f \in Files : copies[Target(c)].files[f] = Source(c)[f]
    BY <1>1, <1>3 DEF CommandHolds, ReadsAreOfSource
  <2>2. Source(c) \in [Files -> Nat] /\ copies[Target(c)].files \in [Files -> Nat]
    BY <1>1, SourceTyped DEF TypeOK, Copy, Package
  <2> QED
    BY <2>1, <2>2
<1> QED
  BY <1>2, <1>3

LEMMA WriteMetaHolds ==
  ASSUME RegistryInv, TypeOK', NEW c \in Commands, WriteMeta(c)
  PROVE  CommandHolds(c)' /\ AbsentIsEmpty' /\ RegistryHolds' /\ CheckedIsLocked'
<1> DEFINE d == Target(c)
<1>1. TypeOK /\ CommandHolds(c) /\ d \in {"registry", "installed"}
  BY SourceTyped DEF RegistryInv
<1>2. LeavesOthers(c)
  BY StepsLeaveOthers DEF Steps
<1>3. /\ copies' = [copies EXCEPT ![Target(c)].there = TRUE,
                                  ![Target(c)].meta = hash[c]]
      /\ made' = made /\ lock' = lock /\ checked' = checked
  BY DEF WriteMeta
<1>4. /\ copies'[d].there /\ copies'[d].meta = hash[c]
      /\ copies'[d].files = copies[d].files
      /\ \A e \in {"registry", "installed"} : e # d => copies'[e] = copies[e]
  BY <1>1, <1>3 DEF TypeOK, Copy
<1>5. CommandHolds(c)'
  BY <1>1, EndedHolds DEF WriteMeta
<1>6. AbsentIsEmpty'
  BY <1>4 DEF RegistryInv, AbsentIsEmpty
<1>7. CheckedIsLocked'
  BY <1>2, <1>3, CheckStays
<1>8. RegistryHolds'
  <2>1. CASE Kind(c) = "publish"
    <3>1. d = "registry" /\ drifted' = dirty /\ hash[c] \in made /\ torn' = (c \in overlapped)
      BY <1>1, <2>1 DEF Target, WriteMeta, CommandHolds, PublishedIsMade
    <3>2. copies'["registry"].meta \in made'
      BY <1>3, <1>4, <3>1
    <3>3. c \notin overlapped /\ ~dirty =>
             copies'["registry"].meta = copies'["registry"].files
      BY <1>4, <2>1, <3>1, CopiedIsWhole
    <3> QED
      BY <3>1, <3>2, <3>3 DEF RegistryHolds
  <2>2. CASE Kind(c) = "install"
    <3>1. d = "installed"
      BY <2>2 DEF Target
    <3>2. copies'["registry"] = copies["registry"]
      BY <1>4, <3>1
    <3>3. torn' = torn /\ upgraded' = upgraded /\ drifted' = drifted
      BY <1>1, <2>2 DEF WriteMeta, TypeOK
    <3> QED
      BY <1>2, <2>2, <3>2, <3>3, RegistryUntouched
  <2> QED
    BY <2>1, <2>2, CopiedIsWhole
<1> QED
  BY <1>5, <1>6, <1>7, <1>8

\* The commands that only read, and those that end.
LEMMA LookersHold ==
  ASSUME RegistryInv, TypeOK', NEW c \in Commands,
         Scan(c) \/ Read(c) \/ Hashed(c) \/ Reject(c) \/ Place(c)
  PROVE  CommandHolds(c)' /\ AbsentIsEmpty' /\ RegistryHolds' /\ CheckedIsLocked'
<1>1. LeavesOthers(c) /\ TypeOK
  BY StepsLeaveOthers DEF Steps, RegistryInv
<1>2. UNCHANGED <<copies, lock, torn, drifted, upgraded, checked>>
  BY DEF Scan, Read, Hashed, Reject, Place, dirs, history
<1>3. pc[c] \notin {"clear", "copy"}
  BY DEF Scan, Read, Hashed, Reject, WholeRead, Place
<1>4. RegistryHolds'
  BY <1>1, <1>2, <1>3, RegistryUntouched
<1>5. AbsentIsEmpty' /\ CheckedIsLocked'
  BY <1>1, <1>2, CheckStays DEF RegistryInv, AbsentIsEmpty
<1>6. CommandHolds(c)'
  <2>1. CASE Reject(c)
    BY <1>1, <2>1, EndedHolds DEF Reject
  <2> QED
    BY <2>1, ScanHolds, ReadHolds, HashedHolds, PlaceHolds
<1> QED
  BY <1>4, <1>5, <1>6

LEMMA EndersHold ==
  ASSUME RegistryInv, TypeOK', NEW c \in Commands,
         Pin(c) \/ Check(c) \/ Upgrade(c) \/ Kill(c)
  PROVE  CommandHolds(c)' /\ AbsentIsEmpty' /\ RegistryHolds' /\ CheckedIsLocked'
<1>1. LeavesOthers(c) /\ TypeOK /\ CommandHolds(c)
  BY StepsLeaveOthers DEF Steps, RegistryInv
<1>2. CommandHolds(c)'
  BY <1>1, EndedHolds DEF Pin, Check, Upgrade, Kill
<1>3. CASE Pin(c)
  <2>1. /\ pc[c] = "write" /\ Kind(c) = "lock"
        /\ UNCHANGED <<copies, torn, drifted, upgraded, checked>>
    BY <1>3 DEF Pin, history
  <2>2. RegistryHolds' /\ CheckedIsLocked'
    BY <1>1, <2>1, RegistryUntouched, CheckStays
  <2> QED
    BY <1>2, <2>1, <2>2 DEF RegistryInv, AbsentIsEmpty
<1>4. CASE Check(c)
  <2>1. /\ pc[c] = "write" /\ Kind(c) = "check" /\ Busy(c)
        /\ UNCHANGED <<copies, lock, torn, drifted, upgraded>>
        /\ checked' = (c \notin overlapped /\ lock = hash[c])
    BY <1>4 DEF Check, dirs, Busy
  <2>2. RegistryHolds'
    BY <1>1, <2>1, RegistryUntouched
  <2>3. CheckedIsLocked'
    <3>1. SUFFICES ASSUME c \notin overlapped, lock = hash[c],
                          NEW d \in Commands, Busy(d)'
                   PROVE  /\ hash[c] = copies["registry"].files
                          /\ Kind(d)' \notin {"publish", "upgrade", "lock"}
      <4>1. c \notin overlapped => hash[c] = copies["registry"].files
        BY <1>1, <2>1 DEF CommandHolds, ReadsAreOfSource, Source
      <4> QED
        BY <2>1, <4>1 DEF CheckedIsLocked
    <3>2. hash[c] = copies["registry"].files
      BY <1>1, <2>1, <3>1 DEF CommandHolds, ReadsAreOfSource, Source
    <3>3. Busy(d) /\ Kind(d)' = Kind(d)
      BY <1>1, <2>1, <3>1 DEF LeavesOthers, Kind, Busy
    <3>4. Kind(d) \notin {"publish", "upgrade", "lock"}
      BY <2>1, <3>1, <3>3 DEF RegistryInv, MeetingsAreKnown, Disturbs
    <3> QED
      BY <3>2, <3>3, <3>4
  <2> QED
    BY <1>2, <2>1, <2>2, <2>3 DEF RegistryInv, AbsentIsEmpty
<1>5. ASSUME Upgrade(c) \/ Kill(c), pc[c] = "write" PROVE RegistryHolds' /\ AbsentIsEmpty'
  <2>1. /\ Kind(c) # "publish" /\ torn' = torn /\ made' = made /\ drifted' = drifted
        /\ upgraded => upgraded'
        /\ \/ copies' = copies
           \/ /\ copies["registry"].files[Manifest] # Missing /\ upgraded'
              /\ \E rev \in Nat :
                    copies' = [copies EXCEPT !["registry"].files[Manifest] = rev]
    <3>1. edits + 2 \in Nat /\ Cut \in Nat
      BY <1>1, RegistryFacts DEF TypeOK
    <3>2. Kind(c) # "publish"
      BY <1>1, <1>5 DEF CommandHolds, KindFits
    <3>3. CASE Upgrade(c)
      BY <3>1, <3>2, <3>3 DEF Upgrade
    <3>4. CASE Kill(c)
      <4>1. torn' = torn
        BY <1>1, <3>2, <3>4 DEF Kill, TypeOK
      <4>2. upgraded => upgraded'
        BY <3>4 DEF Kill
      <4>3. CASE HalfWritten(c)
        BY <1>5, <3>1, <3>2, <3>4, <4>1, <4>2, <4>3 DEF Kill, HalfWritten
      <4>4. CASE copies' = copies
        BY <3>2, <3>4, <4>1, <4>2, <4>4 DEF Kill
      <4> QED
        BY <3>4, <4>3, <4>4 DEF Kill
    <3> QED
      BY <1>5, <3>3, <3>4
  <2>2. /\ copies'["registry"].there = copies["registry"].there
        /\ copies'["registry"].meta = copies["registry"].meta
        /\ copies'["installed"] = copies["installed"]
        /\ ~upgraded' => copies' = copies
    BY <1>1, <2>1 DEF TypeOK, Copy
  <2>3. Replacing => Replacing'
    <3>1. SUFFICES ASSUME NEW d \in Commands, Kind(d) = "publish", pc[d] \in {"clear", "copy"}
                   PROVE  Kind(d)' = "publish" /\ pc'[d] \in {"clear", "copy"}
      BY DEF Replacing
    <3>2. d # c /\ Kind(d)' = Kind(d)
      BY <1>1, <2>1, <3>1 DEF LeavesOthers, Kind
    <3> QED
      BY <1>1, <3>1, <3>2 DEF LeavesOthers
  <2>4. RegistryHolds'
    BY <2>1, <2>2, <2>3 DEF RegistryInv, RegistryHolds
  <2>5. AbsentIsEmpty'
    <3>1. CASE copies' = copies
      BY <3>1 DEF RegistryInv, AbsentIsEmpty
    <3>2. CASE copies["registry"].files[Manifest] # Missing
      <4>1. copies["registry"].there
        BY <3>2, RegistryFacts DEF RegistryInv, AbsentIsEmpty, Absent, Nothing
      <4> QED
        BY <2>2, <4>1 DEF RegistryInv, AbsentIsEmpty
    <3> QED
      BY <2>1, <3>1, <3>2
  <2> QED
    BY <2>4, <2>5
<1>6. CASE Upgrade(c)
  <2>1. pc[c] = "write" /\ Kind(c) = "upgrade" /\ checked' = checked /\ lock' = lock
    BY <1>6 DEF Upgrade
  <2>2. CheckedIsLocked'
    BY <1>1, <2>1, CheckStays
  <2> QED
    BY <1>2, <1>5, <1>6, <2>1, <2>2
<1>7. CASE Kill(c)
  <2>1. /\ made' = made /\ drifted' = drifted /\ checked' = checked
        /\ torn' = (torn \/ (Kind(c) = "publish" /\ pc[c] \in {"clear", "copy"}))
    BY <1>7 DEF Kill
  <2>2. CheckedIsLocked'
    <3>1. Kind(c) # "lock" => lock' = lock
      BY <1>7 DEF Kill, HalfWritten
    <3> QED
      BY <1>1, <2>1, <3>1, CheckStays
  <2>3. ASSUME pc[c] # "write" PROVE RegistryHolds' /\ AbsentIsEmpty'
    <3>1. /\ upgraded' = upgraded
          /\ copies' = copies \/ (pc[c] = "copy" /\ copies'[Target(c)].there)
      <4>1. Target(c) \in {"registry", "installed"} /\ listed[c] \subseteq Files
        BY <1>1, SourceTyped DEF TypeOK
      <4>2. upgraded' = upgraded
        BY <1>1, <1>7, <2>3 DEF Kill, TypeOK
      <4>3. CASE HalfWritten(c)
        BY <1>1, <2>3, <4>1, <4>2, <4>3 DEF HalfWritten, TypeOK, Copy
      <4> QED
        BY <1>7, <4>2, <4>3 DEF Kill
    <3>2. RegistryHolds'
      <4>1. CASE Kind(c) = "publish" /\ pc[c] \in {"clear", "copy"}
        BY <2>1, <4>1 DEF RegistryHolds
      <4>2. CASE ~(Kind(c) = "publish" /\ pc[c] \in {"clear", "copy"})
        <5>1. torn' = torn
          BY <1>1, <2>1, <4>2 DEF TypeOK
        <5>2. copies'["registry"] = copies["registry"]
          BY <1>1, <3>1, <4>2 DEF LeavesOthers, CommandHolds, KindFits
        <5> QED
          BY <1>1, <2>1, <3>1, <4>2, <5>1, <5>2, RegistryUntouched
      <4> QED
        BY <4>1, <4>2
    <3>3. AbsentIsEmpty'
      <4>1. CASE copies' = copies
        BY <4>1 DEF RegistryInv, AbsentIsEmpty
      <4>2. CASE pc[c] = "copy" /\ copies'[Target(c)].there
        <5>1. Kind(c) \in {"publish", "install"}
          BY <1>1, <4>2 DEF CommandHolds, KindFits
        <5>2. \A e \in {"registry", "installed"} : e # Target(c) => copies'[e] = copies[e]
          BY <1>1, <5>1 DEF LeavesOthers, Target
        <5> QED
          BY <4>2, <5>2 DEF RegistryInv, AbsentIsEmpty
      <4> QED
        BY <3>1, <4>1, <4>2
    <3> QED
      BY <3>2, <3>3
  <2> QED
    BY <1>2, <1>5, <1>7, <2>2, <2>3
<1> QED
  BY <1>3, <1>4, <1>6, <1>7

\* An edit reaches only what is published, and marks it.
LEMMA EditHolds ==
  ASSUME RegistryInv, NEW f \in Files, Edit(f)
  PROVE  /\ MeetingsAreKnown' /\ \A c \in Commands : CommandHolds(c)'
         /\ AbsentIsEmpty' /\ RegistryHolds' /\ CheckedIsLocked'
<1>1. /\ UNCHANGED <<copies, lock, pc, job, listed, hash, made, torn, drifted, upgraded,
                     checked, overlapped>>
      /\ dirty'
  BY DEF Edit, locals
<1>2. \A c \in Commands : Kind(c)' = Kind(c) /\ Busy(c)' = Busy(c) /\ Target(c)' = Target(c)
  BY <1>1 DEF Kind, Busy, Target
<1>3. MeetingsAreKnown'
  BY <1>1, <1>2 DEF RegistryInv, MeetingsAreKnown, Disturbs
<1>4. ASSUME NEW c \in Commands PROVE CommandHolds(c)'
  <2>1. CommandHolds(c)
    BY DEF RegistryInv
  <2>2. Kind(c) # "publish" => Source(c)' = Source(c) /\ There(Source(c))' = There(Source(c))
    BY <1>1, <1>2 DEF Source, There
  <2>3. KindFits(c)' /\ PublishedIsMade(c)'
    BY <1>1, <1>2, <2>1 DEF CommandHolds, KindFits, PublishedIsMade
  <2>4. c \notin overlapped => ResolvedIsValid(c)'
    BY <1>1, <1>2, <2>1 DEF CommandHolds, ResolvedIsValid, Valid
  <2>5. c \notin overlapped => ReadsAreOfSource(c)'
    BY <1>1, <1>2, <2>1, <2>2 DEF CommandHolds, ReadsAreOfSource
  <2> QED
    BY <1>1, <2>3, <2>4, <2>5 DEF CommandHolds
<1>5. Replacing' = Replacing
  BY <1>1, <1>2 DEF Replacing
<1> QED
  BY <1>1, <1>2, <1>3, <1>4, <1>5 DEF RegistryInv, AbsentIsEmpty, RegistryHolds,
                                      CheckedIsLocked

\* A publish that starts resets dirty, and disturbs every other that relies on it.
LEMMA StartHolds ==
  ASSUME RegistryInv, NEW c \in Commands, NEW kind \in Kinds, NEW replace \in BOOLEAN,
         Start(c, kind, replace)
  PROVE  /\ MeetingsAreKnown' /\ \A d \in Commands : CommandHolds(d)'
         /\ AbsentIsEmpty' /\ RegistryHolds' /\ CheckedIsLocked'
<1>1. TypeOK
  BY DEF RegistryInv
<1>2. /\ UNCHANGED <<project, copies, lock, listed, hash, made, torn, drifted, upgraded>>
      /\ dirty' = (dirty /\ kind # "publish") /\ ~Busy(c)
      /\ checked' = (checked /\ kind \notin {"publish", "upgrade", "lock"})
      /\ overlapped' = (overlapped \ {c}) \cup Met(c, kind)
      /\ pc' = [pc EXCEPT ![c] = "scan"]
      /\ job' = [job EXCEPT ![c] = [kind |-> kind, replace |-> replace]]
  BY DEF Start, Goto, dirs
<1>3. pc'[c] = "scan" /\ Kind(c)' = kind /\ pc[c] = "idle"
  BY <1>1, <1>2 DEF TypeOK, Kind, Busy
<1>4. \A d \in Commands \ {c} : pc'[d] = pc[d] /\ Kind(d)' = Kind(d) /\ Busy(d)' = Busy(d)
  BY <1>1, <1>2 DEF TypeOK, Kind, Busy
<1>5. MeetingsAreKnown'
  <2>1. SUFFICES ASSUME NEW a \in Commands, NEW b \in Commands, a # b, Busy(a)', Busy(b)',
                        Disturbs(Kind(b)', Kind(a)')
                 PROVE  a \in overlapped'
    BY DEF MeetingsAreKnown, Disturbs
  <2>2. CASE a = c
    BY <1>2, <1>3, <1>4, <2>1, <2>2 DEF Met
  <2>3. CASE b = c
    BY <1>2, <1>3, <1>4, <2>1, <2>3 DEF Met
  <2>4. CASE a # c /\ b # c
    BY <1>2, <1>4, <2>1, <2>4 DEF RegistryInv, MeetingsAreKnown
  <2> QED
    BY <2>2, <2>3, <2>4
<1>6. CommandHolds(c)'
  BY <1>3 DEF CommandHolds, KindFits, ReadsAreOfSource, ResolvedIsValid, PublishedIsMade
<1>7. ASSUME NEW d \in Commands, d # c PROVE CommandHolds(d)'
  <2>1. /\ CommandHolds(d) /\ pc'[d] = pc[d] /\ Kind(d)' = Kind(d)
        /\ Source(d)' = Source(d) /\ Target(d)' = Target(d) /\ Valid(d)' = Valid(d)
    BY <1>2, <1>4, <1>7 DEF RegistryInv, Source, Target, Valid
  <2>2. There(Source(d))' = There(Source(d))
    BY <2>1 DEF There
  <2>3. KindFits(d)' /\ PublishedIsMade(d)'
    BY <1>2, <2>1 DEF CommandHolds, KindFits, PublishedIsMade
  <2>4. ASSUME d \notin overlapped' PROVE ReadsAreOfSource(d)' /\ ResolvedIsValid(d)'
    <3>1. d \notin overlapped /\ (Busy(d) => ~Disturbs(kind, Kind(d)))
      BY <1>2, <1>7, <2>4 DEF Met
    <3>2. ResolvedIsValid(d)'
      BY <1>2, <2>1, <3>1 DEF CommandHolds, ResolvedIsValid
    <3>3. ReadsAreOfSource(d)'
      <4>1. CASE Busy(d)
        <5>1. kind # "publish"
          BY <3>1, <4>1 DEF Disturbs
        <5>2. dirty' = dirty
          BY <1>1, <1>2, <5>1 DEF TypeOK
        <5> QED
          BY <1>2, <2>1, <2>2, <3>1, <5>2 DEF CommandHolds, ReadsAreOfSource
      <4>2. CASE ~Busy(d)
        BY <2>1, <4>2 DEF ReadsAreOfSource, Busy
      <4> QED
        BY <4>1, <4>2
    <3> QED
      BY <3>2, <3>3
  <2> QED
    BY <2>3, <2>4 DEF CommandHolds
<1>8. Replacing => Replacing'
  BY <1>3, <1>4 DEF Replacing
<1>9. CheckedIsLocked'
  <2>1. SUFFICES ASSUME checked', NEW d \in Commands, Busy(d)'
                 PROVE  /\ lock = copies["registry"].files
                        /\ Kind(d)' \notin {"publish", "upgrade", "lock"}
    <3>1. checked => lock = copies["registry"].files
      BY DEF RegistryInv, CheckedIsLocked
    <3> QED
      BY <1>2, <3>1 DEF CheckedIsLocked
  <2>2. checked /\ kind \notin {"publish", "upgrade", "lock"}
    BY <1>2, <2>1
  <2> QED
    BY <1>3, <1>4, <2>1, <2>2 DEF RegistryInv, CheckedIsLocked
<1> QED
  BY <1>2, <1>5, <1>6, <1>7, <1>8, <1>9 DEF RegistryInv, AbsentIsEmpty, RegistryHolds

LEMMA RegistryStep == RegistryInv /\ [Next]_vars => RegistryInv'
<1>1. ASSUME RegistryInv, Next PROVE RegistryInv'
  <2>1. TypeOK'
    BY <1>1, RegistryTyped
  <2>2. CASE \E f \in Files : Edit(f)
    BY <1>1, <2>1, <2>2, EditHolds DEF RegistryInv
  <2>3. CASE \E c \in Commands : \E kind \in Kinds, replace \in BOOLEAN :
                Start(c, kind, replace)
    BY <1>1, <2>1, <2>3, StartHolds DEF RegistryInv
  <2>4. ASSUME NEW c \in Commands, Steps(c) PROVE RegistryInv'
    <3>1. LeavesOthers(c)
      BY <1>1, <2>4, StepsLeaveOthers
    <3>2. CommandHolds(c)' /\ AbsentIsEmpty' /\ RegistryHolds' /\ CheckedIsLocked'
      BY <1>1, <2>1, <2>4, LookersHold, ClearHolds, CopyFileHolds, WriteMetaHolds, EndersHold
         DEF Steps
    <3>3. \A d \in Commands : CommandHolds(d)'
      BY <1>1, <3>1, <3>2, OthersHold
    <3> QED
      BY <1>1, <2>1, <3>1, <3>2, <3>3, MeetingsKept DEF RegistryInv
  <2> QED
    BY <1>1, <2>2, <2>3, <2>4 DEF Next, Steps
<1>2. ASSUME RegistryInv, UNCHANGED vars PROVE RegistryInv'
  BY <1>2 DEF RegistryInv, vars, dirs, locals, history, TypeOK, MeetingsAreKnown, CommandHolds,
     KindFits, ReadsAreOfSource, ResolvedIsValid, PublishedIsMade,
     AbsentIsEmpty, RegistryHolds, CheckedIsLocked, Replacing, Busy, Kind, Source, Target,
     Valid, There
<1> QED
  BY <1>1, <1>2

LEMMA RegistryKept == PartsSpec => []RegistryInv
<1>1. RegistryInv /\ [Registry \/ Limiter \/ Connection \/ Service \/ Checkout
                        \/ Delivery]_allVars => RegistryInv'
  BY RegistryStep DEF Registry, Limiter, Connection, Service, Checkout, Delivery, allVars
<1> QED
  BY <1>1, RegistryInit, PTL DEF PartsSpec

\* A published package can be resolved, with any number of files, commands,
\* edits and kills, in every interleaving: unless it was edited inside its
\* publish, its publish was stopped, failed or met another writer, or an upgrade
\* rewrote its manifest, what the metadata names is what lies beside it.
THEOREM PublishedPackagesResolve == PartsSpec => []PublishedResolves
<1>1. RegistryInv => PublishedResolves
  <2>1. Replacing => Publishing
    BY DEF Replacing, Publishing, Busy
  <2> QED
    BY <2>1 DEF RegistryInv, RegistryHolds, PublishedResolves
<1> QED
  BY <1>1, RegistryKept, PTL

LEMMA InstallIsTrue == RegistryInv => InstalledIsPublished /\ InstalledIsLocked
<1> SUFFICES ASSUME RegistryInv, NEW c \in Commands, Installs(c), c \notin overlapped
             PROVE  /\ copies["installed"].files = hash[c]
                    /\ ~torn => hash[c] \in made
                    /\ checked => copies["installed"].files = lock
  BY DEF InstalledIsPublished, InstalledIsLocked
<1>1. /\ Kind(c) = "install" /\ pc[c] = "copy" /\ CommandHolds(c)
      /\ Target(c) = "installed" /\ Source(c) = copies["registry"].files
  BY DEF RegistryInv, Installs, WriteMeta, Target, Source
<1>2. copies["installed"].files = hash[c] /\ hash[c] = copies["registry"].files
  BY <1>1, CopiedIsWhole DEF Installs
<1>3. checked => copies["installed"].files = lock
  BY <1>2 DEF RegistryInv, CheckedIsLocked
<1>4. ASSUME ~torn PROVE hash[c] \in made
  <2>1. ~Replacing
    <3>1. SUFFICES ASSUME NEW d \in Commands, Kind(d) = "publish", Busy(d) PROVE FALSE
      BY DEF Replacing, Busy
    <3>2. c # d /\ Busy(c)
      BY <1>1, <3>1 DEF Busy
    <3> QED
      BY <3>1, <3>2 DEF RegistryInv, MeetingsAreKnown, Disturbs
  <2>2. copies["registry"].there
    <3>1. copies["registry"].files[Manifest] # Missing
      BY <1>1 DEF CommandHolds, ReadsAreOfSource
    <3> QED
      BY <3>1, RegistryFacts DEF RegistryInv, AbsentIsEmpty, Absent, Nothing
  <2>3. copies["registry"].meta \in made
    BY <1>4, <2>1, <2>2 DEF RegistryInv, RegistryHolds
  <2>4. copies["registry"].meta # NoHash
    BY <2>3, RegistryFacts DEF RegistryInv, TypeOK
  <2>5. copies["registry"].meta = hash[c]
    BY <1>1, <2>4 DEF CommandHolds, ResolvedIsValid, Valid
  <2> QED
    BY <2>3, <2>5
<1> QED
  BY <1>2, <1>3, <1>4

\* Of any number of commands in any interleaving, an install that overlapped no
\* other that disturbs it puts in place, whole, the package it validated: one
\* that publish hashed, unless a publish was left unfinished, and the one the
\* lock names, if nobody began to write the registry or the lock since
\* lock --check accepted.  Nothing is claimed of what replaces a locked package:
\* install does not read the lock.
THEOREM InstallsAreVerified == PartsSpec => InstalledIsTrue
<1>1. RegistryInv /\ RegistryInv'
        => [InstalledIsPublished /\ InstalledIsLocked]_vars
  BY InstallIsTrue
<1>2. [][RegistryInv /\ RegistryInv']_vars
        => [][InstalledIsPublished /\ InstalledIsLocked]_vars
  BY <1>1, PTL
<1> QED
  BY <1>2, RegistryKept, PTL DEF InstalledIsTrue

\* The components around the engine keep their types.
THEOREM PartsAreTyped == PartsSpec => []PartsTypeOK
<1>1. /\ RegistryInv /\ LimitInv /\ ConnectorInv /\ HttpInv /\ GitInv /\ DeployInv
        => PartsTypeOK
  BY DEF RegistryInv, LimitInv, ConnectorInv, HttpInv, GitInv, DeployInv, PartsTypeOK
<1> QED
  BY <1>1, RegistryKept, LimitKept, ConnectorKept, HttpKept, GitKept, DeployKept, PTL
=============================================================================
