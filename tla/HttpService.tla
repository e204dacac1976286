---------------------------- MODULE HttpService -----------------------------
(***************************************************************************)
(* `num serve`: the loop of num-runtime/src/http.rs, which accepts, reads, *)
(* handles and answers one connection at a time, around                    *)
(* handle_http_request of service.rs, which checks a request, runs the     *)
(* route, hands the audit events to the recorder and classifies the error. *)
(* Clients may cut their request off, send nothing or what cannot be read, *)
(* or be gone when the answer is written.                                  *)
(***************************************************************************)
EXTENDS Naturals, Sequences

CONSTANTS
    Clients,      \* connections
    NoClient,     \* none is being served
    MaxRequests,  \* --max-requests
    NoMax         \* without it

VARIABLES
    recorder,  \* there is an audit recorder, and it writes a file
    manner,    \* what each client does with its connection
    conn,      \* what became of it
    backlog,   \* connections that wait to be accepted
    server,    \* where the loop stands
    serving,   \* the connection being served
    outcome,   \* what the handler made of the request
    served,    \* connections served
    effects,   \* clients whose route body took effect
    audited,   \* clients whose audit events were recorded
    answer     \* the answer each client received

vars == <<recorder, manner, conn, backlog, server, serving, outcome, served,
          effects, audited, answer>>

\* complete: the request arrives whole, and the client waits for the answer.
\* gone: the same, but it is gone before the answer.  garbled: a whole request
\* that cannot be parsed.  unmeasured: the same, and it is the Content-Length
\* that is no number.  cut: the connection ends inside the request, or the
\* request exceeds a limit.  silent: nothing arrives and the connection stays.
Manners == {"complete", "gone", "garbled", "unmeasured", "cut", "silent"}

\* What a request is told before its route is looked for: unparsed by
\* parse_request, refused for its token or its body, or that the tenant is
\* another, which alone is put on record.
AtTheDoor == {"unparsed", "refused", "tenant"}

\* What classify_route_error takes a message for, a miss of the route, a denial
\* or any failure, and the RuntimeError that the interpreter noted last, if any,
\* which it asks first.
Messages == {"miss", "denied", "failed"}
Noted == {"none", "limited", "connector"}
Classified(message, noted) == IF noted = "none" THEN message ELSE noted

Recorded == {"ok", "tenant", "limited", "connector"} \cup Messages
Outcomes == AtTheDoor \cup Recorded \cup {"internal"}

TypeOK ==
    /\ recorder \in BOOLEAN
    /\ manner \in [Clients -> Manners]
    /\ conn \in [Clients -> {"none", "open", "closed"}]
    /\ backlog \in Seq(Clients)
    /\ server \in {"accept", "read", "handle", "record", "respond", "stopped"}
    /\ serving \in Clients \cup {NoClient}
    /\ outcome \in Outcomes \cup {"none"}
    /\ served \in Nat
    /\ effects \subseteq Clients
    /\ audited \subseteq Clients
    /\ answer \in [Clients -> Outcomes \cup {"none"}]

Init ==
    /\ recorder \in BOOLEAN
    /\ manner \in [Clients -> Manners]
    /\ conn = [c \in Clients |-> "none"]
    /\ backlog = <<>>
    /\ server = "accept"
    /\ serving = NoClient
    /\ outcome = "none"
    /\ served = 0
    /\ effects = {}
    /\ audited = {}
    /\ answer = [c \in Clients |-> "none"]

-----------------------------------------------------------------------------
Connect(c) ==
    /\ conn[c] = "none"
    /\ server # "stopped"
    /\ conn' = [conn EXCEPT ![c] = "open"]
    /\ backlog' = Append(backlog, c)
    /\ UNCHANGED <<recorder, manner, server, serving, outcome, served, effects,
                   audited, answer>>

Accept ==
    /\ server = "accept"
    /\ backlog # <<>>
    /\ serving' = Head(backlog)
    /\ backlog' = Tail(backlog)
    /\ server' = "read"
    /\ UNCHANGED <<recorder, manner, conn, outcome, served, effects, audited,
                   answer>>

\* A silent client is waited for.
Read ==
    /\ server = "read"
    /\ manner[serving] \in {"garbled", "complete", "gone"}
    /\ IF manner[serving] = "garbled"
       THEN server' = "respond" /\ outcome' = "unparsed"
       ELSE server' = "handle" /\ UNCHANGED outcome
    /\ UNCHANGED <<recorder, manner, conn, backlog, serving, served, effects,
                   audited, answer>>

\* An error of read_request ends serve: of the connection, of a limit, or of
\* content_length, which it needs to know how much to read.
ReadFails ==
    /\ server = "read"
    /\ manner[serving] \in {"cut", "unmeasured"}
    /\ server' = "stopped"
    /\ conn' = [conn EXCEPT ![serving] = "closed"]
    /\ serving' = NoClient
    /\ UNCHANGED <<recorder, manner, backlog, outcome, served, effects,
                   audited, answer>>

\* The handler ends with an outcome, which goes to the recorder or, of the
\* refusals by the token or the body, straight to the client.
Handled(o) ==
    /\ server = "handle"
    /\ outcome' = o
    /\ server' = IF o \in Recorded THEN "record" ELSE "respond"
    /\ UNCHANGED <<recorder, manner, conn, backlog, serving, served, audited, answer>>

\* Faulty variant: the tenant is checked behind the route.
RefuseLate(o) ==
    /\ Handled(o)
    /\ effects' = IF o = "tenant" THEN effects \cup {serving} ELSE effects

\* By the token, the tenant or the body of the request.
Refuse(o) == Handled(o) /\ UNCHANGED effects

\* run_service_route fails before the body: no such route, denied by a policy
\* or for want of a permission or of input, or over the limit of the service.
FailEarly(o) == Handled(o) /\ UNCHANGED effects

Succeed == Handled("ok") /\ effects' = effects \cup {serving}

\* The body fails, with or without effects: with the error of a connector or of
\* the limit of a workflow that it called, which is noted, or with another, and
\* what was noted then is of an earlier attempt of an action.  The message of
\* a reject or of a field that is missing may read like that of an early error.
FailInside(message, noted) ==
    /\ Handled(Classified(message, noted))
    /\ effects' \in {effects, effects \cup {serving}}

\* record_audit_events; its error replaces the answer.  Without a recorder, or
\* with one that only prints, nothing is kept and nothing can fail.
Record ==
    /\ server = "record"
    /\ server' = "respond"
    /\ \/ audited' = (IF recorder THEN audited \cup {serving} ELSE audited)
          /\ UNCHANGED outcome
       \/ recorder /\ outcome' = "internal" /\ UNCHANGED audited
    /\ UNCHANGED <<recorder, manner, conn, backlog, serving, served, effects,
                   answer>>

\* Faulty variant: one connection fewer is served.
RespondEarly ==
    /\ server = "respond"
    /\ conn' = [conn EXCEPT ![serving] = "closed"]
    /\ serving' = NoClient
    /\ IF manner[serving] = "gone"
       THEN server' = "stopped" /\ UNCHANGED <<served, answer>>
       ELSE /\ answer' = [answer EXCEPT ![serving] = outcome]
            /\ served' = served + 1
            /\ server' = IF MaxRequests # NoMax /\ served' + 1 >= MaxRequests
                         THEN "stopped" ELSE "accept"
    /\ outcome' = "none"
    /\ UNCHANGED <<recorder, manner, backlog, effects, audited>>

\* An error of write_all ends serve, and so does the last of --max-requests.
Respond ==
    /\ server = "respond"
    /\ conn' = [conn EXCEPT ![serving] = "closed"]
    /\ serving' = NoClient
    /\ IF manner[serving] = "gone"
       THEN server' = "stopped" /\ UNCHANGED <<served, answer>>
       ELSE /\ answer' = [answer EXCEPT ![serving] = outcome]
            /\ served' = served + 1
            /\ server' = IF MaxRequests # NoMax /\ served' >= MaxRequests
                         THEN "stopped" ELSE "accept"
    /\ outcome' = "none"
    /\ UNCHANGED <<recorder, manner, backlog, effects, audited>>

Handle ==
    \/ \E o \in {"refused", "tenant"} : Refuse(o)
    \/ \E o \in {"miss", "denied", "limited"} : FailEarly(o)
    \/ Succeed
    \/ \E message \in Messages, noted \in Noted : FailInside(message, noted)

Serve == Accept \/ Read \/ ReadFails \/ Handle \/ Record \/ Respond

Next == (\E c \in Clients : Connect(c)) \/ Serve

\* The loop goes on as long as it can; nobody has to connect.
Spec == Init /\ [][Next]_vars /\ WF_vars(Serve)

-----------------------------------------------------------------------------
(* Properties.                                                             *)

\* Who is refused at the door has had no effect.
RefusedHasNoEffect == \A c \in Clients : answer[c] \in AtTheDoor => c \notin effects

\* Whatever a route did, failed or not, is in the audit log before its client
\* is answered, or the answer is an internal error, although the route took
\* effect.
AnswerIsAudited ==
    recorder => \A c \in Clients :
        /\ answer[c] \in Recorded => c \in audited
        /\ c \in effects /\ answer[c] # "none" /\ c \notin audited
              => answer[c] = "internal"

\* What a client is told is what happened: nothing behind a refusal at the
\* door, and nothing that is not on record behind any other answer.
AnswersAreTrue == RefusedHasNoEffect /\ AnswerIsAudited

\* Of clients that send whole requests, of a length that can be read, and wait,
\* the first --max-requests are all answered.
Polite(c) == manner[c] \in {"complete", "garbled"}
PoliteAreAnswered ==
    (\A c \in Clients : Polite(c)) =>
        \A c \in Clients :
            conn[c] = "open" ~> answer[c] # "none" \/ served = MaxRequests
=============================================================================
