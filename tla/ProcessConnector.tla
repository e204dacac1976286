-------------------------- MODULE ProcessConnector --------------------------
(***************************************************************************)
(* ProcessConnectorExecutor::run of num-runtime/src/process_connectors.rs: *)
(* one call of a connector that is a child process.  The caller writes the *)
(* request to the child's input, waits for it to exit, killing it when the *)
(* timeout has passed, and reads its output.  The child reads and prints   *)
(* in any order, but one thing at a time; a pipe holds Capacity units and  *)
(* blocks whoever writes to it when it is full.  stderr is like stdout.    *)
(***************************************************************************)
EXTENDS Naturals

CONSTANTS
    Capacity,     \* units a pipe holds
    MaxRequest,   \* bound: units of a request
    MaxReply      \* bound: units of a reply

VARIABLES
    call,      \* the call: its sizes, timeout_ms, and what its child may do
    pc,        \* where run stands
    unsent,    \* units of the request still to be written
    input,     \* units in the child's stdin
    child,     \* the child process
    wants,     \* the system call it makes next
    unsaid,    \* units it has still to print
    output,    \* units in its stdout
    heir,      \* a process it left behind holds the other end of the pipes
    overdue,   \* the timeout has passed since the request was written
    collected, \* units of output read by the caller
    result     \* of the call

caller == <<call, pc, unsent, collected, result>>
vars == <<call, pc, unsent, input, child, wants, unsaid, output, heir, overdue,
          collected, result>>

Calls == [request : 0 .. MaxRequest, reply : 0 .. MaxReply, timed : BOOLEAN,
          hangs : BOOLEAN, fails : BOOLEAN, forks : BOOLEAN]

TypeOK ==
    /\ call \in Calls
    /\ pc \in {"write", "poll", "late", "collect", "done"}
    /\ unsent \in 0 .. call.request
    /\ input \in 0 .. Capacity
    /\ child \in {"runs", "hangs", "succeeded", "failed", "killed"}
    /\ wants \in {"read", "print", "exit"}
    /\ unsaid \in 0 .. call.reply
    /\ output \in 0 .. Capacity
    /\ heir \in BOOLEAN
    /\ overdue \in BOOLEAN
    /\ collected \in 0 .. call.reply
    /\ result \in {"none", "ok", "nonzero_exit", "timeout"}

\* What it turns to: a read, a write, or its end.
Then(reads, said) ==
    {w \in {"read", "print", "exit"} :
        /\ w = "read" => reads
        /\ w = "print" => said < call.reply
        /\ w = "exit" => said = call.reply \/ call.fails}

Init ==
    /\ call \in Calls
    /\ pc = "write"
    /\ unsent = call.request
    /\ input = 0
    /\ child = "runs"
    /\ wants \in Then(TRUE, 0)
    /\ unsaid = call.reply
    /\ output = 0
    /\ heir = FALSE
    /\ overdue = FALSE
    /\ collected = 0
    /\ result = "none"

Alive == child \in {"runs", "hangs"}

\* Somebody could still read the input, or write to the output.
Connected == Alive \/ heir

-----------------------------------------------------------------------------
(* The child.                                                              *)

\* A read at the end of the input, once the caller has closed it, is empty.
Read ==
    /\ child = "runs" /\ wants = "read"
    /\ \/ input > 0 /\ input' = input - 1
          /\ wants' \in Then(TRUE, call.reply - unsaid)
       \/ input = 0 /\ pc # "write" /\ UNCHANGED input
          /\ wants' \in Then(FALSE, call.reply - unsaid)
    /\ UNCHANGED <<caller, child, unsaid, output, heir, overdue>>

Emit ==
    /\ child = "runs" /\ wants = "print"
    /\ unsaid > 0
    /\ output < Capacity
    /\ unsaid' = unsaid - 1
    /\ output' = output + 1
    /\ wants' \in Then(TRUE, call.reply - unsaid')
    /\ UNCHANGED <<caller, input, child, heir, overdue>>

\* It exits, with success when everything is printed.
Exit ==
    /\ child = "runs" /\ wants = "exit"
    /\ \/ unsaid = 0 /\ child' = "succeeded"
       \/ call.fails /\ child' = "failed"
    /\ heir' \in {FALSE, call.forks}
    /\ UNCHANGED <<caller, input, wants, unsaid, output, overdue>>

Hang ==
    /\ call.hangs
    /\ child = "runs"
    /\ child' = "hangs"
    /\ UNCHANGED <<caller, input, wants, unsaid, output, heir, overdue>>

-----------------------------------------------------------------------------
(* The caller.                                                             *)

\* Faulty variant: the timeout is not looked at.
WriteThenCollect ==
    /\ pc = "write"
    /\ \/ /\ unsent > 0 /\ Connected /\ input < Capacity
          /\ unsent' = unsent - 1
          /\ input' = input + 1
          /\ UNCHANGED pc
       \/ /\ unsent = 0 \/ ~Connected
          /\ pc' = "collect"
          /\ UNCHANGED <<unsent, input>>
    /\ UNCHANGED <<call, child, wants, unsaid, output, heir, overdue, collected,
                   result>>

\* Faulty variant: the last unit is written again.
WriteOn ==
    /\ pc = "write"
    /\ \/ /\ Connected /\ input < Capacity
          /\ unsent' = unsent - 1
          /\ input' = input + 1
          /\ UNCHANGED pc
       \/ /\ unsent = 0 \/ ~Connected
          /\ pc' = IF call.timed THEN "poll" ELSE "collect"
          /\ UNCHANGED <<unsent, input>>
    /\ UNCHANGED <<call, child, wants, unsaid, output, heir, overdue, collected,
                   result>>

\* write_all blocks while the pipe is full.  Once nobody can read it the write
\* fails with a broken pipe, which is passed over.
Write ==
    /\ pc = "write"
    /\ \/ /\ unsent > 0 /\ Connected /\ input < Capacity
          /\ unsent' = unsent - 1
          /\ input' = input + 1
          /\ UNCHANGED pc
       \/ /\ unsent = 0 \/ ~Connected
          /\ pc' = IF call.timed THEN "poll" ELSE "collect"
          /\ UNCHANGED <<unsent, input>>
    /\ UNCHANGED <<call, child, wants, unsaid, output, heir, overdue, collected,
                   result>>

\* The timeout is counted from the end of the write.
Elapse ==
    /\ pc \in {"poll", "late"}
    /\ ~overdue
    /\ overdue' = TRUE
    /\ UNCHANGED <<caller, input, child, wants, unsaid, output, heir>>

\* try_wait; nothing is read from the output between two polls.
Poll ==
    /\ pc = "poll"
    /\ pc' = IF Alive THEN "late" ELSE "collect"
    /\ UNCHANGED <<call, unsent, input, child, wants, unsaid, output, heir,
                   overdue, collected, result>>

\* The child is killed, if it has not just exited, and waited for.
GiveUp ==
    /\ pc = "late"
    /\ IF overdue
       THEN /\ child' = IF Alive THEN "killed" ELSE child
            /\ pc' = "done"
            /\ result' = "timeout"
       ELSE pc' = "poll" /\ UNCHANGED <<child, result>>
    /\ UNCHANGED <<call, unsent, input, wants, unsaid, output, heir, overdue,
                   collected>>

Answer ==
    /\ pc' = "done"
    /\ result' = IF child = "succeeded" THEN "ok" ELSE "nonzero_exit"

\* Faulty variant: what is still in the pipe when the child exits is dropped.
CollectUntilExit ==
    /\ pc = "collect"
    /\ \/ /\ Alive /\ output > 0
          /\ output' = output - 1
          /\ collected' = collected + 1
          /\ UNCHANGED <<pc, result>>
       \/ ~Connected /\ Answer /\ UNCHANGED <<output, collected>>
    /\ UNCHANGED <<call, unsent, input, child, wants, unsaid, heir, overdue>>

\* wait_with_output reads the output to its end, which comes when nobody can
\* write to it any more, and takes the exit status.
Collect ==
    /\ pc = "collect"
    /\ \/ /\ output > 0
          /\ output' = output - 1
          /\ collected' = collected + 1
          /\ UNCHANGED <<pc, result>>
       \/ output = 0 /\ ~Connected /\ Answer /\ UNCHANGED <<output, collected>>
    /\ UNCHANGED <<call, unsent, input, child, wants, unsaid, heir, overdue>>

Caller == Write \/ Poll \/ GiveUp \/ Collect
Child == Read \/ Emit \/ Exit

Next == Caller \/ Child \/ Hang \/ Elapse

\* The caller, the clock and a child that does not hang go on.
Fairness == WF_vars(Caller) /\ WF_vars(Elapse) /\ WF_vars(Child)

Spec == Init /\ [][Next]_vars /\ Fairness

-----------------------------------------------------------------------------
(* Properties.                                                             *)

\* A call that succeeds returns everything the child printed, also what was
\* still in the pipe when the child exited.
OkIsComplete == result = "ok" => collected = call.reply

\* No child runs on behind a call that is over.
NoneLeftBehind == pc = "done" => ~Alive

Fits == call.request <= Capacity

\* docs/cli.md: "runtime commands kill and report connector processes that
\* exceed that budget".  Where the request fits into the pipe and the child
\* leaves no process behind, every call with a timeout ends, whatever the
\* child does with its pipes.
TimedCallsReturn == (call.timed /\ Fits /\ ~call.forks) => <>(pc = "done")

\* A child that goes on is answered without a timeout, however much it prints
\* and before whatever it reads; with one, if what it prints fits into the pipe
\* and the timeout does not pass.
AnswerArrives ==
    (~call.hangs /\ ~call.fails /\ ~call.forks /\ Fits
        /\ (call.timed => call.reply <= Capacity))
    => <>(result = "ok" \/ overdue)

\* Whether the child answers in time, just too late, or never: its output is
\* whole or not reported, and it does not run on.
ChildIsCollected == OkIsComplete /\ NoneLeftBehind

\* Every call of a child that behaves, or that has a timeout, comes back.
CallsReturn == TimedCallsReturn /\ AnswerArrives
=============================================================================
