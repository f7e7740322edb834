---------------------------- MODULE PodmanRunner ----------------------------
(***************************************************************************)
(* get_container_status and get_pod_status (src/src/podman.rs and          *)
(* src/src/domain/tools/podman.rs): one request, the podman process it     *)
(* spawns, the two pipes the server captures, and the timer.  Podman may   *)
(* write, hang, leave a helper behind that keeps the pipes open, exit or   *)
(* be killed from outside, whenever it likes.                              *)
(*                                                                         *)
(* Output is counted in chunks and time in ticks.  A document is what its  *)
(* JSON is ("object", "list" for an array that begins with an object,      *)
(* "other", or "garbage" when it does not parse); of the standard error    *)
(* only the phrases the code looks for are kept, one for each error.       *)
(***************************************************************************)
EXTENDS Integers

CONSTANTS
    None,          \* Option::None
    Requests,      \* the calls: [tool, id], id None when the argument is missing
    MaxIdentifier, \* the longest identifier: 256 bytes
    Limit,         \* MAX_OUTPUT_BYTES, in chunks
    Deadline,      \* COMMAND_TIMEOUT, in ticks
    PipeSize,      \* what a pipe holds, in chunks
    MaxWritten     \* bound: chunks podman writes to one stream

\* The two tools, and numbers that count.
ASSUME RequestsAssumption == \A r \in Requests : r.tool \in {"container", "pod"}

ASSUME BoundsAssumption ==
    /\ MaxIdentifier \in Nat /\ Limit \in Nat /\ Deadline \in Nat
    /\ PipeSize \in Nat /\ MaxWritten \in Nat

Streams == {"stdout", "stderr"}
Documents == {"object", "list", "other", "garbage"}
Phrases == {"no such", "cannot connect"}

VARIABLES
    request,   \* the call
    pc,        \* "received", "running", "done", or "gone" when the caller hung up
    answer,    \* the response, None until there is one
    child,     \* the process: "none", "running", "zombie" or "reaped"
    signalled, \* a SIGKILL is on its way to it
    report,    \* how it exited, None until it has
    held,      \* another process holds the write ends of the pipes
    written,   \* chunks written to each stream
    captured,  \* chunks the server has in memory of each stream
    elapsed    \* ticks since the process was spawned

podman == << report, held, written >>
vars == << request, pc, answer, child, signalled, report, held, written, captured, elapsed >>

Ok(document) == [ok |-> TRUE, is |-> document]
Error(code) == [ok |-> FALSE, is |-> code]

\* No response is not one of the responses.
ASSUME NoneAssumption == None # Error("podman_timeout")

Reports == [success : BOOLEAN, document : Documents, complaints : SUBSET Phrases]

Init ==
    /\ request \in Requests
    /\ pc = "received"
    /\ answer = None
    /\ child = "none" /\ signalled = FALSE /\ report = None /\ held = FALSE
    /\ written = [s \in Streams |-> 0] /\ captured = [s \in Streams |-> 0]
    /\ elapsed = 0

-----------------------------------------------------------------------------
(***************************************************************************)
(* The podman process.                                                     *)
(***************************************************************************)

\* A full pipe blocks the writer.
Write(s) ==
    /\ child = "running" /\ pc = "running"
    /\ written[s] < MaxWritten
    /\ written[s] - captured[s] < PipeSize
    /\ written' = [written EXCEPT ![s] = @ + 1]
    /\ UNCHANGED << request, pc, answer, child, signalled, report, held, captured, elapsed >>

\* A process podman starts inherits the pipes, and may outlive it.
Fork ==
    /\ child = "running" /\ ~held
    /\ held' = TRUE
    /\ UNCHANGED << request, pc, answer, child, signalled, report, written, captured, elapsed >>

Release ==
    /\ held
    /\ held' = FALSE
    /\ UNCHANGED << request, pc, answer, child, signalled, report, written, captured, elapsed >>

\* Nothing printed is no document, and no phrase.
Exit ==
    /\ child = "running"
    /\ child' = "zombie"
    /\ \E r \in Reports :
          /\ (written["stdout"] = 0) => (r.document = "garbage")
          /\ (written["stderr"] = 0) => (r.complaints = {})
          /\ report' = r
    /\ UNCHANGED << request, pc, answer, signalled, held, written, captured, elapsed >>

\* The kernel delivers the signal.
Die ==
    /\ child = "running" /\ signalled
    /\ child' = "zombie"
    /\ report' = [success |-> FALSE, document |-> "garbage", complaints |-> {}]
    /\ UNCHANGED << request, pc, answer, signalled, held, written, captured, elapsed >>

-----------------------------------------------------------------------------
(***************************************************************************)
(* The server.                                                             *)
(***************************************************************************)

InvalidCode(tool) == IF tool = "container" THEN "invalid_container" ELSE "invalid_pod"

NotFoundCode(tool) ==
    IF tool = "container" THEN "container_not_found" ELSE "pod_not_found"

Answered(reply) == pc' = "done" /\ answer' = reply

\* validate_identifier: 1 to 256 bytes, all from the accepted set.
Valid(id) == id.length \in 1 .. MaxIdentifier /\ id.clean

\* Arguments that do not decode, and identifiers that are refused, spawn nothing.
Refuse ==
    /\ pc = "received"
    /\ \/ request.id = None /\ Answered(Error("invalid_params"))
       \/ /\ request.id # None
          /\ ~Valid(request.id)
          /\ Answered(Error(InvalidCode(request.tool)))
    /\ UNCHANGED << request, child, signalled, podman, captured, elapsed >>

Spawn ==
    /\ pc = "received" /\ request.id # None /\ Valid(request.id)
    /\ pc' = "running" /\ child' = "running"
    /\ UNCHANGED << request, answer, signalled, podman, captured, elapsed >>

\* There is no podman, or the process cannot be created.
SpawnFails ==
    /\ pc = "received" /\ request.id # None /\ Valid(request.id)
    /\ \/ Answered(Error("podman_unavailable"))
       \/ Answered(Error("internal"))
    /\ UNCHANGED << request, child, signalled, podman, captured, elapsed >>

\* read_to_end, on both pipes at once: whatever there is, is kept.
Capture(s) ==
    /\ pc = "running"
    /\ captured[s] < written[s]
    /\ captured' = [captured EXCEPT ![s] = @ + 1]
    /\ UNCHANGED << request, pc, answer, child, signalled, podman, elapsed >>

\* wait() collects the exit status; of a process whose request is over, tokio's orphan
\* queue does.
Reap ==
    /\ child = "zombie"
    /\ child' = "reaped"
    /\ UNCHANGED << request, pc, answer, signalled, podman, captured, elapsed >>

\* Mutant of Complete: the pipes are not waited for.
ExitSeen == child = "reaped"

\* Command::output() is ready: the process was waited for, and both pipes were read to
\* their end, which comes when no process holds them any more.
Complete ==
    /\ child = "reaped"
    /\ ~held
    /\ captured = written

\* first_object: an array stands for its first element.
FirstObject(document) == document \in {"object", "list"}

Refusal(r) ==
    IF "no such" \in r.complaints THEN Error(NotFoundCode(request.tool))
    ELSE IF "cannot connect" \in r.complaints THEN Error("podman_unavailable")
    ELSE Error("podman_provider_error")

\* What run_podman and compact_container or compact_pod make of the output.
Outcome(r) ==
    IF \E s \in Streams : captured[s] > Limit THEN Error("podman_output_too_large")
    ELSE IF ~r.success THEN Refusal(r)
    ELSE IF FirstObject(r.document) THEN Ok(r.document)
    ELSE Error("podman_invalid_response")

Finish ==
    /\ pc = "running" /\ Complete
    /\ Answered(Outcome(report))
    /\ UNCHANGED << request, child, signalled, podman, captured, elapsed >>

\* Mutant of Abandon: the child is dropped without kill_on_drop.
Detach == UNCHANGED signalled

\* kill_on_drop: dropping the future kills a child that was not waited for.
Abandon == signalled' = (signalled \/ (child = "running"))

\* Mutant of Expired: the deadline is looked at before the output.
ExpiredFirst == elapsed >= Deadline

\* Mutant of Expired: the command has no timeout.
ExpiredNever == FALSE

\* tokio::time::timeout polls the command before the timer.
Expired == elapsed >= Deadline /\ ~Complete

TimeOut ==
    /\ pc = "running" /\ Expired
    /\ Answered(Error("podman_timeout"))
    /\ Abandon
    /\ UNCHANGED << request, child, podman, captured, elapsed >>

\* Reading a pipe or waiting for the process fails.
ProviderFails ==
    /\ pc = "running" /\ ~Complete
    /\ Answered(Error("internal"))
    /\ Abandon
    /\ UNCHANGED << request, child, podman, captured, elapsed >>

\* The caller is gone: hyper drops the handler, and with it the command.
HangUp ==
    /\ pc = "running"
    /\ pc' = "gone"
    /\ Abandon
    /\ UNCHANGED << request, answer, child, podman, captured, elapsed >>

\* Time passes; past the deadline no more is told apart.
Tick ==
    /\ pc = "running"
    /\ elapsed < Deadline
    /\ elapsed' = elapsed + 1
    /\ UNCHANGED << request, pc, answer, child, signalled, podman, captured >>

Rest ==
    /\ pc \in {"done", "gone"} /\ child \in {"none", "reaped"} /\ ~held
    /\ UNCHANGED vars

Next ==
    \/ Refuse \/ Spawn \/ SpawnFails
    \/ \E s \in Streams : Write(s) \/ Capture(s)
    \/ Fork \/ Release \/ Exit \/ Die \/ Reap
    \/ Finish \/ TimeOut \/ ProviderFails \/ HangUp
    \/ Tick \/ Rest

Spec == Init /\ [][Next]_vars

\* Nothing is assumed of podman: only of the server, the timer and the kernel.
Fairness ==
    /\ WF_vars(Refuse \/ Spawn \/ SpawnFails)
    /\ WF_vars(Finish) /\ WF_vars(TimeOut) /\ WF_vars(Tick)
    /\ WF_vars(Die) /\ WF_vars(Reap)

FairSpec == Spec /\ Fairness

-----------------------------------------------------------------------------
(***************************************************************************)
(* Properties.                                                             *)
(***************************************************************************)

\* A status is what podman said: it exited by itself with success, neither killed nor
\* timed out, and every chunk it wrote was captured and within the limit.  A partial
\* inspection is never passed off as a whole one (run_podman).
StatusIsWhole ==
    (answer # None /\ answer.ok) =>
        /\ report.success /\ report.document \in {"object", "list"}
        /\ ~signalled /\ ~held
        /\ \A s \in Streams : captured[s] = written[s] /\ written[s] <= Limit

\* "Not found" names the kind of target asked for, and only podman says so: it failed,
\* and printed that; never a podman that succeeded, timed out or was killed.
NotFoundIsPodmans ==
    (answer # None /\ answer.is \in {"container_not_found", "pod_not_found"}) =>
        /\ (answer.is = "pod_not_found") <=> (request.tool = "pod")
        /\ ~report.success /\ "no such" \in report.complaints

\* Whatever the server says of a target, a status or that there is none, podman said.
AnswerIsPodmans == StatusIsWhole /\ NotFoundIsPodmans

\* Once podman is through, the timer no longer matters: a complete output is not turned
\* into podman_timeout by a deadline that passes before the server gets to look.
NotOvertaken ==
    [](Complete /\ pc = "running" => [](answer # Error("podman_timeout")))

\* Every call is answered, or its caller is gone, whatever podman does: it may hang, fill
\* the pipes, or leave them open in another process.
AlwaysAnswered == <>(pc \in {"done", "gone"})

\* No podman outlives its request for good, and none is left a zombie, whether the request
\* was answered, timed out, failed or was dropped by its caller.
NoChildLeft == [](child # "none" => <>(child = "reaped"))

=============================================================================
