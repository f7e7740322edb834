-------------------------- MODULE PodmanRunnerProofs --------------------------
(***************************************************************************)
(* Proofs about PodmanRunner for every set of requests, limit, deadline    *)
(* and pipe size: what the server says of a target is what podman said     *)
(* (AnswerIsPodmans), and a complete output is not overtaken by the        *)
(* deadline (NotOvertaken).                                                *)
(*                                                                         *)
(* The first needs to know that what an answer was made of cannot change   *)
(* afterwards: podman was waited for and lets go of its pipes before its   *)
(* output is looked at (Settled), and is not sent a signal while its       *)
(* request runs (Undisturbed).  That the processes that never answer do    *)
(* not keep the server busy is liveness, and left to TLC.                  *)
(***************************************************************************)
EXTENDS PodmanRunner, TLAPS

-----------------------------------------------------------------------------
(***************************************************************************)
(* The inductive invariant.                                                *)
(***************************************************************************)

\* The shape of the state.
TypeOK ==
    /\ request \in Requests
    /\ pc \in {"received", "running", "done", "gone"}
    /\ child \in {"none", "running", "zombie", "reaped"}
    /\ signalled \in BOOLEAN /\ held \in BOOLEAN
    /\ (child \in {"zombie", "reaped"}) => (report \in Reports)
    /\ written \in [Streams -> Nat] /\ captured \in [Streams -> Nat]
    /\ elapsed \in Nat

\* Before its request runs there is no podman; while it runs, podman is left alone, and there
\* is no answer yet.
Undisturbed ==
    /\ (pc = "received") => (child = "none")
    /\ (pc \in {"received", "running"}) => (answer = None /\ ~signalled)

\* What an answer says of the target.
Says(a) == a.ok \/ a.is \in {"container_not_found", "pod_not_found"}

\* An answer about the target was made of a complete output, which nothing can add to.
Settled ==
    (answer # None /\ Says(answer)) =>
        /\ pc = "done" /\ Complete /\ ~signalled
        /\ answer = Outcome(report)

IInv == TypeOK /\ Undisturbed /\ Settled

-----------------------------------------------------------------------------
\* The error of a command that failed is one of its own.
LEMMA RefusalFacts ==
  ASSUME TypeOK, NEW r
  PROVE  /\ ~Refusal(r).ok
         /\ (Refusal(r).is \in {"container_not_found", "pod_not_found"}) =>
               (/\ "no such" \in r.complaints
                /\ (Refusal(r).is = "pod_not_found") <=> (request.tool = "pod"))
         /\ Refusal(r).is # "podman_timeout"
  <1>1. request.tool \in {"container", "pod"}
    BY RequestsAssumption DEF TypeOK
  <1> QED
    BY <1>1 DEF Refusal, Error, NotFoundCode

\* What the output of a command is turned into, case by case.
LEMMA OutcomeFacts ==
  ASSUME TypeOK, report \in Reports
  PROVE  /\ Outcome(report).ok =>
               /\ report.success /\ report.document \in {"object", "list"}
               /\ \A s \in Streams : captured[s] <= Limit
         /\ (Outcome(report).is \in {"container_not_found", "pod_not_found"}) =>
               /\ ~report.success /\ "no such" \in report.complaints
               /\ (Outcome(report).is = "pod_not_found") <=> (request.tool = "pod")
         /\ Outcome(report) # Error("podman_timeout")
  <1>1. CASE \E s \in Streams : captured[s] > Limit
    <2>1. Outcome(report) = Error("podman_output_too_large")
      BY <1>1 DEF Outcome
    <2> QED
      BY <2>1 DEF Error
  <1>2. CASE ~(\E s \in Streams : captured[s] > Limit) /\ ~report.success
    <2>1. Outcome(report) = Refusal(report)
      BY <1>2 DEF Outcome
    <2>2. Error("podman_timeout").is = "podman_timeout"
      BY DEF Error
    <2> QED
      BY <1>2, <2>1, <2>2, RefusalFacts
  <1>3. CASE ~(\E s \in Streams : captured[s] > Limit) /\ report.success
    <2>1. \A s \in Streams : captured[s] <= Limit
      BY <1>3, BoundsAssumption DEF TypeOK
    <2>2. CASE FirstObject(report.document)
      <3>1. Outcome(report) = Ok(report.document)
        BY <1>3, <2>2 DEF Outcome
      <3> QED
        BY <1>3, <2>1, <2>2, <3>1 DEF FirstObject, Ok, Error
    <2>3. CASE ~FirstObject(report.document)
      <3>1. Outcome(report) = Error("podman_invalid_response")
        BY <1>3, <2>3 DEF Outcome
      <3> QED
        BY <3>1 DEF Error
    <2> QED
      BY <2>2, <2>3
  <1> QED
    BY <1>1, <1>2, <1>3

-----------------------------------------------------------------------------
\* A request that was received has no process yet.
LEMMA InitInvariant == Init => IInv
  <1> SUFFICES ASSUME Init PROVE IInv
    OBVIOUS
  <1>1. TypeOK
    BY DEF Init, TypeOK
  <1>2. Undisturbed /\ Settled
    BY DEF Init, Undisturbed, Settled
  <1> QED
    BY <1>1, <1>2 DEF IInv

\* Every step keeps the shape: what a process reported is a report.
LEMMA NextTyped == TypeOK /\ [Next]_vars => TypeOK'
  <1> SUFFICES ASSUME TypeOK, [Next]_vars PROVE TypeOK'
    OBVIOUS
  <1>1. CASE Refuse \/ SpawnFails
    BY <1>1 DEF TypeOK, Refuse, SpawnFails, Answered, podman
  <1>2. CASE Spawn
    BY <1>2 DEF TypeOK, Spawn, podman
  <1>3. ASSUME NEW s \in Streams, Write(s) \/ Capture(s) PROVE TypeOK'
    BY <1>3 DEF TypeOK, Write, Capture, podman
  <1>4. CASE Fork \/ Release
    BY <1>4 DEF TypeOK, Fork, Release
  <1>5. CASE Exit
    BY <1>5 DEF TypeOK, Exit
  <1>6. CASE Die
    BY <1>6 DEF TypeOK, Die, Reports, Documents
  <1>7. CASE Reap
    BY <1>7 DEF TypeOK, Reap, podman
  <1>8. CASE Finish
    BY <1>8 DEF TypeOK, Finish, Answered, podman
  <1>9. CASE TimeOut \/ ProviderFails \/ HangUp
    BY <1>9 DEF TypeOK, TimeOut, ProviderFails, HangUp, Abandon, Answered, podman
  <1>10. CASE Tick
    BY <1>10 DEF TypeOK, Tick, podman
  <1>11. CASE UNCHANGED vars
    BY <1>11 DEF TypeOK, vars
  <1> QED
    BY <1>1, <1>2, <1>3, <1>4, <1>5, <1>6, <1>7, <1>8, <1>9, <1>10, <1>11 DEF Next, Rest

\* Once podman is through, its output and its report stay what they are.
LEMMA CompleteStays ==
  ASSUME TypeOK, Undisturbed, Complete, [Next]_vars
  PROVE  /\ Complete' /\ UNCHANGED << request, report, captured, written >>
         /\ (pc # "running") => UNCHANGED signalled
  <1>1. child = "reaped" /\ ~held /\ captured = written
    BY DEF Complete
  <1>2. ASSUME NEW s \in Streams PROVE ~Capture(s) /\ ~Write(s)
    BY <1>1 DEF Capture, Write, TypeOK
  <1>3. ~(Fork \/ Release \/ Exit \/ Die \/ Reap)
    BY <1>1 DEF Fork, Release, Exit, Die, Reap
  <1>4. /\ UNCHANGED << request, child, held, report, captured, written >>
        /\ (pc # "running") => UNCHANGED signalled
    <2>1. CASE Refuse \/ SpawnFails \/ Finish
      BY <2>1 DEF Refuse, SpawnFails, Finish, podman
    <2>2. CASE Spawn
      BY <2>2, <1>1 DEF Spawn, Undisturbed
    <2>3. CASE TimeOut \/ ProviderFails \/ HangUp
      BY <2>3 DEF TimeOut, ProviderFails, HangUp, podman
    <2>4. CASE Tick \/ UNCHANGED vars
      BY <2>4 DEF Tick, podman, vars
    <2> QED
      BY <1>2, <1>3, <2>1, <2>2, <2>3, <2>4 DEF Next, Rest
  <1> QED
    BY <1>1, <1>4 DEF Complete

\* Every step keeps the inductive invariant.
LEMMA NextInvariant == IInv /\ [Next]_vars => IInv'
  <1> SUFFICES ASSUME IInv, [Next]_vars PROVE IInv'
    OBVIOUS
  <1>1. TypeOK /\ Undisturbed /\ Settled
    BY DEF IInv
  <1>2. TypeOK'
    BY <1>1, NextTyped
  <1>3. Undisturbed'
    <2>1. ASSUME NEW s \in Streams, Write(s) \/ Capture(s) PROVE Undisturbed'
      BY <1>1, <2>1 DEF Undisturbed, Write, Capture
    <2>2. CASE Refuse \/ Spawn \/ SpawnFails \/ Finish
      BY <1>1, <2>2 DEF Undisturbed, Refuse, Spawn, SpawnFails, Finish, Answered
    <2>3. CASE Fork \/ Release \/ Exit \/ Die \/ Reap
      BY <1>1, <2>3 DEF Undisturbed, Fork, Release, Exit, Die, Reap
    <2>4. CASE TimeOut \/ ProviderFails \/ HangUp
      BY <1>1, <2>4 DEF Undisturbed, TimeOut, ProviderFails, HangUp, Answered
    <2>5. CASE Tick \/ UNCHANGED vars
      BY <1>1, <2>5 DEF Undisturbed, Tick, vars
    <2> QED
      BY <2>1, <2>2, <2>3, <2>4, <2>5 DEF Next, Rest
  <1>4. Settled'
    <2>1. CASE Refuse \/ SpawnFails
      <3>1. ~Says(answer')
        <4>1. answer'.ok = FALSE
          BY <2>1 DEF Refuse, SpawnFails, Answered, Error
        <4>2. answer'.is \in {"invalid_params", "invalid_container", "invalid_pod",
                              "podman_unavailable", "internal"}
          BY <2>1 DEF Refuse, SpawnFails, Answered, Error, InvalidCode
        <4> QED
          BY <4>1, <4>2 DEF Says
      <3> QED
        BY <3>1 DEF Settled, Says
    <2>2. CASE Finish
      <3>1. Complete /\ ~signalled /\ answer' = Outcome(report) /\ pc' = "done"
        BY <1>1, <2>2 DEF Finish, Undisturbed, Answered
      <3>2. Complete' /\ UNCHANGED << request, report, captured, signalled >>
        BY <1>1, <2>2, <3>1, CompleteStays DEF Finish
      <3>3. Outcome(report)' = Outcome(report)
        BY <3>2 DEF Outcome, Refusal
      <3> QED
        BY <3>1, <3>2, <3>3 DEF Settled
    <2>3. CASE TimeOut \/ ProviderFails
      <3>1. answer'.ok = FALSE /\ answer'.is \in {"podman_timeout", "internal"}
        BY <2>3 DEF TimeOut, ProviderFails, Answered, Error
      <3> QED
        BY <3>1 DEF Settled, Says
    <2>4. CASE UNCHANGED answer /\ pc \in {"received", "running"}
      BY <1>1, <2>4 DEF Settled, Undisturbed
    <2>5. CASE UNCHANGED << answer, pc >> /\ pc \in {"done", "gone"}
      <3>1. SUFFICES ASSUME answer # None, Says(answer)
                     PROVE  /\ pc = "done" /\ Complete' /\ ~signalled'
                            /\ answer = Outcome(report)'
        BY <2>5 DEF Settled, Says
      <3>2. pc = "done" /\ Complete /\ ~signalled /\ answer = Outcome(report)
        BY <1>1, <3>1 DEF Settled
      <3>3. Complete' /\ UNCHANGED << request, report, captured, signalled >>
        BY <1>1, <3>2, CompleteStays
      <3>4. Outcome(report)' = Outcome(report)
        BY <3>3 DEF Outcome, Refusal
      <3> QED
        BY <3>2, <3>3, <3>4
    <2>6. \/ Refuse \/ SpawnFails \/ Finish \/ TimeOut \/ ProviderFails
          \/ UNCHANGED answer /\ pc \in {"received", "running"}
          \/ UNCHANGED << answer, pc >> /\ pc \in {"done", "gone"}
      <3>1. pc \in {"received", "running", "done", "gone"}
        BY <1>1 DEF TypeOK
      <3>2. ASSUME NEW s \in Streams, Write(s) \/ Capture(s) PROVE UNCHANGED << answer, pc >>
        BY <3>2 DEF Write, Capture
      <3>3. CASE Fork \/ Release \/ Exit \/ Die \/ Reap
        BY <3>1, <3>3 DEF Fork, Release, Exit, Die, Reap
      <3>4. CASE Spawn \/ HangUp
        BY <3>4 DEF Spawn, HangUp
      <3>5. CASE Tick \/ UNCHANGED vars
        BY <3>1, <3>5 DEF Tick, vars
      <3> QED
        BY <3>1, <3>2, <3>3, <3>4, <3>5 DEF Next, Rest
    <2> QED
      BY <2>1, <2>2, <2>3, <2>4, <2>5, <2>6
  <1> QED
    BY <1>2, <1>3, <1>4 DEF IInv

\* The inductive invariant holds of every behaviour of the runner.
LEMMA Invariance == Spec => []IInv
  BY InitInvariant, NextInvariant, PTL DEF Spec

\* Whatever the server says of a target, a status or that there is none, podman said: it exited
\* by itself, every chunk it wrote was captured, and the code is the one for the target's kind.
THEOREM AnswersArePodmans == Spec => []AnswerIsPodmans
  <1>1. IInv => AnswerIsPodmans
    <2> SUFFICES ASSUME IInv, answer # None PROVE AnswerIsPodmans
      BY DEF AnswerIsPodmans, StatusIsWhole, NotFoundIsPodmans
    <2>1. CASE Says(answer)
      <3>1. /\ Complete /\ ~signalled /\ answer = Outcome(report) /\ report \in Reports
            /\ TypeOK
        BY <2>1 DEF IInv, Settled, TypeOK, Complete
      <3>2. StatusIsWhole
        BY <3>1, OutcomeFacts DEF StatusIsWhole, Complete
      <3>3. NotFoundIsPodmans
        BY <3>1, OutcomeFacts DEF NotFoundIsPodmans
      <3> QED
        BY <3>2, <3>3 DEF AnswerIsPodmans
    <2>2. CASE ~Says(answer)
      BY <2>2 DEF Says, AnswerIsPodmans, StatusIsWhole, NotFoundIsPodmans
    <2> QED
      BY <2>1, <2>2
  <1> QED
    BY <1>1, Invariance, PTL

-----------------------------------------------------------------------------
\* A request whose command is through is answered with its output or was given up by its
\* caller, but has not timed out.
Through ==
    /\ pc \in {"running", "done", "gone"}
    /\ (pc = "running") => Complete
    /\ answer # Error("podman_timeout")

\* A request whose command is through stays so.
LEMMA ThroughStays == IInv /\ Through /\ [Next]_vars => Through'
  <1> SUFFICES ASSUME IInv, Through, [Next]_vars PROVE Through'
    OBVIOUS
  <1>1. TypeOK /\ Undisturbed
    BY DEF IInv
  <1>2. CASE pc = "running"
    <2>1. Complete /\ Complete'
      BY <1>1, <1>2, CompleteStays DEF Through
    <2>2. CASE Finish
      <3>1. Outcome(report) # Error("podman_timeout")
        BY <1>1, <2>1, OutcomeFacts DEF Complete, TypeOK
      <3> QED
        BY <2>2, <3>1 DEF Finish, Through, Answered
    <2>3. ~(Refuse \/ Spawn \/ SpawnFails \/ TimeOut \/ ProviderFails)
      BY <1>2, <2>1 DEF Refuse, Spawn, SpawnFails, TimeOut, ProviderFails, Expired
    <2>4. CASE HangUp
      BY <2>4 DEF HangUp, Through
    <2>5. ASSUME NEW s \in Streams, Write(s) \/ Capture(s) PROVE UNCHANGED << answer, pc >>
      BY <2>5 DEF Write, Capture
    <2>6. CASE Fork \/ Release \/ Exit \/ Die \/ Reap
      <3>1. UNCHANGED << answer, pc >>
        BY <2>6 DEF Fork, Release, Exit, Die, Reap
      <3> QED
        BY <2>1, <3>1 DEF Through
    <2>7. CASE Tick \/ UNCHANGED vars
      <3>1. UNCHANGED << answer, pc >>
        BY <2>7 DEF Tick, vars
      <3> QED
        BY <2>1, <3>1 DEF Through
    <2>8. UNCHANGED << answer, pc >> => Through'
      BY <2>1 DEF Through
    <2> QED
      BY <2>2, <2>3, <2>4, <2>5, <2>6, <2>7, <2>8 DEF Next, Rest
  <1>3. CASE pc \in {"done", "gone"}
    <2>1. UNCHANGED << answer, pc >>
      <3>1. ~(\/ Refuse \/ Spawn \/ SpawnFails \/ Finish
              \/ TimeOut \/ ProviderFails \/ HangUp \/ Tick)
        BY <1>3 DEF Refuse, Spawn, SpawnFails, Finish, TimeOut, ProviderFails, HangUp, Tick
      <3>2. ASSUME NEW s \in Streams, Write(s) \/ Capture(s) PROVE UNCHANGED << answer, pc >>
        BY <3>2 DEF Write, Capture
      <3>3. CASE Fork \/ Release \/ Exit \/ Die \/ Reap
        BY <3>3 DEF Fork, Release, Exit, Die, Reap
      <3>4. CASE UNCHANGED vars
        BY <3>4 DEF vars
      <3> QED
        BY <3>1, <3>2, <3>3, <3>4 DEF Next, Rest
    <2> QED
      BY <1>3, <2>1 DEF Through
  <1> QED
    BY <1>2, <1>3 DEF Through

\* Once podman is through, the timer no longer matters: a complete output is not turned into
\* podman_timeout by a deadline that passes before the server gets to look.
THEOREM OutputWins == Spec => NotOvertaken
  <1>1. IInv /\ Complete /\ pc = "running" => Through
    BY NoneAssumption DEF IInv, Undisturbed, Through
  <1>2. Through => answer # Error("podman_timeout")
    BY DEF Through
  <1> QED
    BY <1>1, <1>2, Invariance, ThroughStays, PTL DEF Spec, NotOvertaken

=============================================================================
