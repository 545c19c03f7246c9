------------------------------ MODULE Lifecycle ------------------------------
(***************************************************************************)
(* lifecycle.Run: starts every application in an errgroup, waits for a     *)
(* signal or a failure, then shuts the applications down within a timeout. *)
(* The goroutines are the Run and the Shutdown of each application, the    *)
(* two forwarders behind runDone and shutdownDone, and Run itself with its *)
(* two selects.  A select with several ready cases takes any of them.      *)
(***************************************************************************)
EXTENDS Naturals, Sequences

CONSTANTS
    Apps,         \* the applications passed to Run
    ReportCancel  \* those whose Run returns ctx.Err() once it is cancelled

(* Run refuses an empty list of applications; run() of main passes one.    *)
ASSUME LifecycleConstants == Apps # {} /\ ReportCancel \subseteq Apps

VARIABLES
    app,        \* app[a]: the goroutine around a.Run
    appErr,     \* appErr[a]: what a.Run returned
    failures,   \* the buffered channel runFailures
    groupErr,   \* the first error the errgroup was given
    signalled,  \* signalCtx is done
    stopping,   \* stopping[a]: the goroutine around a.Shutdown
    expired,    \* shutdownCtx is past its deadline
    pc,         \* select: first select; drain: the loop; returned
    runCh,      \* runCh is not nil
    shutdownCh, \* shutdownCh is not nil
    runErr, shutdownErr,
    result      \* what Run returned

run     == <<app, appErr, failures, groupErr>>
main    == <<pc, runCh, shutdownCh, runErr, shutdownErr, result>>
vars    == <<app, appErr, failures, groupErr, signalled, stopping, expired,
             pc, runCh, shutdownCh, runErr, shutdownErr, result>>

Errors == {"nil", "canceled", "failed"}

Init ==
    /\ app = [a \in Apps |-> "running"]
    /\ appErr = [a \in Apps |-> "nil"]
    /\ failures = <<>>
    /\ groupErr = "nil"
    /\ signalled = FALSE
    /\ stopping = [a \in Apps |-> "unstarted"]
    /\ expired = FALSE
    /\ pc = "select"
    /\ runCh = FALSE
    /\ shutdownCh = FALSE
    /\ runErr = "nil"
    /\ shutdownErr = "nil"
    /\ result = "none"

-----------------------------------------------------------------------------
(* groupCtx ends with the signal or with the first error of the group.     *)
GroupCancelled == signalled \/ groupErr # "nil"

Signal ==
    /\ ~signalled
    /\ signalled' = TRUE
    /\ UNCHANGED <<run, stopping, expired, main>>

(* a.Run returns: nil, the context's error once it is cancelled, or an     *)
(* error of its own.  An error is published before the group learns of it. *)
AppReturns(a, err) ==
    /\ app[a] = "running"
    /\ err = "canceled" => GroupCancelled /\ a \in ReportCancel
    /\ appErr' = [appErr EXCEPT ![a] = err]
    /\ app' = [app EXCEPT ![a] = IF err = "nil" THEN "done" ELSE "published"]
    /\ failures' = IF err = "nil" THEN failures ELSE Append(failures, err)
    /\ UNCHANGED <<groupErr, signalled, stopping, expired, main>>

GroupLearns(a) ==
    /\ app[a] = "published"
    /\ app' = [app EXCEPT ![a] = "done"]
    /\ groupErr' = IF groupErr = "nil" THEN appErr[a] ELSE groupErr
    /\ UNCHANGED <<appErr, failures, signalled, stopping, expired, main>>

RunDone == \A a \in Apps : app[a] = "done"

-----------------------------------------------------------------------------
(* The shutdown timeout starts, and Shutdown of every application.         *)
BeginShutdown(wait) ==
    /\ pc' = "drain"
    /\ runCh' = wait
    /\ shutdownCh' = TRUE
    /\ stopping' = [a \in Apps |-> "running"]
    /\ UNCHANGED <<signalled, expired, shutdownErr, result, app, appErr, groupErr>>

(* Mutant: after a signal the running applications are not awaited.        *)
SignalDoesNotWait ==
    /\ pc = "select"
    /\ \/ RunDone /\ runErr' = groupErr /\ BeginShutdown(FALSE) /\ UNCHANGED failures
       \/ /\ failures # <<>>
          /\ runErr' = Head(failures) /\ failures' = Tail(failures)
          /\ BeginShutdown(TRUE)
       \/ signalled /\ BeginShutdown(FALSE) /\ UNCHANGED <<runErr, failures>>

(* The first select: the group is done, an application failed, or the      *)
(* signal arrived.                                                         *)
AwaitEnd ==
    /\ pc = "select"
    /\ \/ RunDone /\ runErr' = groupErr /\ BeginShutdown(FALSE) /\ UNCHANGED failures
       \/ /\ failures # <<>>
          /\ runErr' = Head(failures) /\ failures' = Tail(failures)
          /\ BeginShutdown(TRUE)
       \/ signalled /\ BeginShutdown(TRUE) /\ UNCHANGED <<runErr, failures>>

ShutdownReturns(a, ok) ==
    /\ stopping[a] = "running"
    /\ stopping' = [stopping EXCEPT ![a] = IF ok THEN "done" ELSE "failed"]
    /\ UNCHANGED <<run, signalled, expired, main>>

ShutdownDone == \A a \in Apps : stopping[a] \in {"done", "failed"}

DeadlinePasses ==
    /\ pc = "drain"
    /\ ~expired
    /\ expired' = TRUE
    /\ UNCHANGED <<run, signalled, stopping, main>>

(* Mutants: the result of the group is dropped; the timeout only bounds    *)
(* Shutdown; a cancellation is reported as a failure.                      *)
RunResultDropped ==
    /\ pc = "drain" /\ runCh /\ RunDone
    /\ runCh' = FALSE
    /\ UNCHANGED <<run, signalled, stopping, expired, pc, shutdownCh, runErr, shutdownErr, result>>
TimeoutBoundsShutdown ==
    /\ pc = "drain" /\ shutdownCh /\ expired
    /\ result' = "failed"
    /\ pc' = "returned"
    /\ UNCHANGED <<run, signalled, stopping, expired, runCh, shutdownCh, runErr, shutdownErr>>
CancelIsFailure ==
    /\ pc = "drain" /\ ~runCh /\ ~shutdownCh
    /\ result' = IF runErr # "nil" THEN "failed" ELSE shutdownErr
    /\ pc' = "returned"
    /\ UNCHANGED <<run, signalled, stopping, expired, runCh, shutdownCh, runErr, shutdownErr>>

(* The loop of selects.                                                    *)
TakeRun ==
    /\ pc = "drain" /\ runCh /\ RunDone
    /\ runErr' = groupErr
    /\ runCh' = FALSE
    /\ UNCHANGED <<run, signalled, stopping, expired, pc, shutdownCh, shutdownErr, result>>

TakeShutdown ==
    /\ pc = "drain" /\ shutdownCh /\ ShutdownDone
    /\ shutdownErr' = IF \E a \in Apps : stopping[a] = "failed" THEN "failed" ELSE "nil"
    /\ shutdownCh' = FALSE
    /\ UNCHANGED <<run, signalled, stopping, expired, pc, runCh, runErr, result>>

TimesOut ==
    /\ pc = "drain" /\ (runCh \/ shutdownCh) /\ expired
    /\ result' = "failed"
    /\ pc' = "returned"
    /\ UNCHANGED <<run, signalled, stopping, expired, runCh, shutdownCh, runErr, shutdownErr>>

(* finish(): a cancellation is a clean end.                                *)
Finish ==
    /\ pc = "drain" /\ ~runCh /\ ~shutdownCh
    /\ result' = IF runErr \notin {"nil", "canceled"} THEN runErr ELSE shutdownErr
    /\ pc' = "returned"
    /\ UNCHANGED <<run, signalled, stopping, expired, runCh, shutdownCh, runErr, shutdownErr>>

-----------------------------------------------------------------------------
Main == AwaitEnd \/ TakeRun \/ TakeShutdown \/ TimesOut \/ Finish

Next ==
    \/ Signal
    \/ \E a \in Apps : \/ \E err \in Errors : AppReturns(a, err)
                       \/ GroupLearns(a)
                       \/ \E ok \in BOOLEAN : ShutdownReturns(a, ok)
    \/ DeadlinePasses
    \/ Main

Spec == Init /\ [][Next]_vars

-----------------------------------------------------------------------------
(* Properties *)

(* Types; Run returns nil or a failure, never a bare cancellation.         *)
TypeOK ==
    /\ app \in [Apps -> {"running", "published", "done"}]
    /\ appErr \in [Apps -> Errors]
    /\ failures \in Seq(Errors \ {"nil"})
    /\ groupErr \in Errors
    /\ stopping \in [Apps -> {"unstarted", "running", "done", "failed"}]
    /\ {signalled, expired, runCh, shutdownCh} \subseteq BOOLEAN
    /\ pc \in {"select", "drain", "returned"}
    /\ {runErr, shutdownErr} \subseteq Errors
    /\ result \in {"none", "nil", "failed"}

(* A nil result means that every goroutine is gone: the drained batch of   *)
(* the queue source is acknowledged before the process exits with 0.       *)
NilMeansDrained ==
    result = "nil" => RunDone /\ \A a \in Apps : stopping[a] = "done"

(* The failure of an application is reported, also when it races a signal, *)
(* the shutdown or the failure of another one.  Only an application that   *)
(* returned its cancellation first hides it: the group keeps one error.    *)
FailureReported ==
    /\ pc = "returned" /\ groupErr # "canceled"
    /\ \E a \in Apps : app[a] = "done" /\ appErr[a] = "failed"
    => result = "failed"

(* A signal alone is a clean end: nil, and not the cancellation an         *)
(* application answers it with, unless something failed or took too long.  *)
SignalIsClean ==
    result \notin {"none", "nil"} =>
        \/ expired
        \/ \E a \in Apps : appErr[a] = "failed" \/ stopping[a] = "failed"

(* A signal or a failure ends Run within its timeout, even when no         *)
(* application ever returns.                                               *)
ShutdownBounded ==
    signalled \/ (\E a \in Apps : appErr[a] # "nil") ~> pc = "returned"

=============================================================================
