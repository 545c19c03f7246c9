---------------------------- MODULE ProcessProofs ----------------------------
(***************************************************************************)
(* Proofs about the process: lifecycle.Run for any set of applications and *)
(* the start-up that leads to it.                                          *)
(***************************************************************************)
EXTENDS Process, TLAPS

-----------------------------------------------------------------------------
(* The invariant of lifecycle.Run *)

SomeFailed == \E a \in Apps : appErr[a] = "failed"

(* The applications and their errgroup.  Every error comes from an         *)
(* application, and the group has one once a failing application is done.  *)
GroupInv ==
    /\ app \in [Apps -> {"running", "published", "done"}]
    /\ appErr \in [Apps -> Errors]
    /\ groupErr \in Errors
    /\ \A a \in Apps : /\ app[a] = "running" => appErr[a] = "nil"
                       /\ app[a] = "done" /\ appErr[a] # "nil" => groupErr # "nil"
    /\ groupErr = "failed" => SomeFailed

(* The buffered channel runFailures carries errors of applications only.   *)
ChannelInv ==
    /\ failures \in Seq(Errors \ {"nil"})
    /\ \A k \in 1 .. Len(failures) : failures[k] = "failed" => SomeFailed

(* The Shutdown goroutines start when the first select ends.               *)
StoppingInv ==
    /\ stopping \in [Apps -> {"unstarted", "running", "done", "failed"}]
    /\ pc = "select" => \A a \in Apps : stopping[a] = "unstarted"

(* What Run knows: a channel it no longer waits for has delivered the      *)
(* final result of the group, or of the Shutdown calls.                    *)
MainInv ==
    /\ pc \in {"select", "drain", "returned"}
    /\ runErr \in Errors /\ shutdownErr \in Errors
    /\ runErr = "failed" => SomeFailed
    /\ pc # "select" /\ ~runCh => RunDone /\ runErr = groupErr
    /\ pc # "select" /\ ~shutdownCh =>
         /\ ShutdownDone
         /\ shutdownErr = IF \E a \in Apps : stopping[a] = "failed" THEN "failed" ELSE "nil"

(* Run has a result exactly when it returned: the timeout's, or the one of *)
(* finish() once both channels are drained.                                *)
ResultInv ==
    /\ pc # "returned" => result = "none"
    /\ pc = "returned" =>
         \/ expired /\ result = "failed"
         \/ /\ ~runCh /\ ~shutdownCh
            /\ result = IF runErr \notin {"nil", "canceled"} THEN runErr ELSE shutdownErr

FlagsInv == signalled \in BOOLEAN /\ expired \in BOOLEAN /\ runCh \in BOOLEAN /\ shutdownCh \in BOOLEAN

RunInv == GroupInv /\ ChannelInv /\ StoppingInv /\ MainInv /\ ResultInv /\ FlagsInv

(* Run starts with every application running and nothing else.             *)
LEMMA InitRun == Init => RunInv
<1> SUFFICES ASSUME Init PROVE RunInv
    OBVIOUS
<1>1. GroupInv /\ StoppingInv /\ MainInv /\ ResultInv
    BY DEF Init, GroupInv, StoppingInv, MainInv, ResultInv, Errors
<1>2. ChannelInv
    BY DEF Init, ChannelInv
<1>3. FlagsInv
    BY DEF Init, FlagsInv
<1> QED
    BY <1>1, <1>2, <1>3 DEF RunInv

(* A signal only sets the signal.                                          *)
LEMMA SignalRun ==
    ASSUME RunInv, Signal
    PROVE  RunInv'
<1>1. /\ signalled' = TRUE
      /\ UNCHANGED <<app, appErr, failures, groupErr, stopping, expired, pc, runCh,
                     shutdownCh, runErr, shutdownErr, result>>
    BY DEF Signal, run, main
<1>2. FlagsInv'
    BY <1>1 DEF RunInv, FlagsInv
<1> QED
    BY <1>1, <1>2 DEF RunInv, GroupInv, ChannelInv, StoppingInv, MainInv, ResultInv,
                      SomeFailed, RunDone, ShutdownDone

(* An application returns: its error reaches the channel, not yet the      *)
(* group.                                                                  *)
LEMMA AppReturnsRun ==
    ASSUME RunInv, NEW a \in Apps, NEW err \in Errors, AppReturns(a, err)
    PROVE  RunInv'
<1>1. /\ app[a] = "running"
      /\ appErr' = [appErr EXCEPT ![a] = err]
      /\ app' = [app EXCEPT ![a] = IF err = "nil" THEN "done" ELSE "published"]
      /\ failures' = IF err = "nil" THEN failures ELSE Append(failures, err)
      /\ UNCHANGED <<groupErr, signalled, stopping, expired, pc, runCh, shutdownCh,
                     runErr, shutdownErr, result>>
    BY DEF AppReturns, main
<1>2. SomeFailed => SomeFailed'
    BY <1>1 DEF SomeFailed, RunInv, GroupInv
<1>3. GroupInv'
    BY <1>1, <1>2 DEF RunInv, GroupInv, Errors
<1>4. ChannelInv'
    <2>1. CASE err = "nil"
        BY <2>1, <1>1, <1>2 DEF RunInv, ChannelInv
    <2>2. CASE err # "nil"
        <3>1. failures' = Append(failures, err) /\ err \in Errors \ {"nil"}
            BY <2>2, <1>1
        <3>2. err = "failed" => SomeFailed'
            BY <1>1 DEF RunInv, GroupInv, SomeFailed
        <3>3. failures \in Seq(Errors \ {"nil"})
            BY DEF RunInv, ChannelInv
        <3>4. failures' \in Seq(Errors \ {"nil"})
            BY <3>1, <3>3
        <3>5. ASSUME NEW k \in 1 .. Len(failures'), failures'[k] = "failed"
              PROVE  SomeFailed'
            <4>1. CASE k = Len(failures) + 1
                BY <4>1, <3>1, <3>2, <3>3, <3>5
            <4>2. CASE k # Len(failures) + 1
                <5>1. k \in 1 .. Len(failures) /\ failures'[k] = failures[k]
                    BY <4>2, <3>1, <3>3
                <5> QED
                    BY <5>1, <3>5, <1>2 DEF RunInv, ChannelInv
            <4> QED
                BY <4>1, <4>2
        <3> QED
            BY <3>4, <3>5 DEF ChannelInv
    <2> QED
        BY <2>1, <2>2
<1>5. ~RunDone
    BY <1>1 DEF RunDone
<1>6. MainInv'
    BY <1>1, <1>2, <1>5 DEF RunInv, MainInv, ShutdownDone
<1>7. StoppingInv' /\ ResultInv' /\ FlagsInv'
    BY <1>1 DEF RunInv, StoppingInv, ResultInv, FlagsInv
<1> QED
    BY <1>3, <1>4, <1>6, <1>7 DEF RunInv

(* The group learns of an error it was not given yet.                      *)
LEMMA GroupLearnsRun ==
    ASSUME RunInv, NEW a \in Apps, GroupLearns(a)
    PROVE  RunInv'
<1>1. /\ app[a] = "published"
      /\ app' = [app EXCEPT ![a] = "done"]
      /\ groupErr' = IF groupErr = "nil" THEN appErr[a] ELSE groupErr
      /\ UNCHANGED <<appErr, failures, signalled, stopping, expired, pc, runCh, shutdownCh,
                     runErr, shutdownErr, result>>
    BY DEF GroupLearns, main
<1>2. SomeFailed' = SomeFailed
    BY <1>1 DEF SomeFailed
<1>3. GroupInv'
    BY <1>1, <1>2 DEF RunInv, GroupInv, Errors, SomeFailed
<1>4. ~RunDone
    BY <1>1 DEF RunDone
<1>5. MainInv'
    BY <1>1, <1>2, <1>4 DEF RunInv, MainInv, ShutdownDone
<1>6. ChannelInv' /\ StoppingInv' /\ ResultInv' /\ FlagsInv'
    BY <1>1, <1>2 DEF RunInv, ChannelInv, StoppingInv, ResultInv, FlagsInv
<1> QED
    BY <1>3, <1>5, <1>6 DEF RunInv

(* A Shutdown call returns; Run still waits for the others.                *)
LEMMA ShutdownReturnsRun ==
    ASSUME RunInv, NEW a \in Apps, NEW ok \in BOOLEAN, ShutdownReturns(a, ok)
    PROVE  RunInv'
<1>1. /\ stopping[a] = "running"
      /\ stopping' = [stopping EXCEPT ![a] = IF ok THEN "done" ELSE "failed"]
      /\ UNCHANGED <<app, appErr, failures, groupErr, signalled, expired, pc, runCh,
                     shutdownCh, runErr, shutdownErr, result>>
    BY DEF ShutdownReturns, run, main
<1>2. SomeFailed' = SomeFailed /\ RunDone' = RunDone /\ ~ShutdownDone
    BY <1>1 DEF SomeFailed, RunDone, ShutdownDone
<1>3. StoppingInv'
    BY <1>1 DEF RunInv, StoppingInv
<1>4. MainInv'
    BY <1>1, <1>2 DEF RunInv, MainInv
<1>5. GroupInv' /\ ChannelInv' /\ ResultInv' /\ FlagsInv'
    BY <1>1, <1>2 DEF RunInv, GroupInv, ChannelInv, ResultInv, FlagsInv
<1> QED
    BY <1>3, <1>4, <1>5 DEF RunInv

(* The deadline passes while Run still waits.                              *)
LEMMA DeadlineRun ==
    ASSUME RunInv, DeadlinePasses
    PROVE  RunInv'
<1>1. /\ pc = "drain" /\ expired' = TRUE
      /\ UNCHANGED <<app, appErr, failures, groupErr, signalled, stopping, pc, runCh,
                     shutdownCh, runErr, shutdownErr, result>>
    BY DEF DeadlinePasses, run, main
<1>2. FlagsInv'
    BY <1>1 DEF RunInv, FlagsInv
<1> QED
    BY <1>1, <1>2 DEF RunInv, GroupInv, ChannelInv, StoppingInv, MainInv, ResultInv,
                      SomeFailed, RunDone, ShutdownDone

(* The first select ends: the group's result is final, or still awaited.   *)
LEMMA AwaitEndRun ==
    ASSUME RunInv, AwaitEnd
    PROVE  RunInv'
<1> DEFINE Begun(wait) ==
        /\ pc' = "drain" /\ runCh' = wait /\ shutdownCh' = TRUE
        /\ stopping' = [a \in Apps |-> "running"]
        /\ UNCHANGED <<signalled, expired, shutdownErr, result, app, appErr, groupErr>>
<1>1. ASSUME NEW wait \in BOOLEAN, Begun(wait), pc = "select"
      PROVE  GroupInv' /\ StoppingInv' /\ ResultInv' /\ FlagsInv' /\ SomeFailed' = SomeFailed
                       /\ RunDone' = RunDone
    BY <1>1 DEF RunInv, GroupInv, StoppingInv, ResultInv, FlagsInv, SomeFailed, RunDone
<1>2. CASE RunDone /\ runErr' = groupErr /\ Begun(FALSE) /\ UNCHANGED failures
    <2>1. GroupInv' /\ StoppingInv' /\ ResultInv' /\ FlagsInv' /\ SomeFailed' = SomeFailed
                    /\ RunDone' = RunDone
        BY <1>1, <1>2 DEF AwaitEnd
    <2>2. MainInv'
        BY <1>2, <2>1 DEF RunInv, GroupInv, MainInv
    <2>3. ChannelInv'
        BY <1>2, <2>1 DEF RunInv, ChannelInv
    <2> QED
        BY <2>1, <2>2, <2>3 DEF RunInv
<1>3. CASE failures # <<>> /\ runErr' = Head(failures) /\ failures' = Tail(failures) /\ Begun(TRUE)
    <2>1. GroupInv' /\ StoppingInv' /\ ResultInv' /\ FlagsInv' /\ SomeFailed' = SomeFailed
        BY <1>1, <1>3 DEF AwaitEnd
    <2>2. /\ failures \in Seq(Errors \ {"nil"}) /\ failures # <<>>
          /\ 1 \in 1 .. Len(failures) /\ Head(failures) = failures[1]
          /\ Head(failures) \in Errors \ {"nil"}
        BY <1>3 DEF RunInv, ChannelInv
    <2>3. MainInv'
        BY <1>3, <2>1, <2>2 DEF RunInv, MainInv, ChannelInv
    <2>4. Tail(failures) \in Seq(Errors \ {"nil"})
        BY <2>2
    <2>5. \A k \in 1 .. Len(Tail(failures)) :
              k + 1 \in 1 .. Len(failures) /\ Tail(failures)[k] = failures[k + 1]
        BY <2>2
    <2>6. ChannelInv'
        BY <1>3, <2>1, <2>4, <2>5 DEF RunInv, ChannelInv
    <2> QED
        BY <2>1, <2>3, <2>6 DEF RunInv
<1>4. CASE signalled /\ Begun(TRUE) /\ UNCHANGED <<runErr, failures>>
    <2>1. GroupInv' /\ StoppingInv' /\ ResultInv' /\ FlagsInv' /\ SomeFailed' = SomeFailed
        BY <1>1, <1>4 DEF AwaitEnd
    <2>2. MainInv'
        BY <1>4, <2>1 DEF RunInv, MainInv
    <2>3. ChannelInv'
        BY <1>4, <2>1 DEF RunInv, ChannelInv
    <2> QED
        BY <2>1, <2>2, <2>3 DEF RunInv
<1> QED
    BY <1>2, <1>3, <1>4 DEF AwaitEnd, BeginShutdown

(* The loop of selects and finish().                                       *)
LEMMA DrainRun ==
    ASSUME RunInv, TakeRun \/ TakeShutdown \/ TimesOut \/ Finish
    PROVE  RunInv'
<1>1. /\ UNCHANGED <<app, appErr, failures, groupErr, signalled, stopping, expired>>
      /\ pc = "drain"
    BY DEF TakeRun, TakeShutdown, TimesOut, Finish, run
<1>2. /\ SomeFailed' = SomeFailed /\ RunDone' = RunDone /\ ShutdownDone' = ShutdownDone
    BY <1>1 DEF SomeFailed, RunDone, ShutdownDone
<1>3. GroupInv' /\ ChannelInv'
    BY <1>1, <1>2 DEF RunInv, GroupInv, ChannelInv
<1>4. CASE TakeRun
    <2>1. /\ RunDone /\ runErr' = groupErr /\ runCh' = FALSE
          /\ UNCHANGED <<pc, shutdownCh, shutdownErr, result>>
        BY <1>4 DEF TakeRun
    <2> QED
        BY <1>1, <1>2, <1>3, <2>1
           DEF RunInv, GroupInv, StoppingInv, MainInv, ResultInv, FlagsInv
<1>5. CASE TakeShutdown
    <2>1. /\ ShutdownDone /\ shutdownCh' = FALSE
          /\ shutdownErr' = IF \E a \in Apps : stopping[a] = "failed" THEN "failed" ELSE "nil"
          /\ UNCHANGED <<pc, runCh, runErr, result>>
        BY <1>5 DEF TakeShutdown
    <2> QED
        BY <1>1, <1>2, <1>3, <2>1
           DEF RunInv, StoppingInv, MainInv, ResultInv, FlagsInv, Errors
<1>6. CASE TimesOut
    BY <1>1, <1>2, <1>3, <1>6
       DEF TimesOut, RunInv, StoppingInv, MainInv, ResultInv, FlagsInv
<1>7. CASE Finish
    BY <1>1, <1>2, <1>3, <1>7
       DEF Finish, RunInv, StoppingInv, MainInv, ResultInv, FlagsInv
<1> QED
    BY <1>4, <1>5, <1>6, <1>7

(* Every step of Run and of its goroutines keeps the invariant.            *)
LEMMA NextRun == RunInv /\ [Next]_vars => RunInv'
<1> SUFFICES ASSUME RunInv, [Next]_vars PROVE RunInv'
    OBVIOUS
<1>1. CASE UNCHANGED vars
    BY <1>1 DEF vars, RunInv, GroupInv, ChannelInv, StoppingInv, MainInv, ResultInv, FlagsInv,
                SomeFailed, RunDone, ShutdownDone
<1>2. CASE Next
    BY <1>2, SignalRun, AppReturnsRun, GroupLearnsRun, ShutdownReturnsRun, DeadlineRun,
       AwaitEndRun, DrainRun DEF Next, Main
<1> QED
    BY <1>1, <1>2

(* What the invariant says about the result of Run.                        *)
LEMMA RunResult ==
    ASSUME RunInv
    PROVE  NilMeansDrained /\ FailureReported /\ SignalIsClean /\ TypeOK
<1> USE DEF RunInv
<1>1. NilMeansDrained
    BY DEF GroupInv, MainInv, ResultInv, NilMeansDrained, ShutdownDone, Errors
<1>2. FailureReported
    <2> SUFFICES ASSUME pc = "returned", groupErr # "canceled",
                        NEW a \in Apps, app[a] = "done", appErr[a] = "failed"
                 PROVE  result = "failed"
        BY DEF FailureReported
    <2>1. groupErr = "failed"
        BY DEF GroupInv, Errors
    <2> QED
        BY <2>1 DEF MainInv, ResultInv
<1>3. SignalIsClean
    BY DEF MainInv, ResultInv, SignalIsClean, SomeFailed, Errors
<1>4. TypeOK
    <2>1. /\ app \in [Apps -> {"running", "published", "done"}]
          /\ appErr \in [Apps -> Errors] /\ groupErr \in Errors
          /\ failures \in Seq(Errors \ {"nil"})
          /\ stopping \in [Apps -> {"unstarted", "running", "done", "failed"}]
        BY DEF GroupInv, ChannelInv, StoppingInv
    <2>2. {signalled, expired, runCh, shutdownCh} \subseteq BOOLEAN
        BY DEF FlagsInv
    <2>3. /\ pc \in {"select", "drain", "returned"}
          /\ {runErr, shutdownErr} \subseteq Errors
          /\ result \in {"none", "nil", "failed"}
        BY DEF MainInv, ResultInv, Errors
    <2> QED
        BY <2>1, <2>2, <2>3 DEF TypeOK
<1> QED
    BY <1>1, <1>2, <1>3, <1>4

-----------------------------------------------------------------------------
(* The process runs Run *)

(* Every step of the process is a step of Run or leaves Run alone: the     *)
(* start-up comes before it and the exit after it.                         *)
LEMMA ProcStepsRun == [ProcNext]_procVars => [Next]_vars
BY DEF ProcNext, procVars, Startup, Running, Return, Killed, ParseArguments, Load, LoadAWS,
       NewSource, BuildService

(* The process implements lifecycle.Run: what holds of Run holds of the    *)
(* process that calls it, whatever the start-up did.                       *)
THEOREM ProcessRuns == ProcSpec => Spec
<1>1. ProcInit => Init
    BY DEF ProcInit
<1> QED
    BY <1>1, ProcStepsRun, PTL DEF ProcSpec, Spec

(* The invariant of Run in every process.                                  *)
LEMMA RunAlways == ProcSpec => []RunInv
<1>1. Spec => []RunInv
    BY InitRun, NextRun, PTL DEF Spec
<1> QED
    BY <1>1, ProcessRuns, PTL

(* The state of lifecycle.Run keeps its types.                             *)
THEOREM RunTypeCorrect == ProcSpec => []TypeOK
<1>1. RunInv => TypeOK
    BY RunResult
<1> QED
    BY <1>1, RunAlways, PTL

(* Run returns nil only after every application and every Shutdown         *)
(* returned, for any set of applications.                                  *)
THEOREM NilIsDrained == ProcSpec => []NilMeansDrained
<1>1. RunInv => NilMeansDrained
    BY RunResult
<1> QED
    BY <1>1, RunAlways, PTL

(* A failed application makes Run fail, in every order of failures, signal *)
(* and timeout, unless the group's one error is a cancellation.            *)
THEOREM FailuresReported == ProcSpec => []FailureReported
<1>1. RunInv => FailureReported
    BY RunResult
<1> QED
    BY <1>1, RunAlways, PTL

(* Run fails only for a failure or for the timeout, never for a signal.    *)
THEOREM SignalsAreClean == ProcSpec => []SignalIsClean
<1>1. RunInv => SignalIsClean
    BY RunResult
<1> QED
    BY <1>1, RunAlways, PTL

-----------------------------------------------------------------------------
(* The settings of the worker *)

Configured(c) == [s \in SourceSettings |-> c[s]]

(* NewSource accepts what Load let through, and its defaults replace none  *)
(* of it.                                                                  *)
LEMMA DefaultsUnused ==
    ASSUME NEW c, validate(c)
    PROVE  SourceAccepts(c) /\ applyDefaults(c) = Configured(c)
<1>1. /\ c.blank = {}
      /\ c["Concurrency"] \in 1 .. 10 /\ c["PollInterval"] >= 0
      /\ c["MaxMessages"] \in 1 .. 10
      /\ c["VisibilityTimeout"] \in 1 .. LoadVisibilityMax
      /\ c["WaitTime"] \in 1 .. 20
    BY DEF validate
<1>2. DOMAIN defaults = {"MaxMessages", "VisibilityTimeout", "WaitTime", "Concurrency"}
    BY DEF defaults
<1>3. /\ LoadVisibilityMax \in Int /\ SourceVisibilityMax \in Int
      /\ LoadVisibilityMax <= SourceVisibilityMax
    BY DEF LoadVisibilityMax, SourceVisibilityMax
<1>4. ASSUME NEW s \in SourceSettings
      PROVE  (IF s \in DOMAIN defaults /\ c[s] <= 0 THEN defaults[s] ELSE c[s]) = c[s]
    <2>1. ~(s \in DOMAIN defaults /\ c[s] <= 0)
        BY <1>1, <1>2, <1>3 DEF SourceSettings
    <2> QED
        BY <2>1
<1>5. applyDefaults(c) = Configured(c)
    BY <1>4 DEF applyDefaults, Configured
<1>6. \A s \in SourceSettings : c[s] >= 0
    BY <1>1, <1>3 DEF SourceSettings
<1>7. SourceAccepts(c)
    <2> DEFINE d == applyDefaults(c)
    <2>1. \A s \in SourceSettings : d[s] = c[s]
        BY <1>5 DEF Configured
    <2>2. /\ d["MaxMessages"] <= 10 /\ d["VisibilityTimeout"] <= SourceVisibilityMax
          /\ d["WaitTime"] <= 20 /\ d["Concurrency"] <= 10
        BY <1>1, <1>3, <2>1 DEF SourceSettings
    <2> HIDE DEF d
    <2>3. "QueueURL" \notin c.blank
        BY <1>1
    <2> QED
        BY <1>6, <2>2, <2>3 DEF SourceAccepts, d
<1> QED
    BY <1>5, <1>7

(* Past Load the environment is valid, and each constructor that ran took  *)
(* its settings over unchanged.                                            *)
ConfigInv ==
    /\ why # "source"
    /\ stage \in {"aws", "source", "service", "run"} => validate(env)
    /\ stage \in {"service", "run"} => source = Configured(env)
    /\ stage = "run" => indent = env.Indent

(* Every step keeps it.                                                    *)
LEMMA NextConfig == ConfigInv /\ [ProcNext]_procVars => ConfigInv'
<1> SUFFICES ASSUME ConfigInv, [ProcNext]_procVars PROVE ConfigInv'
    OBVIOUS
<1> USE DEF ConfigInv, Exit, Continue
<1>1. CASE UNCHANGED procVars \/ Running
    BY <1>1 DEF procVars, startup, Running
<1>2. ASSUME NEW args \in Arguments, ParseArguments(args)
      PROVE  ConfigInv'
    BY <1>2 DEF ParseArguments
<1>3. CASE Load
    BY <1>3 DEF Load
<1>4. ASSUME NEW ok \in BOOLEAN, LoadAWS(ok)
      PROVE  ConfigInv'
    BY <1>4 DEF LoadAWS
<1>5. CASE NewSource
    BY <1>5, DefaultsUnused DEF NewSource
<1>6. ASSUME NEW file \in BOOLEAN, NEW key \in BOOLEAN, BuildService(file, key)
      PROVE  ConfigInv'
    <2>1. stage = "service" /\ validate(env) /\ source = Configured(env)
        BY <1>6 DEF BuildService
    <2>2. WithIndent(env.Indent) = env.Indent
        BY <2>1 DEF validate, WithIndent
    <2> QED
        BY <1>6, <2>1, <2>2 DEF BuildService
<1>7. CASE Return \/ Killed
    BY <1>7 DEF Return, Killed
<1> QED
    BY <1>1, <1>2, <1>3, <1>4, <1>5, <1>6, <1>7 DEF ProcNext, Startup

(* For every environment: the worker runs with exactly its settings, or    *)
(* not at all, and never fails in NewSource.                               *)
THEOREM RunsAsConfigured == ProcSpec => []AsConfigured
<1>1. ProcInit => ConfigInv
    BY DEF ProcInit, ConfigInv
<1>2. ConfigInv => AsConfigured
    BY DEF ConfigInv, AsConfigured, Configured
<1> QED
    BY <1>1, <1>2, NextConfig, PTL DEF ProcSpec

=============================================================================
