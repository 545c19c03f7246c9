---------------------------- MODULE ImageUpdater ----------------------------
(***************************************************************************)
(* The running system: instances poll the queue (QueueSource) and hand     *)
(* each decoded message to Service.Handle (UpdateService).  The worker     *)
(* <<i, m>> is the process() goroutine of message m in instance i; Handle  *)
(* starts when the message is decoded, its result decides whether the      *)
(* message is acknowledged, and a crash takes all workers of the instance. *)
(***************************************************************************)
EXTENDS Naturals, Sequences, FiniteSets

CONSTANTS
    Instances, Messages, Decodable, MaxMessages, Concurrency, Nobody,
    EventOf,       \* EventOf[m]: the push event in the payload of m
    Events, Images, Tags, Repos, Dirs, Envs, Branches, Plan, TargetsOf,
    BranchOf, LegacyName, Unrenderable, Unacceptable, InitialBase, LegacyAt,
    BaseEdits, BranchCleanup,
    Absent, Invalid, Unmanaged, NoTree, NoCommit, NoEvent

ASSUME PayloadTypes == EventOf \in [Decodable -> Events]

VARIABLES
    queue, holder, loop, proc, beat, cancelled, final,
    base, branch, pr, pc, event, index, tree, retry, opened, moot, settled

Workers == Instances \X Messages

Q == INSTANCE QueueSource
S == INSTANCE UpdateService

(* The constants are what the two components expect.                       *)
ASSUME ComponentConstants ==
    /\ Q!QueueConstants
    /\ S!ConstantTypes /\ S!SpecialValues /\ S!BranchIdentity /\ S!LegacyPlausible

qVars == <<queue, holder, loop, proc, beat, cancelled, final>>
sVars == <<base, branch, pr, pc, event, index, tree, retry, opened, moot, settled>>
vars  == <<qVars, sVars>>

Init == Q!Init /\ S!Init

-----------------------------------------------------------------------------
(* Steps of the queue source the handler takes no part in.                 *)
QueueStep ==
    /\ \/ \E m \in Messages : Q!Publish(m) \/ Q!Lapse(m)
       \/ \E i \in Instances : Q!Loop(i) \/ Q!Cancel(i) \/ Q!Restart(i)
       \/ \E i \in Instances, m \in Messages :
             \/ Q!Start(i, m) \/ Q!HeartbeatExits(i, m) \/ Q!StopHeartbeat(i, m)
             \/ \E deletes \in BOOLEAN : Q!Acknowledge(i, m, deletes)
             \/ Q!Heartbeat(i, m)
    /\ UNCHANGED sVars

(* handler.Handle(ctx, event) is called, or the payload is acknowledged.   *)
Deliver(i, m) ==
    /\ Q!Decode(i, m)
    /\ IF m \in Decodable THEN S!Handle(<<i, m>>, EventOf[m]) ELSE UNCHANGED sVars

(* Mutant: the result of Handle is not looked at.                          *)
AnswerIgnored(i, m) ==
    /\ S!Return(<<i, m>>)
    /\ Q!HandleReturns(i, m, FALSE)

(* Handle returns; IsRetryable(err) is whether any joined error is.        *)
Answer(i, m) ==
    /\ S!Return(<<i, m>>)
    /\ Q!HandleReturns(i, m, retry[<<i, m>>])

(* The remote calls and local edits of a Handle in progress.               *)
ServiceStep(w) ==
    /\ \/ S!EnsureNoOpenPullRequest(w) \/ S!Checkout(w) \/ S!ResolveManifestTargets(w)
       \/ S!PatchManifests(w) \/ S!CommitChanges(w) \/ S!Push(w) \/ S!CreatePullRequest(w)
    /\ UNCHANGED qVars

People == S!People /\ UNCHANGED qVars

Crash(i) ==
    /\ Q!Crash(i)
    /\ \/ S!Crash({i} \X Messages)
       \/ (\A m \in Messages : pc[<<i, m>>] = "idle") /\ UNCHANGED sVars

Next ==
    \/ QueueStep
    \/ \E i \in Instances, m \in Messages : Deliver(i, m) \/ Answer(i, m)
    \/ \E w \in Workers : ServiceStep(w)
    \/ People
    \/ \E i \in Instances : Crash(i)

Spec == Init /\ [][Next]_vars

(* Fairness.  Goroutines that can run do, remote calls return, Kubernetes  *)
(* restarts what stopped, a lease nobody renews runs out, and SQS does     *)
(* not withhold a visible message from every receive forever.              *)
Fairness ==
    /\ \A i \in Instances :
         /\ WF_vars(Q!Loop(i) /\ UNCHANGED sVars)
         /\ WF_vars(Q!Restart(i) /\ UNCHANGED sVars)
         /\ \A m \in Messages :
              /\ WF_vars(/\ \/ Q!Start(i, m) \/ Q!HeartbeatExits(i, m) \/ Q!StopHeartbeat(i, m)
                            \/ \E deletes \in BOOLEAN : Q!Acknowledge(i, m, deletes)
                         /\ UNCHANGED sVars)
              /\ WF_vars(Deliver(i, m))
              /\ WF_vars(ServiceStep(<<i, m>>) \/ Answer(i, m))
    /\ \A m \in Messages :
         /\ WF_vars(Q!Lapse(m) /\ UNCHANGED sVars)
         /\ SF_vars(\E i \in Instances, ms \in SUBSET Messages :
                       m \in ms /\ Q!Receive(i, ms) /\ UNCHANGED sVars)

(* A step in which something goes wrong, in either component; Handle's     *)
(* retryable result is one only through the call that failed.              *)
Disruption ==
    \/ \E i \in Instances : Q!Crash(i) \/ Q!Cancel(i)
    \/ \E i \in Instances, ms \in SUBSET Messages : Q!ReceiveFails(i, ms)
    \/ \E i \in Instances, m \in Messages :
          \/ Q!RenewFails(i, m)
          \/ Q!Acknowledge(i, m, FALSE) /\ queue[m] # "deleted"
          \/ ~retry[<<i, m>>] /\ retry'[<<i, m>>]

FairSpec == Spec /\ Fairness

-----------------------------------------------------------------------------
(* Properties *)

(* End to end: when the queue has let go of a push event, every manifest   *)
(* repository of its plan has got its pull request, or was seen to need    *)
(* none, or GitHub refuses the pull request.  Crashes, lost answers,       *)
(* lapsed leases and two instances working on one message do not matter.   *)
DeletedMeansUpdated ==
    \A m \in Decodable : queue[m] = "deleted" /\ S!Renders(EventOf[m]) =>
        \A k \in 1 .. Len(Plan[EventOf[m]]) :
            LET r == Plan[EventOf[m]][k]  e == EventOf[m]
            IN  opened[r][e] \/ moot[r][e] \/ <<r, e>> \in Unacceptable

(* Once nothing goes wrong any more, every published message is handled    *)
(* to its end and deleted, whatever an earlier attempt left on GitHub.     *)
EveryEventConcluded ==
    <>[][~Disruption]_vars => Q!Port!ESProgress

(* A cancelled Run returns: whatever Handle is doing, the batch is drained *)
(* and every heartbeat joined.                                             *)
ShutdownCompletes ==
    \A i \in Instances : cancelled[i] ~> loop[i] \in {"stopped", "down"}

=============================================================================
