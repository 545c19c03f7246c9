------------------------- MODULE ImageUpdaterProofs -------------------------
(***************************************************************************)
(* Proofs about the composed system: its parts behave in it as they do     *)
(* alone, so that what is proved of each of them holds here, and together  *)
(* they keep the end-to-end promise.                                       *)
(***************************************************************************)
EXTENDS ImageUpdater, TLAPS

-----------------------------------------------------------------------------
(* The parts *)

(* A worker of the use case is the process() of a message in an instance.  *)
LEMMA WorkerOf ==
    ASSUME NEW i \in Instances, NEW m \in Messages
    PROVE  <<i, m>> \in Workers
BY DEF Workers

(* What the system does to the queue source is a step of the source.       *)
LEMMA QueueRuns == [Next]_vars => [Q!Next]_Q!vars
<1> SUFFICES ASSUME [Next]_vars PROVE [Q!Next]_Q!vars
    OBVIOUS
<1>1. ASSUME UNCHANGED qVars PROVE [Q!Next]_Q!vars
    BY <1>1 DEF qVars, Q!vars
<1>2. CASE QueueStep
    BY <1>2 DEF QueueStep, Q!Next, Q!Process
<1>3. ASSUME NEW i \in Instances, NEW m \in Messages, Deliver(i, m)
      PROVE  Q!Next
    BY <1>3 DEF Deliver, Q!Next, Q!Process
<1>4. ASSUME NEW i \in Instances, NEW m \in Messages, Answer(i, m)
      PROVE  Q!Next
    <2>1. PICK x \in BOOLEAN : Q!HandleReturns(i, m, x)
        <3>1. CASE retry[<<i, m>>]
            BY <1>4, <3>1 DEF Answer, Q!HandleReturns
        <3>2. CASE ~retry[<<i, m>>]
            BY <1>4, <3>2 DEF Answer, Q!HandleReturns
        <3> QED
            BY <3>1, <3>2
    <2> QED
        BY <2>1 DEF Q!Next
<1>5. ASSUME NEW i \in Instances, Crash(i) PROVE Q!Next
    BY <1>5 DEF Crash, Q!Next
<1>6. CASE UNCHANGED vars
    BY <1>1, <1>6 DEF vars
<1> QED
    BY <1>1, <1>2, <1>3, <1>4, <1>5, <1>6 DEF Next, ServiceStep, People

(* What it does to the use case is a step of the use case.                 *)
LEMMA ServiceRuns == [Next]_vars => [S!Next]_S!vars
<1> SUFFICES ASSUME [Next]_vars PROVE [S!Next]_S!vars
    OBVIOUS
<1>1. ASSUME UNCHANGED sVars PROVE [S!Next]_S!vars
    BY <1>1 DEF sVars, S!vars
<1>2. ASSUME NEW i \in Instances, NEW m \in Messages, Deliver(i, m)
      PROVE  [S!Next]_S!vars
    <2>1. CASE m \in Decodable
        <3>1. S!Handle(<<i, m>>, EventOf[m])
            BY <1>2, <2>1 DEF Deliver
        <3>2. EventOf[m] \in Events
            BY <2>1, PayloadTypes
        <3> QED
            BY <3>1, <3>2, WorkerOf DEF S!Next
    <2>2. CASE m \notin Decodable
        BY <1>1, <1>2, <2>2 DEF Deliver
    <2> QED
        BY <2>1, <2>2
<1>3. ASSUME NEW i \in Instances, NEW m \in Messages, Answer(i, m)
      PROVE  S!Next
    BY <1>3, WorkerOf DEF Answer, S!Next, S!Step
<1>4. ASSUME NEW w \in Workers, ServiceStep(w) PROVE S!Next
    BY <1>4 DEF ServiceStep, S!Next, S!Step
<1>5. ASSUME NEW i \in Instances, Crash(i) PROVE [S!Next]_S!vars
    <2>1. {i} \X Messages \in SUBSET Workers
        BY DEF Workers
    <2> QED
        BY <1>1, <1>5, <2>1 DEF Crash, S!Next
<1>6. CASE People
    BY <1>6 DEF People, S!Next
<1>7. CASE UNCHANGED vars
    BY <1>1, <1>7 DEF vars
<1> QED
    BY <1>1, <1>2, <1>3, <1>4, <1>5, <1>6, <1>7 DEF Next, QueueStep

(* The composed system runs the queue source and the use case, each by its *)
(* own specification: wiring them together adds no behaviour to either.    *)
THEOREM PartsRun == Spec => Q!Spec /\ S!Spec
<1>1. Init => Q!Init /\ S!Init
    BY DEF Init
<1> QED
    BY <1>1, QueueRuns, ServiceRuns, PTL DEF Spec, Q!Spec, S!Spec

-----------------------------------------------------------------------------
(* The theorems about the use case, for the workers of this system *)

SP == INSTANCE UpdateServiceProofs

(* SP repeats the definitions of S: their initial states are the same.     *)
LEMMA SameInit == S!Init => SP!Init
BY DEF S!Init, SP!Init, S!Changed, SP!Changed, S!Selected, SP!Selected,
       S!Resolve, SP!Resolve, S!Manages, SP!Manages

(* So are the ends of a step.                                              *)
LEMMA SameEnds ==
    ASSUME NEW w, NEW x, NEW ws
    PROVE  /\ S!Repo(w) = SP!Repo(w)
           /\ S!Goto(w, x) <=> SP!Goto(w, x)
           /\ S!Finish(w, x) <=> SP!Finish(w, x)
           /\ S!Reset(ws) <=> SP!Reset(ws)
BY DEF S!Goto, SP!Goto, S!Finish, SP!Finish, S!Reset, SP!Reset, S!Repo, SP!Repo

(* So is what a tree means for an update.                                  *)
LEMMA SameTrees ==
    ASSUME NEW r, NEW e, NEW tr
    PROVE  /\ S!NothingMatches(r, e, tr) <=> SP!NothingMatches(r, e, tr)
           /\ S!Conflicting(r, e, tr) <=> SP!Conflicting(r, e, tr)
           /\ S!Unpatchable(r, e, tr) = SP!Unpatchable(r, e, tr)
           /\ S!Changed(r, e, tr) = SP!Changed(r, e, tr)
           /\ S!Moot(r, e, tr) <=> SP!Moot(r, e, tr)
           /\ S!HasLegacy(r, e) <=> SP!HasLegacy(r, e)
           /\ S!Renders(e) <=> SP!Renders(e)
BY DEF S!NothingMatches, SP!NothingMatches, S!Conflicting, SP!Conflicting, S!Unpatchable,
       SP!Unpatchable, S!Changed, SP!Changed, S!Moot, SP!Moot, S!HasLegacy, SP!HasLegacy,
       S!Renders, SP!Renders, S!Selected, SP!Selected, S!Resolve, SP!Resolve,
       S!Manages, SP!Manages

(* So are the steps of a worker.                                           *)
LEMMA SameSteps == ASSUME NEW w, S!Step(w) PROVE SP!Step(w)
<1> USE SameEnds, SameTrees DEF S!github, SP!github, S!history, SP!history
<1>1. CASE S!EnsureNoOpenPullRequest(w)
    BY <1>1 DEF S!EnsureNoOpenPullRequest, SP!EnsureNoOpenPullRequest, S!Probed, SP!Probed,
                S!AfterProbe, SP!AfterProbe, SP!Step
<1>2. CASE S!Checkout(w)
    BY <1>2 DEF S!Checkout, SP!Checkout, SP!Step
<1>3. CASE S!ResolveManifestTargets(w)
    BY <1>3 DEF S!ResolveManifestTargets, SP!ResolveManifestTargets, SP!Step
<1>4. CASE S!PatchManifests(w)
    BY <1>4 DEF S!PatchManifests, SP!PatchManifests, SP!Step
<1>5. CASE S!CommitChanges(w)
    BY <1>5 DEF S!CommitChanges, SP!CommitChanges, SP!Step
<1>6. CASE S!Push(w)
    BY <1>6 DEF S!Push, SP!Push, S!PushAccepted, SP!PushAccepted, S!Repo, SP!Repo, SP!Step,
                S!Changed, SP!Changed, S!Selected, SP!Selected, S!Resolve, SP!Resolve,
                S!Manages, SP!Manages
<1>7. CASE S!CreatePullRequest(w)
    BY <1>7 DEF S!CreatePullRequest, SP!CreatePullRequest, S!CanOpen, SP!CanOpen,
                S!CanRefuse, SP!CanRefuse, SP!Step
<1>8. CASE S!Return(w)
    BY <1>8 DEF S!Return, SP!Return, SP!Step
<1> QED
    BY <1>1, <1>2, <1>3, <1>4, <1>5, <1>6, <1>7, <1>8 DEF S!Step

(* So is every step.                                                       *)
LEMMA SameNext == [S!Next]_S!vars => [SP!Next]_SP!vars
<1> USE SameEnds, SameTrees DEF S!github, SP!github, S!history, SP!history
<1>1. ASSUME NEW w \in Workers, NEW e \in Events, S!Handle(w, e) PROVE SP!Next
    BY <1>1 DEF S!Handle, SP!Handle, SP!Next
<1>2. ASSUME NEW ws \in SUBSET Workers, S!Crash(ws) PROVE SP!Next
    BY <1>2 DEF S!Crash, SP!Crash, SP!Next
<1>3. S!People => SP!People
    BY DEF S!People, SP!People, S!Merge, SP!Merge, S!Decline, SP!Decline, S!DeleteBranch,
           SP!DeleteBranch, S!EditBase, SP!EditBase, S!Merged, SP!Merged, S!local, SP!local
<1>4. ASSUME NEW w \in Workers, S!Step(w) PROVE SP!Next
    BY <1>4, SameSteps DEF SP!Next
<1>5. CASE UNCHANGED S!vars
    BY <1>5 DEF S!vars, SP!vars
<1> QED
    BY <1>1, <1>2, <1>3, <1>4, <1>5 DEF S!Next, SP!Next

(* The use case does here what is proved of it.                            *)
LEMMA SameService == Spec => SP!Spec
BY SameInit, SameNext, PartsRun, PTL DEF SP!Spec, S!Spec

(* Its assumptions are met.                                                *)
LEMMA ServiceAssumptions ==
    SP!ConstantTypes /\ SP!SpecialValues /\ SP!BranchIdentity /\ SP!LegacyPlausible
<1>1. SP!BranchIdentity /\ SP!LegacyPlausible
    BY ComponentConstants
       DEF S!BranchIdentity, SP!BranchIdentity, S!LegacyPlausible, SP!LegacyPlausible
<1>2. SP!ConstantTypes
    BY ComponentConstants
       DEF S!ConstantTypes, SP!ConstantTypes, S!Target, SP!Target, S!Tree, SP!Tree,
           S!Manifest, SP!Manifest
<1>3. SP!SpecialValues
    BY ComponentConstants
       DEF S!SpecialValues, SP!SpecialValues, S!Tree, SP!Tree, S!Manifest, SP!Manifest,
           S!Commit, SP!Commit
<1> QED
    BY <1>1, <1>2, <1>3

(* The types of the use case.                                              *)
LEMMA ServiceTyped == Spec => []SP!TypeOK
BY SameService, ServiceAssumptions, SP!TypeCorrect, PTL

(* No update is lost.                                                      *)
LEMMA ServiceServes ==
    ASSUME SP!LegacyDistinct, ~BranchCleanup
    PROVE  Spec => []SP!NoLostUpdate
BY SameService, ServiceAssumptions, SP!NoUpdateLost, PTL

-----------------------------------------------------------------------------
(* End to end *)

(* Types of the queue source that the argument needs.                      *)
QueueTyped ==
    /\ queue \in [Messages -> Q!QueueState]
    /\ proc \in [Instances -> [Messages -> Q!ProcState]]

(* Handle works on the event of its message.                               *)
OwnEvent ==
    \A i \in Instances, m \in Messages : pc[<<i, m>>] # "idle" =>
        m \in Decodable /\ event[<<i, m>>] = EventOf[m]

(* A push event whose message is about to be acknowledged, or is gone, was *)
(* settled by Handle.                                                      *)
Concluded ==
    \A m \in Decodable :
        queue[m] = "deleted" \/ (\E i \in Instances : proc[i][m] = "ack")
            => EventOf[m] \in settled

LinkInv == QueueTyped /\ OwnEvent /\ Concluded

(* A step of the source that decides nothing: a message is deleted only    *)
(* after it was to be acknowledged.                                        *)
LEMMA NothingDecided ==
    ASSUME QueueTyped, Concluded, QueueTyped', settled \subseteq settled',
           \A m \in Decodable : queue'[m] = "deleted" =>
               queue[m] = "deleted" \/ \E i \in Instances : proc[i][m] = "ack",
           \A m \in Decodable, i \in Instances : proc'[i][m] = "ack" => proc[i][m] = "ack"
    PROVE  Concluded'
BY DEF Concluded

(* The steps of the source the handler takes no part in.                   *)
LEMMA QueueStepLink ==
    ASSUME LinkInv, QueueStep
    PROVE  LinkInv'
<1> USE DEF Q!sqs
<1>1. QueueTyped /\ OwnEvent /\ Concluded /\ Decodable \subseteq Messages
    BY ComponentConstants DEF LinkInv, Q!QueueConstants
<1>2. UNCHANGED <<pc, event, settled>>
    BY DEF QueueStep, sVars
<1>3. OwnEvent'
    BY <1>1, <1>2 DEF OwnEvent
<1>4. ASSUME NEW m \in Messages, Q!Publish(m) \/ Q!Lapse(m)
      PROVE  QueueTyped' /\ Concluded'
    <2>1. proc' = proc /\ queue' = [queue EXCEPT ![m] = "visible"]
        BY <1>4 DEF Q!Publish, Q!Lapse
    <2> QED
        BY <1>1, <1>2, <2>1, NothingDecided DEF QueueTyped, Q!QueueState
<1>5. ASSUME NEW i \in Instances, Q!Cancel(i) \/ Q!Restart(i) \/ Q!Poll(i) \/ Q!Wake(i)
      PROVE  QueueTyped' /\ Concluded'
    <2>1. proc' = proc /\ queue' = queue
        BY <1>5 DEF Q!Cancel, Q!Restart, Q!Poll, Q!Wake
    <2> QED
        BY <1>1, <1>2, <2>1 DEF QueueTyped, Concluded
<1>6. ASSUME NEW i \in Instances, Q!BatchDone(i)
      PROVE  QueueTyped' /\ Concluded'
    <2>1. queue' = queue /\ proc' = [proc EXCEPT ![i] = [m \in Messages |-> "none"]]
        BY <1>6 DEF Q!BatchDone
    <2>2. QueueTyped'
        BY <1>1, <2>1 DEF QueueTyped, Q!ProcState
    <2>3. \A m \in Decodable, j \in Instances : proc'[j][m] = "ack" => proc[j][m] = "ack"
        BY <1>1, <2>1 DEF QueueTyped
    <2> QED
        BY <1>1, <1>2, <2>1, <2>2, <2>3, NothingDecided
<1>7. ASSUME NEW i \in Instances, NEW ms \in SUBSET Messages,
             Q!Receive(i, ms) \/ Q!ReceiveFails(i, ms)
      PROVE  QueueTyped' /\ Concluded'
    <2>1. /\ queue' = [m \in Messages |-> IF m \in ms THEN "hidden" ELSE queue[m]]
          /\ \/ proc' = proc
             \/ proc' = [proc EXCEPT ![i] =
                            [m \in Messages |-> IF m \in ms THEN "queued" ELSE "none"]]
        BY <1>7 DEF Q!Receive, Q!ReceiveFails
    <2>2. QueueTyped'
        BY <1>1, <2>1 DEF QueueTyped, Q!QueueState, Q!ProcState
    <2>3. \A m \in Decodable, j \in Instances : proc'[j][m] = "ack" => proc[j][m] = "ack"
        BY <1>1, <2>1 DEF QueueTyped
    <2>4. \A m \in Decodable : queue'[m] = "deleted" => queue[m] = "deleted"
        BY <1>1, <2>1
    <2> QED
        BY <1>1, <1>2, <2>2, <2>3, <2>4, NothingDecided
<1>8. ASSUME NEW i \in Instances, NEW m \in Messages,
             \/ Q!Start(i, m) \/ Q!HeartbeatExits(i, m) \/ Q!StopHeartbeat(i, m)
             \/ Q!Heartbeat(i, m)
      PROVE  QueueTyped' /\ Concluded'
    <2>1. queue' = queue
        BY <1>8 DEF Q!Start, Q!HeartbeatExits, Q!StopHeartbeat, Q!Heartbeat, Q!Renew,
                    Q!RenewFails, Q!LifetimeReached
    <2>2. proc' = proc \/ \E x \in {"decode", "done"} : proc' = [proc EXCEPT ![i][m] = x]
        BY <1>8 DEF Q!Start, Q!HeartbeatExits, Q!StopHeartbeat, Q!Heartbeat, Q!Renew,
                    Q!RenewFails, Q!LifetimeReached, Q!At
    <2>3. QueueTyped'
        BY <1>1, <2>1, <2>2 DEF QueueTyped, Q!ProcState
    <2>4. \A n \in Decodable, j \in Instances : proc'[j][n] = "ack" => proc[j][n] = "ack"
        BY <1>1, <2>2 DEF QueueTyped
    <2> QED
        BY <1>1, <1>2, <2>1, <2>3, <2>4, NothingDecided
<1>9. ASSUME NEW i \in Instances, NEW m \in Messages, NEW x \in BOOLEAN,
             Q!Acknowledge(i, m, x)
      PROVE  QueueTyped' /\ Concluded'
    <2>1. /\ proc[i][m] = "ack" /\ proc' = [proc EXCEPT ![i][m] = "stop"]
          /\ queue' = queue \/ queue' = [queue EXCEPT ![m] = "deleted"]
        BY <1>9 DEF Q!Acknowledge, Q!At
    <2>2. QueueTyped'
        BY <1>1, <2>1 DEF QueueTyped, Q!ProcState, Q!QueueState
    <2>3. \A n \in Decodable, j \in Instances : proc'[j][n] = "ack" => proc[j][n] = "ack"
        BY <1>1, <2>1 DEF QueueTyped
    <2>4. \A n \in Decodable : queue'[n] = "deleted" => queue[n] = "deleted" \/ n = m
        BY <1>1, <2>1 DEF QueueTyped
    <2> QED
        BY <1>1, <1>2, <2>1, <2>2, <2>3, <2>4, NothingDecided
<1> QED
    BY <1>3, <1>4, <1>5, <1>6, <1>7, <1>8, <1>9 DEF LinkInv, QueueStep, Q!Loop

(* Handle starts with the event of the message; what cannot be decoded     *)
(* carries no event.                                                       *)
LEMMA DeliverLink ==
    ASSUME LinkInv, SP!TypeOK, NEW i \in Instances, NEW m \in Messages, Deliver(i, m)
    PROVE  LinkInv'
<1>1. /\ QueueTyped /\ OwnEvent /\ Concluded /\ Decodable \subseteq Messages
      /\ pc \in [Workers -> SP!Label] /\ event \in [Workers -> Events \cup {NoEvent}]
    BY ComponentConstants DEF LinkInv, Q!QueueConstants, SP!TypeOK, SP!LocalTypes
<1>2. /\ queue' = queue
      /\ proc' = [proc EXCEPT ![i][m] = IF m \in Decodable THEN "handle" ELSE "ack"]
    BY DEF Deliver, Q!Decode, Q!At, Q!sqs
<1>3. settled' = settled
    BY DEF Deliver, S!Handle, S!history, sVars
<1>4. QueueTyped'
    BY <1>1, <1>2 DEF QueueTyped, Q!ProcState
<1>5. Concluded'
    <2>1. \A n \in Decodable, j \in Instances : proc'[j][n] = "ack" => proc[j][n] = "ack"
        BY <1>1, <1>2 DEF QueueTyped
    <2> QED
        BY <1>1, <1>2, <1>3, <1>4, <2>1, NothingDecided
<1>6. OwnEvent'
    <2>1. CASE m \in Decodable
        <3>1. /\ event' = [event EXCEPT ![<<i, m>>] = EventOf[m]]
              /\ \E l \in {"find", "return"} : pc' = [pc EXCEPT ![<<i, m>>] = l]
            BY <2>1 DEF Deliver, S!Handle
        <3> SUFFICES ASSUME NEW j \in Instances, NEW n \in Messages, pc'[<<j, n>>] # "idle"
                     PROVE  n \in Decodable /\ event'[<<j, n>>] = EventOf[n]
            BY DEF OwnEvent
        <3>2. <<i, m>> \in Workers /\ <<j, n>> \in Workers
            BY WorkerOf
        <3>3. CASE <<j, n>> = <<i, m>>
            BY <1>1, <2>1, <3>1, <3>2, <3>3
        <3>4. CASE <<j, n>> # <<i, m>>
            <4>1. pc'[<<j, n>>] = pc[<<j, n>>] /\ event'[<<j, n>>] = event[<<j, n>>]
                BY <1>1, <3>1, <3>2, <3>4
            <4> QED
                BY <1>1, <4>1 DEF OwnEvent
        <3> QED
            BY <3>3, <3>4
    <2>2. CASE m \notin Decodable
        BY <1>1, <2>2 DEF Deliver, sVars, OwnEvent
    <2> QED
        BY <2>1, <2>2
<1> QED
    BY <1>4, <1>5, <1>6 DEF LinkInv

(* Workers that stop leave the others with their events.                   *)
LEMMA ResetOwn ==
    ASSUME OwnEvent, NEW ws, S!Reset(ws)
    PROVE  OwnEvent'
<1> SUFFICES ASSUME NEW j \in Instances, NEW n \in Messages, pc'[<<j, n>>] # "idle"
             PROVE  n \in Decodable /\ event'[<<j, n>>] = EventOf[n]
    BY DEF OwnEvent
<1>1. <<j, n>> \in Workers
    BY WorkerOf
<1>2. /\ pc'[<<j, n>>] = IF <<j, n>> \in ws THEN "idle" ELSE pc[<<j, n>>]
      /\ event'[<<j, n>>] = IF <<j, n>> \in ws THEN NoEvent ELSE event[<<j, n>>]
    BY <1>1 DEF S!Reset
<1> QED
    BY <1>2 DEF OwnEvent

(* The message is acknowledged when Handle settled its event.              *)
LEMMA AnswerLink ==
    ASSUME LinkInv, NEW i \in Instances, NEW m \in Messages, Answer(i, m)
    PROVE  LinkInv'
<1>1. QueueTyped /\ OwnEvent /\ Concluded /\ Decodable \subseteq Messages
    BY ComponentConstants DEF LinkInv, Q!QueueConstants
<1>2. /\ queue' = queue
      /\ proc' = [proc EXCEPT ![i][m] = IF retry[<<i, m>>] THEN "stop" ELSE "ack"]
    BY DEF Answer, Q!HandleReturns, Q!At, Q!sqs
<1>3. /\ pc[<<i, m>>] = "return" /\ S!Reset({<<i, m>>})
      /\ settled' = IF retry[<<i, m>>] THEN settled ELSE settled \cup {event[<<i, m>>]}
    BY DEF Answer, S!Return
<1>4. m \in Decodable /\ event[<<i, m>>] = EventOf[m]
    BY <1>1, <1>3 DEF OwnEvent
<1>5. QueueTyped'
    BY <1>1, <1>2 DEF QueueTyped, Q!ProcState
<1>6. OwnEvent'
    BY <1>1, <1>3, ResetOwn
<1>7. Concluded'
    <2>1. CASE retry[<<i, m>>]
        <3>1. \A n \in Decodable, j \in Instances : proc'[j][n] = "ack" => proc[j][n] = "ack"
            BY <1>1, <1>2, <2>1 DEF QueueTyped
        <3> QED
            BY <1>1, <1>2, <1>3, <1>5, <2>1, <3>1, NothingDecided
    <2>2. CASE ~retry[<<i, m>>]
        <3>1. settled' = settled \cup {EventOf[m]}
            BY <1>3, <1>4, <2>2
        <3>2. \A n \in Decodable, j \in Instances :
                  proc'[j][n] = "ack" => proc[j][n] = "ack" \/ n = m
            BY <1>1, <1>2, <2>2 DEF QueueTyped
        <3> QED
            BY <1>1, <1>2, <3>1, <3>2 DEF Concluded
    <2> QED
        BY <2>1, <2>2
<1> QED
    BY <1>5, <1>6, <1>7 DEF LinkInv

(* Handle in progress stays with its event and settles nothing.            *)
LEMMA ServiceStepLink ==
    ASSUME LinkInv, SP!TypeOK, NEW w \in Workers, ServiceStep(w)
    PROVE  LinkInv'
<1>1. QueueTyped /\ OwnEvent /\ Concluded /\ pc \in [Workers -> SP!Label]
    BY DEF LinkInv, SP!TypeOK, SP!LocalTypes
<1>2. UNCHANGED <<queue, proc>>
    BY DEF ServiceStep, qVars
<1>3. /\ settled' = settled /\ event' = event
      /\ pc[w] # "idle" /\ \E l \in SP!Label : pc' = [pc EXCEPT ![w] = l]
    <2>1. ASSUME NEW x, S!Finish(w, x)
          PROVE  event' = event /\ \E l \in SP!Label : pc' = [pc EXCEPT ![w] = l]
        BY <2>1 DEF S!Finish, SP!Label
    <2>2. ASSUME NEW l \in SP!Label, S!Goto(w, l)
          PROVE  event' = event /\ \E k \in SP!Label : pc' = [pc EXCEPT ![w] = k]
        BY <2>2 DEF S!Goto
    <2>3. S!AfterProbe(w) \in SP!Label
        BY DEF S!AfterProbe, SP!Label
    <2>4. CASE S!EnsureNoOpenPullRequest(w)
        BY <2>1, <2>2, <2>3, <2>4 DEF S!EnsureNoOpenPullRequest, S!history
    <2>5. CASE S!Checkout(w)
        BY <2>1, <2>5 DEF S!Checkout, S!history, SP!Label
    <2>6. CASE S!ResolveManifestTargets(w)
        BY <2>1, <2>2, <2>6 DEF S!ResolveManifestTargets, S!history, SP!Label
    <2>7. CASE S!PatchManifests(w)
        BY <2>1, <2>2, <2>7 DEF S!PatchManifests, S!history, SP!Label
    <2>8. CASE S!CommitChanges(w)
        BY <2>1, <2>2, <2>8 DEF S!CommitChanges, S!history, SP!Label
    <2>9. CASE S!Push(w)
        BY <2>1, <2>2, <2>9 DEF S!Push, S!history, SP!Label
    <2>10. CASE S!CreatePullRequest(w)
        BY <2>1, <2>10 DEF S!CreatePullRequest
    <2> QED
        BY <2>4, <2>5, <2>6, <2>7, <2>8, <2>9, <2>10 DEF ServiceStep
<1>4. OwnEvent'
    <2> SUFFICES ASSUME NEW j \in Instances, NEW n \in Messages, pc'[<<j, n>>] # "idle"
                 PROVE  n \in Decodable /\ event'[<<j, n>>] = EventOf[n]
        BY DEF OwnEvent
    <2>1. <<j, n>> \in Workers
        BY WorkerOf
    <2>2. pc[<<j, n>>] # "idle"
        BY <1>1, <1>3, <2>1
    <2> QED
        BY <1>1, <1>3, <2>2 DEF OwnEvent
<1> QED
    BY <1>1, <1>2, <1>3, <1>4 DEF LinkInv, QueueTyped, Concluded

(* A crash and the owners of the repositories decide nothing.              *)
LEMMA CrashLink ==
    ASSUME LinkInv, NEW i \in Instances, Crash(i)
    PROVE  LinkInv'
<1>1. QueueTyped /\ OwnEvent /\ Concluded /\ Decodable \subseteq Messages
    BY ComponentConstants DEF LinkInv, Q!QueueConstants
<1>2. queue' = queue /\ proc' = [proc EXCEPT ![i] = [m \in Messages |-> "none"]]
    BY DEF Crash, Q!Crash, Q!sqs
<1>3. settled' = settled
    BY DEF Crash, S!Crash, S!history, sVars
<1>4. QueueTyped'
    BY <1>1, <1>2 DEF QueueTyped, Q!ProcState
<1>5. \A n \in Decodable, j \in Instances : proc'[j][n] = "ack" => proc[j][n] = "ack"
    BY <1>1, <1>2 DEF QueueTyped
<1>6. Concluded'
    BY <1>1, <1>2, <1>3, <1>4, <1>5, NothingDecided
<1>7. OwnEvent'
    <2>1. CASE S!Crash({i} \X Messages)
        BY <1>1, <2>1, ResetOwn DEF S!Crash
    <2>2. CASE UNCHANGED sVars
        BY <1>1, <2>2 DEF sVars, OwnEvent
    <2> QED
        BY <2>1, <2>2 DEF Crash
<1> QED
    BY <1>4, <1>6, <1>7 DEF LinkInv

(* Every step keeps the link between the queue and the use case.           *)
LEMMA NextLink == LinkInv /\ SP!TypeOK /\ [Next]_vars => LinkInv'
<1> SUFFICES ASSUME LinkInv, SP!TypeOK, [Next]_vars PROVE LinkInv'
    OBVIOUS
<1>1. ASSUME UNCHANGED <<queue, proc, pc, event, settled>> PROVE LinkInv'
    BY <1>1 DEF LinkInv, QueueTyped, OwnEvent, Concluded
<1>2. CASE People
    BY <1>1, <1>2 DEF People, S!People, S!Merge, S!Decline, S!DeleteBranch, S!EditBase,
                      S!local, S!history, qVars
<1>3. CASE UNCHANGED vars
    BY <1>1, <1>3 DEF vars, qVars, sVars
<1> QED
    BY <1>2, <1>3, QueueStepLink, DeliverLink, AnswerLink, ServiceStepLink, CrashLink DEF Next

(* Initially nothing is published.                                         *)
LEMMA InitLink == Init => LinkInv
<1> SUFFICES ASSUME Init PROVE LinkInv
    OBVIOUS
<1>1. QueueTyped
    BY DEF Init, Q!Init, QueueTyped, Q!QueueState, Q!ProcState
<1>2. OwnEvent
    BY WorkerOf DEF Init, S!Init, OwnEvent
<1>3. Concluded
    BY ComponentConstants DEF Init, Q!Init, Concluded, Q!QueueConstants
<1> QED
    BY <1>1, <1>2, <1>3 DEF LinkInv

(* End to end, for any number of instances, messages, repositories and     *)
(* rules: when the queue has let go of a push event, every repository of   *)
(* its plan has got its pull request, or was seen to need none, or GitHub  *)
(* refuses it.  As for the use case alone, legacy branch names identify    *)
(* their event and nobody deletes a branch without pull request.           *)
THEOREM NothingDroppedEndToEnd ==
    ASSUME SP!LegacyDistinct, ~BranchCleanup
    PROVE  Spec => []DeletedMeansUpdated
<1>1. LinkInv /\ SP!NoLostUpdate => DeletedMeansUpdated
    <2> SUFFICES ASSUME LinkInv, SP!NoLostUpdate,
                        NEW m \in Decodable, queue[m] = "deleted", S!Renders(EventOf[m]),
                        NEW k \in 1 .. Len(Plan[EventOf[m]])
                 PROVE  LET r == Plan[EventOf[m]][k]  e == EventOf[m]
                        IN  opened[r][e] \/ moot[r][e] \/ <<r, e>> \in Unacceptable
        BY DEF DeletedMeansUpdated
    <2>1. EventOf[m] \in settled /\ SP!Renders(EventOf[m])
        BY SameTrees DEF LinkInv, Concluded
    <2> QED
        BY <2>1 DEF SP!NoLostUpdate
<1>2. Spec => []LinkInv
    BY InitLink, NextLink, ServiceTyped, PTL DEF Spec
<1> QED
    BY <1>1, <1>2, ServiceServes, PTL

=============================================================================
