-------------------------- MODULE QueueSourceProofs --------------------------
(***************************************************************************)
(* Proofs about the SQS event source.  QueueSource: any number of          *)
(* instances, messages and goroutines, and that it implements the          *)
(* EventSource port.  Heartbeat: one message against the clock, for every  *)
(* visibility timeout, call timeout and resolution of the clock.           *)
(***************************************************************************)
EXTENDS QueueSource, Heartbeat, FiniteSetTheorems, TLAPS

-----------------------------------------------------------------------------
(* Type correctness *)

(* Advancing one process() goroutine keeps the type of proc.               *)
LEMMA AtType ==
    ASSUME TypeOK, NEW i \in Instances, NEW m \in Messages,
           NEW from, NEW to \in ProcState, At(i, m, from, to)
    PROVE  proc' \in [Instances -> [Messages -> ProcState]]
BY DEF At, TypeOK

(* A step of the queue keeps the types.                                    *)
LEMMA QueueType ==
    ASSUME TypeOK, NEW m \in Messages, Publish(m) \/ Lapse(m)
    PROVE  TypeOK'
BY DEF TypeOK, Publish, Lapse, QueueState

(* A step of the Run loop keeps the types.                                 *)
LEMMA LoopType ==
    ASSUME TypeOK, NEW i \in Instances, Loop(i)
    PROVE  TypeOK'
<1>1. CASE Poll(i) \/ Wake(i)
    BY <1>1 DEF TypeOK, Poll, Wake, sqs, LoopState
<1>2. CASE BatchDone(i)
    BY <1>2 DEF TypeOK, BatchDone, sqs, LoopState, ProcState
<1>3. ASSUME NEW ms \in SUBSET Messages, Receive(i, ms)
      PROVE  TypeOK'
    BY <1>3 DEF TypeOK, Receive, LoopState, ProcState, QueueState
<1>4. ASSUME NEW ms \in SUBSET Messages, ReceiveFails(i, ms)
      PROVE  TypeOK'
    BY <1>4 DEF TypeOK, ReceiveFails, LoopState, QueueState
<1> QED
    BY <1>1, <1>2, <1>3, <1>4 DEF Loop

(* A step of process(), the handler's included, keeps the types.           *)
LEMMA ProcessType ==
    ASSUME TypeOK, NEW i \in Instances, NEW m \in Messages,
           Process(i, m) \/ \E retryable \in BOOLEAN : HandleReturns(i, m, retryable)
    PROVE  TypeOK'
<1>1. CASE Start(i, m)
    BY <1>1, AtType DEF TypeOK, Start, sqs, ProcState, BeatState
<1>2. CASE Decode(i, m)
    BY <1>2, AtType DEF TypeOK, Decode, sqs, ProcState
<1>3. ASSUME NEW deletes \in BOOLEAN, Acknowledge(i, m, deletes)
      PROVE  TypeOK'
    BY <1>3, AtType DEF TypeOK, Acknowledge, ProcState, QueueState
<1>4. CASE HeartbeatExits(i, m)
    BY <1>4 DEF TypeOK, HeartbeatExits, sqs, BeatState
<1>5. CASE StopHeartbeat(i, m)
    BY <1>5, AtType DEF TypeOK, StopHeartbeat, sqs, ProcState
<1>6. ASSUME NEW retryable \in BOOLEAN, HandleReturns(i, m, retryable)
      PROVE  TypeOK'
    BY <1>6, AtType DEF TypeOK, HandleReturns, sqs, ProcState
<1> QED
    BY <1>1, <1>2, <1>3, <1>4, <1>5, <1>6 DEF Process

(* A step of the heartbeat keeps the types.                                *)
LEMMA HeartbeatType ==
    ASSUME TypeOK, NEW i \in Instances, NEW m \in Messages, Heartbeat(i, m)
    PROVE  TypeOK'
<1>1. CASE Renew(i, m)
    BY <1>1 DEF TypeOK, Renew, sqs, BeatState
<1>2. CASE RenewFails(i, m)
    BY <1>2 DEF TypeOK, RenewFails, sqs, BeatState
<1>3. CASE LifetimeReached(i, m)
    BY <1>3 DEF TypeOK, LifetimeReached, sqs, BeatState
<1> QED
    BY <1>1, <1>2, <1>3 DEF Heartbeat

(* So does what happens to the process itself.                             *)
LEMMA LifeType ==
    ASSUME TypeOK, NEW i \in Instances, Cancel(i) \/ Crash(i) \/ Restart(i)
    PROVE  TypeOK'
<1>1. CASE Cancel(i)
    BY <1>1 DEF TypeOK, Cancel, sqs
<1>2. CASE Crash(i)
    BY <1>2 DEF TypeOK, Crash, sqs, LoopState, ProcState, BeatState
<1>3. CASE Restart(i)
    BY <1>3 DEF TypeOK, Restart, sqs, LoopState
<1> QED
    BY <1>1, <1>2, <1>3

(* Every step of the specification keeps the types.                        *)
LEMMA NextType == TypeOK /\ [Next]_vars => TypeOK'
<1> SUFFICES ASSUME TypeOK, [Next]_vars PROVE TypeOK'
    OBVIOUS
<1>1. CASE UNCHANGED vars
    BY <1>1 DEF TypeOK, vars
<1>2. CASE Next
    BY <1>2, QueueType, LoopType, ProcessType, HeartbeatType, LifeType DEF Next
<1> QED
    BY <1>1, <1>2

(* The initial state is typed.                                             *)
LEMMA InitType == Init => TypeOK
BY DEF Init, TypeOK, QueueState, LoopState, ProcState, BeatState

(* sqs.Source.Run, the goroutines of its batch and the queue keep their    *)
(* types under every interleaving, crash and restart.                      *)
THEOREM TypeCorrect == Spec => []TypeOK
BY InitType, NextType, PTL DEF Spec

-----------------------------------------------------------------------------
(* The batch of an instance and its heartbeats *)

(* Outside a batch nothing is in process, and a heartbeat that runs        *)
(* belongs to a process() that runs: together they are inductive.          *)
BatchInv == TypeOK /\ StoppedDrained /\ HeartbeatJoined

(* Initially nothing runs.                                                 *)
LEMMA InitBatch == Init => BatchInv
BY InitType DEF BatchInv, Init, StoppedDrained, HeartbeatJoined

(* A step of the queue touches no instance.                                *)
LEMMA QueueBatch ==
    ASSUME BatchInv, NEW m \in Messages, Publish(m) \/ Lapse(m)
    PROVE  StoppedDrained' /\ HeartbeatJoined'
BY DEF BatchInv, StoppedDrained, HeartbeatJoined, Running, Publish, Lapse

(* The Run loop leaves a batch only when it is processed.                  *)
LEMMA LoopBatch ==
    ASSUME BatchInv, NEW i \in Instances, Loop(i)
    PROVE  StoppedDrained' /\ HeartbeatJoined'
<1> USE DEF BatchInv, TypeOK, StoppedDrained, HeartbeatJoined, Running
<1>1. CASE Poll(i)
    BY <1>1 DEF Poll, sqs
<1>2. CASE Wake(i)
    BY <1>2 DEF Wake, sqs
<1>3. CASE BatchDone(i)
    <2>1. /\ loop[i] = "batch" /\ loop' = [loop EXCEPT ![i] = "pause"]
          /\ \A m \in Messages : proc[i][m] \in {"none", "done"}
          /\ beat' = beat /\ cancelled' = cancelled
        BY <1>3 DEF BatchDone
    <2>2. \A j \in Instances, m \in Messages :
              proc'[j][m] = IF j = i THEN "none" ELSE proc[j][m]
        BY <1>3 DEF BatchDone
    <2>3. StoppedDrained'
        BY <2>1, <2>2
    <2>4. \A m \in Messages : ~Running(i, m) /\ beat[i][m] = "off"
        BY <2>1
    <2>5. ASSUME NEW j \in Instances, NEW m \in Messages
          PROVE  beat'[j][m] # "off" => Running(j, m)'
        <3>1. CASE j = i
            BY <3>1, <2>1, <2>4
        <3>2. CASE j # i
            BY <3>2, <2>1, <2>2
        <3> QED
            BY <3>1, <3>2
    <2> QED
        BY <2>3, <2>5
<1>4. ASSUME NEW ms \in SUBSET Messages, Receive(i, ms)
      PROVE  StoppedDrained' /\ HeartbeatJoined'
    <2>1. /\ loop[i] = "receiving"
          /\ loop' = [loop EXCEPT ![i] = IF ms = {} THEN "pause" ELSE "batch"]
          /\ beat' = beat /\ cancelled' = cancelled
        BY <1>4 DEF Receive
    <2>2. \A j \in Instances, m \in Messages :
              proc'[j][m] = IF j = i THEN IF m \in ms THEN "queued" ELSE "none" ELSE proc[j][m]
        BY <1>4 DEF Receive
    <2>3. StoppedDrained'
        BY <2>1, <2>2
    <2>4. HeartbeatJoined'
        BY <2>1, <2>2
    <2> QED
        BY <2>3, <2>4
<1>5. ASSUME NEW ms \in SUBSET Messages, ReceiveFails(i, ms)
      PROVE  StoppedDrained' /\ HeartbeatJoined'
    BY <1>5 DEF ReceiveFails
<1> QED
    BY <1>1, <1>2, <1>3, <1>4, <1>5 DEF Loop

(* process() runs within a batch, and ends only once its heartbeat ended.  *)
LEMMA ProcessBatch ==
    ASSUME BatchInv, NEW i \in Instances, NEW m \in Messages,
           Process(i, m) \/ \E retryable \in BOOLEAN : HandleReturns(i, m, retryable)
    PROVE  StoppedDrained' /\ HeartbeatJoined'
<1> USE DEF BatchInv, TypeOK, StoppedDrained, HeartbeatJoined, Running, At
<1>1. CASE Start(i, m)
    BY <1>1 DEF Start, sqs
<1>2. CASE Decode(i, m)
    BY <1>2 DEF Decode, sqs
<1>3. ASSUME NEW deletes \in BOOLEAN, Acknowledge(i, m, deletes)
      PROVE  StoppedDrained' /\ HeartbeatJoined'
    BY <1>3 DEF Acknowledge
<1>4. CASE HeartbeatExits(i, m)
    BY <1>4 DEF HeartbeatExits, sqs
<1>5. CASE StopHeartbeat(i, m)
    BY <1>5 DEF StopHeartbeat, sqs
<1>6. ASSUME NEW retryable \in BOOLEAN, HandleReturns(i, m, retryable)
      PROVE  StoppedDrained' /\ HeartbeatJoined'
    BY <1>6 DEF HandleReturns, sqs
<1> QED
    BY <1>1, <1>2, <1>3, <1>4, <1>5, <1>6 DEF Process

(* A heartbeat never starts another one.                                   *)
LEMMA HeartbeatBatch ==
    ASSUME BatchInv, NEW i \in Instances, NEW m \in Messages, Heartbeat(i, m)
    PROVE  StoppedDrained' /\ HeartbeatJoined'
<1> USE DEF BatchInv, TypeOK, StoppedDrained, HeartbeatJoined, Running
<1>1. CASE Renew(i, m)
    BY <1>1 DEF Renew, sqs
<1>2. CASE RenewFails(i, m)
    BY <1>2 DEF RenewFails, sqs
<1>3. CASE LifetimeReached(i, m)
    BY <1>3 DEF LifetimeReached, sqs
<1> QED
    BY <1>1, <1>2, <1>3 DEF Heartbeat

(* A crash takes the goroutines along, and a new process has none.         *)
LEMMA LifeBatch ==
    ASSUME BatchInv, NEW i \in Instances, Cancel(i) \/ Crash(i) \/ Restart(i)
    PROVE  StoppedDrained' /\ HeartbeatJoined'
<1> USE DEF BatchInv, TypeOK, StoppedDrained, HeartbeatJoined, Running
<1>1. CASE Cancel(i)
    BY <1>1 DEF Cancel, sqs
<1>2. CASE Crash(i)
    BY <1>2 DEF Crash, sqs
<1>3. CASE Restart(i)
    BY <1>3 DEF Restart, sqs
<1> QED
    BY <1>1, <1>2, <1>3

(* Every step keeps the invariant.                                         *)
LEMMA NextBatch == BatchInv /\ [Next]_vars => BatchInv'
<1> SUFFICES ASSUME BatchInv, [Next]_vars PROVE StoppedDrained' /\ HeartbeatJoined'
    BY NextType DEF BatchInv
<1>1. CASE UNCHANGED vars
    BY <1>1 DEF BatchInv, StoppedDrained, HeartbeatJoined, Running, vars
<1>2. CASE Next
    BY <1>2, QueueBatch, LoopBatch, ProcessBatch, HeartbeatBatch, LifeBatch DEF Next
<1> QED
    BY <1>1, <1>2

(* The batch invariant of every instance.                                  *)
LEMMA BatchAlways == Spec => []BatchInv
BY InitBatch, NextBatch, PTL DEF Spec

(* No heartbeat goroutine outlives the process() that started it.          *)
THEOREM NoHeartbeatLeaks == Spec => []HeartbeatJoined
<1>1. BatchInv => HeartbeatJoined
    BY DEF BatchInv
<1> QED
    BY <1>1, BatchAlways, PTL

(* Run returns only when it is cancelled and with its batch drained.       *)
THEOREM ReturnsDrained == Spec => []StoppedDrained
<1>1. BatchInv => StoppedDrained
    BY DEF BatchInv
<1> QED
    BY <1>1, BatchAlways, PTL

-----------------------------------------------------------------------------
(* Leases *)

(* The messages of the batch of an instance.                               *)
InBatch(i) == {m \in Messages : proc[i][m] # "none"}

(* receive never asks for more messages than process() goroutines may run. *)
BatchFits == \A i \in Instances : Cardinality(InBatch(i)) <= Concurrency

(* A message that waits for its goroutine, or whose heartbeat is in time,  *)
(* is still leased to the instance that received it.                       *)
LeaseHeld ==
    \A i \in Instances, m \in Messages :
        proc[i][m] = "queued" \/ beat[i][m] = "on"
            => holder[m] = i /\ queue[m] \in {"hidden", "deleted"}

LeaseInv == BatchInv /\ BatchFits /\ LeaseHeld

(* A queued message never has to wait for a goroutine: all of its batch    *)
(* can run at once.                                                        *)
LEMMA QueuedStarts ==
    ASSUME TypeOK, BatchFits, NEW i \in Instances, NEW m \in Messages,
           proc[i][m] = "queued"
    PROVE  RunningCount(i) < Concurrency
<1> DEFINE R == {n \in Messages : Running(i, n)}
           B == InBatch(i)
<1>1. IsFiniteSet(B)
    BY FS_Subset, QueueConstants DEF InBatch
<1>2. R \subseteq B /\ m \in B /\ m \notin R
    BY DEF InBatch, Running
<1>3. /\ IsFiniteSet(R) /\ Cardinality(R) <= Cardinality(B)
      /\ Cardinality(R) # Cardinality(B)
    BY <1>1, <1>2, FS_Subset
<1>4. Cardinality(R) \in Nat /\ Cardinality(B) \in Nat
    BY <1>1, <1>3, FS_CardinalityType
<1>5. Cardinality(B) <= Concurrency /\ Concurrency \in Nat
    BY QueueConstants DEF BatchFits
<1>6. RunningCount(i) = Cardinality(R)
    BY DEF RunningCount
<1> HIDE DEF R, B
<1> QED
    BY <1>3, <1>4, <1>5, <1>6

(* A step that adds nothing to a batch keeps it small enough.              *)
LEMMA BatchShrinks ==
    ASSUME BatchFits, \A i \in Instances : InBatch(i)' \subseteq InBatch(i)
    PROVE  BatchFits'
<1> SUFFICES ASSUME NEW i \in Instances PROVE Cardinality(InBatch(i)') <= Concurrency
    BY DEF BatchFits
<1>1. IsFiniteSet(InBatch(i))
    BY FS_Subset, QueueConstants DEF InBatch
<1>2. /\ IsFiniteSet(InBatch(i)')
      /\ Cardinality(InBatch(i)') <= Cardinality(InBatch(i))
    BY <1>1, FS_Subset
<1>3. Cardinality(InBatch(i)) \in Nat /\ Cardinality(InBatch(i)') \in Nat
    BY <1>1, <1>2, FS_CardinalityType
<1> QED
    BY <1>2, <1>3, QueueConstants DEF BatchFits

(* A batch that was just received is small enough.                         *)
LEMMA ReceiveFits ==
    ASSUME TypeOK, BatchFits, NEW i \in Instances, NEW ms \in SUBSET Messages,
           Receive(i, ms)
    PROVE  BatchFits'
<1> SUFFICES ASSUME NEW j \in Instances PROVE Cardinality(InBatch(j)') <= Concurrency
    BY DEF BatchFits
<1>1. CASE j = i
    <2>1. InBatch(j)' = ms
        BY <1>1 DEF InBatch, Receive, TypeOK
    <2>2. Cardinality(ms) \in Nat
        BY QueueConstants, FS_Subset, FS_CardinalityType
    <2> QED
        BY <2>1, <2>2, QueueConstants DEF Receive, BatchLimit
<1>2. CASE j # i
    BY <1>2 DEF InBatch, Receive, TypeOK, BatchFits
<1> QED
    BY <1>1, <1>2

(* Only a receive adds to a batch.                                         *)
LEMMA NextFits ==
    ASSUME BatchInv, BatchFits, Next
    PROVE  BatchFits'
<1> USE DEF BatchInv, TypeOK
<1>1. ASSUME NEW m \in Messages, Publish(m) \/ Lapse(m)
      PROVE  BatchFits'
    BY <1>1 DEF BatchFits, InBatch, Publish, Lapse
<1>2. ASSUME NEW i \in Instances, Loop(i)
      PROVE  BatchFits'
    <2>1. CASE Poll(i) \/ Wake(i)
        BY <2>1 DEF BatchFits, InBatch, Poll, Wake
    <2>2. CASE BatchDone(i)
        BY <2>2, BatchShrinks DEF InBatch, BatchDone
    <2>3. ASSUME NEW ms \in SUBSET Messages, Receive(i, ms)
          PROVE  BatchFits'
        BY <2>3, ReceiveFits
    <2>4. ASSUME NEW ms \in SUBSET Messages, ReceiveFails(i, ms)
          PROVE  BatchFits'
        BY <2>4 DEF BatchFits, InBatch, ReceiveFails
    <2> QED
        BY <1>2, <2>1, <2>2, <2>3, <2>4 DEF Loop
<1>3. ASSUME NEW i \in Instances, Cancel(i) \/ Crash(i) \/ Restart(i)
      PROVE  BatchFits'
    <2>1. CASE Crash(i)
        BY <2>1, BatchShrinks DEF InBatch, Crash
    <2>2. CASE Cancel(i) \/ Restart(i)
        BY <2>2 DEF BatchFits, InBatch, Cancel, Restart
    <2> QED
        BY <1>3, <2>1, <2>2
<1>4. ASSUME NEW i \in Instances, NEW m \in Messages,
             proc[i][m] # "none", NEW to, proc' = [proc EXCEPT ![i][m] = to]
      PROVE  BatchFits'
    BY <1>4, BatchShrinks DEF InBatch
<1>5. ASSUME NEW i \in Instances, NEW m \in Messages,
             Process(i, m) \/ \E retryable \in BOOLEAN : HandleReturns(i, m, retryable)
      PROVE  BatchFits'
    <2>1. CASE HeartbeatExits(i, m)
        BY <2>1 DEF BatchFits, InBatch, HeartbeatExits
    <2>2. CASE ~HeartbeatExits(i, m)
        BY <1>4, <1>5, <2>2
           DEF Process, Start, Decode, Acknowledge, StopHeartbeat, HandleReturns, At
    <2> QED
        BY <2>1, <2>2
<1>6. ASSUME NEW i \in Instances, NEW m \in Messages, Heartbeat(i, m)
      PROVE  BatchFits'
    BY <1>6 DEF BatchFits, InBatch, Heartbeat, Renew, RenewFails, LifetimeReached
<1> QED
    BY <1>1, <1>2, <1>3, <1>5, <1>6 DEF Next

(* Outside the batch an instance holds no lease.                           *)
LEMMA IdleHoldsNothing ==
    ASSUME BatchInv, NEW i \in Instances, loop[i] # "batch", NEW m \in Messages
    PROVE  proc[i][m] = "none" /\ beat[i][m] = "off"
BY DEF BatchInv, TypeOK, StoppedDrained, HeartbeatJoined, Running

(* The queue takes a message only from an instance that let its lease go.  *)
LEMMA QueueHeld ==
    ASSUME LeaseInv, NEW m \in Messages, Publish(m) \/ Lapse(m)
    PROVE  LeaseHeld'
<1> USE DEF LeaseInv, BatchInv, TypeOK
<1>1. CASE Publish(m)
    BY <1>1 DEF LeaseHeld, Publish
<1>2. CASE Lapse(m)
    <2>1. /\ queue' = [queue EXCEPT ![m] = "visible"]
          /\ UNCHANGED <<holder, proc, beat>>
          /\ ~Leased(m)
        BY <1>2 DEF Lapse
    <2>2. \A i \in Instances : proc[i][m] # "queued" /\ beat[i][m] # "on"
        BY <2>1, QueuedStarts DEF Leased, LeaseHeld
    <2> QED
        BY <2>1, <2>2 DEF LeaseHeld
<1> QED
    BY <1>1, <1>2

(* A receive only gets messages that nobody leases.                        *)
LEMMA LoopHeld ==
    ASSUME LeaseInv, NEW i \in Instances, Loop(i)
    PROVE  LeaseHeld'
<1> USE DEF LeaseInv
<1>1. CASE Poll(i) \/ Wake(i)
    BY <1>1 DEF LeaseHeld, Poll, Wake, sqs
<1>2. CASE BatchDone(i)
    <2>1. \A j \in Instances, m \in Messages :
              proc'[j][m] = IF j = i THEN "none" ELSE proc[j][m]
        BY <1>2 DEF BatchDone, BatchInv, TypeOK
    <2>2. UNCHANGED <<queue, holder, beat>>
        BY <1>2 DEF BatchDone, sqs
    <2> QED
        BY <2>1, <2>2 DEF LeaseHeld
<1>3. ASSUME NEW ms \in SUBSET Messages, Receive(i, ms)
      PROVE  LeaseHeld'
    <2>1. /\ loop[i] # "batch" /\ beat' = beat
          /\ \A m \in ms : queue[m] = "visible"
          /\ \A m \in Messages : queue'[m] = IF m \in ms THEN "hidden" ELSE queue[m]
          /\ \A m \in Messages : holder'[m] = IF m \in ms THEN i ELSE holder[m]
        BY <1>3 DEF Receive
    <2>2. \A j \in Instances, m \in Messages :
              proc'[j][m] = IF j = i THEN IF m \in ms THEN "queued" ELSE "none" ELSE proc[j][m]
        BY <1>3 DEF Receive, BatchInv, TypeOK
    <2>3. \A m \in Messages : beat[i][m] = "off"
        BY <2>1, IdleHoldsNothing
    <2> QED
        BY <2>1, <2>2, <2>3 DEF LeaseHeld
<1>4. ASSUME NEW ms \in SUBSET Messages, ReceiveFails(i, ms)
      PROVE  LeaseHeld'
    BY <1>4 DEF LeaseHeld, ReceiveFails
<1> QED
    BY <1>1, <1>2, <1>3, <1>4 DEF Loop

(* process() gives up no lease before its heartbeat ends.                  *)
LEMMA ProcessHeld ==
    ASSUME LeaseInv, NEW i \in Instances, NEW m \in Messages,
           Process(i, m) \/ \E retryable \in BOOLEAN : HandleReturns(i, m, retryable)
    PROVE  LeaseHeld'
<1> USE DEF LeaseInv, BatchInv, TypeOK, LeaseHeld, At
<1>1. CASE Start(i, m)
    BY <1>1 DEF Start, sqs
<1>2. CASE Decode(i, m)
    BY <1>2 DEF Decode, sqs
<1>3. ASSUME NEW deletes \in BOOLEAN, Acknowledge(i, m, deletes)
      PROVE  LeaseHeld'
    BY <1>3 DEF Acknowledge
<1>4. CASE HeartbeatExits(i, m)
    BY <1>4 DEF HeartbeatExits, sqs
<1>5. CASE StopHeartbeat(i, m)
    BY <1>5 DEF StopHeartbeat, sqs
<1>6. ASSUME NEW retryable \in BOOLEAN, HandleReturns(i, m, retryable)
      PROVE  LeaseHeld'
    BY <1>6 DEF HandleReturns, sqs
<1> QED
    BY <1>1, <1>2, <1>3, <1>4, <1>5, <1>6 DEF Process

(* A heartbeat is in time again only after a renewal SQS accepted.         *)
LEMMA HeartbeatHeld ==
    ASSUME LeaseInv, NEW i \in Instances, NEW m \in Messages, Heartbeat(i, m)
    PROVE  LeaseHeld'
<1> USE DEF LeaseInv, BatchInv, TypeOK, LeaseHeld
<1>1. CASE Renew(i, m)
    BY <1>1 DEF Renew, sqs
<1>2. CASE RenewFails(i, m)
    BY <1>2 DEF RenewFails, sqs
<1>3. CASE LifetimeReached(i, m)
    BY <1>3 DEF LifetimeReached, sqs
<1> QED
    BY <1>1, <1>2, <1>3 DEF Heartbeat

(* A process that dies or starts holds nothing.                            *)
LEMMA LifeHeld ==
    ASSUME LeaseInv, NEW i \in Instances, Cancel(i) \/ Crash(i) \/ Restart(i)
    PROVE  LeaseHeld'
<1>1. CASE Cancel(i) \/ Restart(i)
    BY <1>1 DEF LeaseInv, LeaseHeld, Cancel, Restart, sqs
<1>2. CASE Crash(i)
    BY <1>2 DEF LeaseInv, BatchInv, TypeOK, LeaseHeld, Crash, sqs
<1> QED
    BY <1>1, <1>2

(* Initially no batch and no lease.                                        *)
LEMMA InitLease == Init => LeaseInv
<1> SUFFICES ASSUME Init PROVE BatchFits /\ LeaseHeld
    BY InitBatch DEF LeaseInv
<1>1. \A i \in Instances : InBatch(i) = {}
    BY DEF Init, InBatch
<1>2. BatchFits
    BY <1>1, FS_EmptySet, QueueConstants DEF BatchFits
<1> QED
    BY <1>2 DEF Init, LeaseHeld

(* Every step keeps the leases.                                            *)
LEMMA NextLease == LeaseInv /\ [Next]_vars => LeaseInv'
<1> SUFFICES ASSUME LeaseInv, [Next]_vars PROVE BatchFits' /\ LeaseHeld'
    BY NextBatch DEF LeaseInv
<1>1. CASE UNCHANGED vars
    BY <1>1 DEF LeaseInv, BatchFits, InBatch, LeaseHeld, vars
<1>2. CASE Next
    <2>1. BatchFits'
        BY <1>2, NextFits DEF LeaseInv
    <2>2. LeaseHeld'
        BY <1>2, QueueHeld, LoopHeld, ProcessHeld, HeartbeatHeld, LifeHeld DEF Next
    <2> QED
        BY <2>1, <2>2
<1> QED
    BY <1>1, <1>2

(* Two instances that handle one message at once have not both kept their  *)
(* lease: a message is shared only after a renewal failed or ended.        *)
THEOREM MessageLeasedOnce == Spec => []LeaseExclusive
<1>1. LeaseInv => LeaseExclusive
    BY DEF LeaseInv, LeaseHeld, LeaseExclusive
<1> QED
    BY <1>1, InitLease, NextLease, PTL DEF Spec

-----------------------------------------------------------------------------
(* The EventSource port *)

(* What process() knows of its message: it was published, and it is about  *)
(* to be acknowledged only when its fate is final; so is what was deleted. *)
OutcomeInv ==
    /\ TypeOK
    /\ \A i \in Instances, m \in Messages :
         /\ proc[i][m] # "none" => queue[m] # "unsent"
         /\ proc[i][m] = "ack" => m \in final
    /\ \A m \in Messages :
         /\ m \in final => queue[m] # "unsent"
         /\ queue[m] = "deleted" => m \in final

(* Initially nothing is published.                                         *)
LEMMA InitOutcome == Init => OutcomeInv
BY InitType DEF OutcomeInv, Init

(* Publishing and lapsing decide nothing.                                  *)
LEMMA QueueOutcome ==
    ASSUME OutcomeInv, NEW m \in Messages, Publish(m) \/ Lapse(m)
    PROVE  OutcomeInv'
<1>1. TypeOK'
    BY QueueType DEF OutcomeInv
<1> QED
    BY <1>1 DEF OutcomeInv, TypeOK, Publish, Lapse

(* A batch consists of published messages.                                 *)
LEMMA LoopOutcome ==
    ASSUME OutcomeInv, NEW i \in Instances, Loop(i)
    PROVE  OutcomeInv'
<1> USE DEF OutcomeInv
<1>0. TypeOK'
    BY LoopType
<1>1. CASE Poll(i) \/ Wake(i)
    BY <1>0, <1>1 DEF Poll, Wake, sqs
<1>2. CASE BatchDone(i)
    <2>1. \A j \in Instances, m \in Messages :
              proc'[j][m] = IF j = i THEN "none" ELSE proc[j][m]
        BY <1>2 DEF BatchDone, TypeOK
    <2> QED
        BY <1>0, <1>2, <2>1 DEF BatchDone, sqs
<1>3. ASSUME NEW ms \in SUBSET Messages, Receive(i, ms)
      PROVE  OutcomeInv'
    <2>1. /\ \A m \in ms : queue[m] = "visible"
          /\ \A m \in Messages : queue'[m] = IF m \in ms THEN "hidden" ELSE queue[m]
          /\ final' = final
        BY <1>3 DEF Receive
    <2>2. \A j \in Instances, m \in Messages :
              proc'[j][m] = IF j = i THEN IF m \in ms THEN "queued" ELSE "none" ELSE proc[j][m]
        BY <1>3 DEF Receive, TypeOK
    <2> QED
        BY <1>0, <2>1, <2>2
<1>4. ASSUME NEW ms \in SUBSET Messages, ReceiveFails(i, ms)
      PROVE  OutcomeInv'
    BY <1>0, <1>4 DEF ReceiveFails, TypeOK
<1> QED
    BY <1>1, <1>2, <1>3, <1>4 DEF Loop

(* process() acknowledges only what cannot be decoded or was handled for   *)
(* good.                                                                   *)
LEMMA ProcessOutcome ==
    ASSUME OutcomeInv, NEW i \in Instances, NEW m \in Messages,
           Process(i, m) \/ \E retryable \in BOOLEAN : HandleReturns(i, m, retryable)
    PROVE  OutcomeInv'
<1> USE DEF OutcomeInv, At
<1>0. TypeOK'
    BY ProcessType
<1>1. CASE Start(i, m)
    BY <1>0, <1>1 DEF Start, sqs, TypeOK
<1>2. CASE Decode(i, m)
    BY <1>0, <1>2 DEF Decode, sqs, TypeOK
<1>3. ASSUME NEW deletes \in BOOLEAN, Acknowledge(i, m, deletes)
      PROVE  OutcomeInv'
    BY <1>0, <1>3 DEF Acknowledge, TypeOK
<1>4. CASE HeartbeatExits(i, m)
    BY <1>0, <1>4 DEF HeartbeatExits, sqs
<1>5. CASE StopHeartbeat(i, m)
    BY <1>0, <1>5 DEF StopHeartbeat, sqs, TypeOK
<1>6. ASSUME NEW retryable \in BOOLEAN, HandleReturns(i, m, retryable)
      PROVE  OutcomeInv'
    BY <1>0, <1>6 DEF HandleReturns, sqs, TypeOK
<1> QED
    BY <1>1, <1>2, <1>3, <1>4, <1>5, <1>6 DEF Process

(* Heartbeats and restarts decide nothing.                                 *)
LEMMA LifeOutcome ==
    ASSUME OutcomeInv, NEW i \in Instances,
           \/ Cancel(i) \/ Crash(i) \/ Restart(i)
           \/ \E m \in Messages : Heartbeat(i, m)
    PROVE  OutcomeInv'
<1>0. TypeOK'
    BY LifeType, HeartbeatType DEF OutcomeInv
<1>1. CASE Crash(i)
    BY <1>0, <1>1 DEF OutcomeInv, TypeOK, Crash, sqs
<1>2. CASE ~Crash(i)
    BY <1>0, <1>2 DEF OutcomeInv, Cancel, Restart, Heartbeat, Renew, RenewFails,
                      LifetimeReached, sqs
<1> QED
    BY <1>1, <1>2

(* Every step keeps the invariant.                                         *)
LEMMA NextOutcome == OutcomeInv /\ [Next]_vars => OutcomeInv'
<1> SUFFICES ASSUME OutcomeInv, [Next]_vars PROVE OutcomeInv'
    OBVIOUS
<1>1. CASE UNCHANGED vars
    BY <1>1, NextType DEF OutcomeInv, vars
<1>2. CASE Next
    BY <1>2, QueueOutcome, LoopOutcome, ProcessOutcome, LifeOutcome DEF Next
<1> QED
    BY <1>1, <1>2

(* The messages of the port: published, and acknowledged.                  *)
Arrived == {m \in Messages : queue[m] # "unsent"}
Gone    == {m \in Messages : queue[m] = "deleted"}

(* A step that neither publishes nor deletes nor concludes is a stutter of *)
(* the port.                                                               *)
LEMMA PortStutters ==
    ASSUME Arrived' = Arrived, Gone' = Gone, final' = final
    PROVE  [Port!ESNext]_Port!esVars
BY DEF Arrived, Gone, Port!esVars

(* A publish is an arrival and a lapse is nothing.                         *)
LEMMA QueuePort ==
    ASSUME OutcomeInv, NEW m \in Messages, Publish(m) \/ Lapse(m)
    PROVE  [Port!ESNext]_Port!esVars
<1>1. CASE Publish(m)
    <2>1. /\ m \notin Arrived /\ Arrived' = Arrived \cup {m}
          /\ Gone' = Gone /\ final' = final
        BY <1>1 DEF Publish, OutcomeInv, TypeOK, Arrived, Gone
    <2>2. Port!Arrive(m)
        BY <2>1 DEF Port!Arrive, Arrived, Gone
    <2> QED
        BY <2>2 DEF Port!ESNext
<1>2. CASE Lapse(m)
    <2>1. Arrived' = Arrived /\ Gone' = Gone /\ final' = final
        BY <1>2 DEF Lapse, OutcomeInv, TypeOK, Arrived, Gone
    <2> QED
        BY <2>1, PortStutters
<1> QED
    BY <1>1, <1>2

(* The Run loop does nothing the port can see.                             *)
LEMMA LoopPort ==
    ASSUME OutcomeInv, NEW i \in Instances, Loop(i)
    PROVE  [Port!ESNext]_Port!esVars
<1>1. Arrived' = Arrived /\ Gone' = Gone /\ final' = final
    <2>1. CASE Poll(i) \/ Wake(i) \/ BatchDone(i)
        BY <2>1 DEF Poll, Wake, BatchDone, sqs, Arrived, Gone
    <2>2. ASSUME NEW ms \in SUBSET Messages, Receive(i, ms) \/ ReceiveFails(i, ms)
          PROVE  Arrived' = Arrived /\ Gone' = Gone /\ final' = final
        BY <2>2 DEF Receive, ReceiveFails, Arrived, Gone
    <2> QED
        BY <2>1, <2>2 DEF Loop
<1> QED
    BY <1>1, PortStutters

(* A message is concluded by the decoder or the handler, unless it was     *)
(* concluded before.                                                       *)
LEMMA ConcludePort ==
    ASSUME OutcomeInv, NEW m \in Messages, queue[m] # "unsent", queue' = queue,
           final' = final \/ final' = final \cup {m}
    PROVE  [Port!ESNext]_Port!esVars
<1>1. Arrived' = Arrived /\ Gone' = Gone /\ m \in Arrived
    BY DEF Arrived, Gone
<1>2. CASE final' = final
    BY <1>1, <1>2, PortStutters
<1>3. CASE final' # final
    <2>1. m \notin final /\ final' = final \cup {m}
        BY <1>3
    <2>2. Port!Conclude(m)
        BY <1>1, <2>1 DEF Port!Conclude, Arrived, Gone
    <2> QED
        BY <2>2 DEF Port!ESNext
<1> QED
    BY <1>2, <1>3

(* A delete removes a concluded message, unless it was removed before.     *)
LEMMA AcknowledgePort ==
    ASSUME OutcomeInv, NEW i \in Instances, NEW m \in Messages,
           NEW deletes \in BOOLEAN, Acknowledge(i, m, deletes)
    PROVE  [Port!ESNext]_Port!esVars
<1>1. m \in final /\ queue[m] # "unsent" /\ final' = final
    BY DEF OutcomeInv, Acknowledge, At
<1>2. Arrived' = Arrived
    BY <1>1 DEF Acknowledge, Arrived, OutcomeInv, TypeOK
<1>3. CASE deletes /\ m \notin Gone
    <2>1. Gone' = Gone \cup {m}
        BY <1>3 DEF Acknowledge, Gone, OutcomeInv, TypeOK
    <2>2. Port!Remove(m)
        BY <1>1, <1>2, <1>3, <2>1 DEF Port!Remove, Arrived, Gone
    <2> QED
        BY <2>2 DEF Port!ESNext
<1>4. CASE ~deletes \/ m \in Gone
    <2>1. Gone' = Gone
        BY <1>4 DEF Acknowledge, Gone, OutcomeInv, TypeOK
    <2> QED
        BY <1>1, <1>2, <2>1, PortStutters
<1> QED
    BY <1>3, <1>4

(* Every step of the source is a step of the port or none.                 *)
LEMMA NextPort == OutcomeInv /\ [Next]_vars => [Port!ESNext]_Port!esVars
<1> SUFFICES ASSUME OutcomeInv, [Next]_vars PROVE [Port!ESNext]_Port!esVars
    OBVIOUS
<1>1. ASSUME queue' = queue, final' = final
      PROVE  [Port!ESNext]_Port!esVars
    BY <1>1, PortStutters DEF Arrived, Gone
<1>2. ASSUME NEW i \in Instances, NEW m \in Messages,
             Process(i, m) \/ \E retryable \in BOOLEAN : HandleReturns(i, m, retryable)
      PROVE  [Port!ESNext]_Port!esVars
    <2>1. CASE Start(i, m) \/ HeartbeatExits(i, m) \/ StopHeartbeat(i, m)
        BY <1>1, <2>1 DEF Start, HeartbeatExits, StopHeartbeat, sqs
    <2>2. CASE Decode(i, m)
        <3>1. /\ queue[m] # "unsent" /\ queue' = queue
              /\ final' = final \/ final' = final \cup {m}
            BY <2>2 DEF Decode, At, OutcomeInv, sqs
        <3> QED
            BY <3>1, ConcludePort
    <2>3. ASSUME NEW retryable \in BOOLEAN, HandleReturns(i, m, retryable)
          PROVE  [Port!ESNext]_Port!esVars
        <3>1. /\ queue[m] # "unsent" /\ queue' = queue
              /\ final' = final \/ final' = final \cup {m}
            BY <2>3 DEF HandleReturns, At, OutcomeInv, sqs
        <3> QED
            BY <3>1, ConcludePort
    <2> QED
        BY <1>2, <2>1, <2>2, <2>3, AcknowledgePort DEF Process
<1>3. ASSUME NEW i \in Instances,
             \/ Cancel(i) \/ Crash(i) \/ Restart(i)
             \/ \E m \in Messages : Heartbeat(i, m)
      PROVE  [Port!ESNext]_Port!esVars
    BY <1>1, <1>3 DEF Cancel, Crash, Restart, Heartbeat, Renew, RenewFails,
                      LifetimeReached, sqs
<1>4. CASE UNCHANGED vars
    BY <1>1, <1>4 DEF vars
<1>5. CASE Next
    BY <1>2, <1>3, <1>5, QueuePort, LoopPort DEF Next
<1> QED
    BY <1>4, <1>5

(* The queue source implements the port: whatever crashes, fails or is     *)
(* delivered twice, only a message whose fate is final is removed.         *)
THEOREM SourceImplementsPort == Spec => ImplementsEventSource
<1>1. Init => Port!ESInit
    BY DEF Init, Port!ESInit
<1> QED
    BY <1>1, InitOutcome, NextOutcome, NextPort, PTL
       DEF Spec, ImplementsEventSource, Port!ESSpec

-----------------------------------------------------------------------------
(* The heartbeat against the clock: arithmetic *)

(* The parameters as numbers.                                              *)
LEMMA Parameters ==
    /\ Second \in Nat /\ Lease \in Nat /\ MaxCall \in Nat /\ Lifetime \in Nat
    /\ Margin \in Nat /\ Delay \in Nat /\ Jitter \in Nat
    /\ Second >= 8 /\ Lease >= Second /\ MaxCall >= Second
BY HeartbeatConstants

(* Rounding down to whole seconds.                                         *)
Whole(x) == (x \div Second) * Second

(* A product grows with its factor.                                        *)
LEMMA ProductMonotone ==
    ASSUME NEW a \in Int, NEW b \in Int, NEW s \in Nat, a <= b
    PROVE  a * s <= b * s
OBVIOUS

(* Rounding down gives no more, loses less than a second, and keeps order. *)
LEMMA WholeFacts ==
    ASSUME NEW x \in Int, NEW y \in Int, x <= y
    PROVE  /\ Whole(x) \in Int /\ Whole(x) <= x /\ x < Whole(x) + Second
           /\ Whole(x) <= Whole(y)
<1> DEFINE p == x \div Second
           q == y \div Second
<1>1. Second \in Nat /\ Second > 0
    BY Parameters
<1>2. /\ p \in Int /\ p * Second <= x /\ x < p * Second + Second
      /\ q \in Int /\ q * Second <= y /\ y < q * Second + Second
    BY <1>1
<1> HIDE DEF p, q
<1>3. p <= q
    <2> SUFFICES ASSUME q + 1 <= p PROVE FALSE
        BY <1>2
    <2>1. (q + 1) * Second <= p * Second
        BY <1>1, <1>2, ProductMonotone
    <2>2. (q + 1) * Second = q * Second + Second
        BY <1>1, <1>2
    <2>3. p * Second \in Int /\ q * Second \in Int
        BY <1>1, <1>2
    <2> QED
        BY <1>1, <1>2, <2>1, <2>2, <2>3
<1>4. p * Second <= q * Second /\ p * Second \in Int
    BY <1>1, <1>2, <1>3, ProductMonotone
<1> QED
    BY <1>2, <1>4 DEF Whole, p, q

(* The delays of the goroutine are positive, and the regular one is half   *)
(* of the lease.                                                           *)
LEMMA Delays ==
    /\ regularDelay \in Nat /\ 4 <= regularDelay
    /\ 2 * regularDelay <= Lease /\ Lease <= 2 * regularDelay + 1
    /\ retryDelay \in Nat /\ 1 <= retryDelay
BY Parameters DEF regularDelay, retryDelay, Smaller

(* The lease asked for is at most a full one, and fits into the lifetime.  *)
LEMMA RenewalFacts ==
    ASSUME now \in Nat
    PROVE  /\ RenewalLease \in Int /\ RenewalLease <= Lease
           /\ RenewalLease <= Lifetime - now - Margin
<1>1. Lifetime - now - Margin \in Int
    BY Parameters
<1>2. /\ Whole(Lifetime - now - Margin) \in Int
      /\ Whole(Lifetime - now - Margin) <= Lifetime - now - Margin
    BY <1>1, WholeFacts
<1>3. RenewalLease = Smaller(Lease, Whole(Lifetime - now - Margin))
    BY DEF RenewalLease, Whole
<1> QED
    BY <1>1, <1>2, <1>3, Parameters DEF Smaller

(* The timeout of a call is positive, and half of what is left of the      *)
(* lease if that is something.                                             *)
LEMMA CallTimeoutFacts ==
    ASSUME now \in Nat, deadline \in Nat
    PROVE  /\ CallTimeout \in Nat /\ 1 <= CallTimeout
           /\ deadline - now >= 2 =>
                CallTimeout = Smaller(MaxCall, (deadline - now) \div 2)
           /\ deadline - now >= 2 => 2 * CallTimeout <= deadline - now
BY Parameters, Delays DEF CallTimeout, Smaller

(* A retry waits, and begins before the lease ends if it can.              *)
LEMMA RetryDelayFacts ==
    ASSUME now \in Nat, deadline \in Nat
    PROVE  /\ RetryDelay \in Nat /\ 1 <= RetryDelay
           /\ deadline - now >= 2 => RetryDelay < deadline - now
BY Delays DEF RetryDelay, Smaller

-----------------------------------------------------------------------------
(* Type correctness and the calls *)

(* A call asks for an acceptable lease and ends in time for another one.   *)
CallInv ==
    pc = "call" =>
        /\ Second <= renewal /\ renewal <= Lifetime - Margin - began
        /\ deadline - began >= 2 => 2 * (callEnd - began) <= deadline - began

TimerInv == BeatTypeOK /\ CallInv

(* The goroutine starts with the lease of the receive.                     *)
LEMMA InitTimer == BeatInit => TimerInv
<1> SUFFICES ASSUME BeatInit PROVE TimerInv
    OBVIOUS
<1>1. now \in Nat /\ deadline \in Nat /\ callEnd \in Nat /\ renewal \in Nat /\ began \in Nat
    BY Parameters DEF BeatInit
<1>2. timer \in Nat
    BY Delays DEF BeatInit
<1>3. expiry \in Int
    BY Parameters DEF BeatInit
<1>4. pc = "wait" /\ applied \in BOOLEAN /\ failed \in BOOLEAN
    BY Zenon DEF BeatInit
<1> QED
    BY <1>1, <1>2, <1>3, <1>4 DEF TimerInv, BeatTypeOK, CallInv

(* Every step keeps the types and the promises of a call.                  *)
LEMMA NextTimer == TimerInv /\ [BeatNext]_beatVars => TimerInv'
<1> SUFFICES ASSUME TimerInv, [BeatNext]_beatVars PROVE TimerInv'
    OBVIOUS
<1> USE Parameters DEF TimerInv, BeatTypeOK, CallInv
<1>1. CASE UNCHANGED beatVars
    BY <1>1 DEF beatVars
<1>2. CASE Tick
    BY <1>2 DEF Tick
<1>3. CASE Fire
    <2>1. CASE RenewalLease < Second
        BY <1>3, <2>1 DEF Fire
    <2>2. CASE ~(RenewalLease < Second)
        <3>1. /\ pc' = "call" /\ renewal' = RenewalLease /\ callEnd' = now + CallTimeout
              /\ began' = now /\ applied' = FALSE /\ UNCHANGED <<now, timer, deadline, expiry, failed>>
            BY <1>3, <2>2 DEF Fire
        <3>2. /\ RenewalLease \in Int /\ RenewalLease <= Lifetime - now - Margin
              /\ Second <= RenewalLease
            BY <2>2, RenewalFacts
        <3>3. /\ CallTimeout \in Nat /\ 1 <= CallTimeout
              /\ deadline - now >= 2 => 2 * CallTimeout <= deadline - now
            BY CallTimeoutFacts
        <3>4. applied' \in BOOLEAN /\ failed' \in BOOLEAN
            BY <3>1, Zenon
        <3>5. now' \in Nat /\ timer' \in Nat /\ deadline' \in Nat /\ expiry' \in Int
            BY <3>1
        <3>6. /\ callEnd' \in Nat /\ renewal' \in Nat /\ began' \in Nat
              /\ began' <= now' /\ now' <= callEnd'
            BY <3>1, <3>2, <3>3
        <3>7. CallInv'
            BY <3>1, <3>2, <3>3
        <3> QED
            BY <3>1, <3>4, <3>5, <3>6, <3>7
    <2> QED
        BY <2>1, <2>2
<1>4. CASE Apply
    BY <1>4 DEF Apply
<1>5. CASE Succeed
    BY <1>5 DEF Succeed
<1>6. CASE Fail
    BY <1>6, RetryDelayFacts DEF Fail
<1>7. CASE Stop
    BY <1>7 DEF Stop
<1> QED
    BY <1>1, <1>2, <1>3, <1>4, <1>5, <1>6, <1>7 DEF BeatNext

(* The clocks and the calls in every state.                                *)
LEMMA TimerAlways == BeatSpec => []TimerInv
BY InitTimer, NextTimer, PTL DEF BeatSpec

(* A renewal that reaches SQS within the margin is one SQS accepts, for    *)
(* every lifetime, margin and clock.                                       *)
THEOREM RenewalsAccepted == BeatSpec => []RenewalAccepted
<1>1. TimerInv => RenewalAccepted
    BY Parameters DEF TimerInv, BeatTypeOK, CallInv, RenewalAccepted
<1> QED
    BY <1>1, TimerAlways, PTL

(* A call that ends is followed by a wait, and by another call before the  *)
(* lease ends, if there were four ticks left of it when the call began.    *)
THEOREM RetriesInTime == BeatSpec => RetryInTime
<1> DEFINE A == pc = "call" /\ pc' = "wait" =>
                  now < timer' /\ (deadline' - began >= 4 => timer' < deadline')
<1>1. TimerInv /\ [BeatNext]_beatVars => [A]_beatVars
    <2> SUFFICES ASSUME TimerInv, BeatNext, pc = "call", pc' = "wait"
                 PROVE  now < timer' /\ (deadline' - began >= 4 => timer' < deadline')
        BY DEF beatVars
    <2>1. CASE Succeed
        BY <2>1, Parameters DEF Succeed, TimerInv, BeatTypeOK, CallInv
    <2>2. CASE Fail
        <3>1. timer' = now + RetryDelay /\ deadline' = deadline
            BY <2>2 DEF Fail
        <3>2. /\ RetryDelay \in Nat /\ 1 <= RetryDelay
              /\ deadline - now >= 2 => RetryDelay < deadline - now
            BY RetryDelayFacts DEF TimerInv, BeatTypeOK
        <3>3. deadline - began >= 4 => deadline - now >= 2
            BY DEF TimerInv, BeatTypeOK, CallInv
        <3> QED
            BY <3>1, <3>2, <3>3 DEF TimerInv, BeatTypeOK
    <2> QED
        BY <2>1, <2>2 DEF BeatNext, Tick, Fire, Apply, Stop
<1> QED
    BY <1>1, TimerAlways, PTL DEF BeatSpec, RetryInTime

-----------------------------------------------------------------------------
(* The lease *)

(* What is left of the lease when the timer fires, the time a call may     *)
(* take when r is left, and what is left after it.                         *)
Half        == Lease - regularDelay
Longest(r)  == Smaller(MaxCall, r \div 2)
Reserve     == (Half - Jitter) - Longest(Half - Jitter)

(* The room the lease leaves: even when the timer is late and the call     *)
(* takes as long as it may, what is left covers the age of the first lease *)
(* and the age of a renewed one, whose call may have taken all its time to *)
(* answer after SQS executed it.                                           *)
LeaseRoom ==
    /\ Half - Jitter >= 2
    /\ Delay <= Reserve
    /\ Longest(Half) <= Reserve + 1

(* While no call failed and leases are full: the timer is set to half of   *)
(* the lease, SQS lags behind the goroutine by less than the reserve, and  *)
(* a call ends before the lease that it renews.                            *)
RoomInv ==
    /\ TimerInv
    /\ renewal # Lease => RenewalLease # Lease
    /\ ~failed /\ renewal = Lease /\ pc = "wait" =>
         /\ timer = deadline - Half /\ now <= timer + Jitter
         /\ deadline - Reserve <= expiry
    /\ ~failed /\ renewal = Lease /\ pc = "call" =>
         /\ callEnd - began <= Longest(Half)
         /\ ~applied => callEnd <= expiry
         /\ applied => began + Lease <= expiry

(* Later renewals are not longer.                                          *)
LEMMA RenewalShrinks ==
    ASSUME now \in Nat, now' = now \/ now' = now + 1, RenewalLease # Lease
    PROVE  RenewalLease' # Lease
<1> DEFINE x == Lifetime - now - Margin
           y == Lifetime - now' - Margin
<1>1. x \in Int /\ y \in Int /\ y <= x
    BY Parameters
<1>2. Whole(y) <= Whole(x) /\ Whole(y) \in Int /\ Whole(x) \in Int
    BY <1>1, WholeFacts
<1>3. RenewalLease = Smaller(Lease, Whole(x)) /\ RenewalLease' = Smaller(Lease, Whole(y))
    BY DEF RenewalLease, Whole, Smaller
<1> HIDE DEF x, y
<1> QED
    BY <1>2, <1>3, Parameters DEF Smaller

(* The bounds as numbers.                                                  *)
LEMMA RoomFacts ==
    ASSUME LeaseRoom
    PROVE  /\ Half \in Nat /\ Longest(Half) \in Nat /\ Reserve \in Nat
           /\ Half <= Lease /\ Longest(Half) < Lease
           /\ Reserve < Half - Jitter /\ Delay <= Reserve /\ Longest(Half) <= Reserve + 1
BY Parameters, Delays DEF LeaseRoom, Reserve, Longest, Half, Smaller

(* With less left of the lease a call is shorter, and so is its reserve.   *)
LEMMA LongestFacts ==
    ASSUME LeaseRoom, NEW r \in Int, Half - Jitter <= r, r <= Half
    PROVE  /\ Longest(r) \in Int /\ Longest(r) <= Longest(Half)
           /\ Reserve <= r - Longest(r)
BY Parameters, Delays DEF LeaseRoom, Reserve, Longest, Half, Smaller

(* The first lease is at most Delay old.                                   *)
LEMMA InitRoom == LeaseRoom /\ BeatInit => RoomInv
<1> SUFFICES ASSUME LeaseRoom, BeatInit PROVE RoomInv
    OBVIOUS
<1>1. TimerInv
    BY InitTimer
<1> QED
    BY <1>1, RoomFacts, Parameters, Delays DEF BeatInit, RoomInv, Half

(* A timer that fires leaves a call time to end before the lease.          *)
LEMMA FireLease ==
    ASSUME LeaseRoom, RoomInv, TimerInv', Fire
    PROVE  RoomInv'
<1> USE DEF RoomInv, TimerInv, BeatTypeOK
<1>1. CASE RenewalLease < Second
    <2>1. pc' = "done" /\ renewal' = renewal /\ now' = now
        BY <1>1 DEF Fire
    <2>2. RenewalLease' = RenewalLease
        BY <2>1 DEF RenewalLease
    <2> QED
        BY <2>1, <2>2
<1>2. CASE ~(RenewalLease < Second)
    <2>1. /\ pc = "wait" /\ now >= timer
          /\ pc' = "call" /\ renewal' = RenewalLease /\ callEnd' = now + CallTimeout
          /\ began' = now /\ applied' = FALSE /\ UNCHANGED <<now, timer, deadline, expiry, failed>>
        BY <1>2 DEF Fire
    <2>2. RenewalLease' = RenewalLease
        BY <2>1 DEF RenewalLease
    <2>3. ASSUME ~failed', renewal' = Lease
          PROVE  callEnd' - began' <= Longest(Half) /\ callEnd' <= expiry'
        <3> DEFINE r == deadline - now
        <3>1. ~failed /\ renewal = Lease
            BY <2>1, <2>3
        <3>2. timer = deadline - Half /\ now <= timer + Jitter /\ deadline - Reserve <= expiry
            BY <2>1, <3>1
        <3>3. r \in Int /\ Half - Jitter <= r /\ r <= Half /\ r >= 2
            BY <2>1, <3>2, RoomFacts, Parameters DEF LeaseRoom
        <3>4. CallTimeout = Longest(r)
            BY <3>3, CallTimeoutFacts DEF Longest
        <3>5. /\ Longest(r) \in Int /\ Longest(r) <= Longest(Half)
              /\ Reserve <= r - Longest(r)
            BY <3>3, LongestFacts
        <3> QED
            BY <2>1, <3>2, <3>4, <3>5, RoomFacts
    <2> QED
        BY <2>1, <2>2, <2>3
<1> QED
    BY <1>1, <1>2

(* Every step keeps the lease.                                             *)
LEMMA NextRoom == LeaseRoom /\ RoomInv /\ [BeatNext]_beatVars => RoomInv'
<1> SUFFICES ASSUME LeaseRoom, RoomInv, [BeatNext]_beatVars PROVE RoomInv'
    OBVIOUS
<1>0. TimerInv'
    BY NextTimer DEF RoomInv
<1>1. ASSUME now' = now \/ now' = now + 1, renewal' = renewal
      PROVE  renewal' # Lease => RenewalLease' # Lease
    BY <1>1, RenewalShrinks DEF RoomInv, TimerInv, BeatTypeOK
<1>2. CASE UNCHANGED beatVars
    BY <1>0, <1>1, <1>2 DEF beatVars, RoomInv
<1>3. CASE Tick
    <2>1. /\ now' = now + 1
          /\ UNCHANGED <<pc, timer, deadline, callEnd, renewal, expiry, applied, began, failed>>
          /\ pc = "wait" => now < timer + Jitter
        BY <1>3 DEF Tick
    <2>2. pc = "wait" => now' <= timer + Jitter
        BY <2>1, Parameters DEF RoomInv, TimerInv, BeatTypeOK
    <2> QED
        BY <1>0, <1>1, <2>1, <2>2 DEF RoomInv
<1>4. CASE Fire
    BY <1>0, <1>4, FireLease
<1>5. CASE Apply
    <2>1. /\ pc = "call" /\ expiry' = now + renewal /\ applied' = TRUE
          /\ UNCHANGED <<now, pc, timer, deadline, callEnd, renewal, began, failed>>
        BY <1>5 DEF Apply
    <2>2. renewal = Lease => began + Lease <= expiry'
        BY <2>1 DEF RoomInv, TimerInv, BeatTypeOK
    <2> QED
        BY <1>0, <1>1, <2>1, <2>2 DEF RoomInv
<1>6. CASE Succeed
    <2>1. /\ pc = "call" /\ applied /\ now < callEnd /\ pc' = "wait"
          /\ deadline' = now + renewal /\ timer' = now + renewal \div 2
          /\ UNCHANGED <<now, callEnd, renewal, expiry, applied, began, failed>>
        BY <1>6 DEF Succeed
    <2>2. ASSUME ~failed', renewal' = Lease
          PROVE  /\ timer' = deadline' - Half /\ now' <= timer' + Jitter
                 /\ deadline' - Reserve <= expiry'
        <3>1. callEnd - began <= Longest(Half) /\ began + Lease <= expiry
            BY <2>1, <2>2 DEF RoomInv
        <3>2. deadline' = now + Lease /\ timer' = now + regularDelay
            BY <2>1, <2>2 DEF regularDelay
        <3>3. now \in Nat /\ began \in Nat /\ callEnd \in Nat /\ expiry \in Int
            BY DEF RoomInv, TimerInv, BeatTypeOK
        <3> QED
            BY <2>1, <3>1, <3>2, <3>3, RoomFacts, Parameters, Delays DEF Half
    <2> QED
        BY <1>0, <1>1, <2>1, <2>2 DEF RoomInv
<1>7. CASE Fail
    BY <1>0, <1>1, <1>7 DEF Fail, RoomInv
<1>8. CASE Stop
    BY <1>0, <1>1, <1>8 DEF Stop, RoomInv
<1> QED
    BY <1>2, <1>3, <1>4, <1>5, <1>6, <1>7, <1>8 DEF BeatNext

(* If the lease leaves room for a late timer and two slow calls, a message *)
(* whose renewals do not fail stays hidden until its handler is done.      *)
THEOREM LeaseIsKept ==
    ASSUME LeaseRoom
    PROVE  BeatSpec => []LeaseKept
<1>1. RoomInv => LeaseKept
    BY RoomFacts, Parameters DEF RoomInv, TimerInv, BeatTypeOK, LeaseKept
<1>2. BeatInit => RoomInv
    BY InitRoom
<1>3. RoomInv /\ [BeatNext]_beatVars => RoomInv'
    BY NextRoom
<1> QED
    BY <1>1, <1>2, <1>3, PTL DEF BeatSpec

=============================================================================
