----------------------------- MODULE QueueSource -----------------------------
(***************************************************************************)
(* The SQS event source: sqs.Source.Run of every running instance (the     *)
(* chart deploys any number of replicas) against one standard SQS queue.   *)
(*                                                                         *)
(* A received message is hidden until it is deleted or its visibility      *)
(* lease lapses.  The lease is kept by a heartbeat goroutine per message;  *)
(* time itself is left out here: a lease lapses only while no heartbeat    *)
(* renews it in time.  A receipt handle is the instance that received the  *)
(* message last, since an instance finishes its whole batch before it      *)
(* receives again.                                                         *)
(***************************************************************************)
EXTENDS Naturals, FiniteSets

CONSTANTS
    Instances,     \* processes that poll the queue
    Messages,      \* messages that may be published
    Decodable,     \* messages whose payload is a push event
    MaxMessages,   \* Config.MaxMessages
    Concurrency,   \* Config.Concurrency
    Nobody         \* no instance has received the message

ASSUME QueueConstants ==
    /\ Decodable \subseteq Messages
    /\ MaxMessages \in 1 .. 10      \* enforced by NewSource
    /\ Concurrency \in 1 .. 10
    /\ Nobody \notin Instances
    /\ IsFiniteSet(Messages)

VARIABLES
    queue,      \* queue[m]: where the message is
    holder,     \* holder[m]: the instance with the latest receipt handle
    loop,       \* loop[i]: where the Run loop is
    proc,       \* proc[i][m]: where process() is with a message of the batch
    beat,       \* beat[i][m]: the heartbeat goroutine of the message
    cancelled,  \* cancelled[i]: the context of Run is cancelled
    final       \* messages that were undecodable or whose Handle returned
                \* nil or a terminal error (history)

sqs  == <<queue, holder>>
vars == <<queue, holder, loop, proc, beat, cancelled, final>>

QueueState == {"unsent", "visible", "hidden", "deleted"}
LoopState  == {"top", "receiving", "batch", "backoff", "pause", "stopped", "down"}
ProcState  == {"none", "queued", "decode", "handle", "ack", "stop", "done"}
(* on: the lease is renewed in time; failing: a renewal failed; ended: the *)
(* 12 hour limit ended the heartbeat.                                      *)
BeatState  == {"off", "on", "failing", "ended"}

-----------------------------------------------------------------------------
(* A process() goroutine that runs, and how many of them an instance has.  *)
Running(i, m)  == proc[i][m] \in {"decode", "handle", "ack", "stop"}
RunningCount(i) == Cardinality({m \in Messages : Running(i, m)})
Waiting(i)     == {m \in Messages : proc[i][m] = "queued"}

(* Mutant: a batch is as large as SQS allows.                              *)
WholeBatch == MaxMessages

(* receive never asks for more work than can begin now.                    *)
BatchLimit == IF MaxMessages < Concurrency THEN MaxMessages ELSE Concurrency

Init ==
    /\ queue = [m \in Messages |-> "unsent"]
    /\ holder = [m \in Messages |-> Nobody]
    /\ loop = [i \in Instances |-> "top"]
    /\ proc = [i \in Instances |-> [m \in Messages |-> "none"]]
    /\ beat = [i \in Instances |-> [m \in Messages |-> "off"]]
    /\ cancelled = [i \in Instances |-> FALSE]
    /\ final = {}

-----------------------------------------------------------------------------
(* The queue *)

Publish(m) ==
    /\ queue[m] = "unsent"
    /\ queue' = [queue EXCEPT ![m] = "visible"]
    /\ UNCHANGED <<holder, loop, proc, beat, cancelled, final>>

(* The lease of the holder is safe while its heartbeat renews it, and      *)
(* between the receive and the start of a goroutine that need not wait.    *)
Leased(m) ==
    \E i \in Instances :
        /\ holder[m] = i
        /\ \/ beat[i][m] = "on"
           \/ proc[i][m] = "queued" /\ RunningCount(i) < Concurrency

Lapse(m) ==
    /\ queue[m] = "hidden"
    /\ ~Leased(m)
    /\ queue' = [queue EXCEPT ![m] = "visible"]
    /\ UNCHANGED <<holder, loop, proc, beat, cancelled, final>>

-----------------------------------------------------------------------------
(* The Run loop *)

(* for ctx.Err() == nil                                                    *)
Poll(i) ==
    /\ loop[i] = "top"
    /\ loop' = [loop EXCEPT ![i] = IF cancelled[i] THEN "stopped" ELSE "receiving"]
    /\ UNCHANGED <<sqs, proc, beat, cancelled, final>>

(* ReceiveMessage hides a batch; an empty answer just paces the loop.      *)
Receive(i, ms) ==
    /\ loop[i] = "receiving"
    /\ \A m \in ms : queue[m] = "visible"
    /\ Cardinality(ms) <= BatchLimit
    /\ queue' = [m \in Messages |-> IF m \in ms THEN "hidden" ELSE queue[m]]
    /\ holder' = [m \in Messages |-> IF m \in ms THEN i ELSE holder[m]]
    /\ proc' = [proc EXCEPT ![i] =
                   [m \in Messages |-> IF m \in ms THEN "queued" ELSE "none"]]
    /\ loop' = [loop EXCEPT ![i] = IF ms = {} THEN "pause" ELSE "batch"]
    /\ UNCHANGED <<beat, cancelled, final>>

(* ReceiveMessage fails; the messages of a lost answer stay hidden.        *)
ReceiveFails(i, ms) ==
    /\ loop[i] = "receiving"
    /\ \A m \in ms : queue[m] = "visible"
    /\ Cardinality(ms) <= BatchLimit
    /\ queue' = [m \in Messages |-> IF m \in ms THEN "hidden" ELSE queue[m]]
    /\ holder' = [m \in Messages |-> IF m \in ms THEN Nobody ELSE holder[m]]
    /\ loop' = [loop EXCEPT ![i] = IF cancelled[i] THEN "stopped" ELSE "backoff"]
    /\ UNCHANGED <<proc, beat, cancelled, final>>

(* sleep() ends: by its timer, or at once when the context is cancelled.   *)
Wake(i) ==
    /\ loop[i] \in {"pause", "backoff"}
    /\ loop' = [loop EXCEPT ![i] = IF cancelled[i] THEN "stopped" ELSE "top"]
    /\ UNCHANGED <<sqs, proc, beat, cancelled, final>>

(* Mutant: Run does not wait for the batch.                                *)
BatchAbandoned(i) ==
    /\ loop[i] = "batch"
    /\ loop' = [loop EXCEPT ![i] = "pause"]
    /\ UNCHANGED <<sqs, proc, beat, cancelled, final>>

(* group.Wait() returns: the whole batch is processed.                     *)
BatchDone(i) ==
    /\ loop[i] = "batch"
    /\ \A m \in Messages : proc[i][m] \in {"none", "done"}
    /\ proc' = [proc EXCEPT ![i] = [m \in Messages |-> "none"]]
    /\ loop' = [loop EXCEPT ![i] = "pause"]
    /\ UNCHANGED <<sqs, beat, cancelled, final>>

-----------------------------------------------------------------------------
(* process() of one message *)

At(i, m, from, to) ==
    /\ proc[i][m] = from
    /\ proc' = [proc EXCEPT ![i][m] = to]

(* group.Go blocks while Concurrency goroutines run; process() starts the  *)
(* heartbeat first.                                                        *)
Start(i, m) ==
    /\ RunningCount(i) < Concurrency
    /\ At(i, m, "queued", "decode")
    /\ beat' = [beat EXCEPT ![i][m] = "on"]
    /\ UNCHANGED <<sqs, loop, cancelled, final>>

(* A payload that cannot be decoded is acknowledged, ignored or not.       *)
Decode(i, m) ==
    /\ At(i, m, "decode", IF m \in Decodable THEN "handle" ELSE "ack")
    /\ final' = IF m \in Decodable THEN final ELSE final \cup {m}
    /\ UNCHANGED <<sqs, loop, beat, cancelled>>

(* Mutant: every result of Handle is acknowledged.                         *)
AlwaysAcknowledged(i, m, retryable) ==
    /\ At(i, m, "handle", "ack")
    /\ final' = IF retryable THEN final ELSE final \cup {m}
    /\ UNCHANGED <<sqs, loop, beat, cancelled>>

(* Handle returns; a retryable error leaves the message alone.             *)
HandleReturns(i, m, retryable) ==
    /\ At(i, m, "handle", IF retryable THEN "stop" ELSE "ack")
    /\ final' = IF retryable THEN final ELSE final \cup {m}
    /\ UNCHANGED <<sqs, loop, beat, cancelled>>

(* DeleteMessage: the answer is only logged.  With the latest receipt      *)
(* handle the message goes unless the call fails; an older one may or may  *)
(* not delete it.                                                          *)
Acknowledge(i, m, deletes) ==
    /\ At(i, m, "ack", "stop")
    /\ queue' = IF deletes THEN [queue EXCEPT ![m] = "deleted"] ELSE queue
    /\ UNCHANGED <<holder, loop, beat, cancelled, final>>

(* Mutants: stopHeartbeat joins without cancelling; it does neither.       *)
HeartbeatNotCancelled(i, m) ==
    /\ proc[i][m] = "stop"
    /\ beat[i][m] = "ended"
    /\ beat' = [beat EXCEPT ![i][m] = "off"]
    /\ UNCHANGED <<sqs, loop, proc, cancelled, final>>
HeartbeatForgotten(i, m) ==
    /\ At(i, m, "stop", "done")
    /\ UNCHANGED <<sqs, loop, beat, cancelled, final>>

(* stopHeartbeat cancels the heartbeat and joins it.                       *)
HeartbeatExits(i, m) ==
    /\ proc[i][m] = "stop"
    /\ beat[i][m] # "off"
    /\ beat' = [beat EXCEPT ![i][m] = "off"]
    /\ UNCHANGED <<sqs, loop, proc, cancelled, final>>

StopHeartbeat(i, m) ==
    /\ beat[i][m] = "off"
    /\ At(i, m, "stop", "done")
    /\ UNCHANGED <<sqs, loop, beat, cancelled, final>>

-----------------------------------------------------------------------------
(* The heartbeat goroutine *)

(* ChangeMessageVisibility succeeds for the latest receipt of a hidden     *)
(* message only.                                                           *)
Renew(i, m) ==
    /\ beat[i][m] \in {"on", "failing"}
    /\ queue[m] = "hidden" /\ holder[m] = i
    /\ beat' = [beat EXCEPT ![i][m] = "on"]
    /\ UNCHANGED <<sqs, loop, proc, cancelled, final>>

RenewFails(i, m) ==
    /\ beat[i][m] = "on"
    /\ beat' = [beat EXCEPT ![i][m] = "failing"]
    /\ UNCHANGED <<sqs, loop, proc, cancelled, final>>

(* The renewal would pass the 12 hour limit of SQS.                        *)
LifetimeReached(i, m) ==
    /\ beat[i][m] \in {"on", "failing"}
    /\ beat' = [beat EXCEPT ![i][m] = "ended"]
    /\ UNCHANGED <<sqs, loop, proc, cancelled, final>>

-----------------------------------------------------------------------------
(* The process *)

(* SIGTERM, or another component failed.                                   *)
Cancel(i) ==
    /\ loop[i] \notin {"stopped", "down"}
    /\ ~cancelled[i]
    /\ cancelled' = [cancelled EXCEPT ![i] = TRUE]
    /\ UNCHANGED <<sqs, loop, proc, beat, final>>

Crash(i) ==
    /\ loop[i] # "down"
    /\ loop' = [loop EXCEPT ![i] = "down"]
    /\ proc' = [proc EXCEPT ![i] = [m \in Messages |-> "none"]]
    /\ beat' = [beat EXCEPT ![i] = [m \in Messages |-> "off"]]
    /\ cancelled' = [cancelled EXCEPT ![i] = FALSE]
    /\ UNCHANGED <<sqs, final>>

(* Kubernetes starts a new process in the place of a dead or stopped one.  *)
Restart(i) ==
    /\ loop[i] \in {"stopped", "down"}
    /\ loop' = [loop EXCEPT ![i] = "top"]
    /\ cancelled' = [cancelled EXCEPT ![i] = FALSE]
    /\ UNCHANGED <<sqs, proc, beat, final>>

-----------------------------------------------------------------------------
Loop(i) ==
    \/ Poll(i) \/ Wake(i) \/ BatchDone(i)
    \/ \E ms \in SUBSET Messages : Receive(i, ms) \/ ReceiveFails(i, ms)

(* The steps of process() other than the handler's.                        *)
Process(i, m) ==
    \/ Start(i, m) \/ Decode(i, m)
    \/ \E deletes \in BOOLEAN : Acknowledge(i, m, deletes)
    \/ HeartbeatExits(i, m) \/ StopHeartbeat(i, m)

Heartbeat(i, m) == Renew(i, m) \/ RenewFails(i, m) \/ LifetimeReached(i, m)

Next ==
    \/ \E m \in Messages : Publish(m) \/ Lapse(m)
    \/ \E i \in Instances : Loop(i) \/ Cancel(i) \/ Crash(i) \/ Restart(i)
    \/ \E i \in Instances, m \in Messages :
          \/ Process(i, m) \/ Heartbeat(i, m)
          \/ \E retryable \in BOOLEAN : HandleReturns(i, m, retryable)

Spec == Init /\ [][Next]_vars

-----------------------------------------------------------------------------
(* Properties *)

(* Every variable keeps its type.                                          *)
TypeOK ==
    /\ queue \in [Messages -> QueueState]
    /\ holder \in [Messages -> Instances \cup {Nobody}]
    /\ loop \in [Instances -> LoopState]
    /\ proc \in [Instances -> [Messages -> ProcState]]
    /\ beat \in [Instances -> [Messages -> BeatState]]
    /\ cancelled \in [Instances -> BOOLEAN]
    /\ final \subseteq Messages

(* While its heartbeat renews in time, a message belongs to one instance:  *)
(* if two instances handle it at once, one of them has lost its lease.     *)
LeaseExclusive ==
    \A m \in Messages : \A i, j \in Instances :
        /\ proc[i][m] \in {"decode", "handle", "ack"} /\ beat[i][m] = "on"
        /\ proc[j][m] \in {"decode", "handle", "ack"} /\ beat[j][m] = "on"
        => i = j

(* No heartbeat outlives its message: a goroutine left behind would hide a *)
(* message that waits for redelivery, and keep running after Run returned. *)
HeartbeatJoined ==
    \A i \in Instances, m \in Messages : beat[i][m] # "off" => Running(i, m)

(* Run returns only because it was cancelled, whatever the queue answers,  *)
(* and only after its batch is drained.                                    *)
StoppedDrained ==
    \A i \in Instances :
        /\ loop[i] = "stopped" => cancelled[i]
        /\ loop[i] # "batch" => \A m \in Messages : proc[i][m] = "none"

(* The queue source implements the EventSource port: only a message whose  *)
(* payload cannot become an event, or whose Handle returned nil or a       *)
(* terminal error, is deleted, whatever crashes, fails or is delivered     *)
(* twice.  The mapping forgets receipts, leases, loops and goroutines.     *)
Port == INSTANCE EventSource WITH
            published    <- {m \in Messages : queue[m] # "unsent"},
            acknowledged <- {m \in Messages : queue[m] = "deleted"}
ImplementsEventSource == Port!ESSpec

=============================================================================
