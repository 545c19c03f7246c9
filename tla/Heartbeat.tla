------------------------------ MODULE Heartbeat ------------------------------
(***************************************************************************)
(* Source.renewVisibility against the clock: the goroutine that keeps one  *)
(* SQS message hidden while its handler runs.  Time is a number of ticks,  *)
(* as Go's durations are a number of nanoseconds; the goroutine starts at  *)
(* tick 0, at most Delay ticks after SQS started the lease.                *)
(***************************************************************************)
EXTENDS Integers

CONSTANTS
    Second,    \* ticks of a second
    Lease,     \* configuredLease: Config.VisibilityTimeout, in ticks
    MaxCall,   \* maxVisibilityRenewCallTimeout
    Lifetime,  \* maxMessageVisibilityLifetime, 12 hours
    Margin,    \* visibilityLifetimeMargin
    Delay,     \* the age of the lease when the goroutine starts
    Jitter     \* how late a timer may be served

ASSUME HeartbeatConstants ==
    /\ {Second, Lease, MaxCall, Lifetime} \subseteq Nat \ {0}
    /\ {Margin, Delay, Jitter} \subseteq Nat
    /\ Second >= 8        \* a nanosecond is much finer still
    /\ Lease >= Second    \* the visibility timeout is a positive number of seconds
    /\ MaxCall >= Second  \* five seconds

VARIABLES
    now,       \* the clock
    pc,        \* wait: in the select; call: in ChangeMessageVisibility; done
    timer,     \* when the timer fires
    deadline,  \* leaseDeadline, the goroutine's idea of the lease
    callEnd,   \* when the context of the call times out
    renewal,   \* renewalLease of the call
    expiry,    \* when SQS makes the message visible again
    applied,   \* SQS has executed the call
    began,     \* when the last call began (history)
    failed     \* some call failed (history)

beatVars == <<now, pc, timer, deadline, callEnd, renewal, expiry, applied, began, failed>>

Smaller(a, b) == IF a < b THEN a ELSE b

(* Mutant: the lease is renewed when it ends.                              *)
renewAtEnd == Lease

regularDelay == Lease \div 2
retryDelay   == Smaller(Second, regularDelay \div 4)

BeatInit ==
    /\ now = 0
    /\ pc = "wait"
    /\ timer = regularDelay
    /\ deadline = Lease
    /\ callEnd = 0
    /\ renewal = Lease
    /\ expiry = Lease - Delay
    /\ applied = FALSE
    /\ began = 0
    /\ failed = FALSE

-----------------------------------------------------------------------------
(* Time passes unless a timer is overdue.                                  *)
Tick ==
    /\ \/ pc = "wait" /\ now < timer + Jitter
       \/ pc = "call" /\ now < callEnd
    /\ now' = now + 1
    /\ UNCHANGED <<pc, timer, deadline, callEnd, renewal, expiry, applied, began, failed>>

(* Mutant: no margin.                                                      *)
RenewalToTheLimit == Smaller(Lease, ((Lifetime - now) \div Second) * Second)

(* The lease to ask for: whole seconds, within the lifetime of the message.*)
RenewalLease == Smaller(Lease, ((Lifetime - now - Margin) \div Second) * Second)

CallTimeout ==
    LET half == Smaller(MaxCall, (deadline - now) \div 2)
    IN  IF half <= 0 THEN retryDelay ELSE half

(* The timer fires: the lifetime is used up, or a renewal is attempted.    *)
Fire ==
    /\ pc = "wait"
    /\ now >= timer
    /\ IF RenewalLease < Second
       THEN pc' = "done" /\ UNCHANGED <<callEnd, renewal, began>>
       ELSE /\ pc' = "call"
            /\ renewal' = RenewalLease
            /\ callEnd' = now + CallTimeout
            /\ began' = now
    /\ applied' = FALSE
    /\ UNCHANGED <<now, timer, deadline, expiry, failed>>

(* SQS executes the call if the message is still hidden and its lifetime   *)
(* allows it.                                                              *)
Apply ==
    /\ pc = "call" /\ ~applied
    /\ now < expiry
    /\ Delay + now + renewal <= Lifetime
    /\ expiry' = now + renewal
    /\ applied' = TRUE
    /\ UNCHANGED <<now, pc, timer, deadline, callEnd, renewal, began, failed>>

Succeed ==
    /\ pc = "call" /\ applied /\ now < callEnd
    /\ deadline' = now + renewal
    /\ timer' = now + renewal \div 2
    /\ pc' = "wait"
    /\ UNCHANGED <<now, callEnd, renewal, expiry, applied, began, failed>>

(* Mutant: the delay is halved down to nothing.                            *)
RetryUnguarded ==
    LET remaining == deadline - now
    IN  IF remaining > 0 THEN Smaller(retryDelay, remaining \div 2) ELSE retryDelay

RetryDelay ==
    LET remaining == deadline - now
        delay     == IF remaining > 0 THEN Smaller(retryDelay, remaining \div 2) ELSE retryDelay
    IN  IF delay <= 0 THEN retryDelay ELSE delay

(* The call times out or is refused, or its answer is lost.                *)
Fail ==
    /\ pc = "call"
    /\ timer' = now + RetryDelay
    /\ pc' = "wait"
    /\ failed' = TRUE
    /\ UNCHANGED <<now, deadline, callEnd, renewal, expiry, applied, began>>

(* The handler is finished: the context of the heartbeat is cancelled.     *)
Stop ==
    /\ pc # "done"
    /\ pc' = "done"
    /\ UNCHANGED <<now, timer, deadline, callEnd, renewal, expiry, applied, began, failed>>

BeatNext == Tick \/ Fire \/ Apply \/ Succeed \/ Fail \/ Stop
BeatSpec == BeatInit /\ [][BeatNext]_beatVars

-----------------------------------------------------------------------------
(* Properties *)

(* Types; a call in progress is within its timeout.                        *)
BeatTypeOK ==
    /\ now \in Nat /\ timer \in Nat /\ deadline \in Nat /\ callEnd \in Nat
    /\ renewal \in Nat /\ expiry \in Int /\ began \in Nat
    /\ pc \in {"wait", "call", "done"}
    /\ applied \in BOOLEAN /\ failed \in BOOLEAN
    /\ pc = "call" => began <= now /\ now <= callEnd

(* As long as every call is answered within its timeout and the lifetime   *)
(* allows full leases, the message does not become visible while its       *)
(* handler runs: half a lease leaves room for two calls, whichever part of *)
(* them the network takes.  Only a call about to time out may find the     *)
(* lease gone.                                                             *)
LeaseKept ==
    ~failed /\ pc # "done" /\ renewal = Lease
        => now < expiry \/ (pc = "call" /\ now = callEnd)

(* A renewal that reaches SQS within the margin asks for at least a second *)
(* and for no more than the lifetime of a message allows.                  *)
RenewalAccepted ==
    pc = "call" /\ Delay + (now - began) <= Margin =>
        /\ renewal >= Second
        /\ Delay + now + renewal <= Lifetime

(* A failed call is retried in time: each retry waits, so the goroutine    *)
(* never spins, and after a call that began well before the end of the     *)
(* lease the next one begins before it.                                    *)
RetryInTime ==
    [][pc = "call" /\ pc' = "wait" =>
          now < timer' /\ (deadline' - began >= 4 => timer' < deadline')]_beatVars

=============================================================================
