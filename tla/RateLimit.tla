----------------------------- MODULE RateLimit -----------------------------
(***************************************************************************)
(* The process-wide minimum interval between admitted requests:            *)
(* src/src/libs/rate_limit.rs, check_rate_limit and its SlotGuard.         *)
(*                                                                         *)
(* One RateLimitGate lives behind a tokio mutex.  A caller reads the       *)
(* clock, takes the mutex, and inside it either is admitted, is refused    *)
(* (reject mode) or reserves the next free slot (wait mode).  The mutex is *)
(* released before anything is awaited, so the queue checks, the           *)
(* WAITER_COUNT increment, the sleep and the roll-back of an abandoned     *)
(* slot all interleave with other callers: each is an action of its own.   *)
(*                                                                         *)
(* Instants are natural numbers.  next_admission = None and an instant in  *)
(* the past take the same arm of the match, so None is the instant 0.      *)
(***************************************************************************)
EXTENDS Naturals, FiniteSets

CONSTANTS
    Callers,     \* the requests that call check_rate_limit, once each
    Interval,    \* rate_limit_seconds, positive: the limiter is enabled
    MaxWaiters,  \* COPILOT_API_RATE_LIMIT_MAX_WAITERS (unset: beyond reach)
    MaxWait,     \* COPILOT_API_RATE_LIMIT_MAX_WAIT_SECS (unset: beyond reach)
    NoCaller,    \* "nobody holds the mutex"
    LastArrival, \* bound: no caller arrives later than this instant
    EndOfTime    \* bound: the clock stops here

ASSUME RateLimitAssumption ==
    /\ IsFiniteSet(Callers)
    /\ Interval \in Nat \ {0}
    /\ MaxWaiters \in Nat
    /\ MaxWait \in Nat
    /\ NoCaller \notin Callers
    /\ LastArrival \in Nat
    /\ EndOfTime \in Nat

VARIABLES
    wait,       \* rate_limit_wait, set when the program starts
    now,        \* tokio::time::Instant::now()
    holder,     \* who holds RATE_LIMIT_GATE
    next,       \* gate.next_admission
    waiters,    \* WAITER_COUNT
    pc,         \* where each caller stands in check_rate_limit
    seen,       \* the caller's `now`, read before it asks for the mutex
    slot,       \* the slot it was given: `deadline`, SlotGuard.reserved
    admittedAt  \* when check_rate_limit returned Ok

vars == <<wait, now, holder, next, waiters, pc, seen, slot, admittedAt>>

Stages == {"idle", "locking", "deciding", "reserved", "entering", "sleeping",
           "abandoning", "rolling", "admitted", "refused"}

\* The caller owns a slot that nobody else may be given.
HoldsSlot(c) ==
    pc[c] \in {"reserved", "entering", "sleeping", "abandoning", "rolling", "admitted"}

Done(c) == pc[c] \in {"admitted", "refused"}

TypeOK ==
    /\ wait \in BOOLEAN
    /\ now \in Nat
    /\ holder \in Callers \cup {NoCaller}
    /\ next \in Nat
    /\ waiters \in Nat
    /\ pc \in [Callers -> Stages]
    /\ seen \in [Callers -> Nat]
    /\ slot \in [Callers -> Nat]
    /\ admittedAt \in [Callers -> Nat]

Init ==
    /\ wait \in BOOLEAN
    /\ now = 0
    /\ holder = NoCaller
    /\ next = 0
    /\ waiters = 0
    /\ pc = [c \in Callers |-> "idle"]
    /\ seen = [c \in Callers |-> 0]
    /\ slot = [c \in Callers |-> 0]
    /\ admittedAt = [c \in Callers |-> 0]

----------------------------------------------------------------------------
(* check_rate_limit up to the decision.                                    *)

Goto(c, stage) == pc' = [pc EXCEPT ![c] = stage]

Arrive(c) ==
    /\ pc[c] = "idle"
    /\ now <= LastArrival
    /\ seen' = [seen EXCEPT ![c] = now]
    /\ Goto(c, "locking")
    /\ UNCHANGED <<wait, now, holder, next, waiters, slot, admittedAt>>

Lock(c) ==
    /\ pc[c] = "locking"
    /\ holder = NoCaller
    /\ holder' = c
    /\ Goto(c, "deciding")
    /\ UNCHANGED <<wait, now, next, waiters, seen, slot, admittedAt>>

\* The `_` arm: no admission is scheduled after the caller's instant.
AdmitNow(c) ==
    /\ pc[c] = "deciding"
    /\ next <= seen[c]
    /\ next' = seen[c] + Interval
    /\ slot' = [slot EXCEPT ![c] = seen[c]]
    /\ admittedAt' = [admittedAt EXCEPT ![c] = now]
    /\ holder' = NoCaller
    /\ Goto(c, "admitted")
    /\ UNCHANGED <<wait, now, waiters, seen>>

\* Mutant of Reserve: the schedule is not advanced.
ReserveUnadvanced(c) ==
    /\ pc[c] = "deciding" /\ next > seen[c] /\ wait
    /\ slot' = [slot EXCEPT ![c] = next]
    /\ holder' = NoCaller
    /\ Goto(c, "reserved")
    /\ UNCHANGED <<wait, now, next, waiters, seen, admittedAt>>

\* Wait mode: the slot is taken before the mutex is released.
Reserve(c) ==
    /\ pc[c] = "deciding"
    /\ next > seen[c]
    /\ wait
    /\ slot' = [slot EXCEPT ![c] = next]
    /\ next' = next + Interval
    /\ holder' = NoCaller
    /\ Goto(c, "reserved")
    /\ UNCHANGED <<wait, now, waiters, seen, admittedAt>>

\* Mutant of RejectNow: a refused caller takes a slot all the same.
RejectReserving(c) ==
    /\ pc[c] = "deciding" /\ next > seen[c] /\ ~wait
    /\ next' = next + Interval
    /\ holder' = NoCaller
    /\ Goto(c, "refused")
    /\ UNCHANGED <<wait, now, waiters, seen, slot, admittedAt>>

\* Reject mode: 429, and the schedule is left alone.
RejectNow(c) ==
    /\ pc[c] = "deciding"
    /\ next > seen[c]
    /\ ~wait
    /\ holder' = NoCaller
    /\ Goto(c, "refused")
    /\ UNCHANGED <<wait, now, next, waiters, seen, slot, admittedAt>>

----------------------------------------------------------------------------
(* The WaitUntil arm, outside the mutex.                                   *)

QueueFull == waiters >= MaxWaiters

WaitTooLong(c) == slot[c] - seen[c] > MaxWait

\* WAITER_COUNT is loaded here and incremented later, in EnterQueue.
CheckQueue(c) ==
    /\ pc[c] = "reserved"
    /\ Goto(c, IF QueueFull \/ WaitTooLong(c) THEN "abandoning" ELSE "entering")
    /\ UNCHANGED <<wait, now, holder, next, waiters, seen, slot, admittedAt>>

\* SlotGuard::new
EnterQueue(c) ==
    /\ pc[c] = "entering"
    /\ waiters' = waiters + 1
    /\ Goto(c, "sleeping")
    /\ UNCHANGED <<wait, now, holder, next, seen, slot, admittedAt>>

\* sleep_until returns at the deadline or at any later instant; commit, drop.
Wake(c) ==
    /\ pc[c] = "sleeping"
    /\ now >= slot[c]
    /\ waiters' = waiters - 1
    /\ admittedAt' = [admittedAt EXCEPT ![c] = now]
    /\ Goto(c, "admitted")
    /\ UNCHANGED <<wait, now, holder, next, seen, slot>>

----------------------------------------------------------------------------
(* Cancellation: the future is dropped at one of its two await points.     *)

CancelLocking(c) ==
    /\ pc[c] = "locking"
    /\ Goto(c, "refused")
    /\ UNCHANGED <<wait, now, holder, next, waiters, seen, slot, admittedAt>>

CancelSleeping(c) ==
    /\ pc[c] = "sleeping"
    /\ waiters' = waiters - 1
    /\ Goto(c, "abandoning")
    /\ UNCHANGED <<wait, now, holder, next, seen, slot, admittedAt>>

\* Mutant of TryLock: the roll-back does not mind who holds the mutex.
TryLockBarging(c) ==
    /\ pc[c] = "abandoning"
    /\ holder' = c /\ Goto(c, "rolling")
    /\ UNCHANGED <<wait, now, next, waiters, seen, slot, admittedAt>>

\* try_lock: a busy mutex means the slot is not given back.
TryLock(c) ==
    /\ pc[c] = "abandoning"
    /\ IF holder = NoCaller
         THEN holder' = c /\ Goto(c, "rolling")
         ELSE Goto(c, "refused") /\ UNCHANGED holder
    /\ UNCHANGED <<wait, now, next, waiters, seen, slot, admittedAt>>

\* A mutant of RollBack: the mutex is kept.
RollBackKeepsMutex(c) ==
    /\ pc[c] = "rolling"
    /\ next' = IF next = slot[c] + Interval THEN slot[c] ELSE next
    /\ Goto(c, "refused")
    /\ UNCHANGED <<wait, now, holder, waiters, seen, slot, admittedAt>>

\* Only the last slot of the schedule can be given back.
RollBack(c) ==
    /\ pc[c] = "rolling"
    /\ next' = IF next = slot[c] + Interval THEN slot[c] ELSE next
    /\ holder' = NoCaller
    /\ Goto(c, "refused")
    /\ UNCHANGED <<wait, now, waiters, seen, slot, admittedAt>>

----------------------------------------------------------------------------
Tick ==
    /\ now < EndOfTime
    /\ now' = now + 1
    /\ UNCHANGED <<wait, holder, next, waiters, pc, seen, slot, admittedAt>>

\* What a caller does by itself once it has been polled.
Step(c) ==
    \/ Lock(c) \/ AdmitNow(c) \/ Reserve(c) \/ RejectNow(c)
    \/ CheckQueue(c) \/ EnterQueue(c) \/ Wake(c)
    \/ TryLock(c) \/ RollBack(c)

Next ==
    \/ \E c \in Callers : Arrive(c) \/ Step(c) \/ CancelLocking(c) \/ CancelSleeping(c)
    \/ Tick

Spec == Init /\ [][Next]_vars

\* The runtime polls every ready task and time passes; nobody has to arrive
\* or to be cancelled.
FairSpec == Spec /\ WF_vars(Tick) /\ \A c \in Callers : WF_vars(Step(c))

----------------------------------------------------------------------------
(* Properties                                                              *)

\* Two callers that hold slots hold slots at least Interval apart, whatever
\* roll-backs, cancellations and late polls happened in between: "lets each
\* caller atomically admit or reserve exactly one slot" (rate_limit.rs:13-19).
SlotsApart ==
    \A c, d \in Callers :
        c # d /\ HoldsSlot(c) /\ HoldsSlot(d) =>
            \/ slot[c] + Interval <= slot[d]
            \/ slot[d] + Interval <= slot[c]

\* The schedule always lies beyond every slot in use, so the next caller can
\* neither be admitted into nor reserve a slot somebody still owns.
ScheduleBeyondSlots ==
    \A c \in Callers : HoldsSlot(c) => slot[c] + Interval <= next

\* WAITER_COUNT is the number of sleeping waiters: no cancellation and no
\* refusal leaks a count, which would shrink the queue for good.
WaitersCounted == waiters = Cardinality({c \in Callers : pc[c] = "sleeping"})

\* The mutex is held by exactly the caller inside one of the two critical
\* sections, so `decide` and the roll-back never overlap.
GateExclusive ==
    \A c \in Callers : holder = c <=> pc[c] \in {"deciding", "rolling"}

\* A roll-back takes back one slot, the last one, and only the slot of the
\* caller that performs it: nobody's wait is shortened into another's slot.
RollBackIsOwn ==
    [][next' < next =>
          \E c \in Callers : /\ HoldsSlot(c) /\ ~HoldsSlot(c)'
                             /\ next = slot[c] + Interval
                             /\ next' = slot[c]]_vars

\* In reject mode the schedule is always the one of the latest admission: a 429
\* is only ever answered within Interval of a request that went through.
RejectionJustified ==
    ~wait /\ next > 0 =>
        \E c \in Callers : pc[c] = "admitted" /\ slot[c] + Interval = next

\* Every call to check_rate_limit returns (admitted, 429 or cancelled) once it
\* has begun: no reservation and no failed try_lock leaves a caller stuck.
EveryCallReturns == \A c \in Callers : pc[c] = "locking" ~> Done(c)

\* The inductive invariant behind the safety properties.
IInv == TypeOK /\ WaitersCounted /\ GateExclusive /\ ScheduleBeyondSlots /\ SlotsApart

\* The limiter implements the abstract pacing promise.
Paced == INSTANCE PacedSlots WITH
    granted <- {c \in Callers : HoldsSlot(c)},
    instant <- slot,
    used    <- {c \in Callers : pc[c] = "admitted"}

ImplementsPacing == Paced!Spec
============================================================================
