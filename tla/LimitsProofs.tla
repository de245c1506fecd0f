---------------------------- MODULE LimitsProofs ----------------------------
(***************************************************************************)
(* Proofs about the limits a request has to pass: the rate limiter, for    *)
(* every set of callers, interval and limit, in both modes; the            *)
(* concurrency limit, for every set of requests, limit and interval        *)
(* between log lines; the daily budgets, for every set of requests and     *)
(* keys, all budgets and any number of days.                               *)
(*                                                                         *)
(* The rate limiter's invariant is proved step by step: the counter first  *)
(* (TypeOK needs it: a decrement must not go below zero), then the slots,  *)
(* which need the exclusion of the two critical sections.                  *)
(*                                                                         *)
(* The three counts of the concurrency limit (permits, active, the         *)
(* refusals to be told of) are cardinalities of sets of requests at        *)
(* certain stages, so one lemma on what a step of one request does to such *)
(* a set carries all of them.                                              *)
(*                                                                         *)
(* The budgets need what a request holds at each of its stages: the key it *)
(* took is of a day no later than the total it read, and that total was    *)
(* spent.                                                                  *)
(***************************************************************************)
EXTENDS RateLimit, Admission, TokenBudget, FiniteSetTheorems, TLAPS

Sleepers == {c \in Callers : pc[c] = "sleeping"}

\* The set of sleeping callers is finite, so its cardinality is a number.
LEMMA SleepersFinite ==
    IsFiniteSet(Sleepers) /\ Cardinality(Sleepers) \in Nat
<1>1. Sleepers \subseteq Callers BY DEF Sleepers
<1>2. IsFiniteSet(Sleepers)
    BY <1>1, FS_Subset, RateLimitAssumption
<1>. QED BY <1>2, FS_CardinalityType

\* A caller that moves between two stages other than "sleeping" leaves the
\* set of sleepers as it was.
LEMMA SleepersUnchanged ==
    ASSUME TypeOK, NEW c \in Callers, NEW stage \in Stages,
           pc[c] # "sleeping", stage # "sleeping", Goto(c, stage)
    PROVE  Sleepers' = Sleepers
BY DEF TypeOK, Sleepers, Goto

\* SlotGuard::new adds one sleeper, and the drop of the guard removes one.
LEMMA SleeperEnters ==
    ASSUME TypeOK, NEW c \in Callers, pc[c] # "sleeping", Goto(c, "sleeping")
    PROVE  Cardinality(Sleepers') = Cardinality(Sleepers) + 1
<1>1. Sleepers' = Sleepers \cup {c} BY DEF TypeOK, Sleepers, Goto
<1>2. c \notin Sleepers BY DEF Sleepers
<1>. QED BY <1>1, <1>2, SleepersFinite, FS_AddElement

LEMMA SleepersNotEmpty ==
    ASSUME NEW c \in Callers, pc[c] = "sleeping"
    PROVE  Cardinality(Sleepers) > 0
<1>1. c \in Sleepers BY DEF Sleepers
<1>2. Cardinality(Sleepers) # 0 BY <1>1, SleepersFinite, FS_EmptySet
<1>. QED BY <1>2, SleepersFinite

LEMMA SleeperLeaves ==
    ASSUME TypeOK, NEW c \in Callers, NEW stage \in Stages,
           pc[c] = "sleeping", stage # "sleeping", Goto(c, stage)
    PROVE  Cardinality(Sleepers') = Cardinality(Sleepers) - 1
<1>1. Sleepers' = Sleepers \ {c} BY DEF TypeOK, Sleepers, Goto
<1>2. c \in Sleepers BY DEF Sleepers
<1>. QED BY <1>1, <1>2, SleepersFinite, FS_RemoveElement

----------------------------------------------------------------------------
CounterInv == TypeOK /\ WaitersCounted

LEMMA CounterInit == Init => CounterInv
<1>. SUFFICES ASSUME Init PROVE CounterInv OBVIOUS
<1>1. TypeOK BY DEF Init, TypeOK, Stages
<1>2. Sleepers = {} BY DEF Init, Sleepers
<1>3. WaitersCounted BY <1>2, FS_EmptySet DEF Init, WaitersCounted, Sleepers
<1>. QED BY <1>1, <1>3 DEF CounterInv

\* A decrement of WAITER_COUNT happens while somebody sleeps, so it stays a
\* natural number and the whole state keeps its type.
LEMMA TypeStep == CounterInv /\ [Next]_vars => TypeOK'
<1>. SUFFICES ASSUME TypeOK, WaitersCounted, [Next]_vars PROVE TypeOK'
    BY DEF CounterInv
<1>. USE RateLimitAssumption DEF TypeOK, Goto, Stages
<1>1. ASSUME NEW c \in Callers, pc[c] = "sleeping" PROVE waiters - 1 \in Nat
    <2>1. waiters > 0
        BY <1>1, SleepersFinite, SleepersNotEmpty DEF WaitersCounted, Sleepers
    <2>. QED BY <2>1
<1>2. ASSUME NEW c \in Callers, Arrive(c) PROVE TypeOK' BY <1>2 DEF Arrive
<1>3. ASSUME NEW c \in Callers, Lock(c) PROVE TypeOK' BY <1>3 DEF Lock
<1>4. ASSUME NEW c \in Callers, AdmitNow(c) PROVE TypeOK' BY <1>4 DEF AdmitNow
<1>5. ASSUME NEW c \in Callers, Reserve(c) PROVE TypeOK' BY <1>5 DEF Reserve
<1>6. ASSUME NEW c \in Callers, RejectNow(c) PROVE TypeOK' BY <1>6 DEF RejectNow
<1>7. ASSUME NEW c \in Callers, CheckQueue(c) PROVE TypeOK' BY <1>7 DEF CheckQueue
<1>8. ASSUME NEW c \in Callers, EnterQueue(c) PROVE TypeOK' BY <1>8 DEF EnterQueue
<1>9. ASSUME NEW c \in Callers, CancelLocking(c) PROVE TypeOK' BY <1>9 DEF CancelLocking
<1>10. ASSUME NEW c \in Callers, TryLock(c) PROVE TypeOK' BY <1>10 DEF TryLock
<1>11. ASSUME NEW c \in Callers, RollBack(c) PROVE TypeOK' BY <1>11 DEF RollBack
<1>12. ASSUME NEW c \in Callers, Wake(c) PROVE TypeOK' BY <1>1, <1>12 DEF Wake
<1>13. ASSUME NEW c \in Callers, CancelSleeping(c) PROVE TypeOK' BY <1>1, <1>13 DEF CancelSleeping
<1>14. CASE Tick \/ UNCHANGED vars BY <1>14 DEF Tick, vars
<1>. QED BY <1>2, <1>3, <1>4, <1>5, <1>6, <1>7, <1>8, <1>9, <1>10, <1>11, <1>12, <1>13, <1>14 DEF Next, Step

\* Every action that does not touch WAITER_COUNT leaves the sleepers alone, and
\* the others add or remove exactly one of each.
LEMMA CounterStep == CounterInv /\ [Next]_vars => CounterInv'
<1>. SUFFICES ASSUME TypeOK, WaitersCounted, [Next]_vars
              PROVE  waiters' = Cardinality(Sleepers')
    BY TypeStep DEF CounterInv, WaitersCounted, Sleepers
<1>0. waiters = Cardinality(Sleepers) BY DEF WaitersCounted, Sleepers
<1>. USE DEF Stages
<1>1. ASSUME NEW c \in Callers, NEW stage \in Stages, pc[c] # "sleeping",
             stage # "sleeping", Goto(c, stage), waiters' = waiters
      PROVE  waiters' = Cardinality(Sleepers')
    BY <1>1, <1>0, SleepersUnchanged
<1>2. ASSUME NEW c \in Callers, Arrive(c) PROVE waiters' = Cardinality(Sleepers')
    BY <1>1, <1>2 DEF Arrive
<1>3. ASSUME NEW c \in Callers, Lock(c) PROVE waiters' = Cardinality(Sleepers')
    BY <1>1, <1>3 DEF Lock
<1>4. ASSUME NEW c \in Callers, AdmitNow(c) PROVE waiters' = Cardinality(Sleepers')
    BY <1>1, <1>4 DEF AdmitNow
<1>5. ASSUME NEW c \in Callers, Reserve(c) PROVE waiters' = Cardinality(Sleepers')
    BY <1>1, <1>5 DEF Reserve
<1>6. ASSUME NEW c \in Callers, RejectNow(c) PROVE waiters' = Cardinality(Sleepers')
    BY <1>1, <1>6 DEF RejectNow
<1>7. ASSUME NEW c \in Callers, CheckQueue(c) PROVE waiters' = Cardinality(Sleepers')
    BY <1>1, <1>7 DEF CheckQueue
<1>8. ASSUME NEW c \in Callers, CancelLocking(c) PROVE waiters' = Cardinality(Sleepers')
    BY <1>1, <1>8 DEF CancelLocking
<1>9. ASSUME NEW c \in Callers, TryLock(c) PROVE waiters' = Cardinality(Sleepers')
    BY <1>1, <1>9 DEF TryLock
<1>10. ASSUME NEW c \in Callers, RollBack(c) PROVE waiters' = Cardinality(Sleepers')
    BY <1>1, <1>10 DEF RollBack
<1>11. ASSUME NEW c \in Callers, EnterQueue(c) PROVE waiters' = Cardinality(Sleepers')
    BY <1>0, <1>11, SleeperEnters DEF EnterQueue
<1>12. ASSUME NEW c \in Callers, Wake(c) PROVE waiters' = Cardinality(Sleepers')
    BY <1>0, <1>12, SleeperLeaves DEF Wake
<1>13. ASSUME NEW c \in Callers, CancelSleeping(c) PROVE waiters' = Cardinality(Sleepers')
    BY <1>0, <1>13, SleeperLeaves DEF CancelSleeping
<1>14. CASE Tick \/ UNCHANGED vars BY <1>0, <1>14 DEF Tick, vars, Sleepers
<1>. QED BY <1>2, <1>3, <1>4, <1>5, <1>6, <1>7, <1>8, <1>9, <1>10, <1>11, <1>12, <1>13, <1>14 DEF Next, Step

\* The waiter count is exact in every reachable state: neither a refusal nor a
\* cancellation leaks a count (check_rate_limit, SlotGuard).
THEOREM WaitersCountedAlways == Spec => [](TypeOK /\ WaitersCounted)
<1>. QED BY CounterInit, CounterStep, PTL DEF Spec, CounterInv

----------------------------------------------------------------------------
\* The two critical sections exclude each other.
LEMMA GateInit == Init => GateExclusive
BY RateLimitAssumption DEF Init, GateExclusive

LEMMA GateStep == TypeOK /\ GateExclusive /\ [Next]_vars => GateExclusive'
<1>. SUFFICES ASSUME TypeOK, GateExclusive, [Next]_vars PROVE GateExclusive'
    OBVIOUS
<1>. USE RateLimitAssumption DEF TypeOK, GateExclusive, Goto
<1>1. ASSUME NEW c \in Callers, Arrive(c) PROVE GateExclusive' BY <1>1 DEF Arrive
<1>2. ASSUME NEW c \in Callers, CheckQueue(c) PROVE GateExclusive' BY <1>2 DEF CheckQueue
<1>3. ASSUME NEW c \in Callers, EnterQueue(c) PROVE GateExclusive' BY <1>3 DEF EnterQueue
<1>4. ASSUME NEW c \in Callers, Wake(c) PROVE GateExclusive' BY <1>4 DEF Wake
<1>5. ASSUME NEW c \in Callers, CancelLocking(c) PROVE GateExclusive' BY <1>5 DEF CancelLocking
<1>6. ASSUME NEW c \in Callers, CancelSleeping(c) PROVE GateExclusive' BY <1>6 DEF CancelSleeping
<1>7. ASSUME NEW c \in Callers, Lock(c) PROVE GateExclusive' BY <1>7 DEF Lock
<1>8. ASSUME NEW c \in Callers, AdmitNow(c) PROVE GateExclusive' BY <1>8 DEF AdmitNow
<1>9. ASSUME NEW c \in Callers, Reserve(c) PROVE GateExclusive' BY <1>9 DEF Reserve
<1>10. ASSUME NEW c \in Callers, RejectNow(c) PROVE GateExclusive' BY <1>10 DEF RejectNow
<1>11. ASSUME NEW c \in Callers, TryLock(c) PROVE GateExclusive' BY <1>11 DEF TryLock
<1>12. ASSUME NEW c \in Callers, RollBack(c) PROVE GateExclusive' BY <1>12 DEF RollBack
<1>13. CASE Tick \/ UNCHANGED vars BY <1>13 DEF Tick, vars
<1>. QED BY <1>1, <1>2, <1>3, <1>4, <1>5, <1>6, <1>7, <1>8, <1>9, <1>10, <1>11, <1>12, <1>13 DEF Next, Step

----------------------------------------------------------------------------
\* The schedule and the slots.  ScheduleBeyondSlots makes every new slot lie
\* apart from the ones in use; SlotsApart makes the roll-back of the last slot
\* leave the schedule beyond the others.  Neither is inductive alone.
SlotInv == ScheduleBeyondSlots /\ SlotsApart

LEMMA SlotInit == Init => SlotInv
BY DEF Init, SlotInv, ScheduleBeyondSlots, SlotsApart, HoldsSlot

\* A step that gives nobody a slot, moves no slot and leaves the schedule alone
\* keeps both.
LEMMA SlotsKept ==
    ASSUME SlotInv, next' = next, slot' = slot,
           \A c \in Callers : HoldsSlot(c)' => HoldsSlot(c)
    PROVE  SlotInv'
BY DEF SlotInv, ScheduleBeyondSlots, SlotsApart

LEMMA SlotStep == TypeOK /\ SlotInv /\ [Next]_vars => SlotInv'
<1>. SUFFICES ASSUME TypeOK, SlotInv, [Next]_vars PROVE SlotInv'
    OBVIOUS
<1>. USE RateLimitAssumption
<1>1. ASSUME NEW c \in Callers, Arrive(c) PROVE SlotInv'
    BY <1>1, SlotsKept DEF Arrive, HoldsSlot, Goto, TypeOK
<1>2. ASSUME NEW c \in Callers, Lock(c) PROVE SlotInv'
    BY <1>2, SlotsKept DEF Lock, HoldsSlot, Goto, TypeOK
<1>3. ASSUME NEW c \in Callers, RejectNow(c) PROVE SlotInv'
    BY <1>3, SlotsKept DEF RejectNow, HoldsSlot, Goto, TypeOK
<1>4. ASSUME NEW c \in Callers, CheckQueue(c) PROVE SlotInv'
    BY <1>4, SlotsKept DEF CheckQueue, HoldsSlot, Goto, TypeOK
<1>5. ASSUME NEW c \in Callers, EnterQueue(c) PROVE SlotInv'
    BY <1>5, SlotsKept DEF EnterQueue, HoldsSlot, Goto, TypeOK
<1>6. ASSUME NEW c \in Callers, Wake(c) PROVE SlotInv'
    BY <1>6, SlotsKept DEF Wake, HoldsSlot, Goto, TypeOK
<1>7. ASSUME NEW c \in Callers, CancelLocking(c) PROVE SlotInv'
    BY <1>7, SlotsKept DEF CancelLocking, HoldsSlot, Goto, TypeOK
<1>8. ASSUME NEW c \in Callers, CancelSleeping(c) PROVE SlotInv'
    BY <1>8, SlotsKept DEF CancelSleeping, HoldsSlot, Goto, TypeOK
<1>9. ASSUME NEW c \in Callers, TryLock(c) PROVE SlotInv'
    BY <1>9, SlotsKept DEF TryLock, HoldsSlot, Goto, TypeOK
<1>10. ASSUME NEW c \in Callers, AdmitNow(c) PROVE SlotInv'
    BY <1>10 DEF AdmitNow, SlotInv, ScheduleBeyondSlots, SlotsApart, HoldsSlot, Goto, TypeOK
<1>11. ASSUME NEW c \in Callers, Reserve(c) PROVE SlotInv'
    BY <1>11 DEF Reserve, SlotInv, ScheduleBeyondSlots, SlotsApart, HoldsSlot, Goto, TypeOK
<1>12. ASSUME NEW c \in Callers, RollBack(c) PROVE SlotInv'
    BY <1>12 DEF RollBack, SlotInv, ScheduleBeyondSlots, SlotsApart, HoldsSlot, Goto, TypeOK
<1>13. CASE Tick \/ UNCHANGED vars BY <1>13, SlotsKept DEF Tick, vars, HoldsSlot
<1>. QED BY <1>1, <1>2, <1>3, <1>4, <1>5, <1>6, <1>7, <1>8, <1>9, <1>10, <1>11, <1>12, <1>13 DEF Next, Step

----------------------------------------------------------------------------
LEMMA IInvInit == Init => IInv
BY CounterInit, GateInit, SlotInit DEF IInv, CounterInv, SlotInv

LEMMA IInvStep == IInv /\ [Next]_vars => IInv'
BY CounterStep, GateStep, SlotStep DEF IInv, CounterInv, SlotInv

\* The inductive invariant holds in every behaviour, so each of its conjuncts
\* does: the types, the count of waiters, the exclusion of the two critical
\* sections, and the two facts about the schedule.
THEOREM IInvAlways == Spec => []IInv
<1>. QED BY IInvInit, IInvStep, PTL DEF Spec

\* No two callers ever hold slots less than Interval apart.
THEOREM SlotsApartAlways == Spec => []SlotsApart
<1>1. IInv => SlotsApart BY DEF IInv
<1>. QED BY <1>1, IInvAlways, PTL

\* A caller is never admitted into, and never reserves, an instant that lies
\* before the end of a slot in use.
THEOREM ScheduleBeyondSlotsAlways == Spec => []ScheduleBeyondSlots
<1>1. IInv => ScheduleBeyondSlots BY DEF IInv
<1>. QED BY <1>1, IInvAlways, PTL

\* `decide` and the roll-back of SlotGuard::drop are never both inside the mutex.
THEOREM GateExclusiveAlways == Spec => []GateExclusive
<1>1. IInv => GateExclusive BY DEF IInv
<1>. QED BY <1>1, IInvAlways, PTL

----------------------------------------------------------------------------
\* The schedule goes back only when its last slot is given up by its owner.
LEMMA RollBackStep ==
    IInv /\ [Next]_vars =>
        [next' < next =>
            \E c \in Callers : /\ HoldsSlot(c) /\ ~HoldsSlot(c)'
                               /\ next = slot[c] + Interval
                               /\ next' = slot[c]]_vars
<1>. SUFFICES ASSUME TypeOK, Next, next' < next
              PROVE  \E c \in Callers : /\ HoldsSlot(c) /\ ~HoldsSlot(c)'
                                        /\ next = slot[c] + Interval
                                        /\ next' = slot[c]
    BY DEF IInv
<1>1. PICK c \in Callers : RollBack(c)
    BY RateLimitAssumption
    DEF Next, Step, TypeOK, Arrive, Lock, AdmitNow, Reserve, RejectNow, CheckQueue,
        EnterQueue, Wake, CancelLocking, CancelSleeping, TryLock, Tick
<1>. QED BY <1>1 DEF RollBack, TypeOK, HoldsSlot, Goto

THEOREM RollBackIsOwnAlways == Spec => RollBackIsOwn
<1>. QED BY RollBackStep, IInvAlways, PTL DEF Spec, RollBackIsOwn

----------------------------------------------------------------------------
(* The limiter implements PacedSlots.                                      *)

PacedState == <<{c \in Callers : HoldsSlot(c)}, slot, {c \in Callers : pc[c] = "admitted"}>>

LEMMA PacedInit == Init => Paced!Init
BY DEF Init, Paced!Init, HoldsSlot

\* A new slot is a Grant: it is apart from all others because the schedule
\* lies beyond them.
LEMMA GrantStep ==
    ASSUME IInv, NEW c \in Callers, AdmitNow(c) \/ Reserve(c)
    PROVE  Paced!Grant(c)
<1>. USE RateLimitAssumption DEF IInv, TypeOK, HoldsSlot, Goto, AdmitNow, Reserve
<1>1. ~HoldsSlot(c) /\ \A d \in Callers : HoldsSlot(d)' <=> HoldsSlot(d) \/ d = c
    OBVIOUS
<1>2. slot'[c] \in Nat /\ slot'[c] >= next /\ slot' = [slot EXCEPT ![c] = slot'[c]]
    OBVIOUS
<1>3. \A d \in Callers : HoldsSlot(d) => Paced!Apart(slot[d], slot'[c])
    BY <1>2 DEF ScheduleBeyondSlots, Paced!Apart
<1>4. \/ \A d \in Callers : pc'[d] = "admitted" <=> pc[d] = "admitted"
      \/ \A d \in Callers : pc'[d] = "admitted" <=> pc[d] = "admitted" \/ d = c
    OBVIOUS
<1>. QED BY <1>1, <1>2, <1>3, <1>4 DEF Paced!Grant

LEMMA UseStep ==
    ASSUME IInv, NEW c \in Callers, Wake(c)
    PROVE  Paced!Use(c)
BY DEF IInv, TypeOK, HoldsSlot, Goto, Wake, Paced!Use

\* A slot is given up by the roll-back, or lost when the mutex is busy.
LEMMA ReleaseStep ==
    ASSUME IInv, NEW c \in Callers, RollBack(c) \/ (TryLock(c) /\ holder # NoCaller)
    PROVE  Paced!Release(c)
BY DEF IInv, TypeOK, HoldsSlot, Goto, RollBack, TryLock, Paced!Release

LEMMA PacedStep == IInv /\ [Next]_vars => [Paced!Next]_PacedState
<1>. SUFFICES ASSUME IInv, [Next]_vars PROVE Paced!Next \/ UNCHANGED PacedState
    OBVIOUS
<1>1. ASSUME NEW c \in Callers, AdmitNow(c) PROVE Paced!Next BY <1>1, GrantStep DEF Paced!Next
<1>2. ASSUME NEW c \in Callers, Reserve(c) PROVE Paced!Next BY <1>2, GrantStep DEF Paced!Next
<1>3. ASSUME NEW c \in Callers, Wake(c) PROVE Paced!Next BY <1>3, UseStep DEF Paced!Next
<1>4. ASSUME NEW c \in Callers, RollBack(c) PROVE Paced!Next BY <1>4, ReleaseStep DEF Paced!Next
<1>5. ASSUME NEW c \in Callers, TryLock(c), holder # NoCaller PROVE Paced!Next
    BY <1>5, ReleaseStep DEF Paced!Next
<1>6. ASSUME NEW c \in Callers, TryLock(c), holder = NoCaller PROVE UNCHANGED PacedState
    BY <1>6 DEF TryLock, PacedState, IInv, TypeOK, HoldsSlot, Goto
<1>7. ASSUME NEW c \in Callers, Arrive(c) PROVE UNCHANGED PacedState
    BY <1>7 DEF Arrive, PacedState, IInv, TypeOK, HoldsSlot, Goto
<1>8. ASSUME NEW c \in Callers, Lock(c) PROVE UNCHANGED PacedState
    BY <1>8 DEF Lock, PacedState, IInv, TypeOK, HoldsSlot, Goto
<1>9. ASSUME NEW c \in Callers, RejectNow(c) PROVE UNCHANGED PacedState
    BY <1>9 DEF RejectNow, PacedState, IInv, TypeOK, HoldsSlot, Goto
<1>10. ASSUME NEW c \in Callers, CheckQueue(c) PROVE UNCHANGED PacedState
    BY <1>10 DEF CheckQueue, PacedState, IInv, TypeOK, HoldsSlot, Goto
<1>11. ASSUME NEW c \in Callers, EnterQueue(c) PROVE UNCHANGED PacedState
    BY <1>11 DEF EnterQueue, PacedState, IInv, TypeOK, HoldsSlot, Goto
<1>12. ASSUME NEW c \in Callers, CancelLocking(c) PROVE UNCHANGED PacedState
    BY <1>12 DEF CancelLocking, PacedState, IInv, TypeOK, HoldsSlot, Goto
<1>13. ASSUME NEW c \in Callers, CancelSleeping(c) PROVE UNCHANGED PacedState
    BY <1>13 DEF CancelSleeping, PacedState, IInv, TypeOK, HoldsSlot, Goto
<1>14. CASE Tick \/ UNCHANGED vars BY <1>14 DEF Tick, vars, PacedState, HoldsSlot
<1>. QED BY <1>1, <1>2, <1>3, <1>4, <1>5, <1>6, <1>7, <1>8, <1>9, <1>10, <1>11, <1>12, <1>13, <1>14 DEF Next, Step

\* The limiter keeps the pacing promise: instants granted to different callers
\* stay Interval apart and a used instant is never given back.
THEOREM ImplementsPacingAlways == Spec => ImplementsPacing
<1>. QED BY PacedInit, PacedStep, IInvAlways, PTL
         DEF Spec, ImplementsPacing, Paced!Spec, Paced!vars, PacedState
----------------------------------------------------------------------------
(* Reject mode.  Nobody waits, so no slot is ever given back, and the      *)
(* schedule is the one of the last admission.                              *)

NobodyWaits ==
    ~wait => \A c \in Callers : pc[c] \in {"idle", "locking", "deciding", "admitted", "refused"}
RejectInv == TypeOK /\ NobodyWaits /\ RejectionJustified

LEMMA RejectStep == RejectInv /\ TypeOK' /\ [Next]_vars => RejectInv'
<1>. SUFFICES ASSUME RejectInv, TypeOK', [Next]_vars PROVE NobodyWaits' /\ RejectionJustified'
    BY DEF RejectInv
<1>. USE DEF RejectInv, TypeOK, NobodyWaits, Goto
<1>. DEFINE Justified == NobodyWaits' /\ RejectionJustified'
<1>1. ASSUME NEW c \in Callers, AdmitNow(c) PROVE Justified
    <2>1. pc'[c] = "admitted" /\ slot'[c] + Interval = next' BY <1>1, RateLimitAssumption DEF AdmitNow
    <2>2. NobodyWaits' BY <1>1 DEF AdmitNow
    <2>. QED BY <2>1, <2>2 DEF RejectionJustified
<1>2. ASSUME wait, UNCHANGED wait PROVE Justified BY <1>2 DEF RejectionJustified
<1>3. ASSUME ~wait, UNCHANGED <<wait, next, slot>>,
             \A c \in Callers : /\ pc'[c] \in {"idle", "locking", "deciding", "admitted", "refused"}
                                /\ pc[c] = "admitted" => pc'[c] = "admitted"
      PROVE  Justified
    BY <1>3 DEF RejectionJustified
<1>. HIDE DEF Justified
<1>4. ASSUME NEW c \in Callers, Arrive(c) PROVE Justified BY <1>2, <1>3, <1>4 DEF Arrive
<1>5. ASSUME NEW c \in Callers, Lock(c) PROVE Justified BY <1>2, <1>3, <1>5 DEF Lock
<1>6. ASSUME NEW c \in Callers, Reserve(c) PROVE Justified BY <1>2, <1>3, <1>6 DEF Reserve
<1>7. ASSUME NEW c \in Callers, RejectNow(c) PROVE Justified BY <1>2, <1>3, <1>7 DEF RejectNow
<1>8. ASSUME NEW c \in Callers, CheckQueue(c) PROVE Justified BY <1>2, <1>3, <1>8 DEF CheckQueue
<1>9. ASSUME NEW c \in Callers, EnterQueue(c) PROVE Justified BY <1>2, <1>3, <1>9 DEF EnterQueue
<1>10. ASSUME NEW c \in Callers, Wake(c) PROVE Justified BY <1>2, <1>3, <1>10 DEF Wake
<1>11. ASSUME NEW c \in Callers, TryLock(c) PROVE Justified BY <1>2, <1>3, <1>11 DEF TryLock
<1>12. ASSUME NEW c \in Callers, RollBack(c) PROVE Justified BY <1>2, <1>3, <1>12 DEF RollBack
<1>13. ASSUME NEW c \in Callers, CancelLocking(c) PROVE Justified BY <1>2, <1>3, <1>13 DEF CancelLocking
<1>14. ASSUME NEW c \in Callers, CancelSleeping(c) PROVE Justified BY <1>2, <1>3, <1>14 DEF CancelSleeping
<1>15. ASSUME Tick PROVE Justified BY <1>2, <1>3, <1>15 DEF Tick
<1>16. ASSUME UNCHANGED vars PROVE Justified BY <1>2, <1>3, <1>16 DEF vars
<1>. QED BY <1>1, <1>4, <1>5, <1>6, <1>7, <1>8, <1>9, <1>10, <1>11, <1>12, <1>13, <1>14, <1>15,
    <1>16
    DEF Next, Step, Justified

\* A 429 of reject mode is only ever answered within Interval of a request that
\* went through.
THEOREM RejectionJustifiedAlways == Spec => []RejectionJustified
<1>1. Init => RejectInv BY DEF Init, RejectInv, TypeOK, Stages, NobodyWaits, RejectionJustified
<1>2. RejectInv => RejectionJustified BY DEF RejectInv
<1>3. IInv => TypeOK BY DEF IInv
<1>. QED BY <1>1, <1>2, <1>3, RejectStep, IInvAlways, PTL DEF Spec

(***************************************************************************)
(* The concurrency limit                                                   *)
(***************************************************************************)

At(stages) == {r \in Requests : standing[r] \in stages}

LEMMA AtFinite ==
    ASSUME NEW CONSTANT stages
    PROVE  /\ IsFiniteSet(At(stages)) /\ Cardinality(At(stages)) \in Nat
           /\ IsFiniteSet(At(stages)') /\ Cardinality(At(stages)') \in Nat
<1>1. At(stages) \subseteq Requests /\ At(stages)' \subseteq Requests BY DEF At
<1>2. IsFiniteSet(At(stages)) /\ IsFiniteSet(At(stages)')
    BY <1>1, FS_Subset, AdmissionAssumption
<1>. QED BY <1>2, FS_CardinalityType

\* A request that goes from one stage to another leaves some counts and enters
\* others, and nobody else does.
LEMMA OneMoves ==
    ASSUME NEW CONSTANT stages, standing \in [Requests -> RequestStages],
           NEW r \in Requests, NEW stage, Proceed(r, stage)
    PROVE  Cardinality(At(stages)') =
               Cardinality(At(stages)) + (IF stage \in stages THEN 1 ELSE 0)
                                       - (IF standing[r] \in stages THEN 1 ELSE 0)
<1>. DEFINE before == At(stages)
            others == before \ {r}
<1>1. IsFiniteSet(before) /\ Cardinality(before) \in Nat BY AtFinite
<1>2. r \in before <=> standing[r] \in stages BY DEF At
<1>3. /\ IsFiniteSet(others) /\ Cardinality(others) \in Nat
      /\ Cardinality(others) = Cardinality(before) - (IF standing[r] \in stages THEN 1 ELSE 0)
    <2>1. /\ IsFiniteSet(others)
          /\ Cardinality(others) = IF r \in before THEN Cardinality(before) - 1 ELSE Cardinality(before)
        BY <1>1, FS_RemoveElement
    <2>2. Cardinality(others) \in Nat BY <2>1, FS_CardinalityType
    <2>. HIDE DEF before, others
    <2>. QED BY <1>1, <1>2, <2>1, <2>2
<1>4. At(stages)' = IF stage \in stages THEN others \cup {r} ELSE others
    BY DEF At, Proceed
<1>5. Cardinality(others \cup {r}) = Cardinality(others) + 1
    BY <1>3, FS_AddElement
<1>. HIDE DEF before, others
<1>6. Cardinality(At(stages)') = Cardinality(others) + (IF stage \in stages THEN 1 ELSE 0)
    BY <1>3, <1>4, <1>5
<1>. QED BY <1>1, <1>3, <1>6 DEF before

LEMMA NobodyMoves ==
    ASSUME NEW CONSTANT stages, UNCHANGED standing
    PROVE  At(stages)' = At(stages)
BY DEF At

----------------------------------------------------------------------------
Working  == {"admitted", "handling", "streaming", "dropping", "releasing"}
Tallied  == {"handling", "streaming", "dropping"}
Untold   == {"overloaded", "clocked", "electing", "suppressing"}

LEMMA SetsAreStages ==
    /\ {r \in Requests : Holds(r)} = At(Working)
    /\ {r \in Requests : Counted(r)} = At(Tallied)
    /\ {r \in Requests : standing[r] \in {"overloaded", "clocked", "electing", "suppressing"}} = At(Untold)
BY DEF Holds, Counted, At, Working, Tallied, Untold

InvOfStages ==
    /\ AdmissionTypeOK
    /\ permits + Cardinality(At(Working)) = Limit
    /\ active = Cardinality(At(Tallied)) /\ active <= Limit

LEMMA InvByStages == AdmissionInv <=> InvOfStages
BY SetsAreStages DEF AdmissionInv, InvOfStages, PermitsConserved, ActiveWithinLimit

\* Whoever is counted holds a permit, so there are no more of them.
LEMMA TalliedWork == Cardinality(At(Tallied)) <= Cardinality(At(Working))
<1>1. At(Tallied) \subseteq At(Working) BY DEF At, Tallied, Working
<1>. QED BY <1>1, AtFinite, FS_Subset

----------------------------------------------------------------------------
LEMMA InvInit == AdmissionInit => AdmissionInv
<1>. SUFFICES ASSUME AdmissionInit PROVE AdmissionInv OBVIOUS
<1>1. AdmissionTypeOK BY AdmissionAssumption DEF AdmissionInit, AdmissionTypeOK, RequestStages
<1>2. At(Working) = {} /\ At(Tallied) = {} BY DEF AdmissionInit, At, Working, Tallied
<1>3. Cardinality(At(Working)) = 0 /\ Cardinality(At(Tallied)) = 0
    BY <1>2, FS_EmptySet
<1>. QED BY <1>1, <1>3, InvByStages, AdmissionAssumption DEF AdmissionInit, InvOfStages

\* What a step of one request does to the two counts.
LEMMA CountsMove ==
    ASSUME AdmissionTypeOK, NEW r \in Requests, NEW stage, Proceed(r, stage)
    PROVE  /\ Cardinality(At(Working)') =
                  Cardinality(At(Working)) + (IF stage \in Working THEN 1 ELSE 0)
                                           - (IF standing[r] \in Working THEN 1 ELSE 0)
           /\ Cardinality(At(Tallied)') =
                  Cardinality(At(Tallied)) + (IF stage \in Tallied THEN 1 ELSE 0)
                                           - (IF standing[r] \in Tallied THEN 1 ELSE 0)
BY OneMoves DEF AdmissionTypeOK

\* A permit is taken and given back with the stages that hold one, and a
\* request is counted while it holds one; all else moves between stages that
\* both sets have or neither.
LEMMA CountsStep ==
    ASSUME AdmissionInv, [AdmissionNext]_admissionVars
    PROVE  /\ permits' + Cardinality(At(Working)') = Limit
           /\ active' = Cardinality(At(Tallied)')
<1>. USE DEF Working, Tallied
<1>0. /\ AdmissionTypeOK
      /\ permits + Cardinality(At(Working)) = Limit /\ active = Cardinality(At(Tallied))
      /\ Cardinality(At(Working)) \in Nat /\ Cardinality(At(Tallied)) \in Nat
      /\ permits \in Nat /\ active \in Nat /\ Limit \in Nat
    BY AtFinite, InvByStages, AdmissionAssumption DEF InvOfStages, AdmissionTypeOK
<1>. DEFINE Kept == /\ permits' + Cardinality(At(Working)') = Limit
                    /\ active' = Cardinality(At(Tallied)')
<1>1. ASSUME NEW r \in Requests, TryAcquire(r) PROVE Kept
    BY <1>0, <1>1, CountsMove DEF TryAcquire
<1>2. ASSUME NEW r \in Requests, Respond(r) PROVE Kept
    BY <1>0, <1>2, CountsMove DEF Respond, countVars
<1>3. ASSUME NEW r \in Requests, End(r) PROVE Kept
    BY <1>0, <1>3, CountsMove DEF End, countVars
<1>4. ASSUME NEW r \in Requests, Refuse(r) PROVE Kept
    BY <1>0, <1>4, CountsMove DEF Refuse, countVars
<1>5. ASSUME NEW r \in Requests, Count(r) PROVE Kept
    BY <1>0, <1>5, CountsMove DEF Count
<1>6. ASSUME NEW r \in Requests, Uncount(r) PROVE Kept
    BY <1>0, <1>6, CountsMove DEF Uncount
<1>7. ASSUME NEW r \in Requests, Release(r) PROVE Kept
    BY <1>0, <1>7, CountsMove DEF Release
<1>8. ASSUME NEW r \in Requests, ReadClock(r) PROVE Kept
    BY <1>0, <1>8, CountsMove DEF ReadClock, countVars
<1>9. ASSUME NEW r \in Requests, LoadLast(r) PROVE Kept
    BY <1>0, <1>9, CountsMove DEF LoadLast, countVars
<1>10. ASSUME NEW r \in Requests, Elect(r) PROVE Kept
    BY <1>0, <1>10, CountsMove DEF Elect, countVars
<1>11. ASSUME NEW r \in Requests, Log(r) PROVE Kept
    BY <1>0, <1>11, CountsMove DEF Log, countVars
<1>12. ASSUME NEW r \in Requests, Suppress(r) PROVE Kept
    BY <1>0, <1>12, CountsMove DEF Suppress, countVars
<1>13. CASE SetClock \/ UNCHANGED admissionVars
    BY <1>0, <1>13, NobodyMoves DEF SetClock, countVars, admissionVars
<1>. QED BY <1>1, <1>2, <1>3, <1>4, <1>5, <1>6, <1>7, <1>8, <1>9, <1>10, <1>11, <1>12,
            <1>13 DEF AdmissionNext, RequestStep

\* The two decrements stay natural, and the one increment stays within Limit,
\* because of the counts.
LEMMA AdmissionTypeStep ==
    ASSUME AdmissionInv, [AdmissionNext]_admissionVars
    PROVE  AdmissionTypeOK'
<1>. USE AdmissionAssumption DEF AdmissionTypeOK, Proceed, RequestStages, countVars, logVars
<1>0. AdmissionTypeOK BY InvByStages DEF InvOfStages
<1>1. /\ permits' \in 0..Limit
      /\ active' \in Nat
    <2>1. Cardinality(At(Working)') \in Nat /\ Cardinality(At(Tallied)') \in Nat
        BY AtFinite
    <2>2. permits' \in Int
        BY <1>0 DEF AdmissionNext, RequestStep, admissionVars, TryAcquire, Respond, End, Refuse, Count, Uncount, Release,
                    ReadClock, LoadLast, Elect, Log, Suppress, SetClock
    <2>3. permits' >= 0
        BY <1>0 DEF AdmissionNext, RequestStep, admissionVars, TryAcquire, Respond, End, Refuse, Count, Uncount, Release,
                    ReadClock, LoadLast, Elect, Log, Suppress, SetClock
    <2>. QED BY <2>1, <2>2, <2>3, CountsStep
<1>2. standing' \in [Requests -> RequestStages]
    BY <1>0 DEF AdmissionNext, RequestStep, admissionVars, TryAcquire, Respond, End, Refuse, Count, Uncount, Release,
                ReadClock, LoadLast, Elect, Log, Suppress, SetClock
<1>3. /\ last' \in Nat /\ suppressed' \in Nat
      /\ refused' \in Nat /\ lines' \in Nat /\ told' \in Nat
    BY <1>0 DEF AdmissionNext, RequestStep, admissionVars, TryAcquire, Respond, End, Refuse, Count, Uncount, Release,
                ReadClock, LoadLast, Elect, Log, Suppress, SetClock
<1>4. read' \in [Requests -> [clock : Nat, last : Nat]]
    BY <1>0 DEF AdmissionNext, RequestStep, admissionVars, TryAcquire, Respond, End, Refuse, Count, Uncount, Release,
                ReadClock, LoadLast, Elect, Log, Suppress, SetClock
<1>5. clock' \in Nat
    BY <1>0 DEF AdmissionNext, RequestStep, admissionVars, TryAcquire, Respond, End, Refuse, Count, Uncount, Release,
                ReadClock, LoadLast, Elect, Log, Suppress, SetClock
<1>. QED BY <1>1, <1>2, <1>3, <1>4, <1>5

LEMMA InvStep == AdmissionInv /\ [AdmissionNext]_admissionVars => AdmissionInv'
<1>. SUFFICES ASSUME AdmissionInv, [AdmissionNext]_admissionVars PROVE AdmissionInv' OBVIOUS
<1>1. AdmissionTypeOK' BY AdmissionTypeStep
<1>2. /\ permits' + Cardinality(At(Working)') = Limit
      /\ active' = Cardinality(At(Tallied)')
    BY CountsStep
<1>3. active' <= Limit
    <2>1. (Cardinality(At(Tallied)) <= Cardinality(At(Working)))' BY TalliedWork, PTL
    <2>2. Cardinality(At(Working)') \in Nat /\ Cardinality(At(Tallied)') \in Nat
        BY AtFinite
    <2>3. permits' \in 0..Limit /\ Limit \in Nat
        BY <1>1, AdmissionAssumption DEF AdmissionTypeOK
    <2>. QED BY <1>2, <2>1, <2>2, <2>3
<1>4. InvOfStages' BY <1>1, <1>2, <1>3 DEF InvOfStages
<1>. QED BY <1>4, InvByStages, PTL

\* The semaphore and the gauge keep what they promise, whatever way requests
\* end (try_acquire, attach_permit, AdmissionPermit::drop).
THEOREM AdmissionInvAlways == AdmissionSpec => []AdmissionInv
<1>. QED BY InvInit, InvStep, PTL DEF AdmissionSpec

----------------------------------------------------------------------------
(* The log lines *)

\* Who stands for election has found its clock an interval behind the line it
\* knows of.
ElectedLate == \A r \in Requests : standing[r] = "electing" => read[r].clock >= read[r].last + LogInterval

Accounted == refused = lines + told + suppressed + Cardinality(At(Untold))

LogInv == AdmissionInv /\ ElectedLate /\ Accounted

LEMMA LogInit == AdmissionInit => LogInv
<1>. SUFFICES ASSUME AdmissionInit PROVE LogInv OBVIOUS
<1>1. At(Untold) = {} BY DEF AdmissionInit, At, Untold
<1>2. Accounted BY <1>1, FS_EmptySet DEF AdmissionInit, Accounted
<1>3. ElectedLate BY DEF AdmissionInit, ElectedLate
<1>. QED BY <1>2, <1>3, InvInit DEF LogInv

LEMMA ElectedLateStep == AdmissionTypeOK /\ ElectedLate /\ [AdmissionNext]_admissionVars => ElectedLate'
<1>. SUFFICES ASSUME AdmissionTypeOK, ElectedLate, [AdmissionNext]_admissionVars, NEW q \in Requests, standing'[q] = "electing"
              PROVE  read'[q].clock >= read'[q].last + LogInterval
    BY DEF ElectedLate
<1>. USE DEF AdmissionTypeOK, ElectedLate, Proceed
<1>1. ASSUME NEW r \in Requests, LoadLast(r)
      PROVE  read'[q].clock >= read'[q].last + LogInterval
    BY <1>1 DEF LoadLast
<1>2. ASSUME NEW r \in Requests, ReadClock(r)
      PROVE  read'[q].clock >= read'[q].last + LogInterval
    BY <1>2 DEF ReadClock
<1>3. ASSUME standing[q] = "electing", UNCHANGED read
      PROVE  read'[q].clock >= read'[q].last + LogInterval
    BY <1>3
<1>. QED
    BY <1>1, <1>2, <1>3
    DEF AdmissionNext, RequestStep, admissionVars, logVars, TryAcquire, Respond, End, Refuse, Count, Uncount, Release,
        Elect, Log, Suppress, SetClock

\* A refusal enters the sum where it is refused, and moves from one of its
\* terms to another after that.
LEMMA AccountedStep == AdmissionTypeOK /\ Accounted /\ [AdmissionNext]_admissionVars => Accounted'
<1>. SUFFICES ASSUME AdmissionTypeOK, Accounted, [AdmissionNext]_admissionVars PROVE Accounted' OBVIOUS
<1>0. /\ refused = lines + told + suppressed + Cardinality(At(Untold))
      /\ Cardinality(At(Untold)) \in Nat
      /\ refused \in Nat /\ lines \in Nat /\ told \in Nat /\ suppressed \in Nat
    BY AtFinite DEF AdmissionTypeOK, Accounted
<1>1. ASSUME NEW r \in Requests, NEW stage, Proceed(r, stage)
      PROVE  Cardinality(At(Untold)') = Cardinality(At(Untold)) + (IF stage \in Untold THEN 1 ELSE 0)
                                                                - (IF standing[r] \in Untold THEN 1 ELSE 0)
    BY <1>1, OneMoves DEF AdmissionTypeOK
<1>. USE DEF Accounted, Untold
<1>2. ASSUME NEW r \in Requests, TryAcquire(r) PROVE Accounted'
    BY <1>0, <1>1, <1>2 DEF TryAcquire, logVars
<1>3. ASSUME NEW r \in Requests, Respond(r) PROVE Accounted'
    BY <1>0, <1>1, <1>3 DEF Respond, logVars
<1>4. ASSUME NEW r \in Requests, End(r) PROVE Accounted'
    BY <1>0, <1>1, <1>4 DEF End, logVars
<1>5. ASSUME NEW r \in Requests, Refuse(r) PROVE Accounted'
    BY <1>0, <1>1, <1>5 DEF Refuse
<1>6. ASSUME NEW r \in Requests, Count(r) PROVE Accounted'
    BY <1>0, <1>1, <1>6 DEF Count, logVars
<1>7. ASSUME NEW r \in Requests, Uncount(r) PROVE Accounted'
    BY <1>0, <1>1, <1>7 DEF Uncount, logVars
<1>8. ASSUME NEW r \in Requests, Release(r) PROVE Accounted'
    BY <1>0, <1>1, <1>8 DEF Release, logVars
<1>9. ASSUME NEW r \in Requests, ReadClock(r) PROVE Accounted'
    BY <1>0, <1>1, <1>9 DEF ReadClock
<1>10. ASSUME NEW r \in Requests, LoadLast(r) PROVE Accounted'
    BY <1>0, <1>1, <1>10 DEF LoadLast
<1>11. ASSUME NEW r \in Requests, Elect(r) PROVE Accounted'
    BY <1>0, <1>1, <1>11 DEF Elect
<1>12. ASSUME NEW r \in Requests, Log(r) PROVE Accounted'
    BY <1>0, <1>1, <1>12 DEF Log
<1>13. ASSUME NEW r \in Requests, Suppress(r) PROVE Accounted'
    BY <1>0, <1>1, <1>13 DEF Suppress
<1>14. CASE SetClock \/ UNCHANGED admissionVars
    BY <1>0, <1>14, NobodyMoves DEF SetClock, logVars, admissionVars
<1>. QED BY <1>2, <1>3, <1>4, <1>5, <1>6, <1>7, <1>8, <1>9, <1>10, <1>11, <1>12, <1>13,
            <1>14 DEF AdmissionNext, RequestStep

LEMMA LogInvAlways == AdmissionSpec => []LogInv
<1>1. LogInv /\ [AdmissionNext]_admissionVars => LogInv'
    BY InvStep, ElectedLateStep, AccountedStep DEF LogInv, AdmissionInv
<1>. QED BY LogInit, <1>1, PTL DEF AdmissionSpec

\* Only the winner of the compare_exchange writes a line, and the line it
\* replaces is the one it compared its clock with.
LEMMA LinesStep ==
    LogInv /\ [AdmissionNext]_admissionVars => [lines' > lines => last' >= last + LogInterval]_admissionVars
<1>. SUFFICES ASSUME LogInv, AdmissionNext, lines' > lines PROVE last' >= last + LogInterval
    BY DEF admissionVars
<1>. USE DEF LogInv, AdmissionInv, AdmissionTypeOK, ElectedLate
<1>1. PICK r \in Requests : Elect(r)
    BY DEF AdmissionNext, RequestStep, logVars, TryAcquire, Respond, End, Refuse, Count, Uncount, Release,
           ReadClock, LoadLast, Log, Suppress, SetClock
<1>2. last = read[r].last /\ last' = read[r].clock BY <1>1 DEF Elect
<1>. QED BY <1>1, <1>2 DEF Elect

\* However many refusals race for a line, lines are an interval of the clock
\* apart, and every refusal is told of exactly once (record_overload).
THEOREM OverloadToldAlways == AdmissionSpec => OverloadTold
<1>1. AdmissionSpec => LinesApart BY LogInvAlways, LinesStep, PTL DEF AdmissionSpec, LinesApart
<1>2. LogInv => RefusalsAccounted
    BY SetsAreStages DEF LogInv, Accounted, RefusalsAccounted
<1>3. AdmissionSpec => []RefusalsAccounted BY <1>2, LogInvAlways, PTL
<1>. QED BY <1>1, <1>3 DEF OverloadTold

----------------------------------------------------------------------------
(* The daily budgets                                                        *)

\* A total that was read from the database at gate g.
Spent(used, g) == used.tokens <= spent[g][used.of]

\* What each request relies on: the day it came on is over or today, the day its
\* check was begun with is no later than the one its total is of, and it is
\* refused for what was spent.
Right(r) ==
    /\ came[r] <= day
    /\ stands[r] = "reading" => key[r] <= day
    /\ stands[r] = "publishing" => /\ key[r] <= total[r].of /\ came[r] <= total[r].of
                                   /\ Spent(total[r], gate[r])
    /\ stands[r] = "refused" => /\ came[r] <= total[r].of
                                /\ Budget[gate[r]] <= spent[gate[r]][total[r].of]

EntriesSpent ==
    \A g \in Gates : cache[g].key # Nothing =>
        cache[g].key <= cache[g].total.of /\ Spent(cache[g].total, g)

\* The inductive invariant.
BudgetInv == BudgetTypeOK /\ EntriesSpent /\ \A r \in Spenders : Right(r)

----------------------------------------------------------------------------
LEMMA GatesOf == \A r \in Spenders : Label[r] \in Gates
BY TokenBudgetAssumption

LEMMA BudgetInvInit == BudgetInit => BudgetInv
<1>. SUFFICES ASSUME BudgetInit PROVE BudgetInv OBVIOUS
<1>1. LastDay \in Nat /\ 0 \in Days /\ Everyone \in Gates BY TokenBudgetAssumption DEF Days, Gates
<1>2. BudgetTypeOK BY <1>1 DEF BudgetInit, BudgetTypeOK, NoEntry, NoTotal, Totals
<1>. QED BY <1>1, <1>2 DEF BudgetInit, BudgetInv, EntriesSpent, Right, NoEntry

\* What has been spent on a day only grows.
LEMMA SpentGrows ==
    ASSUME BudgetTypeOK, NEW r \in Spenders, WriteEvent(r)
    PROVE  /\ spent' \in [Gates -> [Days -> Nat]]
           /\ \A g \in Gates, d \in Days : spent[g][d] <= spent'[g][d]
<1>1. CASE UNCHANGED spent BY <1>1 DEF BudgetTypeOK
<1>2. CASE spent' = [g \in Gates |->
                       IF g \in {Everyone, Label[r]} THEN [spent[g] EXCEPT ![stamped[r]] = @ + 1]
                       ELSE spent[g]]
    BY <1>2 DEF BudgetTypeOK
<1>. QED BY <1>1, <1>2 DEF WriteEvent

\* A gate passes a request on, or refuses it for the total it was shown.
LEMMA DecideKeeps ==
    ASSUME BudgetTypeOK, NEW r \in Spenders, NEW used \in Totals, Decide(r, used)
    PROVE  /\ stands' \in [Spenders -> {"idle", "checking", "reading", "publishing", "refused",
                                    "inflight", "recording"}]
           /\ gate' \in [Spenders -> Gates] /\ key' \in [Spenders -> Days]
           /\ total' \in [Spenders -> Totals] /\ came' \in [Spenders -> Days]
           /\ \A q \in Spenders \ {r} : /\ stands'[q] = stands[q] /\ gate'[q] = gate[q] /\ key'[q] = key[q]
                                        /\ total'[q] = total[q] /\ came'[q] = came[q]
           /\ stands'[r] \in {"refused", "checking", "inflight"}
           /\ came'[r] \in {0, came[r]}
           /\ stands'[r] = "refused" => /\ total'[r] = used /\ gate'[r] = gate[r] /\ came'[r] = came[r]
                                    /\ used.tokens >= Budget[gate[r]]
<1>1. 0 \in Days /\ Everyone \in Gates /\ NoTotal \in Totals /\ Label[r] \in Gates
    BY TokenBudgetAssumption, GatesOf DEF Days, Gates, Totals, NoTotal
<1>2. CASE ShouldBlock(used.tokens, Budget[gate[r]])
    BY <1>1, <1>2 DEF BudgetTypeOK, Decide, RefuseRequest, StandAt, ShouldBlock
<1>3. CASE ~ShouldBlock(used.tokens, Budget[gate[r]])
    <2>1. key' = [key EXCEPT ![r] = 0] BY DEF Decide
    <2>2. CASE GoOnTo(r, Label[r]) BY <1>1, <2>1, <2>2 DEF BudgetTypeOK, GoOnTo, StandAt
    <2>3. CASE Pass(r) BY <1>1, <2>1, <2>3 DEF BudgetTypeOK, Pass, StandAt
    <2>. QED BY <1>3, <2>2, <2>3 DEF Decide
<1>. QED BY <1>2, <1>3

LEMMA TypesOf ==
    ASSUME BudgetTypeOK
    PROVE  /\ day \in Nat
           /\ \A g \in Gates, d \in Days : spent[g][d] \in Nat
           /\ \A g \in Gates : Budget[g] \in Nat
           /\ \A g \in Gates : cache[g].total \in Totals /\ (cache[g].key # Nothing => cache[g].key \in Nat)
           /\ \A r \in Spenders : /\ gate[r] \in Gates /\ key[r] \in Nat /\ came[r] \in Nat
                                  /\ total[r] \in Totals
           /\ \A used \in Totals : used.tokens \in Nat /\ used.of \in Days /\ used.of \in Nat
<1>1. Days \subseteq Nat BY TokenBudgetAssumption DEF Days
<1>2. day \in Nat /\ \A g \in Gates, d \in Days : spent[g][d] \in Nat BY <1>1 DEF BudgetTypeOK
<1>3. \A g \in Gates : Budget[g] \in Nat BY TokenBudgetAssumption
<1>4. \A g \in Gates : cache[g].total \in Totals /\ (cache[g].key # Nothing => cache[g].key \in Nat)
    BY <1>1 DEF BudgetTypeOK
<1>5. \A r \in Spenders : /\ gate[r] \in Gates /\ key[r] \in Nat /\ came[r] \in Nat
                          /\ total[r] \in Totals
    BY <1>1 DEF BudgetTypeOK
<1>6. \A used \in Totals : used.tokens \in Nat /\ used.of \in Days /\ used.of \in Nat
    BY <1>1 DEF Totals
<1>. QED BY <1>2, <1>3, <1>4, <1>5, <1>6

LEMMA BudgetTypeStep == BudgetTypeOK /\ [BudgetNext]_budgetVars => BudgetTypeOK'
<1>. SUFFICES ASSUME BudgetTypeOK, [BudgetNext]_budgetVars PROVE BudgetTypeOK' OBVIOUS
<1>0. LastDay \in Nat /\ 0 \in Days /\ Everyone \in Gates /\ NoTotal \in Totals
    BY TokenBudgetAssumption DEF Days, Gates, Totals, NoTotal
<1>1. ASSUME NEW r \in Spenders, Begin(r) \/ MissCache(r) \/ Complete(r) PROVE BudgetTypeOK'
    <2>1. CASE Begin(r) BY <1>0, <2>1 DEF BudgetTypeOK, Begin, StandAt
    <2>2. CASE MissCache(r) BY <2>2 DEF BudgetTypeOK, MissCache, StandAt
    <2>3. CASE Complete(r) BY <2>3 DEF BudgetTypeOK, Complete, StandAt
    <2>. QED BY <1>1, <2>1, <2>2, <2>3
<1>10. ASSUME NEW r \in Spenders, EndRequest(r), UNCHANGED <<day, spent, cache, failing>> PROVE BudgetTypeOK'
    BY <1>0, <1>10 DEF BudgetTypeOK, EndRequest, StandAt
<1>2. ASSUME NEW r \in Spenders, ReadTotal(r) PROVE BudgetTypeOK'
    <2>1. total' \in [Spenders -> Totals]
        BY <1>0, <1>2 DEF BudgetTypeOK, ReadTotal, Totals
    <2>. QED BY <1>2, <2>1 DEF BudgetTypeOK, ReadTotal, StandAt
<1>3. ASSUME NEW r \in Spenders, UseCached(r) PROVE BudgetTypeOK'
    <2>1. cache[gate[r]].total \in Totals BY DEF BudgetTypeOK
    <2>. QED BY <1>3, <2>1, DecideKeeps DEF BudgetTypeOK, UseCached
<1>4. ASSUME NEW r \in Spenders, Publish(r) PROVE BudgetTypeOK'
    <2>1. total[r] \in Totals /\ gate[r] \in Gates /\ key[r] \in Days BY DEF BudgetTypeOK
    <2>2. cache' \in [Gates -> [key : Days \cup {Nothing}, total : Totals, fresh : BOOLEAN]]
        BY <1>4, <2>1 DEF BudgetTypeOK, Publish
    <2>. QED BY <1>4, <2>1, <2>2, DecideKeeps DEF BudgetTypeOK, Publish
<1>5. ASSUME NEW r \in Spenders, WriteEvent(r) PROVE BudgetTypeOK'
    BY <1>0, <1>5, SpentGrows DEF BudgetTypeOK, WriteEvent, EndRequest, StandAt
<1>6. ASSUME NEW g \in Gates, Expire(g) PROVE BudgetTypeOK'
    BY <1>6 DEF BudgetTypeOK, Expire
<1>7. CASE Midnight BY <1>0, <1>7 DEF BudgetTypeOK, Midnight, Days
<1>8. CASE Recover BY <1>8 DEF BudgetTypeOK, Recover
<1>9. CASE UNCHANGED budgetVars BY <1>9 DEF BudgetTypeOK, budgetVars
<1>. QED BY <1>1, <1>2, <1>3, <1>4, <1>5, <1>6, <1>7, <1>8, <1>9, <1>10
         DEF BudgetNext, BudgetStep, CancelCheck, Answer429, CompleteUnused

\* A request that stands still stays right, whatever is spent meanwhile.
Still(q) ==
    /\ stands'[q] = stands[q] /\ gate'[q] = gate[q] /\ key'[q] = key[q]
    /\ total'[q] = total[q] /\ came'[q] = came[q]

LEMMA StillRight ==
    ASSUME BudgetInv, BudgetTypeOK', day <= day',
           \A g \in Gates, d \in Days : spent[g][d] <= spent'[g][d],
           NEW q \in Spenders, Still(q)
    PROVE  Right(q)'
<1>1. BudgetTypeOK /\ Right(q) BY DEF BudgetInv
<1>2. /\ day \in Nat /\ gate[q] \in Gates /\ key[q] \in Nat /\ came[q] \in Nat
      /\ total[q].tokens \in Nat /\ total[q].of \in Days /\ total[q].of \in Nat
      /\ spent[gate[q]][total[q].of] \in Nat /\ Budget[gate[q]] \in Nat
    BY <1>1, TypesOf
<1>3. day' \in Nat /\ spent'[gate[q]][total[q].of] \in Nat
    <2>1. spent' \in [Gates -> [Days -> Nat]] /\ day' \in Days BY DEF BudgetTypeOK
    <2>2. Days \subseteq Nat BY TokenBudgetAssumption DEF Days
    <2>. QED BY <1>2, <2>1, <2>2
<1>. QED BY <1>1, <1>2, <1>3 DEF Right, Spent, Still

\* A step of one request, or of none.
LEMMA OneActs ==
    ASSUME BudgetInv, BudgetTypeOK', day <= day', EntriesSpent',
           \A g \in Gates, d \in Days : spent[g][d] <= spent'[g][d],
           \A q \in Spenders : Still(q) \/ Right(q)'
    PROVE  BudgetInv'
<1>1. \A q \in Spenders : Right(q)' BY StillRight
<1>. QED BY <1>1 DEF BudgetInv

LEMMA BudgetInvStep == BudgetInv /\ [BudgetNext]_budgetVars => BudgetInv'
<1>. SUFFICES ASSUME BudgetInv, [BudgetNext]_budgetVars PROVE BudgetInv' OBVIOUS
<1>0. BudgetTypeOK /\ BudgetTypeOK' /\ EntriesSpent /\ \A q \in Spenders : Right(q) BY BudgetTypeStep DEF BudgetInv
<1>n. /\ Nothing \notin Days /\ Days \subseteq Nat /\ 0 \in Days /\ LastDay \in Nat
    BY TokenBudgetAssumption DEF Days
<1>m. /\ \A g \in Gates, d \in Days : spent[g][d] <= spent[g][d]
      /\ day <= day
    BY <1>0, TypesOf
<1>1. ASSUME UNCHANGED <<day, spent, cache>>, \A q \in Spenders : Still(q) \/ Right(q)' PROVE BudgetInv'
    <2>1. EntriesSpent' BY <1>0, <1>1 DEF EntriesSpent, Spent
    <2>. QED BY <1>0, <1>m, <1>1, <2>1, OneActs
<1>2. ASSUME NEW r \in Spenders, Begin(r) PROVE BudgetInv'
    <2>1. \A q \in Spenders \ {r} : Still(q) BY <1>0, <1>2 DEF BudgetTypeOK, Begin, StandAt, Still
    <2>2. Right(r)' BY <1>0, <1>2, TypesOf DEF BudgetTypeOK, Begin, StandAt, Right
    <2>. QED BY <1>1, <1>2, <2>1, <2>2 DEF Begin
<1>3. ASSUME NEW r \in Spenders, MissCache(r) PROVE BudgetInv'
    <2>1. \A q \in Spenders \ {r} : Still(q) BY <1>0, <1>3 DEF BudgetTypeOK, MissCache, StandAt, Still
    <2>2. Right(r)' BY <1>0, <1>3, TypesOf DEF BudgetTypeOK, MissCache, StandAt, Right
    <2>. QED BY <1>1, <1>3, <2>1, <2>2 DEF MissCache
<1>4. ASSUME NEW r \in Spenders, ReadTotal(r) PROVE BudgetInv'
    <2>1. \A q \in Spenders \ {r} : Still(q) BY <1>0, <1>4 DEF BudgetTypeOK, ReadTotal, StandAt, Still
    <2>2. Right(r)'
        <3>1. Right(r) /\ key[r] \in Nat /\ came[r] \in Nat /\ day \in Nat /\ spent[gate[r]][day] \in Nat
            BY <1>0, TypesOf DEF BudgetTypeOK
        <3>2. /\ total'[r].of = day /\ total'[r].tokens \in {0, spent[gate[r]][day]}
              /\ stands[r] = "reading" /\ stands'[r] = "publishing"
              /\ UNCHANGED <<day, spent, gate, key, came>>
            BY <1>0, <1>4 DEF BudgetTypeOK, ReadTotal, StandAt
        <3>. QED BY <3>1, <3>2 DEF Right, Spent
    <2>. QED BY <1>1, <1>4, <2>1, <2>2 DEF ReadTotal
<1>5. ASSUME NEW r \in Spenders, NEW used \in Totals, Decide(r, used), UNCHANGED <<day, spent>>,
             EntriesSpent', came[r] <= used.of, Spent(used, gate[r])
      PROVE  BudgetInv'
    <2>1. \A q \in Spenders \ {r} : Still(q) BY <1>0, <1>5, DecideKeeps DEF Still
    <2>2. Right(r)'
        <3>1. /\ used.tokens \in Nat /\ used.of \in Days /\ used.of \in Nat /\ gate[r] \in Gates
              /\ spent[gate[r]][used.of] \in Nat /\ Budget[gate[r]] \in Nat
              /\ came[r] \in Nat /\ day \in Nat /\ came[r] <= day
            BY <1>0, TypesOf DEF Right
        <3>. QED BY <1>0, <1>5, <3>1, DecideKeeps DEF Right, Spent
    <2>. QED BY <1>0, <1>m, <1>5, <2>1, <2>2, OneActs
<1>6. ASSUME NEW r \in Spenders, UseCached(r) PROVE BudgetInv'
    <2>1. /\ gate[r] \in Gates /\ cache[gate[r]].key = day /\ cache[gate[r]].total \in Totals
          /\ Spent(cache[gate[r]].total, gate[r])
          /\ day <= cache[gate[r]].total.of
        BY <1>0, <1>6, <1>n, TypesOf DEF UseCached, Usable, EntriesSpent, BudgetTypeOK
    <2>2. came[r] <= cache[gate[r]].total.of
        BY <1>0, <2>1, TypesOf DEF Right
    <2>3. EntriesSpent' BY <1>0, <1>6 DEF EntriesSpent, UseCached, Spent
    <2>. QED BY <1>5, <1>6, <2>1, <2>2, <2>3 DEF UseCached
<1>7. ASSUME NEW r \in Spenders, Publish(r) PROVE BudgetInv'
    <2>1. /\ total[r] \in Totals /\ came[r] <= total[r].of /\ key[r] <= total[r].of
          /\ Spent(total[r], gate[r]) /\ gate[r] \in Gates
        BY <1>0, <1>7, TypesOf DEF Publish, Right
    <2>2. EntriesSpent'
        BY <1>0, <1>7, <2>1 DEF EntriesSpent, Publish, Spent, BudgetTypeOK
    <2>. QED BY <1>5, <1>7, <2>1, <2>2 DEF Publish
<1>8. ASSUME NEW r \in Spenders, EndRequest(r), UNCHANGED day PROVE \A q \in Spenders : Still(q) \/ Right(q)'
    <2>1. \A q \in Spenders \ {r} : Still(q) BY <1>0, <1>8 DEF BudgetTypeOK, EndRequest, StandAt, Still
    <2>2. Right(r)' BY <1>0, <1>8, TypesOf DEF BudgetTypeOK, EndRequest, StandAt, Right
    <2>. QED BY <2>1, <2>2
<1>9. ASSUME NEW r \in Spenders, Complete(r) PROVE BudgetInv'
    <2>1. \A q \in Spenders \ {r} : Still(q) BY <1>0, <1>9 DEF BudgetTypeOK, Complete, StandAt, Still
    <2>2. Right(r)' BY <1>0, <1>9, TypesOf DEF BudgetTypeOK, Complete, StandAt, Right
    <2>. QED BY <1>1, <1>9, <2>1, <2>2 DEF Complete
<1>10. ASSUME NEW r \in Spenders, WriteEvent(r) PROVE BudgetInv'
    <2>1. \A g \in Gates, d \in Days : spent[g][d] <= spent'[g][d] BY <1>0, <1>10, SpentGrows
    <2>2. EntriesSpent'
        <3>. SUFFICES ASSUME NEW g \in Gates, cache[g].key # Nothing
                      PROVE  cache[g].key <= cache[g].total.of
                             /\ cache[g].total.tokens <= spent'[g][cache[g].total.of]
            BY <1>10 DEF EntriesSpent, WriteEvent, Spent
        <3>1. /\ cache[g].total.of \in Days /\ cache[g].total.tokens \in Nat
              /\ spent[g][cache[g].total.of] \in Nat
            BY <1>0, TypesOf
        <3>2. spent'[g][cache[g].total.of] \in Nat
            <4>1. spent' \in [Gates -> [Days -> Nat]] BY <1>0, <1>10, SpentGrows
            <4>. QED BY <3>1, <4>1
        <3>. QED BY <1>0, <2>1, <3>1, <3>2 DEF EntriesSpent, Spent
    <2>3. \A q \in Spenders : Still(q) \/ Right(q)' BY <1>8, <1>10 DEF WriteEvent
    <2>. QED BY <1>0, <1>m, <1>10, <2>1, <2>2, <2>3, OneActs DEF WriteEvent
<1>11. ASSUME NEW g \in Gates, Expire(g) PROVE BudgetInv'
    <2>1. EntriesSpent' BY <1>0, <1>11 DEF EntriesSpent, Expire, Spent, BudgetTypeOK
    <2>2. \A q \in Spenders : Still(q) BY <1>11 DEF Expire, Still
    <2>. QED BY <1>0, <1>m, <1>11, <2>1, <2>2, OneActs DEF Expire
<1>12. CASE Midnight
    <2>1. day <= day' BY <1>0, <1>12, TypesOf DEF Midnight
    <2>2. EntriesSpent' BY <1>0, <1>12 DEF EntriesSpent, Midnight, Spent
    <2>3. \A q \in Spenders : Still(q) BY <1>12 DEF Midnight, Still
    <2>4. \A g \in Gates, d \in Days : spent[g][d] <= spent'[g][d] BY <1>m, <1>12 DEF Midnight
    <2>. QED BY <1>0, <2>1, <2>2, <2>3, <2>4, OneActs
<1>13. CASE Recover \/ UNCHANGED budgetVars
    <2>1. \A q \in Spenders : Still(q) BY <1>13 DEF Recover, budgetVars, Still
    <2>. QED BY <1>1, <1>13, <2>1 DEF Recover, budgetVars
<1>14. ASSUME NEW r \in Spenders, CancelCheck(r) \/ Answer429(r) \/ CompleteUnused(r) PROVE BudgetInv'
    <2>1. \A q \in Spenders : Still(q) \/ Right(q)'
        BY <1>8, <1>14 DEF CancelCheck, Answer429, CompleteUnused
    <2>. QED BY <1>1, <1>14, <2>1 DEF CancelCheck, Answer429, CompleteUnused
<1>. QED BY <1>2, <1>3, <1>4, <1>6, <1>7, <1>9, <1>10, <1>11, <1>12, <1>13, <1>14 DEF BudgetNext, BudgetStep

LEMMA BudgetIInvAlways == BudgetSpec => []BudgetInv
<1>. QED BY BudgetInvInit, BudgetInvStep, PTL DEF BudgetSpec

\* A budget refuses only for tokens that were spent at this gate, on the day the
\* request came or a later one, and the cache never holds more than was spent
\* (check_token_budget, cached_total).
THEOREM GatesSoundAlways == BudgetSpec => []GatesSound
<1>1. BudgetInv => CacheSound BY DEF BudgetInv, EntriesSpent, Spent, CacheSound
<1>2. BudgetInv => RefusalJustified
    <2>. SUFFICES ASSUME BudgetInv, NEW r \in Spenders, stands[r] = "refused"
                  PROVE  total[r].of >= came[r] /\ spent[gate[r]][total[r].of] >= Budget[gate[r]]
        BY DEF RefusalJustified
    <2>1. /\ total[r].of \in Nat /\ came[r] \in Nat /\ spent[gate[r]][total[r].of] \in Nat
          /\ Budget[gate[r]] \in Nat
        BY TypesOf DEF BudgetInv
    <2>. QED BY <2>1 DEF BudgetInv, Right
<1>. QED BY <1>1, <1>2, BudgetIInvAlways, PTL DEF GatesSound
============================================================================
