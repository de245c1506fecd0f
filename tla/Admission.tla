----------------------------- MODULE Admission -----------------------------
(***************************************************************************)
(* The concurrency limit in front of every upstream route:                 *)
(* src/src/libs/admission.rs.  A request takes a permit of the semaphore   *)
(* or is refused at once.  The permit travels with the response into its   *)
(* body and is dropped with it, wherever the request ends.  Refusals are   *)
(* logged at most once per interval, with a count of those suppressed.     *)
(*                                                                         *)
(* Each atomic is a variable of its own and each access to one an action:  *)
(* requests run on several threads.                                        *)
(***************************************************************************)
EXTENDS Naturals, FiniteSets

CONSTANTS Requests,    \* each comes again when it has ended
          Limit,       \* --max-concurrent-requests
          LogInterval, \* OVERLOAD_LOG_INTERVAL_SECS
          LastSecond,  \* bound: the clock stops here
          MaxRefused   \* bound: refusals

ASSUME AdmissionAssumption ==
    /\ IsFiniteSet(Requests)
    /\ Limit \in Nat \ {0} /\ LogInterval \in Nat \ {0}
    /\ LastSecond \in Nat /\ MaxRefused \in Nat

VARIABLES
    permits,    \* available permits of the semaphore
    active,     \* AdmissionInner.active
    standing,   \* where each request stands
    clock,      \* seconds of the wall clock, the epoch long past
    last,       \* LAST_OVERLOAD_LOG_SECS
    suppressed, \* SUPPRESSED_OVERLOAD_LOGS
    read,       \* what each refusal loaded: its clock and last
    refused,    \* history: refusals so far
    lines,      \* history: log lines written
    told        \* history: the suppressed refusals those lines told of

countVars == <<permits, active>>
logVars == <<last, suppressed, read, refused, lines, told>>
admissionVars == <<permits, active, standing, clock, last, suppressed, read, refused, lines, told>>

RequestStages == {"idle", "admitted", "handling", "streaming", "dropping", "releasing",
                  "overloaded", "clocked", "electing", "logging", "suppressing"}

\* The request owns a permit of the semaphore.
Holds(r) == standing[r] \in {"admitted", "handling", "streaming", "dropping", "releasing"}

\* The request is counted in `active`.
Counted(r) == standing[r] \in {"handling", "streaming", "dropping"}

AdmissionTypeOK ==
    /\ permits \in 0..Limit
    /\ active \in Nat
    /\ standing \in [Requests -> RequestStages]
    /\ clock \in Nat /\ last \in Nat /\ suppressed \in Nat
    /\ read \in [Requests -> [clock : Nat, last : Nat]]
    /\ refused \in Nat /\ lines \in Nat /\ told \in Nat

AdmissionInit ==
    /\ permits = Limit
    /\ active = 0
    /\ standing = [r \in Requests |-> "idle"]
    /\ clock = LogInterval
    /\ last = 0 /\ suppressed = 0
    /\ read = [r \in Requests |-> [clock |-> 0, last |-> 0]]
    /\ refused = 0 /\ lines = 0 /\ told = 0

Proceed(r, stage) == standing' = [standing EXCEPT ![r] = stage]

----------------------------------------------------------------------------
(* try_acquire, and the drop of the permit                                 *)

TryAcquire(r) ==
    /\ standing[r] = "idle"
    /\ permits > 0
    /\ permits' = permits - 1
    /\ Proceed(r, "admitted")
    /\ UNCHANGED <<active, clock, logVars>>

Count(r) ==
    /\ standing[r] = "admitted"
    /\ active' = active + 1
    /\ Proceed(r, "handling")
    /\ UNCHANGED <<permits, clock, logVars>>

\* attach_permit: the response goes out and its body holds the permit.
Respond(r) ==
    /\ standing[r] = "handling"
    /\ Proceed(r, "streaming")
    /\ UNCHANGED <<countVars, clock, logVars>>

\* The end of the body, a body error, a client that goes away, or a panic.
End(r) ==
    /\ standing[r] \in {"handling", "streaming"}
    /\ Proceed(r, "dropping")
    /\ UNCHANGED <<countVars, clock, logVars>>

\* Mutants of Uncount: the count is kept; the permit is forgotten.
UncountNothing(r) ==
    /\ standing[r] = "dropping"
    /\ Proceed(r, "releasing")
    /\ UNCHANGED <<countVars, clock, logVars>>

UncountOnly(r) ==
    /\ standing[r] = "dropping"
    /\ active' = active - 1
    /\ Proceed(r, "idle")
    /\ UNCHANGED <<permits, clock, logVars>>

\* AdmissionPermit::drop runs before its fields are dropped.
Uncount(r) ==
    /\ standing[r] = "dropping"
    /\ active' = active - 1
    /\ Proceed(r, "releasing")
    /\ UNCHANGED <<permits, clock, logVars>>

Release(r) ==
    /\ standing[r] = "releasing"
    /\ permits' = permits + 1
    /\ Proceed(r, "idle")
    /\ UNCHANGED <<active, clock, logVars>>

----------------------------------------------------------------------------
(* record_overload, after which the answer is 503                          *)

Refuse(r) ==
    /\ standing[r] = "idle" /\ permits = 0
    /\ refused < MaxRefused
    /\ refused' = refused + 1
    /\ Proceed(r, "overloaded")
    /\ UNCHANGED <<countVars, clock, last, suppressed, read, lines, told>>

ReadClock(r) ==
    /\ standing[r] = "overloaded"
    /\ read' = [read EXCEPT ![r].clock = clock]
    /\ Proceed(r, "clocked")
    /\ UNCHANGED <<countVars, clock, last, suppressed, refused, lines, told>>

LoadLast(r) ==
    /\ standing[r] = "clocked"
    /\ read' = [read EXCEPT ![r].last = last]
    /\ Proceed(r, IF read[r].clock >= last + LogInterval THEN "electing" ELSE "suppressing")
    /\ UNCHANGED <<countVars, clock, last, suppressed, refused, lines, told>>

\* Mutant of Elect: a store instead of the compare_exchange.
ElectBlindly(r) ==
    /\ standing[r] = "electing"
    /\ last' = read[r].clock /\ lines' = lines + 1 /\ Proceed(r, "logging")
    /\ UNCHANGED <<countVars, clock, suppressed, read, refused, told>>

\* compare_exchange: of the refusals that loaded the same instant one logs.
Elect(r) ==
    /\ standing[r] = "electing"
    /\ IF last = read[r].last
         THEN last' = read[r].clock /\ lines' = lines + 1 /\ Proceed(r, "logging")
         ELSE Proceed(r, "suppressing") /\ UNCHANGED <<last, lines>>
    /\ UNCHANGED <<countVars, clock, suppressed, read, refused, told>>

Log(r) ==
    /\ standing[r] = "logging"
    /\ told' = told + suppressed
    /\ suppressed' = 0
    /\ Proceed(r, "idle")
    /\ UNCHANGED <<countVars, clock, last, read, refused, lines>>

Suppress(r) ==
    /\ standing[r] = "suppressing"
    /\ suppressed' = suppressed + 1
    /\ Proceed(r, "idle")
    /\ UNCHANGED <<countVars, clock, last, read, refused, lines, told>>

----------------------------------------------------------------------------
\* The wall clock may also be set back.
SetClock ==
    /\ \/ clock < LastSecond /\ clock' = clock + 1
       \/ clock > LogInterval /\ clock' = clock - 1
    /\ UNCHANGED <<countVars, standing, logVars>>

\* What a request does without its client or its handler.
RequestStep(r) ==
    \/ Count(r) \/ Uncount(r) \/ Release(r)
    \/ ReadClock(r) \/ LoadLast(r) \/ Elect(r) \/ Log(r) \/ Suppress(r)

AdmissionNext ==
    \/ \E r \in Requests : TryAcquire(r) \/ Respond(r) \/ End(r) \/ Refuse(r) \/ RequestStep(r)
    \/ SetClock

AdmissionSpec == AdmissionInit /\ [][AdmissionNext]_admissionVars

\* Threads run, and a handler or a body ends.
FairAdmission == AdmissionSpec /\ \A r \in Requests : WF_admissionVars(RequestStep(r)) /\ WF_admissionVars(End(r))

----------------------------------------------------------------------------
(* Properties                                                              *)

\* The permits that are out are those of the requests at work: none is lost or
\* returned twice on any way a request can end.
PermitsConserved == permits + Cardinality({r \in Requests : Holds(r)}) = Limit

\* The gauge of active requests never shows more than the limit, because the
\* count is given back before the permit is.
ActiveWithinLimit ==
    /\ active = Cardinality({r \in Requests : Counted(r)})
    /\ active <= Limit

\* The inductive invariant: what the semaphore and the gauge promise together.
AdmissionInv == AdmissionTypeOK /\ PermitsConserved /\ ActiveWithinLimit

\* Every refusal is told of exactly once: by a log line of its own, in the
\* count of a later line, or in the count still to be told.
RefusalsAccounted ==
    refused = lines + told + suppressed
                + Cardinality({r \in Requests : standing[r] \in {"overloaded", "clocked", "electing", "suppressing"}})

\* Two log lines are at least an interval of the clock apart, however many
\* refusals race for one.
LinesApart == [][lines' > lines => last' >= last + LogInterval]_admissionVars

\* An overload is logged neither too often nor with refusals left out.
OverloadTold == LinesApart /\ []RefusalsAccounted

\* A permit that is out comes back.
PermitsReturn == permits = 0 ~> permits > 0
============================================================================
