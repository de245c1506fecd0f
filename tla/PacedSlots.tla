----------------------------- MODULE PacedSlots -----------------------------
(***************************************************************************)
(* What the rate limiter promises, without its mutex, queue or counters:   *)
(* a request is granted an instant that is at least Interval away from     *)
(* every instant somebody else holds, and an instant once used for an      *)
(* admission is never given back.                                          *)
(***************************************************************************)
EXTENDS Naturals

CONSTANTS Callers, Interval

VARIABLES
    granted,    \* the callers that hold an instant
    instant,    \* the instant last granted to each caller
    used        \* the callers that were admitted at theirs

vars == <<granted, instant, used>>

Apart(s, t) == s + Interval <= t \/ t + Interval <= s

Init ==
    /\ granted = {}
    /\ instant = [c \in Callers |-> 0]
    /\ used = {}

\* The instant may be used in the same step: the request goes through at once.
Grant(c) ==
    /\ c \notin granted
    /\ granted' = granted \cup {c}
    /\ instant'[c] \in Nat
    /\ \A d \in granted : Apart(instant[d], instant'[c])
    /\ instant' = [instant EXCEPT ![c] = instant'[c]]
    /\ used' \in {used, used \cup {c}}

Use(c) ==
    /\ c \in granted \ used
    /\ used' = used \cup {c}
    /\ UNCHANGED <<granted, instant>>

Release(c) ==
    /\ c \in granted \ used
    /\ granted' = granted \ {c}
    /\ UNCHANGED <<instant, used>>

Next ==
    \E c \in Callers :
        Grant(c) \/ Use(c) \/ Release(c)

Spec == Init /\ [][Next]_vars
============================================================================
