---------------------------- MODULE CopilotToken ----------------------------
(***************************************************************************)
(* The Copilot token and the two ways it is renewed: src/src/libs/token.rs *)
(* The background loop renews it when a deadline passes; a request that is *)
(* answered 401 renews it inline and is replayed once.  Both go through    *)
(* force_refresh_copilot_token, under the lock of COPILOT_REFRESH_GUARD.   *)
(* The token lives in the shared state and deadline_ms is an atomic: both  *)
(* are read and written outside that lock too.                             *)
(*                                                                         *)
(* Tokens are names: a renewal yields a name that nobody holds any more,   *)
(* so renewals never run out.  `due` is the time left until deadline_ms,   *)
(* in units of which one poll of the loop misses at most one; an hour of   *)
(* waiting is a few ticks.  setup_copilot_token runs once, before requests *)
(* are served, and is the initial state.                                   *)
(***************************************************************************)
EXTENDS Naturals, FiniteSets

CONSTANTS
    Requests,    \* the calls of send_copilot_with_401_retry, once each
    Loop,        \* run_copilot_refresh_loop
    Nobody,      \* the guard is free
    Tokens,      \* names of tokens
    NoToken,     \* a party that is at rest remembers no token
    RefreshIns,  \* the values of refresh_in the upstream may answer
    DefaultIn,   \* DEFAULT_REFRESH_IN_SECS
    MaxIn,       \* MAX_REFRESH_IN_SECS
    Early,       \* EARLY_REFRESH_BUFFER_MS
    MinDelay,    \* MIN_REFRESH_DELAY_MS
    Retry,       \* RETRY_REFRESH_DELAY_MS
    Jitter,      \* RETRY_REFRESH_JITTER_MS, exclusive
    MaxRetry     \* MAX_RETRY_REFRESH_DELAY_MS

Parties == Requests \cup {Loop}

ASSUME CopilotTokenAssumption ==
    /\ IsFiniteSet(Requests) /\ Loop \notin Requests /\ Nobody \notin Parties
    /\ IsFiniteSet(Tokens) /\ NoToken \notin Tokens
    /\ Cardinality(Tokens) > Cardinality(Requests) + 2
    /\ RefreshIns \subseteq Nat
    /\ {DefaultIn, MaxIn, MinDelay, Retry, Jitter, MaxRetry} \subseteq Nat \ {0}
    /\ Early \in Nat
    /\ Retry <= MaxRetry

VARIABLES
    token,   \* state.copilot_token
    good,    \* whether the upstream accepts it; one it has replaced may go either way
    due,     \* deadline_ms - now, at least 0
    holder,  \* who holds the guard
    pc,      \* where each party stands
    stale,   \* the token each party wants replaced
    retry    \* the loop's retry_delay_ms

vars == <<token, good, due, holder, pc, stale, retry>>

Stages == {"idle", "sent", "locking", "checking", "exchanging", "scheduling",
           "renewed", "failed", "replayed", "ended"}

TypeOK ==
    /\ token \in Tokens
    /\ good \in BOOLEAN
    /\ due \in Nat
    /\ holder \in Parties \cup {Nobody}
    /\ pc \in [Parties -> Stages]
    /\ stale \in [Parties -> Tokens \cup {NoToken}]
    /\ retry \in Retry..MaxRetry

Larger(a, b) == IF a > b THEN a ELSE b
Smaller(a, b) == IF a < b THEN a ELSE b

\* Mutant of RefreshDelay: no floor under the delay.
RefreshDelayUnfloored(refreshIn) ==
    LET lifetime == IF refreshIn = 0 THEN DefaultIn ELSE Smaller(refreshIn, MaxIn)
    IN  IF lifetime > Early THEN lifetime - Early ELSE 0

\* get_refresh_deadline_ms: a refresh_in of 0 stands for all non-positive ones.
RefreshDelay(refreshIn) ==
    LET lifetime == IF refreshIn = 0 THEN DefaultIn ELSE Smaller(refreshIn, MaxIn)
    IN  IF lifetime > Early THEN Larger(lifetime - Early, MinDelay) ELSE MinDelay

Init ==
    /\ token = CHOOSE t \in Tokens : TRUE
    /\ good = TRUE
    /\ \E refreshIn \in RefreshIns : due = RefreshDelay(refreshIn)
    /\ holder = Nobody
    /\ pc = [p \in Parties |-> "idle"]
    /\ stale = [p \in Parties |-> NoToken]
    /\ retry = Retry

Goto(p, stage) == pc' = [pc EXCEPT ![p] = stage]

Forget(p) == stale' = [stale EXCEPT ![p] = NoToken]

\* The call returns, or the loop goes back to sleep.
Rest(p) == Goto(p, IF p = Loop THEN "idle" ELSE "ended") /\ Forget(p)

----------------------------------------------------------------------------
(* send_with_401_retry_inner                                               *)

\* The token is read once and both sent and remembered.
Send(r) ==
    /\ pc[r] = "idle"
    /\ stale' = [stale EXCEPT ![r] = token]
    /\ Goto(r, "sent")
    /\ UNCHANGED <<token, good, due, holder, retry>>

\* Any answer but 401, or none at all.
Answered(r) ==
    /\ pc[r] = "sent"
    /\ Rest(r)
    /\ UNCHANGED <<token, good, due, holder, retry>>

Refused(r) ==
    /\ pc[r] = "sent"
    /\ ~good \/ stale[r] # token
    /\ Goto(r, "locking")
    /\ UNCHANGED <<token, good, due, holder, stale, retry>>

\* Mutant of Replay: the replay may be renewed and replayed in its turn.
ReplayAgain(r) ==
    /\ pc[r] = "renewed"
    /\ stale' = [stale EXCEPT ![r] = token]
    /\ Goto(r, "sent")
    /\ UNCHANGED <<token, good, due, holder, retry>>

\* The replay reads the token again; whatever is answered is surfaced.
Replay(r) ==
    /\ pc[r] = "renewed"
    /\ Forget(r)
    /\ Goto(r, "replayed")
    /\ UNCHANGED <<token, good, due, holder, retry>>

Surface(r) ==
    /\ pc[r] \in {"replayed", "failed"}
    /\ Rest(r)
    /\ UNCHANGED <<token, good, due, holder, retry>>

\* The client goes away: the guard is released, a renewal under way is lost.
Cancel(r) ==
    /\ pc[r] \in {"sent", "locking", "exchanging", "replayed"}
    /\ holder' = IF holder = r THEN Nobody ELSE holder
    /\ Rest(r)
    /\ UNCHANGED <<token, good, due, retry>>

----------------------------------------------------------------------------
(* force_refresh_copilot_token                                             *)

Lock(p) ==
    /\ pc[p] = "locking"
    /\ holder = Nobody
    /\ holder' = p
    /\ Goto(p, "checking")
    /\ UNCHANGED <<token, good, due, stale, retry>>

\* refresh_already_done: somebody else replaced the stale token.
Coalesce(p) ==
    /\ pc[p] = "checking"
    /\ token # stale[p]
    /\ holder' = Nobody
    /\ Goto(p, "renewed")
    /\ UNCHANGED <<token, good, due, stale, retry>>

\* Mutant of Exchange: the state is not looked at again under the guard.
ExchangeUnchecked(p) ==
    /\ pc[p] = "checking"
    /\ Goto(p, "exchanging")
    /\ UNCHANGED <<token, good, due, holder, stale, retry>>

Exchange(p) ==
    /\ pc[p] = "checking"
    /\ token = stale[p]
    /\ Goto(p, "exchanging")
    /\ UNCHANGED <<token, good, due, holder, stale, retry>>

\* The upstream answers with a token that nobody has seen.  Which name it gets
\* does not matter.
InUse == {token} \cup {stale[p] : p \in Parties}

FreshToken == CHOOSE t \in Tokens : t \notin InUse

Install(p) ==
    /\ pc[p] = "exchanging"
    /\ token' = FreshToken
    /\ good' = TRUE
    /\ Goto(p, "scheduling")
    /\ UNCHANGED <<due, holder, stale, retry>>

\* The deadline is stored after the token, and the guard dropped.
Schedule(p) ==
    /\ pc[p] = "scheduling"
    /\ \E refreshIn \in RefreshIns : due' = RefreshDelay(refreshIn)
    /\ holder' = Nobody
    /\ Goto(p, "renewed")
    /\ UNCHANGED <<token, good, stale, retry>>

ExchangeFails(p) ==
    /\ pc[p] = "exchanging"
    /\ holder' = Nobody
    /\ Goto(p, "failed")
    /\ Forget(p)
    /\ UNCHANGED <<token, good, due, retry>>

----------------------------------------------------------------------------
(* run_copilot_refresh_loop                                                *)

\* The loaded deadline has passed; the token is read in a later step.
LoopDue ==
    /\ pc[Loop] = "idle"
    /\ due = 0
    /\ Goto(Loop, "sent")
    /\ UNCHANGED <<token, good, due, holder, stale, retry>>

LoopReads ==
    /\ pc[Loop] = "sent"
    /\ stale' = [stale EXCEPT ![Loop] = token]
    /\ Goto(Loop, "locking")
    /\ UNCHANGED <<token, good, due, holder, retry>>

LoopRenewed ==
    /\ pc[Loop] = "renewed"
    /\ retry' = Retry
    /\ Rest(Loop)
    /\ UNCHANGED <<token, good, due, holder>>

\* The backoff deadline is stored after the guard was dropped.
LoopFailed ==
    /\ pc[Loop] = "failed"
    /\ \E jitter \in 0..(Jitter - 1) : due' = Smaller(retry + jitter, MaxRetry)
    /\ retry' = Smaller(2 * retry, MaxRetry)
    /\ Rest(Loop)
    /\ UNCHANGED <<token, good, holder>>

----------------------------------------------------------------------------
\* The environment: time passes, and the upstream revokes or expires the token.
Tick ==
    /\ due > 0
    /\ due' = due - 1
    /\ UNCHANGED <<token, good, holder, pc, stale, retry>>

Revoke ==
    /\ good
    /\ good' = FALSE
    /\ UNCHANGED <<token, due, holder, pc, stale, retry>>

Refresh(p) == Lock(p) \/ Coalesce(p) \/ Exchange(p) \/ Install(p) \/ Schedule(p) \/ ExchangeFails(p)

LoopStep == LoopDue \/ LoopReads \/ LoopRenewed \/ LoopFailed

RequestStep(r) == Answered(r) \/ Refused(r) \/ Replay(r) \/ Surface(r)

Next ==
    \/ \E r \in Requests : Send(r) \/ RequestStep(r) \/ Cancel(r)
    \/ \E p \in Parties : Refresh(p)
    \/ LoopStep
    \/ Tick \/ Revoke

Spec == Init /\ [][Next]_vars

Party(p) == Refresh(p) \/ IF p = Loop THEN LoopStep ELSE RequestStep(p)

\* Everybody is polled and every exchange is answered; tokio's mutex is FIFO, so
\* who waits for the guard gets it (strong fairness); time passes; the loop's
\* exchanges do not all fail.
FairSpec ==
    /\ Spec
    /\ \A p \in Parties : SF_vars(Party(p))
    /\ SF_vars(Install(Loop))
    /\ WF_vars(Tick)

----------------------------------------------------------------------------
(* Properties                                                              *)

\* A renewal never replaces a token that is newer than the one it set out to
\* replace: what is installed while the guard is held was still the stale one.
ReplacesStale ==
    /\ TypeOK
    /\ \A p \in Parties : pc[p] = "exchanging" => token = stale[p] /\ holder = p

\* A replay carries another token than the one that was refused, however the
\* loop and other requests rotated it meanwhile (the "TOCTOU-free token
\* identity" of token.rs:415-421).
ReplayIsFresh ==
    \A r \in Requests : pc[r] = "renewed" => token # stale[r]

\* Renewals replace what is stale, and only what is stale is sent again.
RenewalSound == ReplacesStale /\ ReplayIsFresh

\* Whatever refresh_in the upstream answers, a renewal puts the next one off by
\* at least MinDelay and by no more than the longest accepted lifetime: neither
\* a hot loop nor a token left to expire ("can't drive a hot loop",
\* token.rs:267-268).
NoHotLoop ==
    [][\A p \in Parties :
          pc[p] = "scheduling" /\ pc'[p] = "renewed" =>
              MinDelay <= due' /\ due' <= Larger(MinDelay, Larger(MaxIn, DefaultIn))]_vars

\* A refused token is replaced in the end, even if no request ever notices; and
\* every request ends, after at most one renewal and one replay.
HealsAndEnds ==
    /\ ~good ~> good
    /\ \A r \in Requests : pc[r] = "sent" ~> pc[r] = "ended"
============================================================================
