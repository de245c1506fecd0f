------------------------ MODULE CopilotTokenProofs ------------------------
(***************************************************************************)
(* Proofs about the renewal of the Copilot token, for every set of         *)
(* requests, every answer of the upstream and every delay.  What makes a   *)
(* renewal sound is the guard: whoever is between the check of the token   *)
(* and the stored deadline holds it, so the token that was compared is the *)
(* one that is replaced; and a new token is none that anybody remembers.   *)
(***************************************************************************)
EXTENDS CopilotToken, FiniteSetTheorems, TLAPS

Guarded == {"checking", "exchanging", "scheduling"}

\* The inductive invariant: the guard is held exactly in the section that it
\* guards, in which the token changes only once, and by its holder.
GuardHeld == \A p \in Parties : pc[p] \in Guarded <=> holder = p
Compared == \A p \in Parties : pc[p] = "exchanging" => token = stale[p]
Replaced == \A p \in Parties : pc[p] \in {"scheduling", "renewed"} => token # stale[p]

IInv == TypeOK /\ GuardHeld /\ Compared /\ Replaced

----------------------------------------------------------------------------
\* The floor and the ceiling of a delay, whatever the upstream answered
\* (get_refresh_deadline_ms).
LEMMA DelayBounded ==
    ASSUME NEW refreshIn \in RefreshIns
    PROVE  /\ RefreshDelay(refreshIn) \in Nat
           /\ MinDelay <= RefreshDelay(refreshIn)
           /\ RefreshDelay(refreshIn) <= Larger(MinDelay, Larger(MaxIn, DefaultIn))
<1>1. refreshIn \in Nat BY CopilotTokenAssumption
<1>2. /\ DefaultIn \in Nat /\ MaxIn \in Nat /\ MinDelay \in Nat /\ Early \in Nat
    BY CopilotTokenAssumption
<1>. QED BY <1>1, <1>2 DEF RefreshDelay, Larger, Smaller

\* There are more names than anybody can remember, so there is a new one.
LEMMA FreshTokenIsNew ==
    ASSUME TypeOK
    PROVE  FreshToken \in Tokens /\ FreshToken \notin InUse
<1>. DEFINE Remembered == {stale[p] : p \in Parties}
<1>1. /\ IsFiniteSet(Requests) /\ Cardinality(Requests) \in Nat
      /\ IsFiniteSet(Parties) /\ Cardinality(Parties) = Cardinality(Requests) + 1
    BY CopilotTokenAssumption, FS_CardinalityType, FS_AddElement DEF Parties
<1>2. stale \in Surjection(Parties, Remembered)
    BY DEF TypeOK, Surjection
<1>3. IsFiniteSet(Remembered) /\ Cardinality(Remembered) <= Cardinality(Parties)
    BY <1>1, <1>2, FS_Surjection
<1>4. InUse = Remembered \cup {token} BY DEF InUse
<1>5. IsFiniteSet(InUse) /\ Cardinality(InUse) <= Cardinality(Remembered) + 1
    <2>1. Cardinality(Remembered) \in Nat BY <1>3, FS_CardinalityType
    <2>2. /\ IsFiniteSet(InUse)
          /\ Cardinality(InUse) = IF token \in Remembered THEN Cardinality(Remembered) ELSE Cardinality(Remembered) + 1
        BY <1>3, <1>4, FS_AddElement
    <2>. HIDE DEF Remembered
    <2>. QED BY <2>1, <2>2
<1>. HIDE DEF Remembered
<1>6. ~ (Tokens \subseteq InUse)
    <2>. SUFFICES ASSUME Tokens \subseteq InUse PROVE FALSE OBVIOUS
    <2>1. Cardinality(Tokens) <= Cardinality(InUse) BY <1>5, FS_Subset
    <2>2. Cardinality(Tokens) \in Nat /\ Cardinality(InUse) \in Nat /\ Cardinality(Remembered) \in Nat
        BY <1>3, <1>5, CopilotTokenAssumption, FS_CardinalityType
    <2>. QED BY <1>1, <1>3, <1>5, <2>1, <2>2, CopilotTokenAssumption
<1>. QED BY <1>6 DEF FreshToken

----------------------------------------------------------------------------
LEMMA InvInit == Init => IInv
<1>. SUFFICES ASSUME Init PROVE IInv OBVIOUS
<1>1. Tokens # {} BY CopilotTokenAssumption, FS_EmptySet, FS_CardinalityType
<1>2. token \in Tokens BY <1>1 DEF Init
<1>3. due \in Nat BY DelayBounded DEF Init
<1>4. retry \in Retry..MaxRetry BY CopilotTokenAssumption DEF Init
<1>5. TypeOK BY <1>2, <1>3, <1>4 DEF Init, TypeOK, Stages
<1>. QED BY <1>5, CopilotTokenAssumption DEF Init, IInv, GuardHeld, Compared, Replaced, Guarded

LEMMA PartiesApart ==
    /\ \A r \in Requests : r \in Parties /\ r # Loop /\ r # Nobody
    /\ Loop \in Parties /\ Loop # Nobody /\ Nobody \notin Parties
BY CopilotTokenAssumption DEF Parties

LEMMA TypeStep == TypeOK /\ [Next]_vars => TypeOK'
<1>. SUFFICES ASSUME TypeOK, [Next]_vars PROVE TypeOK' OBVIOUS
<1>. USE PartiesApart DEF TypeOK, Goto, Rest, Forget, Stages
<1>0. /\ Retry \in Nat /\ MaxRetry \in Nat /\ Jitter \in Nat /\ Retry <= MaxRetry
    BY CopilotTokenAssumption
<1>1. ASSUME NEW r \in Requests, Send(r) \/ RequestStep(r) \/ Cancel(r) PROVE TypeOK'
    BY <1>1 DEF Send, RequestStep, Answered, Refused, Replay, Surface, Cancel
<1>2. ASSUME NEW p \in Parties, Lock(p) \/ Coalesce(p) \/ Exchange(p) \/ ExchangeFails(p) PROVE TypeOK'
    BY <1>2 DEF Lock, Coalesce, Exchange, ExchangeFails
<1>3. ASSUME NEW p \in Parties, Install(p) PROVE TypeOK'
    BY <1>3, FreshTokenIsNew DEF Install
<1>4. ASSUME NEW p \in Parties, Schedule(p) PROVE TypeOK'
    BY <1>4, DelayBounded DEF Schedule
<1>5. CASE LoopDue \/ LoopReads
    BY <1>5 DEF LoopDue, LoopReads
<1>6. CASE LoopRenewed
    BY <1>0, <1>6 DEF LoopRenewed
<1>7. CASE LoopFailed
    BY <1>0, <1>7 DEF LoopFailed, Smaller
<1>8. CASE Tick
    BY <1>8 DEF Tick
<1>9. CASE Revoke
    BY <1>9 DEF Revoke
<1>10. CASE UNCHANGED vars
    BY <1>10 DEF vars
<1>. QED BY <1>1, <1>2, <1>3, <1>4, <1>5, <1>6, <1>7, <1>8, <1>9, <1>10 DEF Next, Refresh, LoopStep

LEMMA InvStep == IInv /\ [Next]_vars => IInv'
<1>. SUFFICES ASSUME IInv, [Next]_vars PROVE GuardHeld' /\ Compared' /\ Replaced'
    BY TypeStep DEF IInv
<1>. DEFINE Kept == GuardHeld' /\ Compared' /\ Replaced'
<1>. USE PartiesApart
         DEF IInv, TypeOK, GuardHeld, Compared, Replaced, Goto, Rest, Forget, Stages, Guarded
<1>1. ASSUME NEW r \in Requests, Send(r) PROVE Kept BY <1>1 DEF Send
<1>2. ASSUME NEW r \in Requests, Answered(r) PROVE Kept BY <1>2 DEF Answered
<1>3. ASSUME NEW r \in Requests, Refused(r) PROVE Kept BY <1>3 DEF Refused
<1>4. ASSUME NEW r \in Requests, Replay(r) PROVE Kept BY <1>4 DEF Replay
<1>5. ASSUME NEW r \in Requests, Surface(r) PROVE Kept BY <1>5 DEF Surface
<1>6. ASSUME NEW r \in Requests, Cancel(r) PROVE Kept BY <1>6 DEF Cancel
<1>7. ASSUME NEW p \in Parties, Lock(p) PROVE Kept BY <1>7 DEF Lock
<1>8. ASSUME NEW p \in Parties, Coalesce(p) PROVE Kept BY <1>8 DEF Coalesce
<1>9. ASSUME NEW p \in Parties, Exchange(p) PROVE Kept BY <1>9 DEF Exchange
<1>10. ASSUME NEW p \in Parties, Install(p) PROVE Kept
    <2>1. \A q \in Parties : token' # stale[q]
        BY <1>10, FreshTokenIsNew DEF Install, InUse
    <2>2. \A q \in Parties : q # p => pc[q] # "exchanging"
        BY <1>10 DEF Install
    <2>. QED BY <1>10, <2>1, <2>2 DEF Install
<1>11. ASSUME NEW p \in Parties, Schedule(p) PROVE Kept BY <1>11 DEF Schedule
<1>12. ASSUME NEW p \in Parties, ExchangeFails(p) PROVE Kept BY <1>12 DEF ExchangeFails
<1>13. CASE LoopDue BY <1>13 DEF LoopDue
<1>14. CASE LoopReads BY <1>14 DEF LoopReads
<1>15. CASE LoopRenewed BY <1>15 DEF LoopRenewed
<1>16. CASE LoopFailed BY <1>16 DEF LoopFailed
<1>17. CASE Tick \/ Revoke \/ UNCHANGED vars BY <1>17 DEF Tick, Revoke, vars
<1>. QED BY <1>1, <1>2, <1>3, <1>4, <1>5, <1>6, <1>7, <1>8, <1>9, <1>10, <1>11, <1>12, <1>13,
            <1>14, <1>15, <1>16, <1>17 DEF Next, Refresh, RequestStep, LoopStep

LEMMA IInvAlways == Spec => []IInv
<1>. QED BY InvInit, InvStep, PTL DEF Spec

\* A renewal replaces the very token it set out to replace, and a replay never
\* carries the token that was refused (force_refresh_copilot_token,
\* send_with_401_retry_inner).
THEOREM RenewalSoundAlways == Spec => []RenewalSound
<1>1. IInv => RenewalSound
    BY PartiesApart DEF IInv, GuardHeld, Compared, Replaced, Guarded, RenewalSound, ReplacesStale, ReplayIsFresh
<1>. QED BY <1>1, IInvAlways, PTL

\* Only one party at a time exchanges a token, stores the new one and puts off
\* the deadline (COPILOT_REFRESH_GUARD).
THEOREM RenewalsExclusive ==
    Spec => [](\A p, q \in Parties : pc[p] \in Guarded /\ pc[q] \in Guarded => p = q)
<1>1. IInv => (\A p, q \in Parties : pc[p] \in Guarded /\ pc[q] \in Guarded => p = q)
    BY DEF IInv, GuardHeld
<1>. QED BY <1>1, IInvAlways, PTL

----------------------------------------------------------------------------
LEMMA HotLoopStep ==
    IInv /\ [Next]_vars =>
        [\A p \in Parties :
            pc[p] = "scheduling" /\ pc'[p] = "renewed" =>
                MinDelay <= due' /\ due' <= Larger(MinDelay, Larger(MaxIn, DefaultIn))]_vars
<1>. SUFFICES ASSUME IInv, Next, NEW p \in Parties, pc[p] = "scheduling", pc'[p] = "renewed"
              PROVE  MinDelay <= due' /\ due' <= Larger(MinDelay, Larger(MaxIn, DefaultIn))
    OBVIOUS
<1>1. Schedule(p)
    BY PartiesApart
    DEF IInv, TypeOK, Goto, Rest, Forget, Next, Refresh, RequestStep, LoopStep, Send, Answered, Refused,
        Replay, Surface, Cancel, Lock, Coalesce, Exchange, Install, Schedule, ExchangeFails,
        LoopDue, LoopReads, LoopRenewed, LoopFailed, Tick, Revoke
<1>. QED BY <1>1, DelayBounded DEF Schedule

\* Whatever refresh_in is answered, a renewal neither leads to the next one at
\* once nor puts it off beyond the longest lifetime.
THEOREM NoHotLoopAlways == Spec => NoHotLoop
<1>. QED BY IInvAlways, HotLoopStep, PTL DEF Spec, NoHotLoop
============================================================================
