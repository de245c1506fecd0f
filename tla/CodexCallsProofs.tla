------------------------- MODULE CodexCallsProofs -------------------------
(***************************************************************************)
(* Proofs about the Codex credentials, for all calls, refresh loops,       *)
(* generations and faults.  The endpoint is asked only for the generation  *)
(* that is on disk, since nothing else is ever handed out to be renewed;   *)
(* so the generation on its way, if there is one, is the newest, and the   *)
(* disk never falls behind what anybody uses.                              *)
(***************************************************************************)
EXTENDS CodexCalls, TLAPS

\* A generation is on its way to the disk only while the disk has none as new;
\* the last one stands for all later ones.
OnItsWay == file < newest \/ newest = MaxGen

\* The inductive invariant.
DiskLeads == file <= newest /\ mem <= file /\ \A p \in Parties : tok[p] <= file
WritesNewest == \A g \in writes : g = newest /\ OnItsWay
AnswersNewest == \A p \in Parties : pc[p] = "answering" => got[p] = newest /\ OnItsWay
OneOnItsWay ==
    newest # MaxGen =>
        /\ \A p \in Parties : pc[p] = "answering" => writes = {}
        /\ \A p, q \in Parties : pc[p] = "answering" /\ pc[q] = "answering" => p = q
WrittenOnDisk == \A p \in Parties : pc[p] = "written" => got[p] <= file
Safe == ~lost => \/ newest \in {file} \cup writes \/ file = NoGen
                 \/ \E p \in Parties : pc[p] = "answering" /\ got[p] = newest
ServedEnded == \A r \in Requests : served[r] = 0 \/ (served[r] = 1 /\ pc[r] = "ended")

Held == DiskLeads /\ WritesNewest /\ AnswersNewest /\ OneOnItsWay /\ WrittenOnDisk /\ Safe /\ ServedEnded
IInv == TypeOK /\ Held

----------------------------------------------------------------------------
LEMMA Apart ==
    /\ \A r \in Requests : r \in Parties /\ r \notin Loops /\ r # Nobody
    /\ \A l \in Loops : l \in Parties /\ l \notin Requests /\ l # Nobody
    /\ \A p \in Parties : p \in Requests \/ p \in Loops
BY CodexCallsAssumption DEF Parties

LEMMA GensOf ==
    /\ MaxGen \in Nat /\ 1 \in Gens /\ MaxRetries \in Nat /\ MaxFaults \in Nat /\ NoGen = 0
    /\ \A g : g \in Gens <=> g \in Nat /\ 1 <= g /\ g <= MaxGen
BY CodexCallsAssumption DEF Gens, NoGen

LEMMA InvInit == Init => IInv
<1>. SUFFICES ASSUME Init PROVE IInv OBVIOUS
<1>1. AtRest \in [Parties -> Stages] BY DEF AtRest, Stages
<1>2. {mem, file, deadline} \subseteq Gens \cup {NoGen} BY GensOf DEF Init
<1>3. 0 \in 0..MaxRetries /\ 0 \in 0..MaxFaults BY GensOf
<1>4. TypeOK BY GensOf, <1>1, <1>2, <1>3 DEF Init, TypeOK
<1>5. Held
    BY GensOf, Apart DEF Init, Held, DiskLeads, WritesNewest, AnswersNewest, OneOnItsWay, WrittenOnDisk, Safe,
                         ServedEnded, AtRest
<1>. QED BY <1>4, <1>5 DEF IInv

LEMMA TypeStep == IInv /\ [Next]_vars => TypeOK'
<1>. SUFFICES ASSUME TypeOK, AnswersNewest, [Next]_vars PROVE TypeOK' BY DEF IInv, Held
<1>. USE GensOf, Apart
     DEF TypeOK, Goto, Work, Leave, LetGo, Fault, LoseAnswer, GiveUp, Stages,
         upstream, store, loopVars, parties, history
<1>1. ASSUME NEW r \in Requests, Resolve(r) PROVE TypeOK' BY <1>1 DEF Resolve
<1>2. ASSUME NEW r \in Requests, SetUp(r) PROVE TypeOK' BY <1>2 DEF SetUp
<1>3. ASSUME NEW r \in Requests, ReadFile(r) PROVE TypeOK' BY <1>3 DEF ReadFile
<1>4. ASSUME NEW r \in Requests, RenewFirst(r) PROVE TypeOK' BY <1>4 DEF RenewFirst
<1>5. ASSUME NEW r \in Requests, Install(r) PROVE TypeOK' BY <1>5 DEF Install
<1>6. ASSUME NEW r \in Requests, SpawnLoop(r) PROVE TypeOK' BY <1>6 DEF SpawnLoop
<1>7. ASSUME NEW r \in Requests, UseSocket(r) PROVE TypeOK' BY <1>7 DEF UseSocket, Serve
<1>8. ASSUME NEW r \in Requests, Send(r) PROVE TypeOK' BY <1>8 DEF Send
<1>9. ASSUME NEW r \in Requests, Answer(r) PROVE TypeOK' BY <1>9 DEF Answer, OnTheWire, Serve
<1>10. ASSUME NEW r \in Requests, Unauthorized(r) PROVE TypeOK' BY <1>10 DEF Unauthorized, OnTheWire
<1>11. ASSUME NEW r \in Requests, TransientError(r) PROVE TypeOK'
    BY <1>11 DEF TransientError, OnTheWire, Serve
<1>12. ASSUME NEW r \in Requests, Retry(r) PROVE TypeOK' BY <1>12 DEF Retry, OnTheWire
<1>13. ASSUME NEW r \in Requests, Cancel(r) PROVE TypeOK' BY <1>13 DEF Cancel
<1>14. ASSUME NEW p \in Parties, Lock(p) PROVE TypeOK' BY <1>14 DEF Lock
<1>15. ASSUME NEW p \in Parties, Exchange(p) PROVE TypeOK' BY <1>15 DEF Exchange
<1>16. ASSUME NEW p \in Parties, Refused(p) PROVE TypeOK' BY <1>16 DEF Refused
<1>17. ASSUME NEW p \in Parties, StartWrite(p) PROVE TypeOK' BY <1>17 DEF StartWrite, AnswersNewest
<1>18. ASSUME NEW p \in Parties, PersistFails(p) PROVE TypeOK' BY <1>18 DEF PersistFails
<1>19. ASSUME NEW p \in Parties, Renewed(p) PROVE TypeOK' BY <1>19 DEF Renewed
<1>20. ASSUME NEW p \in Parties, ExchangeFails(p) PROVE TypeOK' BY <1>20 DEF ExchangeFails
<1>21. ASSUME NEW l \in Loops, LoopStarts(l) PROVE TypeOK' BY <1>21 DEF LoopStarts
<1>22. ASSUME NEW l \in Loops, LoopDue(l) PROVE TypeOK' BY <1>22 DEF LoopDue
<1>23. ASSUME NEW l \in Loops, LoopRenewed(l) PROVE TypeOK' BY <1>23 DEF LoopRenewed
<1>24. ASSUME NEW l \in Loops, LoopDropped(l) PROVE TypeOK' BY <1>24 DEF LoopDropped
<1>25. ASSUME NEW g \in Gens, WriteDone(g) PROVE TypeOK' BY <1>25 DEF WriteDone, WriteEnds
<1>26. ASSUME NEW g \in Gens, WriteFails(g) PROVE TypeOK' BY <1>26 DEF WriteFails, WriteEnds
<1>27. ASSUME NEW g \in Gens, Ages(g) PROVE TypeOK' BY <1>27 DEF Ages
<1>28. ASSUME NEW g \in Gens, Revoke(g) PROVE TypeOK' BY <1>28 DEF Revoke
<1>29. CASE Crash
    <2>1. AtRest \in [Parties -> Stages] BY DEF AtRest
    <2>2. {mem', file', deadline'} \subseteq Gens \cup {NoGen} BY <1>29 DEF Crash
    <2>3. {lost', putBack'} \subseteq BOOLEAN BY <1>29 DEF Crash
    <2>4. faults' \in 0..MaxFaults BY <1>29 DEF Crash
    <2>. QED BY <1>29, <2>1, <2>2, <2>3, <2>4 DEF Crash
<1>30. CASE UNCHANGED vars BY <1>30 DEF vars
<1>. QED
    BY <1>1, <1>2, <1>3, <1>4, <1>5, <1>6, <1>7, <1>8, <1>9, <1>10, <1>11, <1>12, <1>13,
       <1>14, <1>15, <1>16, <1>17, <1>18, <1>19, <1>20, <1>21, <1>22, <1>23, <1>24, <1>25,
       <1>26, <1>27, <1>28, <1>29, <1>30
    DEF Next, CallStep, LoopStep, Refresh

LEMMA HeldStep == IInv /\ [Next]_vars => Held'
<1>. SUFFICES ASSUME IInv, [Next]_vars PROVE Held' OBVIOUS
<1>. USE GensOf, Apart
     DEF IInv, Held, TypeOK, DiskLeads, WritesNewest, AnswersNewest, OneOnItsWay, WrittenOnDisk,
         Safe, ServedEnded, OnItsWay,
         Goto, Work, Leave, LetGo, Fault, LoseAnswer, GiveUp, upstream, store, loopVars, parties, history
<1>1. ASSUME NEW r \in Requests, Resolve(r) PROVE Held' BY <1>1 DEF Resolve
<1>2. ASSUME NEW r \in Requests, SetUp(r) PROVE Held' BY <1>2 DEF SetUp
<1>3. ASSUME NEW r \in Requests, ReadFile(r) PROVE Held' BY <1>3 DEF ReadFile
<1>4. ASSUME NEW r \in Requests, RenewFirst(r) PROVE Held' BY <1>4 DEF RenewFirst
<1>5. ASSUME NEW r \in Requests, Install(r) PROVE Held' BY <1>5 DEF Install
<1>6. ASSUME NEW r \in Requests, SpawnLoop(r) PROVE Held' BY <1>6 DEF SpawnLoop
<1>7. ASSUME NEW r \in Requests, UseSocket(r) PROVE Held' BY <1>7 DEF UseSocket, Serve
<1>8. ASSUME NEW r \in Requests, Send(r) PROVE Held' BY <1>8 DEF Send
<1>9. ASSUME NEW r \in Requests, Answer(r) PROVE Held' BY <1>9 DEF Answer, OnTheWire, Serve
<1>10. ASSUME NEW r \in Requests, Unauthorized(r) PROVE Held' BY <1>10 DEF Unauthorized, OnTheWire
<1>11. ASSUME NEW r \in Requests, TransientError(r) PROVE Held' BY <1>11 DEF TransientError, OnTheWire, Serve
<1>12. ASSUME NEW r \in Requests, Retry(r) PROVE Held' BY <1>12 DEF Retry, OnTheWire
<1>13. ASSUME NEW r \in Requests, Cancel(r) PROVE Held'
    <2>1. DiskLeads' BY <1>13 DEF Cancel
    <2>2. WritesNewest' BY <1>13 DEF Cancel
    <2>3. AnswersNewest' BY <1>13 DEF Cancel
    <2>4. WrittenOnDisk' BY <1>13 DEF Cancel
    <2>5. Safe' BY ZenonT(40), <1>13 DEF Cancel
    <2>6. ServedEnded' BY <1>13 DEF Cancel
    <2>7. OneOnItsWay' BY <1>13 DEF Cancel
    <2>. QED BY <2>1, <2>2, <2>3, <2>4, <2>5, <2>6, <2>7
<1>14. ASSUME NEW p \in Parties, Lock(p) PROVE Held' BY <1>14 DEF Lock
<1>15. ASSUME NEW p \in Parties, Exchange(p) PROVE Held' BY <1>15 DEF Exchange
<1>16. ASSUME NEW p \in Parties, Refused(p) PROVE Held' BY <1>16 DEF Refused
<1>17. ASSUME NEW p \in Parties, StartWrite(p) PROVE Held' BY <1>17 DEF StartWrite
<1>18. ASSUME NEW p \in Parties, PersistFails(p) PROVE Held' BY <1>18 DEF PersistFails
<1>19. ASSUME NEW p \in Parties, Renewed(p) PROVE Held' BY <1>19 DEF Renewed
<1>20. ASSUME NEW p \in Parties, ExchangeFails(p) PROVE Held'
    <2>1. DiskLeads' BY <1>20 DEF ExchangeFails
    <2>2. WritesNewest' BY <1>20 DEF ExchangeFails
    <2>3. AnswersNewest' BY <1>20 DEF ExchangeFails
    <2>4. WrittenOnDisk' BY <1>20 DEF ExchangeFails
    <2>5. Safe' BY <1>20 DEF ExchangeFails
    <2>6. ServedEnded' BY <1>20 DEF ExchangeFails
    <2>7. OneOnItsWay' BY <1>20 DEF ExchangeFails
    <2>. QED BY <2>1, <2>2, <2>3, <2>4, <2>5, <2>6, <2>7
<1>21. ASSUME NEW l \in Loops, LoopStarts(l) PROVE Held' BY <1>21 DEF LoopStarts
<1>22. ASSUME NEW l \in Loops, LoopDue(l) PROVE Held' BY <1>22 DEF LoopDue
<1>23. ASSUME NEW l \in Loops, LoopRenewed(l) PROVE Held' BY <1>23 DEF LoopRenewed
<1>24. ASSUME NEW l \in Loops, LoopDropped(l) PROVE Held'
    <2>1. DiskLeads' BY <1>24 DEF LoopDropped
    <2>2. WritesNewest' BY <1>24 DEF LoopDropped
    <2>3. AnswersNewest' BY <1>24 DEF LoopDropped
    <2>4. WrittenOnDisk' BY <1>24 DEF LoopDropped
    <2>5. Safe' BY <1>24 DEF LoopDropped
    <2>6. ServedEnded' BY <1>24 DEF LoopDropped
    <2>7. OneOnItsWay' BY <1>24 DEF LoopDropped
    <2>. QED BY <2>1, <2>2, <2>3, <2>4, <2>5, <2>6, <2>7
<1>25. ASSUME NEW g \in Gens, WriteDone(g) PROVE Held'
    <2>1. DiskLeads' BY <1>25 DEF WriteDone, WriteEnds
    <2>2. WritesNewest' BY <1>25 DEF WriteDone, WriteEnds
    <2>3. AnswersNewest' BY <1>25 DEF WriteDone, WriteEnds
    <2>4. WrittenOnDisk' BY <1>25 DEF WriteDone, WriteEnds
    <2>5. Safe' BY <1>25 DEF WriteDone, WriteEnds
    <2>6. ServedEnded' BY <1>25 DEF WriteDone, WriteEnds
    <2>7. OneOnItsWay' BY <1>25 DEF WriteDone, WriteEnds
    <2>. QED BY <2>1, <2>2, <2>3, <2>4, <2>5, <2>6, <2>7
<1>26. ASSUME NEW g \in Gens, WriteFails(g) PROVE Held' BY <1>26 DEF WriteFails, WriteEnds
<1>27. ASSUME NEW g \in Gens, Ages(g) PROVE Held' BY <1>27 DEF Ages
<1>28. ASSUME NEW g \in Gens, Revoke(g) PROVE Held' BY <1>28 DEF Revoke
<1>29. CASE Crash
    <2>1. DiskLeads' BY <1>29 DEF Crash, AtRest
    <2>2. WritesNewest' BY <1>29 DEF Crash, AtRest
    <2>3. AnswersNewest' BY <1>29 DEF Crash, AtRest
    <2>4. WrittenOnDisk' BY <1>29 DEF Crash, AtRest
    <2>5. Safe' BY <1>29 DEF Crash, AtRest
    <2>6. ServedEnded' BY <1>29 DEF Crash, AtRest
    <2>7. OneOnItsWay' BY <1>29 DEF Crash, AtRest
    <2>. QED BY <2>1, <2>2, <2>3, <2>4, <2>5, <2>6, <2>7
<1>30. CASE UNCHANGED vars BY <1>30 DEF vars
<1>. QED
    BY <1>1, <1>2, <1>3, <1>4, <1>5, <1>6, <1>7, <1>8, <1>9, <1>10, <1>11, <1>12, <1>13,
       <1>14, <1>15, <1>16, <1>17, <1>18, <1>19, <1>20, <1>21, <1>22, <1>23, <1>24, <1>25,
       <1>26, <1>27, <1>28, <1>29, <1>30
    DEF Next, CallStep, LoopStep, Refresh

LEMMA IInvAlways == Spec => []IInv
<1>1. IInv /\ [Next]_vars => IInv' BY TypeStep, HeldStep DEF IInv
<1>. QED BY InvInit, <1>1, PTL DEF Spec

\* The refresh token that still works is lost only by a failure that nobody can
\* make good, and memory is never ahead of the disk, however setups, renewals
\* and loops overlap (setup_codex_token, force_refresh_codex_token,
\* persist_codex_credentials).
THEOREM NewestKeptAlways == Spec => []NewestKept
<1>1. IInv => NewestKept
    BY DEF IInv, Held, DiskLeads, Safe, NewestKept
<1>. QED BY <1>1, IInvAlways, PTL

\* The upstream works on a call at most once: whatever is sent again was refused
\* before (send_codex_request, send_with_retry).
THEOREM BilledOnceAlways == Spec => []BilledOnce
<1>1. IInv => BilledOnce
    BY DEF IInv, Held, ServedEnded, BilledOnce
<1>. QED BY <1>1, IInvAlways, PTL
============================================================================
