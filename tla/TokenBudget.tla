---------------------------- MODULE TokenBudget ----------------------------
(***************************************************************************)
(* The daily token budgets: src/src/libs/token_budget.rs, with the part of *)
(* src/src/libs/token_usage.rs that records what a request has spent.      *)
(*                                                                         *)
(* A request passes the gate of the whole proxy and then, if its key has a *)
(* budget, the gate of that key.  A gate compares the budget with a total  *)
(* cached for CACHE_TTL, and reads the total from the database, outside    *)
(* the cache's lock, if the cached one is stale or of another day.  What a *)
(* request spends is written in the background after it has ended.         *)
(***************************************************************************)
EXTENDS Naturals, FiniteSets

CONSTANTS Spenders,  \* each comes again when it has ended
          Everyone,  \* the gate of the whole proxy
          Keys,      \* attribution labels with a budget of their own
          Label,     \* the label of each request, or Everyone without one
          Budget,    \* the budget at each gate
          LastDay,   \* bound: days
          MaxSpent,  \* bound: tokens spent on a day
          Nothing

Gates == {Everyone} \cup Keys
Days == 0..LastDay

ASSUME TokenBudgetAssumption ==
    /\ IsFiniteSet(Spenders) /\ Everyone \notin Keys /\ Nothing \notin Gates \cup Days
    /\ Label \in [Spenders -> Gates]
    /\ Budget \in [Gates -> Nat \ {0}]
    /\ LastDay \in Nat /\ MaxSpent \in Nat

VARIABLES
    day,      \* local_day_key()
    spent,    \* the totals in the database, for each gate and day
    cache,    \* CACHED_DAILY_TOTAL and CACHED_LABEL_TOTALS
    stands,   \* where each request stands
    gate,     \* the gate it stands at
    key,      \* the day_key it took there
    total,    \* the total it has read, and the day that total is of
    stamped,  \* the day its usage event is created on
    failing,  \* whether reads and writes of the database may fail
    came      \* history: the day on which its check began

budgetVars == <<day, spent, cache, stands, gate, key, total, stamped, failing, came>>

NoTotal == [tokens |-> 0, of |-> 0]
NoEntry == [key |-> Nothing, total |-> NoTotal, fresh |-> FALSE]
Totals == [tokens : Nat, of : Days]

BudgetTypeOK ==
    /\ day \in Days
    /\ spent \in [Gates -> [Days -> Nat]]
    /\ cache \in [Gates -> [key : Days \cup {Nothing}, total : Totals, fresh : BOOLEAN]]
    /\ stands \in [Spenders -> {"idle", "checking", "reading", "publishing", "refused",
                                "inflight", "recording"}]
    /\ gate \in [Spenders -> Gates]
    /\ key \in [Spenders -> Days]
    /\ total \in [Spenders -> Totals]
    /\ stamped \in [Spenders -> Days]
    /\ failing \in BOOLEAN
    /\ came \in [Spenders -> Days]

BudgetInit ==
    /\ day = 0
    /\ spent = [g \in Gates |-> [d \in Days |-> 0]]
    /\ cache = [g \in Gates |-> NoEntry]
    /\ stands = [r \in Spenders |-> "idle"]
    /\ gate = [r \in Spenders |-> Everyone]
    /\ key = [r \in Spenders |-> 0]
    /\ total = [r \in Spenders |-> NoTotal]
    /\ stamped = [r \in Spenders |-> 0]
    /\ failing = TRUE
    /\ came = [r \in Spenders |-> 0]

StandAt(r, stage) == stands' = [stands EXCEPT ![r] = stage]

\* The request is over, and its local variables with it.
EndRequest(r) ==
    /\ StandAt(r, "idle")
    /\ gate' = [gate EXCEPT ![r] = Everyone]
    /\ key' = [key EXCEPT ![r] = 0]
    /\ total' = [total EXCEPT ![r] = NoTotal]
    /\ stamped' = [stamped EXCEPT ![r] = 0]
    /\ came' = [came EXCEPT ![r] = 0]

----------------------------------------------------------------------------
(* check_token_budget                                                      *)

ShouldBlock(used, budget) == used >= budget

RefuseRequest(r, used) ==
    /\ StandAt(r, "refused")
    /\ total' = [total EXCEPT ![r] = used]
    /\ UNCHANGED <<gate, came>>

GoOnTo(r, g) ==
    /\ StandAt(r, "checking")
    /\ gate' = [gate EXCEPT ![r] = g]
    /\ total' = [total EXCEPT ![r] = NoTotal]
    /\ UNCHANGED came

Pass(r) ==
    /\ StandAt(r, "inflight")
    /\ gate' = [gate EXCEPT ![r] = Everyone]
    /\ total' = [total EXCEPT ![r] = NoTotal]
    /\ came' = [came EXCEPT ![r] = 0]

\* The answer of the gate at which r stands, given the total used there.
Decide(r, used) ==
    /\ key' = [key EXCEPT ![r] = 0]
    /\ IF ShouldBlock(used.tokens, Budget[gate[r]]) THEN RefuseRequest(r, used)
       ELSE IF gate[r] = Everyone /\ Label[r] \in Keys THEN GoOnTo(r, Label[r])
       ELSE Pass(r)

Begin(r) ==
    /\ stands[r] = "idle"
    /\ StandAt(r, "checking")
    /\ gate' = [gate EXCEPT ![r] = Everyone]
    /\ came' = [came EXCEPT ![r] = day]
    /\ UNCHANGED <<day, spent, cache, key, total, stamped, failing>>

Usable(g) == cache[g].key = day /\ cache[g].fresh

UseCached(r) ==
    /\ stands[r] = "checking"
    /\ Usable(gate[r])
    /\ Decide(r, cache[gate[r]].total)
    /\ UNCHANGED <<day, spent, cache, stamped, failing>>

\* The lock is released with the day_key taken.
MissCache(r) ==
    /\ stands[r] = "checking"
    /\ ~Usable(gate[r])
    /\ key' = [key EXCEPT ![r] = day]
    /\ StandAt(r, "reading")
    /\ UNCHANGED <<day, spent, cache, gate, total, stamped, failing, came>>

\* The database is asked for the day that it is by then; an error reads as 0.
ReadTotal(r) ==
    /\ stands[r] = "reading"
    /\ \E tokens \in {spent[gate[r]][day]} \cup (IF failing THEN {0} ELSE {}) :
          total' = [total EXCEPT ![r] = [tokens |-> tokens, of |-> day]]
    /\ StandAt(r, "publishing")
    /\ UNCHANGED <<day, spent, cache, gate, key, stamped, failing, came>>

\* Mutants of Publish: the entry is given the day of its publication; an entry
\* that has expired is not replaced.
PublishToday(r) ==
    /\ stands[r] = "publishing"
    /\ cache' = [cache EXCEPT ![gate[r]] = [key |-> day, total |-> total[r], fresh |-> TRUE]]
    /\ Decide(r, total[r])
    /\ UNCHANGED <<day, spent, stamped, failing>>

PublishOnce(r) ==
    /\ stands[r] = "publishing"
    /\ cache' = [cache EXCEPT ![gate[r]] =
                   [key |-> key[r], fresh |-> TRUE,
                    total |-> IF @.key = key[r] THEN @.total ELSE total[r]]]
    /\ Decide(r, cache'[gate[r]].total)
    /\ UNCHANGED <<day, spent, stamped, failing>>

\* Whatever another request published meanwhile is overwritten.
Publish(r) ==
    /\ stands[r] = "publishing"
    /\ cache' = [cache EXCEPT ![gate[r]] = [key |-> key[r], total |-> total[r], fresh |-> TRUE]]
    /\ Decide(r, total[r])
    /\ UNCHANGED <<day, spent, stamped, failing>>

\* The client goes away while the database is read.
CancelCheck(r) ==
    /\ stands[r] \in {"reading", "publishing"}
    /\ EndRequest(r)
    /\ UNCHANGED <<day, spent, cache, failing>>

Answer429(r) ==
    /\ stands[r] = "refused"
    /\ EndRequest(r)
    /\ UNCHANGED <<day, spent, cache, failing>>

----------------------------------------------------------------------------
(* TokenUsageRecorder::record                                              *)

Complete(r) ==
    /\ stands[r] = "inflight"
    /\ stamped' = [stamped EXCEPT ![r] = day]
    /\ StandAt(r, "recording")
    /\ UNCHANGED <<day, spent, cache, gate, key, total, failing, came>>

\* A request that ends without usage records nothing.
CompleteUnused(r) ==
    /\ stands[r] = "inflight"
    /\ EndRequest(r)
    /\ UNCHANGED <<day, spent, cache, failing>>

\* Each request spends one token, or at least counts as one.
WriteEvent(r) ==
    LET d == stamped[r] IN
    /\ stands[r] = "recording"
    /\ \/ /\ spent[Everyone][d] < MaxSpent
          /\ spent' = [g \in Gates |->
                         IF g \in {Everyone, Label[r]} THEN [spent[g] EXCEPT ![d] = @ + 1]
                         ELSE spent[g]]
       \/ (failing \/ spent[Everyone][d] = MaxSpent) /\ UNCHANGED spent
    /\ EndRequest(r)
    /\ UNCHANGED <<day, cache, failing>>

----------------------------------------------------------------------------
Expire(g) ==
    /\ cache[g].fresh
    /\ cache' = [cache EXCEPT ![g].fresh = FALSE]
    /\ UNCHANGED <<day, spent, stands, gate, key, total, stamped, failing, came>>

Midnight ==
    /\ day < LastDay
    /\ day' = day + 1
    /\ UNCHANGED <<spent, cache, stands, gate, key, total, stamped, failing, came>>

\* The database works again, for good.
Recover ==
    /\ failing
    /\ failing' = FALSE
    /\ UNCHANGED <<day, spent, cache, stands, gate, key, total, stamped, came>>

BudgetStep(r) ==
    \/ UseCached(r) \/ MissCache(r) \/ ReadTotal(r) \/ Publish(r) \/ Answer429(r)
    \/ WriteEvent(r)

BudgetNext ==
    \/ \E r \in Spenders :
          Begin(r) \/ BudgetStep(r) \/ CancelCheck(r) \/ Complete(r) \/ CompleteUnused(r)
    \/ \E g \in Gates : Expire(g)
    \/ Midnight \/ Recover

BudgetSpec == BudgetInit /\ [][BudgetNext]_budgetVars

\* Tasks run and time passes; the database does not fail for ever.
BudgetFairSpec ==
    /\ BudgetSpec
    /\ \A r \in Spenders :
          WF_budgetVars(BudgetStep(r)) /\ WF_budgetVars(CompleteUnused(r) \/ Complete(r))
    /\ \A g \in Gates : WF_budgetVars(Expire(g))
    /\ WF_budgetVars(Midnight) /\ WF_budgetVars(Recover)

----------------------------------------------------------------------------
(* Properties                                                              *)

\* A request is refused only for tokens that were really spent, at the gate
\* that refuses it and on a day no earlier than the one it came on: neither
\* yesterday's spend nor another key's, whatever was cached meanwhile.
RefusalJustified ==
    \A r \in Spenders : stands[r] = "refused" =>
        /\ total[r].of >= came[r]
        /\ spent[gate[r]][total[r].of] >= Budget[gate[r]]

\* An entry of the cache never promises a later day than its total is of, and
\* no total runs ahead of the database.
CacheSound ==
    /\ BudgetTypeOK
    /\ \A g \in Gates : cache[g].key # Nothing =>
           /\ cache[g].key <= cache[g].total.of
           /\ cache[g].total.tokens <= spent[g][cache[g].total.of]

\* The gates refuse for what was spent, and remember no more than that.
GatesSound == RefusalJustified /\ CacheSound

\* Once the budget of a day is spent the gate closes: only checks that were
\* under way, or that a stale total lets through, pass, and they run out.
BudgetEngages ==
    []((day = LastDay /\ spent[Everyone][day] >= Budget[Everyone])
         => <>[](\A r \in Spenders : stands[r] # "inflight"))
============================================================================
