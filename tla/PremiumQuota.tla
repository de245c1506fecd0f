------------------------------ MODULE PremiumQuota ------------------------------
(***************************************************************************)
(* libs/premium_interactions.rs: the quota GitHub reports, the snapshot   *)
(* of it the gate reads, and the loop that refreshes the snapshot.  The   *)
(* loop is started once, at start-up, when the gate is configured.        *)
(***************************************************************************)
EXTENDS Integers

VARIABLES
  quota,     \* the account's premium interactions upstream
  snapshot,  \* what was last fetched of it, "none" before the first fetch
  refresher, \* the refresh loop: "off", "due" or "waiting"
  changes    \* changes of the quota so far

premiumVars == <<quota, snapshot, refresher, changes>>

\* Enough remaining, or an unlimited plan; too few remaining; no premium quota reported.
Quotas == {"left", "out", "unreported"}

\* start_premium_interactions_refresh_loop at start-up: nothing without a knob.
InitPremium(gated) ==
  /\ quota \in Quotas
  /\ snapshot = "none"
  /\ refresher = IF gated THEN "due" ELSE "off"
  /\ changes = 0

\* should_block and check_premium_interactions: without a knob, and until a snapshot is there, everything passes.
Blocks(gated) == gated /\ snapshot = "out"
--------------------------------------------------------------------------------
\* run_premium_refresh_loop, extract_snapshot: the answer is cached, and clears the cache when it reports no quota.
Fetched ==
  /\ refresher = "due"
  /\ snapshot' = IF quota = "unreported" THEN "none" ELSE quota
  /\ refresher' = "waiting"
  /\ UNCHANGED <<quota, changes>>

\* A mutant: the loop returns at the first error.
LoopReturns ==
  /\ refresher = "due"
  /\ refresher' = "off"
  /\ UNCHANGED <<quota, snapshot, changes>>

\* A failed fetch keeps the snapshot and is tried again, at the latest after half an hour.
FetchFailed ==
  /\ refresher = "due"
  /\ refresher' = "waiting"
  /\ UNCHANGED <<quota, snapshot, changes>>

\* The interval, or the backoff, is over.
RefreshDue ==
  /\ refresher = "waiting"
  /\ refresher' = "due"
  /\ UNCHANGED <<quota, snapshot, changes>>

\* Requests use the quota up; a new month or another plan restores it.
QuotaChanges ==
  /\ quota' \in Quotas \ {quota}
  /\ changes' = changes + 1
  /\ UNCHANGED <<snapshot, refresher>>

RefresherStep == Fetched \/ FetchFailed \/ RefreshDue
\* The loop is a task of its own, and GitHub does not fail for ever.
PremiumFairness == WF_premiumVars(RefreshDue) /\ WF_premiumVars(Fetched \/ FetchFailed) /\ SF_premiumVars(Fetched)
--------------------------------------------------------------------------------
\* A quota that stays restored opens the gate again: no failure of a refresh leaves the gate shut on what was once
\* read.  run_premium_refresh_loop.
GateReopens == (<>[](quota # "out")) => <>[](snapshot # "out")
================================================================================
