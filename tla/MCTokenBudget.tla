--------------------------- MODULE MCTokenBudget ---------------------------
(* TokenBudget on two requests and one key with a budget, for TLC. *)
EXTENDS TokenBudget

CONSTANTS r1, r2, key1

\* The first request has no label.
MCLabel == [r \in Spenders |-> IF r = r1 THEN Everyone ELSE key1]
MCBudget == [g \in Gates |-> IF g = Everyone THEN 2 ELSE 1]
============================================================================
