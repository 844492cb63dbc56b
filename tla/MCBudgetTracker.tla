-------------------------- MODULE MCBudgetTracker --------------------------
(* A small instance of BudgetTracker.                                      *)
EXTENDS BudgetTracker

\* An unknown price, a call that leaves the warning ahead, and one that can
\* cross the warning and the cap together.
MCCosts == {0, 1, 2}
=============================================================================
