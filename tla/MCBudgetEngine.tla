--------------------------- MODULE MCBudgetEngine ---------------------------
(* BudgetEngine alone, for the two runs that refute what its sources claim. *)
EXTENDS BudgetEngine

CapTwo == [b \in Budgets |-> 2]
AllBudgets == {Budgets}

=============================================================================
