------------------------------- MODULE MCDelta -------------------------------
(***************************************************************************)
(* Delta's components for TLC.  They share no state that matters to a      *)
(* property, so every behaviour runs one of them, named by unit, and the   *)
(* others stay where they start: the instance is the union of theirs.      *)
(***************************************************************************)
EXTENDS BudgetEngine, Procurement, PersonalLedger, TaskGraph, TLC

VARIABLE unit

deltaVars == <<vars, procurementVars, personalVars, graphVars, unit>>

\* Constants with structure.
CapTwo == [b \in Budgets |-> 2]
AnyBudgets == (SUBSET Budgets) \ {{}}
AllBudgets == {Budgets}
CommittedTwo == [o \in Orders |-> 2]
mcOrderOf == [i \in Invoices |-> IF i = "i3" THEN "o2" ELSE "o1"]
mcBilled == [i \in Invoices |-> IF i = "i1" THEN 2 ELSE 1]
mcAmount == [k \in PaymentKeys |-> IF k = "k1" THEN 2 ELSE 1]

\* An event may touch any budgets, and a cap may be raised to what can be spent.
ASSUME DeltaAssumption == AnyBudgets \subseteq Scopes /\ MaxSpend \in Caps

\* Budget evaluations within one window, two at a time, and their serial runs over
\* all windows; procurement; the two writers of a personal ledger; task edges.
Units == {"window", "serial", "procurement", "payments", "import", "graph"}

DeltaInit ==
    /\ unit \in Units
    /\ Init /\ ProcurementInit /\ PersonalInit /\ GraphInit

EvaluatorStep(e, scopes, periods) ==
    \/ \E s \in scopes, q \in periods, cost \in Costs : PostUsage(e, s, q, cost)
    \/ ListBudgets(e) \/ _evaluate_budget(e) \/ Commit(e) \/ Abort(e)

Window ==
    /\ unit = "window"
    /\ \/ \E b \in Budgets : raise_budget_cost_cap(b, MaxSpend)
       \/ \E e \in Evaluators : EvaluatorStep(e, AnyBudgets, {1})

\* One evaluation at a time; the clock passes between and during evaluations.
Serial ==
    /\ unit = "serial"
    /\ \/ \E b \in Budgets, c \in Caps : raise_budget_cost_cap(b, c)
       \/ NextPeriod
       \/ \E e \in Evaluators :
             /\ \A o \in Evaluators \ {e} : pc[o] = "idle"
             /\ EvaluatorStep(e, AllBudgets, Periods)

\* Nothing more may be asked of a component: with no call in progress it may stay
\* as it is, so that a deadlock is a call that can never end.
Rest ==
    /\ \A e \in Evaluators : pc[e] = "idle"
    /\ \A c \in Clerks : clerk[c].at = "idle"
    /\ \A p \in Payers : payer[p].at = "idle"
    /\ \A i \in Importers : importer[i].at = "idle"
    /\ \A p \in Planners : planner[p].at = "idle"
    /\ UNCHANGED <<vars, procurementVars, personalVars, graphVars>>

DeltaNext ==
    /\ UNCHANGED unit
    /\ \/ /\ Window \/ Serial
          /\ UNCHANGED <<procurementVars, personalVars, graphVars>>
       \/ /\ unit = "procurement" /\ ProcurementNext
          /\ UNCHANGED <<vars, personalVars, graphVars>>
       \/ /\ \/ unit = "payments" /\ (PaymentStep \/ Tick)
             \/ unit = "import" /\ ImportStep
          /\ UNCHANGED <<vars, procurementVars, graphVars>>
       \/ /\ unit = "graph" /\ GraphNext
          /\ UNCHANGED <<vars, procurementVars, personalVars>>
       \/ Rest

DeltaSpec == DeltaInit /\ [][DeltaNext]_deltaVars

\* Concurrent evaluations are interchangeable.
Symmetry == Permutations(Evaluators)

\* An evaluation that nothing overlaps decides right: once it commits with current
\* caps, every budget it touched is enforced exactly when its spend in that window
\* is over its cap (_evaluate_budget, with windows and caps changing in between).
CommitSettles == [][unit = "serial" => \A e \in Evaluators : Settled(e)]_deltaVars
=============================================================================
