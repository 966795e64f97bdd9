------------------------- MODULE BudgetEngineProofs -------------------------
(* Theorems about BudgetEngine, and about its part of the composition MCDelta, for *)
(* every value of their constants.                                                 *)
EXTENDS MCDelta, TLAPS

-----------------------------------------------------------------------------
(* Facts about the operators *)

\* An absent state row is represented by a well formed one.
LEMMA NoRowType == NoRow \in Row
BY DEF NoRow, Row

\* Outside an evaluation cur names some budget: there is one.
LEMMA AnyBudgetType == AnyBudget \in Budgets
BY BudgetAssumption DEF AnyBudget

\* A transaction sees well-formed rows.
LEMMA VisibleType ==
    ASSUME TypeOK, NEW e \in Evaluators, NEW b \in Budgets
    PROVE  Visible(e, b) \in Row
BY DEF TypeOK, Visible

\* Writing one row of one transaction keeps the shape of mine.
LEMMA WriteType ==
    ASSUME NEW f \in [Evaluators -> [Budgets -> Row]],
           NEW e \in Evaluators, NEW b \in Budgets, NEW r \in Row
    PROVE  /\ [f EXCEPT ![e][b] = r] \in [Evaluators -> [Budgets -> Row]]
           /\ [f EXCEPT ![e][b] = r][e][b] = r
           /\ \A o \in Evaluators, c \in Budgets :
                 o # e \/ c # b => [f EXCEPT ![e][b] = r][o][c] = f[o][c]
OBVIOUS

\* _evaluate_budget continues at one of its statements.
LEMMA BranchType ==
    ASSUME NEW e, NEW r
    PROVE  Branch(e, r) \in {"enforce", "refresh", "warn", "spend"}
BY DEF Branch

\* The decision for a flipped row is a well-formed outbox row.
LEMMA DecisionType ==
    ASSUME TypeOK, NEW e \in Evaluators
    PROVE  /\ DecisionOf(e) \in Decision
           /\ DecisionOf(e).budget = cur[e]
           /\ DecisionOf(e).version = mine[e][cur[e]].version
BY DEF TypeOK, DecisionOf, Decision, Row

-----------------------------------------------------------------------------
(* Type correctness *)

\* The engine starts in a well formed state.
LEMMA TypeInit == Init => TypeOK
BY BudgetAssumption, NoRowType, AnyBudgetType
DEF Init, TypeOK, Periods, PCs, NoLimit

\* The end of a transaction, committed or not, leaves well formed locals.
LEMMA EndTxnType ==
    ASSUME TypeOK, NEW e \in Evaluators, EndTxn(e)
    PROVE  /\ pc' \in [Evaluators -> PCs]
           /\ now' \in [Evaluators -> Periods]
           /\ todo' \in [Evaluators -> SUBSET Budgets]
           /\ cur' \in [Evaluators -> Budgets]
           /\ limit' \in [Evaluators -> [Budgets -> Nat \cup {NoLimit}]]
           /\ total' \in [Evaluators -> Nat]
           /\ mine' \in [Evaluators -> [Budgets -> Row]]
           /\ queued' \in [Evaluators -> SUBSET Decision]
           /\ history' \in [Evaluators -> SUBSET Decision]
BY BudgetAssumption, NoRowType, AnyBudgetType DEF TypeOK, EndTxn, PCs, Periods

\* Every statement of an evaluation, and every step around it, keeps the types.
LEMMA TypeStep == TypeOK /\ [Next]_vars => TypeOK'
<1> SUFFICES ASSUME TypeOK, [Next]_vars PROVE TypeOK'
  OBVIOUS
<1>1. ASSUME NEW e \in Evaluators, NEW s \in Scopes, NEW q \in Periods,
             NEW cost \in Costs, PostUsage(e, s, q, cost)
      PROVE  TypeOK'
  <2>1. s \in SUBSET Budgets /\ cost \in Nat
    BY BudgetAssumption
  <2>2. spend' \in [Budgets -> [Periods -> Nat]]
    BY <1>1, <2>1 DEF PostUsage, TypeOK
  <2>3. todo' \in [Evaluators -> SUBSET Budgets] /\ pc' \in [Evaluators -> PCs]
    BY <1>1, <2>1 DEF PostUsage, TypeOK, PCs
  <2> QED BY <1>1, <2>2, <2>3 DEF PostUsage, TypeOK, txn
<1>2. ASSUME NEW e \in Evaluators, ListBudgets(e) PROVE TypeOK'
  BY <1>2 DEF ListBudgets, TypeOK, db, txn, PCs
<1>3. ASSUME NEW e \in Evaluators, NEW b \in Budgets, ReadSpend(e, b) PROVE TypeOK'
  BY <1>3 DEF ReadSpend, TypeOK, db, txn, PCs
<1>4. ASSUME NEW e \in Evaluators, get_or_create_state(e) PROVE TypeOK'
  <2>1. \E r : pc' = [pc EXCEPT ![e] = Branch(e, r)]
    BY <1>4 DEF get_or_create_state
  <2>2. pc' \in [Evaluators -> PCs]
    BY <2>1, BranchType DEF TypeOK, PCs
  <2>3. cur[e] \in Budgets /\ mine \in [Evaluators -> [Budgets -> Row]]
    BY DEF TypeOK
  <2>4. \/ mine' = mine
        \/ \E v \in {row[cur[e]][q].version : q \in Periods} :
              mine' = [mine EXCEPT ![e][cur[e]] =
                         [state |-> "under", version |-> v, warned |-> 0]]
    BY <1>4 DEF get_or_create_state
  <2>5. ASSUME NEW v \in {row[cur[e]][q].version : q \in Periods}
        PROVE  [state |-> "under", version |-> v, warned |-> 0] \in Row
    BY <2>3, <2>5 DEF TypeOK, Row
  <2>6. mine' \in [Evaluators -> [Budgets -> Row]]
    <3>1. CASE mine' = mine
      BY <2>3, <3>1
    <3>2. ASSUME NEW v \in {row[cur[e]][q].version : q \in Periods},
                 mine' = [mine EXCEPT ![e][cur[e]] =
                            [state |-> "under", version |-> v, warned |-> 0]]
          PROVE  mine' \in [Evaluators -> [Budgets -> Row]]
      <4> DEFINE r == [state |-> "under", version |-> v, warned |-> 0]
      <4>1. r \in Row
        BY <2>5
      <4>2. mine' = [mine EXCEPT ![e][cur[e]] = r]
        BY <3>2
      <4> HIDE DEF r
      <4> QED BY <2>3, <4>1, <4>2, WriteType
    <3> QED BY <2>4, <3>1, <3>2
  <2> QED BY <1>4, <2>2, <2>6 DEF get_or_create_state, TypeOK, db, local
<1>5. ASSUME NEW e \in Evaluators, NEW from, NEW to \in {"under", "enforced"},
             ConditionalTransition(e, from, to)
      PROVE  TypeOK'
  <2>1. /\ cur[e] \in Budgets
        /\ Visible(e, cur[e]) \in Row
        /\ mine \in [Evaluators -> [Budgets -> Row]]
    BY VisibleType DEF TypeOK
  <2>2. Flipped(Visible(e, cur[e]), to) \in Row
    BY <2>1 DEF Row, Flipped
  <2>3. \/ mine' = mine
        \/ mine' = [mine EXCEPT ![e][cur[e]] = Flipped(Visible(e, cur[e]), to)]
    BY <1>5 DEF ConditionalTransition
  <2>4. mine' \in [Evaluators -> [Budgets -> Row]]
    <3>1. CASE mine' = mine
      BY <2>1, <3>1
    <3>2. CASE mine' = [mine EXCEPT ![e][cur[e]] = Flipped(Visible(e, cur[e]), to)]
      BY <2>1, <2>2, <3>2, WriteType
    <3> QED BY <2>3, <3>1, <3>2
  <2>5. pc' \in [Evaluators -> PCs]
    BY <1>5 DEF ConditionalTransition, TypeOK, PCs
  <2> QED BY <1>5, <2>4, <2>5 DEF ConditionalTransition, TypeOK, db, local
<1>6. ASSUME NEW e \in Evaluators, enqueue_decision(e) PROVE TypeOK'
  BY <1>6, DecisionType DEF enqueue_decision, TypeOK, db, local, PCs
<1>7. ASSUME NEW e \in Evaluators, append_history(e) PROVE TypeOK'
  BY <1>7, DecisionType DEF append_history, TypeOK, db, local, PCs
<1>8. ASSUME NEW e \in Evaluators, try_bump_warned_pct(e) PROVE TypeOK'
  <2>1. cur[e] \in Budgets /\ Visible(e, cur[e]) \in Row
    BY VisibleType DEF TypeOK
  <2>2. PICK pct \in soft_warning_band(total[e], limit[e][cur[e]]) :
           mine' = IF Visible(e, cur[e]).warned < pct
                   THEN [mine EXCEPT ![e][cur[e]] =
                           [Visible(e, cur[e]) EXCEPT !.warned = pct]]
                   ELSE mine
    BY <1>8 DEF try_bump_warned_pct
  <2>3. pct \in Nat
    BY BudgetAssumption DEF soft_warning_band
  <2>4. [Visible(e, cur[e]) EXCEPT !.warned = pct] \in Row
    BY <2>1, <2>3 DEF Row
  <2>5. mine' \in [Evaluators -> [Budgets -> Row]]
    BY <2>1, <2>2, <2>4 DEF TypeOK
  <2> QED BY <1>8, <2>5 DEF try_bump_warned_pct, TypeOK, db, local, PCs
<1>9. ASSUME NEW e \in Evaluators, Commit(e) PROVE TypeOK'
  <2>1. row' \in [Budgets -> [Periods -> Row]]
    BY <1>9 DEF Commit, TypeOK
  <2> QED BY <1>9, <2>1, EndTxnType DEF Commit, TypeOK
<1>10. ASSUME NEW e \in Evaluators, Abort(e) PROVE TypeOK'
  BY <1>10, EndTxnType DEF Abort, TypeOK, db
<1>11. ASSUME NEW b \in Budgets, NEW c \in Caps, raise_budget_cost_cap(b, c) PROVE TypeOK'
  BY <1>11, BudgetAssumption DEF raise_budget_cost_cap, TypeOK, local, txn
<1>12. CASE NextPeriod
  BY <1>12, BudgetAssumption DEF NextPeriod, TypeOK, local, txn, Periods
<1>13. CASE UNCHANGED vars
  BY <1>13 DEF TypeOK, vars, db, local, txn
<1> QED
  BY <1>1, <1>2, <1>3, <1>4, <1>5, <1>6, <1>7, <1>8, <1>9, <1>10, <1>11, <1>12, <1>13
  DEF Next, _evaluate_budget, try_transition_to_enforced, try_transition_to_under

\* Every reachable state of the engine is well formed.
THEOREM TypeCorrect == Spec => []TypeOK
BY TypeInit, TypeStep, PTL DEF Spec

-----------------------------------------------------------------------------
(* Versions are never skipped *)

QueuedUpTo(ds, b, n) == \A v \in 1..n : Has(ds, b, v)

\* The inductive strengthening of VersionsGapFree: what a transaction has not yet
\* committed continues the committed versions without a gap, except for the
\* version it has just taken and is about to enqueue.
GapInv ==
    /\ VersionsGapFree
    /\ \A e \in Evaluators : \A d \in queued[e] :
          QueuedUpTo(outbox \cup queued[e], d.budget, d.version)
    /\ \A e \in Evaluators, b \in Budgets :
          QueuedUpTo(outbox \cup queued[e], b,
                     IF pc[e] = "enqueue" /\ cur[e] = b
                     THEN mine[e][b].version - 1 ELSE mine[e][b].version)

\* More decisions never open a gap.
LEMMA QueuedMonotone ==
    ASSUME NEW ds, NEW es, ds \subseteq es, NEW b, NEW n, QueuedUpTo(ds, b, n)
    PROVE  QueuedUpTo(es, b, n)
BY DEF QueuedUpTo, Has

\* A step that leaves the rows, the outbox and the transactions' writes alone, and
\* neither starts nor ends an enqueue, keeps the invariant.
LEMMA GapFrame ==
    ASSUME GapInv, UNCHANGED <<row, outbox, mine, queued>>,
           \A o \in Evaluators : pc'[o] = "enqueue" <=> pc[o] = "enqueue",
           \A o \in Evaluators : pc[o] = "enqueue" => cur'[o] = cur[o]
    PROVE  GapInv'
BY DEF GapInv, VersionsGapFree, QueuedUpTo, Has

\* The versions up to that of the row a transaction sees are all queued.
LEMMA GapVisible ==
    ASSUME TypeOK, GapInv, NEW e \in Evaluators, NEW b \in Budgets, pc[e] # "enqueue"
    PROVE  QueuedUpTo(outbox \cup queued[e], b, Visible(e, b).version)
<1>1. QueuedUpTo(outbox \cup queued[e], b, mine[e][b].version)
  BY DEF GapInv
<1>2. QueuedUpTo(outbox, b, row[b][now[e]].version)
  BY DEF GapInv, VersionsGapFree, QueuedUpTo, TypeOK
<1>3. QueuedUpTo(outbox \cup queued[e], b, row[b][now[e]].version)
  BY <1>2, QueuedMonotone
<1> QED BY <1>1, <1>3 DEF Visible

\* A transaction that writes a row it has the versions for keeps the invariant.
LEMMA GapWrite ==
    ASSUME TypeOK, GapInv, NEW e \in Evaluators, NEW b \in Budgets, NEW r \in Row,
           mine' = [mine EXCEPT ![e][b] = r], cur' = cur,
           UNCHANGED <<row, outbox, queued>>,
           pc[e] # "enqueue",
           NEW p, pc' = [pc EXCEPT ![e] = p], b = cur[e],
           QueuedUpTo(outbox \cup queued[e], b,
                      IF p = "enqueue" THEN r.version - 1 ELSE r.version)
    PROVE  GapInv'
<1>1. VersionsGapFree'
  BY DEF GapInv, VersionsGapFree, Has
<1>2. ASSUME NEW o \in Evaluators, NEW d \in queued'[o]
      PROVE  QueuedUpTo(outbox \cup queued[o], d.budget, d.version)'
  BY DEF GapInv, QueuedUpTo, Has
<1>3. ASSUME NEW o \in Evaluators, NEW c \in Budgets
      PROVE  QueuedUpTo(outbox \cup queued[o], c,
                        IF pc[o] = "enqueue" /\ cur[o] = c
                        THEN mine[o][c].version - 1 ELSE mine[o][c].version)'
  <2>0. pc \in [Evaluators -> PCs] /\ mine \in [Evaluators -> [Budgets -> Row]]
    BY DEF TypeOK
  <2>1. CASE o = e /\ c = b
    <3>1. mine'[o][c] = r /\ pc'[o] = p
      BY <2>0, <2>1, WriteType
    <3> QED BY <2>1, <3>1 DEF QueuedUpTo, Has
  <2>2. CASE o # e \/ c # b
    <3>1. mine'[o][c] = mine[o][c]
      BY <2>0, <2>2, WriteType
    <3>2. pc'[o] = "enqueue" /\ cur'[o] = c <=> pc[o] = "enqueue" /\ cur[o] = c
      BY <2>0, <2>2
    <3> QED BY <3>1, <3>2 DEF GapInv, QueuedUpTo, Has
  <2> QED BY <2>1, <2>2
<1> QED BY <1>1, <1>2, <1>3 DEF GapInv

\* Before the first decision there is no gap.
LEMMA GapInit == Init => GapInv
BY DEF Init, GapInv, VersionsGapFree, QueuedUpTo, NoRow

\* No statement opens a gap: an insert that is dropped finds its version queued.
LEMMA GapStep == TypeOK /\ TypeOK' /\ GapInv /\ [Next]_vars => GapInv'
<1> SUFFICES ASSUME TypeOK, TypeOK', GapInv, [Next]_vars PROVE GapInv'
  OBVIOUS
<1>1. ASSUME NEW e \in Evaluators, NEW s \in Scopes, NEW q \in Periods,
             NEW cost \in Costs, PostUsage(e, s, q, cost)
      PROVE  GapInv'
  BY <1>1, GapFrame DEF PostUsage, TypeOK, txn
<1>2. ASSUME NEW e \in Evaluators, ListBudgets(e) PROVE GapInv'
  BY <1>2, GapFrame DEF ListBudgets, TypeOK, db, txn
<1>3. ASSUME NEW e \in Evaluators, NEW b \in Budgets, ReadSpend(e, b) PROVE GapInv'
  BY <1>3, GapFrame DEF ReadSpend, TypeOK, db, txn
<1>4. ASSUME NEW e \in Evaluators, get_or_create_state(e) PROVE GapInv'
  <2>1. cur[e] \in Budgets /\ pc[e] # "enqueue"
    BY <1>4 DEF get_or_create_state, TypeOK
  <2>2. CASE Visible(e, cur[e]) # NoRow
    <3>1. pc' = [pc EXCEPT ![e] = Branch(e, Visible(e, cur[e]))] /\ mine' = mine
      BY <1>4, <2>2 DEF get_or_create_state
    <3>2. Branch(e, Visible(e, cur[e])) # "enqueue"
      BY BranchType
    <3> QED BY <1>4, <2>1, <3>1, <3>2, GapFrame
            DEF get_or_create_state, TypeOK, db, local
  <2>3. CASE Visible(e, cur[e]) = NoRow
    <3>1. PICK v \in {row[cur[e]][q].version : q \in Periods} :
             LET r == [state |-> "under", version |-> v, warned |-> 0]
             IN  /\ mine' = [mine EXCEPT ![e][cur[e]] = r]
                 /\ pc' = [pc EXCEPT ![e] = Branch(e, r)]
      BY <1>4, <2>3 DEF get_or_create_state
    <3> DEFINE r == [state |-> "under", version |-> v, warned |-> 0]
    <3>2. r \in Row /\ r.version = v
      BY <2>1 DEF TypeOK, Row
    <3>3. QueuedUpTo(outbox, cur[e], v)
      BY <2>1 DEF GapInv, VersionsGapFree, QueuedUpTo
    <3>4. QueuedUpTo(outbox \cup queued[e], cur[e], r.version)
      BY <3>2, <3>3, QueuedMonotone
    <3>5. Branch(e, r) # "enqueue"
      BY BranchType
    <3>6. mine' = [mine EXCEPT ![e][cur[e]] = r] /\ pc' = [pc EXCEPT ![e] = Branch(e, r)]
      BY <3>1
    <3>7. UNCHANGED <<row, outbox, queued, cur>>
      BY <1>4 DEF get_or_create_state, db, local
    <3> HIDE DEF r
    <3> QED BY <2>1, <3>2, <3>4, <3>5, <3>6, <3>7, GapWrite
  <2> QED BY <2>2, <2>3
<1>5. ASSUME NEW e \in Evaluators, NEW from, NEW to \in {"under", "enforced"},
             pc[e] # "enqueue", ConditionalTransition(e, from, to)
      PROVE  GapInv'
  <2>1. cur[e] \in Budgets /\ Visible(e, cur[e]) \in Row
    BY VisibleType DEF TypeOK
  <2>2. UNCHANGED <<row, outbox, queued, cur>>
    BY <1>5 DEF ConditionalTransition, db, local
  <2>3. CASE Visible(e, cur[e]).state = from
    <3>1. /\ mine' = [mine EXCEPT ![e][cur[e]] = Flipped(Visible(e, cur[e]), to)]
          /\ pc' = [pc EXCEPT ![e] = "enqueue"]
      BY <1>5, <2>3 DEF ConditionalTransition
    <3>2. /\ Flipped(Visible(e, cur[e]), to) \in Row
          /\ Flipped(Visible(e, cur[e]), to).version - 1 = Visible(e, cur[e]).version
      BY <2>1 DEF Row, Flipped
    <3>3. QueuedUpTo(outbox \cup queued[e], cur[e],
                     Flipped(Visible(e, cur[e]), to).version - 1)
      BY <1>5, <2>1, <3>2, GapVisible
    <3> QED BY <1>5, <2>1, <2>2, <3>1, <3>2, <3>3, GapWrite
  <2>4. CASE Visible(e, cur[e]).state # from
    BY <1>5, <2>2, <2>4, GapFrame DEF ConditionalTransition, TypeOK
  <2> QED BY <2>3, <2>4
<1>6. ASSUME NEW e \in Evaluators, enqueue_decision(e) PROVE GapInv'
  <2> DEFINE d == DecisionOf(e)
             b == cur[e]
             n == mine[e][b].version
  <2>1. /\ pc[e] = "enqueue" /\ pc' = [pc EXCEPT ![e] = "audit"]
        /\ UNCHANGED <<row, outbox, mine, cur>>
        /\ queued' = IF Has(outbox \cup queued[e], d.budget, d.version)
                     THEN queued ELSE [queued EXCEPT ![e] = @ \cup {d}]
    BY <1>6 DEF enqueue_decision, db, local, Has
  <2>2. b \in Budgets /\ n \in Nat /\ d.budget = b /\ d.version = n
    BY DecisionType DEF TypeOK, Row
  <2> HIDE DEF d, b, n
  <2>3. /\ queued[e] \subseteq queued'[e]
        /\ Has(outbox \cup queued'[e], b, n)
        /\ \A x \in queued'[e] : x \in queued[e] \/ x = d
        /\ \A o \in Evaluators \ {e} : queued'[o] = queued[o]
    BY <2>1, <2>2 DEF TypeOK, Has
  <2>4. QueuedUpTo(outbox \cup queued'[e], b, n)
    <3>1. QueuedUpTo(outbox \cup queued[e], b, n - 1)
      BY <2>1, <2>2 DEF GapInv, b, n
    <3>2. QueuedUpTo(outbox \cup queued'[e], b, n - 1)
      BY <2>3, <3>1, QueuedMonotone
    <3>3. ASSUME NEW v \in 1..n PROVE Has(outbox \cup queued'[e], b, v)
      <4>1. v = n \/ v \in 1..(n - 1)
        BY <2>2, <3>3
      <4> QED BY <2>3, <3>2, <4>1 DEF QueuedUpTo
    <3> QED BY <3>3 DEF QueuedUpTo
  <2>5. VersionsGapFree'
    BY <2>1 DEF GapInv, VersionsGapFree, Has
  <2>6. ASSUME NEW o \in Evaluators, NEW x \in queued'[o]
        PROVE  QueuedUpTo(outbox' \cup queued'[o], x.budget, x.version)
    <3>1. CASE x \in queued[o]
      BY <2>1, <2>3, <3>1, QueuedMonotone DEF GapInv
    <3>2. CASE x \notin queued[o]
      BY <2>1, <2>2, <2>3, <2>4, <2>6, <3>2
    <3> QED BY <3>1, <3>2
  <2>7. ASSUME NEW o \in Evaluators, NEW c \in Budgets
        PROVE  QueuedUpTo(outbox' \cup queued'[o], c,
                          IF pc'[o] = "enqueue" /\ cur'[o] = c
                          THEN mine'[o][c].version - 1 ELSE mine'[o][c].version)
    <3>1. CASE o = e /\ c = b
      BY <2>1, <2>4, <3>1 DEF TypeOK, b, n
    <3>2. CASE o = e /\ c # b
      <4>1. QueuedUpTo(outbox \cup queued[e], c, mine[e][c].version)
        BY <3>2 DEF GapInv, b
      <4>2. QueuedUpTo(outbox \cup queued'[e], c, mine[e][c].version)
        BY <2>3, <4>1, QueuedMonotone
      <4> QED BY <2>1, <3>2, <4>2 DEF TypeOK
    <3>3. CASE o # e
      BY <2>1, <2>3, <3>3 DEF GapInv, TypeOK
    <3> QED BY <3>1, <3>2, <3>3
  <2> QED BY <2>5, <2>6, <2>7 DEF GapInv
<1>7. ASSUME NEW e \in Evaluators, append_history(e) PROVE GapInv'
  BY <1>7, GapFrame DEF append_history, TypeOK, db, local
<1>8. ASSUME NEW e \in Evaluators, try_bump_warned_pct(e) PROVE GapInv'
  <2>1. /\ cur[e] \in Budgets /\ Visible(e, cur[e]) \in Row
        /\ pc[e] # "enqueue" /\ pc' = [pc EXCEPT ![e] = "spend"]
        /\ UNCHANGED <<row, outbox, queued, cur>>
    BY <1>8, VisibleType DEF try_bump_warned_pct, TypeOK, db, local
  <2>2. PICK pct \in soft_warning_band(total[e], limit[e][cur[e]]) :
           mine' = IF Visible(e, cur[e]).warned < pct
                   THEN [mine EXCEPT ![e][cur[e]] =
                           [Visible(e, cur[e]) EXCEPT !.warned = pct]]
                   ELSE mine
    BY <1>8 DEF try_bump_warned_pct
  <2>3. CASE Visible(e, cur[e]).warned < pct
    <3> DEFINE r == [Visible(e, cur[e]) EXCEPT !.warned = pct]
    <3>1. pct \in Nat
      BY BudgetAssumption DEF soft_warning_band
    <3>2. r \in Row /\ r.version = Visible(e, cur[e]).version
      BY <2>1, <3>1 DEF Row
    <3>3. mine' = [mine EXCEPT ![e][cur[e]] = r]
      BY <2>2, <2>3
    <3>4. QueuedUpTo(outbox \cup queued[e], cur[e], r.version)
      BY <2>1, <3>2, GapVisible
    <3> HIDE DEF r
    <3> QED BY <2>1, <3>2, <3>3, <3>4, GapWrite
  <2>4. CASE ~(Visible(e, cur[e]).warned < pct)
    BY <2>1, <2>2, <2>4, GapFrame DEF TypeOK
  <2> QED BY <2>3, <2>4
<1>9. ASSUME NEW e \in Evaluators, Commit(e) PROVE GapInv'
  <2>1. /\ pc[e] = "spend" /\ pc' = [pc EXCEPT ![e] = "idle"]
        /\ cur' = [cur EXCEPT ![e] = AnyBudget]
        /\ outbox' = outbox \cup queued[e]
        /\ mine' = [mine EXCEPT ![e] = [b \in Budgets |-> NoRow]]
        /\ queued' = [queued EXCEPT ![e] = {}]
    BY <1>9 DEF Commit, EndTxn
  <2>2. \A b \in Budgets, q \in Periods :
           row'[b][q] = row[b][q] \/ row'[b][q] = mine[e][b]
    BY <1>9 DEF Commit, TypeOK
  <2>3. ASSUME NEW b \in Budgets, NEW q \in Periods
        PROVE  QueuedUpTo(outbox', b, row'[b][q].version)
    <3>1. QueuedUpTo(outbox, b, row[b][q].version)
      BY DEF GapInv, VersionsGapFree, QueuedUpTo
    <3>2. QueuedUpTo(outbox', b, row[b][q].version)
      BY <2>1, <3>1, QueuedMonotone
    <3>3. QueuedUpTo(outbox', b, mine[e][b].version)
      BY <2>1 DEF GapInv
    <3> QED BY <2>2, <3>2, <3>3
  <2>4. ASSUME NEW d \in outbox' PROVE QueuedUpTo(outbox', d.budget, d.version)
    <3>1. CASE d \in outbox
      <4>1. QueuedUpTo(outbox, d.budget, d.version)
        BY <3>1 DEF GapInv, VersionsGapFree, QueuedUpTo
      <4> QED BY <2>1, <4>1, QueuedMonotone
    <3>2. CASE d \in queued[e]
      BY <2>1, <3>2 DEF GapInv
    <3> QED BY <2>1, <2>4, <3>1, <3>2
  <2>5. VersionsGapFree'
    BY <2>3, <2>4 DEF VersionsGapFree, QueuedUpTo
  <2>6. ASSUME NEW o \in Evaluators, NEW d \in queued'[o]
        PROVE  QueuedUpTo(outbox' \cup queued'[o], d.budget, d.version)
    <3>1. o # e /\ queued'[o] = queued[o]
      BY <2>1, <2>6 DEF TypeOK
    <3>2. QueuedUpTo(outbox \cup queued[o], d.budget, d.version)
      BY <2>6, <3>1 DEF GapInv
    <3> QED BY <2>1, <3>1, <3>2, QueuedMonotone
  <2>7. ASSUME NEW o \in Evaluators, NEW c \in Budgets
        PROVE  QueuedUpTo(outbox' \cup queued'[o], c,
                          IF pc'[o] = "enqueue" /\ cur'[o] = c
                          THEN mine'[o][c].version - 1 ELSE mine'[o][c].version)
    <3>1. CASE o = e
      BY <2>1, <3>1 DEF TypeOK, NoRow, QueuedUpTo
    <3>2. CASE o # e
      <4>1. /\ pc'[o] = pc[o] /\ cur'[o] = cur[o] /\ mine'[o] = mine[o]
            /\ queued'[o] = queued[o] /\ outbox \subseteq outbox'
        BY <2>1, <3>2 DEF TypeOK
      <4>2. outbox \cup queued[o] \subseteq outbox' \cup queued'[o]
        BY <4>1
      <4> DEFINE k == IF pc[o] = "enqueue" /\ cur[o] = c
                      THEN mine[o][c].version - 1 ELSE mine[o][c].version
      <4>3. QueuedUpTo(outbox \cup queued[o], c, k)
        BY DEF GapInv
      <4>4. QueuedUpTo(outbox' \cup queued'[o], c, k)
        BY <4>2, <4>3, QueuedMonotone
      <4> QED BY <4>1, <4>4
    <3> QED BY <3>1, <3>2
  <2> QED BY <2>5, <2>6, <2>7 DEF GapInv
<1>10. ASSUME NEW e \in Evaluators, Abort(e) PROVE GapInv'
  <2>1. /\ pc' = [pc EXCEPT ![e] = "idle"] /\ cur' = [cur EXCEPT ![e] = AnyBudget]
        /\ mine' = [mine EXCEPT ![e] = [b \in Budgets |-> NoRow]]
        /\ queued' = [queued EXCEPT ![e] = {}]
        /\ UNCHANGED <<row, outbox>>
    BY <1>10 DEF Abort, EndTxn, db
  <2>2. VersionsGapFree'
    BY <2>1 DEF GapInv, VersionsGapFree, Has
  <2>3. ASSUME NEW o \in Evaluators, NEW d \in queued'[o]
        PROVE  QueuedUpTo(outbox' \cup queued'[o], d.budget, d.version)
    <3>1. queued'[e] = {} /\ (o # e => queued'[o] = queued[o])
      BY <2>1 DEF TypeOK
    <3>2. QueuedUpTo(outbox \cup queued[o], d.budget, d.version)
      BY <2>3, <3>1 DEF GapInv
    <3> QED BY <2>1, <2>3, <3>1, <3>2
  <2>4. ASSUME NEW o \in Evaluators, NEW c \in Budgets
        PROVE  QueuedUpTo(outbox' \cup queued'[o], c,
                          IF pc'[o] = "enqueue" /\ cur'[o] = c
                          THEN mine'[o][c].version - 1 ELSE mine'[o][c].version)
    <3>1. CASE o = e
      BY <2>1, <3>1 DEF TypeOK, NoRow, QueuedUpTo
    <3>2. CASE o # e
      <4>1. /\ pc'[o] = pc[o] /\ cur'[o] = cur[o] /\ mine'[o] = mine[o]
            /\ queued'[o] = queued[o] /\ outbox' = outbox
        BY <2>1, <3>2 DEF TypeOK
      <4> QED BY <4>1 DEF GapInv
    <3> QED BY <3>1, <3>2
  <2> QED BY <2>2, <2>3, <2>4 DEF GapInv
<1>11. ASSUME NEW b \in Budgets, NEW c \in Caps, raise_budget_cost_cap(b, c) PROVE GapInv'
  BY <1>11, GapFrame DEF raise_budget_cost_cap, local, txn
<1>12. CASE NextPeriod
  BY <1>12, GapFrame DEF NextPeriod, local, txn
<1>13. CASE UNCHANGED vars
  BY <1>13, GapFrame DEF vars, db, local, txn
<1> QED
  BY <1>1, <1>2, <1>3, <1>4, <1>5, <1>6, <1>7, <1>8, <1>9, <1>10, <1>11, <1>12, <1>13
  DEF Next, _evaluate_budget, try_transition_to_enforced, try_transition_to_under

\* Whatever the windows, the interleaving and the failures: the published versions
\* of a budget are 1, 2, 3, ... and no state row is ahead of the outbox.
THEOREM VersionsNeverSkipped == Spec => []VersionsGapFree
<1>1. Init => TypeOK /\ GapInv
  BY TypeInit, GapInit
<1>2. TypeOK /\ GapInv /\ [Next]_vars => (TypeOK /\ GapInv)'
  BY TypeStep, GapStep
<1>3. GapInv => VersionsGapFree
  BY DEF GapInv
<1> QED BY <1>1, <1>2, <1>3, PTL DEF Spec

-----------------------------------------------------------------------------
(* Within one budget window no decision is lost *)

Enforce(ds, b, v) ==
    \E d \in ds : /\ d.budget = b /\ d.period = 1
                 /\ d.version = v /\ d.transition = "enforce"

\* Only one transaction at a time has written the state row of a budget, and its
\* version is not behind the committed one.
RowOwned ==
    /\ \A e, o \in Evaluators, b \in Budgets :
          mine[e][b] # NoRow /\ mine[o][b] # NoRow => e = o
    /\ \A e \in Evaluators, b \in Budgets :
          mine[e][b] # NoRow => mine[e][b].version >= row[b][1].version

\* The outbox is not ahead of the committed rows; what a transaction has queued
\* lies between the committed version and its own, and the version it is about
\* to enqueue is new.
VersionsOrdered ==
    /\ \A d \in outbox : d.version <= row[d.budget][1].version
    /\ \A e \in Evaluators : \A d \in queued[e] :
          /\ mine[e][d.budget] # NoRow
          /\ d.version > row[d.budget][1].version
          /\ d.version <= mine[e][d.budget].version
    /\ \A e \in Evaluators : pc[e] = "enqueue" =>
          /\ mine[e][cur[e]] # NoRow
          /\ mine[e][cur[e]].version > row[cur[e]][1].version
          /\ \A d \in queued[e] :
                d.budget = cur[e] => d.version < mine[e][cur[e]].version

\* A transaction audits exactly what it queues.
AuditFollows ==
    /\ audit = outbox
    /\ \A e \in Evaluators :
          queued[e] = IF pc[e] = "audit" THEN history[e] \cup {DecisionOf(e)}
                                         ELSE history[e]

\* An enforced row, committed or not, has its decision.
EnforcedHasDecision ==
    /\ \A b \in Budgets :
          row[b][1].state = "enforced" => Enforce(outbox, b, row[b][1].version)
    /\ \A e \in Evaluators, b \in Budgets :
          /\ mine[e][b].state = "enforced"
          /\ ~(pc[e] = "enqueue" /\ cur[e] = b)
          => Enforce(outbox \cup queued[e], b, mine[e][b].version)

WindowInv == RowOwned /\ VersionsOrdered /\ AuditFollows /\ EnforcedHasDecision

\* At the start nothing is written, queued or audited.
LEMMA WindowInit == NPeriods = 1 /\ Init => WindowInv
BY BudgetAssumption
DEF Init, WindowInv, RowOwned, VersionsOrdered, AuditFollows, EnforcedHasDecision,
    NoRow, Periods

\* Outside the statements that write, a request may change its locals at will.
LEMMA WindowFrame ==
    ASSUME TypeOK, WindowInv,
           UNCHANGED <<row, outbox, audit, mine, queued, history>>,
           NEW e \in Evaluators,
           pc[e] \notin {"enqueue", "audit"}, pc'[e] \notin {"enqueue", "audit"},
           \A o \in Evaluators \ {e} :
              /\ pc'[o] = pc[o] /\ cur'[o] = cur[o]
              /\ now'[o] = now[o] /\ limit'[o] = limit[o]
    PROVE  WindowInv'
<1>1. RowOwned'
  BY DEF WindowInv, RowOwned
<1>2. VersionsOrdered'
  BY DEF WindowInv, VersionsOrdered
<1>3. AuditFollows'
  <2>1. \A o \in Evaluators \ {e} : DecisionOf(o)' = DecisionOf(o)
    BY DEF DecisionOf
  <2> QED BY <2>1 DEF WindowInv, AuditFollows
<1>4. EnforcedHasDecision'
  BY DEF WindowInv, EnforcedHasDecision, Enforce
<1> QED BY <1>1, <1>2, <1>3, <1>4 DEF WindowInv

\* A transaction writes a state row it need not wait for: to insert it, to record a
\* warning (same state and version) or to flip it (next version, to be enqueued).
LEMMA WindowWrite ==
    ASSUME TypeOK, WindowInv, NPeriods = 1,
           NEW e \in Evaluators, NEW b \in Budgets, NEW r \in Row, NEW p,
           b = cur[e], pc[e] \notin {"enqueue", "audit"}, ~RowLocked(e, b),
           p # "audit", r # NoRow,
           p = "enqueue" => r.version = Visible(e, b).version + 1,
           p # "enqueue" => r.version = Visible(e, b).version,
           p # "enqueue" /\ r.state = "enforced" => Visible(e, b).state = "enforced",
           mine' = [mine EXCEPT ![e][b] = r],
           pc' = [pc EXCEPT ![e] = p],
           UNCHANGED <<row, outbox, audit, queued, history, cur, now, limit>>
    PROVE  WindowInv'
<1>1. /\ mine \in [Evaluators -> [Budgets -> Row]] /\ pc \in [Evaluators -> PCs]
      /\ now[e] = 1 /\ \A o \in Evaluators : now[o] = 1
      /\ row[b][1].version \in Nat /\ mine[e][b].version \in Nat /\ r.version \in Nat
  BY BudgetAssumption DEF TypeOK, Periods, NoRow, Row
<1>2. /\ mine'[e][b] = r
      /\ \A o \in Evaluators, c \in Budgets : o # e \/ c # b => mine'[o][c] = mine[o][c]
      /\ pc'[e] = p
      /\ \A o \in Evaluators : o # e => pc'[o] = pc[o] /\ mine'[o] = mine[o]
  BY <1>1, WriteType
<1>3. \A o \in Evaluators : o # e => mine[o][b] = NoRow
  BY <1>1 DEF RowLocked
<1>4. /\ mine[e][b] # NoRow => Visible(e, b) = mine[e][b]
      /\ mine[e][b] = NoRow => Visible(e, b) = row[b][1]
      /\ Visible(e, b).version >= row[b][1].version
      /\ Visible(e, b).version \in Nat
      /\ r.version >= Visible(e, b).version
  BY <1>1 DEF WindowInv, RowOwned, Visible
<1>5. RowOwned'
  BY <1>1, <1>2, <1>3, <1>4 DEF WindowInv, RowOwned
<1>6. VersionsOrdered'
  <2>1. ASSUME NEW o \in Evaluators, NEW d \in queued'[o]
        PROVE  /\ mine'[o][d.budget] # NoRow
               /\ d.version > row'[d.budget][1].version
               /\ d.version <= mine'[o][d.budget].version
    <3>1. d \in Decision /\ d \in queued[o] /\ d.budget \in Budgets /\ d.version \in Nat
      BY <2>1 DEF TypeOK, Decision
    <3>2. CASE o = e /\ d.budget = b
      BY <1>1, <1>2, <1>4, <3>1, <3>2 DEF WindowInv, VersionsOrdered
    <3>3. CASE o # e \/ d.budget # b
      BY <1>2, <3>1, <3>3 DEF WindowInv, VersionsOrdered
    <3> QED BY <3>2, <3>3
  <2>2. ASSUME NEW o \in Evaluators, pc'[o] = "enqueue"
        PROVE  /\ mine'[o][cur'[o]] # NoRow
               /\ mine'[o][cur'[o]].version > row'[cur'[o]][1].version
               /\ \A d \in queued'[o] :
                    d.budget = cur'[o] => d.version < mine'[o][cur'[o]].version
    <3>1. CASE o = e
      <4>1. r.version > row[b][1].version
        BY <1>1, <1>2, <1>4, <2>2, <3>1
      <4>2. ASSUME NEW d \in queued[e], d.budget = b
            PROVE  d.version < r.version
        BY <1>1, <1>2, <1>4, <2>2, <3>1, <4>2 DEF WindowInv, VersionsOrdered, TypeOK, Decision
      <4> QED BY <1>1, <1>2, <3>1, <4>1, <4>2
    <3>2. CASE o # e
      BY <1>2, <2>2, <3>2 DEF WindowInv, VersionsOrdered
    <3> QED BY <3>1, <3>2
  <2> QED BY <2>1, <2>2 DEF WindowInv, VersionsOrdered
<1>7. AuditFollows'
  <2>1. ASSUME NEW o \in Evaluators, o # e PROVE DecisionOf(o)' = DecisionOf(o)
    BY <1>2, <2>1 DEF DecisionOf
  <2>2. audit' = outbox'
    BY <1>2 DEF WindowInv, AuditFollows
  <2>3. ASSUME NEW o \in Evaluators
        PROVE  queued'[o] = IF pc'[o] = "audit" THEN history'[o] \cup {DecisionOf(o)'} ELSE history'[o]
    <3>1. CASE o = e
      BY <1>2, <3>1 DEF WindowInv, AuditFollows
    <3>2. CASE o # e
      BY <1>2, <2>1, <3>2 DEF WindowInv, AuditFollows
    <3> QED BY <3>1, <3>2
  <2> QED BY <2>2, <2>3 DEF AuditFollows
<1>8. EnforcedHasDecision'
  <2>1. ASSUME NEW o \in Evaluators, NEW c \in Budgets, mine'[o][c].state = "enforced",
               ~(pc'[o] = "enqueue" /\ cur'[o] = c)
        PROVE  Enforce(outbox \cup queued[o], c, mine'[o][c].version)
    <3>1. CASE o = e /\ c = b
      <4>0. p # "enqueue" /\ r.state = "enforced"
        BY <1>2, <2>1, <3>1
      <4>1. Visible(e, b).state = "enforced" /\ r.version = Visible(e, b).version
        BY <1>4, <4>0
      <4>2. CASE mine[e][b] # NoRow
        BY <1>2, <1>4, <3>1, <4>1, <4>2 DEF WindowInv, EnforcedHasDecision
      <4>3. CASE mine[e][b] = NoRow
        BY <1>2, <1>4, <3>1, <4>1, <4>3 DEF WindowInv, EnforcedHasDecision, Enforce
      <4> QED BY <4>2, <4>3
    <3>2. CASE o # e \/ c # b
      BY <1>2, <2>1, <3>2 DEF WindowInv, EnforcedHasDecision
    <3> QED BY <3>1, <3>2
  <2>2. ASSUME NEW c \in Budgets, row'[c][1].state = "enforced"
        PROVE  Enforce(outbox', c, row'[c][1].version)
    BY <2>2 DEF WindowInv, EnforcedHasDecision
  <2> QED BY <2>1, <2>2 DEF EnforcedHasDecision
<1> QED BY <1>5, <1>6, <1>7, <1>8 DEF WindowInv

\* Within one window every statement, commit and rollback keeps WindowInv.
LEMMA WindowStep ==
    ASSUME NPeriods = 1
    PROVE  TypeOK /\ TypeOK' /\ WindowInv /\ [Next]_vars => WindowInv'
<1> SUFFICES ASSUME TypeOK, TypeOK', WindowInv, [Next]_vars PROVE WindowInv'
  OBVIOUS
<1>0. Periods = {1}
  BY DEF Periods
<1>1. ASSUME NEW e \in Evaluators, NEW s \in Scopes, NEW q \in Periods,
             NEW cost \in Costs, PostUsage(e, s, q, cost)
      PROVE  WindowInv'
  BY <1>1, WindowFrame DEF PostUsage, TypeOK, txn
<1>2. ASSUME NEW e \in Evaluators, ListBudgets(e) PROVE WindowInv'
  BY <1>2, WindowFrame DEF ListBudgets, TypeOK, db, txn
<1>3. ASSUME NEW e \in Evaluators, NEW b \in Budgets, ReadSpend(e, b) PROVE WindowInv'
  BY <1>3, WindowFrame DEF ReadSpend, TypeOK, db, txn
<1>4. ASSUME NEW e \in Evaluators, get_or_create_state(e) PROVE WindowInv'
  <2>1. /\ cur[e] \in Budgets /\ pc[e] = "state"
        /\ UNCHANGED <<row, outbox, audit, queued, history, cur, now, limit>>
    BY <1>4 DEF get_or_create_state, TypeOK, db, local
  <2>2. CASE Visible(e, cur[e]) # NoRow
    <3>1. pc' = [pc EXCEPT ![e] = Branch(e, Visible(e, cur[e]))] /\ mine' = mine
      BY <1>4, <2>2 DEF get_or_create_state
    <3>2. Branch(e, Visible(e, cur[e])) \notin {"enqueue", "audit"}
      BY BranchType
    <3> QED BY <2>1, <3>1, <3>2, WindowFrame DEF TypeOK
  <2>3. CASE Visible(e, cur[e]) = NoRow
    <3>1. PICK v \in {row[cur[e]][q].version : q \in Periods} :
             LET r == [state |-> "under", version |-> v, warned |-> 0]
             IN  /\ mine' = [mine EXCEPT ![e][cur[e]] = r]
                 /\ pc' = [pc EXCEPT ![e] = Branch(e, r)]
      BY <1>4, <2>3 DEF get_or_create_state
    <3> DEFINE r == [state |-> "under", version |-> v, warned |-> 0]
    <3>2. row[cur[e]][1] = NoRow /\ v = 0
      BY <1>0, <2>1, <2>3, <3>1 DEF Visible, NoRow, TypeOK
    <3>3. /\ r \in Row /\ r # NoRow /\ r.state = "under"
          /\ r.version = 0 /\ Visible(e, cur[e]).version = 0
      BY <2>3, <3>2 DEF Row, NoRow
    <3>4. Branch(e, r) \notin {"enqueue", "audit"}
      BY BranchType
    <3>5. mine' = [mine EXCEPT ![e][cur[e]] = r] /\ pc' = [pc EXCEPT ![e] = Branch(e, r)]
      BY <3>1
    <3>6. ~RowLocked(e, cur[e])
      BY <1>4, <2>3 DEF get_or_create_state
    <3> HIDE DEF r
    <3> QED BY <2>1, <3>3, <3>4, <3>5, <3>6, WindowWrite
  <2> QED BY <2>2, <2>3
<1>5. ASSUME NEW e \in Evaluators, NEW from, NEW to \in {"under", "enforced"},
             pc[e] \in {"enforce", "refresh"}, ConditionalTransition(e, from, to)
      PROVE  WindowInv'
  <2>1. /\ cur[e] \in Budgets /\ Visible(e, cur[e]) \in Row
        /\ ~RowLocked(e, cur[e])
        /\ UNCHANGED <<row, outbox, audit, queued, history, cur, now, limit>>
    BY <1>5, VisibleType DEF TypeOK, ConditionalTransition, db, local
  <2>2. CASE Visible(e, cur[e]).state = from
    <3> DEFINE r == Flipped(Visible(e, cur[e]), to)
    <3>1. mine' = [mine EXCEPT ![e][cur[e]] = r] /\ pc' = [pc EXCEPT ![e] = "enqueue"]
      BY <1>5, <2>2 DEF ConditionalTransition
    <3>2. r \in Row /\ r # NoRow /\ r.version = Visible(e, cur[e]).version + 1
      BY <2>1 DEF Row, Flipped, NoRow
    <3> HIDE DEF r
    <3> QED BY <1>5, <2>1, <3>1, <3>2, WindowWrite
  <2>3. CASE Visible(e, cur[e]).state # from
    BY <1>5, <2>1, <2>3, WindowFrame DEF ConditionalTransition, TypeOK
  <2> QED BY <2>2, <2>3
<1>8. ASSUME NEW e \in Evaluators, try_bump_warned_pct(e) PROVE WindowInv'
  <2>1. /\ cur[e] \in Budgets /\ Visible(e, cur[e]) \in Row
        /\ pc[e] = "warn" /\ pc' = [pc EXCEPT ![e] = "spend"]
        /\ ~RowLocked(e, cur[e])
        /\ UNCHANGED <<row, outbox, audit, queued, history, cur, now, limit>>
    BY <1>8, VisibleType DEF try_bump_warned_pct, TypeOK, db, local
  <2>2. PICK pct \in soft_warning_band(total[e], limit[e][cur[e]]) :
           mine' = IF Visible(e, cur[e]).warned < pct
                   THEN [mine EXCEPT ![e][cur[e]] =
                           [Visible(e, cur[e]) EXCEPT !.warned = pct]]
                   ELSE mine
    BY <1>8 DEF try_bump_warned_pct
  <2>3. CASE Visible(e, cur[e]).warned < pct
    <3> DEFINE r == [Visible(e, cur[e]) EXCEPT !.warned = pct]
    <3>1. pct \in Nat
      BY BudgetAssumption DEF soft_warning_band
    <3>2. /\ r \in Row /\ r.version = Visible(e, cur[e]).version
          /\ r.state = Visible(e, cur[e]).state /\ r # NoRow
      BY <2>1, <2>3, <3>1 DEF Row, NoRow
    <3>3. mine' = [mine EXCEPT ![e][cur[e]] = r]
      BY <2>2, <2>3
    <3>4. Visible(e, cur[e]).version \in Nat
      BY <2>1 DEF Row
    <3> HIDE DEF r
    <3> QED BY <2>1, <2>3, <3>2, <3>3, <3>4, WindowWrite
  <2>4. CASE ~(Visible(e, cur[e]).warned < pct)
    BY <2>1, <2>2, <2>4, WindowFrame DEF TypeOK
  <2> QED BY <2>3, <2>4
<1>6. ASSUME NEW e \in Evaluators, enqueue_decision(e) PROVE WindowInv'
  <2> DEFINE d == DecisionOf(e)
             b == cur[e]
  <2>1. /\ pc[e] = "enqueue" /\ pc' = [pc EXCEPT ![e] = "audit"]
        /\ UNCHANGED <<row, outbox, audit, mine, cur, now, limit, history>>
        /\ queued' = IF Has(outbox \cup queued[e], d.budget, d.version)
                     THEN queued ELSE [queued EXCEPT ![e] = @ \cup {d}]
    BY <1>6 DEF enqueue_decision, db, local, Has
  <2>2. /\ b \in Budgets /\ d.budget = b /\ d.version = mine[e][b].version
        /\ d.version \in Nat /\ d \in Decision /\ row[b][1].version \in Nat
    BY <1>0, DecisionType DEF TypeOK, Row
  <2>3. d.period = 1 /\ (mine[e][b].state = "enforced" => d.transition = "enforce")
    BY <1>0 DEF DecisionOf, TypeOK
  <2>4. /\ mine[e][b] # NoRow /\ d.version > row[b][1].version
        /\ \A x \in queued[e] : x.budget = b => x.version < d.version
    BY <2>1, <2>2 DEF WindowInv, VersionsOrdered
  <2>5. ~Has(outbox \cup queued[e], d.budget, d.version)
    <3>1. \A x \in outbox : x.budget = b => x.version <= row[b][1].version
      BY DEF WindowInv, VersionsOrdered
    <3>2. \A x \in outbox \cup queued[e] : x.version \in Nat
      BY DEF TypeOK, Decision
    <3> QED BY <2>2, <2>4, <3>1, <3>2 DEF Has
  <2>6. \A o \in Evaluators : DecisionOf(o)' = DecisionOf(o)
    BY <2>1 DEF DecisionOf
  <2> HIDE DEF d, b
  <2>7. /\ queued'[e] = queued[e] \cup {d}
        /\ \A o \in Evaluators \ {e} : queued'[o] = queued[o] /\ pc'[o] = pc[o]
        /\ pc'[e] = "audit"
    BY <2>1, <2>5 DEF TypeOK
  <2>8. RowOwned'
    BY <2>1 DEF WindowInv, RowOwned
  <2>9. VersionsOrdered'
    BY <2>1, <2>2, <2>4, <2>7 DEF WindowInv, VersionsOrdered
  <2>10. AuditFollows'
    BY <2>1, <2>6, <2>7 DEF WindowInv, AuditFollows, d
  <2>11. EnforcedHasDecision'
    <3>1. ASSUME NEW o \in Evaluators, NEW c \in Budgets, mine'[o][c].state = "enforced",
                 ~(pc'[o] = "enqueue" /\ cur'[o] = c)
          PROVE  Enforce(outbox' \cup queued'[o], c, mine'[o][c].version)
      <4>1. CASE o = e /\ c = b
        BY <2>1, <2>2, <2>3, <2>7, <3>1, <4>1 DEF Enforce
      <4>2. CASE o = e /\ c # b
        <5>1. Enforce(outbox \cup queued[e], c, mine[e][c].version)
          BY <2>1, <3>1, <4>2 DEF WindowInv, EnforcedHasDecision, b
        <5> QED BY <2>1, <2>7, <4>2, <5>1 DEF Enforce
      <4>3. CASE o # e
        BY <2>1, <2>7, <3>1, <4>3 DEF WindowInv, EnforcedHasDecision
      <4> QED BY <4>1, <4>2, <4>3
    <3> QED BY <2>1, <3>1 DEF WindowInv, EnforcedHasDecision
  <2> QED BY <2>8, <2>9, <2>10, <2>11 DEF WindowInv
<1>7. ASSUME NEW e \in Evaluators, append_history(e) PROVE WindowInv'
  <2>1. /\ pc[e] = "audit" /\ pc' = [pc EXCEPT ![e] = "spend"]
        /\ UNCHANGED <<row, outbox, audit, mine, cur, now, limit, queued>>
        /\ history' = [history EXCEPT ![e] = @ \cup {DecisionOf(e)}]
    BY <1>7 DEF append_history, db, local
  <2>2. \A o \in Evaluators : DecisionOf(o)' = DecisionOf(o)
    BY <2>1 DEF DecisionOf
  <2>3. \A o \in Evaluators : pc'[o] = "enqueue" <=> pc[o] = "enqueue"
    BY <2>1 DEF TypeOK
  <2>4. RowOwned'
    BY <2>1 DEF WindowInv, RowOwned
  <2>5. VersionsOrdered'
    BY <2>1, <2>3 DEF WindowInv, VersionsOrdered
  <2>6. AuditFollows'
    BY <2>1, <2>2 DEF WindowInv, AuditFollows, TypeOK
  <2>7. EnforcedHasDecision'
    BY <2>1, <2>3 DEF WindowInv, EnforcedHasDecision, Enforce
  <2> QED BY <2>4, <2>5, <2>6, <2>7 DEF WindowInv
<1>9. ASSUME NEW e \in Evaluators, Commit(e) PROVE WindowInv'
  <2>1. /\ pc[e] = "spend" /\ EndTxn(e)
        /\ outbox' = outbox \cup queued[e] /\ audit' = audit \cup history[e]
    BY <1>9 DEF Commit
  <2>2. \A b \in Budgets :
           row'[b][1] = IF mine[e][b] # NoRow THEN mine[e][b] ELSE row[b][1]
    BY <1>0, <1>9 DEF Commit, TypeOK
  <2>3. /\ pc'[e] = "idle" /\ queued'[e] = {} /\ history'[e] = {}
        /\ \A b \in Budgets : mine'[e][b] = NoRow
        /\ \A o \in Evaluators \ {e} :
              /\ pc'[o] = pc[o] /\ mine'[o] = mine[o] /\ cur'[o] = cur[o]
              /\ queued'[o] = queued[o] /\ history'[o] = history[o]
              /\ now'[o] = now[o] /\ limit'[o] = limit[o]
    BY <2>1 DEF EndTxn, TypeOK
  <2>4. \A o \in Evaluators \ {e}, b \in Budgets :
           mine[o][b] # NoRow => row'[b][1] = row[b][1]
    BY <2>2 DEF WindowInv, RowOwned
  <2>5. RowOwned'
    BY <2>3, <2>4 DEF WindowInv, RowOwned
  <2>6. VersionsOrdered'
    <3>1. ASSUME NEW d \in outbox' PROVE d.version <= row'[d.budget][1].version
      <4>1. /\ d.budget \in Budgets /\ d.version \in Nat
            /\ row[d.budget][1].version \in Nat /\ mine[e][d.budget].version \in Nat
        BY <1>0, <2>1, <3>1 DEF TypeOK, Decision, Row
      <4>2. CASE d \in outbox
        BY <2>2, <4>1, <4>2 DEF WindowInv, VersionsOrdered, RowOwned
      <4>3. CASE d \in queued[e]
        BY <2>2, <4>1, <4>3 DEF WindowInv, VersionsOrdered
      <4> QED BY <2>1, <3>1, <4>2, <4>3
    <3>2. ASSUME NEW o \in Evaluators, NEW d \in queued'[o]
          PROVE  /\ mine'[o][d.budget] # NoRow
                 /\ d.version > row'[d.budget][1].version
                 /\ d.version <= mine'[o][d.budget].version
      <4>1. o # e /\ d \in queued[o] /\ d.budget \in Budgets
        BY <2>3, <3>2 DEF TypeOK, Decision
      <4> QED BY <2>3, <2>4, <4>1 DEF WindowInv, VersionsOrdered
    <3>3. ASSUME NEW o \in Evaluators, pc'[o] = "enqueue"
          PROVE  /\ mine'[o][cur'[o]] # NoRow
                 /\ mine'[o][cur'[o]].version > row'[cur'[o]][1].version
                 /\ \A d \in queued'[o] :
                       d.budget = cur'[o] => d.version < mine'[o][cur'[o]].version
      <4>1. o # e /\ cur[o] \in Budgets
        BY <2>3, <3>3 DEF TypeOK
      <4> QED BY <2>3, <2>4, <3>3, <4>1 DEF WindowInv, VersionsOrdered
    <3> QED BY <3>1, <3>2, <3>3 DEF VersionsOrdered
  <2>7. AuditFollows'
    <3>1. ASSUME NEW o \in Evaluators, o # e PROVE DecisionOf(o)' = DecisionOf(o)
      BY <2>3, <3>1 DEF DecisionOf
    <3> QED BY <2>1, <2>3, <3>1 DEF WindowInv, AuditFollows
  <2>8. EnforcedHasDecision'
    <3>1. ASSUME NEW b \in Budgets, row'[b][1].state = "enforced"
          PROVE  Enforce(outbox', b, row'[b][1].version)
      <4>1. CASE mine[e][b] # NoRow
        <5>1. Enforce(outbox \cup queued[e], b, mine[e][b].version)
          BY <2>1, <2>2, <3>1, <4>1 DEF WindowInv, EnforcedHasDecision
        <5> QED BY <2>1, <2>2, <4>1, <5>1
      <4>2. CASE mine[e][b] = NoRow
        BY <2>1, <2>2, <3>1, <4>2 DEF WindowInv, EnforcedHasDecision, Enforce
      <4> QED BY <4>1, <4>2
    <3>2. ASSUME NEW o \in Evaluators, NEW c \in Budgets, mine'[o][c].state = "enforced",
                 ~(pc'[o] = "enqueue" /\ cur'[o] = c)
          PROVE  Enforce(outbox' \cup queued'[o], c, mine'[o][c].version)
      <4>1. o # e
        BY <2>3, <3>2 DEF NoRow
      <4>2. Enforce(outbox \cup queued[o], c, mine[o][c].version)
        BY <2>3, <3>2, <4>1 DEF WindowInv, EnforcedHasDecision
      <4> QED BY <2>1, <2>3, <4>1, <4>2 DEF Enforce
    <3> QED BY <3>1, <3>2 DEF EnforcedHasDecision
  <2> QED BY <2>5, <2>6, <2>7, <2>8 DEF WindowInv
<1>10. ASSUME NEW e \in Evaluators, Abort(e) PROVE WindowInv'
  <2>1. UNCHANGED <<row, outbox, audit>> /\ EndTxn(e)
    BY <1>10 DEF Abort, db
  <2>2. /\ pc'[e] = "idle" /\ queued'[e] = {} /\ history'[e] = {}
        /\ \A b \in Budgets : mine'[e][b] = NoRow
        /\ \A o \in Evaluators \ {e} :
              /\ pc'[o] = pc[o] /\ mine'[o] = mine[o] /\ cur'[o] = cur[o]
              /\ queued'[o] = queued[o] /\ history'[o] = history[o]
              /\ now'[o] = now[o] /\ limit'[o] = limit[o]
    BY <2>1 DEF EndTxn, TypeOK
  <2>3. RowOwned'
    BY <2>1, <2>2 DEF WindowInv, RowOwned
  <2>4. VersionsOrdered'
    BY <2>1, <2>2 DEF WindowInv, VersionsOrdered
  <2>5. AuditFollows'
    <3>1. \A o \in Evaluators \ {e} : DecisionOf(o)' = DecisionOf(o)
      BY <2>2 DEF DecisionOf
    <3> QED BY <2>1, <2>2, <3>1 DEF WindowInv, AuditFollows
  <2>6. EnforcedHasDecision'
    <3>1. ASSUME NEW o \in Evaluators, NEW c \in Budgets, mine'[o][c].state = "enforced",
                 ~(pc'[o] = "enqueue" /\ cur'[o] = c)
          PROVE  Enforce(outbox' \cup queued'[o], c, mine'[o][c].version)
      <4>1. o # e
        BY <2>2, <3>1 DEF NoRow
      <4> QED BY <2>1, <2>2, <3>1, <4>1 DEF WindowInv, EnforcedHasDecision
    <3> QED BY <2>1, <3>1 DEF WindowInv, EnforcedHasDecision
  <2> QED BY <2>3, <2>4, <2>5, <2>6 DEF WindowInv
<1>11. CASE UNCHANGED <<row, outbox, audit, pc, local, txn>>
  <2>1. RowOwned' /\ VersionsOrdered'
    BY <1>11 DEF local, txn, WindowInv, RowOwned, VersionsOrdered
  <2>2. AuditFollows'
    BY <1>11 DEF local, txn, WindowInv, AuditFollows, DecisionOf
  <2>3. EnforcedHasDecision'
    BY <1>11 DEF local, txn, WindowInv, EnforcedHasDecision, Enforce
  <2> QED BY <2>1, <2>2, <2>3 DEF WindowInv
<1>12. (\E b \in Budgets, c \in Caps : raise_budget_cost_cap(b, c)) \/ NextPeriod
          \/ UNCHANGED vars => UNCHANGED <<row, outbox, audit, pc, local, txn>>
  BY DEF raise_budget_cost_cap, NextPeriod, vars, db
<1> QED
  BY <1>1, <1>2, <1>3, <1>4, <1>5, <1>6, <1>7, <1>8, <1>9, <1>10, <1>11, <1>12
  DEF Next, _evaluate_budget, try_transition_to_enforced, try_transition_to_under

\* As long as all evaluations fall into one budget window, any number of concurrent
\* requests, budgets, cap changes and failures lose no decision: every row that
\* says "enforced" has its decision in the outbox, and the audit history and the
\* outbox agree.  (Across windows this fails: see the BudgetBoundary run.)
THEOREM WindowLosesNoDecision ==
    ASSUME NPeriods = 1
    PROVE  Spec => [](EnforcedIsQueued /\ AuditIsOutbox)
<1>1. Init => TypeOK /\ WindowInv
  BY TypeInit, WindowInit
<1>2. TypeOK /\ WindowInv /\ [Next]_vars => (TypeOK /\ WindowInv)'
  BY TypeStep, WindowStep
<1>3. WindowInv => EnforcedIsQueued /\ AuditIsOutbox
  BY DEF WindowInv, EnforcedHasDecision, Enforce, AuditFollows, EnforcedIsQueued,
         AuditIsOutbox, Periods
<1> QED BY <1>1, <1>2, <1>3, PTL DEF Spec

-----------------------------------------------------------------------------
(* Within one budget window the decisions of a budget alternate *)

Odd(n) == n % 2 = 1

\* A decision enforces exactly when its version is odd.
Edge(d) == d.version > 0 /\ (d.transition = "enforce" <=> Odd(d.version))

\* A state row is enforced exactly when its version is odd: the conditional UPDATE
\* changes both or neither.
InStep(r) == r.state = "enforced" <=> Odd(r.version)

AlternateInv ==
    /\ \A b \in Budgets : InStep(row[b][1])
    /\ \A e \in Evaluators, b \in Budgets : InStep(mine[e][b])
    /\ \A d \in outbox : Edge(d)
    /\ \A e \in Evaluators : \A d \in queued[e] : Edge(d)

\* Odd and even versions follow each other.
LEMMA OddNext ==
    /\ ~Odd(0)
    /\ \A n \in Nat : Odd(n + 1) <=> ~Odd(n)
    /\ \A n \in Nat : Odd(n - 1) <=> ~Odd(n)
BY DEF Odd

\* At the start every row is absent, with version 0.
LEMMA AlternateInit == NPeriods = 1 /\ Init => AlternateInv
BY OddNext, BudgetAssumption DEF Init, AlternateInv, InStep, NoRow, Periods

\* What a transaction sees is in step.
LEMMA AlternateVisible ==
    ASSUME TypeOK, AlternateInv, NPeriods = 1, NEW e \in Evaluators, NEW b \in Budgets
    PROVE  InStep(Visible(e, b))
<1>1. now[e] = 1
  BY DEF TypeOK, Periods
<1> QED BY <1>1 DEF AlternateInv, Visible

\* Writing a row that is in step keeps the invariant.
LEMMA AlternateWrite ==
    ASSUME TypeOK, AlternateInv, UNCHANGED <<row, outbox, queued>>,
           NEW e \in Evaluators, NEW b \in Budgets, NEW r \in Row, InStep(r),
           mine' = [mine EXCEPT ![e][b] = r]
    PROVE  AlternateInv'
<1>1. /\ mine'[e][b] = r
      /\ \A o \in Evaluators, c \in Budgets : o # e \/ c # b => mine'[o][c] = mine[o][c]
  BY WriteType DEF TypeOK
<1>2. \A o \in Evaluators, c \in Budgets : InStep(mine'[o][c])
  BY <1>1 DEF AlternateInv
<1> QED BY <1>2 DEF AlternateInv

\* Within one window every statement, commit and rollback keeps AlternateInv.
LEMMA AlternateStep ==
    ASSUME NPeriods = 1
    PROVE  TypeOK /\ WindowInv /\ AlternateInv /\ [Next]_vars => AlternateInv'
<1> SUFFICES ASSUME TypeOK, WindowInv, AlternateInv, [Next]_vars PROVE AlternateInv'
  OBVIOUS
<1>0. Periods = {1}
  BY DEF Periods
<1>1. CASE UNCHANGED <<row, outbox, mine, queued>>
  BY <1>1 DEF AlternateInv
<1>2. ASSUME NEW e \in Evaluators, get_or_create_state(e) PROVE AlternateInv'
  <2>1. cur[e] \in Budgets /\ UNCHANGED <<row, outbox, queued>>
    BY <1>2 DEF get_or_create_state, TypeOK, db
  <2>2. CASE Visible(e, cur[e]) # NoRow
    BY <1>1, <1>2, <2>1, <2>2 DEF get_or_create_state
  <2>3. CASE Visible(e, cur[e]) = NoRow
    <3>1. PICK v \in {row[cur[e]][q].version : q \in Periods} :
             mine' = [mine EXCEPT ![e][cur[e]] =
                        [state |-> "under", version |-> v, warned |-> 0]]
      BY <1>2, <2>3 DEF get_or_create_state
    <3> DEFINE r == [state |-> "under", version |-> v, warned |-> 0]
    <3>2. row[cur[e]][1] = NoRow /\ v = 0
      BY <1>0, <2>1, <2>3, <3>1 DEF Visible, NoRow, TypeOK
    <3>3. r \in Row /\ r.state = "under" /\ r.version = 0
      BY <3>2 DEF Row
    <3>4. mine' = [mine EXCEPT ![e][cur[e]] = r]
      BY <3>1
    <3> HIDE DEF r
    <3>5. InStep(r)
      BY <3>3, OddNext DEF InStep
    <3> QED BY <2>1, <3>3, <3>4, <3>5, AlternateWrite
  <2> QED BY <2>2, <2>3
<1>3. ASSUME NEW e \in Evaluators, NEW from, NEW to,
             <<from, to>> \in {<<"under", "enforced">>, <<"enforced", "under">>},
             ConditionalTransition(e, from, to)
      PROVE  AlternateInv'
  <2>1. /\ cur[e] \in Budgets /\ Visible(e, cur[e]) \in Row
        /\ UNCHANGED <<row, outbox, queued>>
    BY <1>3, VisibleType DEF TypeOK, ConditionalTransition, db
  <2>2. CASE Visible(e, cur[e]).state = from
    <3> DEFINE r == Flipped(Visible(e, cur[e]), to)
    <3>1. mine' = [mine EXCEPT ![e][cur[e]] = r]
      BY <1>3, <2>2 DEF ConditionalTransition
    <3>2. /\ r \in Row /\ r.version = Visible(e, cur[e]).version + 1 /\ r.state = to
          /\ Visible(e, cur[e]).version \in Nat
      BY <1>3, <2>1 DEF Row, Flipped
    <3> HIDE DEF r
    <3>3. InStep(Visible(e, cur[e]))
      BY <2>1, AlternateVisible
    <3>4. to = "enforced" <=> from # "enforced"
      BY <1>3
    <3>5. InStep(r)
      BY <2>2, <3>2, <3>3, <3>4, OddNext DEF InStep
    <3> QED BY <2>1, <3>1, <3>2, <3>5, AlternateWrite
  <2>3. CASE Visible(e, cur[e]).state # from
    BY <1>1, <1>3, <2>1, <2>3 DEF ConditionalTransition
  <2> QED BY <2>2, <2>3
<1>4. ASSUME NEW e \in Evaluators, try_bump_warned_pct(e) PROVE AlternateInv'
  <2>1. /\ cur[e] \in Budgets /\ Visible(e, cur[e]) \in Row
        /\ UNCHANGED <<row, outbox, queued>>
    BY <1>4, VisibleType DEF try_bump_warned_pct, TypeOK, db
  <2>2. PICK pct \in soft_warning_band(total[e], limit[e][cur[e]]) :
           mine' = IF Visible(e, cur[e]).warned < pct
                   THEN [mine EXCEPT ![e][cur[e]] =
                           [Visible(e, cur[e]) EXCEPT !.warned = pct]]
                   ELSE mine
    BY <1>4 DEF try_bump_warned_pct
  <2> DEFINE r == [Visible(e, cur[e]) EXCEPT !.warned = pct]
  <2>3. pct \in Nat
    BY BudgetAssumption DEF soft_warning_band
  <2>4. /\ r \in Row /\ r.version = Visible(e, cur[e]).version
        /\ r.state = Visible(e, cur[e]).state
    BY <2>1, <2>3 DEF Row
  <2>5. mine' = [mine EXCEPT ![e][cur[e]] = r] \/ mine' = mine
    BY <2>2
  <2> HIDE DEF r
  <2>6. InStep(r)
    BY <2>1, <2>4, AlternateVisible DEF InStep
  <2>7. CASE mine' = [mine EXCEPT ![e][cur[e]] = r]
    BY <2>1, <2>4, <2>6, <2>7, AlternateWrite
  <2>8. CASE mine' = mine
    BY <1>1, <2>1, <2>8
  <2> QED BY <2>5, <2>7, <2>8
<1>5. ASSUME NEW e \in Evaluators, enqueue_decision(e) PROVE AlternateInv'
  <2> DEFINE d == DecisionOf(e)
  <2>1. /\ pc[e] = "enqueue" /\ UNCHANGED <<row, outbox, mine>>
        /\ queued' = queued \/ queued' = [queued EXCEPT ![e] = @ \cup {d}]
    BY <1>5 DEF enqueue_decision, db
  <2>2. /\ cur[e] \in Budgets /\ d.version = mine[e][cur[e]].version
        /\ d.version \in Nat /\ row[cur[e]][1].version \in Nat
    BY <1>0, DecisionType DEF TypeOK, Row
  <2>3. d.transition = "enforce" <=> mine[e][cur[e]].state = "enforced"
    BY DEF DecisionOf
  <2> HIDE DEF d
  <2>4. d.version > row[cur[e]][1].version
    BY <2>1, <2>2 DEF WindowInv, VersionsOrdered
  <2>5. Edge(d)
    <3>1. InStep(mine[e][cur[e]])
      BY <2>2 DEF AlternateInv
    <3> QED BY <2>2, <2>3, <2>4, <3>1 DEF InStep, Edge
  <2>6. \A o \in Evaluators : \A x \in queued'[o] : x \in queued[o] \/ x = d
    <3>1. queued' = queued => \A o \in Evaluators : queued'[o] = queued[o]
      OBVIOUS
    <3>2. queued' = [queued EXCEPT ![e] = @ \cup {d}]
             => \A o \in Evaluators : queued'[o] = queued[o] \cup (IF o = e THEN {d} ELSE {})
      BY DEF TypeOK
    <3>3. \A o \in Evaluators : queued'[o] \subseteq queued[o] \cup {d}
      BY <2>1, <3>1, <3>2
    <3> QED BY <3>3
  <2>7. \A o \in Evaluators : \A x \in queued'[o] : Edge(x)
    BY <2>5, <2>6 DEF AlternateInv
  <2> QED BY <2>1, <2>7 DEF AlternateInv
<1>6. ASSUME NEW e \in Evaluators, EndTxn(e)
      PROVE  /\ \A o \in Evaluators, b \in Budgets : InStep(mine'[o][b])
             /\ \A o \in Evaluators : \A d \in queued'[o] : Edge(d)
  <2>1. /\ queued'[e] = {} /\ \A b \in Budgets : mine'[e][b] = NoRow
        /\ \A o \in Evaluators : o # e => queued'[o] = queued[o] /\ mine'[o] = mine[o]
    BY <1>6 DEF EndTxn, TypeOK
  <2>2. InStep(NoRow)
    BY OddNext DEF InStep, NoRow
  <2> QED BY <2>1, <2>2 DEF AlternateInv
<1>7. ASSUME NEW e \in Evaluators, Commit(e) PROVE AlternateInv'
  <2>1. EndTxn(e) /\ outbox' = outbox \cup queued[e]
    BY <1>7 DEF Commit
  <2>2. \A b \in Budgets : row'[b][1] = mine[e][b] \/ row'[b][1] = row[b][1]
    BY <1>0, <1>7 DEF Commit, TypeOK
  <2>3. \A b \in Budgets : InStep(row'[b][1])
    BY <2>2 DEF AlternateInv
  <2>4. \A d \in outbox' : Edge(d)
    BY <2>1 DEF AlternateInv
  <2> QED BY <1>6, <2>1, <2>3, <2>4 DEF AlternateInv
<1>8. ASSUME NEW e \in Evaluators, Abort(e) PROVE AlternateInv'
  <2>1. EndTxn(e) /\ UNCHANGED <<row, outbox>>
    BY <1>8 DEF Abort, db
  <2> QED BY <1>6, <2>1 DEF AlternateInv
<1>9. ASSUME NEW e \in Evaluators,
             \/ \E s \in Scopes, q \in Periods, cost \in Costs : PostUsage(e, s, q, cost)
             \/ ListBudgets(e)
             \/ \E b \in Budgets : ReadSpend(e, b)
             \/ append_history(e)
      PROVE  AlternateInv'
  BY <1>1, <1>9 DEF PostUsage, ListBudgets, ReadSpend, append_history, db, txn
<1>10. (\E b \in Budgets, c \in Caps : raise_budget_cost_cap(b, c)) \/ NextPeriod
          \/ UNCHANGED vars => UNCHANGED <<row, outbox, mine, queued>>
  BY DEF raise_budget_cost_cap, NextPeriod, vars, db, txn
<1> QED
  BY <1>1, <1>2, <1>3, <1>4, <1>5, <1>7, <1>8, <1>9, <1>10
  DEF Next, _evaluate_budget, try_transition_to_enforced, try_transition_to_under

\* Within one window, for any number of concurrent requests, an enforce and a refresh
\* of a budget alternate, with consecutive versions, starting with an enforce: the
\* conditional UPDATE lets exactly one request publish each edge.
THEOREM WindowDecisionsAlternate ==
    ASSUME NPeriods = 1
    PROVE  Spec => []DecisionsAlternate
<1>1. Init => TypeOK /\ GapInv /\ WindowInv /\ AlternateInv
  BY TypeInit, GapInit, WindowInit, AlternateInit
<1>2. TypeOK /\ GapInv /\ WindowInv /\ AlternateInv /\ [Next]_vars
         => (TypeOK /\ GapInv /\ WindowInv /\ AlternateInv)'
  BY TypeStep, GapStep, WindowStep, AlternateStep
<1>3. TypeOK /\ GapInv /\ AlternateInv => DecisionsAlternate
  <2> SUFFICES ASSUME TypeOK, GapInv, AlternateInv, NEW d \in outbox
               PROVE  (\E o \in outbox : /\ o.budget = d.budget
                                        /\ o.period = d.period
                                        /\ o.version = d.version - 1
                                        /\ o.transition = "enforce")
                      <=> d.transition = "refresh"
    BY DEF DecisionsAlternate
  <2>1. \A o \in outbox : /\ o.version \in Nat /\ o.period = 1
                          /\ o.transition \in {"enforce", "refresh"} /\ Edge(o)
    BY DEF TypeOK, Decision, Periods, AlternateInv
  <2>2. d.transition = "refresh" <=> ~Odd(d.version)
    BY <2>1 DEF Edge
  <2>3. Odd(d.version - 1) <=> ~Odd(d.version)
    BY <2>1, OddNext
  <2>4. ASSUME NEW o \in outbox, o.version = d.version - 1, o.transition = "enforce"
        PROVE  d.transition = "refresh"
    BY <2>1, <2>2, <2>3, <2>4 DEF Edge
  <2>5. ASSUME d.transition = "refresh"
        PROVE  \E o \in outbox : /\ o.budget = d.budget /\ o.period = d.period
                                 /\ o.version = d.version - 1 /\ o.transition = "enforce"
    <3>1. d.version # 1
      <4>1. Odd(1)
        BY DEF Odd
      <4> QED BY <2>2, <2>5, <4>1
    <3>2. d.version - 1 \in 1..d.version
      BY <2>1, <3>1 DEF Edge
    <3>3. PICK o \in outbox : o.budget = d.budget /\ o.version = d.version - 1
      BY <3>2 DEF GapInv, VersionsGapFree, Has
    <3>4. o.transition = "enforce"
      BY <2>1, <2>2, <2>3, <2>5, <3>3 DEF Edge
    <3> QED BY <2>1, <3>3, <3>4
  <2> QED BY <2>4, <2>5
<1> QED BY <1>1, <1>2, <1>3, PTL DEF Spec

-----------------------------------------------------------------------------
(* Evaluations that nothing overlaps *)

\* What e sees of a budget agrees with the spend of its window and the cap it read.
Right(e, b) ==
    Visible(e, b).state = "enforced" <=> is_over_cost_cap(spend[b][now[e]], limit[e][b])

\* Between reading the spend of a budget and acting on it.
Undecided(e) == pc[e] \in {"state", "enforce", "refresh"}

\* One evaluation at a time, and outside an evaluation nothing is uncommitted.
OneAtATime ==
    /\ \A e, o \in Evaluators : pc[e] # "idle" /\ pc[o] # "idle" => e = o
    /\ \A e \in Evaluators : pc[e] \in {"idle", "list"} => \A b \in Budgets : mine[e][b] = NoRow

\* A row that exists says something.
RowsSaySo ==
    /\ \A b \in Budgets, q \in Periods : row[b][q] # NoRow => row[b][q].state # "none"
    /\ \A e \in Evaluators, b \in Budgets : mine[e][b] # NoRow => mine[e][b].state # "none"

\* What an evaluation has behind it is right, and what it is about to do will make the
\* current budget right.
Done(e) ==
    /\ pc[e] = "list" => todo[e] = Budgets
    /\ pc[e] \notin {"idle", "list"} =>
          \A b \in Budgets \ todo[e] : Right(e, b) \/ (Undecided(e) /\ b = cur[e])
    /\ \A b \in Budgets : b = cur[e] =>
          /\ Undecided(e) => total[e] = spend[b][now[e]]
          /\ pc[e] = "enforce" => /\ Visible(e, b).state = "under"
                                  /\ is_over_cost_cap(total[e], limit[e][b])
          /\ pc[e] = "refresh" => /\ Visible(e, b).state = "enforced"
                                  /\ ~is_over_cost_cap(total[e], limit[e][b])
          /\ pc[e] = "warn" => Visible(e, b).state # "none"

SerialOK == OneAtATime /\ RowsSaySo /\ \A e \in Evaluators : Done(e)

SerialInv == TypeOK /\ (unit = "serial" => SerialOK)

\* A step of e while the others are idle: only what concerns e is to be shown.
LEMMA SerialFrame ==
    ASSUME SerialOK, NEW e \in Evaluators,
           \A o \in Evaluators \ {e} : pc[o] = "idle" /\ pc'[o] = "idle" /\ mine'[o] = mine[o],
           \A b \in Budgets, q \in Periods : row'[b][q] # NoRow => row'[b][q].state # "none",
           \A b \in Budgets : mine'[e][b] # NoRow => mine'[e][b].state # "none",
           pc'[e] \in {"idle", "list"} => \A b \in Budgets : mine'[e][b] = NoRow,
           Done(e)'
    PROVE  SerialOK'
<1>1. OneAtATime'
  BY DEF SerialOK, OneAtATime
<1>2. RowsSaySo'
  BY DEF SerialOK, RowsSaySo
<1>3. ASSUME NEW o \in Evaluators, o # e PROVE Done(o)'
  BY <1>3 DEF Done, Undecided
<1> QED BY <1>1, <1>2, <1>3 DEF SerialOK

\* What is seen of a budget that the step does not touch stays as it was.
LEMMA RightStays ==
    ASSUME NEW e \in Evaluators, NEW b \in Budgets, UNCHANGED <<row, spend>>,
           mine'[e][b] = mine[e][b], now'[e] = now[e], limit'[e] = limit[e]
    PROVE  (Right(e, b))' <=> Right(e, b)
BY DEF Right, Visible

\* A visible row is written or committed, and says something.
LEMMA VisibleSaysSo ==
    ASSUME TypeOK, SerialOK, NEW e \in Evaluators, NEW b \in Budgets, Visible(e, b) # NoRow
    PROVE  Visible(e, b).state # "none"
BY DEF TypeOK, SerialOK, RowsSaySo, Visible

\* One step of the only evaluation in progress.
LEMMA SerialEvaluates ==
    ASSUME TypeOK, TypeOK', SerialOK, NEW e \in Evaluators,
           \A o \in Evaluators \ {e} : pc[o] = "idle", EvaluatorStep(e, AllBudgets, Periods)
    PROVE  SerialOK'
<1>0. /\ OneAtATime /\ RowsSaySo /\ Done(e)
      /\ \A b \in Budgets : pc[e] \in {"idle", "list"} => mine[e][b] = NoRow
  BY DEF SerialOK, OneAtATime
<1>t. /\ cur[e] \in Budgets /\ now[e] \in Periods /\ todo[e] \in SUBSET Budgets
      /\ \A b \in Budgets : mine[e][b] \in Row /\ Visible(e, b) \in Row
  BY VisibleType DEF TypeOK
\* Actions that neither write rows nor end the transaction.
<1>f. ASSUME UNCHANGED <<row, mine>>, \A o \in Evaluators \ {e} : pc'[o] = "idle",
             pc'[e] = "idle" => pc[e] = "idle", pc'[e] = "list" => pc[e] = "idle", Done(e)'
      PROVE  SerialOK'
  <2>1. \A o \in Evaluators \ {e} : pc[o] = "idle" /\ pc'[o] = "idle" /\ mine'[o] = mine[o]
    BY <1>f
  <2>2. \A b \in Budgets, q \in Periods : row'[b][q] # NoRow => row'[b][q].state # "none"
    BY <1>f, <1>0 DEF RowsSaySo
  <2>3. \A b \in Budgets : mine'[e][b] # NoRow => mine'[e][b].state # "none"
    BY <1>f, <1>0 DEF RowsSaySo
  <2>4. pc'[e] \in {"idle", "list"} => \A b \in Budgets : mine'[e][b] = NoRow
    BY <1>f, <1>0
  <2> QED BY <1>f, <2>1, <2>2, <2>3, <2>4, SerialFrame
\* Actions that write the current budget's row and leave it right.
<1>w. ASSUME NEW r \in Row, r.state # "none", mine' = [mine EXCEPT ![e][cur[e]] = r],
             NEW at \in PCs, at \notin {"idle", "list"}, pc' = [pc EXCEPT ![e] = at],
             UNCHANGED <<db, local>>
      PROVE  /\ Visible(e, cur[e])' = r
             /\ Done(e)' => SerialOK'
             /\ \A b \in Budgets : b # cur[e] => (Right(e, b)' <=> Right(e, b))
  <2>0. /\ \A o \in Evaluators \ {e} : mine'[o] = mine[o]
        /\ mine'[e][cur[e]] = r /\ \A b \in Budgets : b # cur[e] => mine'[e][b] = mine[e][b]
        /\ pc'[e] = at /\ \A o \in Evaluators \ {e} : pc'[o] = "idle"
        /\ row' = row /\ spend' = spend /\ cur' = cur /\ now' = now /\ limit' = limit
    BY <1>w, <1>t DEF TypeOK, db, local
  <2>1. r # NoRow
    BY <1>w DEF NoRow
  <2>2. Visible(e, cur[e])' = r
    BY <2>0, <2>1 DEF Visible
  <2>3. \A b \in Budgets : b # cur[e] => (Right(e, b)' <=> Right(e, b))
    BY <2>0, RightStays
  <2>4. ASSUME Done(e)' PROVE SerialOK'
    <3>2. \A b \in Budgets, q \in Periods : row'[b][q] # NoRow => row'[b][q].state # "none"
      BY <2>0, <1>0 DEF RowsSaySo
    <3>3. \A b \in Budgets : mine'[e][b] # NoRow => mine'[e][b].state # "none"
      BY <1>w, <2>0, <1>0 DEF RowsSaySo
    <3> QED BY <2>0, <2>4, <3>2, <3>3, <1>w, SerialFrame
  <2> QED BY <2>2, <2>3, <2>4
<1>1. ASSUME NEW s \in AllBudgets, NEW q \in Periods, NEW cost \in Costs, PostUsage(e, s, q, cost)
      PROVE  SerialOK'
  <2>1. /\ UNCHANGED <<row, mine>> /\ pc[e] = "idle" /\ pc'[e] = "list" /\ todo'[e] = Budgets
        /\ \A o \in Evaluators \ {e} : pc'[o] = "idle"
    BY <1>1 DEF PostUsage, AllBudgets, TypeOK, txn
  <2>2. Done(e)'
    BY <2>1 DEF Done, Undecided
  <2> QED BY <2>1, <2>2, <1>f
<1>2. ASSUME ListBudgets(e) PROVE SerialOK'
  <2>1. /\ UNCHANGED <<row, mine>> /\ pc[e] = "list" /\ pc'[e] = "spend" /\ todo'[e] = todo[e]
        /\ \A o \in Evaluators \ {e} : pc'[o] = "idle"
    BY <1>2 DEF ListBudgets, TypeOK, db, txn
  <2>2. Done(e)'
    BY <2>1, <1>0 DEF Done, Undecided
  <2> QED BY <2>1, <2>2, <1>f
<1>3. ASSUME NEW b \in Budgets, ReadSpend(e, b) PROVE SerialOK'
  <2>1. /\ UNCHANGED <<row, mine, spend, now, limit>> /\ pc[e] = "spend" /\ pc'[e] = "state"
        /\ \A o \in Evaluators \ {e} : pc'[o] = "idle"
        /\ todo'[e] = todo[e] \ {b} /\ cur'[e] = b /\ total'[e] = spend[b][now[e]]
    BY <1>3 DEF ReadSpend, TypeOK, db, txn
  <2>2. \A c \in Budgets \ todo[e] : Right(e, c)'
    BY <2>1, <1>0, RightStays DEF Done, Undecided
  <2>3. Done(e)'
    BY <2>1, <2>2 DEF Done, Undecided
  <2> QED BY <2>1, <2>3, <1>f
<1>4. ASSUME pc[e] \in {"enqueue", "audit"},
             pc' = [pc EXCEPT ![e] = "audit"] \/ pc' = [pc EXCEPT ![e] = "spend"],
             UNCHANGED <<db, local, mine>>
      PROVE  SerialOK'
  <2>1. /\ UNCHANGED <<row, mine, spend, now, limit, cur, todo, total>> /\ pc'[e] \in {"audit", "spend"}
        /\ \A o \in Evaluators \ {e} : pc'[o] = "idle"
    BY <1>4 DEF TypeOK, db, local
  <2>2. \A c \in Budgets \ todo[e] : Right(e, c)'
    BY <2>1, <1>4, <1>0, RightStays DEF Done, Undecided
  <2>3. Done(e)'
    BY <2>1, <2>2 DEF Done, Undecided
  <2> QED BY <2>1, <2>3, <1>f, <1>4
<1>5. ASSUME enqueue_decision(e) PROVE SerialOK'
  BY <1>5, <1>4 DEF enqueue_decision
<1>6. ASSUME append_history(e) PROVE SerialOK'
  BY <1>6, <1>4 DEF append_history
<1>7. ASSUME get_or_create_state(e) PROVE SerialOK'
  <2> DEFINE over == is_over_cost_cap(total[e], limit[e][cur[e]])
  <2>0. PICK r \in Row :
           /\ r.state # "none" /\ pc' = [pc EXCEPT ![e] = Branch(e, r)]
           /\ \/ r = Visible(e, cur[e]) /\ UNCHANGED mine
              \/ mine' = [mine EXCEPT ![e][cur[e]] = r]
    <3>1. CASE /\ Visible(e, cur[e]) # NoRow /\ UNCHANGED mine
               /\ pc' = [pc EXCEPT ![e] = Branch(e, Visible(e, cur[e]))]
      BY <3>1, <1>t, VisibleSaysSo
    <3>2. ASSUME NEW v \in {row[cur[e]][q].version : q \in Periods},
                 mine' = [mine EXCEPT ![e][cur[e]] = [state |-> "under", version |-> v, warned |-> 0]],
                 pc' = [pc EXCEPT ![e] = Branch(e, [state |-> "under", version |-> v, warned |-> 0])]
          PROVE  \E r \in Row :
                    /\ r.state # "none" /\ pc' = [pc EXCEPT ![e] = Branch(e, r)]
                    /\ \/ r = Visible(e, cur[e]) /\ UNCHANGED mine
                       \/ mine' = [mine EXCEPT ![e][cur[e]] = r]
      <4> DEFINE n == [state |-> "under", version |-> v, warned |-> 0]
      <4>1. v \in Nat
        BY <1>t DEF TypeOK, Row
      <4>2. n \in Row /\ n.state # "none"
        BY <4>1 DEF Row
      <4>3. pc' = [pc EXCEPT ![e] = Branch(e, n)] /\ mine' = [mine EXCEPT ![e][cur[e]] = n]
        BY <3>2
      <4> HIDE DEF n
      <4> QED BY <4>2, <4>3
    <3> QED BY <1>7, <3>1, <3>2 DEF get_or_create_state
  <2>1. /\ pc[e] = "state" /\ UNCHANGED <<db, local>>
    BY <1>7 DEF get_or_create_state
  <2>2. /\ Branch(e, r) \in {"enforce", "refresh", "warn", "spend"}
        /\ Branch(e, r) = "enforce" => over /\ r.state = "under"
        /\ Branch(e, r) = "refresh" => ~over /\ r.state = "enforced"
        /\ Branch(e, r) \in {"warn", "spend"} => (r.state = "enforced" <=> over)
    <3>1. r.state \in {"under", "enforced"}
      BY <2>0 DEF Row
    <3> QED BY <3>1 DEF Branch
  <2>3. /\ UNCHANGED <<row, spend, now, limit, cur, todo, total>> /\ pc'[e] = Branch(e, r)
        /\ \A o \in Evaluators \ {e} : pc'[o] = "idle"
    BY <2>0, <2>1 DEF TypeOK, db, local
  <2>4. total[e] = spend[cur[e]][now[e]]
    BY <2>1, <1>0, <1>t DEF Done, Undecided
  <2> HIDE DEF over
  <2>5. /\ Visible(e, cur[e])' = r
        /\ \A b \in Budgets : b # cur[e] => (Right(e, b)' <=> Right(e, b))
        /\ Done(e)' => SerialOK'
    <3>1. CASE r = Visible(e, cur[e]) /\ UNCHANGED mine
      <4>1. Visible(e, cur[e])' = r
        BY <3>1, <2>3 DEF Visible
      <4>2. \A b \in Budgets : b # cur[e] => (Right(e, b)' <=> Right(e, b))
        BY <3>1, <2>3, RightStays
      <4>3. Done(e)' => SerialOK'
        BY <3>1, <2>2, <2>3, <1>f
      <4> QED BY <4>1, <4>2, <4>3
    <3>2. CASE mine' = [mine EXCEPT ![e][cur[e]] = r]
      BY <3>2, <2>0, <2>1, <2>2, <1>w DEF PCs
    <3> QED BY <2>0, <3>1, <3>2
  <2>6. \A b \in Budgets \ todo[e] : b # cur[e] => Right(e, b)'
    BY <2>1, <2>5, <1>0 DEF Done
  <2>7. Branch(e, r) \in {"warn", "spend"} => Right(e, cur[e])'
    BY <2>2, <2>3, <2>4, <2>5 DEF Right, over
  <2>8. Done(e)'
    <3>1. \A b \in Budgets \ todo'[e] : Right(e, b)' \/ (Undecided(e)' /\ b = cur'[e])
      BY <2>2, <2>3, <2>6, <2>7 DEF Undecided
    <3>2. ASSUME NEW b \in Budgets, b = cur'[e]
          PROVE  /\ Undecided(e)' => total'[e] = spend'[b][now'[e]]
                 /\ pc'[e] = "enforce" => /\ Visible(e, b)'.state = "under"
                                          /\ is_over_cost_cap(total'[e], limit'[e][b])
                 /\ pc'[e] = "refresh" => /\ Visible(e, b)'.state = "enforced"
                                          /\ ~is_over_cost_cap(total'[e], limit'[e][b])
                 /\ pc'[e] = "warn" => Visible(e, b)'.state # "none"
      <4>1. b = cur[e] /\ Visible(e, b)' = r
        BY <3>2, <2>3, <2>5 DEF Visible
      <4> QED BY <4>1, <2>0, <2>2, <2>3, <2>4 DEF over
    <3>3. pc'[e] # "list"
      BY <2>2, <2>3
    <3> QED BY <3>1, <3>2, <3>3 DEF Done, is_over_cost_cap
  <2> QED BY <2>5, <2>8
<1>8. ASSUME NEW from, NEW to \in {"under", "enforced"}, ConditionalTransition(e, from, to),
             \/ pc[e] = "enforce" /\ from = "under" /\ to = "enforced"
             \/ pc[e] = "refresh" /\ from = "enforced" /\ to = "under"
      PROVE  SerialOK'
  <2>1. /\ Visible(e, cur[e]).state = from /\ total[e] = spend[cur[e]][now[e]]
        /\ to = "enforced" <=> is_over_cost_cap(total[e], limit[e][cur[e]])
    BY <1>8, <1>0, <1>t DEF Done, Undecided
  <2> DEFINE r == Flipped(Visible(e, cur[e]), to)
  <2>2. r \in Row /\ r.state = to
    BY <1>t DEF Flipped, Row
  <2>3. /\ mine' = [mine EXCEPT ![e][cur[e]] = r] /\ pc' = [pc EXCEPT ![e] = "enqueue"]
        /\ UNCHANGED <<db, local>>
    BY <1>8, <2>1 DEF ConditionalTransition
  <2> HIDE DEF r
  <2>4. /\ Visible(e, cur[e])' = r
        /\ \A b \in Budgets : b # cur[e] => (Right(e, b)' <=> Right(e, b))
        /\ Done(e)' => SerialOK'
    BY <2>2, <2>3, <1>w DEF PCs
  <2>5. UNCHANGED <<spend, now, limit, cur, todo, total>> /\ pc'[e] = "enqueue"
    BY <2>3 DEF db, local, TypeOK
  <2>6. Right(e, cur[e])'
    BY <2>1, <2>2, <2>4, <2>5 DEF Right
  <2>7. \A b \in Budgets \ todo[e] : Right(e, b)'
    <3>1. \A b \in Budgets : b = cur[e] => Right(e, b)'
      BY <2>6, <2>5 DEF Right, Visible
    <3>2. \A b \in Budgets \ todo[e] : b # cur[e] => Right(e, b)
      BY <1>0, <1>8 DEF Done
    <3> QED BY <3>1, <3>2, <2>4
  <2>8. Done(e)'
    BY <2>5, <2>7 DEF Done, Undecided
  <2> QED BY <2>4, <2>8
<1>9. ASSUME try_bump_warned_pct(e) PROVE SerialOK'
  <2>0. /\ pc[e] = "warn" /\ UNCHANGED <<db, local>> /\ pc' = [pc EXCEPT ![e] = "spend"]
        /\ Visible(e, cur[e]).state # "none"
    BY <1>9, <1>0, <1>t DEF try_bump_warned_pct, Done, Undecided
  <2>1. PICK pct \in soft_warning_band(total[e], limit[e][cur[e]]) :
           mine' = IF Visible(e, cur[e]).warned < pct
                   THEN [mine EXCEPT ![e][cur[e]] = [Visible(e, cur[e]) EXCEPT !.warned = pct]]
                   ELSE mine
    BY <1>9 DEF try_bump_warned_pct
  <2>2. UNCHANGED <<row, spend, now, limit, cur, todo, total>> /\ pc'[e] = "spend"
        /\ \A o \in Evaluators \ {e} : pc'[o] = "idle"
    BY <2>0 DEF db, local, TypeOK
  <2> DEFINE r == [Visible(e, cur[e]) EXCEPT !.warned = pct]
  <2>3. pct \in Nat
    <3>1. pct \in Bands
      BY <2>1 DEF soft_warning_band
    <3> QED BY <3>1, BudgetAssumption
  <2>4. r \in Row /\ r.state = Visible(e, cur[e]).state
    BY <2>3, <1>t DEF Row
  <2>5. /\ \A b \in Budgets : b # cur[e] => (Right(e, b)' <=> Right(e, b))
        /\ Visible(e, cur[e])'.state = Visible(e, cur[e]).state
        /\ Done(e)' => SerialOK'
    <3>1. CASE mine' = mine
      <4>1. \A b \in Budgets : Right(e, b)' <=> Right(e, b)
        BY <3>1, <2>2, RightStays
      <4>2. Visible(e, cur[e])' = Visible(e, cur[e])
        BY <3>1, <2>2 DEF Visible
      <4> QED BY <3>1, <4>1, <4>2, <2>2, <1>f
    <3>2. CASE mine' = [mine EXCEPT ![e][cur[e]] = r]
      <4> HIDE DEF r
      <4> QED BY <3>2, <2>0, <2>4, <1>w DEF PCs
    <3> QED BY <2>1, <3>1, <3>2
  <2> HIDE DEF r
  <2>6. Right(e, cur[e])' <=> Right(e, cur[e])
    BY <2>5, <2>2 DEF Right
  <2>7. \A b \in Budgets \ todo[e] : Right(e, b)'
    <3>1. \A b \in Budgets \ todo[e] : Right(e, b)
      BY <2>0, <1>0 DEF Done, Undecided
    <3>2. \A b \in Budgets : b = cur[e] /\ Right(e, b) => Right(e, b)'
      BY <2>6, <2>2 DEF Right, Visible
    <3> QED BY <3>1, <3>2, <2>5
  <2>8. Done(e)'
    BY <2>2, <2>7 DEF Done, Undecided
  <2> QED BY <2>5, <2>8
\* The end of the transaction.
<1>10. ASSUME EndTxn(e),
              \A b \in Budgets, q \in Periods : row'[b][q] # NoRow => row'[b][q].state # "none"
       PROVE  SerialOK'
  <2>1. /\ pc'[e] = "idle" /\ \A b \in Budgets : mine'[e][b] = NoRow
        /\ \A o \in Evaluators \ {e} : pc'[o] = pc[o] /\ mine'[o] = mine[o]
    BY <1>10 DEF EndTxn, TypeOK
  <2>2. Done(e)'
    BY <2>1 DEF Done, Undecided
  <2> QED BY <1>10, <2>1, <2>2, SerialFrame
<1>11. ASSUME Commit(e) PROVE SerialOK'
  <2>1. \A b \in Budgets, q \in Periods :
           row'[b][q] = IF mine[e][b] # NoRow /\ q = now[e] THEN mine[e][b] ELSE row[b][q]
    BY <1>11 DEF Commit, TypeOK
  <2>2. \A b \in Budgets, q \in Periods : row'[b][q] # NoRow => row'[b][q].state # "none"
    BY <2>1, <1>0 DEF RowsSaySo
  <2> QED BY <1>11, <2>2, <1>10 DEF Commit
<1>12. ASSUME Abort(e) PROVE SerialOK'
  <2>1. UNCHANGED row /\ EndTxn(e)
    BY <1>12 DEF Abort, db
  <2> QED BY <2>1, <1>0, <1>10 DEF RowsSaySo
<1>13. ASSUME _evaluate_budget(e) PROVE SerialOK'
  BY <1>13, <1>3, <1>5, <1>6, <1>7, <1>8, <1>9
     DEF _evaluate_budget, try_transition_to_enforced, try_transition_to_under
<1> QED BY <1>1, <1>2, <1>11, <1>12, <1>13 DEF EvaluatorStep

\* The composition's steps are steps of the engine.
LEMMA DeltaTakesEngineSteps == DeltaNext => [Next]_vars
<1>1. AllBudgets \subseteq AnyBudgets
  BY BudgetAssumption DEF AllBudgets, AnyBudgets
<1>2. 1 \in Periods
  BY BudgetAssumption DEF Periods
<1>3. ASSUME NEW e \in Evaluators, NEW scopes \in SUBSET AnyBudgets, NEW periods \in SUBSET Periods,
             EvaluatorStep(e, scopes, periods)
      PROVE  Next
  BY <1>3, DeltaAssumption DEF EvaluatorStep, Next
<1>4. Window => Next
  BY <1>2, <1>3, DeltaAssumption DEF Window, Next
<1>5. Serial => Next
  BY <1>1, <1>3 DEF Serial, Next
<1> QED BY <1>4, <1>5 DEF DeltaNext, Rest

\* The invariant holds at first.
LEMMA SerialStarts == DeltaInit => SerialInv
<1> SUFFICES ASSUME DeltaInit PROVE SerialInv
  OBVIOUS
<1>1. TypeOK
  BY TypeInit DEF DeltaInit
<1>2. OneAtATime /\ RowsSaySo
  BY DEF DeltaInit, Init, OneAtATime, RowsSaySo
<1>3. \A e \in Evaluators : Done(e)
  BY DEF DeltaInit, Init, Done, Undecided
<1> QED BY <1>1, <1>2, <1>3 DEF SerialInv, SerialOK

\* Every step keeps it: the evaluation in progress, a raised cap, a new window.
LEMMA SerialSteps == SerialInv /\ [DeltaNext]_deltaVars => SerialInv'
<1> SUFFICES ASSUME SerialInv, [DeltaNext]_deltaVars PROVE SerialInv'
  OBVIOUS
<1>1. TypeOK /\ TypeOK'
  <2>1. [Next]_vars
    BY DeltaTakesEngineSteps DEF deltaVars
  <2> QED BY <2>1, TypeStep DEF SerialInv
<1> SUFFICES ASSUME unit' = "serial" PROVE SerialOK'
  BY <1>1 DEF SerialInv
<1>2. unit = "serial" /\ SerialOK
  BY DEF SerialInv, DeltaNext, deltaVars
<1>3. ASSUME UNCHANGED <<row, mine, pc, spend, now, limit, cur, todo, total>> PROVE SerialOK'
  <2>1. OneAtATime' /\ RowsSaySo'
    BY <1>2, <1>3 DEF SerialOK, OneAtATime, RowsSaySo
  <2>2. \A e \in Evaluators : Done(e)'
    BY <1>2, <1>3 DEF SerialOK, Done, Undecided, Right, Visible, is_over_cost_cap
  <2> QED BY <2>1, <2>2 DEF SerialOK
<1>4. CASE Serial
  <2>1. ASSUME NEW b \in Budgets, NEW c \in Caps, raise_budget_cost_cap(b, c) PROVE SerialOK'
    BY <2>1, <1>3 DEF raise_budget_cost_cap, local, txn
  <2>2. ASSUME NextPeriod PROVE SerialOK'
    BY <2>2, <1>3 DEF NextPeriod, local, txn
  <2> QED BY <1>1, <1>2, <1>4, <2>1, <2>2, SerialEvaluates DEF Serial
<1>5. CASE UNCHANGED vars
  BY <1>5, <1>3 DEF vars, db, local, txn
<1> QED BY <1>2, <1>4, <1>5 DEF DeltaNext, Window, Rest, deltaVars

\* A commit of an evaluation that nothing overlaps, with the caps it read still current,
\* leaves every budget of its window enforced exactly when its spend is over its cap,
\* however windows and caps changed before (_evaluate_budget).
THEOREM SerialCommitsSettle == DeltaSpec => CommitSettles
<1>1. ASSUME SerialInv, unit = "serial", NEW e \in Evaluators PROVE Settled(e)
  <2> SUFFICES ASSUME Commit(e), limit[e] = cap, NEW b \in Budgets
               PROVE  row'[b][now[e]].state = "enforced"
                         <=> is_over_cost_cap(spend[b][now[e]], cap[b])
    BY DEF Settled
  <2>1. pc[e] = "spend" /\ todo[e] = {} /\ row'[b][now[e]] = Visible(e, b)
    BY <1>1 DEF Commit, Visible, SerialInv, TypeOK
  <2>2. Right(e, b)
    BY <2>1, <1>1 DEF SerialInv, SerialOK, Done, Undecided
  <2> QED BY <2>1, <2>2 DEF Right
<1>2. SerialInv => (unit = "serial" => \A e \in Evaluators : Settled(e))
  BY <1>1
<1> QED BY <1>2, SerialStarts, SerialSteps, PTL DEF DeltaSpec, CommitSettles
=============================================================================
