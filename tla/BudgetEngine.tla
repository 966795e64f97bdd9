---------------------------- MODULE BudgetEngine ----------------------------
(***************************************************************************)
(* Delta's budget engine: the evaluation that runs after every usage debit *)
(* (Delta/src/delta/budget_engine/).  Each evaluation is one READ          *)
(* COMMITTED transaction over the budgets its event touches; the model     *)
(* takes one step per SQL statement, so that concurrent requests           *)
(* interleave between statements as they do on Postgres.                   *)
(*                                                                         *)
(* One tenant is modelled: row level security keeps tenants apart.         *)
(***************************************************************************)
EXTENDS Integers, FiniteSets

CONSTANTS
    Evaluators,     \* concurrent ingest requests
    Budgets,        \* budget definitions of the tenant
    NPeriods,       \* budget windows 1..NPeriods the clock passes through
    InitCap,        \* limit_cost_cents of every budget at the start
    Caps,           \* values raise_budget_cost_cap may set
    MaxRaises,      \* bound on the number of raise_budget_cost_cap calls
    Scopes,         \* the sets of budgets one event may touch
    Costs,          \* cost of an event in cents; 0 is an idempotent replay
    MaxSpend,       \* bound on the spend of a budget in one window
    Bands           \* settings.soft_warning_pcts

NoLimit == -1       \* limit_cost_cents is None: a token-only budget

ASSUME BudgetAssumption ==
    /\ Budgets # {}
    /\ NPeriods \in Nat \ {0}
    /\ InitCap \in [Budgets -> Nat \cup {NoLimit}]
    /\ Caps \subseteq Nat
    /\ MaxRaises \in Nat
    /\ Scopes \subseteq SUBSET Budgets
    /\ Costs \subseteq Nat
    /\ MaxSpend \in Nat
    /\ Bands \subseteq Nat

Periods == 1..NPeriods

(***************************************************************************)
(* A row of budget_enforcement_state.  enforced_policy_version equals      *)
(* version while the state is "enforced" and is NULL otherwise, so it is   *)
(* not kept; warned = 0 is last_warned_pct NULL.                           *)
(***************************************************************************)
Row == [state : {"none", "under", "enforced"}, version : Nat, warned : Nat]
NoRow == [state |-> "none", version |-> 0, warned |-> 0]

(***************************************************************************)
(* A row of budget_publish_outbox, reduced to its identity and payload:    *)
(* effective_from is represented by the period, the caps by limit.         *)
(***************************************************************************)
Decision == [budget : Budgets, period : Periods, version : Nat,
             transition : {"enforce", "refresh"}, limit : Nat \cup {NoLimit}]

VARIABLES
    clock,      \* the current budget window
    spend,      \* spend[b][q]: net expense of budget b's scope in window q
    cap,        \* cap[b]: limit_cost_cents in budget_definitions
    raises,     \* number of raise_budget_cost_cap calls so far
    row,        \* row[b][q]: committed budget_enforcement_state
    outbox,     \* committed budget_publish_outbox
    audit,      \* committed budget_enforcement entries of change_history
    pc,         \* pc[e]: the next statement of request e
    now,        \* now[e]: the window of datetime.now() in _evaluate
    todo,       \* todo[e]: budgets still to evaluate
    cur,        \* cur[e]: the budget under evaluation
    limit,      \* limit[e]: the caps read by budgets_for_event
    total,      \* total[e]: what scope_spend_cents returned
    mine,       \* mine[e][b]: uncommitted version of row[b][now[e]], or NoRow
    queued,     \* queued[e]: uncommitted outbox rows
    history     \* history[e]: uncommitted change_history entries

\* The value of cur[e] outside an evaluation.
AnyBudget == CHOOSE b \in Budgets : TRUE

db == <<clock, spend, cap, raises, row, outbox, audit>>
local == <<now, todo, cur, limit, total>>
txn == <<mine, queued, history>>
vars == <<db, pc, local, txn>>

PCs == {"idle", "list", "spend", "state", "enforce", "refresh", "enqueue",
        "audit", "warn"}

TypeOK ==
    /\ clock \in Periods
    /\ spend \in [Budgets -> [Periods -> Nat]]
    /\ cap \in [Budgets -> Nat \cup {NoLimit}]
    /\ raises \in 0..MaxRaises
    /\ row \in [Budgets -> [Periods -> Row]]
    /\ outbox \subseteq Decision
    /\ audit \subseteq Decision
    /\ pc \in [Evaluators -> PCs]
    /\ now \in [Evaluators -> Periods]
    /\ todo \in [Evaluators -> SUBSET Budgets]
    /\ cur \in [Evaluators -> Budgets]
    /\ limit \in [Evaluators -> [Budgets -> Nat \cup {NoLimit}]]
    /\ total \in [Evaluators -> Nat]
    /\ mine \in [Evaluators -> [Budgets -> Row]]
    /\ queued \in [Evaluators -> SUBSET Decision]
    /\ history \in [Evaluators -> SUBSET Decision]

Init ==
    /\ clock = 1
    /\ spend = [b \in Budgets |-> [q \in Periods |-> 0]]
    /\ cap = InitCap
    /\ raises = 0
    /\ row = [b \in Budgets |-> [q \in Periods |-> NoRow]]
    /\ outbox = {}
    /\ audit = {}
    /\ pc = [e \in Evaluators |-> "idle"]
    /\ now = [e \in Evaluators |-> 1]
    /\ todo = [e \in Evaluators |-> {}]
    /\ cur = [e \in Evaluators |-> AnyBudget]
    /\ limit = [e \in Evaluators |-> InitCap]
    /\ total = [e \in Evaluators |-> 0]
    /\ mine = [e \in Evaluators |-> [b \in Budgets |-> NoRow]]
    /\ queued = [e \in Evaluators |-> {}]
    /\ history = [e \in Evaluators |-> {}]

-----------------------------------------------------------------------------
(* Pure decisions *)

\* The cap is the most that may be spent: only a strictly larger spend is over.
is_over_cost_cap(cents, c) == c # NoLimit /\ cents > c

\* The highest soft threshold crossed while within the cap: a set with at most
\* one element, empty where the code returns None.
soft_warning_band(cents, c) ==
    LET crossed == {p \in Bands : 0 < p /\ p < 100 /\ cents * 100 >= p * c}
    IN  IF c <= 0 \/ cents > c
        THEN {}
        ELSE {p \in crossed : \A o \in crossed : o <= p}

-----------------------------------------------------------------------------
(* What a transaction sees, and what it must wait for *)

\* A statement of e sees e's own writes and otherwise committed rows.
Visible(e, b) == IF mine[e][b] # NoRow THEN mine[e][b] ELSE row[b][now[e]]

\* Another transaction has written the row and has not ended: e must wait.
RowLocked(e, b) ==
    \E o \in Evaluators \ {e} : now[o] = now[e] /\ mine[o][b] # NoRow

\* Another transaction has an uncommitted outbox row with this unique key.
KeyLocked(e, b, v) ==
    \E o \in Evaluators \ {e} : \E d \in queued[o] : d.budget = b /\ d.version = v

\* pg_advisory_xact_lock of the tenant: held from the first append_history of
\* a transaction to its end.
AdvisoryLocked(e) == \E o \in Evaluators \ {e} : history[o] # {}

\* The decision that _enqueue writes for the row e has just flipped.
DecisionOf(e) ==
    LET b == cur[e]
    IN  [budget     |-> b,
         period     |-> now[e],
         version    |-> mine[e][b].version,
         transition |-> IF mine[e][b].state = "enforced" THEN "enforce" ELSE "refresh",
         limit      |-> limit[e][b]]

\* The transaction ends and the locals of the call are gone.
EndTxn(e) ==
    /\ pc' = [pc EXCEPT ![e] = "idle"]
    /\ now' = [now EXCEPT ![e] = 1]
    /\ todo' = [todo EXCEPT ![e] = {}]
    /\ cur' = [cur EXCEPT ![e] = AnyBudget]
    /\ limit' = [limit EXCEPT ![e] = InitCap]
    /\ total' = [total EXCEPT ![e] = 0]
    /\ mine' = [mine EXCEPT ![e] = [b \in Budgets |-> NoRow]]
    /\ queued' = [queued EXCEPT ![e] = {}]
    /\ history' = [history EXCEPT ![e] = {}]

-----------------------------------------------------------------------------
(* Actions *)

\* ingest_usage has committed the debit of one event stamped in window q, and
\* calls evaluate_after_post.  A replayed event (cost 0) is evaluated as well.
PostUsage(e, s, q, cost) ==
    /\ pc[e] = "idle"
    /\ q <= clock
    /\ \A b \in s : spend[b][q] + cost <= MaxSpend
    /\ spend' = [b \in Budgets |->
                    IF b \in s THEN [spend[b] EXCEPT ![q] = @ + cost] ELSE spend[b]]
    /\ todo' = [todo EXCEPT ![e] = s]
    /\ pc' = [pc EXCEPT ![e] = "list"]
    /\ UNCHANGED <<clock, cap, raises, row, outbox, audit, now, cur, limit, total, txn>>

\* _evaluate reads the clock once, then the definitions of the budgets the
\* event touches.
ListBudgets(e) ==
    /\ pc[e] = "list"
    /\ now' = [now EXCEPT ![e] = clock]
    /\ limit' = [limit EXCEPT ![e] = cap]
    /\ pc' = [pc EXCEPT ![e] = "spend"]
    /\ UNCHANGED <<db, todo, cur, total, txn>>

\* _evaluate_budget, first statement: the authoritative spend of the window.
ReadSpend(e, b) ==
    /\ pc[e] = "spend"
    /\ b \in todo[e]
    /\ todo' = [todo EXCEPT ![e] = @ \ {b}]
    /\ cur' = [cur EXCEPT ![e] = b]
    /\ total' = [total EXCEPT ![e] = spend[b][now[e]]]
    /\ pc' = [pc EXCEPT ![e] = "state"]
    /\ UNCHANGED <<db, now, limit, txn>>

\* Mutant of Branch: a raised budget never leaves the enforced state.
MutBranchNoRefresh(e, r) ==
    IF is_over_cost_cap(total[e], limit[e][cur[e]]) /\ r.state = "under"
    THEN "enforce" ELSE "spend"

\* The branch _evaluate_budget takes on the spend it read and state row r.
Branch(e, r) ==
    LET b == cur[e]
        over == is_over_cost_cap(total[e], limit[e][b])
    IN  CASE over /\ r.state = "under"        -> "enforce"
          [] ~over /\ r.state = "enforced"    -> "refresh"
          [] OTHER -> IF soft_warning_band(total[e], limit[e][b]) # {}
                      THEN "warn" ELSE "spend"

\* The version a new window's row starts from: the largest committed one.
SeedVersion(b, v) ==
    /\ v \in {row[b][q].version : q \in Periods}
    /\ \A q \in Periods : row[b][q].version <= v

\* INSERT ... ON CONFLICT DO NOTHING, then SELECT: the row exists afterwards.
\* An insert by another transaction that has not ended makes this one wait.
get_or_create_state(e) ==
    LET b == cur[e]
    IN  /\ pc[e] = "state"
        /\ \/ /\ Visible(e, b) # NoRow
              /\ pc' = [pc EXCEPT ![e] = Branch(e, Visible(e, b))]
              /\ UNCHANGED mine
           \/ /\ Visible(e, b) = NoRow
              /\ ~RowLocked(e, b)
              /\ \E v \in {row[b][q].version : q \in Periods} :
                    LET r == [state |-> "under", version |-> v, warned |-> 0]
                    IN  /\ SeedVersion(b, v)
                        /\ mine' = [mine EXCEPT ![e][b] = r]
                        /\ pc' = [pc EXCEPT ![e] = Branch(e, r)]
        /\ UNCHANGED <<db, local, queued, history>>

\* The SET clause: the new state, and the version after the pre-image's.
Flipped(r, to) == [state |-> to, version |-> r.version + 1, warned |-> r.warned]

\* Mutant of ConditionalTransition: no WHERE state = from.
MutUnconditionalTransition(e, from, to) ==
    LET b == cur[e]
    IN  /\ ~RowLocked(e, b)
        /\ mine' = [mine EXCEPT ![e][b] = Flipped(Visible(e, b), to)]
        /\ pc' = [pc EXCEPT ![e] = "enqueue"]
        /\ UNCHANGED <<db, local, queued, history>>

\* Mutant of ConditionalTransition: the version moves by step instead of + 1.
TransitionBy(e, from, to, step) ==
    LET b == cur[e]
        r == Visible(e, b)
    IN  /\ ~RowLocked(e, b)
        /\ IF r.state = from
           THEN /\ mine' = [mine EXCEPT ![e][b] =
                              [r EXCEPT !.state = to, !.version = @ + step]]
                /\ pc' = [pc EXCEPT ![e] = "enqueue"]
           ELSE pc' = [pc EXCEPT ![e] = "spend"] /\ UNCHANGED mine
        /\ UNCHANGED <<db, local, queued, history>>

MutTransitionVersionDown(e, from, to) == TransitionBy(e, from, to, -1)

\* UPDATE ... SET version = version + 1 WHERE state = from: waits for the row
\* lock, then re-reads the row; zero rows means another request flipped it.
ConditionalTransition(e, from, to) ==
    LET b == cur[e]
        r == Visible(e, b)
    IN  /\ ~RowLocked(e, b)
        /\ \/ /\ r.state = from
              /\ mine' = [mine EXCEPT ![e][b] = Flipped(r, to)]
              /\ pc' = [pc EXCEPT ![e] = "enqueue"]
           \/ /\ r.state # from
              /\ pc' = [pc EXCEPT ![e] = "spend"]
              /\ UNCHANGED mine
        /\ UNCHANGED <<db, local, queued, history>>

try_transition_to_enforced(e) ==
    pc[e] = "enforce" /\ ConditionalTransition(e, "under", "enforced")

try_transition_to_under(e) ==
    pc[e] = "refresh" /\ ConditionalTransition(e, "enforced", "under")

\* Mutant of enqueue_decision: only enforcing decisions are published.
MutEnqueueOnlyEnforce(e) ==
    /\ pc[e] = "enqueue"
    /\ queued' = IF DecisionOf(e).transition = "enforce"
                 THEN [queued EXCEPT ![e] = @ \cup {DecisionOf(e)}] ELSE queued
    /\ pc' = [pc EXCEPT ![e] = "audit"]
    /\ UNCHANGED <<db, local, mine, history>>

\* INSERT into the outbox ON CONFLICT (policy_id, version) DO NOTHING.
enqueue_decision(e) ==
    LET d == DecisionOf(e)
    IN  /\ pc[e] = "enqueue"
        /\ ~KeyLocked(e, d.budget, d.version)
        /\ queued' = IF \E o \in outbox \cup queued[e] :
                            o.budget = d.budget /\ o.version = d.version
                     THEN queued
                     ELSE [queued EXCEPT ![e] = @ \cup {d}]
        /\ pc' = [pc EXCEPT ![e] = "audit"]
        /\ UNCHANGED <<db, local, mine, history>>

\* The audit entry of the decision, under the tenant's advisory lock.
append_history(e) ==
    /\ pc[e] = "audit"
    /\ ~AdvisoryLocked(e)
    /\ history' = [history EXCEPT ![e] = @ \cup {DecisionOf(e)}]
    /\ pc' = [pc EXCEPT ![e] = "spend"]
    /\ UNCHANGED <<db, local, mine, queued>>

\* UPDATE ... SET last_warned_pct = pct WHERE it is lower: advisory only.
try_bump_warned_pct(e) ==
    LET b == cur[e]
        r == Visible(e, b)
    IN  /\ pc[e] = "warn"
        /\ ~RowLocked(e, b)
        /\ \E pct \in soft_warning_band(total[e], limit[e][b]) :
              mine' = IF r.warned < pct
                      THEN [mine EXCEPT ![e][b] = [r EXCEPT !.warned = pct]]
                      ELSE mine
        /\ pc' = [pc EXCEPT ![e] = "spend"]
        /\ UNCHANGED <<db, local, queued, history>>

\* session.commit(): the writes of the whole evaluation become visible.
Commit(e) ==
    /\ pc[e] = "spend"
    /\ todo[e] = {}
    /\ row' = [b \in Budgets |->
                 IF mine[e][b] # NoRow THEN [row[b] EXCEPT ![now[e]] = mine[e][b]]
                                       ELSE row[b]]
    /\ outbox' = outbox \cup queued[e]
    /\ audit' = audit \cup history[e]
    /\ EndTxn(e)
    /\ UNCHANGED <<clock, spend, cap, raises>>

\* Mutant of Abort: the state flip was committed in a transaction of its own.
MutAbortKeepsState(e) ==
    /\ pc[e] # "idle"
    /\ row' = [b \in Budgets |->
                 IF mine[e][b] # NoRow THEN [row[b] EXCEPT ![now[e]] = mine[e][b]]
                                       ELSE row[b]]
    /\ EndTxn(e)
    /\ UNCHANGED <<clock, spend, cap, raises, outbox, audit>>

\* evaluate_after_post absorbs every failure (a lost connection, a deadlock
\* victim, a crash of the worker): the transaction is rolled back whole.
Abort(e) ==
    /\ pc[e] # "idle"
    /\ EndTxn(e)
    /\ UNCHANGED db

\* raise_budget_cost_cap and its caller's commit.
raise_budget_cost_cap(b, c) ==
    /\ raises < MaxRaises
    /\ raises' = raises + 1
    /\ cap' = [cap EXCEPT ![b] = c]
    /\ UNCHANGED <<clock, spend, row, outbox, audit, pc, local, txn>>

\* The wall clock enters the next budget window.
NextPeriod ==
    /\ clock < NPeriods
    /\ clock' = clock + 1
    /\ UNCHANGED <<spend, cap, raises, row, outbox, audit, pc, local, txn>>

_evaluate_budget(e) ==
    \/ \E b \in Budgets : ReadSpend(e, b)
    \/ get_or_create_state(e)
    \/ try_transition_to_enforced(e)
    \/ try_transition_to_under(e)
    \/ enqueue_decision(e)
    \/ append_history(e)
    \/ try_bump_warned_pct(e)

Next ==
    \/ \E e \in Evaluators :
          \/ \E s \in Scopes, q \in Periods, cost \in Costs : PostUsage(e, s, q, cost)
          \/ ListBudgets(e)
          \/ _evaluate_budget(e)
          \/ Commit(e)
          \/ Abort(e)
    \/ \E b \in Budgets, c \in Caps : raise_budget_cost_cap(b, c)
    \/ NextPeriod

Spec == Init /\ [][Next]_vars

-----------------------------------------------------------------------------
(* Properties *)

Has(ds, b, v) == \E d \in ds : d.budget = b /\ d.version = v

\* No version of a policy is skipped: below every queued decision all lower
\* versions of the same budget are queued too, whichever windows published
\* them, and no committed state row is ahead of the outbox.
VersionsGapFree ==
    /\ \A d \in outbox : \A v \in 1..d.version : Has(outbox, d.budget, v)
    /\ \A b \in Budgets, q \in Periods :
          \A v \in 1..row[b][q].version : Has(outbox, b, v)

\* A state row that says "enforced" has its enforce decision in the outbox: no
\* "missed enforcement that logs/state would falsely report as enforced".
EnforcedIsQueued ==
    \A b \in Budgets, q \in Periods :
        row[b][q].state = "enforced" =>
            \E d \in outbox : /\ d.budget = b
                             /\ d.period = q
                             /\ d.version = row[b][q].version
                             /\ d.transition = "enforce"

\* The hash-chained history and the outbox record the same decisions: nothing is
\* audited that will never be published, and nothing is published unaudited.
AuditIsOutbox == audit = outbox

\* Exactly one publish per edge: within a window a refresh follows the enforce
\* with the version just below it, and no enforce follows an enforce.
DecisionsAlternate ==
    \A d \in outbox :
        (\E o \in outbox : /\ o.budget = d.budget
                          /\ o.period = d.period
                          /\ o.version = d.version - 1
                          /\ o.transition = "enforce")
        <=> d.transition = "refresh"

\* Commit(e) leaves every budget of its window enforced exactly when its spend is
\* over its cap, if the caps it read are still current and it touched them all.
Settled(e) ==
    Commit(e) /\ limit[e] = cap =>
        \A b \in Budgets :
            row'[b][now[e]].state = "enforced"
               <=> is_over_cost_cap(spend[b][now[e]], cap[b])

\* Enforcement is lifted only for a budget whose spend is within its cap when the
\* decision is committed ("budget raised above spend").
LiftedOnlyWithinCap ==
    [][\A d \in outbox' \ outbox :
          d.transition = "refresh" =>
              ~is_over_cost_cap(spend[d.budget][d.period], cap[d.budget])]_vars

=============================================================================
