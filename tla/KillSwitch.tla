----------------------------- MODULE KillSwitch -----------------------------
(***************************************************************************)
(* Delta's kill-switch (Delta/src/delta/kill_switch/): usage events that   *)
(* kill a scope, the operator's allow-list that lifts identity kills, and  *)
(* the operator's override.  Each call is one READ COMMITTED transaction,  *)
(* one step per SQL statement; the outbox insert and the audit entry that  *)
(* follow a transition under its row lock are part of the transition.      *)
(*                                                                         *)
(* One tenant.  A scope is a (team, project, agent) triple.                *)
(***************************************************************************)
EXTENDS Integers, FiniteSets

CONSTANTS
    Txns,           \* concurrent calls
    Agents,
    Scopes,
    AgentOf,        \* AgentOf[s]: the agent of scope s
    MaxVersion      \* bound on the versions of a scope's policy

ASSUME KillAssumption ==
    /\ Scopes # {}
    /\ Agents # {}
    /\ AgentOf \in [Scopes -> Agents]
    /\ MaxVersion \in Nat

Reasons == {"unauthorized_agent", "anomalous_single_tx"}
None == "none"

\* A row of kill_switch_state; NoRow where there is none.
Row == [state : {"none", "clear", "killed"}, reason : Reasons \cup {None},
        version : Nat]
NoRow == [state |-> "none", reason |-> None, version |-> 0]

\* A row of kill_switch_outbox.
Decision == [scope : Scopes, version : Nat, transition : {"kill", "clear"}]

VARIABLES
    allow,      \* committed agent_authorizations
    row,        \* row[s]: committed kill_switch_state
    outbox,     \* committed kill_switch_outbox
    pc,         \* pc[t]: next statement of call t
    op,         \* op[t]: which call t is
    scope,      \* scope[t]: the scope call t is working on
    agent,      \* agent[t]: the agent to be allow-listed
    big,        \* big[t]: the event's cost is above the single transaction ceiling
    reason,     \* reason[t]: the trigger found, or the reason column read back
    todo,       \* todo[t]: killed scopes still to be cleared
    mine,       \* mine[t][s]: uncommitted version of row[s], or NoRow
    queued,     \* queued[t]: uncommitted outbox rows
    granted     \* granted[t]: uncommitted agent_authorizations rows

db == <<allow, row, outbox>>
locals == <<op, scope, agent, big, reason, todo>>
txn == <<mine, queued, granted>>
vars == <<db, pc, locals, txn>>

TypeOK ==
    /\ allow \subseteq Agents
    /\ row \in [Scopes -> Row]
    /\ outbox \subseteq Decision
    /\ pc \in [Txns -> {"idle", "gated", "authorized", "state", "kill", "allow",
                        "list", "reason", "clear", "commit"}]
    /\ op \in [Txns -> {"none", "event", "authorize", "clear"}]
    /\ scope \in [Txns -> Scopes]
    /\ agent \in [Txns -> Agents]
    /\ big \in [Txns -> BOOLEAN]
    /\ reason \in [Txns -> Reasons \cup {None}]
    /\ todo \in [Txns -> SUBSET Scopes]
    /\ mine \in [Txns -> [Scopes -> Row]]
    /\ queued \in [Txns -> SUBSET Decision]
    /\ granted \in [Txns -> SUBSET Agents]

AnyScope == CHOOSE s \in Scopes : TRUE
AnyAgent == CHOOSE a \in Agents : TRUE

Init ==
    /\ allow = {}
    /\ row = [s \in Scopes |-> NoRow]
    /\ outbox = {}
    /\ pc = [t \in Txns |-> "idle"]
    /\ op = [t \in Txns |-> "none"]
    /\ scope = [t \in Txns |-> AnyScope]
    /\ agent = [t \in Txns |-> AnyAgent]
    /\ big = [t \in Txns |-> FALSE]
    /\ reason = [t \in Txns |-> None]
    /\ todo = [t \in Txns |-> {}]
    /\ mine = [t \in Txns |-> [s \in Scopes |-> NoRow]]
    /\ queued = [t \in Txns |-> {}]
    /\ granted = [t \in Txns |-> {}]

-----------------------------------------------------------------------------
(* Transactions *)

\* A statement of t sees t's own writes and otherwise committed rows.
Visible(t, s) == IF mine[t][s] # NoRow THEN mine[t][s] ELSE row[s]

RowLocked(t, s) == \E o \in Txns \ {t} : mine[o][s] # NoRow

EndTxn(t) ==
    /\ pc' = [pc EXCEPT ![t] = "idle"]
    /\ op' = [op EXCEPT ![t] = "none"]
    /\ scope' = [scope EXCEPT ![t] = AnyScope]
    /\ agent' = [agent EXCEPT ![t] = AnyAgent]
    /\ big' = [big EXCEPT ![t] = FALSE]
    /\ reason' = [reason EXCEPT ![t] = None]
    /\ todo' = [todo EXCEPT ![t] = {}]
    /\ mine' = [mine EXCEPT ![t] = [s \in Scopes |-> NoRow]]
    /\ queued' = [queued EXCEPT ![t] = {}]
    /\ granted' = [granted EXCEPT ![t] = {}]

\* session.commit(): all of the call, or (Abort) nothing of it.
Commit(t) ==
    /\ pc[t] = "commit"
    /\ row' = [s \in Scopes |-> Visible(t, s)]
    /\ outbox' = outbox \cup queued[t]
    /\ allow' = allow \cup granted[t]
    /\ EndTxn(t)

\* Mutant of Abort: the outbox row was committed in a transaction of its own.
MutAbortKeepsOutbox(t) ==
    /\ pc[t] # "idle"
    /\ outbox' = outbox \cup queued[t]
    /\ EndTxn(t)
    /\ UNCHANGED <<allow, row>>

\* A failure before the commit: evaluate_kill_switch absorbs it, an operator's
\* call raises; the transaction is rolled back either way.
Abort(t) ==
    /\ pc[t] # "idle"
    /\ EndTxn(t)
    /\ UNCHANGED db

\* Mutant of ConditionalTransition: no WHERE state = from.
MutUnconditionalTransition(t, s, from, to, kind) ==
    LET r == Visible(t, s)
    IN  /\ ~RowLocked(t, s)
        /\ r.version < MaxVersion
        /\ mine' = [mine EXCEPT ![t][s] =
                      [state |-> to, reason |-> reason[t], version |-> r.version + 1]]
        /\ queued' = [queued EXCEPT ![t] = @ \cup
              {[scope |-> s, version |-> r.version + 1, transition |-> kind]}]

\* _conditional_transition and the outbox row of its new version: waits for the
\* row lock, re-reads, and does nothing when the state is no longer from.
ConditionalTransition(t, s, from, to, kind) ==
    LET r == Visible(t, s)
    IN  /\ ~RowLocked(t, s)
        /\ \/ /\ r.state = from
              /\ r.version < MaxVersion
              /\ mine' = [mine EXCEPT ![t][s] =
                           [state |-> to, reason |-> reason[t], version |-> r.version + 1]]
              /\ queued' = [queued EXCEPT ![t] = @ \cup
                    {[scope |-> s, version |-> r.version + 1, transition |-> kind]}]
           \/ r.state # from /\ UNCHANGED <<mine, queued>>

-----------------------------------------------------------------------------
(* Usage events: _evaluate and _kill *)

\* A usage event has been posted for scope s.
evaluate_kill_switch(t, s, anomalous) ==
    /\ pc[t] = "idle"
    /\ op' = [op EXCEPT ![t] = "event"]
    /\ scope' = [scope EXCEPT ![t] = s]
    /\ big' = [big EXCEPT ![t] = anomalous]
    /\ pc' = [pc EXCEPT ![t] = "gated"]
    /\ UNCHANGED <<db, agent, reason, todo, txn>>

\* detect_reason, once the two allow-list reads have given their answer.
detect_reason(t, gated, authorized) ==
    LET found == CASE gated /\ ~authorized -> "unauthorized_agent"
                   [] big[t] /\ (gated => authorized) -> "anomalous_single_tx"
                   [] OTHER -> None
    IN  /\ reason' = [reason EXCEPT ![t] = found]
        /\ pc' = [pc EXCEPT ![t] = IF found = None THEN "commit" ELSE "state"]

\* A tenant without an allow-list is not gated, and the second read is skipped.
is_tenant_gated(t) ==
    /\ pc[t] = "gated"
    /\ \/ /\ allow = {}
          /\ detect_reason(t, FALSE, FALSE)
       \/ /\ allow # {}
          /\ pc' = [pc EXCEPT ![t] = "authorized"]
          /\ UNCHANGED reason
    /\ UNCHANGED <<db, op, scope, agent, big, todo, txn>>

is_authorized(t) ==
    /\ pc[t] = "authorized"
    /\ detect_reason(t, TRUE, AgentOf[scope[t]] \in allow)
    /\ UNCHANGED <<db, op, scope, agent, big, todo, txn>>

\* INSERT ... ON CONFLICT DO NOTHING, then SELECT.
get_or_create_state(t) ==
    LET s == scope[t]
    IN  /\ pc[t] = "state"
        /\ \/ /\ Visible(t, s) # NoRow
              /\ pc' = [pc EXCEPT ![t] =
                          IF Visible(t, s).state = "clear" THEN "kill" ELSE "commit"]
              /\ UNCHANGED mine
           \/ /\ Visible(t, s) = NoRow
              /\ ~RowLocked(t, s)
              /\ mine' = [mine EXCEPT ![t][s] =
                            [state |-> "clear", reason |-> None, version |-> 0]]
              /\ pc' = [pc EXCEPT ![t] = "kill"]
        /\ UNCHANGED <<db, locals, queued, granted>>

try_transition_to_killed(t) ==
    /\ pc[t] = "kill"
    /\ ConditionalTransition(t, scope[t], "clear", "killed", "kill")
    /\ pc' = [pc EXCEPT ![t] = "commit"]
    /\ UNCHANGED <<db, locals, granted>>

-----------------------------------------------------------------------------
(* Operators *)

\* authorize_agent_and_publish for agent a.
authorize_agent(t, a) ==
    /\ pc[t] = "idle"
    /\ op' = [op EXCEPT ![t] = "authorize"]
    /\ agent' = [agent EXCEPT ![t] = a]
    /\ pc' = [pc EXCEPT ![t] = "allow"]
    /\ UNCHANGED <<db, scope, big, reason, todo, txn>>

\* INSERT ... ON CONFLICT DO NOTHING of the allow-list row: waits for an uncommitted
\* insert of the same; a row that is already there is left alone, and not locked.
InsertAuthorization(t) ==
    /\ pc[t] = "allow"
    /\ \A o \in Txns \ {t} : agent[t] \notin granted[o]
    /\ granted' = [granted EXCEPT ![t] = {agent[t]} \ allow]
    /\ pc' = [pc EXCEPT ![t] = "list"]
    /\ UNCHANGED <<db, locals, mine, queued>>

\* The scopes killed because the agent was not allow-listed.
killed_scopes_for_agent(t) ==
    {s \in Scopes : /\ AgentOf[s] = agent[t]
                    /\ Visible(t, s).state = "killed"
                    /\ Visible(t, s).reason = "unauthorized_agent"}

ListKilledScopes(t) ==
    /\ pc[t] = "list"
    /\ todo' = [todo EXCEPT ![t] = killed_scopes_for_agent(t)]
    /\ pc' = [pc EXCEPT ![t] = "reason"]
    /\ UNCHANGED <<db, op, scope, agent, big, reason, txn>>

\* clear_kill_switch: find_state, without inserting a row.
clear_kill_switch(t, s) ==
    /\ pc[t] = "idle"
    /\ op' = [op EXCEPT ![t] = "clear"]
    /\ todo' = [todo EXCEPT ![t] = {q \in {s} : Visible(t, q).state = "killed"}]
    /\ pc' = [pc EXCEPT ![t] = "reason"]
    /\ UNCHANGED <<db, scope, agent, big, reason, txn>>

\* _clear_scope for the next scope: try_transition_to_clear first reads the reason
\* column, to write it back.
ReadReason(t, s) ==
    /\ pc[t] = "reason"
    /\ s \in todo[t]
    /\ todo' = [todo EXCEPT ![t] = @ \ {s}]
    /\ scope' = [scope EXCEPT ![t] = s]
    /\ reason' = [reason EXCEPT ![t] = Visible(t, s).reason]
    /\ pc' = [pc EXCEPT ![t] = "clear"]
    /\ UNCHANGED <<db, op, agent, big, txn>>

try_transition_to_clear(t) ==
    /\ pc[t] = "clear"
    /\ ConditionalTransition(t, scope[t], "killed", "clear", "clear")
    /\ pc' = [pc EXCEPT ![t] = "reason"]
    /\ UNCHANGED <<db, locals, granted>>

NothingLeft(t) ==
    /\ pc[t] = "reason"
    /\ todo[t] = {}
    /\ pc' = [pc EXCEPT ![t] = "commit"]
    /\ UNCHANGED <<db, locals, txn>>

\* DELETE of the allow-list row, committed by its caller; kills nothing itself.
revoke_agent(a) ==
    /\ a \in allow
    /\ allow' = allow \ {a}
    /\ UNCHANGED <<row, outbox, pc, locals, txn>>

Next ==
    \/ \E t \in Txns :
          \/ \E s \in Scopes, b \in BOOLEAN : evaluate_kill_switch(t, s, b)
          \/ is_tenant_gated(t)
          \/ is_authorized(t)
          \/ get_or_create_state(t)
          \/ try_transition_to_killed(t)
          \/ \E a \in Agents : authorize_agent(t, a)
          \/ InsertAuthorization(t)
          \/ ListKilledScopes(t)
          \/ \E s \in Scopes : clear_kill_switch(t, s) \/ ReadReason(t, s)
          \/ try_transition_to_clear(t)
          \/ NothingLeft(t)
          \/ Commit(t)
          \/ Abort(t)
    \/ \E a \in Agents : revoke_agent(a)

Spec == Init /\ [][Next]_vars

-----------------------------------------------------------------------------
(* Properties *)

\* The outbox tells the Sentinels what the state table says: the newest decision of
\* a scope is the one that put its row into its present state, at its version.
NewestDecisionIsState ==
    \A s \in Scopes :
        /\ \A d \in outbox : d.scope = s => d.version <= row[s].version
        /\ row[s].version > 0 =>
              \E d \in outbox : /\ d.scope = s
                               /\ d.version = row[s].version
                               /\ d.transition = "kill" <=> row[s].state = "killed"

\* "Exactly one publishes": kills and clears of a scope alternate whatever events,
\* overrides and authorizations run concurrently, so that every odd version is a
\* kill, every even one a clear, and no version is used twice.
KillsAlternate ==
    /\ \A d \in outbox : d.transition = "kill" <=> d.version % 2 = 1
    /\ \A s \in Scopes : \A v \in 1..row[s].version :
          \E d \in outbox : d.scope = s /\ d.version = v

\* Allow-listing an identity lifts identity kills only: "no authority over a
\* SEPARATE anomalous_single_tx kill".
AuthorizeSparesAnomalous ==
    [][\A t \in Txns :
          Commit(t) /\ op[t] = "authorize" =>
              \A s \in Scopes :
                  row[s].state = "killed" /\ row'[s].state = "clear" =>
                      row[s].reason = "unauthorized_agent"]_vars

=============================================================================
