-------------------------- MODULE KillSwitchProofs --------------------------
(***************************************************************************)
(* Theorems about KillSwitch, for every set of scopes, agents and calls.   *)
(*                                                                         *)
(* The argument: only the call that holds the lock of a scope's state row  *)
(* has an uncommitted version of it, so what it has queued continues the   *)
(* committed decisions of the scope, and its commit or rollback takes the  *)
(* row and the decisions together.                                         *)
(***************************************************************************)
EXTENDS KillSwitch, TLAPS

-----------------------------------------------------------------------------
(* Facts about the operators *)

\* An absent row is represented by a well formed one.
LEMMA NoRowType == NoRow \in Row
BY DEF NoRow, Row, None

\* Outside a call, scope and agent name some scope and some agent: there are both.
LEMMA AnyType == AnyScope \in Scopes /\ AnyAgent \in Agents
BY KillAssumption DEF AnyScope, AnyAgent

\* A statement sees well formed rows.
LEMMA VisibleType ==
    ASSUME TypeOK, NEW t \in Txns, NEW s \in Scopes
    PROVE  Visible(t, s) \in Row
BY DEF TypeOK, Visible

\* Writing one row of one call keeps the shape of mine.
LEMMA WriteType ==
    ASSUME NEW f \in [Txns -> [Scopes -> Row]],
           NEW t \in Txns, NEW s \in Scopes, NEW r \in Row
    PROVE  /\ [f EXCEPT ![t][s] = r] \in [Txns -> [Scopes -> Row]]
           /\ [f EXCEPT ![t][s] = r][t][s] = r
           /\ \A o \in Txns, c \in Scopes :
                 o # t \/ c # s => [f EXCEPT ![t][s] = r][o][c] = f[o][c]
OBVIOUS

\* Versions are odd and even in turn.
LEMMA Parity == ASSUME NEW n \in Nat PROVE (n + 1) % 2 = 1 <=> ~(n % 2 = 1)
OBVIOUS

\* What _conditional_transition does, in the two cases of its WHERE clause.
Transition(t, s, to, kind) ==
    LET v == Visible(t, s).version + 1
    IN  /\ mine' = [mine EXCEPT ![t][s] =
                      [state |-> to, reason |-> reason[t], version |-> v]]
        /\ queued' = [queued EXCEPT ![t] = @ \cup
                        {[scope |-> s, version |-> v, transition |-> kind]}]

\* The outcome of a transition is either the new version or nothing.
LEMMA TransitionCases ==
    ASSUME NEW t, NEW s, NEW from, NEW to, NEW kind,
           ConditionalTransition(t, s, from, to, kind)
    PROVE  \/ /\ ~RowLocked(t, s) /\ Visible(t, s).state = from
              /\ Transition(t, s, to, kind)
           \/ UNCHANGED <<mine, queued>>
BY DEF ConditionalTransition, Transition

-----------------------------------------------------------------------------
(* Type correctness *)

\* The kill-switch starts in a well formed state.
LEMMA TypeInit == Init => TypeOK
BY NoRowType, AnyType DEF Init, TypeOK

\* The end of a call, committed or not, leaves well formed locals.
LEMMA EndTxnType ==
    ASSUME TypeOK, NEW t \in Txns, EndTxn(t), row' \in [Scopes -> Row],
           outbox' \subseteq Decision, allow' \subseteq Agents
    PROVE  TypeOK'
<1>1. /\ mine' \in [Txns -> [Scopes -> Row]]
      /\ queued' \in [Txns -> SUBSET Decision] /\ granted' \in [Txns -> SUBSET Agents]
  BY NoRowType DEF EndTxn, TypeOK
<1>2. /\ pc' \in [Txns -> {"idle", "gated", "authorized", "state", "kill", "allow",
                          "list", "reason", "clear", "commit"}]
      /\ op' \in [Txns -> {"none", "event", "authorize", "clear"}]
      /\ scope' \in [Txns -> Scopes] /\ agent' \in [Txns -> Agents]
      /\ big' \in [Txns -> BOOLEAN] /\ todo' \in [Txns -> SUBSET Scopes]
  BY AnyType DEF EndTxn, TypeOK
<1>3. reason' \in [Txns -> Reasons \cup {None}]
  BY DEF EndTxn, TypeOK
<1> QED BY <1>1, <1>2, <1>3 DEF TypeOK

\* A transition writes a well formed row and a well formed decision.
LEMMA TransitionType ==
    ASSUME TypeOK, NEW t \in Txns, NEW s \in Scopes, NEW to \in {"clear", "killed"},
           NEW kind \in {"kill", "clear"}, Transition(t, s, to, kind)
    PROVE  /\ mine' \in [Txns -> [Scopes -> Row]]
           /\ queued' \in [Txns -> SUBSET Decision]
<1> DEFINE v == Visible(t, s).version + 1
           r == [state |-> to, reason |-> reason[t], version |-> v]
           d == [scope |-> s, version |-> v, transition |-> kind]
<1>1. v \in Nat
  BY VisibleType DEF Row
<1>2. r \in Row
  BY <1>1 DEF Row, TypeOK
<1>3. d \in Decision
  BY <1>1 DEF Decision
<1>4. /\ mine' = [mine EXCEPT ![t][s] = r]
      /\ queued' = [queued EXCEPT ![t] = @ \cup {d}]
  BY DEF Transition
<1> HIDE DEF r, d, v
<1> QED BY <1>2, <1>3, <1>4 DEF TypeOK

\* Every statement of every call keeps the types.
LEMMA TypeStep == TypeOK /\ [Next]_vars => TypeOK'
<1> SUFFICES ASSUME TypeOK, [Next]_vars PROVE TypeOK'
  OBVIOUS
<1>1. ASSUME NEW t \in Txns, NEW s \in Scopes, NEW b \in BOOLEAN,
             evaluate_kill_switch(t, s, b)
      PROVE  TypeOK'
  BY <1>1 DEF evaluate_kill_switch, TypeOK, db, txn
<1>2. ASSUME NEW t \in Txns, NEW g, NEW a, detect_reason(t, g, a)
      PROVE  /\ reason' \in [Txns -> Reasons \cup {None}]
             /\ pc' \in [Txns -> {"idle", "gated", "authorized", "state", "kill",
                                  "allow", "list", "reason", "clear", "commit"}]
  <2> DEFINE found == CASE g /\ ~a -> "unauthorized_agent"
                        [] big[t] /\ (g => a) -> "anomalous_single_tx"
                        [] OTHER -> None
  <2>1. found \in Reasons \cup {None}
    BY DEF Reasons
  <2>2. /\ reason' = [reason EXCEPT ![t] = found]
        /\ pc' = [pc EXCEPT ![t] = IF found = None THEN "commit" ELSE "state"]
    BY <1>2 DEF detect_reason
  <2> HIDE DEF found
  <2> QED BY <2>1, <2>2 DEF TypeOK
<1>3. ASSUME NEW t \in Txns, is_tenant_gated(t) PROVE TypeOK'
  BY <1>2, <1>3 DEF is_tenant_gated, TypeOK, db, txn
<1>4. ASSUME NEW t \in Txns, is_authorized(t) PROVE TypeOK'
  BY <1>2, <1>4 DEF is_authorized, TypeOK, db, txn
<1>5. ASSUME NEW t \in Txns, get_or_create_state(t) PROVE TypeOK'
  <2> DEFINE r == [state |-> "clear", reason |-> None, version |-> 0]
  <2>1. r \in Row /\ scope[t] \in Scopes
    BY DEF Row, TypeOK
  <2>2. mine' = mine \/ mine' = [mine EXCEPT ![t][scope[t]] = r]
    BY <1>5 DEF get_or_create_state
  <2> HIDE DEF r
  <2>3. mine' \in [Txns -> [Scopes -> Row]]
    <3>1. mine \in [Txns -> [Scopes -> Row]]
      BY DEF TypeOK
    <3>2. CASE mine' = mine
      BY <3>1, <3>2
    <3>3. CASE mine' = [mine EXCEPT ![t][scope[t]] = r]
      BY <2>1, <3>1, <3>3, WriteType
    <3> QED BY <2>2, <3>2, <3>3
  <2> QED BY <1>5, <2>3 DEF get_or_create_state, TypeOK, db, locals
<1>6. ASSUME NEW t \in Txns, try_transition_to_killed(t) PROVE TypeOK'
  <2>1. scope[t] \in Scopes
    BY DEF TypeOK
  <2>2. mine' \in [Txns -> [Scopes -> Row]] /\ queued' \in [Txns -> SUBSET Decision]
    BY <1>6, <2>1, TransitionCases, TransitionType DEF try_transition_to_killed, TypeOK
  <2> QED BY <1>6, <2>2 DEF try_transition_to_killed, TypeOK, db, locals
<1>7. ASSUME NEW t \in Txns, NEW a \in Agents, authorize_agent(t, a) PROVE TypeOK'
  BY <1>7 DEF authorize_agent, TypeOK, db, txn
<1>8. ASSUME NEW t \in Txns, InsertAuthorization(t) PROVE TypeOK'
  BY <1>8 DEF InsertAuthorization, TypeOK, db, locals
<1>9. ASSUME NEW t \in Txns, ListKilledScopes(t) PROVE TypeOK'
  BY <1>9 DEF ListKilledScopes, killed_scopes_for_agent, TypeOK, db, txn
<1>10. ASSUME NEW t \in Txns, NEW s \in Scopes, clear_kill_switch(t, s) PROVE TypeOK'
  BY <1>10 DEF clear_kill_switch, TypeOK, db, txn
<1>11. ASSUME NEW t \in Txns, NEW s \in Scopes, ReadReason(t, s) PROVE TypeOK'
  <2>1. Visible(t, s).reason \in Reasons \cup {None}
    BY VisibleType DEF Row
  <2> QED BY <1>11, <2>1 DEF ReadReason, TypeOK, db, txn
<1>12. ASSUME NEW t \in Txns, try_transition_to_clear(t) PROVE TypeOK'
  <2>1. scope[t] \in Scopes
    BY DEF TypeOK
  <2>2. mine' \in [Txns -> [Scopes -> Row]] /\ queued' \in [Txns -> SUBSET Decision]
    BY <1>12, <2>1, TransitionCases, TransitionType DEF try_transition_to_clear, TypeOK
  <2> QED BY <1>12, <2>2 DEF try_transition_to_clear, TypeOK, db, locals
<1>13. ASSUME NEW t \in Txns, NothingLeft(t) PROVE TypeOK'
  BY <1>13 DEF NothingLeft, TypeOK, db, locals, txn
<1>14. ASSUME NEW t \in Txns, Commit(t) PROVE TypeOK'
  <2>1. row' \in [Scopes -> Row]
    BY <1>14, VisibleType DEF Commit
  <2>2. outbox' \subseteq Decision /\ allow' \subseteq Agents
    BY <1>14 DEF Commit, TypeOK
  <2> QED BY <1>14, <2>1, <2>2, EndTxnType DEF Commit
<1>15. ASSUME NEW t \in Txns, Abort(t) PROVE TypeOK'
  <2>1. row' \in [Scopes -> Row] /\ outbox' \subseteq Decision /\ allow' \subseteq Agents
    BY <1>15 DEF Abort, TypeOK, db
  <2> QED BY <1>15, <2>1, EndTxnType DEF Abort
<1>16. ASSUME NEW a \in Agents, revoke_agent(a) PROVE TypeOK'
  BY <1>16 DEF revoke_agent, TypeOK, locals, txn
<1>17. CASE UNCHANGED vars
  BY <1>17 DEF TypeOK, vars, db, locals, txn
<1> QED
  BY <1>1, <1>3, <1>4, <1>5, <1>6, <1>7, <1>8, <1>9, <1>10, <1>11, <1>12, <1>13,
     <1>14, <1>15, <1>16, <1>17
  DEF Next

\* Every reachable state of the kill-switch is well formed.
THEOREM KillTypeCorrect == Spec => []TypeOK
BY TypeInit, TypeStep, PTL DEF Spec

-----------------------------------------------------------------------------
(* Rows and decisions go together *)

Has(ds, s, v) == \E d \in ds : d.scope = s /\ d.version = v
HasUpTo(ds, s, n) == \A v \in 1..n : Has(ds, s, v)

\* A row or a decision is a kill exactly when its version is odd.
Alternates(r) == r.state # "none" /\ (r.state = "killed" <=> r.version % 2 = 1)
KillIsOdd(d) == d.transition = "kill" <=> d.version % 2 = 1

\* At most one call at a time has written the state row of a scope.
RowsOwned ==
    \A t, o \in Txns, s \in Scopes : mine[t][s] # NoRow /\ mine[o][s] # NoRow => t = o

\* Rows alternate, committed or not, and no call is behind the committed row.
RowsAlternate ==
    /\ \A s \in Scopes : row[s] # NoRow => Alternates(row[s])
    /\ \A t \in Txns, s \in Scopes : mine[t][s] # NoRow =>
          Alternates(mine[t][s]) /\ row[s].version <= mine[t][s].version

\* Decisions alternate, none is ahead of its row, and none is missing: for the
\* committed outbox, and for the outbox as a call in progress would leave it.
DecisionsFollow ==
    /\ \A d \in outbox : KillIsOdd(d) /\ d.version <= row[d.scope].version
    /\ \A s \in Scopes : HasUpTo(outbox, s, row[s].version)
    /\ \A t \in Txns : \A d \in queued[t] :
          /\ KillIsOdd(d)
          /\ mine[t][d.scope] # NoRow
          /\ d.version <= mine[t][d.scope].version
    /\ \A t \in Txns, s \in Scopes : mine[t][s] # NoRow =>
          HasUpTo(outbox \cup queued[t], s, mine[t][s].version)

KillInv == RowsOwned /\ RowsAlternate /\ DecisionsFollow

\* At the start there are no rows and no decisions.
LEMMA KillInit == Init => KillInv
BY DEF Init, KillInv, RowsOwned, RowsAlternate, DecisionsFollow, NoRow, HasUpTo

\* A statement that writes no state row and no decision keeps the invariant.
LEMMA KillFrame ==
    ASSUME KillInv, UNCHANGED <<row, outbox, mine, queued>> PROVE KillInv'
BY DEF KillInv, RowsOwned, RowsAlternate, DecisionsFollow, HasUpTo, Has, Alternates, KillIsOdd

\* What a call sees of a row continues the decisions it would commit.
LEMMA KillVisible ==
    ASSUME TypeOK, KillInv, NEW t \in Txns, NEW s \in Scopes
    PROVE  /\ Visible(t, s) # NoRow => Alternates(Visible(t, s))
           /\ row[s].version <= Visible(t, s).version
           /\ HasUpTo(outbox \cup queued[t], s, Visible(t, s).version)
           /\ \A d \in queued[t] : d.scope = s => d.version <= Visible(t, s).version
<1>1. CASE mine[t][s] # NoRow
  BY <1>1 DEF KillInv, RowsAlternate, DecisionsFollow, Visible
<1>2. CASE mine[t][s] = NoRow
  <2>1. Visible(t, s) = row[s] /\ row[s].version \in Nat
    BY <1>2 DEF Visible, TypeOK, Row
  <2>2. HasUpTo(outbox \cup queued[t], s, row[s].version)
    BY DEF KillInv, DecisionsFollow, HasUpTo, Has
  <2>3. \A d \in queued[t] : d.scope # s
    BY <1>2 DEF KillInv, DecisionsFollow
  <2> QED BY <2>1, <2>2, <2>3 DEF KillInv, RowsAlternate
<1> QED BY <1>1, <1>2

\* A call that has the lock writes the next row, with the decisions up to it.
LEMMA KillWrite ==
    ASSUME TypeOK, KillInv, NEW t \in Txns, NEW s \in Scopes, NEW r \in Row, NEW Q,
           ~RowLocked(t, s), r # NoRow, Alternates(r), row[s].version <= r.version,
           mine' = [mine EXCEPT ![t][s] = r], UNCHANGED <<row, outbox>>,
           queued' = [queued EXCEPT ![t] = Q], queued[t] \subseteq Q,
           \A d \in Q : d \in queued[t] \/ (d.scope = s /\ KillIsOdd(d)),
           \A d \in Q : d.scope = s => d.version <= r.version,
           HasUpTo(outbox \cup Q, s, r.version)
    PROVE  KillInv'
<1>1. /\ mine'[t][s] = r
      /\ \A o \in Txns, c \in Scopes : o # t \/ c # s => mine'[o][c] = mine[o][c]
  BY WriteType DEF TypeOK
<1>2. queued'[t] = Q /\ \A o \in Txns \ {t} : queued'[o] = queued[o]
  BY DEF TypeOK
<1>3. RowsOwned'
  BY <1>1 DEF KillInv, RowsOwned, RowLocked
<1>4. RowsAlternate'
  BY <1>1 DEF KillInv, RowsAlternate, Alternates
<1>5. ASSUME NEW o \in Txns, NEW d \in queued'[o]
      PROVE  /\ KillIsOdd(d)
             /\ mine'[o][d.scope] # NoRow
             /\ d.version <= mine'[o][d.scope].version
  <2>1. CASE o = t /\ d.scope = s
    BY <1>1, <1>2, <1>5, <2>1 DEF KillInv, DecisionsFollow
  <2>2. CASE o # t \/ d.scope # s
    <3>1. d \in queued[o]
      BY <1>2, <1>5, <2>2
    <3>2. d.scope \in Scopes
      BY <3>1 DEF TypeOK, Decision
    <3> QED BY <1>1, <2>2, <3>1, <3>2 DEF KillInv, DecisionsFollow
  <2> QED BY <2>1, <2>2
<1>6. ASSUME NEW o \in Txns, NEW c \in Scopes, mine'[o][c] # NoRow
      PROVE  HasUpTo(outbox' \cup queued'[o], c, mine'[o][c].version)
  <2>1. CASE o = t /\ c = s
    BY <1>1, <1>2, <2>1
  <2>2. CASE o # t \/ c # s
    <3>1. HasUpTo(outbox \cup queued[o], c, mine[o][c].version)
      BY <1>1, <1>6, <2>2 DEF KillInv, DecisionsFollow
    <3>2. queued[o] \subseteq queued'[o]
      BY <1>2
    <3> QED BY <1>1, <2>2, <3>1, <3>2 DEF HasUpTo, Has
  <2> QED BY <2>1, <2>2
<1>7. DecisionsFollow'
  BY <1>5, <1>6 DEF KillInv, DecisionsFollow, HasUpTo, Has, KillIsOdd
<1> QED BY <1>3, <1>4, <1>7 DEF KillInv

\* A transition takes the next version and the decision of its kind.
LEMMA KillTransition ==
    ASSUME TypeOK, KillInv, NEW t \in Txns, NEW s \in Scopes, NEW from, NEW to, NEW kind,
           <<from, to, kind>> \in {<<"clear", "killed", "kill">>, <<"killed", "clear", "clear">>},
           ConditionalTransition(t, s, from, to, kind), UNCHANGED <<row, outbox>>
    PROVE  KillInv'
<1>1. CASE UNCHANGED <<mine, queued>>
  BY <1>1, KillFrame
<1>2. CASE ~RowLocked(t, s) /\ Visible(t, s).state = from /\ Transition(t, s, to, kind)
  <2> DEFINE n == Visible(t, s).version
             r == [state |-> to, reason |-> reason[t], version |-> n + 1]
             d == [scope |-> s, version |-> n + 1, transition |-> kind]
             Q == queued[t] \cup {d}
  <2>1. n \in Nat /\ from \in {"clear", "killed"} /\ to \in {"clear", "killed"}
    BY VisibleType DEF Row
  <2>2. r \in Row /\ r.state = to /\ r.version = n + 1 /\ r # NoRow
    BY <2>1 DEF Row, TypeOK, NoRow
  <2>3. d.scope = s /\ d.version = n + 1 /\ d.transition = kind
    OBVIOUS
  <2>4. from = "killed" <=> n % 2 = 1
    <3>1. Visible(t, s) # NoRow
      BY <1>2, <2>1 DEF NoRow
    <3>2. Alternates(Visible(t, s))
      BY <3>1, KillVisible
    <3> QED BY <1>2, <3>2 DEF Alternates
  <2>5. (n + 1) % 2 = 1 <=> ~(n % 2 = 1)
    BY <2>1, Parity
  <2>6. Alternates(r) /\ KillIsOdd(d)
    BY <2>2, <2>3, <2>4, <2>5 DEF Alternates, KillIsOdd
  <2>7. row[s].version <= r.version
    <3>1. row[s].version <= n /\ row[s].version \in Nat
      BY KillVisible DEF TypeOK, Row
    <3> QED BY <2>1, <2>2, <3>1
  <2>8. /\ mine' = [mine EXCEPT ![t][s] = r]
        /\ queued' = [queued EXCEPT ![t] = Q]
    BY <1>2 DEF Transition
  <2>9. HasUpTo(outbox \cup queued[t], s, n) /\ \A q \in queued[t] : q.scope = s => q.version <= n
    BY KillVisible
  <2>10. \A q \in queued[t] : q.version \in Nat
    BY DEF TypeOK, Decision
  <2> HIDE DEF r, d, n
  <2>11. \A q \in Q : q.scope = s => q.version <= r.version
    BY <2>1, <2>2, <2>3, <2>9, <2>10
  <2>12. HasUpTo(outbox \cup Q, s, r.version)
    <3>1. ASSUME NEW v \in 1..(n + 1) PROVE Has(outbox \cup Q, s, v)
      <4>1. CASE v = n + 1
        BY <2>3, <4>1 DEF Has
      <4>2. CASE v # n + 1
        <5>1. v \in 1..n
          BY <2>1, <3>1, <4>2
        <5> QED BY <2>9, <5>1 DEF HasUpTo, Has
      <4> QED BY <4>1, <4>2
    <3> QED BY <2>2, <3>1 DEF HasUpTo
  <2>13. queued[t] \subseteq Q /\ \A q \in Q : q \in queued[t] \/ (q.scope = s /\ KillIsOdd(q))
    BY <2>3, <2>6
  <2> HIDE DEF Q
  <2> QED BY <1>2, <2>2, <2>6, <2>7, <2>8, <2>11, <2>12, <2>13, KillWrite
<1> QED BY <1>1, <1>2, TransitionCases

\* The end of a call without its writes: the other calls are left as they were.
LEMMA KillEnd ==
    ASSUME TypeOK, KillInv, NEW t \in Txns, EndTxn(t), UNCHANGED <<row, outbox>>
    PROVE  KillInv'
<1>1. /\ \A s \in Scopes : mine'[t][s] = NoRow
      /\ queued'[t] = {}
      /\ \A o \in Txns \ {t} : mine'[o] = mine[o] /\ queued'[o] = queued[o]
  BY DEF EndTxn, TypeOK
<1>2. RowsOwned'
  BY <1>1 DEF KillInv, RowsOwned
<1>3. RowsAlternate'
  BY <1>1 DEF KillInv, RowsAlternate, Alternates
<1>4. DecisionsFollow'
  BY <1>1 DEF KillInv, DecisionsFollow, HasUpTo, Has, KillIsOdd
<1> QED BY <1>2, <1>3, <1>4 DEF KillInv

\* A commit takes the rows of the call and their decisions together.
LEMMA KillCommit ==
    ASSUME TypeOK, KillInv, NEW t \in Txns, Commit(t)
    PROVE  KillInv'
<1>1. /\ \A s \in Scopes : mine'[t][s] = NoRow
      /\ queued'[t] = {}
      /\ \A o \in Txns \ {t} : mine'[o] = mine[o] /\ queued'[o] = queued[o]
  BY DEF Commit, EndTxn, TypeOK
<1>2. outbox' = outbox \cup queued[t] /\ \A s \in Scopes : row'[s] = Visible(t, s)
  BY DEF Commit
<1>3. \A o \in Txns \ {t}, s \in Scopes : mine'[o][s] # NoRow => row'[s] = row[s]
  BY <1>1, <1>2 DEF KillInv, RowsOwned, Visible
<1>4. RowsOwned'
  BY <1>1 DEF KillInv, RowsOwned
<1>5. RowsAlternate'
  <2>1. ASSUME NEW s \in Scopes, row'[s] # NoRow PROVE Alternates(row'[s])
    BY <1>2, <2>1, KillVisible
  <2>2. ASSUME NEW o \in Txns, NEW s \in Scopes, mine'[o][s] # NoRow
        PROVE  Alternates(mine'[o][s]) /\ row'[s].version <= mine'[o][s].version
    BY <1>1, <1>3, <2>2 DEF KillInv, RowsAlternate
  <2> QED BY <2>1, <2>2 DEF RowsAlternate, Alternates
<1>6. ASSUME NEW d \in outbox' PROVE KillIsOdd(d) /\ d.version <= row'[d.scope].version
  <2>1. d \in Decision /\ d.scope \in Scopes /\ d.version \in Nat
    BY <1>2, <1>6 DEF TypeOK, Decision
  <2>2. /\ row[d.scope].version <= Visible(t, d.scope).version
        /\ row[d.scope].version \in Nat /\ Visible(t, d.scope).version \in Nat
    BY <2>1, KillVisible, VisibleType DEF TypeOK, Row
  <2>3. CASE d \in outbox
    <3>1. KillIsOdd(d) /\ d.version <= row[d.scope].version
      BY <2>3 DEF KillInv, DecisionsFollow
    <3> QED BY <1>2, <2>1, <2>2, <3>1
  <2>4. CASE d \in queued[t]
    <3>1. KillIsOdd(d) /\ d.version <= Visible(t, d.scope).version
      BY <2>1, <2>4, KillVisible DEF KillInv, DecisionsFollow
    <3> QED BY <1>2, <2>1, <3>1
  <2> QED BY <1>2, <1>6, <2>3, <2>4
<1>7. \A s \in Scopes : HasUpTo(outbox', s, row'[s].version)
  BY <1>2, KillVisible
<1>8. ASSUME NEW o \in Txns, NEW d \in queued'[o]
      PROVE  /\ KillIsOdd(d)
             /\ mine'[o][d.scope] # NoRow
             /\ d.version <= mine'[o][d.scope].version
  BY <1>1, <1>8 DEF KillInv, DecisionsFollow
<1>9. ASSUME NEW o \in Txns, NEW s \in Scopes, mine'[o][s] # NoRow
      PROVE  HasUpTo(outbox' \cup queued'[o], s, mine'[o][s].version)
  <2>1. o # t /\ HasUpTo(outbox \cup queued[o], s, mine[o][s].version)
    BY <1>1, <1>9 DEF KillInv, DecisionsFollow
  <2> QED BY <1>1, <1>2, <2>1 DEF HasUpTo, Has
<1>10. DecisionsFollow'
  BY <1>6, <1>7, <1>8, <1>9 DEF DecisionsFollow, HasUpTo, Has, KillIsOdd
<1> QED BY <1>4, <1>5, <1>10 DEF KillInv

\* Every statement of every call keeps rows and decisions together.
LEMMA KillStep == TypeOK /\ KillInv /\ [Next]_vars => KillInv'
<1> SUFFICES ASSUME TypeOK, KillInv, [Next]_vars PROVE KillInv'
  OBVIOUS
<1>1. ASSUME NEW t \in Txns, NEW s \in Scopes, NEW b \in BOOLEAN,
             evaluate_kill_switch(t, s, b)
      PROVE  KillInv'
  BY <1>1, KillFrame DEF evaluate_kill_switch, db, txn
<1>2. ASSUME NEW t \in Txns, is_tenant_gated(t) PROVE KillInv'
  BY <1>2, KillFrame DEF is_tenant_gated, db, txn
<1>3. ASSUME NEW t \in Txns, is_authorized(t) PROVE KillInv'
  BY <1>3, KillFrame DEF is_authorized, db, txn
<1>4. ASSUME NEW t \in Txns, get_or_create_state(t) PROVE KillInv'
  <2> DEFINE s == scope[t]
             r == [state |-> "clear", reason |-> None, version |-> 0]
  <2>1. s \in Scopes /\ UNCHANGED <<row, outbox, queued>>
    BY <1>4 DEF get_or_create_state, db, TypeOK
  <2>2. CASE Visible(t, s) # NoRow
    BY <1>4, <2>1, <2>2, KillFrame DEF get_or_create_state
  <2>3. CASE Visible(t, s) = NoRow
    <3>1. ~RowLocked(t, s) /\ mine' = [mine EXCEPT ![t][s] = r]
      BY <1>4, <2>3 DEF get_or_create_state
    <3>2. r \in Row /\ r # NoRow /\ Alternates(r) /\ r.version = 0
      BY DEF Row, NoRow, None, Alternates
    <3>3. row[s] = NoRow /\ row[s].version = 0
      BY <2>3 DEF Visible, NoRow
    <3>4. queued' = [queued EXCEPT ![t] = queued[t]]
      BY <2>1 DEF TypeOK
    <3>5. \A d \in queued[t] : d.scope = s => d.version <= r.version
      <4>1. Visible(t, s).version = r.version
        BY <2>3, <3>2 DEF NoRow
      <4> HIDE DEF r, s
      <4> QED BY <2>1, <4>1, KillVisible
    <3>6. HasUpTo(outbox \cup queued[t], s, r.version)
      BY <3>2 DEF HasUpTo
    <3>7. row[s].version <= r.version
      BY <3>2, <3>3
    <3> DEFINE Q == queued[t]
    <3>8. /\ queued' = [queued EXCEPT ![t] = Q] /\ queued[t] \subseteq Q
          /\ \A d \in Q : d \in queued[t] \/ (d.scope = s /\ KillIsOdd(d))
          /\ \A d \in Q : d.scope = s => d.version <= r.version
          /\ HasUpTo(outbox \cup Q, s, r.version)
      BY <3>4, <3>5, <3>6
    <3>9. UNCHANGED <<row, outbox>> /\ s \in Scopes
      BY <2>1
    <3> HIDE DEF r, s, Q
    <3> QED BY <3>1, <3>2, <3>7, <3>8, <3>9, KillWrite
  <2> QED BY <2>2, <2>3
<1>5. ASSUME NEW t \in Txns, try_transition_to_killed(t) PROVE KillInv'
  <2>1. scope[t] \in Scopes /\ UNCHANGED <<row, outbox>>
    BY <1>5 DEF try_transition_to_killed, db, TypeOK
  <2> QED BY <1>5, <2>1, KillTransition DEF try_transition_to_killed
<1>6. ASSUME NEW t \in Txns, NEW a \in Agents, authorize_agent(t, a) PROVE KillInv'
  BY <1>6, KillFrame DEF authorize_agent, db, txn
<1>7. ASSUME NEW t \in Txns, InsertAuthorization(t) PROVE KillInv'
  BY <1>7, KillFrame DEF InsertAuthorization, db
<1>8. ASSUME NEW t \in Txns, ListKilledScopes(t) PROVE KillInv'
  BY <1>8, KillFrame DEF ListKilledScopes, db, txn
<1>9. ASSUME NEW t \in Txns, NEW s \in Scopes, clear_kill_switch(t, s) PROVE KillInv'
  BY <1>9, KillFrame DEF clear_kill_switch, db, txn
<1>10. ASSUME NEW t \in Txns, NEW s \in Scopes, ReadReason(t, s) PROVE KillInv'
  BY <1>10, KillFrame DEF ReadReason, db, txn
<1>11. ASSUME NEW t \in Txns, try_transition_to_clear(t) PROVE KillInv'
  <2>1. scope[t] \in Scopes /\ UNCHANGED <<row, outbox>>
    BY <1>11 DEF try_transition_to_clear, db, TypeOK
  <2> QED BY <1>11, <2>1, KillTransition DEF try_transition_to_clear
<1>12. ASSUME NEW t \in Txns, NothingLeft(t) PROVE KillInv'
  BY <1>12, KillFrame DEF NothingLeft, db, txn
<1>13. ASSUME NEW t \in Txns, Commit(t) PROVE KillInv'
  BY <1>13, KillCommit
<1>14. ASSUME NEW t \in Txns, Abort(t) PROVE KillInv'
  BY <1>14, KillEnd DEF Abort, db
<1>15. ASSUME NEW a \in Agents, revoke_agent(a) PROVE KillInv'
  BY <1>15, KillFrame DEF revoke_agent, txn
<1>16. CASE UNCHANGED vars
  BY <1>16, KillFrame DEF vars, db, txn
<1> QED
  BY <1>1, <1>2, <1>3, <1>4, <1>5, <1>6, <1>7, <1>8, <1>9, <1>10, <1>11, <1>12,
     <1>13, <1>14, <1>15, <1>16
  DEF Next

\* The inductive invariant holds throughout.
LEMMA KillAlways == Spec => [](TypeOK /\ KillInv)
BY TypeInit, KillInit, TypeStep, KillStep, PTL DEF Spec

\* "Exactly one publishes": whatever events, overrides, authorizations and failures
\* interleave, the decisions of a scope are a kill, a clear, a kill, ... with the
\* versions 1, 2, 3, ... (try_transition_to_killed, try_transition_to_clear).
THEOREM KillsAndClearsAlternate == Spec => []KillsAlternate
<1>1. KillInv => KillsAlternate
  BY DEF KillInv, DecisionsFollow, KillsAlternate, HasUpTo, Has, KillIsOdd
<1> QED BY <1>1, KillAlways, PTL

\* The newest decision in the outbox is always the one that put the scope's row into
\* its state (_kill, _clear_scope: the row and its decision commit together).
THEOREM OutboxTellsState == Spec => []NewestDecisionIsState
<1>1. TypeOK /\ KillInv => NewestDecisionIsState
  <2> SUFFICES ASSUME TypeOK, KillInv, NEW s \in Scopes
               PROVE  /\ \A d \in outbox : d.scope = s => d.version <= row[s].version
                      /\ row[s].version > 0 =>
                            \E d \in outbox :
                               /\ d.scope = s
                               /\ d.version = row[s].version
                               /\ d.transition = "kill" <=> row[s].state = "killed"
    BY DEF NewestDecisionIsState
  <2>1. \A d \in outbox : d.scope = s => d.version <= row[s].version
    BY DEF KillInv, DecisionsFollow
  <2>2. ASSUME row[s].version > 0
        PROVE  \E d \in outbox : /\ d.scope = s
                                 /\ d.version = row[s].version
                                 /\ d.transition = "kill" <=> row[s].state = "killed"
    <3>1. row[s].version \in 1..row[s].version /\ row[s] # NoRow
      BY <2>2 DEF TypeOK, Row, NoRow
    <3>2. Alternates(row[s])
      BY <3>1 DEF KillInv, RowsAlternate
    <3>3. PICK d \in outbox : d.scope = s /\ d.version = row[s].version
      BY <3>1 DEF KillInv, DecisionsFollow, HasUpTo, Has
    <3>4. KillIsOdd(d)
      BY DEF KillInv, DecisionsFollow
    <3> QED BY <3>2, <3>3, <3>4 DEF Alternates, KillIsOdd
  <2> QED BY <2>1, <2>2
<1> QED BY <1>1, KillAlways, PTL
=============================================================================
