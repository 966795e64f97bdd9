------------------------ MODULE PolicyDeliveryProofs ------------------------
(***************************************************************************)
(* Theorems about the way of a decision: Delta's publish outbox, the       *)
(* Orchestrator's fan-out, the two joined at their HTTP call, and the      *)
(* composition with rollbacks, re-drives and the kill-switch that the run  *)
(* Decisions checks, for any number of drainers, rows, distributions and   *)
(* Sentinels.                                                              *)
(***************************************************************************)
EXTENDS MCDelivery, WellFoundedInduction, TLAPS

-----------------------------------------------------------------------------
(* The next row of a drain *)

Less == {p \in Nat \X Nat : p[1] < p[2]}

\* There is no endless descent in the natural numbers.
LEMMA LessWellFounded == IsWellFoundedOn(Less, Nat)
<1>1. OpToRel(<, Nat) = Less
  BY Zenon DEF OpToRel, Less
<1> QED BY <1>1, NatLessThanWellFounded, Zenon

\* A set of numbers has a least element: the oldest row of a snapshot.
LEMMA LeastNat ==
    ASSUME NEW S, S \subseteq Nat, S # {}
    PROVE  \E n \in S : \A m \in S : n <= m
<1>1. PICK n \in S : \A m \in S : ~(<<m, n>> \in Less)
  BY WFMin, LessWellFounded, Zenon
<1>2. ASSUME NEW m \in S PROVE n <= m
  <2>1. <<m, n>> \in Nat \X Nat
    OBVIOUS
  <2> QED BY <1>1, <2>1, SMT DEF Less
<1> QED BY <1>2

\* A drainer with ids left looks at one of them.
LEMMA RowOfType ==
    ASSUME OutboxTypeOK, NEW d \in Drainers, ids[d] # {}
    PROVE  RowOf(d) \in ids[d] /\ RowOf(d) \in Rows
<1>1. ids[d] \subseteq Rows /\ Rows \subseteq Nat
  BY OutboxAssumption DEF OutboxTypeOK, Rows
<1>2. \E r \in ids[d] : \A q \in ids[d] : r <= q
  BY <1>1, LeastNat
<1> QED BY <1>1, <1>2 DEF RowOf

\* It stays at the same row while its list stays the same.
LEMMA RowOfSame ==
    ASSUME NEW d, ids'[d] = ids[d]
    PROVE  RowOf(d)' = RowOf(d)
BY DEF RowOf

-----------------------------------------------------------------------------
(* The outbox *)

Working(d) == drainAt[d] \in {"publish", "record"}

\* A drainer at work has locked its row, which is pending; and only such drainers
\* hold locks.
RowsLocked ==
    /\ \A d \in Drainers : Working(d) => ids[d] # {} /\ holder[RowOf(d)] = d
    /\ \A r \in Rows : holder[r] # Nobody =>
          Working(holder[r]) /\ RowOf(holder[r]) = r /\ state[r] = "pending"

\* The columns say what O-004 and Delta know of each other.
AcceptanceTold ==
    /\ \A r \in Rows :
          /\ state[r] \in {"none", "pending"} => attempts[r] < MaxAttempts
          /\ state[r] = "none" => accepted[r] = "no"
          /\ state[r] = "distributed" => accepted[r] = "known"
          /\ accepted[r] # "again"
          /\ accepted[r] = "known" =>
                \/ state[r] = "distributed"
                \/ /\ holder[r] # Nobody
                   /\ drainAt[holder[r]] = "record" /\ outcome[holder[r]] = "202"
    /\ \A d \in Drainers :
          drainAt[d] = "record" /\ outcome[d] = "202" => accepted[RowOf(d)] = "known"

OutboxInv == OutboxTypeOK /\ RowsLocked /\ AcceptanceTold

\* The outbox starts empty.
LEMMA OutboxStart == OutboxInit => OutboxInv
BY OutboxAssumption
DEF OutboxInit, OutboxInv, OutboxTypeOK, RowsLocked, AcceptanceTold, Working, Outcomes

\* The parts of the invariant as seen from a drainer at work.
LEMMA WorkingRow ==
    ASSUME OutboxInv, NEW d \in Drainers, Working(d)
    PROVE  /\ RowOf(d) \in Rows /\ RowOf(d) \in ids[d] /\ holder[RowOf(d)] = d
           /\ state[RowOf(d)] = "pending" /\ attempts[RowOf(d)] < MaxAttempts
           /\ \A o \in Drainers : Working(o) /\ RowOf(o) = RowOf(d) => o = d
<1>1. ids[d] # {} /\ holder[RowOf(d)] = d
  BY DEF OutboxInv, RowsLocked
<1>2. RowOf(d) \in Rows /\ RowOf(d) \in ids[d]
  BY <1>1, RowOfType DEF OutboxInv
<1>3. d # Nobody
  BY OutboxAssumption
<1>4. state[RowOf(d)] = "pending"
  BY <1>1, <1>2, <1>3 DEF OutboxInv, RowsLocked
<1> QED BY <1>1, <1>2, <1>4 DEF OutboxInv, RowsLocked, AcceptanceTold

\* A decision enters the outbox, and becomes due again.
LEMMA EnqueueKeeps ==
    ASSUME OutboxInv, NEW r \in Rows, enqueue_decision(r) \/ BackoffEnds(r)
    PROVE  OutboxInv'
<1>1. /\ UNCHANGED <<attempts, draining, accepted, crashes>>
      /\ state' = state \/ (state[r] = "none" /\ state' = [state EXCEPT ![r] = "pending"])
      /\ due' = [due EXCEPT ![r] = TRUE]
  BY DEF enqueue_decision, BackoffEnds
<1>2. OutboxTypeOK'
  BY <1>1 DEF OutboxInv, OutboxTypeOK, draining
<1>3. \A d \in Drainers : RowOf(d)' = RowOf(d)
  BY <1>1, RowOfSame DEF draining
<1>4. RowsLocked'
  BY <1>1, <1>3 DEF OutboxInv, OutboxTypeOK, RowsLocked, Working, draining
<1>5. AcceptanceTold'
  BY <1>1, <1>3 DEF OutboxInv, OutboxTypeOK, AcceptanceTold, draining
<1> QED BY <1>2, <1>4, <1>5 DEF OutboxInv

\* A drain begins, or ends: no row changes.
LEMMA DrainKeeps ==
    ASSUME OutboxInv, NEW d \in Drainers, due_outbox_ids(d) \/ EndDrain(d)
    PROVE  OutboxInv'
<1>1. /\ drainAt[d] \in {"idle", "claim"}
      /\ drainAt' = [drainAt EXCEPT ![d] = IF @ = "idle" THEN "claim" ELSE "idle"]
      /\ \A o \in Drainers \ {d} : ids'[o] = ids[o]
      /\ ids' \in [Drainers -> SUBSET Rows]
      /\ UNCHANGED <<columns, holder, outcome, accepted, crashes>>
  BY DEF due_outbox_ids, EndDrain, OutboxInv, OutboxTypeOK, DueRows
<1>2. OutboxTypeOK'
  BY <1>1 DEF OutboxInv, OutboxTypeOK, columns
<1>3. \A o \in Drainers \ {d} : RowOf(o)' = RowOf(o) /\ drainAt'[o] = drainAt[o]
  BY <1>1, RowOfSame DEF OutboxInv, OutboxTypeOK
<1>4. drainAt'[d] \in {"idle", "claim"} /\ \A r \in Rows : holder[r] # d
  BY <1>1, OutboxAssumption DEF OutboxInv, OutboxTypeOK, RowsLocked, Working
<1>5. RowsLocked'
  BY <1>1, <1>3, <1>4 DEF OutboxInv, OutboxTypeOK, RowsLocked, Working, columns
<1>6. AcceptanceTold'
  BY <1>1, <1>3, <1>4 DEF OutboxInv, OutboxTypeOK, AcceptanceTold, columns
<1> QED BY <1>2, <1>5, <1>6 DEF OutboxInv

\* claim_one locks a row that is still pending, or passes over it.
LEMMA ClaimKeeps ==
    ASSUME OutboxInv, NEW d \in Drainers, claim_one(d)
    PROVE  OutboxInv'
<1>1. /\ drainAt[d] = "claim" /\ ids[d] # {}
      /\ UNCHANGED <<columns, outcome, accepted, crashes>>
  BY DEF claim_one
<1>2. RowOf(d) \in Rows /\ RowOf(d) \in ids[d]
  BY <1>1, RowOfType DEF OutboxInv
<1>3. \A r \in Rows : holder[r] # d
  BY <1>1, OutboxAssumption DEF OutboxInv, OutboxTypeOK, RowsLocked, Working
<1>4. CASE /\ Claimable(RowOf(d))
           /\ holder' = [holder EXCEPT ![RowOf(d)] = d]
           /\ drainAt' = [drainAt EXCEPT ![d] = "publish"]
           /\ UNCHANGED ids
  <2>1. OutboxTypeOK'
    BY <1>1, <1>2, <1>4 DEF OutboxInv, OutboxTypeOK, columns
  <2>2. \A o \in Drainers : RowOf(o)' = RowOf(o)
    BY <1>4, RowOfSame
  <2>3. \A o \in Drainers \ {d} : drainAt'[o] = drainAt[o]
    BY <1>4 DEF OutboxInv, OutboxTypeOK
  <2>4. drainAt'[d] = "publish" /\ holder'[RowOf(d)] = d
    BY <1>2, <1>4 DEF OutboxInv, OutboxTypeOK
  <2>5. \A r \in Rows : r # RowOf(d) => holder'[r] = holder[r]
    BY <1>2, <1>4 DEF OutboxInv, OutboxTypeOK
  <2>6. state[RowOf(d)] = "pending" /\ holder[RowOf(d)] = Nobody
    BY <1>4 DEF Claimable
  <2>7. ASSUME NEW o \in Drainers, Working(o)'
        PROVE  ids'[o] # {} /\ holder'[RowOf(o)'] = o
    <3>1. CASE o = d
      BY <1>1, <1>4, <2>2, <2>4, <3>1
    <3>2. CASE o # d
      <4>1. Working(o) /\ ids[o] # {} /\ holder[RowOf(o)] = o
        BY <2>3, <2>7, <3>2 DEF Working, OutboxInv, RowsLocked
      <4>2. RowOf(o) \in Rows
        BY <4>1, RowOfType DEF OutboxInv
      <4>3. RowOf(o) # RowOf(d)
        BY <2>6, <4>1, OutboxAssumption
      <4> QED BY <1>4, <2>2, <2>5, <4>1, <4>2, <4>3
    <3> QED BY <3>1, <3>2
  <2>8. ASSUME NEW r \in Rows, holder'[r] # Nobody
        PROVE  Working(holder[r])' /\ RowOf(holder[r])' = r /\ state'[r] = "pending"
    <3>1. CASE r = RowOf(d)
      BY <1>1, <2>2, <2>4, <2>6, <3>1 DEF Working, columns
    <3>2. CASE r # RowOf(d)
      <4>1. holder'[r] = holder[r] /\ holder[r] # d /\ holder[r] \in Drainers
        BY <1>3, <2>5, <2>8, <3>2 DEF OutboxInv, OutboxTypeOK
      <4>2. Working(holder[r]) /\ RowOf(holder[r]) = r /\ state[r] = "pending"
        BY <2>8, <4>1 DEF OutboxInv, RowsLocked
      <4> QED BY <1>1, <2>2, <2>3, <4>1, <4>2 DEF Working, columns
    <3> QED BY <3>1, <3>2
  <2>9. RowsLocked'
    BY <2>7, <2>8 DEF RowsLocked
  <2>10. ASSUME NEW r \in Rows, accepted'[r] = "known"
         PROVE  \/ state'[r] = "distributed"
                \/ /\ holder'[r] # Nobody
                   /\ drainAt'[holder'[r]] = "record" /\ outcome'[holder'[r]] = "202"
    <3>1. accepted[r] = "known"
      BY <1>1, <2>10
    <3>2. CASE state[r] = "distributed"
      BY <1>1, <3>2 DEF columns
    <3>3. CASE /\ holder[r] # Nobody
               /\ drainAt[holder[r]] = "record" /\ outcome[holder[r]] = "202"
      <4>1. r # RowOf(d) /\ holder[r] \in Drainers \ {d}
        BY <1>3, <2>6, <3>3 DEF OutboxInv, OutboxTypeOK
      <4> QED BY <1>1, <2>3, <2>5, <3>3, <4>1
    <3> QED BY <3>1, <3>2, <3>3 DEF OutboxInv, AcceptanceTold
  <2>11. ASSUME NEW o \in Drainers, drainAt'[o] = "record", outcome'[o] = "202"
         PROVE  accepted'[RowOf(o)'] = "known"
    BY <1>1, <2>2, <2>3, <2>4, <2>11 DEF OutboxInv, AcceptanceTold
  <2>12. AcceptanceTold'
    BY <1>1, <2>10, <2>11 DEF OutboxInv, AcceptanceTold, columns
  <2> QED BY <2>1, <2>9, <2>12 DEF OutboxInv
<1>5. CASE ids' = [ids EXCEPT ![d] = @ \ {RowOf(d)}] /\ UNCHANGED <<holder, drainAt>>
  <2>1. OutboxTypeOK'
    BY <1>1, <1>5 DEF OutboxInv, OutboxTypeOK, columns
  <2>2. \A o \in Drainers \ {d} : RowOf(o)' = RowOf(o) /\ ids'[o] = ids[o]
    BY <1>5, RowOfSame DEF OutboxInv, OutboxTypeOK
  <2>3. RowsLocked'
    BY <1>1, <1>3, <1>5, <2>2 DEF OutboxInv, OutboxTypeOK, RowsLocked, Working, columns
  <2>4. AcceptanceTold'
    BY <1>1, <1>3, <1>5, <2>2 DEF OutboxInv, OutboxTypeOK, AcceptanceTold, columns
  <2> QED BY <2>1, <2>3, <2>4 DEF OutboxInv
<1> QED BY <1>4, <1>5 DEF claim_one

\* A POST of the locked row, whatever became of it: nobody else can have it.
LEMMA PublishKeeps ==
    ASSUME OutboxInv, NEW d \in Drainers, Publish(d)
    PROVE  OutboxInv'
<1>1. PICK o \in Outcomes :
         /\ drainAt[d] = "publish"
         /\ outcome' = [outcome EXCEPT ![d] = o]
         /\ drainAt' = [drainAt EXCEPT ![d] = "record"]
         /\ UNCHANGED <<columns, holder, ids, crashes>>
         /\ \/ o = "202" /\ Persist(RowOf(d), "known")
            \/ o = "transient" /\ Persist(RowOf(d), "unsure")
            \/ o # "202" /\ accepted' = accepted
  BY DEF Publish, PublishAccepted, PublishAnswerLost, PublishRefused, Outcomes
<1> DEFINE r == RowOf(d)
<1>2. /\ r \in Rows /\ holder[r] = d /\ state[r] = "pending" /\ d # Nobody
      /\ \A e \in Drainers : Working(e) /\ RowOf(e) = r => e = d
  BY <1>1, WorkingRow, OutboxAssumption DEF Working
<1>3. accepted[r] \in {"no", "unsure"}
  <2>1. accepted[r] \in {"no", "unsure", "known", "again"} /\ accepted[r] # "again"
    BY <1>2 DEF OutboxInv, OutboxTypeOK, AcceptanceTold
  <2>2. accepted[r] # "known"
    BY <1>1, <1>2 DEF OutboxInv, AcceptanceTold
  <2> QED BY <2>1, <2>2
<1> HIDE DEF r
<1>4. /\ \A q \in Rows : q # r => accepted'[q] = accepted[q]
      /\ o = "202" => accepted'[r] = "known"
      /\ o # "202" => accepted'[r] \in {"no", "unsure"}
      /\ accepted' \in [Rows -> {"no", "unsure", "known", "again"}]
  BY <1>1, <1>2, <1>3 DEF Persist, OutboxInv, OutboxTypeOK, r
<1>5. /\ drainAt'[d] = "record" /\ outcome'[d] = o
      /\ \A e \in Drainers \ {d} : drainAt'[e] = drainAt[e] /\ outcome'[e] = outcome[e]
      /\ \A e \in Drainers : RowOf(e)' = RowOf(e)
  BY <1>1, RowOfSame DEF OutboxInv, OutboxTypeOK
<1>6. OutboxTypeOK'
  BY <1>1, <1>4 DEF OutboxInv, OutboxTypeOK, columns
<1>7. RowsLocked'
  BY <1>1, <1>5 DEF OutboxInv, OutboxTypeOK, RowsLocked, Working, columns
<1>8. ASSUME NEW q \in Rows
      PROVE  /\ state'[q] \in {"none", "pending"} => attempts'[q] < MaxAttempts
             /\ state'[q] = "none" => accepted'[q] = "no"
             /\ state'[q] = "distributed" => accepted'[q] = "known"
             /\ accepted'[q] # "again"
             /\ accepted'[q] = "known" =>
                   \/ state'[q] = "distributed"
                   \/ /\ holder'[q] # Nobody
                      /\ drainAt'[holder'[q]] = "record" /\ outcome'[holder'[q]] = "202"
  <2>1. CASE q = r
    BY <1>1, <1>2, <1>4, <1>5, <2>1 DEF OutboxInv, AcceptanceTold, columns
  <2>2. CASE q # r
    <3>1. holder[q] \in Drainers \cup {Nobody} /\ holder[q] # d
      BY <1>1, <1>2, <2>2 DEF OutboxInv, OutboxTypeOK, RowsLocked, r
    <3> QED BY <1>1, <1>4, <1>5, <2>2, <3>1 DEF OutboxInv, AcceptanceTold, columns
  <2> QED BY <2>1, <2>2
<1>9. ASSUME NEW e \in Drainers, drainAt'[e] = "record", outcome'[e] = "202"
      PROVE  accepted'[RowOf(e)'] = "known"
  <2>1. CASE e = d
    BY <1>4, <1>5, <1>9, <2>1 DEF r
  <2>2. CASE e # d
    <3>1. Working(e) /\ accepted[RowOf(e)] = "known"
      BY <1>5, <1>9, <2>2 DEF Working, OutboxInv, AcceptanceTold
    <3>2. RowOf(e) \in Rows /\ RowOf(e) # r
      BY <1>2, <2>2, <3>1, WorkingRow
    <3> QED BY <1>4, <1>5, <3>1, <3>2
  <2> QED BY <2>1, <2>2
<1>10. AcceptanceTold'
  BY <1>8, <1>9 DEF AcceptanceTold
<1> QED BY <1>6, <1>7, <1>10 DEF OutboxInv

\* The drainer at work gives its row back: with what it has to record, or rolled
\* back.  What other drainers hold is not touched.
LEMMA GiveBack ==
    ASSUME OutboxInv, NEW d \in Drainers, NEW r, Working(d), r = RowOf(d), OutboxTypeOK',
           holder' = [holder EXCEPT ![r] = Nobody],
           drainAt' = [drainAt EXCEPT ![d] = "claim"],
           \A e \in Drainers \ {d} : ids'[e] = ids[e] /\ outcome'[e] = outcome[e],
           \A q \in Rows \ {r} : /\ state'[q] = state[q] /\ attempts'[q] = attempts[q]
                                 /\ accepted'[q] = accepted[q],
           state'[r] = "pending" => attempts'[r] < MaxAttempts,
           state'[r] # "none", accepted'[r] # "again",
           state'[r] = "distributed" <=> accepted'[r] = "known"
    PROVE  OutboxInv'
<1>1. /\ r \in Rows /\ holder[r] = d /\ d # Nobody
      /\ \A e \in Drainers : Working(e) /\ RowOf(e) = r => e = d
  BY WorkingRow, OutboxAssumption
<1>2. /\ drainAt'[d] = "claim" /\ holder'[r] = Nobody
      /\ \A e \in Drainers \ {d} : drainAt'[e] = drainAt[e] /\ RowOf(e)' = RowOf(e)
      /\ \A q \in Rows \ {r} : holder'[q] = holder[q] /\ holder[q] # d
  BY <1>1, RowOfSame DEF OutboxInv, OutboxTypeOK, RowsLocked
<1>3. ASSUME NEW e \in Drainers, Working(e)'
      PROVE  /\ e # d /\ Working(e) /\ RowOf(e)' = RowOf(e) /\ RowOf(e) \in Rows \ {r}
             /\ ids'[e] # {} /\ holder'[RowOf(e)'] = e
  <2>1. e # d /\ Working(e)
    BY <1>2, <1>3 DEF Working
  <2>2. RowOf(e) \in Rows \ {r} /\ holder[RowOf(e)] = e /\ ids[e] # {}
    BY <1>1, <2>1, WorkingRow DEF OutboxInv, RowsLocked
  <2> QED BY <1>2, <2>1, <2>2
<1>4. ASSUME NEW q \in Rows, holder'[q] # Nobody
      PROVE  Working(holder[q])' /\ RowOf(holder[q])' = q /\ state'[q] = "pending"
  <2>1. q # r /\ holder'[q] = holder[q] /\ holder[q] \in Drainers \ {d}
    BY <1>2, <1>4 DEF OutboxInv, OutboxTypeOK
  <2>2. Working(holder[q]) /\ RowOf(holder[q]) = q /\ state[q] = "pending"
    BY <1>4, <2>1 DEF OutboxInv, RowsLocked
  <2> QED BY <1>2, <2>1, <2>2 DEF Working
<1>5. RowsLocked'
  BY <1>3, <1>4 DEF RowsLocked
<1>6. ASSUME NEW q \in Rows
      PROVE  /\ state'[q] \in {"none", "pending"} => attempts'[q] < MaxAttempts
             /\ state'[q] = "none" => accepted'[q] = "no"
             /\ state'[q] = "distributed" => accepted'[q] = "known"
             /\ accepted'[q] # "again"
             /\ accepted'[q] = "known" =>
                   \/ state'[q] = "distributed"
                   \/ /\ holder'[q] # Nobody
                      /\ drainAt'[holder'[q]] = "record" /\ outcome'[holder'[q]] = "202"
  <2>1. CASE q = r
    BY <2>1
  <2>2. CASE q # r
    <3>1. holder[q] \in Drainers \cup {Nobody} /\ holder[q] # d /\ holder'[q] = holder[q]
      BY <1>2, <2>2 DEF OutboxInv, OutboxTypeOK
    <3> QED BY <1>2, <2>2, <3>1 DEF OutboxInv, AcceptanceTold
  <2> QED BY <2>1, <2>2
<1>7. ASSUME NEW e \in Drainers, drainAt'[e] = "record", outcome'[e] = "202"
      PROVE  accepted'[RowOf(e)'] = "known"
  <2>1. Working(e)'
    BY <1>7 DEF Working
  <2>2. accepted[RowOf(e)] = "known"
    BY <1>2, <1>3, <1>7, <2>1 DEF OutboxInv, AcceptanceTold
  <2> QED BY <1>3, <2>1, <2>2
<1>8. AcceptanceTold'
  BY <1>6, <1>7 DEF AcceptanceTold
<1> QED BY <1>5, <1>8 DEF OutboxInv

\* The drainer that records has told the truth about its POST.
LEMMA RecordKeeps ==
    ASSUME OutboxInv, NEW d \in Drainers, RecordOutcome(d)
    PROVE  OutboxInv'
<1> DEFINE r == RowOf(d)
           n == attempts[r] + 1
<1>1. /\ drainAt[d] = "record" /\ drainAt' = [drainAt EXCEPT ![d] = "claim"]
      /\ state' = [state EXCEPT ![r] = NextState(outcome[d], n)]
      /\ attempts' = [attempts EXCEPT ![r] = n]
      /\ due' = [due EXCEPT ![r] = FALSE]
      /\ holder' = [holder EXCEPT ![r] = Nobody]
      /\ ids' = [ids EXCEPT ![d] = @ \ {r}]
      /\ outcome' = [outcome EXCEPT ![d] = "transient"]
      /\ UNCHANGED <<accepted, crashes>>
  BY DEF RecordOutcome, OutboxInv, OutboxTypeOK
<1>2. Working(d)
  BY <1>1 DEF Working
<1>3. r \in Rows /\ holder[r] = d /\ attempts[r] < MaxAttempts /\ state[r] = "pending"
  BY <1>2, WorkingRow
<1>4. n \in 1..MaxAttempts /\ outcome[d] \in Outcomes
  BY <1>3, OutboxAssumption DEF OutboxInv, OutboxTypeOK
<1>5. /\ outcome[d] = "202" => NextState(outcome[d], n) = "distributed"
      /\ outcome[d] = "permanent" => NextState(outcome[d], n) = "failed"
      /\ outcome[d] = "transient" =>
            NextState(outcome[d], n) = IF n >= MaxAttempts THEN "failed" ELSE "pending"
  BY DEF NextState
<1>6. /\ accepted[r] # "again"
      /\ outcome[d] = "202" <=> accepted[r] = "known"
  BY <1>1, <1>3, OutboxAssumption DEF OutboxInv, AcceptanceTold
<1>7. NextState(outcome[d], n) \in {"pending", "distributed", "failed"}
  BY <1>4, <1>5 DEF Outcomes
<1> HIDE DEF r, n
<1>8. OutboxTypeOK'
  BY <1>1, <1>3, <1>4, <1>7 DEF OutboxInv, OutboxTypeOK, Outcomes
<1>9. state'[r] = NextState(outcome[d], n) /\ attempts'[r] = n /\ accepted'[r] = accepted[r]
  BY <1>1, <1>3 DEF OutboxInv, OutboxTypeOK
<1>10. /\ state'[r] # "none" /\ accepted'[r] # "again"
       /\ state'[r] = "distributed" <=> accepted'[r] = "known"
       /\ state'[r] = "pending" => attempts'[r] < MaxAttempts
  BY <1>4, <1>5, <1>6, <1>7, <1>9, OutboxAssumption DEF Outcomes
<1>11. /\ \A e \in Drainers \ {d} : ids'[e] = ids[e] /\ outcome'[e] = outcome[e]
       /\ \A q \in Rows \ {r} : /\ state'[q] = state[q] /\ attempts'[q] = attempts[q]
                                /\ accepted'[q] = accepted[q]
  BY <1>1 DEF OutboxInv, OutboxTypeOK
<1>12. /\ r = RowOf(d) /\ holder' = [holder EXCEPT ![r] = Nobody]
       /\ drainAt' = [drainAt EXCEPT ![d] = "claim"]
  BY <1>1 DEF r
<1> QED BY <1>2, <1>8, <1>10, <1>11, <1>12, GiveBack

\* A rolled back delivery leaves its row as it was, and Delta unsure of it.
LEMMA RollbackKeeps ==
    ASSUME OutboxInv, NEW d \in Drainers, NEW dies \in BOOLEAN, Rollback(d, dies)
    PROVE  OutboxInv'
<1> DEFINE r == RowOf(d)
<1>1. /\ Working(d) /\ drainAt' = [drainAt EXCEPT ![d] = "claim"]
      /\ crashes < MaxCrashes /\ crashes' = crashes + 1
      /\ holder' = [holder EXCEPT ![r] = Nobody]
      /\ accepted' = IF drainAt[d] = "record" /\ outcome[d] = "202" /\ accepted[r] = "known"
                     THEN [accepted EXCEPT ![r] = "unsure"] ELSE accepted
      /\ ids' = [ids EXCEPT ![d] = IF dies THEN {} ELSE @ \ {r}]
      /\ outcome' = [outcome EXCEPT ![d] = "transient"]
      /\ UNCHANGED columns
  BY DEF Rollback, Working
<1>2. r \in Rows /\ holder[r] = d /\ attempts[r] < MaxAttempts /\ state[r] = "pending"
  BY <1>1, WorkingRow
<1>3. accepted[r] # "again" /\ accepted'[r] \notin {"known", "again"}
  BY <1>1, <1>2 DEF OutboxInv, OutboxTypeOK, AcceptanceTold
<1>4. r = RowOf(d)
  OBVIOUS
<1> HIDE DEF r
<1>5. OutboxTypeOK'
  BY <1>1, <1>2, OutboxAssumption DEF OutboxInv, OutboxTypeOK, Outcomes, columns
<1>6. /\ \A e \in Drainers \ {d} : ids'[e] = ids[e] /\ outcome'[e] = outcome[e]
      /\ \A q \in Rows \ {r} : /\ state'[q] = state[q] /\ attempts'[q] = attempts[q]
                               /\ accepted'[q] = accepted[q]
  BY <1>1 DEF OutboxInv, OutboxTypeOK, columns
<1>7. /\ state'[r] = "pending" /\ attempts'[r] < MaxAttempts
      /\ accepted'[r] # "again" /\ accepted'[r] # "known"
  BY <1>1, <1>2, <1>3 DEF columns
<1> QED BY <1>1, <1>4, <1>5, <1>6, <1>7, GiveBack

\* Every step of every drain keeps the invariant.
LEMMA OutboxStep == OutboxInv /\ [OutboxNext]_outboxVars => OutboxInv'
<1> SUFFICES ASSUME OutboxInv, [OutboxNext]_outboxVars PROVE OutboxInv'
  OBVIOUS
<1>1. CASE UNCHANGED outboxVars
  <2>1. \A d \in Drainers : RowOf(d)' = RowOf(d)
    BY <1>1, RowOfSame DEF outboxVars, draining
  <2> QED BY <1>1, <2>1
          DEF OutboxInv, OutboxTypeOK, RowsLocked, AcceptanceTold, Working, outboxVars, columns,
              draining
<1>2. CASE OutboxNext
  BY <1>2, EnqueueKeeps, DrainKeeps, ClaimKeeps, PublishKeeps, RecordKeeps, RollbackKeeps
  DEF OutboxNext, DrainStep
<1> QED BY <1>1, <1>2

\* Overlapping drains, lost answers and crashes, in any number, leave the outbox
\* exact: no policy is sent again that Delta knew O-004 had, and the columns say
\* what happened (claim_one, _deliver_one).
THEOREM OutboxStaysExact == OutboxSpec => []OutboxIsExact
<1>1. OutboxInv => OutboxIsExact
  BY DEF OutboxInv, AcceptanceTold, OutboxIsExact, NoNeedlessResend, OutboxHonest
<1> QED BY <1>1, OutboxStart, OutboxStep, PTL DEF OutboxSpec

\* A settled row keeps its state and its attempts.
RowsKept ==
    \A r \in Rows : state[r] \in {"distributed", "failed"} =>
        state'[r] = state[r] /\ attempts'[r] = attempts[r]

LEMMA SettledKept == OutboxInv /\ OutboxNext => RowsKept
<1> SUFFICES ASSUME OutboxInv, OutboxNext PROVE RowsKept
  OBVIOUS
<1>1. ASSUME NEW r \in Rows, enqueue_decision(r) \/ BackoffEnds(r) PROVE RowsKept
  BY <1>1 DEF RowsKept, enqueue_decision, BackoffEnds, OutboxInv, OutboxTypeOK
<1>2. ASSUME NEW d \in Drainers, RecordOutcome(d) PROVE RowsKept
  <2>1. RowOf(d) \in Rows /\ state[RowOf(d)] = "pending"
    BY <1>2, WorkingRow DEF RecordOutcome, Working
  <2> QED BY <1>2, <2>1 DEF RowsKept, RecordOutcome, OutboxInv, OutboxTypeOK
<1>3. ASSUME UNCHANGED columns PROVE RowsKept
  BY <1>3 DEF RowsKept, columns
<1> QED BY <1>1, <1>2, <1>3
        DEF OutboxNext, due_outbox_ids, DrainStep, claim_one, EndDrain, Publish,
            PublishAccepted, PublishAnswerLost, PublishRefused, Rollback

\* A settled row is never touched again, by no drainer and no snapshot however old.
THEOREM SettledRowsAreFinal == OutboxSpec => SettledIsFinal
<1>1. OutboxInv /\ [OutboxNext]_outboxVars => [RowsKept]_outboxVars
  BY SettledKept
<1> QED BY <1>1, OutboxStart, OutboxStep, PTL DEF OutboxSpec, SettledIsFinal, RowsKept

-----------------------------------------------------------------------------
(* The fan-out *)

\* A Sentinel enforces the newest version it has accepted.
SentinelsMonotone ==
    \A s \in Sentinels : \A v \in live[s] : v <= active[s]

\* A task serves the targets of its distribution one at a time, keeps count of its
\* POSTs, and has a success to record only after the Sentinel accepted the version.
TaskHonest(x) ==
    /\ IF dstate[x] = "none" THEN task[x] = "none" /\ work[x] = {} /\ at[x] = {}
                             ELSE dver[x] # 0
    /\ work[x] \subseteq Targets(x) /\ at[x] \subseteq Targets(x)
    /\ \A s, q \in at[x] : s = q
    /\ task[x] = "post" => posts[x] < MaxPosts
    /\ task[x] \notin {"post", "record"} => posts[x] = 0
    /\ verdict[x] = "distributed" => task[x] = "record" /\ \A s \in at[x] : dver[x] \in live[s]

\* A success in the tables is one at the Sentinels.
ReportTrue(x) ==
    /\ \A s \in Sentinels : target[x][s] = "distributed" => dver[x] \in live[s]
    /\ dstate[x] = "distributed" =>
          Targets(x) # {} /\ \A s \in Targets(x) : dver[x] \in live[s]

FanoutInv == SentinelsMonotone /\ \A x \in Dists : TaskHonest(x) /\ ReportTrue(x)
DistInv == DistTypeOK /\ FanoutInv

\* Nothing is distributed at the start.
LEMMA DistStart == DistInit => DistInv
BY DistributionAssumption
DEF DistInit, DistInv, DistTypeOK, FanoutInv, SentinelsMonotone, TaskHonest, ReportTrue, Settled

\* The targets of a distribution depend on its own rows only.
LEMMA TargetsSame ==
    ASSUME NEW x, target'[x] = target[x]
    PROVE  Targets(x)' = Targets(x)
BY DEF Targets

\* The rows and the task of y are not those the step is about.
Untouched(y) ==
    /\ dver'[y] = dver[y] /\ dstate'[y] = dstate[y] /\ target'[y] = target[y]
    /\ task'[y] = task[y] /\ work'[y] = work[y] /\ at'[y] = at[y]
    /\ posts'[y] = posts[y] /\ verdict'[y] = verdict[y]

\* A step of the task of x leaves the other distributions alone, and the Sentinels
\* only gain versions.
LEMMA FanoutFrame ==
    ASSUME DistInv, NEW x \in Dists, DistTypeOK', SentinelsMonotone',
           \A s \in Sentinels : live[s] \subseteq live'[s],
           \A y \in Dists \ {x} : Untouched(y),
           TaskHonest(x)', ReportTrue(x)'
    PROVE  DistInv'
<1>1. ASSUME NEW y \in Dists \ {x} PROVE TaskHonest(y)' /\ ReportTrue(y)'
  <2>1. Untouched(y) /\ TaskHonest(y) /\ ReportTrue(y)
    BY DEF DistInv, FanoutInv
  <2>2. /\ Targets(y)' = Targets(y) /\ Targets(y) \subseteq Sentinels
        /\ at[y] \subseteq Sentinels
    BY <2>1, TargetsSame DEF Targets, Untouched, DistInv, DistTypeOK
  <2>3. TaskHonest(y)'
    BY <2>1, <2>2 DEF TaskHonest, Untouched
  <2>4. ReportTrue(y)'
    BY <2>1, <2>2 DEF ReportTrue, Untouched
  <2> QED BY <2>3, <2>4
<1> QED BY <1>1 DEF DistInv, FanoutInv

\* A new distribution is pending everywhere.
LEMMA SubmitKeeps ==
    ASSUME DistInv, NEW x \in Dists, NEW v \in PolicyVersions,
           NEW T \in SUBSET Sentinels, NEW ok \in BOOLEAN, submit_distribution(x, v, T, ok)
    PROVE  DistInv'
<1>1. /\ dstate[x] = "none" /\ task[x] = "none"
      /\ dver' = [dver EXCEPT ![x] = v]
      /\ dstate' = [dstate EXCEPT ![x] = "pending"]
      /\ target' = [target EXCEPT ![x] =
                      [s \in Sentinels |-> IF s \in T THEN "pending" ELSE "none"]]
      /\ task' = [task EXCEPT ![x] = IF ok THEN "scheduled" ELSE "lost"]
      /\ UNCHANGED <<work, at, posts, verdict, live, active>>
  BY DEF submit_distribution, sentinels, DistInv, FanoutInv, TaskHonest
<1>2. DistTypeOK'
  BY <1>1 DEF DistInv, DistTypeOK
<1>3. SentinelsMonotone' /\ \A s \in Sentinels : live[s] \subseteq live'[s]
  BY <1>1 DEF DistInv, FanoutInv, SentinelsMonotone
<1>4. /\ dstate'[x] = "pending" /\ dver'[x] # 0 /\ task'[x] \in {"scheduled", "lost"}
      /\ verdict'[x] # "distributed" /\ posts'[x] = 0
      /\ \A s \in Sentinels : target'[x][s] # "distributed"
      /\ work'[x] = {} /\ at'[x] = {}
  <2>1. TaskHonest(x) /\ v # 0
    BY DistributionAssumption DEF DistInv, FanoutInv
  <2>2. dstate'[x] = "pending" /\ dver'[x] = v /\ task'[x] \in {"scheduled", "lost"}
    BY <1>1 DEF DistInv, DistTypeOK
  <2>3. \A s \in Sentinels : target'[x][s] # "distributed"
    BY <1>1 DEF DistInv, DistTypeOK
  <2>4. /\ verdict'[x] # "distributed" /\ posts'[x] = 0
        /\ work'[x] = {} /\ at'[x] = {}
    BY <1>1, <2>1 DEF TaskHonest
  <2> QED BY <2>1, <2>2, <2>3, <2>4
<1>5. \A y \in Dists \ {x} : Untouched(y)
  BY <1>1 DEF DistInv, DistTypeOK, Untouched
<1>6. TaskHonest(x)'
  BY <1>4 DEF TaskHonest
<1>7. ReportTrue(x)'
  BY <1>4 DEF ReportTrue
<1> QED BY <1>2, <1>3, <1>5, <1>6, <1>7, FanoutFrame

\* A step of the task that changes neither its tables nor a Sentinel.
LEMMA TaskFrame ==
    ASSUME DistInv, NEW x \in Dists, NEW t, NEW W \in SUBSET Targets(x),
           NEW A \in SUBSET Targets(x),
           t \in {"scheduled", "fanout", "post", "record", "done", "lost"},
           dstate[x] # "none" \/ task[x] # "none",
           task' = [task EXCEPT ![x] = t], work' = [work EXCEPT ![x] = W],
           at' = [at EXCEPT ![x] = A], \A s, q \in A : s = q,
           posts' = [posts EXCEPT ![x] = 0], verdict' = [verdict EXCEPT ![x] = "failed"],
           UNCHANGED <<tables, sentinels>>
    PROVE  DistInv'
<1>1. W \in SUBSET Sentinels /\ A \in SUBSET Sentinels
  BY DEF Targets
<1>2. DistTypeOK'
  BY <1>1, DistributionAssumption DEF DistInv, DistTypeOK, tables, sentinels, Settled
<1>3. SentinelsMonotone' /\ \A s \in Sentinels : live[s] \subseteq live'[s]
  BY DEF DistInv, FanoutInv, SentinelsMonotone, sentinels
<1>4. \A y \in Dists \ {x} : Untouched(y)
  BY DEF DistInv, DistTypeOK, tables, Untouched
<1>5. /\ dstate'[x] # "none" /\ dver'[x] # 0 /\ task'[x] = t /\ posts'[x] = 0
      /\ 0 < MaxPosts /\ verdict'[x] = "failed" /\ work'[x] = W /\ at'[x] = A
  BY DistributionAssumption DEF DistInv, DistTypeOK, FanoutInv, TaskHonest, tables
<1>6. Targets(x)' = Targets(x) /\ Targets(x) \subseteq Sentinels
  BY TargetsSame DEF tables, Targets
<1>7. TaskHonest(x)'
  BY <1>5, <1>6 DEF TaskHonest
<1>8. ReportTrue(x)'
  BY <1>6 DEF DistInv, FanoutInv, ReportTrue, tables, sentinels
<1> QED BY <1>2, <1>3, <1>4, <1>7, <1>8, FanoutFrame

\* What a task that is not at a POST holds: nothing of an earlier target.
LEMMA IdleTask ==
    ASSUME DistInv, NEW x \in Dists, task[x] \notin {"post", "record"}
    PROVE  posts = [posts EXCEPT ![x] = 0] /\ verdict = [verdict EXCEPT ![x] = "failed"]
<1>1. posts[x] = 0 /\ verdict[x] = "failed"
  BY DEF DistInv, DistTypeOK, FanoutInv, TaskHonest, Settled
<1> QED BY <1>1 DEF DistInv, DistTypeOK

\* Starting the fan-out, or starting it again.
LEMMA DriveKeeps ==
    ASSUME DistInv, NEW x \in Dists, drive_distribution(x)
    PROVE  DistInv'
<1>1. posts = [posts EXCEPT ![x] = 0] /\ verdict = [verdict EXCEPT ![x] = "failed"]
  BY IdleTask DEF drive_distribution
<1>2. /\ task' = [task EXCEPT ![x] = "fanout"] /\ work' = [work EXCEPT ![x] = Targets(x)]
      /\ at' = [at EXCEPT ![x] = at[x]] /\ task[x] # "none"
      /\ posts' = [posts EXCEPT ![x] = 0] /\ verdict' = [verdict EXCEPT ![x] = "failed"]
      /\ UNCHANGED <<tables, sentinels>>
  BY <1>1 DEF drive_distribution, DistInv, DistTypeOK
<1>3. /\ Targets(x) \in SUBSET Targets(x) /\ at[x] \in SUBSET Targets(x)
      /\ \A s, q \in at[x] : s = q
  BY DEF DistInv, FanoutInv, TaskHonest
<1> QED BY <1>2, <1>3, TaskFrame

\* Turning to the next target.
LEMMA NextKeeps ==
    ASSUME DistInv, NEW x \in Dists, NEW s \in Sentinels, NextTarget(x, s)
    PROVE  DistInv'
<1> DEFINE t == IF s \in Known THEN "post" ELSE "record"
<1>1. posts = [posts EXCEPT ![x] = 0] /\ verdict = [verdict EXCEPT ![x] = "failed"]
  BY IdleTask DEF NextTarget
<1>2. /\ task' = [task EXCEPT ![x] = t] /\ work' = [work EXCEPT ![x] = work[x] \ {s}]
      /\ at' = [at EXCEPT ![x] = {s}] /\ task[x] # "none"
      /\ posts' = [posts EXCEPT ![x] = 0] /\ verdict' = [verdict EXCEPT ![x] = "failed"]
      /\ UNCHANGED <<tables, sentinels>>
  BY <1>1 DEF NextTarget, DistInv, DistTypeOK
<1>3. /\ work[x] \ {s} \in SUBSET Targets(x) /\ {s} \in SUBSET Targets(x)
      /\ \A p, q \in {s} : p = q
      /\ t \in {"scheduled", "fanout", "post", "record", "done", "lost"}
  BY DEF DistInv, FanoutInv, TaskHonest, NextTarget
<1> HIDE DEF t
<1> QED BY <1>2, <1>3, TaskFrame

\* The task dies with its process.
LEMMA LoseKeeps ==
    ASSUME DistInv, NEW x \in Dists, LoseTask(x)
    PROVE  DistInv'
<1>1. /\ task' = [task EXCEPT ![x] = "lost"] /\ work' = [work EXCEPT ![x] = {}]
      /\ at' = [at EXCEPT ![x] = {}] /\ task[x] # "none"
      /\ posts' = [posts EXCEPT ![x] = 0] /\ verdict' = [verdict EXCEPT ![x] = "failed"]
      /\ UNCHANGED <<tables, sentinels>>
  BY DEF LoseTask
<1>2. {} \in SUBSET Targets(x) /\ \A s, q \in {} : s = q
  OBVIOUS
<1> QED BY <1>1, <1>2, TaskFrame

\* A POST: the Sentinel's register and the answer.
LEMMA PostKeeps ==
    ASSUME DistInv, NEW x \in Dists, NEW s \in Sentinels, Post(x, s)
    PROVE  DistInv'
<1>1. /\ task[x] = "post" /\ s \in at[x] /\ at[x] \subseteq Sentinels
      /\ \A q \in at[x] : q = s
      /\ posts[x] < MaxPosts /\ dver[x] \in PolicyVersions /\ verdict[x] = "failed"
      /\ dstate[x] # "none" /\ dver[x] # 0
  BY DEF Post, Answered, Transient, DistInv, DistTypeOK, FanoutInv, TaskHonest, Settled
<1> DEFINE Moves(t, w) ==
             /\ t \in {"post", "record"} /\ w \in Settled
             /\ task' = [task EXCEPT ![x] = t] /\ verdict' = [verdict EXCEPT ![x] = w]
             /\ posts' = [posts EXCEPT ![x] = posts[x] + 1]
             /\ t = "post" => posts[x] + 1 < MaxPosts
             /\ w = "distributed" => t = "record" /\ IntakeAccept(s, dver[x])
             /\ IntakeAccept(s, dver[x]) \/ UNCHANGED sentinels
             /\ UNCHANGED <<tables, work, at>>
<1>2. PICK t, w : Moves(t, w)
  <2>1. CASE Answered(x, "distributed") /\ IntakeAccept(s, dver[x])
    <3>1. Moves("record", "distributed")
      BY <2>1 DEF Answered, Settled
    <3> QED BY <3>1
  <2>2. CASE Answered(x, "failed") /\ UNCHANGED sentinels
    <3>1. Moves("record", "failed")
      BY <2>2 DEF Answered, Settled
    <3> QED BY <3>1
  <2>3. CASE Transient(x) /\ (IntakeAccept(s, dver[x]) \/ UNCHANGED sentinels)
    <3>1. verdict' = [verdict EXCEPT ![x] = "failed"]
      BY <1>1, <2>3 DEF Transient, DistInv, DistTypeOK
    <3>2. Moves(IF posts[x] + 1 < MaxPosts THEN "post" ELSE "record", "failed")
      BY <2>3, <3>1 DEF Transient, Settled
    <3> QED BY <3>2
  <2> QED BY <2>1, <2>2, <2>3 DEF Post
<1>3. /\ live' \in [Sentinels -> SUBSET PolicyVersions]
      /\ active' \in [Sentinels -> PolicyVersions \cup {0}]
      /\ SentinelsMonotone' /\ \A q \in Sentinels : live[q] \subseteq live'[q]
  <2>1. CASE UNCHANGED sentinels
    BY <2>1 DEF sentinels, DistInv, DistTypeOK, FanoutInv, SentinelsMonotone
  <2>2. CASE IntakeAccept(s, dver[x])
    <3>1. /\ live' = [live EXCEPT ![s] = live[s] \cup {dver[x]}]
          /\ active' = [active EXCEPT ![s] = dver[x]]
          /\ live \in [Sentinels -> SUBSET PolicyVersions]
          /\ active \in [Sentinels -> PolicyVersions \cup {0}]
      BY <2>2 DEF IntakeAccept, DistInv, DistTypeOK
    <3>2. /\ live' \in [Sentinels -> SUBSET PolicyVersions]
          /\ active' \in [Sentinels -> PolicyVersions \cup {0}]
          /\ live'[s] = live[s] \cup {dver[x]} /\ active'[s] = dver[x]
          /\ \A q \in Sentinels \ {s} : live'[q] = live[q] /\ active'[q] = active[q]
      BY <1>1, <3>1
    <3>3. \A v \in live'[s] : v <= active'[s]
      <4>1. live[s] \subseteq Nat /\ dver[x] \in Nat /\ \A v \in live[s] : v < dver[x]
        BY <1>1, <2>2, <3>1, DistributionAssumption DEF IntakeAccept, IntakeNewer
      <4> QED BY <3>2, <4>1
    <3>4. SentinelsMonotone'
      BY <3>2, <3>3 DEF DistInv, FanoutInv, SentinelsMonotone
    <3> QED BY <3>2, <3>4
  <2> QED BY <1>2, <2>1, <2>2
<1>4. posts[x] + 1 \in 0..MaxPosts
  BY <1>1, DistributionAssumption DEF DistInv, DistTypeOK
<1>5. DistTypeOK'
  BY <1>2, <1>3, <1>4 DEF DistInv, DistTypeOK, tables
<1>6. \A y \in Dists \ {x} : Untouched(y)
  BY <1>2 DEF DistInv, DistTypeOK, tables, Untouched
<1>7. Targets(x)' = Targets(x) /\ Targets(x) \subseteq Sentinels
  BY <1>2, TargetsSame DEF tables, Targets
<1>8. /\ task'[x] = t /\ posts'[x] = posts[x] + 1 /\ verdict'[x] = w /\ dver'[x] = dver[x]
      /\ at'[x] = at[x] /\ work'[x] = work[x] /\ dstate'[x] = dstate[x]
  BY <1>2 DEF DistInv, DistTypeOK, tables
<1>9. w = "distributed" => t = "record" /\ \A q \in at[x] : dver[x] \in live'[q]
  <2>1. IntakeAccept(s, dver[x]) => dver[x] \in live'[s]
    BY DEF IntakeAccept, DistInv, DistTypeOK
  <2> QED BY <1>1, <1>2, <2>1
<1>10. TaskHonest(x)'
  <2>1. work[x] \subseteq Targets(x) /\ at[x] \subseteq Targets(x)
    BY DEF DistInv, FanoutInv, TaskHonest
  <2> QED BY <1>1, <1>2, <1>7, <1>8, <1>9, <2>1 DEF TaskHonest
<1>11. ReportTrue(x)'
  BY <1>2, <1>3, <1>7 DEF DistInv, FanoutInv, ReportTrue, tables
<1> QED BY <1>3, <1>5, <1>6, <1>10, <1>11, FanoutFrame

\* Recording the target.
LEMMA RecordTargetKeeps ==
    ASSUME DistInv, NEW x \in Dists, NEW s \in Sentinels, RecordTarget(x, s)
    PROVE  DistInv'
<1>1. /\ task[x] = "record" /\ s \in at[x] /\ dstate[x] # "none" /\ dver[x] # 0
      /\ verdict[x] \in Settled
      /\ verdict[x] = "distributed" => dver[x] \in live[s]
  BY DEF RecordTarget, DistInv, DistTypeOK, FanoutInv, TaskHonest
<1>2. /\ \/ target' = [target EXCEPT ![x][s] = verdict[x]]
         \/ target' = target
      /\ at' = [at EXCEPT ![x] = {}] /\ posts' = [posts EXCEPT ![x] = 0]
      /\ verdict' = [verdict EXCEPT ![x] = "failed"]
      /\ task' = [task EXCEPT ![x] = "fanout"]
      /\ UNCHANGED <<dver, dstate, work, live, active>>
  BY DEF RecordTarget, sentinels
<1>3. /\ target' \in [Dists -> [Sentinels -> Settled \cup {"none", "pending"}]]
      /\ \A y \in Dists \ {x} : target'[y] = target[y]
      /\ \A q \in Sentinels \ {s} : target'[x][q] = target[x][q]
      /\ target'[x][s] \in {verdict[x], target[x][s]}
  <2> DEFINE U == Settled \cup {"none", "pending"}
  <2>1. target \in [Dists -> [Sentinels -> U]] /\ verdict[x] \in U
    BY <1>1 DEF DistInv, DistTypeOK
  <2>2. CASE target' = target
    BY <2>1, <2>2
  <2>3. CASE target' = [target EXCEPT ![x][s] = verdict[x]]
    BY <2>1, <2>3
  <2> QED BY <1>2, <2>2, <2>3 DEF U
<1>4. DistTypeOK'
  <2>1. 0 \in 0..MaxPosts /\ "failed" \in Settled
    BY DistributionAssumption DEF Settled
  <2> QED BY <1>2, <1>3, <2>1 DEF DistInv, DistTypeOK
<1>5. SentinelsMonotone' /\ \A q \in Sentinels : live[q] \subseteq live'[q]
  BY <1>2 DEF DistInv, FanoutInv, SentinelsMonotone
<1>6. \A y \in Dists \ {x} : Untouched(y)
  BY <1>2, <1>3 DEF DistInv, DistTypeOK, Untouched
<1>7. /\ dstate'[x] = dstate[x] /\ dver'[x] = dver[x] /\ task'[x] = "fanout"
      /\ posts'[x] = 0 /\ verdict'[x] = "failed" /\ at'[x] = {} /\ work'[x] = work[x]
  BY <1>1, <1>2 DEF DistInv, DistTypeOK
<1>8. Targets(x)' = Targets(x) /\ Targets(x) \subseteq Sentinels
  <2>1. s \in Targets(x)
    BY <1>1 DEF DistInv, FanoutInv, TaskHonest
  <2>2. target[x][s] # "none" /\ target'[x][s] # "none"
    BY <1>1, <1>3, <2>1 DEF Targets, Settled
  <2> QED BY <1>3, <2>2 DEF Targets
<1>9. TaskHonest(x)'
  BY <1>1, <1>7, <1>8 DEF TaskHonest, DistInv, FanoutInv
<1>10. \A q \in Sentinels : target'[x][q] = "distributed" => dver'[x] \in live'[q]
  BY <1>1, <1>2, <1>3 DEF DistInv, FanoutInv, ReportTrue
<1>11. ReportTrue(x)'
  BY <1>2, <1>8, <1>10 DEF DistInv, FanoutInv, ReportTrue
<1> QED BY <1>4, <1>5, <1>6, <1>9, <1>11, FanoutFrame

\* The end of the fan-out: the state of the parent from the states of its targets.
LEMMA AggregateKeeps ==
    ASSUME DistInv, NEW x \in Dists, Aggregate(x)
    PROVE  DistInv'
<1> DEFINE a == _aggregate_state(x)
<1>1. /\ task[x] = "fanout" /\ dstate' = [dstate EXCEPT ![x] = a]
      /\ task' = [task EXCEPT ![x] = "done"]
      /\ UNCHANGED <<dver, target, work, at, posts, verdict, live, active>>
  BY DEF Aggregate, sentinels
<1>2. /\ a \in {"distributed", "partial", "failed"}
      /\ a = "distributed" =>
            Targets(x) # {} /\ \A s \in Targets(x) : target[x][s] = "distributed"
  BY DEF _aggregate_state
<1> HIDE DEF a
<1>3. DistTypeOK'
  BY <1>1, <1>2 DEF DistInv, DistTypeOK, Settled
<1>4. SentinelsMonotone' /\ \A q \in Sentinels : live[q] \subseteq live'[q]
  BY <1>1 DEF DistInv, FanoutInv, SentinelsMonotone
<1>5. \A y \in Dists \ {x} : Untouched(y)
  BY <1>1 DEF DistInv, DistTypeOK, Untouched
<1>6. Targets(x)' = Targets(x) /\ Targets(x) \subseteq Sentinels
  BY <1>1, TargetsSame DEF Targets
<1>7. dstate'[x] = a /\ task'[x] = "done"
  BY <1>1 DEF DistInv, DistTypeOK
<1>8. TaskHonest(x)'
  BY <1>1, <1>2, <1>6, <1>7 DEF TaskHonest, DistInv, FanoutInv
<1>9. ReportTrue(x)'
  BY <1>1, <1>2, <1>6, <1>7 DEF ReportTrue, DistInv, FanoutInv
<1> QED BY <1>3, <1>4, <1>5, <1>8, <1>9, FanoutFrame

\* Every step of a task, its loss included.
LEMMA TaskStepKeeps ==
    ASSUME DistInv, NEW x \in Dists, TaskStep(x) \/ LoseTask(x)
    PROVE  DistInv'
BY DriveKeeps, NextKeeps, PostKeeps, RecordTargetKeeps, AggregateKeeps, LoseKeeps DEF TaskStep

\* A distribution is new at most once.
LEMMA NewIdsNew == \A x \in NewIds : x \in Dists /\ dstate[x] = "none"
BY DEF NewIds

\* A step that leaves the Orchestrator and the Sentinels alone.
LEMMA DistSame == ASSUME DistInv, UNCHANGED distVars PROVE DistInv'
<1>1. UNCHANGED <<dver, dstate, target, task, work, at, posts, verdict, live, active>>
  BY DEF distVars, tables, tasks, sentinels
<1>2. DistTypeOK' /\ SentinelsMonotone'
  BY <1>1 DEF DistInv, DistTypeOK, FanoutInv, SentinelsMonotone
<1>3. \A x \in Dists : TaskHonest(x)' /\ ReportTrue(x)'
  BY <1>1 DEF DistInv, FanoutInv, TaskHonest, ReportTrue, Targets
<1> QED BY <1>2, <1>3 DEF DistInv, FanoutInv

LEMMA DistStep == DistInv /\ [DistNext]_distVars => DistInv'
<1> SUFFICES ASSUME DistInv, [DistNext]_distVars PROVE DistInv'
  OBVIOUS
<1>1. ASSUME NEW x \in NewIds, NEW v \in PolicyVersions, NEW T \in SUBSET Sentinels,
             NEW ok \in BOOLEAN, submit_distribution(x, v, T, ok)
      PROVE  DistInv'
  BY <1>1, NewIdsNew, SubmitKeeps
<1>2. ASSUME NEW x \in Dists, TaskStep(x) \/ LoseTask(x) PROVE DistInv'
  BY <1>2, TaskStepKeeps
<1> QED BY <1>1, <1>2, DistSame DEF DistNext

\* The invariant says what the property needs.
LEMMA DistInvHonest == DistInv => NeverFalseSuccess
BY DEF DistInv, DistTypeOK, FanoutInv, ReportTrue, SentinelsMonotone, NeverFalseSuccess

\* "Never a false success" (NeverFalseSuccess), for any number of distributions and
\* Sentinels, any interleaving of their tasks, answers lost and processes dying.
THEOREM NoFalseSuccess == DistSpec => []NeverFalseSuccess
BY DistStart, DistStep, DistInvHonest, PTL DEF DistSpec

-----------------------------------------------------------------------------
(* Reports are final while nobody drives a distribution again *)

\* A task meets each target once, before anything is reported of it, and the state of
\* the parent is written when the task is over.
DrivenOnce(x) ==
    /\ dstate[x] \notin {"none", "pending"} => task[x] = "done"
    /\ task[x] \in {"none", "scheduled"} => \A s \in Sentinels : target[x][s] \notin Settled
    /\ task[x] \notin {"post", "record"} => at[x] = {}
    /\ work[x] \cap at[x] = {}
    /\ \A s \in work[x] \cup at[x] : target[x][s] \notin Settled

OnceInv == \A x \in Dists : DrivenOnce(x)

LEMMA OnceStart == DistInit => OnceInv
BY DEF DistInit, OnceInv, DrivenOnce, Settled

\* The other distributions stay as they are.
LEMMA OnceFrame ==
    ASSUME OnceInv, NEW x \in Dists, \A y \in Dists \ {x} : Untouched(y),
           DrivenOnce(x)', ReportKept(x)
    PROVE  OnceInv' /\ \A y \in Dists : ReportKept(y)
BY DEF OnceInv, DrivenOnce, Untouched, ReportKept

\* A new distribution is not driven yet.
LEMMA SubmitOnce ==
    ASSUME DistInv, OnceInv, NEW x \in Dists, NEW v, NEW T \in SUBSET Sentinels,
           NEW ok \in BOOLEAN, submit_distribution(x, v, T, ok)
    PROVE  OnceInv' /\ \A y \in Dists : ReportKept(y)
<1>1. \A y \in Dists \ {x} : Untouched(y)
  BY DEF submit_distribution, DistInv, DistTypeOK, Untouched, tables, sentinels
<1>2. /\ dstate[x] = "none" /\ task[x] = "none" /\ work[x] = {} /\ at[x] = {}
      /\ DrivenOnce(x)
  BY DEF submit_distribution, DistInv, FanoutInv, TaskHonest, OnceInv
<1>3. /\ dstate'[x] = "pending" /\ task'[x] \in {"scheduled", "lost"} /\ work'[x] = {}
      /\ at'[x] = {} /\ \A s \in Sentinels : target'[x][s] \in {"none", "pending"}
  BY <1>2 DEF submit_distribution, DistInv, DistTypeOK
<1>4. DrivenOnce(x)'
  BY <1>3 DEF DrivenOnce, Settled
<1>5. ReportKept(x)
  BY <1>2 DEF ReportKept, DrivenOnce
<1> QED BY <1>1, <1>4, <1>5, OnceFrame

\* A step of a task.
LEMMA TaskOnce ==
    ASSUME DistInv, OnceInv, NEW x \in Dists, TaskStep(x) \/ LoseTask(x)
    PROVE  OnceInv' /\ \A y \in Dists : ReportKept(y)
<1>1. /\ DrivenOnce(x) /\ Targets(x) \subseteq Sentinels /\ task[x] \notin {"done", "none"}
      /\ dstate[x] \in {"none", "pending"}
  BY DEF OnceInv, DrivenOnce, Targets, TaskStep, LoseTask, drive_distribution, NextTarget, Post,
         Answered, Transient, RecordTarget, Aggregate
<1>2. CASE drive_distribution(x)
  <2>1. \A y \in Dists \ {x} : Untouched(y)
    BY <1>2 DEF drive_distribution, DistInv, DistTypeOK, Untouched, tables
  <2>2. /\ task'[x] = "fanout" /\ work'[x] = Targets(x) /\ at'[x] = {} /\ dstate'[x] = dstate[x]
        /\ target'[x] = target[x] /\ task[x] = "scheduled"
    BY <1>1, <1>2 DEF drive_distribution, DistInv, DistTypeOK, tables, DrivenOnce
  <2>3. DrivenOnce(x)' /\ ReportKept(x)
    BY <1>1, <2>2 DEF DrivenOnce, ReportKept
  <2> QED BY <2>1, <2>3, OnceFrame
<1>3. ASSUME NEW s \in Sentinels, NextTarget(x, s)
      PROVE  OnceInv' /\ \A y \in Dists : ReportKept(y)
  <2>1. \A y \in Dists \ {x} : Untouched(y)
    BY <1>3 DEF NextTarget, DistInv, DistTypeOK, Untouched, tables
  <2>2. /\ task'[x] \in {"post", "record"} /\ work'[x] = work[x] \ {s} /\ at'[x] = {s}
        /\ s \in work[x] /\ target'[x] = target[x] /\ dstate'[x] = dstate[x]
    BY <1>3 DEF NextTarget, DistInv, DistTypeOK, tables
  <2>3. DrivenOnce(x)' /\ ReportKept(x)
    BY <1>1, <2>2 DEF DrivenOnce, ReportKept
  <2> QED BY <2>1, <2>3, OnceFrame
<1>4. ASSUME NEW s \in Sentinels, Post(x, s)
      PROVE  OnceInv' /\ \A y \in Dists : ReportKept(y)
  <2>1. \A y \in Dists \ {x} : Untouched(y)
    BY <1>4 DEF Post, Answered, Transient, DistInv, DistTypeOK, Untouched, tables
  <2>2. /\ task'[x] \in {"post", "record"} /\ work'[x] = work[x] /\ at'[x] = at[x]
        /\ target'[x] = target[x] /\ dstate'[x] = dstate[x]
    BY <1>4 DEF Post, Answered, Transient, DistInv, DistTypeOK, tables
  <2>3. DrivenOnce(x)' /\ ReportKept(x)
    BY <1>1, <2>2 DEF DrivenOnce, ReportKept
  <2> QED BY <2>1, <2>3, OnceFrame
<1>5. ASSUME NEW s \in Sentinels, RecordTarget(x, s)
      PROVE  OnceInv' /\ \A y \in Dists : ReportKept(y)
  <2>1. /\ \A y \in Dists \ {x} : target'[y] = target[y]
        /\ \A q \in Sentinels \ {s} : target'[x][q] = target[x][q]
    BY <1>5 DEF RecordTarget, DistInv, DistTypeOK
  <2>2. \A y \in Dists \ {x} : Untouched(y)
    BY <1>5, <2>1 DEF RecordTarget, DistInv, DistTypeOK, Untouched
  <2>3. /\ task'[x] = "fanout" /\ work'[x] = work[x] /\ at'[x] = {} /\ s \in at[x]
        /\ dstate'[x] = dstate[x] /\ work[x] \subseteq Sentinels
    BY <1>5 DEF RecordTarget, DistInv, DistTypeOK
  <2>4. DrivenOnce(x)' /\ ReportKept(x)
    BY <1>1, <2>1, <2>3 DEF DrivenOnce, ReportKept
  <2> QED BY <2>2, <2>4, OnceFrame
<1>6. CASE Aggregate(x)
  <2>1. \A y \in Dists \ {x} : Untouched(y)
    BY <1>6 DEF Aggregate, DistInv, DistTypeOK, Untouched
  <2>2. /\ task'[x] = "done" /\ work'[x] = {} /\ at'[x] = {} /\ target'[x] = target[x]
    BY <1>1, <1>6 DEF Aggregate, DistInv, DistTypeOK, DrivenOnce
  <2>3. DrivenOnce(x)' /\ ReportKept(x)
    BY <1>1, <2>2 DEF DrivenOnce, ReportKept
  <2> QED BY <2>1, <2>3, OnceFrame
<1>7. CASE LoseTask(x)
  <2>1. \A y \in Dists \ {x} : Untouched(y)
    BY <1>7 DEF LoseTask, DistInv, DistTypeOK, Untouched, tables
  <2>2. /\ task'[x] = "lost" /\ work'[x] = {} /\ at'[x] = {} /\ target'[x] = target[x]
        /\ dstate'[x] = dstate[x]
    BY <1>7 DEF LoseTask, DistInv, DistTypeOK, tables
  <2>3. DrivenOnce(x)' /\ ReportKept(x)
    BY <1>1, <2>2 DEF DrivenOnce, ReportKept
  <2> QED BY <2>1, <2>3, OnceFrame
<1> QED BY <1>2, <1>3, <1>4, <1>5, <1>6, <1>7 DEF TaskStep

LEMMA OnceSame ==
    ASSUME OnceInv, UNCHANGED distVars
    PROVE  OnceInv' /\ \A y \in Dists : ReportKept(y)
BY DEF distVars, tables, tasks, OnceInv, DrivenOnce, ReportKept

\* No step changes the state of a settled target, or of a distribution whose fan-out
\* has ended (drive_distribution, submit_distribution).
THEOREM ReportsStay == DistSpec => [][\A x \in Dists : ReportKept(x)]_distVars
<1> DEFINE Kept == \A x \in Dists : ReportKept(x)
<1>1. DistInv /\ OnceInv /\ [DistNext]_distVars => OnceInv' /\ [Kept]_distVars
  <2> SUFFICES ASSUME DistInv, OnceInv, [DistNext]_distVars
               PROVE  OnceInv' /\ Kept
    OBVIOUS
  <2>1. ASSUME NEW x \in NewIds, NEW v \in PolicyVersions, NEW T \in SUBSET Sentinels,
               NEW ok \in BOOLEAN, submit_distribution(x, v, T, ok)
        PROVE  OnceInv' /\ Kept
    BY <2>1, NewIdsNew, SubmitOnce
  <2>2. ASSUME NEW x \in Dists, TaskStep(x) \/ LoseTask(x)
        PROVE  OnceInv' /\ Kept
    BY <2>2, TaskOnce
  <2> QED BY <2>1, <2>2, OnceSame DEF DistNext
<1> QED BY <1>1, DistStart, DistStep, OnceStart, PTL DEF DistSpec

-----------------------------------------------------------------------------
(* Rollbacks and automation rules *)

\* The history, and what a rollback has read of it, names distributions that exist.
HistoryReal ==
    /\ history \in Seq(Dists)
    /\ \A k \in 1..Len(history) : dstate[history[k]] # "none"
    /\ undo \in [Operators -> Seq(Dists)]
    /\ \A o \in Operators : undo[o] # <<>> =>
          undo[o][1] \in Dists /\ dstate[undo[o][1]] # "none"

OperationsInv == DistInv /\ HistoryReal

\* No distribution ceases to exist.
LEMMA StillThere ==
    ASSUME DistInv, HistoryReal, UNCHANGED <<history, undo>>,
           \A x \in Dists : dstate[x] # "none" => dstate'[x] # "none"
    PROVE  HistoryReal'
BY DEF HistoryReal

\* A submission or a rollback appends its own distribution to the history.
LEMMA HistoryGrows ==
    ASSUME DistInv, HistoryReal, NEW x \in Dists, NEW v, NEW T, NEW ok,
           submit_distribution(x, v, T, ok), history' = Append(history, x),
           undo' = undo \/ \E o \in Operators : undo' = [undo EXCEPT ![o] = <<>>]
    PROVE  HistoryReal'
<1>1. dstate' = [dstate EXCEPT ![x] = "pending"] /\ dstate \in [Dists -> Settled \cup {"none", "pending", "partial"}]
  BY DEF submit_distribution, DistInv, DistTypeOK
<1>2. /\ dstate'[x] # "none"
      /\ \A y \in Dists : dstate[y] # "none" => dstate'[y] # "none"
  BY <1>1
<1>3. history \in Seq(Dists) /\ \A k \in 1..Len(history) : history[k] \in Dists
  BY DEF HistoryReal
<1>4. /\ history' \in Seq(Dists)
      /\ \A k \in 1..Len(history') : dstate'[history'[k]] # "none"
  BY <1>2, <1>3 DEF HistoryReal
<1>5. /\ undo' \in [Operators -> Seq(Dists)]
      /\ \A o \in Operators : undo'[o] # <<>> =>
            undo'[o][1] \in Dists /\ dstate'[undo'[o][1]] # "none"
  <2>1. CASE undo' = undo
    BY <1>2, <2>1 DEF HistoryReal
  <2>2. ASSUME NEW o \in Operators, undo' = [undo EXCEPT ![o] = <<>>]
        PROVE  /\ undo' \in [Operators -> Seq(Dists)]
               /\ \A e \in Operators : undo'[e] # <<>> => undo'[e] = undo[e]
    <3>1. <<>> \in Seq(Dists) /\ undo \in [Operators -> Seq(Dists)]
      BY DEF HistoryReal
    <3> QED BY <2>2, <3>1
  <2> QED BY <1>2, <2>1, <2>2 DEF HistoryReal
<1> QED BY <1>4, <1>5 DEF HistoryReal

\* Driving a distribution again.
LEMMA RedriveKeeps ==
    ASSUME DistInv, NEW x \in Dists, _execute_rule(x)
    PROVE  DistInv'
<1>1. posts = [posts EXCEPT ![x] = 0] /\ verdict = [verdict EXCEPT ![x] = "failed"]
  BY IdleTask DEF _execute_rule
<1>2. /\ task' = [task EXCEPT ![x] = "scheduled"] /\ work' = [work EXCEPT ![x] = work[x]]
      /\ at' = [at EXCEPT ![x] = at[x]] /\ task[x] # "none"
      /\ posts' = [posts EXCEPT ![x] = 0] /\ verdict' = [verdict EXCEPT ![x] = "failed"]
      /\ UNCHANGED <<tables, sentinels>>
  BY <1>1 DEF _execute_rule, DistInv, DistTypeOK
<1>3. /\ work[x] \in SUBSET Targets(x) /\ at[x] \in SUBSET Targets(x)
      /\ \A s, q \in at[x] : s = q
  BY DEF DistInv, FanoutInv, TaskHonest
<1> QED BY <1>2, <1>3, TaskFrame

LEMMA OperationsStep ==
    OperationsInv /\ [OperationsNext]_<<distVars, operationVars>> => OperationsInv'
<1> SUFFICES ASSUME OperationsInv, [OperationsNext]_<<distVars, operationVars>>
             PROVE  OperationsInv'
  OBVIOUS
<1>0. DistInv /\ HistoryReal
  BY DEF OperationsInv
<1>1. ASSUME NEW x \in NewIds, NEW v \in PolicyVersions, NEW T \in (SUBSET Known) \ {{}},
             Submit(x, v, T, TRUE)
      PROVE  OperationsInv'
  <2>1. x \in Dists /\ T \in SUBSET Sentinels
    BY NewIdsNew, DistributionAssumption
  <2>2. submit_distribution(x, v, T, TRUE) /\ history' = Append(history, x) /\ undo' = undo
    BY <1>1 DEF Submit
  <2>3. DistInv'
    BY <1>0, <2>1, <2>2, SubmitKeeps
  <2>4. HistoryReal'
    BY <1>0, <2>1, <2>2, HistoryGrows
  <2> QED BY <2>3, <2>4 DEF OperationsInv
<1>2. ASSUME NEW x \in NewIds, NEW o \in Operators, NEW ok \in BOOLEAN,
             rollback_policy_distribution(o, x, ok)
      PROVE  OperationsInv'
  <2> DEFINE p == undo[o][1]
  <2>1. p \in Dists /\ dstate[p] # "none"
    BY <1>0, <1>2 DEF rollback_policy_distribution, HistoryReal
  <2>2. x \in Dists /\ dver[p] \in PolicyVersions /\ Targets(p) \in SUBSET Sentinels
    BY <1>0, <2>1, NewIdsNew DEF DistInv, DistTypeOK, FanoutInv, TaskHonest, Targets
  <2>3. /\ submit_distribution(x, dver[p], Targets(p), ok) /\ history' = Append(history, x)
        /\ undo' = [undo EXCEPT ![o] = <<>>]
    BY <1>2 DEF rollback_policy_distribution
  <2> HIDE DEF p
  <2>4. DistInv'
    BY <1>0, <2>2, <2>3, SubmitKeeps
  <2>5. HistoryReal'
    BY <1>0, <2>2, <2>3, HistoryGrows
  <2> QED BY <2>4, <2>5 DEF OperationsInv
<1>3. ASSUME NEW x \in Dists, _execute_rule(x) PROVE OperationsInv'
  <2>1. DistInv'
    BY <1>0, <1>3, RedriveKeeps
  <2>2. UNCHANGED <<dstate, history, undo>>
    BY <1>3 DEF _execute_rule, tables
  <2>3. HistoryReal'
    BY <1>0, <2>2, StillThere
  <2> QED BY <2>1, <2>3 DEF OperationsInv
<1>4. ASSUME NEW x \in Dists, TaskStep(x) \/ LoseTask(x), UNCHANGED operationVars
      PROVE  OperationsInv'
  <2>1. DistInv'
    BY <1>0, <1>4, TaskStepKeeps
  <2>2. \A y \in Dists : dstate[y] # "none" => dstate'[y] # "none"
    BY <1>0, <1>4
       DEF TaskStep, LoseTask, drive_distribution, NextTarget, Post, Answered, Transient,
           RecordTarget, Aggregate, _aggregate_state, tables, DistInv, DistTypeOK
  <2>3. HistoryReal'
    BY <1>0, <1>4, <2>2, StillThere DEF operationVars
  <2> QED BY <2>1, <2>3 DEF OperationsInv
<1>5. ASSUME NEW o \in Operators, list_recent_distributions_for_policy(o)
      PROVE  OperationsInv'
  <2> DEFINE two == SubSeq(history, Len(history) - 1, Len(history))
  <2>1. DistInv'
    BY <1>0, <1>5, DistSame DEF list_recent_distributions_for_policy
  <2>2. /\ history \in Seq(Dists) /\ Len(history) \in Nat /\ Len(history) >= 2
        /\ undo' = [undo EXCEPT ![o] = two] /\ history' = history /\ dstate' = dstate
    BY <1>0, <1>5 DEF list_recent_distributions_for_policy, HistoryReal, distVars, tables
  <2>3. two \in Seq(Dists) /\ two[1] = history[Len(history) - 1]
    BY <2>2
  <2>4. two[1] \in Dists /\ dstate[two[1]] # "none"
    BY <1>0, <2>2, <2>3 DEF HistoryReal
  <2> HIDE DEF two
  <2>5. HistoryReal'
    BY <1>0, <2>2, <2>3, <2>4 DEF HistoryReal
  <2> QED BY <2>1, <2>5 DEF OperationsInv
<1>6. CASE UNCHANGED <<distVars, operationVars>>
  <2>1. DistInv'
    BY <1>0, <1>6, DistSame
  <2>2. UNCHANGED <<dstate, history, undo>>
    BY <1>6 DEF distVars, tables, operationVars
  <2>3. HistoryReal'
    BY <1>0, <2>2, StillThere
  <2> QED BY <2>1, <2>3 DEF OperationsInv
<1> QED BY <1>1, <1>2, <1>3, <1>4, <1>5, <1>6 DEF OperationsNext

\* Nor do rollbacks of older versions, or rules that drive a settled distribution
\* again, make a report of success false (NeverFalseSuccess).
THEOREM RollbacksReportTruly == OperationsSpec => []NeverFalseSuccess
<1>1. OperationsInit => OperationsInv
  <2> SUFFICES ASSUME OperationsInit PROVE OperationsInv
    OBVIOUS
  <2>1. DistInv
    BY DistStart DEF OperationsInit
  <2>2. HistoryReal
    BY DEF OperationsInit, HistoryReal
  <2> QED BY <2>1, <2>2 DEF OperationsInv
<1>2. OperationsInv => NeverFalseSuccess
  BY DistInvHonest DEF OperationsInv
<1> QED BY <1>1, <1>2, OperationsStep, PTL DEF OperationsSpec

-----------------------------------------------------------------------------
(* From the outbox to the Sentinels *)

\* The decisions Delta committed and O-004 was given.
Decisions == {v \in Rows : state[v] # "none" /\ accepted[v] # "no"}

\* Only decisions are distributed, accepted and enforced.
OnlyDecisions ==
    /\ \A x \in Dists : dver[x] \in Decisions \cup {0}
    /\ \A s \in Sentinels : live[s] \subseteq Decisions /\ active[s] \in live[s] \cup {0}

DeliveryInv == OutboxInv /\ DistInv /\ OnlyDecisions

\* A decision stays one whatever the drainers do.
LEMMA DecidedStays ==
    ASSUME OutboxInv, [OutboxNext]_outboxVars, NEW v \in Decisions
    PROVE  v \in Decisions'
<1> USE DEF Decisions
<1>1. ASSUME NEW r \in Rows, enqueue_decision(r) \/ BackoffEnds(r) PROVE v \in Decisions'
  BY <1>1 DEF enqueue_decision, BackoffEnds, OutboxInv, OutboxTypeOK
<1>2. ASSUME NEW d \in Drainers, RecordOutcome(d) PROVE v \in Decisions'
  <2>1. NextState(outcome[d], attempts[RowOf(d)] + 1) # "none"
    <3>1. outcome[d] \in {"202", "transient", "permanent"}
      BY DEF OutboxInv, OutboxTypeOK, Outcomes
    <3> QED BY <3>1, Zenon DEF NextState
  <2> QED BY <1>2, <2>1 DEF RecordOutcome, OutboxInv, OutboxTypeOK
<1>3. ASSUME NEW d \in Drainers, NEW k, PublishAccepted(d) \/ PublishAnswerLost(d)
      PROVE  v \in Decisions'
  BY <1>3 DEF PublishAccepted, PublishAnswerLost, Persist, columns, OutboxInv, OutboxTypeOK
<1>4. ASSUME NEW d \in Drainers, NEW dies \in BOOLEAN, Rollback(d, dies) PROVE v \in Decisions'
  BY <1>4 DEF Rollback, columns, OutboxInv, OutboxTypeOK
<1>5. ASSUME UNCHANGED <<columns, accepted>> PROVE v \in Decisions'
  BY <1>5 DEF columns
<1> QED BY <1>1, <1>2, <1>3, <1>4, <1>5
        DEF OutboxNext, due_outbox_ids, DrainStep, claim_one, EndDrain, Publish,
            PublishRefused, outboxVars

\* The outbox moves and O-004 does not.
LEMMA OutboxAlone ==
    ASSUME DeliveryInv, [OutboxNext]_outboxVars, UNCHANGED distVars
    PROVE  DeliveryInv'
<1>1. OutboxInv' /\ DistInv'
  BY OutboxStep, DistSame DEF DeliveryInv
<1>2. UNCHANGED <<dver, live, active>>
  BY DEF distVars, tables, sentinels
<1>3. Decisions \subseteq Decisions'
  BY DecidedStays DEF DeliveryInv
<1>4. OnlyDecisions'
  BY <1>2, <1>3 DEF DeliveryInv, OnlyDecisions
<1> QED BY <1>1, <1>4 DEF DeliveryInv

\* O-004 is given the row a drainer is publishing.
LEMMA HandedOver ==
    ASSUME DeliveryInv, NEW d \in Drainers, NEW x \in Dists, NEW ok \in BOOLEAN,
           PublishAccepted(d) \/ PublishAnswerLost(d),
           submit_distribution(x, RowOf(d), Known, ok)
    PROVE  DeliveryInv'
<1> DEFINE r == RowOf(d)
<1>1. r \in Rows /\ state[r] = "pending"
  BY WorkingRow DEF DeliveryInv, PublishAccepted, PublishAnswerLost, Working
<1>2. r \in PolicyVersions /\ Known \in SUBSET Sentinels
  BY <1>1, DeliveryAssumption, DistributionAssumption
<1>3. OutboxNext
  BY DEF OutboxNext, Publish
<1>4. OutboxInv' /\ Decisions \subseteq Decisions'
  BY <1>3, OutboxStep, DecidedStays DEF DeliveryInv
<1>5. r \in Decisions'
  BY <1>1 DEF Decisions, PublishAccepted, PublishAnswerLost, Persist, columns, DeliveryInv, OutboxInv, OutboxTypeOK
<1> HIDE DEF r
<1>6. submit_distribution(x, r, Known, ok)
  BY DEF r
<1>7. DistInv'
  BY <1>2, <1>6, SubmitKeeps DEF DeliveryInv
<1>8. dver' = [dver EXCEPT ![x] = r] /\ UNCHANGED <<live, active>>
  BY <1>6 DEF submit_distribution, sentinels
<1>9. \A y \in Dists : dver'[y] \in {dver[y], r}
  BY <1>8 DEF DeliveryInv, DistInv, DistTypeOK
<1>10. OnlyDecisions'
  BY <1>4, <1>5, <1>8, <1>9 DEF DeliveryInv, OnlyDecisions
<1> QED BY <1>4, <1>7, <1>10 DEF DeliveryInv

\* The fan-out moves and the outbox does not.
LEMMA FanoutAlone ==
    ASSUME DeliveryInv, NEW x \in Dists, TaskStep(x) \/ LoseTask(x), UNCHANGED outboxVars
    PROVE  DeliveryInv'
<1>1. OutboxInv' /\ DistInv'
  BY OutboxStep, TaskStepKeeps DEF DeliveryInv
<1>2. UNCHANGED <<state, accepted, dver>>
  BY DEF outboxVars, columns, TaskStep, LoseTask, drive_distribution, NextTarget, Post, Answered,
         Transient, RecordTarget, Aggregate, tables
<1>3. Decisions' = Decisions
  BY <1>2 DEF Decisions
<1>4. \/ UNCHANGED <<live, active>>
      \/ \E s \in Sentinels : s \in at[x] /\ task[x] = "post" /\ IntakeAccept(s, dver[x])
  BY DEF TaskStep, LoseTask, drive_distribution, NextTarget, Post, Answered, Transient,
         RecordTarget, Aggregate, sentinels
<1>5. ASSUME NEW s \in Sentinels
      PROVE  live'[s] \subseteq Decisions /\ active'[s] \in live'[s] \cup {0}
  <2>1. live[s] \subseteq Decisions /\ active[s] \in live[s] \cup {0}
    BY DEF DeliveryInv, OnlyDecisions
  <2>2. CASE UNCHANGED <<live, active>>
    BY <2>1, <2>2
  <2>3. ASSUME NEW q \in Sentinels, task[x] = "post", IntakeAccept(q, dver[x])
        PROVE  live'[s] \subseteq Decisions /\ active'[s] \in live'[s] \cup {0}
    <3>1. dver[x] \in Decisions
      BY <2>3 DEF DeliveryInv, DistInv, FanoutInv, TaskHonest, OnlyDecisions
    <3> QED BY <2>1, <2>3, <3>1 DEF IntakeAccept, DeliveryInv, DistInv, DistTypeOK
  <2> QED BY <1>4, <2>2, <2>3
<1>6. OnlyDecisions'
  BY <1>2, <1>3, <1>5 DEF DeliveryInv, OnlyDecisions
<1> QED BY <1>1, <1>6 DEF DeliveryInv

LEMMA DeliveryStep == DeliveryInv /\ [DeliveryNext]_deliveryVars => DeliveryInv'
<1> SUFFICES ASSUME DeliveryInv, [DeliveryNext]_deliveryVars PROVE DeliveryInv'
  OBVIOUS
<1>1. ASSUME OutboxNext \/ UNCHANGED outboxVars, UNCHANGED distVars PROVE DeliveryInv'
  BY <1>1, OutboxAlone
<1>2. ASSUME NEW d \in Drainers, NEW x \in NewIds, DeliverAccepted(d, x) PROVE DeliveryInv'
  BY <1>2, NewIdsNew, HandedOver DEF DeliverAccepted
<1>3. ASSUME NEW d \in Drainers, NEW x \in NewIds, NEW ok \in BOOLEAN,
             DeliverAnswerLost(d, x, ok)
      PROVE  DeliveryInv'
  BY <1>3, NewIdsNew, HandedOver DEF DeliverAnswerLost
<1>4. ASSUME NEW x \in Dists, TaskStep(x) \/ LoseTask(x), UNCHANGED outboxVars
      PROVE  DeliveryInv'
  BY <1>4, FanoutAlone
<1> QED BY <1>1, <1>2, <1>3, <1>4
        DEF DeliveryNext, deliveryVars, Deliver, Drain, OutboxNext, Publish

\* What a Sentinel enforces is a decision that Delta committed and O-004 was given,
\* and not older than any O-004 reported to have distributed to it, however late the
\* retries arrive; Delta's outbox stays exact and O-004's reports true all the while
\* (_deliver_one, submit_distribution, drive_distribution, intake).
THEOREM OnlyDecisionsEnforced ==
    DeliverySpec => [](/\ \A s \in Sentinels : EnforcesADecision(s)
                       /\ OutboxIsExact /\ NeverFalseSuccess)
<1> DEFINE Enforced == \A s \in Sentinels : EnforcesADecision(s)
<1>1. DeliveryInit => DeliveryInv
  <2> SUFFICES ASSUME DeliveryInit PROVE DeliveryInv
    OBVIOUS
  <2>1. OutboxInv /\ DistInv
    BY OutboxStart, DistStart DEF DeliveryInit
  <2>2. OnlyDecisions
    BY DEF DeliveryInit, DistInit, OnlyDecisions
  <2> QED BY <2>1, <2>2 DEF DeliveryInv
<1>2. DeliveryInv => Enforced
  <2>1. DeliveryInv => NeverFalseSuccess
    BY DistInvHonest DEF DeliveryInv
  <2> QED BY <2>1 DEF DeliveryInv, OnlyDecisions, Decisions, EnforcesADecision, NeverFalseSuccess
<1>3. DeliveryInv => OutboxIsExact /\ NeverFalseSuccess
  BY DistInvHonest
     DEF DeliveryInv, OutboxInv, AcceptanceTold, OutboxIsExact, NoNeedlessResend, OutboxHonest
<1> QED BY <1>1, <1>2, <1>3, DeliveryStep, PTL DEF DeliverySpec

-----------------------------------------------------------------------------
(* All of them in the composition of the Decisions run *)

DecisionsInv ==
    /\ OutboxInv /\ DistInv
    /\ unit = "delivery" => OnlyDecisions
    /\ unit = "operations" => HistoryReal
    /\ unit # "operations" => OnceInv

\* Nothing is decided at the start.
LEMMA DecisionsStart == MCInit => DecisionsInv
<1> SUFFICES ASSUME MCInit PROVE DecisionsInv
  OBVIOUS
<1>1. OutboxInit /\ OperationsInit /\ DistInit
  BY DEF MCInit, OperationsInit
<1>2. OnlyDecisions /\ HistoryReal
  BY <1>1 DEF DistInit, OnlyDecisions, OperationsInit, HistoryReal
<1> QED BY <1>1, <1>2, OutboxStart, DistStart, OnceStart DEF DecisionsInv

\* In every unit a step of the outbox is one of its drainers', and outside the
\* operations a step of the fan-out is a submission or a task's.
LEMMA DecisionsStep ==
    ASSUME DecisionsInv, [MCNext]_deliveryGroupVars
    PROVE  /\ DecisionsInv'
           /\ [OutboxNext]_outboxVars
           /\ unit # "operations" => \A x \in Dists : ReportKept(x)
<1> DEFINE Kept == \A x \in Dists : ReportKept(x)
<1>1. unit' = unit
  BY DEF MCNext, deliveryGroupVars
<1>2. ASSUME UNCHANGED distVars, unit # "operations" PROVE DistInv' /\ OnceInv' /\ Kept
  BY <1>2, DistSame, OnceSame DEF DecisionsInv
<1>3. ASSUME NEW x \in NewIds, NEW v \in PolicyVersions, NEW T \in SUBSET Sentinels,
             NEW ok \in BOOLEAN, submit_distribution(x, v, T, ok), unit # "operations"
      PROVE  OnceInv' /\ Kept
  BY <1>3, NewIdsNew, SubmitOnce DEF DecisionsInv
<1>4. ASSUME NEW x \in Dists, TaskStep(x) \/ LoseTask(x), unit # "operations"
      PROVE  OnceInv' /\ Kept
  BY <1>4, TaskOnce DEF DecisionsInv
<1>5. CASE Outbox
  <2>1. OutboxNext /\ unit = "outbox" /\ UNCHANGED distVars
    BY <1>5 DEF Outbox
  <2> QED BY <1>1, <1>2, <2>1, OutboxStep DEF DecisionsInv
<1>6. CASE Fanout
  <2>1. unit = "fanout" /\ UNCHANGED outboxVars
    BY <1>6 DEF Fanout
  <2>2. OutboxInv'
    BY <2>1, OutboxStep DEF DecisionsInv
  <2>3. ASSUME NEW x \in NewIds, NEW v \in PolicyVersions, NEW T \in SUBSET Sentinels,
               NEW ok \in BOOLEAN, submit_distribution(x, v, T, ok)
        PROVE  DistInv' /\ OnceInv' /\ Kept
    BY <1>3, <2>1, <2>3, NewIdsNew, SubmitKeeps DEF DecisionsInv
  <2>4. ASSUME NEW x \in Dists, TaskStep(x) \/ LoseTask(x)
        PROVE  DistInv' /\ OnceInv' /\ Kept
    BY <1>4, <2>1, <2>4, TaskStepKeeps DEF DecisionsInv
  <2>5. DistInv' /\ OnceInv' /\ Kept
    BY <1>6, <2>3, <2>4 DEF Fanout
  <2> QED BY <1>1, <2>1, <2>2, <2>5 DEF DecisionsInv
<1>7. CASE Delivery
  <2>1. unit = "delivery" /\ DeliveryNext /\ DeliveryInv
    BY <1>7 DEF Delivery, DecisionsInv, DeliveryInv
  <2>2. DeliveryInv'
    BY <2>1, DeliveryStep
  <2>3. ASSUME OutboxNext, UNCHANGED distVars PROVE OnceInv' /\ Kept
    BY <1>2, <2>1, <2>3
  <2>4. ASSUME NEW d \in Drainers, NEW x \in NewIds, DeliverAccepted(d, x)
        PROVE  OutboxNext /\ OnceInv' /\ Kept
    <3>1. PICK v, T, ok : submit_distribution(x, v, T, ok)
                          /\ T \in SUBSET Sentinels /\ ok \in BOOLEAN
      BY <2>4, DistributionAssumption DEF DeliverAccepted
    <3>2. OnceInv' /\ Kept
      BY <2>1, <3>1, NewIdsNew, SubmitOnce DEF DecisionsInv
    <3> QED BY <2>4, <3>2 DEF DeliverAccepted, OutboxNext, Publish
  <2>5. ASSUME NEW d \in Drainers, NEW x \in NewIds, NEW ok \in BOOLEAN,
               DeliverAnswerLost(d, x, ok)
        PROVE  OutboxNext /\ OnceInv' /\ Kept
    <3>1. PICK v, T : submit_distribution(x, v, T, ok) /\ T \in SUBSET Sentinels
      BY <2>5, DistributionAssumption DEF DeliverAnswerLost
    <3>2. OnceInv' /\ Kept
      BY <2>1, <3>1, NewIdsNew, SubmitOnce DEF DecisionsInv
    <3> QED BY <2>5, <3>2 DEF DeliverAnswerLost, OutboxNext, Publish
  <2>6. ASSUME NEW x \in Dists, TaskStep(x) \/ LoseTask(x), UNCHANGED outboxVars
        PROVE  OnceInv' /\ Kept
    BY <1>4, <2>1, <2>6
  <2>7. [OutboxNext]_outboxVars /\ OnceInv' /\ Kept
    BY <2>1, <2>3, <2>4, <2>5, <2>6
       DEF DeliveryNext, Deliver, Drain, OutboxNext, Publish
  <2> QED BY <1>1, <2>1, <2>2, <2>7 DEF DecisionsInv, DeliveryInv
<1>8. CASE Operations
  <2>1. unit = "operations" /\ OperationsNext /\ UNCHANGED outboxVars /\ OperationsInv
    BY <1>8 DEF Operations, DecisionsInv, OperationsInv
  <2>2. OperationsInv'
    BY <2>1, OperationsStep
  <2>3. OutboxInv'
    BY <2>1, OutboxStep DEF DecisionsInv
  <2> QED BY <1>1, <2>1, <2>2, <2>3 DEF DecisionsInv, OperationsInv
<1>9. CASE UNCHANGED <<deliveryVars, operationVars>>
  <2>1. UNCHANGED outboxVars /\ UNCHANGED distVars /\ UNCHANGED operationVars
    BY <1>9 DEF deliveryVars
  <2>2. OutboxInv' /\ DistInv'
    BY <2>1, OutboxStep, DistSame DEF DecisionsInv
  <2>3. unit = "delivery" => OnlyDecisions'
    BY <2>1 DEF DecisionsInv, OnlyDecisions, Decisions, outboxVars, columns, distVars,
                tables, tasks, sentinels
  <2>4. unit = "operations" => HistoryReal'
    BY <2>1, OperationsStep DEF DecisionsInv, OperationsInv
  <2> QED BY <1>1, <1>2, <2>1, <2>2, <2>3, <2>4 DEF DecisionsInv
<1> QED BY <1>5, <1>6, <1>7, <1>8, <1>9 DEF MCNext, Kill, Rest, deliveryGroupVars

\* However a decision comes to the Sentinels, what they enforce was decided and is not
\* displaced by a late retry of an older decision, Delta's outbox says what happened,
\* and O-004 reports no success that is none (_deliver_one, drive_distribution,
\* rollback_policy_distribution, _execute_rule).
THEOREM DecisionsStayTrue ==
    DecisionsSpec => [](NoStaleEnforcement /\ OutboxIsExact /\ NeverFalseSuccess)
<1>1. DecisionsInv => NoStaleEnforcement /\ OutboxIsExact /\ NeverFalseSuccess
  <2> SUFFICES ASSUME DecisionsInv PROVE NoStaleEnforcement /\ OutboxIsExact /\ NeverFalseSuccess
    OBVIOUS
  <2>1. NeverFalseSuccess
    BY DistInvHonest DEF DecisionsInv
  <2>2. OutboxIsExact
    BY DEF DecisionsInv, OutboxInv, AcceptanceTold, OutboxIsExact, NoNeedlessResend, OutboxHonest
  <2>3. NoStaleEnforcement
    BY <2>1 DEF DecisionsInv, OnlyDecisions, Decisions, NoStaleEnforcement, EnforcesADecision,
                NeverFalseSuccess
  <2> QED BY <2>1, <2>2, <2>3
<1> QED BY <1>1, DecisionsStart, DecisionsStep, PTL DEF DecisionsSpec

\* In the same composition no step changes what was reported: not a settled row of the
\* outbox, and not a settled target or an ended fan-out, unless an operator or a rule
\* drives the distribution again (_deliver_one, drive_distribution).
THEOREM ReportsStayFinal == DecisionsSpec => ReportsAreFinal
<1> DEFINE Kept == unit # "operations" => \A x \in Dists : ReportKept(x)
<1>1. DecisionsInv /\ [MCNext]_deliveryGroupVars =>
        /\ DecisionsInv'
        /\ [RowsKept]_outboxVars
        /\ [Kept]_deliveryGroupVars
  <2> SUFFICES ASSUME DecisionsInv, [MCNext]_deliveryGroupVars
               PROVE  DecisionsInv' /\ [RowsKept]_outboxVars /\ Kept
    OBVIOUS
  <2>1. DecisionsInv' /\ [OutboxNext]_outboxVars /\ Kept
    BY DecisionsStep
  <2>2. [RowsKept]_outboxVars
    BY <2>1, SettledKept DEF DecisionsInv
  <2> QED BY <2>1, <2>2
<1> QED BY <1>1, DecisionsStart, PTL
        DEF DecisionsSpec, ReportsAreFinal, SettledIsFinal, RowsKept

=============================================================================
