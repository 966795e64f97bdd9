--------------------------- MODULE PublishOutbox ----------------------------
(***************************************************************************)
(* Delta's publish outbox and its drainers (budget_engine/outbox.py,       *)
(* drainer.py, publisher.py; kill_switch/ has the same two files).  Every  *)
(* ingest request drains its tenant's outbox after its own evaluation, so  *)
(* several drainers work on the same rows.                                 *)
(*                                                                         *)
(* Rows are numbered in the order of created_at.  What the distribution    *)
(* seam (O-004) did with the POSTs of a row is kept in accepted.           *)
(***************************************************************************)
EXTENDS Naturals, FiniteSets

CONSTANTS
    Drainers,           \* concurrent drain_tenant calls
    MaxRow,             \* outbox rows 1..MaxRow
    Batch,              \* LIMIT of due_outbox_ids
    MaxAttempts,        \* settings.max_publish_attempts
    MaxCrashes,         \* bound on rolled back deliveries
    Nobody              \* not a drainer: the row is unlocked

ASSUME OutboxAssumption ==
    /\ MaxRow \in Nat
    /\ Batch \in Nat \ {0}
    /\ MaxAttempts \in Nat \ {0}
    /\ MaxCrashes \in Nat
    /\ Nobody \notin Drainers

Rows == 1..MaxRow

Outcomes == {"202", "transient", "permanent"}

VARIABLES
    state,      \* state[r]: "none" before enqueue_decision, then the column
    attempts,   \* attempts[r]
    due,        \* due[r]: next_attempt_at has passed
    holder,     \* holder[r]: the drainer whose transaction has locked row r
    ids,        \* ids[d]: what is left of the snapshot of due ids
    drainAt,    \* drainAt[d]: next step of drainer d
    outcome,    \* outcome[d]: what publish_signed_policy told drainer d
                \*   ("transient" while there is no answer)
    accepted,   \* accepted[r]: whether O-004 has persisted row r ("no"), and if so
                \*   whether Delta can tell ("unsure", "known"); "again" when it was
                \*   given a policy that Delta knew it had
    crashes     \* number of rolled back deliveries

columns == <<state, attempts, due>>
draining == <<holder, ids, drainAt, outcome>>
outboxVars == <<columns, draining, accepted, crashes>>

OutboxTypeOK ==
    /\ state \in [Rows -> {"none", "pending", "distributed", "failed"}]
    /\ attempts \in [Rows -> 0..MaxAttempts]
    /\ due \in [Rows -> BOOLEAN]
    /\ holder \in [Rows -> Drainers \cup {Nobody}]
    /\ ids \in [Drainers -> SUBSET Rows]
    /\ drainAt \in [Drainers -> {"idle", "claim", "publish", "record"}]
    /\ outcome \in [Drainers -> Outcomes]
    /\ accepted \in [Rows -> {"no", "unsure", "known", "again"}]
    /\ crashes \in 0..MaxCrashes

OutboxInit ==
    /\ state = [r \in Rows |-> "none"]
    /\ attempts = [r \in Rows |-> 0]
    /\ due = [r \in Rows |-> FALSE]
    /\ holder = [r \in Rows |-> Nobody]
    /\ ids = [d \in Drainers |-> {}]
    /\ drainAt = [d \in Drainers |-> "idle"]
    /\ outcome = [d \in Drainers |-> "transient"]
    /\ accepted = [r \in Rows |-> "no"]
    /\ crashes = 0

-----------------------------------------------------------------------------
(* Actions *)

\* The engine has committed a decision: pending, due at once.
enqueue_decision(r) ==
    /\ state[r] = "none"
    /\ \A q \in Rows : q < r => state[q] # "none"
    /\ state' = [state EXCEPT ![r] = "pending"]
    /\ due' = [due EXCEPT ![r] = TRUE]
    /\ UNCHANGED <<attempts, draining, accepted, crashes>>

\* The backoff of a retried row has run out.
BackoffEnds(r) ==
    /\ state[r] = "pending" /\ ~due[r]
    /\ due' = [due EXCEPT ![r] = TRUE]
    /\ UNCHANGED <<state, attempts, draining, accepted, crashes>>

DueRows == {r \in Rows : state[r] = "pending" /\ due[r]}

\* drain_tenant: a snapshot, without locks, of the oldest due rows.
due_outbox_ids(d) ==
    /\ drainAt[d] = "idle"
    /\ ids' = [ids EXCEPT ![d] =
                 {r \in DueRows : Cardinality({q \in DueRows : q < r}) < Batch}]
    /\ drainAt' = [drainAt EXCEPT ![d] = "claim"]
    /\ UNCHANGED <<columns, holder, outcome, accepted, crashes>>

\* The row drainer d looks at next.
RowOf(d) == CHOOSE r \in ids[d] : \A q \in ids[d] : r <= q

\* Mutant of Claimable: the snapshot is trusted, only the lock is tried.
MutClaimTrustsSnapshot(r) == holder[r] = Nobody

\* claim_one's WHERE clause is evaluated again, on the row as it is now, and a
\* row another transaction has locked is skipped.
Claimable(r) ==
    /\ state[r] = "pending"
    /\ due[r]
    /\ holder[r] = Nobody

\* SELECT ... FOR UPDATE SKIP LOCKED of the next id; skipped when it is gone.
claim_one(d) ==
    /\ drainAt[d] = "claim"
    /\ ids[d] # {}
    /\ LET r == RowOf(d)
       IN  \/ /\ Claimable(r)
              /\ holder' = [holder EXCEPT ![r] = d]
              /\ drainAt' = [drainAt EXCEPT ![d] = "publish"]
              /\ UNCHANGED ids
           \/ /\ ~Claimable(r)
              /\ ids' = [ids EXCEPT ![d] = @ \ {r}]
              /\ UNCHANGED <<holder, drainAt>>
    /\ UNCHANGED <<columns, outcome, accepted, crashes>>

\* O-004 persists row r once more, and Delta is left with the knowledge k of it.
Persist(r, k) ==
    accepted' = [accepted EXCEPT ![r] = IF @ \in {"known", "again"} THEN "again" ELSE k]

\* publish_signed_policy: O-004 accepted the policy and the 202 arrived.
PublishAccepted(d) ==
    /\ drainAt[d] = "publish"
    /\ Persist(RowOf(d), "known")
    /\ outcome' = [outcome EXCEPT ![d] = "202"]
    /\ drainAt' = [drainAt EXCEPT ![d] = "record"]
    /\ UNCHANGED <<columns, holder, ids, crashes>>

\* O-004 persisted the policy, but the answer was lost, unreadable, or a 5xx
\* from a later step of the handler: a TransientPublishError all the same.
PublishAnswerLost(d) ==
    /\ drainAt[d] = "publish"
    /\ Persist(RowOf(d), "unsure")
    /\ outcome' = [outcome EXCEPT ![d] = "transient"]
    /\ drainAt' = [drainAt EXCEPT ![d] = "record"]
    /\ UNCHANGED <<columns, holder, ids, crashes>>

\* Nothing reached O-004's tables: unreachable, 429, 5xx (transient); any other
\* 4xx, or a payload that cannot be signed (permanent).
PublishRefused(d, o) ==
    /\ drainAt[d] = "publish"
    /\ o \in {"transient", "permanent"}
    /\ outcome' = [outcome EXCEPT ![d] = o]
    /\ drainAt' = [drainAt EXCEPT ![d] = "record"]
    /\ UNCHANGED <<columns, holder, ids, accepted, crashes>>

\* The state _deliver_one records after the attempt that makes n attempts.
NextState(o, n) ==
    CASE o = "202"       -> "distributed"
      [] o = "permanent" -> "failed"
      [] o = "transient" -> IF n >= MaxAttempts THEN "failed" ELSE "pending"

\* Mutant of RecordOutcome: a retry does not count as an attempt.
MutRetryUncounted(d) ==
    /\ drainAt[d] = "record"
    /\ LET r == RowOf(d)
       IN  /\ state' = [state EXCEPT ![r] = NextState(outcome[d], attempts[r] + 1)]
           /\ due' = [due EXCEPT ![r] = FALSE]
           /\ holder' = [holder EXCEPT ![r] = Nobody]
           /\ ids' = [ids EXCEPT ![d] = @ \ {r}]
    /\ drainAt' = [drainAt EXCEPT ![d] = "claim"]
    /\ UNCHANGED <<attempts, outcome, accepted, crashes>>

\* mark_distributed, mark_retry or mark_failed, and the commit that unlocks the
\* row.  A retried row is due again after its backoff.
RecordOutcome(d) ==
    /\ drainAt[d] = "record"
    /\ LET r == RowOf(d)
       IN  /\ state' = [state EXCEPT ![r] = NextState(outcome[d], attempts[r] + 1)]
           /\ attempts' = [attempts EXCEPT ![r] = @ + 1]
           /\ due' = [due EXCEPT ![r] = FALSE]
           /\ holder' = [holder EXCEPT ![r] = Nobody]
           /\ ids' = [ids EXCEPT ![d] = @ \ {r}]
    /\ drainAt' = [drainAt EXCEPT ![d] = "claim"]
    /\ outcome' = [outcome EXCEPT ![d] = "transient"]
    /\ UNCHANGED <<accepted, crashes>>

\* The row's transaction is rolled back: its commit fails and the drain goes on
\* with the next id, or the worker dies and the drain is over.
Rollback(d, dies) ==
    /\ drainAt[d] \in {"publish", "record"}
    /\ crashes < MaxCrashes
    /\ crashes' = crashes + 1
    /\ LET r == RowOf(d)
       IN  /\ holder' = [holder EXCEPT ![r] = Nobody]
           /\ accepted' = IF drainAt[d] = "record" /\ outcome[d] = "202" /\ accepted[r] = "known"
                          THEN [accepted EXCEPT ![r] = "unsure"] ELSE accepted
           /\ ids' = [ids EXCEPT ![d] = IF dies THEN {} ELSE @ \ {r}]
    /\ drainAt' = [drainAt EXCEPT ![d] = "claim"]
    /\ outcome' = [outcome EXCEPT ![d] = "transient"]
    /\ UNCHANGED columns

EndDrain(d) ==
    /\ drainAt[d] = "claim"
    /\ ids[d] = {}
    /\ drainAt' = [drainAt EXCEPT ![d] = "idle"]
    /\ UNCHANGED <<columns, holder, ids, outcome, accepted, crashes>>

\* The steps of a drain that need nothing from outside.
DrainStep(d) ==
    \/ claim_one(d)
    \/ RecordOutcome(d)
    \/ EndDrain(d)

Publish(d) ==
    \/ PublishAccepted(d)
    \/ PublishAnswerLost(d)
    \/ \E o \in Outcomes : PublishRefused(d, o)

OutboxNext ==
    \/ \E r \in Rows : enqueue_decision(r) \/ BackoffEnds(r)
    \/ \E d \in Drainers :
          \/ due_outbox_ids(d)
          \/ DrainStep(d)
          \/ Publish(d)
          \/ \E dies \in BOOLEAN : Rollback(d, dies)

OutboxSpec == OutboxInit /\ [][OutboxNext]_outboxVars

-----------------------------------------------------------------------------
(* Properties *)

\* O-004 is given a policy again only when Delta could not record that it had it:
\* after a lost answer or a rolled back delivery, never because two drainers, or
\* a drainer with an old snapshot, worked on the same row.
NoNeedlessResend ==
    \A r \in Rows : accepted[r] # "again"

\* The columns tell the truth: a row is "distributed" only when O-004 has it and
\* said so, and a row that is still pending has attempts left.
OutboxHonest ==
    \A r \in Rows :
        /\ state[r] = "distributed" => accepted[r] = "known"
        /\ state[r] = "pending" => attempts[r] < MaxAttempts

\* A row that was distributed or dead-lettered is never touched again.
SettledIsFinal ==
    [][\A r \in Rows :
          state[r] \in {"distributed", "failed"} =>
              state'[r] = state[r] /\ attempts'[r] = attempts[r]]_outboxVars

\* Every queued decision is distributed or dead-lettered in the end: none is
\* forgotten by its drainers, whichever of them crash.  (A row is queued once, so
\* with finitely many rows a time comes when none is pending.)
EveryDecisionSettles == <>[](\A r \in Rows : state[r] # "pending")

\* Overlapping drains, lost answers and crashes leave the outbox exact: nothing is
\* sent needlessly and its columns say what happened (drain_tenant, _deliver_one).
OutboxIsExact == NoNeedlessResend /\ OutboxHonest
=============================================================================
