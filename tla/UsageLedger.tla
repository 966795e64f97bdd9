---------------------------- MODULE UsageLedger -----------------------------
(***************************************************************************)
(* Delta's consume endpoint (ingest/router.py, posting.py, resolver.py,    *)
(* dlq.py) and the ledger's write path (persistence/ledger_store.py): an   *)
(* event is posted as one balanced two-leg transaction, or dead-lettered,  *)
(* or deferred with a 503.  A key stands for (tenant_id, event_id), the    *)
(* ledger's idempotency key; POST /v1/ingest/revenue takes the same steps  *)
(* under keys and a secret of its own, and calls no hooks.                 *)
(***************************************************************************)
EXTENDS Naturals, FiniteSets

CONSTANTS
    Events,     \* idempotency keys
    Handlers,   \* concurrent requests
    Callers,    \* who waits for an answer
    NoCaller    \* the caller has given up

ASSUME LedgerAssumption == NoCaller \notin Callers

VARIABLES
    posting,    \* posting[h]: the request h works on: next step, key, validity, caller
    legs,       \* legs[k]: the committed ledger entries of event k
    letters,    \* events with a row in ingest_dead_letter
    logged,     \* events that survive only in the emergency log line
    refused,    \* events that were refused with a 401
    evaluated,  \* events that the budget engine and the kill-switch have evaluated
    missed      \* events one of them gave up on: switched off, or its evaluation failed

ledgerVars == <<posting, legs, letters, logged, refused, evaluated, missed>>

Free == [pc |-> "free"]
Answers == {"200", "401", "422", "503"}
LedgerInit ==
    /\ posting = [h \in Handlers |-> Free]
    /\ legs = [k \in Events |-> 0]
    /\ letters = {} /\ logged = {} /\ refused = {}
    /\ evaluated = {} /\ missed = {}

PostGoTo(h, p) == posting' = [posting EXCEPT ![h].pc = p]

\* POST /v1/ingest/usage by caller c.  valid: build_usage_record accepts the payload.
\* A signature that does not verify (a stale timestamp, another secret) is refused.
ingest_usage(h, k, valid, c) ==
    /\ posting[h] = Free
    /\ \E p \in {"validate", "401"} :
          /\ posting' = [posting EXCEPT ![h] = [pc |-> p, key |-> k, valid |-> valid, caller |-> c]]
          /\ refused' = IF p = "401" THEN refused \cup {k} ELSE refused
    /\ UNCHANGED <<legs, letters, logged, evaluated, missed>>

build_usage_record(h) ==
    /\ posting[h].pc = "validate"
    /\ PostGoTo(h, IF posting[h].valid THEN "insert" ELSE "letter")
    /\ UNCHANGED <<legs, letters, logged, refused, evaluated, missed>>

\* INSERT ... ON CONFLICT (tenant_id, idempotency_key) DO NOTHING waits for a
\* transaction that has inserted the same key; a replay inserts no entries.
append_transaction(h) ==
    /\ posting[h].pc = "insert"
    /\ \A o \in Handlers : ~(posting[o].pc = "entries" /\ posting[o].key = posting[h].key)
    /\ PostGoTo(h, IF legs[posting[h].key] = 0 THEN "entries" ELSE "hooks")
    /\ UNCHANGED <<legs, letters, logged, refused, evaluated, missed>>

\* The debit and the credit, and the commit that checks their balance.
post_usage(h) ==
    /\ posting[h].pc = "entries"
    /\ legs' = [legs EXCEPT ![posting[h].key] = @ + 2]
    /\ PostGoTo(h, "hooks")
    /\ UNCHANGED <<letters, logged, refused, evaluated, missed>>

\* The posting raises and is rolled back: 503 for a transient error (is_transient),
\* the dead-letter queue for any other.
PostingFails(h) ==
    /\ posting[h].pc \in {"insert", "entries"}
    /\ \E p \in {"503", "letter"} : PostGoTo(h, p)
    /\ UNCHANGED <<legs, letters, logged, refused, evaluated, missed>>

\* dead_letter: at most one row per event; a transient failure of the write is a 503,
\* any other leaves the event in the log only.
_dead_letter_or_503(h) ==
    /\ posting[h].pc = "letter"
    /\ \/ letters' = letters \cup {posting[h].key} /\ PostGoTo(h, "422") /\ UNCHANGED logged
       \/ PostGoTo(h, "503") /\ UNCHANGED <<letters, logged>>
       \/ logged' = logged \cup {posting[h].key} /\ PostGoTo(h, "422") /\ UNCHANGED letters
    /\ UNCHANGED <<legs, refused, evaluated, missed>>

\* evaluate_after_post and evaluate_kill_switch (BudgetEngine, KillSwitch) never raise:
\* one that is off does nothing, and a failure is logged and forgotten.  Then 200, for
\* a replay too.
EvaluateHooks(h) ==
    /\ posting[h].pc = "hooks"
    /\ \/ evaluated' = evaluated \cup {posting[h].key} /\ UNCHANGED missed
       \/ missed' = missed \cup {posting[h].key} /\ UNCHANGED evaluated
    /\ PostGoTo(h, "200")
    /\ UNCHANGED <<legs, letters, logged, refused>>

\* Nobody waits for the answer any more, or the worker dies with the connection.
HandlerEnds(h) ==
    /\ posting[h].pc # "free" /\ posting[h].caller = NoCaller
    /\ posting' = [posting EXCEPT ![h] = Free]
    /\ UNCHANGED <<legs, letters, logged, refused, evaluated, missed>>

Handle(h) ==
    \/ build_usage_record(h)
    \/ append_transaction(h)
    \/ post_usage(h)
    \/ _dead_letter_or_503(h)
    \/ EvaluateHooks(h)

-----------------------------------------------------------------------------
(* Properties *)

\* The events that reached the hooks, whatever came of it.
Attempted == evaluated \cup missed

\* However often and concurrently an event is delivered, it is booked once: one
\* debit and one credit.
BookedOnce == \A k \in Events : legs[k] \in {0, 2}

=============================================================================
