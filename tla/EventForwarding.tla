-------------------------- MODULE EventForwarding ---------------------------
(***************************************************************************)
(* The Orchestrator's ingest seam and its forward outbox                   *)
(* (ingest/router.py, pipeline/ingest_pipeline.py, dispatch/dispatcher.py, *)
(* persistence/repositories.py).  Sentinel delivers an event at least      *)
(* once; each is stored once, with a pending outbox row, or dead-lettered. *)
(* dispatch_pending drains the outbox to Delta in passes that may overlap. *)
(*                                                                         *)
(* A content stands for a payload and its content_hash; the tenant_id is   *)
(* part of it.  Envelopes that fail the HMAC or are malformed are refused  *)
(* before the pipeline and change nothing.                                 *)
(***************************************************************************)
EXTENDS Naturals, Sequences, FiniteSets, SequencesExt

CONSTANTS
    Keys,           \* idempotency keys (event ids)
    Contents,       \* payloads
    TenantOf,       \* TenantOf[c]: the tenant named by payload c
    UsagePayloads,  \* the payloads whose event_type is "usage"
    Emitters,       \* concurrent ingest requests
    Dispatchers,    \* overlapping dispatch_pending passes
    Limit,          \* LIMIT of _select_pending
    MaxForwards,    \* max_attempts
    NoPayload       \* no ingest_events row

ASSUME ForwardingAssumption ==
    /\ TenantOf \in [Contents -> STRING]
    /\ UsagePayloads \subseteq Contents
    /\ Limit \in Nat \ {0}
    /\ MaxForwards \in Nat \ {0}
    /\ NoPayload \notin Contents

VARIABLES
    stored,     \* stored[k]: payload of the committed ingest_events row
    arrived,    \* the keys of the forward_outbox rows, by created_at
    fstatus,    \* fstatus[k]: status of the forward_outbox row
    tried,      \* tried[k]: its attempt_count
    links,      \* links[k]: number of "accepted" links of k in the audit chain
    dlq,        \* <<k, c>>: rows of dead_letter_queue
    acked,      \* <<k, c>>: envelopes that were answered 202
    automated,  \* automated[k]: evaluations of automation rules scheduled for k
    req,        \* req[e]: an ingest request: its next statement, key and payload
    batch,      \* batch[d]: what is left of the rows drain d has selected, as read
    dpc,        \* dpc[d]: next step of drain d
    answer      \* answer[d]: class of Delta's answer to drain d

ingest == <<stored, arrived, links, dlq, acked, automated, req>>
outboxRows == <<fstatus, tried>>
drains == <<batch, dpc, answer>>
forwardingVars == <<ingest, outboxRows, drains>>

Idle == [pc |-> "idle"]
ForwardingInit ==
    /\ stored = [k \in Keys |-> NoPayload]
    /\ arrived = <<>>
    /\ fstatus = [k \in Keys |-> "none"]
    /\ tried = [k \in Keys |-> 0]
    /\ links = [k \in Keys |-> 0] /\ automated = [k \in Keys |-> 0]
    /\ dlq = {} /\ acked = {}
    /\ req = [e \in Emitters |-> Idle]
    /\ batch = [d \in Dispatchers |-> {}]
    /\ dpc = [d \in Dispatchers |-> "idle"]
    /\ answer = [d \in Dispatchers |-> "none"]

-----------------------------------------------------------------------------
(* Ingest *)

GoTo(e, p) == req' = [req EXCEPT ![e].pc = p]

\* A verified envelope.  sound: schema version, payload schema, source identity
\* and the two coherence checks all hold; otherwise it is dead-lettered.
process_envelope(e, k, c, sound) ==
    /\ req[e] = Idle
    /\ req' = [req EXCEPT ![e] =
                 [pc |-> IF sound THEN "check" ELSE "dead", key |-> k, con |-> c]]
    /\ UNCHANGED <<stored, arrived, links, dlq, acked, automated, outboxRows, drains>>

\* Row level security shows a tenant session the tenant's own row only.
VisibleTo(c, k) == stored[k] # NoPayload /\ TenantOf[stored[k]] = TenantOf[c]

tenant_event_content_hash(e) ==
    /\ req[e].pc = "check"
    /\ LET k == req[e].key
           c == req[e].con
       IN  GoTo(e, IF ~VisibleTo(c, k) THEN "insert"
                   ELSE IF stored[k] = c THEN "recorded" ELSE "dead")
    /\ UNCHANGED <<stored, arrived, links, dlq, acked, automated, outboxRows, drains>>

\* The INSERT waits for a transaction that has inserted the same key; a key that
\* is already committed is an IntegrityError.
insert_ingest_event(e) ==
    /\ req[e].pc = "insert"
    /\ \A o \in Emitters : ~(req[o].pc = "commit" /\ req[o].key = req[e].key)
    /\ GoTo(e, IF stored[req[e].key] = NoPayload THEN "commit" ELSE "resolve")
    /\ UNCHANGED <<stored, arrived, links, dlq, acked, automated, outboxRows, drains>>

\* insert_forward_outbox and the commit of both rows.
CommitEvent(e) ==
    /\ req[e].pc = "commit"
    /\ LET k == req[e].key
       IN  /\ stored' = [stored EXCEPT ![k] = req[e].con]
           /\ arrived' = IF Contains(arrived, k) THEN arrived ELSE Append(arrived, k)
           /\ fstatus' = [fstatus EXCEPT ![k] = "pending"]
    /\ GoTo(e, "link")
    /\ UNCHANGED <<tried, links, dlq, acked, automated, drains>>

\* Mutant of privileged_event_content_hash: every collision is a duplicate.
MutResolveAlwaysDuplicate(e) ==
    /\ req[e].pc = "resolve"
    /\ GoTo(e, "recorded")
    /\ UNCHANGED <<stored, arrived, links, dlq, acked, automated, outboxRows, drains>>

privileged_event_content_hash(e) ==
    /\ req[e].pc = "resolve"
    /\ GoTo(e, IF stored[req[e].key] = req[e].con THEN "recorded" ELSE "dead")
    /\ UNCHANGED <<stored, arrived, links, dlq, acked, automated, outboxRows, drains>>

\* The accepted link, in a transaction of its own after the event's commit.
append_audit_link(e) ==
    /\ req[e].pc = "link"
    /\ links' = [links EXCEPT ![req[e].key] = @ + 1]
    /\ GoTo(e, "accepted")
    /\ UNCHANGED <<stored, arrived, dlq, acked, automated, outboxRows, drains>>

\* The failure envelope and its dead_lettered link, in one transaction.
_dead_letter(e) ==
    /\ req[e].pc = "dead"
    /\ dlq' = dlq \cup {<<req[e].key, req[e].con>>}
    /\ GoTo(e, "recorded")
    /\ UNCHANGED <<stored, arrived, links, acked, automated, outboxRows, drains>>

\* 202.  Only a fresh acceptance schedules the automation rules.
ingest_event(e) ==
    /\ req[e].pc \in {"accepted", "recorded"}
    /\ acked' = acked \cup {<<req[e].key, req[e].con>>}
    /\ automated' = IF req[e].pc = "accepted"
                    THEN [automated EXCEPT ![req[e].key] = @ + 1] ELSE automated
    /\ req' = [req EXCEPT ![e] = Idle]
    /\ UNCHANGED <<stored, arrived, links, dlq, outboxRows, drains>>

\* A database error or a dead worker: what is not committed is gone, and the
\* answer is a 5xx or none.  Sentinel delivers the event again.
IngestFails(e) ==
    /\ req[e].pc # "idle"
    /\ req' = [req EXCEPT ![e] = Idle]
    /\ UNCHANGED <<stored, arrived, links, dlq, acked, automated, outboxRows, drains>>

-----------------------------------------------------------------------------
(* Dispatch *)

\* The oldest pending rows, at most Limit.
_select_pending(d) ==
    /\ dpc[d] = "idle"
    /\ LET due == {i \in DOMAIN arrived : fstatus[arrived[i]] = "pending"}
           some == {i \in due : Cardinality({j \in due : j < i}) < Limit}
       IN  batch' = [batch EXCEPT ![d] =
                       {[at |-> i, key |-> arrived[i], tried |-> tried[arrived[i]]] : i \in some}]
    /\ dpc' = [dpc EXCEPT ![d] = "row"]
    /\ UNCHANGED <<ingest, outboxRows, answer>>

\* UPDATE ... WHERE id = :id AND status = 'pending'.
_apply(k, s, n) ==
    IF fstatus[k] = "pending"
    THEN /\ fstatus' = [fstatus EXCEPT ![k] = s]
         /\ tried' = [tried EXCEPT ![k] = n]
    ELSE UNCHANGED outboxRows

\* The row drain d works on, the oldest of those it has left.
RowOf(d) == CHOOSE r \in batch[d] : \A q \in batch[d] : r.at <= q.at
NextRow(d) == batch' = [batch EXCEPT ![d] = @ \ {RowOf(d)}]

\* An event that is not a usage event is not forwarded.
SkipRow(d) ==
    /\ dpc[d] = "row" /\ batch[d] # {}
    /\ LET r == RowOf(d)
       IN  /\ stored[r.key] \notin UsagePayloads
           /\ _apply(r.key, "skipped", r.tried)
    /\ NextRow(d)
    /\ UNCHANGED <<ingest, dpc, answer>>

\* The signed POST leaves; a drain waits for its answer.
SendRow(d) ==
    /\ dpc[d] = "row" /\ batch[d] # {}
    /\ stored[RowOf(d).key] \in UsagePayloads
    /\ dpc' = [dpc EXCEPT ![d] = "wait"]
    /\ UNCHANGED <<ingest, outboxRows, batch, answer>>

Answered(d, a) ==
    /\ dpc[d] = "wait"
    /\ answer' = [answer EXCEPT ![d] = a]
    /\ dpc' = [dpc EXCEPT ![d] = "apply"]
    /\ UNCHANGED <<ingest, outboxRows, batch>>

\* Mutant of _record_transient: a failed attempt is not counted.
MutTransientUncounted(k, n) == _apply(k, IF n + 1 >= MaxForwards THEN "failed" ELSE "pending", n)

\* A transient failure of a row that was selected with n attempts.
_record_transient(k, n) ==
    _apply(k, IF n + 1 >= MaxForwards THEN "failed" ELSE "pending", n + 1)

\* The attempt count written is the one the drain selected, not the row's own.
_dispatch_row(d) ==
    /\ dpc[d] = "apply"
    /\ LET r == RowOf(d)
       IN  CASE answer[d] = "2xx"       -> _apply(r.key, "forwarded", r.tried)
             [] answer[d] = "4xx"       -> _apply(r.key, "failed", r.tried)
             [] answer[d] = "transient" -> _record_transient(r.key, r.tried)
    /\ NextRow(d)
    /\ answer' = [answer EXCEPT ![d] = "none"]
    /\ dpc' = [dpc EXCEPT ![d] = "row"]
    /\ UNCHANGED ingest

\* The summary is returned.
EndPass(d) ==
    /\ dpc[d] = "row" /\ batch[d] = {}
    /\ dpc' = [dpc EXCEPT ![d] = "idle"]
    /\ UNCHANGED <<ingest, outboxRows, batch, answer>>

\* The process of a drain dies: the rows it has not applied stay pending.
PassDies(d) ==
    /\ dpc[d] # "idle"
    /\ dpc' = [dpc EXCEPT ![d] = "idle"]
    /\ batch' = [batch EXCEPT ![d] = {}]
    /\ answer' = [answer EXCEPT ![d] = "none"]
    /\ UNCHANGED <<ingest, outboxRows>>

Ingest(e) ==
    \/ \E k \in Keys, c \in Contents, sound \in BOOLEAN : process_envelope(e, k, c, sound)
    \/ tenant_event_content_hash(e)
    \/ insert_ingest_event(e)
    \/ CommitEvent(e)
    \/ privileged_event_content_hash(e)
    \/ append_audit_link(e)
    \/ _dead_letter(e)
    \/ ingest_event(e)
    \/ IngestFails(e)

-----------------------------------------------------------------------------
(* Properties *)

\* An envelope is answered 202 only when it is durably recorded: as the stored event
\* of its key, or as a dead letter.  No race of two deliveries under one key, from
\* one tenant or two, acknowledges a payload that was dropped.
AckedIsRecorded ==
    \A a \in acked : stored[a[1]] = a[2] \/ a \in dlq

\* One acceptance per key, however often and however concurrently it is delivered:
\* one accepted link in the audit chain, one evaluation of the automation rules,
\* and neither without the event.
AcceptedOnlyOnce ==
    \A k \in Keys :
        /\ links[k] + Cardinality({e \in Emitters : req[e].pc = "link" /\ req[e].key = k}) <= 1
        /\ automated[k] <= links[k]
        /\ links[k] > 0 => stored[k] # NoPayload

\* However an envelope is repeated, it is answered by what is stored and accepted
\* once (process_envelope, _persist_or_dedup).
IngestIsIdempotent == AckedIsRecorded /\ AcceptedOnlyOnce
=============================================================================
