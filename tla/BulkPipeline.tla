---------------------------- MODULE BulkPipeline ----------------------------
(***************************************************************************)
(* Sentinel's bulk pipeline (bulk/api/routes.py, limits.py, queue.py,      *)
(* worker.py, repositories/batch_repository.py): a batch is submitted      *)
(* under an idempotency key within the tenant's slots, one job per file    *)
(* goes on a Redis stream, and workers of one consumer group process,      *)
(* retry or dead-letter each file and complete the batch.  One tenant; a   *)
(* batch is named by its key; a worker reads one message at a time; a      *)
(* message is reclaimed when its reader is dead or slow.                   *)
(***************************************************************************)
EXTENDS Naturals, FiniteSets, FiniteSetsExt

CONSTANTS
    BatchKeys,      \* idempotency keys
    Files,          \* Files[b]: the files of the batch of key b
    Submitters,     \* concurrent POST /v1/batches
    BulkWorkers,    \* worker processes
    Outcomes,       \* what the detectors may decide: "done", "blocked"
    BatchSlots,     \* bulk_max_concurrent_batches_per_tenant
    FileSlots,      \* bulk_max_inflight_files_per_tenant
    BulkRetryMax,   \* bulk_retry_max
    MaxJobs,        \* bound on the jobs put on the stream for a file
    MaxSubmits,     \* bound on the submissions
    MaxBulkFaults   \* bound on the workers and requests that die

ASSUME BulkAssumption ==
    /\ IsFiniteSet(BatchKeys) /\ IsFiniteSet(Submitters) /\ IsFiniteSet(BulkWorkers)
    /\ \A b, c \in BatchKeys : b # c => Files[b] \cap Files[c] = {}
    /\ BulkRetryMax \in Nat \ {0} /\ MaxJobs \in Nat \ {0}
    /\ Outcomes \subseteq {"done", "blocked"}
    /\ BatchSlots \in Nat /\ FileSlots \in Nat /\ MaxSubmits \in Nat /\ MaxBulkFaults \in Nat

AllFiles == UNION {Files[b] : b \in BatchKeys}
BatchOf(f) == CHOOSE b \in BatchKeys : f \in Files[b]
FILE_TERMINAL_STATUSES == {"done", "blocked", "dead_lettered"}

VARIABLES
    bulkBatch,          \* bulkBatch[b]: "none", "queued" or "completed"
    fileStatus,     \* fileStatus[f]
    fileAttempts,   \* attempt_count[f]
    job,            \* job[f][n]: "none", "new", "pending" or "acked": the n-th job of f
    submitting,     \* submitting[s]: a request
    bulkWorker,     \* bulkWorker[w]: what worker w is doing
    batchSlots, fileSlots,  \* the two Redis counters
    accepted,       \* accepted[b]: number of 202 answers for b
    completions,    \* completions[b]: number of batch_completed events
    unreserved,     \* batches submitted past limits that Redis could not keep
    shared,         \* files whose worker died on a message that another worker had too
    submits, bulkFaults

bulkVars == <<bulkBatch, fileStatus, fileAttempts, job, submitting, bulkWorker, batchSlots, fileSlots,
              accepted, completions, unreserved, shared, submits, bulkFaults>>

NoSubmit == [pc |-> "idle"]
NoJob == [pc |-> "idle"]

BulkInit ==
    /\ bulkBatch = [b \in BatchKeys |-> "none"]
    /\ fileStatus = [f \in AllFiles |-> "none"]
    /\ fileAttempts = [f \in AllFiles |-> 0]
    /\ job = [f \in AllFiles |-> [n \in 1..MaxJobs |-> "none"]]
    /\ submitting = [s \in Submitters |-> NoSubmit]
    /\ bulkWorker = [w \in BulkWorkers |-> NoJob]
    /\ batchSlots = 0 /\ fileSlots = 0
    /\ accepted = [b \in BatchKeys |-> 0] /\ completions = [b \in BatchKeys |-> 0]
    /\ unreserved = {} /\ shared = {} /\ submits = 0 /\ bulkFaults = 0

BulkFault == bulkFaults < MaxBulkFaults /\ bulkFaults' = bulkFaults + 1
\* One XADD: the next job of f.
Enqueued(f, js) ==
    LET free == {n \in 1..MaxJobs : js[f][n] = "none"}
    IN  IF free = {} THEN js ELSE [js EXCEPT ![f][Min(free)] = "new"]
_decr_floor(n, k) == IF n < k THEN 0 ELSE n - k

-----------------------------------------------------------------------------
(* POST /v1/batches *)

SubmitGoTo(s, p) == submitting' = [submitting EXCEPT ![s].pc = p]
EndSubmit(s) == submitting' = [submitting EXCEPT ![s] = NoSubmit]
workersUnchanged == UNCHANGED <<fileAttempts, bulkWorker, completions, shared>>

\* A batch that exists is answered at once (_fetch_existing_optional).
submit_batch(s, b) ==
    /\ submitting[s] = NoSubmit /\ submits < MaxSubmits
    /\ submits' = submits + 1
    /\ submitting' = [submitting EXCEPT ![s] =
                        IF bulkBatch[b] # "none" THEN NoSubmit ELSE [pc |-> "reserve", key |-> b, reserved |-> TRUE]]
    /\ workersUnchanged
    /\ UNCHANGED <<bulkBatch, fileStatus, job, batchSlots, fileSlots, accepted, bulkFaults, unreserved>>

\* INCR, and at the cap DECR and 429.
ReserveBatchSlot(s) ==
    /\ submitting[s].pc = "reserve"
    /\ batchSlots' = batchSlots + 1
    /\ SubmitGoTo(s, IF batchSlots + 1 > BatchSlots THEN "giveBatch" ELSE "files")
    /\ workersUnchanged
    /\ UNCHANGED <<bulkBatch, fileStatus, job, fileSlots, accepted, submits, bulkFaults, unreserved>>

ReserveFileSlots(s) ==
    /\ submitting[s].pc = "files"
    /\ LET n == fileSlots + Cardinality(Files[submitting[s].key])
       IN  /\ fileSlots' = n
           /\ SubmitGoTo(s, IF n > FileSlots THEN "giveFiles" ELSE "create")
    /\ workersUnchanged
    /\ UNCHANGED <<bulkBatch, fileStatus, job, batchSlots, accepted, submits, bulkFaults, unreserved>>

\* The refusals of reserve_batch: what it took is given back, one counter at a time.
GiveBack(s) ==
    /\ \/ /\ submitting[s].pc = "giveFiles"
          /\ fileSlots' = fileSlots - Cardinality(Files[submitting[s].key])
          /\ SubmitGoTo(s, "giveBatch") /\ UNCHANGED batchSlots
       \/ /\ submitting[s].pc = "giveBatch"
          /\ batchSlots' = batchSlots - 1
          /\ EndSubmit(s) /\ UNCHANGED fileSlots
    /\ workersUnchanged
    /\ UNCHANGED <<bulkBatch, fileStatus, job, accepted, submits, bulkFaults, unreserved>>

\* A Redis error anywhere in reserve_batch admits the batch without a reservation; what
\* was counted so far stays counted until the counters expire.
ReserveFailsOpen(s) ==
    /\ submitting[s].pc \in {"reserve", "files", "giveFiles", "giveBatch"} /\ BulkFault
    /\ submitting' = [submitting EXCEPT ![s].pc = "create", ![s].reserved = FALSE]
    /\ unreserved' = unreserved \cup {submitting[s].key}
    /\ workersUnchanged
    /\ UNCHANGED <<bulkBatch, fileStatus, job, batchSlots, fileSlots, accepted, submits>>

\* The batch and its files in one transaction, unless the key exists: found by the
\* SELECT, or by the unique constraint of a concurrent submit.
_create_or_get(s) ==
    /\ submitting[s].pc = "create"
    /\ LET b == submitting[s].key
       IN  IF bulkBatch[b] = "none"
           THEN /\ bulkBatch' = [bulkBatch EXCEPT ![b] = "queued"]
                /\ fileStatus' = [f \in AllFiles |-> IF f \in Files[b] THEN "queued" ELSE fileStatus[f]]
                /\ SubmitGoTo(s, "enqueue")
           ELSE /\ IF submitting[s].reserved THEN SubmitGoTo(s, "release") ELSE EndSubmit(s)
                /\ UNCHANGED <<bulkBatch, fileStatus>>
    /\ workersUnchanged
    /\ UNCHANGED <<job, batchSlots, fileSlots, accepted, submits, bulkFaults, unreserved>>

\* One XADD per file, then the 202.
enqueue_files(s) ==
    /\ submitting[s].pc = "enqueue"
    /\ LET b == submitting[s].key
       IN  /\ job' = [f \in AllFiles |-> IF f \in Files[b] THEN Enqueued(f, job)[f] ELSE job[f]]
           /\ accepted' = [accepted EXCEPT ![b] = @ + 1]
    /\ EndSubmit(s)
    /\ workersUnchanged
    /\ UNCHANGED <<bulkBatch, fileStatus, batchSlots, fileSlots, submits, bulkFaults, unreserved>>

release_reservation(s) ==
    /\ submitting[s].pc = "release"
    /\ fileSlots' = _decr_floor(fileSlots, Cardinality(Files[submitting[s].key]))
    /\ batchSlots' = _decr_floor(batchSlots, 1)
    /\ EndSubmit(s)
    /\ workersUnchanged
    /\ UNCHANGED <<bulkBatch, fileStatus, job, accepted, submits, bulkFaults, unreserved>>

SubmitDies(s) ==
    /\ submitting[s] # NoSubmit /\ BulkFault
    /\ EndSubmit(s)
    /\ workersUnchanged
    /\ UNCHANGED <<bulkBatch, fileStatus, job, batchSlots, fileSlots, accepted, submits, unreserved>>

-----------------------------------------------------------------------------
(* The workers *)

WorkGoTo(w, p) == bulkWorker' = [bulkWorker EXCEPT ![w].pc = p]
FileOf(w) == bulkWorker[w].file
submitsUnchanged == UNCHANGED <<submitting, unreserved, accepted, submits>>
XackJob(w) == job' = [job EXCEPT ![FileOf(w)][bulkWorker[w].n] = "acked"]

\* A new message, or one that was pending for a minute.
_consume_batch(w, f, n) ==
    /\ bulkWorker[w] = NoJob /\ job[f][n] \in {"new", "pending"}
    /\ job' = [job EXCEPT ![f][n] = "pending"]
    /\ bulkWorker' = [bulkWorker EXCEPT ![w] = [pc |-> "check", file |-> f, n |-> n, attempt |-> 0, won |-> FALSE]]
    /\ submitsUnchanged
    /\ UNCHANGED <<bulkBatch, fileStatus, fileAttempts, batchSlots, fileSlots, completions, shared, bulkFaults>>

\* The checkpoint: a terminal file is skipped, and its message acked.
process_job(w) ==
    /\ bulkWorker[w].pc = "check"
    /\ IF fileStatus[FileOf(w)] \in FILE_TERMINAL_STATUSES
       THEN XackJob(w) /\ bulkWorker' = [bulkWorker EXCEPT ![w] = NoJob]
       ELSE /\ bulkWorker' = [bulkWorker EXCEPT ![w].pc = "claim", ![w].attempt = fileAttempts[FileOf(w)] + 1]
            /\ UNCHANGED job
    /\ submitsUnchanged
    /\ UNCHANGED <<bulkBatch, fileStatus, fileAttempts, batchSlots, fileSlots, completions, shared, bulkFaults>>

\* The flush and the commit of what was read: 'running' and the attempt it computed.
ClaimFile(w) ==
    /\ bulkWorker[w].pc = "claim"
    /\ fileStatus' = [fileStatus EXCEPT ![FileOf(w)] = "running"]
    /\ fileAttempts' = [fileAttempts EXCEPT ![FileOf(w)] = bulkWorker[w].attempt]
    /\ WorkGoTo(w, "process")
    /\ submitsUnchanged
    /\ UNCHANGED <<bulkBatch, job, batchSlots, fileSlots, completions, shared, bulkFaults>>

\* The detectors and the policies decide; the outcome is written over whatever the row
\* says, and committed.
_finalize(w, status) ==
    /\ bulkWorker[w].pc = "process" /\ status \in Outcomes
    /\ fileStatus' = [fileStatus EXCEPT ![FileOf(w)] = status]
    /\ WorkGoTo(w, "complete")
    /\ submitsUnchanged
    /\ UNCHANGED <<bulkBatch, fileAttempts, job, batchSlots, fileSlots, completions, shared, bulkFaults>>

\* An exception: below the bound 'queued' and then a new job, else 'dead_lettered'.  A
\* key of another tenant (forged job) is dead-lettered at once; none is modelled.
_handle_failure_bulk(w) ==
    /\ bulkWorker[w].pc = "process"
    /\ IF bulkWorker[w].attempt < BulkRetryMax
       THEN fileStatus' = [fileStatus EXCEPT ![FileOf(w)] = "queued"] /\ WorkGoTo(w, "requeue")
       ELSE fileStatus' = [fileStatus EXCEPT ![FileOf(w)] = "dead_lettered"] /\ WorkGoTo(w, "complete")
    /\ submitsUnchanged
    /\ UNCHANGED <<bulkBatch, fileAttempts, job, batchSlots, fileSlots, completions, shared, bulkFaults>>

RequeueFile(w) ==
    /\ bulkWorker[w].pc = "requeue"
    /\ \E n \in 1..MaxJobs : job[FileOf(w)][n] = "none"
    /\ job' = Enqueued(FileOf(w), job)
    /\ WorkGoTo(w, "ack")
    /\ submitsUnchanged
    /\ UNCHANGED <<bulkBatch, fileStatus, fileAttempts, batchSlots, fileSlots, completions, shared, bulkFaults>>

\* Mutant of try_complete_batch: a batch that is completed is completed again.
MutCompleteAgain(w) ==
    /\ bulkWorker[w].pc = "complete"
    /\ LET b == BatchOf(FileOf(w))
           win == \A f \in Files[b] : fileStatus[f] \in FILE_TERMINAL_STATUSES
       IN  /\ bulkBatch' = IF win THEN [bulkBatch EXCEPT ![b] = "completed"] ELSE bulkBatch
           /\ bulkWorker' = [bulkWorker EXCEPT ![w].pc = "emit", ![w].won = win]
    /\ submitsUnchanged
    /\ UNCHANGED <<fileStatus, fileAttempts, job, batchSlots, fileSlots, completions, shared, bulkFaults>>

\* One UPDATE, in a transaction of its own: who moves the batch has won.
try_complete_batch(w) ==
    /\ bulkWorker[w].pc = "complete"
    /\ LET b == BatchOf(FileOf(w))
           win == bulkBatch[b] # "completed" /\ \A f \in Files[b] : fileStatus[f] \in FILE_TERMINAL_STATUSES
       IN  /\ bulkBatch' = IF win THEN [bulkBatch EXCEPT ![b] = "completed"] ELSE bulkBatch
           /\ bulkWorker' = [bulkWorker EXCEPT ![w].pc = "emit", ![w].won = win]
    /\ submitsUnchanged
    /\ UNCHANGED <<fileStatus, fileAttempts, job, batchSlots, fileSlots, completions, shared, bulkFaults>>

\* The events (best effort), then the slots.
_release_slots(w) ==
    /\ bulkWorker[w].pc = "emit"
    /\ LET won == bulkWorker[w].won
           b == BatchOf(FileOf(w))
       IN  /\ completions' = [completions EXCEPT ![b] = IF won THEN @ + 1 ELSE @]
           /\ batchSlots' = IF won THEN _decr_floor(batchSlots, 1) ELSE batchSlots
    /\ fileSlots' = _decr_floor(fileSlots, 1)
    /\ WorkGoTo(w, "ack")
    /\ submitsUnchanged
    /\ UNCHANGED <<bulkBatch, fileStatus, fileAttempts, job, shared, bulkFaults>>

AckJob(w) ==
    /\ bulkWorker[w].pc = "ack"
    /\ XackJob(w)
    /\ bulkWorker' = [bulkWorker EXCEPT ![w] = NoJob]
    /\ submitsUnchanged
    /\ UNCHANGED <<bulkBatch, fileStatus, fileAttempts, batchSlots, fileSlots, completions, shared, bulkFaults>>

\* The message of w was reclaimed from it, or by it from a worker that was only slow.
Shares(w) ==
    \/ job[FileOf(w)][bulkWorker[w].n] = "acked"
    \/ \E v \in BulkWorkers \ {w} :
          bulkWorker[v] # NoJob /\ FileOf(v) = FileOf(w) /\ bulkWorker[v].n = bulkWorker[w].n

\* The process dies, or an error leaves process_job: the message stays pending.
WorkerDies(w) ==
    /\ bulkWorker[w] # NoJob /\ BulkFault
    /\ bulkWorker' = [bulkWorker EXCEPT ![w] = NoJob]
    /\ shared' = IF Shares(w) THEN shared \cup {FileOf(w)} ELSE shared
    /\ submitsUnchanged
    /\ UNCHANGED <<bulkBatch, fileStatus, fileAttempts, job, batchSlots, fileSlots, completions>>

SubmitStep(s) ==
    ReserveBatchSlot(s) \/ ReserveFileSlots(s) \/ GiveBack(s) \/ _create_or_get(s)
        \/ enqueue_files(s) \/ release_reservation(s)

WorkerStep(w) ==
    \/ process_job(w) \/ ClaimFile(w)
    \/ \E status \in Outcomes : _finalize(w, status)
    \/ _handle_failure_bulk(w) \/ RequeueFile(w)
    \/ try_complete_batch(w) \/ _release_slots(w) \/ AckJob(w)

SubmitNext ==
    \E s \in Submitters :
        \/ \E b \in BatchKeys : submit_batch(s, b)
        \/ SubmitStep(s)
        \/ ReserveFailsOpen(s)
        \/ SubmitDies(s)

TakeJob(w) == \E f \in AllFiles, n \in 1..MaxJobs : _consume_batch(w, f, n)

WorkNext(w) ==
    \/ TakeJob(w)
    \/ WorkerStep(w)
    \/ WorkerDies(w)

BulkNext == SubmitNext \/ \E w \in BulkWorkers : WorkNext(w)

BulkSpec == BulkInit /\ [][BulkNext]_bulkVars

-----------------------------------------------------------------------------
(* Properties *)

\* However many workers finish the last files at once, and however often a batch is
\* submitted, its completion is announced and its slot released at most once.
CompletedOnce == \A b \in BatchKeys : completions[b] <= 1 /\ accepted[b] <= 1

\* Accepted batches in progress never exceed the tenant's cap, whatever the order of the
\* reservations, their refusals and the releases: no release gives back a slot twice.
\* A batch that was let in while Redis was down is not counted, and gives back a slot it
\* never took, so the cap is promised only while there is none.
BatchesWithinCap ==
    unreserved = {} =>
        Cardinality({b \in BatchKeys : bulkBatch[b] = "queued"}) <= BatchSlots

\* No job is lost: a file of an accepted batch that is not settled is on the stream, or
\* a worker is still at it, unless a worker died on a message that another, slow or quick, had too.
NoJobLost ==
    \A b \in BatchKeys : accepted[b] > 0 =>
        \A f \in Files[b] :
            \/ fileStatus[f] \in FILE_TERMINAL_STATUSES
            \/ \E n \in 1..MaxJobs : job[f][n] \in {"new", "pending"}
            \/ \E w \in BulkWorkers : bulkWorker[w] # NoJob /\ FileOf(w) = f
            \/ f \in shared

\* Concurrent submissions and workers, and deaths of either, leave the batches
\* exact: completed once, within the cap, no job lost (submit_batch, process_job).
BatchesAreExact == CompletedOnce /\ BatchesWithinCap /\ NoJobLost
=============================================================================
