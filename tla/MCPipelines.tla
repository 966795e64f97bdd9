------------------------------ MODULE MCPipelines ------------------------------
(***************************************************************************)
(* The pipelines for TLC: Sentinel's webhook and bulk workers and its rate *)
(* limiter, the Orchestrator's ingest with Delta's ledger behind it, and   *)
(* the hash-chained audit logs.  They share no state that a property       *)
(* relates, so every behaviour runs one of them, named by unit, and the    *)
(* others stay where they start.                                           *)
(***************************************************************************)
EXTENDS WebhookDispatcher, BulkPipeline, RateLimiter, UsageBooking, AuditChain

VARIABLE unit

pipelineVars == <<webhookVars, bulkVars, rateVars, bookingVars, chainVars, unit>>

-----------------------------------------------------------------------------
(* Constants with structure *)

mcEventSeverity == [m \in Candidates |-> 1]
mcEventScope == [m \in Candidates |-> "own"]
mcMinSeverity == [c \in Hooks |-> IF c = "h3" THEN 2 ELSE 1]
mcHookScope == [c \in Hooks |-> IF c = "h2" THEN "other" ELSE "any"]
mcFiles == [b \in BatchKeys |-> IF b = "b1" THEN {"f1", "f2"} ELSE {"f3"}]
\* t1's number is between two values of c1's column; c2 keeps every number.
mcValue == [t \in Transactions |-> IF t = "t1" THEN 3 ELSE 4]
mcGrain == [c \in Chains |-> IF c = "c1" THEN 4 ELSE 1]
mcTenantOf == [c \in Contents |-> IF c = "other" THEN "t2" ELSE "t1"]

-----------------------------------------------------------------------------
(* Units that start in the middle *)

\* An event has been accepted, and a drain has selected it.
Ingested ==
    /\ stored \in {[k \in Keys |-> IF k = "k1" THEN c ELSE NoPayload] : c \in Contents}
    /\ arrived = <<"k1">>
    /\ fstatus = [k \in Keys |-> IF k = "k1" THEN "pending" ELSE "none"]
    /\ tried = [k \in Keys |-> 0]
    /\ links = [k \in Keys |-> IF k = "k1" THEN 1 ELSE 0] /\ automated = links
    /\ dlq = {} /\ acked = {}
    /\ req = [e \in Emitters |-> Idle]
    /\ batch = [d \in Dispatchers |-> IF d = "d2" THEN {[at |-> 1, key |-> "k1", tried |-> 0]} ELSE {}]
    /\ dpc = [d \in Dispatchers |-> IF d = "d2" THEN "row" ELSE "idle"]
    /\ answer = [d \in Dispatchers |-> "none"]
    /\ LedgerInit

\* Batch b1 is accepted; a worker has failed once on its second file.
Accepted ==
    /\ bulkBatch = [b \in BatchKeys |-> IF b = "b1" THEN "queued" ELSE "none"]
    /\ fileStatus = [f \in AllFiles |-> IF BatchOf(f) = "b1" THEN "queued" ELSE "none"]
    /\ fileAttempts = [f \in AllFiles |-> IF f = "f2" THEN 1 ELSE 0]
    /\ job = [f \in AllFiles |-> [n \in 1..MaxJobs |->
                 CASE f = "f1" /\ n = 1 -> "new"
                   [] f = "f2" /\ n = 1 -> "acked"
                   [] f = "f2" /\ n = 2 -> "new"
                   [] OTHER -> "none"]]
    /\ submitting = [s \in Submitters |-> NoSubmit]
    /\ bulkWorker = [w \in BulkWorkers |-> NoJob]
    /\ batchSlots = 1 /\ fileSlots = 2
    /\ accepted = [b \in BatchKeys |-> IF b = "b1" THEN 1 ELSE 0]
    /\ completions = [b \in BatchKeys |-> 0]
    /\ unreserved = {} /\ shared = {} /\ submits = MaxSubmits /\ bulkFaults = 0

PipelinesInit ==
    /\ unit \in {"webhooks", "submit", "bulk", "windows", "outage", "ingest", "booking", "chain"}
    /\ WebhookInit /\ RateInit /\ ChainInit
    /\ IF unit = "booking" THEN Ingested ELSE BookingInit
    /\ IF unit = "bulk" THEN Accepted ELSE BulkInit

-----------------------------------------------------------------------------
Webhooks ==
    /\ unit = "webhooks"
    /\ WebhookNext
    /\ UNCHANGED <<bulkVars, rateVars, bookingVars, chainVars>>

\* Submissions while one worker runs; two workers, of which one may die, on what
\* was submitted.
Bulk ==
    /\ \/ unit = "submit" /\ (SubmitNext \/ WorkNext("w1"))
       \/ unit = "bulk" /\ (WorkNext("w1") \/ TakeJob("w2") \/ WorkerStep("w2"))
    /\ UNCHANGED <<webhookVars, rateVars, bookingVars, chainVars>>

Waiting(r) == AtTier(r) /\ inflight[r].sent

\* Two streams of one key and a plain request against the windows of keys and tenant, while time passes
\* and transactions are executed in any order, each in time; two requests of one key
\* against an outage of Redis and, for the first of them, a lost or a late answer.  The
\* two of one key are interchangeable: r1 is the one that arrives first.
Rate ==
    /\ \/ /\ unit = "windows"
          /\ \/ (\A r \in Incoming : Waiting(r) => rateClock < inflight[r].stamp + MaxLag) /\ Pass
             \/ \E r \in Incoming :
                   \/ /\ r = "r2" => inflight["r1"].pc # "new"
                      /\ \E k \in VKeys : (r # "r3" => k = "k1") /\ check_rate_limit(r, k, r # "r3")
                   \/ inflight[r].pc # "team" /\ StampTier(r)
                   \/ _redis_admit_tier(r) \/ NoTeamTier(r) \/ ReserveStream(r) \/ _redis_zrem(r)
       \/ /\ unit = "outage"
          /\ \/ \E r \in Incoming \ {"r3"} :
                   \/ /\ r = "r2" => inflight["r1"].pc # "new"
                      /\ \E stream \in BOOLEAN : check_rate_limit(r, "k1", stream)
                   \/ RequestStep(r) /\ inflight'["r2"].pc # "failed"
             \/ _health_loop \/ RedisFails \/ RedisReturns
             \/ /\ Waiting("r1") /\ inflight["r1"].pc = "tenant" /\ inflight["r2"].pc = "new"
                /\ rateClock <= MaxLag /\ Pass
    /\ UNCHANGED <<webhookVars, bulkVars, bookingVars, chainVars>>

\* Handlers are interchangeable: a request goes to the first that is free.
FirstFree == posting["g2"] = Free /\ posting'["g2"] # Free => posting["g1"] # Free

\* One drain runs again and again; the other is an overlapping pass, which may die.
Usage ==
    /\ \/ /\ unit = "ingest"
          /\ \E e \in Emitters : Ingest(e)
          /\ \A e \in Emitters : req'[e] # Idle => req'[e].key = "k1"
          /\ UNCHANGED ledgerVars
       \/ /\ unit = "booking"
          /\ \/ DispatcherStep("d1") \/ PassStep("d2") \/ DrainDies("d2")
             \/ \E h \in Handlers : HandlerStep(h)
          /\ FirstFree
    /\ UNCHANGED <<webhookVars, bulkVars, rateVars, chainVars>>

Appends ==
    /\ unit = "chain"
    /\ ChainNext
    /\ UNCHANGED <<webhookVars, bulkVars, rateVars, bookingVars>>

\* With nothing in progress a component may stay as it is, so that a deadlock is a
\* request or a job that can never end; a requeue may be out of MaxJobs.
Rest ==
    /\ \A w \in HookWorkers : dispatcher[w] = AtRest
    /\ \A s \in Submitters : submitting[s] = NoSubmit
    /\ \A w \in BulkWorkers : bulkWorker[w].pc \in {"idle", "requeue"}
    /\ \A r \in Incoming : inflight[r].pc \in {"new", "refused", "rejected", "admitted", "answered", "closed"}
    /\ \A t \in Transactions : phase[t] \in {"new", "done"}
    /\ UNCHANGED <<webhookVars, bulkVars, rateVars, bookingVars, chainVars>>

PipelinesNext ==
    /\ UNCHANGED unit
    /\ Webhooks \/ Bulk \/ Rate \/ Usage \/ Appends \/ Rest

-----------------------------------------------------------------------------
(* Fairness *)

\* A running worker goes on: every post has a timeout.  An idle one reads what is
\* new, and reclaims what is pending too long (run_worker).
WebhookFairness ==
    LET rest == <<bulkVars, rateVars, bookingVars, chainVars, unit>>
    IN  /\ \A w \in HookWorkers :
              WF_pipelineVars(unit = "webhooks" /\ HookWorkerStep(w) /\ UNCHANGED rest)
        /\ \A m \in Candidates :
              WF_pipelineVars(/\ unit = "webhooks"
                              /\ \E w \in HookWorkers : xreadgroup(w, m) \/ xautoclaim(w, m)
                              /\ UNCHANGED rest)

\* Redis comes back, the health loop runs for as long as the process, and a request
\* goes on to its answer.
RateFairness ==
    LET rest == <<webhookVars, bulkVars, bookingVars, chainVars, unit>>
    IN  /\ WF_pipelineVars(unit = "outage" /\ _health_loop /\ UNCHANGED rest)
        /\ WF_pipelineVars(unit = "outage" /\ RedisReturns /\ UNCHANGED rest)
        /\ \A r \in Incoming :
              WF_pipelineVars(unit = "outage" /\ RequestStep(r) /\ UNCHANGED rest)

\* Drains are started again and again by a scheduler outside the repository, their
\* POSTs time out, and a handler runs until it answers.
BookingFairness ==
    LET rest == <<webhookVars, bulkVars, rateVars, chainVars, unit>>
    IN  /\ WF_pipelineVars(unit = "booking" /\ DispatcherStep("d1") /\ UNCHANGED rest)
        /\ \A h \in Handlers :
              WF_pipelineVars(unit = "booking" /\ HandlerStep(h) /\ UNCHANGED rest)

\* A transaction that can go on does, and Postgres ends a deadlock by cancelling one
\* of its transactions.
ChainFairness ==
    \A t \in Transactions :
        WF_pipelineVars(/\ unit = "chain"
                        /\ TransactionStep(t) \/ BreakDeadlock(t)
                        /\ UNCHANGED <<webhookVars, bulkVars, rateVars, bookingVars, unit>>)

PipelinesSpec ==
    /\ PipelinesInit /\ [][PipelinesNext]_pipelineVars
    /\ WebhookFairness /\ RateFairness /\ BookingFairness /\ ChainFairness

-----------------------------------------------------------------------------
(* Liveness *)

\* Every candidate leaves the stream in the end, whatever the targets answer and
\* whichever workers die: none is reclaimed forever (_consume_candidates).
EveryCandidateIsAcked == <>[](unit = "webhooks" => \A m \in Candidates : entry[m] = "acked")

\* The limiter returns to Redis after every outage, in whatever order the requests
\* that met it and the health loop report (_handle_redis_error, _health_loop).
Recovers == <>[](~degraded)

\* Every accepted event leaves the outbox in the end: overlapping drains that
\* overwrite each other's attempt counts do not retry it forever (dispatch_pending).
EveryEventSettles == <>[](unit = "booking" => \A k \in Keys : fstatus[k] # "pending")

\* No transaction waits forever: business rows and chains are locked in any order,
\* and a cycle of waiting transactions is broken (append_history).
TransactionsEnd == <>[](\A t \in Transactions : phase[t] \in {"new", "done"})

\* Every pipeline comes to rest: candidates and events leave their queues, the
\* limiter leaves its fallback, transactions end (run_worker, dispatch_pending,
\* _health_loop, append_history).
PipelinesSettle == EveryCandidateIsAcked /\ EveryEventSettles /\ Recovers /\ TransactionsEnd
=============================================================================
