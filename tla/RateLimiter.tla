---------------------------- MODULE RateLimiter -----------------------------
(***************************************************************************)
(* Sentinel's rate limiter (gateway/middleware/rate_limit.py,              *)
(* gateway/redis_client.py) and the part of routes/chat_completions.py     *)
(* that holds a stream slot: sliding windows per virtual key, team and     *)
(* tenant in Redis, a counter of open streams, and an in-process fallback  *)
(* while Redis is degraded.  One tenant with one team and one gateway      *)
(* process.  A request takes its time stamp before it sends its            *)
(* transaction, and Redis executes what was sent in any order; the client  *)
(* waits for an answer no longer than its socket timeout, MaxLag.          *)
(* Limits are per tier: Rpm for a key and the tenant, TeamRpm for the team.*)
(***************************************************************************)
EXTENDS Integers, FiniteSets

CONSTANTS
    Incoming,       \* each request is made once
    VKeys,          \* virtual keys of the tenant
    Rpm, TeamRpm,   \* rate_limit_rpm, team_rpm_limit
    Burst,          \* rate_limit_burst, within one time unit
    MaxStreams,     \* max_concurrent_streams_per_tenant
    Window,         \* the sliding window, in time units
    MaxLag,         \* socket_timeout of the pool: an older transaction is given up
    MaxTime,        \* bound on the clock
    MaxOutages      \* bound on the times Redis goes down

ASSUME RateAssumption ==
    /\ Window \in Nat \ {0} /\ MaxLag \in Nat /\ MaxTime \in Nat /\ MaxOutages \in Nat
    /\ Rpm \in Nat /\ TeamRpm \in Nat /\ Burst \in Nat /\ MaxStreams \in Nat

VARIABLES
    rateClock,      \* the clock
    redisUp,        \* Redis answers
    outages,        \* times it went down
    degraded,       \* _redis_degraded
    zset,           \* zset[t]: members [req, at] of the sorted set of tier t
    streams,        \* sentinel:rl:streams
    localWindow,    \* localWindow[t]: _key_windows and _tenant_windows
    localStreams,   \* _stream_counters
    inflight,       \* inflight[r]: a request
    emitted,        \* _degraded_emitted
    announced,      \* rate_limit_degraded events of the request path
    recoveries      \* rate_limit_recovered events

rateVars == <<rateClock, redisUp, outages, degraded, zset, streams, localWindow, localStreams, inflight,
              emitted, announced, recoveries>>

Tiers == VKeys \cup {"team", "tenant"}
LimitOf(t) == IF t = "team" THEN TeamRpm ELSE Rpm

RateInit ==
    /\ rateClock = 0 /\ redisUp = TRUE /\ outages = 0 /\ degraded = FALSE
    /\ zset = [t \in Tiers |-> {}] /\ streams = 0
    /\ localWindow = [t \in Tiers |-> {}] /\ localStreams = 0
    /\ inflight = [r \in Incoming |-> [pc |-> "new"]]
    /\ emitted = FALSE /\ announced = 0 /\ recoveries = 0

clockUnchanged == UNCHANGED <<rateClock, redisUp, outages>>
healthUnchanged == UNCHANGED <<degraded, emitted, announced, recoveries>>
localUnchanged == UNCHANGED <<localWindow, localStreams>>
ReqGoTo(r, p) == inflight' = [inflight EXCEPT ![r].pc = p]

-----------------------------------------------------------------------------
(* Admission through Redis *)

\* The request of key k; paid holds the members it has added, by tier; sent, that a
\* transaction with stamp is on its way to Redis.
check_rate_limit(r, k, stream) ==
    /\ inflight[r].pc = "new"
    /\ inflight' = [inflight EXCEPT ![r] = [pc |-> IF degraded THEN "legacy" ELSE "key", key |-> k, stream |-> stream,
                                  path |-> "none", paid |-> {}, held |-> FALSE,
                                  sent |-> FALSE, stamp |-> 0]]
    /\ clockUnchanged /\ healthUnchanged /\ localUnchanged /\ UNCHANGED <<zset, streams>>

TierOf(r) == IF inflight[r].pc = "key" THEN inflight[r].key ELSE inflight[r].pc
NextTier == [key |-> "team", team |-> "tenant", tenant |-> "stream"]

AtTier(r) == inflight[r].pc \in {"key", "team", "tenant"}

\* now_ms is read, the transaction is built and sent.
StampTier(r) ==
    /\ AtTier(r) /\ ~inflight[r].sent
    /\ inflight' = [inflight EXCEPT ![r].sent = TRUE, ![r].stamp = rateClock]
    /\ clockUnchanged /\ healthUnchanged /\ localUnchanged /\ UNCHANGED <<zset, streams>>

\* MULTI: what left the window before the stamp is removed and this request is added.
Kept(r) == {m \in zset[TierOf(r)] : m.at + Window > inflight[r].stamp}
Executed(r) == Kept(r) \cup {[req |-> r, at |-> inflight[r].stamp]}
ExecutesTier(r) ==
    /\ AtTier(r) /\ inflight[r].sent /\ redisUp
    /\ zset' = [zset EXCEPT ![TierOf(r)] = Executed(r)]

\* Within the tier's limit and within the burst of its last time unit.
Fits(members, r) ==
    /\ Cardinality(members) <= LimitOf(TierOf(r))
    /\ Cardinality({m \in members : m.at = inflight[r].stamp}) <= Burst

TierAnswers(r, fits) ==
    /\ inflight' = [inflight EXCEPT ![r].pc = IF fits THEN NextTier[@] ELSE "undo",
                          ![r].paid = IF fits THEN @ \cup {[tier |-> TierOf(r), at |-> inflight[r].stamp]} ELSE @,
                          ![r].sent = FALSE]
    /\ clockUnchanged /\ healthUnchanged /\ localUnchanged /\ UNCHANGED streams

\* Mutant of _redis_admit_tier: ZCARD before ZADD.
MutCountBeforeAdd(r) ==
    /\ ExecutesTier(r) /\ rateClock <= inflight[r].stamp + MaxLag
    /\ TierAnswers(r, Fits(Kept(r), r))

\* The transaction counts the request it has added, and is answered in time.
_redis_admit_tier(r) ==
    /\ ExecutesTier(r) /\ rateClock <= inflight[r].stamp + MaxLag
    /\ TierAnswers(r, Fits(Executed(r), r))

\* Redis executes what was sent, but the answer is lost or comes too late.
AnswerLost(r) ==
    /\ \/ ExecutesTier(r) /\ UNCHANGED streams
       \/ /\ inflight[r].pc = "stream" /\ inflight[r].stream /\ redisUp
          /\ streams' = streams + 1 /\ UNCHANGED zset
    /\ ReqGoTo(r, "failed")
    /\ clockUnchanged /\ healthUnchanged /\ localUnchanged

\* The team has no limit, or it cannot be read from the database: its tier is skipped.
NoTeamTier(r) ==
    /\ inflight[r].pc = "team" /\ ~inflight[r].sent
    /\ ReqGoTo(r, "tenant")
    /\ clockUnchanged /\ healthUnchanged /\ localUnchanged /\ UNCHANGED <<zset, streams>>

\* INCR: above the cap it is taken back and the request refused.
ReserveStream(r) ==
    /\ inflight[r].pc = "stream"
    /\ \/ /\ ~inflight[r].stream
          /\ inflight' = [inflight EXCEPT ![r].pc = "admitted", ![r].path = "redis"]
          /\ UNCHANGED streams
       \/ /\ inflight[r].stream /\ redisUp
          /\ IF streams + 1 > MaxStreams
             THEN ReqGoTo(r, "undo") /\ UNCHANGED streams
             ELSE /\ inflight' = [inflight EXCEPT ![r].pc = "admitted", ![r].path = "redis", ![r].held = TRUE]
                  /\ streams' = streams + 1
    /\ clockUnchanged /\ healthUnchanged /\ localUnchanged /\ UNCHANGED zset

\* The compensating ZREMs of the tiers that had admitted, each best effort.
_redis_zrem(r) ==
    /\ inflight[r].pc = "undo"
    /\ zset' = IF redisUp
               THEN [t \in Tiers |-> zset[t] \ {[req |-> r, at |-> p.at] : p \in {q \in inflight[r].paid : q.tier = t}}]
               ELSE zset
    /\ ReqGoTo(r, "refused")
    /\ clockUnchanged /\ healthUnchanged /\ localUnchanged /\ UNCHANGED streams

-----------------------------------------------------------------------------
(* The fallback *)

\* Redis does not answer in time: degrade, announce it once, go on in this process.
\* What was added to the tiers stays there.
_handle_redis_error(r) ==
    /\ \/ /\ AtTier(r) /\ inflight[r].sent
          /\ ~redisUp \/ rateClock > inflight[r].stamp + MaxLag
       \/ inflight[r].pc = "stream" /\ inflight[r].stream /\ ~redisUp
       \/ inflight[r].pc = "failed"
    /\ degraded' = TRUE /\ emitted' = TRUE
    /\ announced' = IF emitted THEN announced ELSE announced + 1
    /\ ReqGoTo(r, "legacy")
    /\ clockUnchanged /\ localUnchanged /\ UNCHANGED <<zset, streams, recoveries>>

\* Under the lock: both windows, the stream cap, and the admission (no team tier).
_legacy_check_rate_limit(r) ==
    LET both == {inflight[r].key, "tenant"}
        live(t) == {m \in localWindow[t] : m.at + Window >= rateClock}
        fits == /\ \A t \in both : /\ Cardinality(live(t)) < Rpm
                                   /\ Cardinality({m \in live(t) : m.at = rateClock}) < Burst
                /\ inflight[r].stream => localStreams < MaxStreams
    IN  /\ inflight[r].pc = "legacy"
        /\ IF fits
           THEN /\ localWindow' = [t \in Tiers |-> IF t \in both THEN live(t) \cup {[req |-> r, at |-> rateClock]}
                                                   ELSE live(t)]
                /\ localStreams' = IF inflight[r].stream THEN localStreams + 1 ELSE localStreams
                /\ inflight' = [inflight EXCEPT ![r].pc = "admitted", ![r].path = "local", ![r].held = inflight[r].stream]
           ELSE ReqGoTo(r, "refused") /\ localUnchanged
        /\ clockUnchanged /\ healthUnchanged /\ UNCHANGED <<zset, streams>>

\* Every five seconds a ping: the only place where the flag is cleared (mark_recovered).
_health_loop ==
    /\ degraded' = ~redisUp
    /\ degraded' # degraded
    /\ emitted' = IF redisUp THEN FALSE ELSE emitted
    /\ recoveries' = IF redisUp THEN recoveries + 1 ELSE recoveries
    /\ clockUnchanged /\ localUnchanged /\ UNCHANGED <<zset, streams, inflight, announced>>

-----------------------------------------------------------------------------
(* After the admission (create_chat_completion) *)

\* The body is invalid, or a hook or the data lock refuses it: no stream is opened.
RefuseAdmitted(r) ==
    /\ inflight[r].pc = "admitted"
    /\ ReqGoTo(r, "rejected")
    /\ clockUnchanged /\ healthUnchanged /\ localUnchanged /\ UNCHANGED <<zset, streams>>

\* An answer, or the generator of a stream starts: it holds the slot.
_handle_stream(r) ==
    /\ inflight[r].pc = "admitted"
    /\ ReqGoTo(r, IF inflight[r].stream THEN "open" ELSE "answered")
    /\ clockUnchanged /\ healthUnchanged /\ localUnchanged /\ UNCHANGED <<zset, streams>>

\* The stream ends: the slot goes back to the side that is in use now.
stream_slot(r) ==
    /\ inflight[r].pc = "open"
    /\ \/ /\ degraded
          /\ localStreams' = IF localStreams = 0 THEN 0 ELSE localStreams - 1
          /\ ReqGoTo(r, "closed") /\ UNCHANGED streams
       \/ /\ ~degraded /\ redisUp
          /\ streams' = streams - 1
          /\ ReqGoTo(r, IF streams <= 1 THEN "delete" ELSE "closed") /\ UNCHANGED localStreams
       \/ /\ ~degraded /\ ~redisUp
          /\ ReqGoTo(r, "closed") /\ UNCHANGED <<streams, localStreams>>
    /\ clockUnchanged /\ healthUnchanged /\ UNCHANGED <<zset, localWindow>>

\* A counter seen at zero is deleted, whatever it is by now.
DeleteCounter(r) ==
    /\ inflight[r].pc = "delete"
    /\ streams' = IF redisUp THEN 0 ELSE streams
    /\ ReqGoTo(r, "closed")
    /\ clockUnchanged /\ healthUnchanged /\ localUnchanged /\ UNCHANGED zset

Pass ==
    /\ rateClock < MaxTime /\ rateClock' = rateClock + 1
    /\ healthUnchanged /\ localUnchanged /\ UNCHANGED <<redisUp, outages, zset, streams, inflight>>

RedisFails ==
    /\ redisUp /\ outages < MaxOutages
    /\ redisUp' = FALSE /\ outages' = outages + 1
    /\ healthUnchanged /\ localUnchanged /\ UNCHANGED <<rateClock, zset, streams, inflight>>

RedisReturns ==
    /\ ~redisUp /\ redisUp' = TRUE
    /\ healthUnchanged /\ localUnchanged /\ UNCHANGED <<rateClock, outages, zset, streams, inflight>>

RequestStep(r) ==
    \/ StampTier(r) \/ _redis_admit_tier(r) \/ AnswerLost(r)
    \/ NoTeamTier(r) \/ ReserveStream(r) \/ _redis_zrem(r)
    \/ _handle_redis_error(r) \/ _legacy_check_rate_limit(r)
    \/ RefuseAdmitted(r) \/ _handle_stream(r) \/ stream_slot(r) \/ DeleteCounter(r)

RateNext ==
    \/ \E r \in Incoming :
          \/ \E k \in VKeys, stream \in BOOLEAN : check_rate_limit(r, k, stream)
          \/ RequestStep(r)
    \/ _health_loop
    \/ Pass \/ RedisFails \/ RedisReturns

RateSpec == RateInit /\ [][RateNext]_rateVars

-----------------------------------------------------------------------------
(* Properties *)

Admitted(path) == {r \in Incoming : inflight[r].pc # "new" /\ inflight[r].path = path}
Span(from) == from..(from + Window - MaxLag - 1)
PaidIn(t, from) ==
    {r \in Admitted("redis") : \E p \in inflight[r].paid : p.tier = t /\ p.at \in Span(from)}
LocalIn(t, from) ==
    {m \in localWindow[t] : m.at \in from..(from + Window - 1) /\ inflight[m.req].path = "local"}

\* Redis admits no more requests than the limit of a key, the team or the tenant whose
\* stamps lie within a window less the lag of a transaction, however they are executed
\* out of the order of their stamps and interleave between the tiers and their
\* compensation.  In a whole window there can be more: a request with a later stamp that
\* is executed first removes what an earlier stamp would still have counted, and may
\* then be refused.  The fallback, which stamps
\* under its lock, keeps the bound of its own for a whole window.
AdmittedWithinLimit ==
    \A t \in Tiers, from \in 0..MaxTime :
        Cardinality(PaidIn(t, from)) <= LimitOf(t) /\ Cardinality(LocalIn(t, from)) <= Rpm

\* An outage is announced by the requests at most once, however many of them meet it.
AnnouncedOnce == announced <= recoveries + 1

\* The limits hold through an outage, and it is announced once per recovery
\* (check_rate_limit, _handle_redis_error, _health_loop).
LimitsHold == AdmittedWithinLimit /\ AnnouncedOnce
=============================================================================
