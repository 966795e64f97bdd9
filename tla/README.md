# TLA+ verification of the Anoryx ecosystem

The repository is a monorepo of four Python services and their front ends. Sentinel (the
AI gateway) reports usage, the Orchestrator forwards it, Delta (finance) books it and
decides whether a budget or an agent has to be stopped, and the decision travels back as
a signed, versioned policy until Sentinel enforces it. Rendly (collaboration) stands
beside this loop. The project models the whole loop and the stateful services around it,
statement by statement where transactions, tasks or callbacks interleave, checks them
with TLC and proves with TLAPS, for every value of the constants, most of what TLC checks.

## 1. Inventory

```
 usage event                          decision (outbox row)
Sentinel ─► Orchestrator ingest ─► dispatcher ─► Delta ledger ─► budget engine ─┐
   ▲         (dedupe, audit link,   (forward        (booked      kill-switch  ──┤
   │          automation)            outbox)         once)                      ▼
   │                                                        outbox + drainers (Delta)
   │                                                                │ POST distribution
   │                      rollback, automation re-drive ─►          ▼
   │                                              distribution O-004 (Orchestrator)
   │                                                                │ POST, per Sentinel
   └─ gateway request ◄── evaluation cache ◄── policy intake F-008 ◄┘
```

| Component | State it keeps | What is hard | What makes it correct |
|---|---|---|---|
| Delta budget engine (`budget_engine`) | enforcement row per budget and window, caps | READ COMMITTED requests, period boundary, stale reads, crash in the middle | one decision per edge, none lost, one gap-free version sequence, audit equal to decisions |
| Delta kill-switch (`kill_switch`) | kill rows, allow-list | lists used after another call committed | the outbox says what the state says; kills and clears alternate; an authorization lifts identity kills only |
| Delta outboxes and drainers | outbox rows: state, attempts, due time | several drainers, lost answers, crash between POST and commit | no needless resend, honest columns, every row settles |
| Delta ingest and ledger (`ingest`, `persistence/ledger_store.py`) | transactions, dead letters | duplicates, database down, lost answers | each event is booked once; a failure leaves a trace |
| Delta procurement (`erp`, `invoicing`) | orders, invoices, payments | sum-then-insert, two payers | never invoiced above the order; paid is the sum of the payments |
| Delta personal ledger (`micro_transactions`, `bank_import`) | executions, import lines | cap check against a clock read before the lock; two imports | daily cap; one ledger row per line |
| Delta project management (`pm`) | dependency edges | two edges closing a cycle | the graph is acyclic |
| Orchestrator ingest and dispatch (`pipeline`, `dispatch`) | events, forward outbox, dead letters | same key twice at once, overlapping drains, lost answers | accepted once, forwarded means booked, every event settles |
| Orchestrator distribution, command center, automation re-drive | distributions, targets, background tasks | lost answers, bookkeeping, processes; versions overtaking each other | never a false success, reports are final, fan-outs end |
| Orchestrator messaging (`messaging`) | mailbox, versioned keys | caps and idempotency keys under concurrency, paging | one message per key, no lost update, nothing missed by a pager |
| Orchestrator automation (`automation`) | rules, execution links | cap races, a rule that raises in the loop | cap, and every matching rule leaves a record |
| Orchestrator external gateway (`external_gateway`) | API keys, per-minute counters | cap races, revocation during a call | caps; a revoked key is not served |
| Orchestrator Sentinel registry, health, relay (`coordination`, `relay`) | registry rows, health columns, audit links | overlapping sweeps over rows that change, two operators at one id, names that move | what is used answered lately; failures are real; a registration is logged once; an answered relay has its link |
| Orchestrator product events (`identity`, `safety`) | event rows, audit links | retries that race, row and link in two transactions, paging | one row per key, links agree with rows, a reader misses nothing that was there |
| Sentinel intake F-008 and cache F-023 (`policy`) | policies, versions, Redis decisions | checks before a lock, invalidation before commit, slow readers | an atomic monotone register; a bounded staleness |
| Sentinel policy evaluation (`policy/enforcement.py`) | – | precedence of scopes and kinds | every allow is justified; a prohibition never widens |
| Sentinel model approval (`admin/model_approval.py`) | inventory rows | two operators, audit and state in two transactions, cached allows | no change without its event; a denial takes effect |
| Sentinel operator sign-on (`admin/sso`) | login transactions, provider configuration, group map, users, sessions | a callback twice at once, configuration replaced during a login, crash between provisioning, audit and session | one session per login, explained by its provider, its rows and its event |
| Sentinel gateway request (`gateway`) | one request: budget, text sent, audit records | fallbacks, deadline, clients that leave, secrets split over chunks and choices | charged, within the ceiling, scanned as it is sent, explained |
| Sentinel rate limiter (`gateway/middleware/rate_limit.py`) | sorted sets, stream counter, in-process fallback | stamps taken before the transaction runs, tiers and compensation, Redis outage | within the limit; announced once; recovers |
| Sentinel webhooks (`orchestration/webhooks`) | stream, pending list, delivery rows, dead letters | reclaim of a slow worker, worker death | delivered was confirmed, posts bounded, every candidate leaves the stream |
| Sentinel bulk pipeline (`bulk`) | batches, files, job stream, slots | last two files at once, crash between row and queue | completed once, slots within the cap, no job lost |
| Audit chains (Delta, Orchestrator, Sentinel) | hash-chained logs | forks, lock order, paging behind uncommitted rows, numbers rounded by their column | an append-only log, verified up to the first rounded number; transactions end |
| Rendly chat, huddles, refresh tokens | messages, memberships, sockets, huddles, token families | awaits between check and use, disconnects, a welcome that fails, token presented twice | stored was allowed, numbered in order, archived once, one live token |
| Remaining services, front ends, deployment | rows written by one statement, pure functions | – | – |

`PROJECT.json` lists the components with their status, and the hazards with the line
where each bites.

## 2. Modules

| Module | Models | Composition |
|---|---|---|
| `BudgetEngine` | `_evaluate`, `_evaluate_budget` and the statements under them, cap raises, the clock | – |
| `KillSwitch` | `evaluate_kill_switch`, `authorize_agent`, `revoke_agent`, `clear_kill_switch` | – |
| `PublishOutbox` | both Delta outboxes with their drainers | – |
| `PolicyDistribution` | `submit_distribution`, `drive_distribution`; a Sentinel is a version register | – |
| `PolicyDelivery` | outbox, distribution and Sentinels joined at their HTTP calls | extends the two above |
| `PolicyOperations` | rollback (command center) and re-drive (automation) | extends `PolicyDistribution` |
| `PolicyRegister` | what intake promises: an atomic, monotone register | abstract |
| `PolicyIntake` | intake, evaluation cache, gateway readers | implements `PolicyRegister` |
| `ModelPolicy` | the decision on a model from all policies that apply | pure, over all subsets of ten policies |
| `ModelApproval` | operators' decisions, and requests that read and cache them | extends `ModelPolicy` |
| `GatewayRequest` | admission, routing, buffered and streamed answer, records | – |
| `OperatorSso` | OIDC and SAML logins, group-to-role resolution, provisioning, sessions, configuration changes | – |
| `RateLimiter` | Redis tiers, stream slots, fallback, health loop | – |
| `WebhookDispatcher`, `BulkPipeline` | the two Redis stream workers and what feeds them | – |
| `EventForwarding` | the Orchestrator's ingest and dispatcher | – |
| `UsageLedger` | Delta's ingest endpoint and posting | – |
| `UsageBooking` | the dispatcher's POST joined with the ledger's handlers | extends the two above |
| `AppendOnlyLog` | what an audit chain promises | abstract |
| `AuditChain` | advisory lock, tip, append, verification, paging | implements `AppendOnlyLog` |
| `Procurement`, `PersonalLedger`, `TaskGraph` | Delta's other check-then-write services | – |
| `AgentMailbox`, `SharedState`, `AutomationEngine`, `ExternalGateway` | the Orchestrator's agent-facing services | – |
| `SentinelFleet` | registry, health sweeps, push targets, relay | – |
| `ProductEvents` | ingest and listing of identity and safety events | – |
| `ChatRoom`, `Huddles`, `RefreshTokens` | Rendly | – |
| `KillSwitchProofs`, `OperatorSsoProofs` | theorems | extend the module they name |
| `BudgetEngineProofs` | theorems on the engine, and on its part of the composition | extends `MCDelta` |
| `DeltaBooksProofs` | theorems | extends `Procurement`, `PersonalLedger`, `TaskGraph` |
| `SentinelProofs` | theorems | extends `PolicyIntake`, `ModelApproval`, `RateLimiter`, `GatewayRequest` |
| `PolicyDeliveryProofs` | theorems on outbox, fan-out and their compositions | extends `MCDelivery` |
| `PipelinesProofs` | theorems | extends `AuditChain`, `UsageBooking`, `WebhookDispatcher`, `BulkPipeline` |
| `CollaborationProofs` | theorems on rules, partners, mail, shared keys, product events, the fleet, and Rendly's tokens, rooms and huddles | extends `MCCollaboration` |
| `MCDelta`, `MCSentinel`, `MCDelivery`, `MCPipelines`, `MCCollaboration` | groups of components for TLC, with fairness | extend their components |
| `MCBudgetEngine` | structured constants of one component | extends `BudgetEngine` |

How state and actions correspond to the code:

* **Transactions.** A request is a process whose program counter names its next SQL
  statement. Uncommitted rows live in per-request variables; what READ COMMITTED shows is
  the committed state and one's own writes; a statement that would wait for another
  transaction's row, key or advisory lock is not enabled. A commit publishes everything at
  once; an abort (any exception, a deadlock victim, a dead worker) nothing. Aborts are
  enabled wherever a transaction is open, so every crash point is explored.
* **Tasks of one event loop** (Rendly's sockets, Sentinel's limiter, the fan-out) are
  atomic between awaits: an action reaches from one await to the next.
* **Redis.** One command or one MULTI is one action. A stream entry is `new`, pending with
  its delivery count, or acknowledged.
* **HTTP.** A call is a step of the callee and a later step of the caller, which may be
  told something else (timeout, lost answer). Signatures are valid or the record is
  refused before it touches any state.
* **BudgetEngine.** `row[b][q]` is `budget_enforcement_state` of budget `b` in window
  `q`; a decision is the (budget, window, version, transition, cap) of its outbox row.
  `PostUsage` is the committed debit before `evaluate_after_post`; cost 0 is a replayed
  event. The clock is read once per evaluation, so a request may go on working in a window
  that has passed. Token limits never cause an enforcement in this code and are left out.
* **KillSwitch.** The outbox insert and audit entry after a transition are part of it:
  they run under the row lock and can fail only by aborting the transaction.
* **PublishOutbox.** `due` abstracts `next_attempt_at`, set again by `BackoffEnds`; a drain
  may see rows that became due after its start, which adds behaviours and removes none.
  `accepted` is a history variable: what O-004 has persisted and what Delta can know.
* **PolicyDistribution.** `LoseTask` is the end of the process of a background task;
  nothing resumes it. An unknown target fails without a POST.
* **PolicyIntake.** The session does not autoflush: `upsert_policy` writes the `policies`
  row first (`WriteRow`, takes the lock), the `policy_versions` row second
  (`InsertVersion`, fires the trigger of migration 0004). A cached decision is the policy
  version it was computed from. `silent` holds the versions whose `INCR` Redis did not get.
* **GatewayRequest.** Text is a sequence of letters, a secret a word of three, a chunk one
  of twelve, so that the word can be split in every way over chunks and the sliding
  window has to carry it; cost is counted per letter at the provider's rate. A request asks
  for one choice or two; a chunk has the pieces of one or both, the gateway joins them in the
  order they come (`_extract_chunk_content`), the client by their index (`answer`). The tokens
  of a plain answer are what its provider reports, 0 without a usage block. The client of a
  stream may leave at any await, so also between the call to a provider and its first byte.
  The secrets of a plain answer are found as `finditer` finds them (from the left, without overlaps) and
  replaced by a marker that is part of no secret.
* **RateLimiter.** A member of a sorted set is the request and its time stamp. The stamp is
  read when the transaction is sent (`StampTier`) and the transaction is executed later, at
  most `MaxLag` later if its answer is still in time (the pool's `socket_timeout`, 1 s); one
  that is not answered in time may be executed all the same (`AnswerLost`). A window of 3 and
  a lag of 1 stand for 60 s and 1 s.
* **WebhookDispatcher.** The lookup of a reclaimed entry's count is a step of its own: an
  entry acked since it was claimed has no count and a lookup may fail, and both are taken for
  a first delivery. `late` and `blind` are history: who looked up too late, how many failed.
* **ModelPolicy.** A policy has the time it takes effect and the time it expires; only the
  newest version of a policy is stored, and it is filtered by time afterwards.
* **UsageBooking.** `PostToDelta` starts a handler, whose answer the dispatcher takes or
  gives up on; an abandoned handler goes on. The two hooks after the debit are one step that
  evaluates the event or fails silently (`missed`).
* **AuditChain.** A hash is the predecessor it was computed over, so a fork, a gap and a
  reordering are all visible to `verify_chain`. A row's hash is over the number that was
  given, its column keeps the number rounded to `Grain`; a chain of `Grain` 1 keeps what it
  was given (Delta, the Orchestrator).
* **SentinelFleet.** A probe is a reading of the row, an answer, and a later write of status
  and failure count; `probeFails` and `heard` are history: how often a probe really failed
  and who had answered within `Staleness` when a push or a relay selected it. `lived` and
  `answeredBy` tell which endpoints an id has had and which of them answered. An endpoint's
  name resolves to something allowed or not, and that may change at any time.
* **ProductEvents.** The two feeds are the same code twice and share no rows; a key is
  unique over all tenants, as in the tables. A number is drawn even by an insert that
  conflicts. A page is a set of rows, a walk a sequence of pages.
* **OperatorSso.** An assertion is what a provider said of a person in answer to one login,
  once; a callback may name one login and carry the assertion made to another. OIDC and SAML
  run the same actions on tables of their own, so the instance has one protocol. Expired and
  minted sessions are both kept (`Minted`), so that a second session of a login is seen.
* **External to `src/`:** what an identity provider says, PostgreSQL visibility, locks and
  deadlock detection, and Redis expiry.

A component's own `…Next` (and `…Spec`, where it has one) is its specification on its own;
the MC modules use it, or its parts where a unit has a bound of its own.

## 3. Runs

Components that share no state are checked together: every behaviour of a group runs one
*unit*, chosen in the initial state, while the others stay where they start. The instance
is the union of the units, and a property of one component holds trivially in the units of
the others. `Rest` is a stuttering step allowed only when no call is in progress, so that
deadlock checking finds every request, drain or job that can never end.

Most components have one property, a conjunction of named parts: `OutboxIsExact` is
`NoNeedlessResend /\ OutboxHonest`, `CellsAreExact` is `NoLostUpdate /\ LinkedVersions /\
KeysWithinCap`. Each part has its own comment and stands before the conjunction at the end
of the component's module. The MC modules join components that serve one purpose:
`AgentsKeepExact` is the mailbox and the shared keys, `RendlySessionsHold` rooms, huddles
and tokens.

| Run | Units and instance | Checks |
|---|---|---|
| `Delta` | *window* 2 evaluations, 2 budgets, 1 window, 1 cap change; *serial* 1 at a time over 3 windows; *procurement* 2 clerks, 2 orders, 3 invoices; *payments* 2 payers, 3 keys, 2 days; *import* 2 importers, 2 lines; *graph* 2 planners, 3 tasks | `TypeOK`, `VersionsGapFree`, `EnforcedIsQueued`, `DecisionsAlternate`, `CommitSettles`, `OrdersAddUp`, `PersonalBooksHold`, `Acyclic` |
| `Sentinel` | *intake* 2 deliveries, 1 reader, 2 versions, Redis may fail; *decision* every set of 10 policies; *approval* 2 operators, 1 requester; *request* 4 providers (one unusable), 2 fallbacks, 1 or 2 choices, up to 6 letters, 1 fault; *sso* 2 tenants (one without a provider yet), 2 providers, 2 logins, 2 callbacks, 1 configuration change | `RefinesRegister`, `CurrentIsNewest`, `CacheAtMostOneBehind`, `AllowedIsJustified`, `ForbiddingNeverWidens`, `ChangesAreAudited`, `DenialTakesEffect`, `AnswerIsAccounted`, `NoSecretDelivered`, `OperatorsAreAccounted` |
| `Decisions` | *outbox* 2 drainers, 2 rows, 2 attempts, 1 crash; *fanout* 2 distributions, a known and an unknown target, 2 POSTs; *delivery* the composition; *operations* 3 distributions, a rollback and a re-drive; *kill* 2 calls, 2 scopes, versions to 3 | `OutboxIsExact`, `NeverFalseSuccess`, `ReportsAreFinal`, `DecisionsSettle`, `DistributedIsEnforced`, `NoStaleEnforcement`, `NewestDecisionIsState`, `KillsAlternate` |
| `Pipelines` | *webhooks* 2 workers, 2 candidates, 3 hooks; *submit* and *bulk* 2 submitters or 2 workers, 3 files; *windows* and *outage* 3 requests, 2 keys, windows of 3, a lag of 1; *ingest* 2 emitters, equal, different and foreign content; *booking* 2 drains, 2 handlers; *chain* 2 transactions, 2 chains | `DeliveriesAreHonest`, `BatchesAreExact`, `LimitsHold`, `IngestIsIdempotent`, `UsageIsAccounted`, `ReadersAreRight`, `ChainIsLog`, `PipelinesSettle` |
| `Collaboration` | *mail*, *state*, *rules*, *evaluation*, *gateway*, *room*, *huddles*, *redial*, *tokens*: two or three callers each, caps of one or two; *registry* 2 operators at one id; *health* 2 overlapping sweeps and a push; *sweep* 1 sweep over 2 Sentinels and a push; *relay* 1 relay while its Sentinel is registered anew; *identity* and *safety* 2 requests, 3 reports, 2 keys, 2 tenants, pages of 1 | `AgentsKeepExact`, `RulesAreKept`, `PartnersWithinRights`, `FleetIsKnown`, `EventsAreRecorded`, `RendlySessionsHold` |
| `BudgetBoundary` | 2 evaluations, 1 budget, 2 windows | **violates** `EnforcedIsQueued` |
| `BudgetStaleSpend` | 2 evaluations, 1 budget, 1 window | **violates** `LiftedOnlyWithinCap` |
| `IntakeCache` | 1 delivery, 1 reader | **violates** `CacheIsFresh` |
| `KillAuthorizeRace` | the unit *kill* of `MCDelivery` with 2 calls, 1 scope | **violates** `AuthorizeSparesAnomalous` |
| `WebhookRetry` | the unit *webhooks* | **violates** `FailedStaysOnStream` |
| `RemovedMember` | the unit *room* | **violates** `RemovedIsDeaf` |
| `Rollback` | the unit *operations* | **violates** `RollbackIsAccepted` |

What the passing runs show:

* `Delta`: within a window no interleaving or crash loses an enforcement or publishes one
  twice, versions have no gaps across windows, and an evaluation that nothing overlaps
  leaves the state its spend and cap ask for; invoices never exceed their order, payments
  add up, no day exceeds its cap although the clock is read before the lock, an imported
  line has one ledger row, and dependencies never form a cycle.
* `Sentinel`: the intake is the atomic register, never accepts twice, and the cache is at
  most one announced write old; every allow is explained by a policy that applies and
  adding a prohibition never permits more; no approval changes without its event and a
  denial reaches the gateway; whatever a provider does and whenever the client leaves, a
  plain answer was charged first and what is delivered of a stream is charged at its end and
  stays within the ceiling; neither shows a secret in the order it is sent, and the routing
  is explained; a login yields at
  most one session, of the tenant that started it, for the person its provider named,
  backed by its rows and audited first, and who has no role is never provisioned.
* `Decisions`: the kill-switch's outbox says what its table says; a row is sent again only
  after an outcome Delta could not record; a distribution is never reported as a success it
  is not; a decision Delta calls distributed is enforced in the end or visibly undelivered;
  and no late retry of an older decision displaces a newer one at a Sentinel.
* `Pipelines`: a webhook is marked delivered only when the target confirmed it and is
  posted a bounded number of times; a batch completes once and no queued job is lost; the
  limits hold in every span of a window less the lag, and the limiter returns to Redis; an
  event is accepted once, booked once, forwarded only when booked and handed to the hooks,
  and traceable when failed; chains verify but for rounded numbers, pagers miss nothing, and
  everything settles.
* `Collaboration`: caps hold under concurrent creation, messages are stored once and no
  pager misses one, no update is lost, every rule that fires leaves a record, revoked keys
  are not served, no Sentinel is used whose id has not answered lately (at the endpoint used,
  if it is the only one the id has had) or given up for failures that did not happen,
  registrations and relays are logged as often as they took place, an
  event has one row and at most one `accepted` link, messages are stored only with a
  right that still holds and in order, huddles free their participants (but for the leaked
  socket below) and are archived once, and a token family has one live token and ends on reuse.

What the violations show (each is a finding in `PROJECT.json`, with the quoted text):

* `BudgetBoundary`: a request in the old window and one in the new take the same version;
  one outbox insert is dropped by `ON CONFLICT DO NOTHING`, and its row says `enforced`.
* `BudgetStaleSpend`: a request with an earlier, smaller sum lifts the enforcement another
  request has just committed.
* `IntakeCache`: the cache version is bumped before the commit, so the old decision can be
  cached under the new version.
* `KillAuthorizeRace`: `authorize_agent` clears by state only, so it lifts an anomaly kill
  that replaced the identity kill it had listed.
* `WebhookRetry`: a failed delivery with attempts left is acknowledged with its candidate,
  so nothing retries it.
* `RemovedMember`: a socket that loaded its channels before the removal registers after the
  eviction and keeps the channel.
* `Rollback`: the older record is re-submitted with its older version, which every Sentinel
  that has the newer one refuses.

One more disagreement is in the model and has no run of its own. ADR-0007
(`src/Rendly/docs/adr/0007-rendly-huddles.md:82-84`) says that "A dropped WebSocket (network
loss, tab close) with no remaining live connection for that user" ends the user's huddle, and
`src/Rendly/src/rendly/realtime/ws.py:137-141` that this "prevents a stale ringing/active
huddle from lingering in the single-instance manager after its last connection is gone". The
socket is registered at `ws.py:105`, the welcome and the presence follow at 106-107, and the
`try` whose `finally` cleans up begins at 109. A user who is invited after the registration
and whose welcome then fails has a socket that is closed and stays in the registry
(`leaked`, `WelcomeFails`): nothing ends the huddle on their behalf, and later sockets of
theirs leave it standing too, because the leaked one counts as another connection.
`OfflineIsFree` names this exception (`HasLeaked`); without it TLC shows exactly that trace.

What the code does, and the properties therefore do not exclude:

* Sentinel hashes the cost and the score of an event as they were computed and verifies them
  from columns of six and three decimals: `validate_chain` reports the first such row as a
  mismatch and looks at none behind it. `ChainVerifies` says that this is the only false
  alarm.
* A row the Orchestrator calls forwarded has been handed to the budget engine and to the
  kill-switch, and not necessarily evaluated: both swallow their failures and the answer is
  200. The next event of the scope evaluates again.
* A stream of several choices is inspected as one text: a secret of one choice that is cut by
  text of another passes and the client puts it together. Nothing is claimed of it.
* What a plain answer is charged is what its provider reports; nothing ties it to the text.
* A request with a later stamp that Redis executes first removes what an earlier one would
  still count, so a whole window may hold more than the limit; a window less the lag cannot.
* A worker that claimed a message before it was acked and looks its count up afterwards posts
  it once more, beyond the reclaim cap; so does one whose lookup fails.
* `modify_sentinel` keeps the health of the old endpoint and the result of a probe is written
  by id, so an endpoint may be used on the answer of the one it replaced, or of the one its
  id had before it was registered anew.
* A newer version of a policy replaces the one in force although it is not yet in effect; in
  the meantime neither is.
* A relay that fails outside of its `except` (an answer that cannot be decoded, a link that
  cannot be written) is a 500 without a link.

What the models also contain, and no line of the repository promises otherwise:
`modify_sentinel` and `deregister_sentinel` write their `accepted` link whether or not the
statement found the row, so a link may stand for a row already gone; a process that ends
between the commit of a product event and its link leaves a row whose retry is linked as
`duplicate` and none as `accepted`; one that ends between the relay's POST and its link
leaves no link; and an operator provisioned by a callback that ends before its event has
rows and no `operator_sso_login`, and no session.

Why the bounds are enough to be interesting. Two transactions are what a race of lock
holder and waiter needs, a third caller (tokens, sends) shows that nothing depends on
there being two. Two windows give a boundary, three a window that continues a sequence
already continued. Cap 2, costs 0 and 2 and raises to 1 and 4 reach under, exactly at and
over the cap, and back. Two attempts give a first, a last and an exhausted one; retry
limit 3 with 4 reclaims passes the reclaim cap. Limits of 1 with windows of 3 and a lag of 1
leave spans of 2, in which a second request is refused and a late stamp matters. Numbers 3
and 4 in a column of fours give a chain with a rounded row first, last, and none. Caps of one or two are reached and would be
exceeded by the next. Versions 1..2 or 1..3 let a delivery be older, equal and newer than
the stored one. Some units start in the middle (`Ingested`, `Accepted`, `RulesMade`,
`SentinelsRegistered`, the inventory rows of `ApprovalInit`, the providers of `sso`), in
states that the component's own actions reach. Bounds that end a behaviour (`Max…`) are
conjuncts of the guards. No run turns deadlock checking off.

## 4. Fairness

Safety needs none. Liveness assumes weak fairness of:

* the end of a backoff (time passes), a drainer's next step and the start of a drain.
  Only a usage event starts one, so this assumes that the tenant keeps sending events and
  that the signing key is configured; an idle tenant's retries do wait (a hazard);
* a running fan-out task's next step: its POSTs have timeouts. It is not assumed that a
  task survives its process;
* a webhook worker's next step, and that some worker reads and reclaims (`run_worker` loops
  for ever). Deaths are bounded by `MaxFaults`;
* the health loop, the return of Redis, and a started request's next step;
* the dispatcher: `dispatch_pending` is started again and again by a scheduler outside the
  repository, its POSTs time out, and a handler of Delta runs until it answers;
* a transaction that can go on, and PostgreSQL's deadlock detection (`BreakDeadlock`);
* a gateway request that reads approvals, and the expiry of a cached decision.

No fairness is assumed of deliveries, events, operators, crashes or answers. Since all
inputs are bounded, "everything settles" is stated as `<>[]`.

## 5. Proofs

The theorems hold for every value of the constants: any number of requests, workers,
tenants, keys, versions or texts. Each rests on an inductive invariant, because the
property alone speaks of committed rows or finished calls and says nothing about what a
call in progress may still do. The invariants are conjunctions of named parts; the lemmas
before a theorem show that the initial states satisfy it, that every action keeps it (one
lemma per action or group of actions), and that it implies the property.

`BudgetEngineProofs`

* `TypeCorrect`; `VersionsNeverSkipped` (`VersionsGapFree`): `GapInv` adds that what a
  transaction has not committed continues the committed versions, except for the version
  it has taken and is about to enqueue. It holds across windows, where `EnforcedIsQueued`
  does not: a dropped insert means that the version is already queued.
* `WindowLosesNoDecision` (`EnforcedIsQueued`, `AuditIsOutbox`) and
  `WindowDecisionsAlternate` (`DecisionsAlternate`), both with one window: a state row is
  written by one transaction at a time, the outbox is never ahead of the rows, an enqueued
  version is new, audit follows enqueue (`WindowInv`, `AlternateInv`). `BudgetBoundary`
  shows that `NPeriods = 1` cannot be dropped.
* `SerialCommitsSettle` (`CommitSettles`), for the composition of the `Delta` run and any
  number of windows: of the one evaluation in progress, every budget behind it is seen as
  its spend and cap demand, and the branch taken for the current one will make it so
  (`SerialInv`).

`KillSwitchProofs`

* `KillTypeCorrect`, `KillsAndClearsAlternate`, `OutboxTellsState` (`KillsAlternate`,
  `NewestDecisionIsState`): only the holder of a state row's lock has an uncommitted
  version of it, so what it queues continues the committed decisions (`KillInv`).

`PolicyDeliveryProofs`

* `OutboxStaysExact`, `SettledRowsAreFinal`: a drainer past its claim owns the row, and
  what it holds is what the row was (`OutboxInv`).
* `NoFalseSuccess`, `ReportsStay`, `RollbacksReportTruly` (`NeverFalseSuccess`): what a
  fan-out has counted is what its targets say, a settled target stays so, and a Sentinel's
  version only grows (`FanoutInv`, `OnceInv`, `OperationsInv`).
* `OnlyDecisionsEnforced` for `PolicyDelivery`; `DecisionsStayTrue` (`NoStaleEnforcement`
  and the two above) and `ReportsStayFinal` (`ReportsAreFinal`) for the composition that
  the run `Decisions` checks, units and rests included.

`SentinelProofs`

* `IntakeTypeCorrect`, `IntakeImplementsRegister` (`RefinesRegister`),
  `IntakeNeverRollsBack` (`AcceptedOnce`, `CurrentIsNewest`): whoever is past `WriteRow`
  holds the row lock and its version was compared under it; so every commit is an `Accept`
  of `PolicyRegister` and everything else a stutter. `CacheStaysClose`
  (`CacheAtMostOneBehind`): what a reader holds was committed when it read, and at most
  one announcement is outstanding.
* `AllowancesJustified`, `ForbiddingOnlyNarrows`: the most specific of a finite set of
  policies exists, since the order of the sort keys is total and transitive.
* `ChangesStayAudited`: the writer of an inventory row holds it to its commit, so the
  entries of the one call that may still commit are the last of the log (`ApprovalInv`).
* `RateLimitsHold`: what counts stays in its sorted set until the clock is a window past its
  stamp (`PaymentsLast`), and who is admitted was executed at most a lag after its own; so
  whichever payment of a span is executed last counts all the others (`RateInv`).
* `AnswersStayAccounted`, `SecretsStayInside`: a stream has delivered what it received,
  its tail is the end of that text, the record comes last, the trail has one event per
  provider given up, and the answer to a request for one choice is the text that was sent
  (`RequestInv`). `WindowSees`: a secret in the text with the next chunk
  was in the text before or is in tail and chunk, provided the tail may be as long as the
  secret but for one symbol; `RedactedIsClean`: a secret left in a redacted text would
  overlap a match, and a match is gone.

`OperatorSsoProofs`

* `OperatorsStayAccounted`: the one UPDATE of consume gives a login to one callback, so
  what the callback found out still holds when it mints, and nobody else mints (`LoginInv`).

`DeltaBooksProofs`

* `DependenciesAcyclic`: the lock makes the loaded edges the whole graph, and an edge whose
  end does not reach its start closes no cycle; reachability is the least closed set.
* Sums: the fold behind `MapThenSumSet` is a recursive function on the subsets of a finite
  set. `SumsExist` shows that there is one, `SumsAgree` that it does not depend on the
  set it is started from, `AnyMemberAside` that any member may be taken out first; each by
  a smallest counterexample (`SmallestSet`), which needs no induction principle.
  `SumOfMore` and `SumOfPart` are what the two theorems use.
* `OrdersStayExact` (`OrdersAddUp`): who is past the order's row lock still holds it, so
  what it has summed is at least what is invoiced now; disputes only lower that
  (`SumsStayEnough`).
* `PersonalBooksStay` (`PersonalBooksHold`): who holds the account's lock has the current
  total since a day before its own stamp, and that covers every 24 hours its row can fall
  into, although stamps are taken before the lock (`TotalsAreCurrent`).

`PipelinesProofs`

* `ReadersStayRight`, `ChainsAreLogs` (`ReadersAreRight`, `ChainIsLog`): who has read a tip
  or has uncommitted rows holds the chain's lock, and every row has the hash of what it was
  given (`ChainInv`); so a row recomputes exactly when its number was not rounded. Every
  commit is an append of `AppendOnlyLog`.
* `EnvelopesAcceptedOnce`, `UsageStaysAccounted`: one request at a time is past the key of
  an envelope; what a drain or a handler holds stays true until it writes (`IngestInv`,
  `BookingInv`).
* `DeliveriesStayHonest`: every post, and every worker that may still make one, has a read
  of its own, and the reads are capped but for the lookups that saw no count
  (`WebhookInv`).
* `BatchesStayExact`: a slot passes from the request to its batch and to the worker that
  completes it; an unsettled file has a worker that will go on or a job nobody is at
  (`BulkInv`).

`CollaborationProofs`

* `TokensAlwaysRotate` (`TokensRotate`, a part of `RendlySessionsHold`), `RulesStayKept`,
  `PartnersStayWithinRights`: caps are counted under the lock that the insert holds; the
  counters of a minute are the served requests plus those about to be served.
* `AgentsStayExact`: `AgentsKeepExact` of the composition the run checks.
* `SessionsHold`: `RendlySessionsHold` of the same composition. Whoever inserts a message
  holds the channel's row and has re-read the right to send (`RoomInv`); the busy map and
  the live sets of the huddles are one relation, and whoever has no registered connection and
  no cleanup to come is in neither (`HuddleInv`, with `UnregisteredIsFree`); a closed
  connection that is still registered is a leaked one.
* `EventsStayRecorded`: a sequence's values are above all rows, so a page that ends at a
  number cannot be followed by a row it should have held (`WalkInv`, `EventsInv`).
* `FleetStaysKnown`: rows, snapshots of a sweep and selected targets are true of the
  history of probes (`RegistryInv`, `CycleInv`, `PushInv`, `RelayInv`), and whatever was read,
  probed or heard of an id is among the endpoints it has had (`LivedInv`).

Assumptions are the named `ASSUME`s of the modules, which TLC evaluates in the runs. They
give constants their types, keep "nobody" values apart from the callers, and make finite
what is counted (policies, operators, tasks, invoices, partners, writers, hook workers,
Sentinels, reports, batches, submitters, bulk workers). Some say more. An invoice bills
something, because its schema asks for a positive amount. A payment's ledger row is told
from a statement line's. The run `Delta` lets an event touch any budgets
(`DeltaAssumption`). The batches of `BulkPipeline` have disjoint files, because a file's
id is new. `PolicyDelivery` numbers its rows by their versions. `GatewayRequest` assumes
`BufLen >= Len(Secret) - 1` and a marker outside the secret: the code keeps 8192
characters, and most patterns match as soon as a few dozen are there; a JSON web token or
an unbroken token that only the entropy rule finds may be longer than the tail, and for
those `NoSecretDelivered` is not claimed. `RateLimiter` lets
the lag be any number; the bound says something where it is shorter than the window.

Only model-checked:

* what needs fairness (`DecisionsSettle`, `DistributedIsEnforced`, `PipelinesSettle`,
  `DenialTakesEffect`): liveness is out of the prover's reach;
* `EnforcedIsQueued` and `DecisionsAlternate` for serial evaluations over several windows:
  the theorems are about one window.

Every other invariant and action property of a passing run is proved as the run checks it.

`AuditIsOutbox` and `AcceptedOnce` are covered by theorems and no run repeats them.

## 6. Not modelled

* Cryptography, tenants other than one where row-level security separates them (ingest has
  two, because its keys are global), hash values, token limits, logging and metrics.
* The services marked `not_modelled` in `PROJECT.json`, which make up most of the
  repository's lines; the map covers about one line in seven. Of the rest about a quarter
  is front ends and migrations; settings, schemas and response models are declarations;
  detectors, scanners, compliance packs and report arithmetic are functions of one input;
  the CRUD services of Delta and Rendly write one row with one statement under a
  constraint. None of them has a behaviour of the kind checked here, and modelling them
  would restate assignments.
* Of the components marked `partly`, what their note in `PROJECT.json` names.

## 7. Plan

Every safety property that a run checks has a theorem. What is left, in this order:

1. `EnforcedIsQueued` and `DecisionsAlternate` for serial evaluations over all windows, from
   `SerialInv` and the fact that an evaluation's window never lies before a written one.
2. The composed theorems for the whole of `MCDelta`, `MCSentinel` and `MCPipelines`, where
   most theorems now are about the specification of each component.
