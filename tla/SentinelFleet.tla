---------------------------- MODULE SentinelFleet ----------------------------
(***************************************************************************)
(* The Orchestrator's registry of Sentinels (coordination/registry.py,     *)
(* health.py, coordinator.py) and its relay (relay/client.py): operators   *)
(* register, modify and deregister instances while health cycles, which    *)
(* may overlap, write what their probes found, and pushes and relays go to *)
(* instances that look healthy.  Whether an endpoint passes                *)
(* validate_endpoint changes with the name service, so it is asked again   *)
(* at every use.  Requests refused by the validation of their body change  *)
(* nothing; the fan-out of a push is PolicyDistribution's.                 *)
(***************************************************************************)
EXTENDS Naturals, Sequences, FiniteSets

CONSTANTS
    Fleet,          \* sentinel_ids, in the order list_sentinels returns them
    Endpoints,      \* base URLs
    Registrars,     \* concurrent operator calls to the registry
    Cycles,         \* concurrent runs of run_health_cycle
    Pushes,         \* calls of coordinate_push
    Relays,         \* calls of relay_request
    Threshold,      \* unreachable_threshold
    Staleness,      \* staleness_seconds; 0 would disable the rule
    MaxFleetTime,   \* bound on the clock
    MaxLinks,       \* bound on the accepted links of one sentinel
    MaxProbeFails   \* bound on the failing probes of one sentinel

ASSUME FleetAssumption ==
    /\ Fleet \subseteq Nat /\ IsFiniteSet(Fleet)
    /\ Threshold \in Nat \ {0} /\ Staleness \in Nat \ {0}
    /\ MaxFleetTime \in Nat /\ MaxLinks \in Nat /\ MaxProbeFails \in Nat

VARIABLES
    registry,       \* registry[s]: the row of sentinel s, or Unregistered
    registryLog,    \* registryLog[s]: its links with disposition accepted
    refusals,       \* sentinels with a link of disposition rejected
    resolvable,     \* endpoints that pass validate_endpoint now
    fleetTime,      \* the clock
    registrar,      \* registrar[o]: an operator's call
    cycle,          \* cycle[c]: a health cycle
    push,           \* push[p]: a coordinated push
    relay,          \* relay[r]: a relayed request
    relayLog,       \* relayLog[r]: its links in relay_audit_log
    deletions,      \* history: rows deleted of each sentinel
    lived,          \* history: the endpoints each sentinel's rows have had
    answeredAt,     \* history: the last time each sentinel answered a probe with 2xx
    answeredBy,     \* history: the endpoint that did, if any
    probeFails      \* history: failing probes of each sentinel

rowVars == <<registry, registryLog, refusals, deletions, lived>>
probeVars == <<answeredAt, answeredBy, probeFails>>
fleetVars == <<rowVars, probeVars, resolvable, fleetTime, registrar, cycle, push, relay, relayLog>>

Unregistered == [health |-> "none"]
NoRequest == [at |-> "idle"]

\* The columns the code reads; a clock value of NeverChecked is last_checked_at IS NULL.
NeverChecked == MaxFleetTime + 1
NewRow(e, capable) ==
    [endpoint |-> e, capable |-> capable, enabled |-> TRUE,
     health |-> "unknown", failures |-> 0, checked |-> NeverChecked]

\* Nothing is in progress.
FleetQuiet ==
    /\ refusals = {} /\ resolvable = Endpoints /\ fleetTime = 0
    /\ registrar = [o \in Registrars |-> NoRequest]
    /\ cycle = [c \in Cycles |-> NoRequest]
    /\ push = [p \in Pushes |-> NoRequest]
    /\ relay = [r \in Relays |-> NoRequest]
    /\ relayLog = [r \in Relays |-> <<>>]
    /\ deletions = [s \in Fleet |-> 0]
    /\ lived = [s \in Fleet |-> IF registry[s] = Unregistered THEN {} ELSE {registry[s].endpoint}]
    /\ answeredAt = [s \in Fleet |-> NeverChecked]
    /\ answeredBy = [s \in Fleet |-> {}]
    /\ probeFails = [s \in Fleet |-> 0]

FleetInit ==
    /\ registry = [s \in Fleet |-> Unregistered]
    /\ registryLog = [s \in Fleet |-> <<>>]
    /\ FleetQuiet

Registered == {s \in Fleet : registry[s] # Unregistered}

-----------------------------------------------------------------------------
(* The world *)

FleetTick ==
    /\ fleetTime < MaxFleetTime
    /\ fleetTime' = fleetTime + 1
    /\ UNCHANGED <<rowVars, probeVars, resolvable, registrar, cycle, push, relay, relayLog>>

\* validate_endpoint: scheme and host are checked once and for all, the addresses the
\* host resolves to whenever it is called.
NamesChange(e) ==
    /\ resolvable' = (resolvable \cup {e}) \ (resolvable \cap {e})
    /\ UNCHANGED <<rowVars, probeVars, fleetTime, registrar, cycle, push, relay, relayLog>>

-----------------------------------------------------------------------------
(* The registry *)

othersIdle == UNCHANGED <<probeVars, resolvable, fleetTime, cycle, push, relay, relayLog>>
EndCall(o) == registrar' = [registrar EXCEPT ![o] = NoRequest]
Goto(o, at) == registrar' = [registrar EXCEPT ![o].at = at]
Lives(s, endpoints) == lived' = [lived EXCEPT ![s] = @ \cup endpoints]
Accept(s, action) == registryLog' = [registryLog EXCEPT ![s] = Append(@, action)]

\* An endpoint that does not pass costs a link of its own and ends the call.
ValidateEndpoint(o, s, e, request) ==
    /\ registrar[o] = NoRequest
    /\ Len(registryLog[s]) < MaxLinks
    /\ IF e \in resolvable
       THEN registrar' = [registrar EXCEPT ![o] = request] /\ UNCHANGED refusals
       ELSE refusals' = refusals \cup {s} /\ UNCHANGED registrar
    /\ UNCHANGED <<registry, registryLog, deletions, lived>> /\ othersIdle

register_sentinel(o, s, e, capable) ==
    ValidateEndpoint(o, s, e,
        [at |-> "read", call |-> "register", id |-> s, row |-> NewRow(e, capable)])

\* change holds the fields that are given; without an endpoint nothing is validated.
modify_sentinel(o, s, change) ==
    LET request == [at |-> "read", call |-> "modify", id |-> s, row |-> change]
    IN  IF "endpoint" \in DOMAIN change
        THEN ValidateEndpoint(o, s, change.endpoint, request)
        ELSE /\ registrar[o] = NoRequest
             /\ Len(registryLog[s]) < MaxLinks
             /\ registrar' = [registrar EXCEPT ![o] = request]
             /\ UNCHANGED rowVars /\ othersIdle

deregister_sentinel(o, s) ==
    /\ registrar[o] = NoRequest
    /\ Len(registryLog[s]) < MaxLinks
    /\ registrar' = [registrar EXCEPT ![o] = [at |-> "read", call |-> "deregister", id |-> s]]
    /\ UNCHANGED rowVars /\ othersIdle

\* The transaction starts with a read without a lock: 409 or 404.
get_sentinel(o) ==
    /\ registrar[o].at = "read"
    /\ IF (registrar[o].call = "register") = (registrar[o].id \in Registered)
       THEN EndCall(o)
       ELSE Goto(o, "write")
    /\ UNCHANGED rowVars /\ othersIdle

\* INSERT, link and commit; the key of another registration fails it.  A statement that
\* changes a row keeps it locked until the commit, so it is one step with its link.
insert_sentinel(o) ==
    LET s == registrar[o].id
    IN  /\ registrar[o].at = "write" /\ registrar[o].call = "register"
        /\ IF s \in Registered
           THEN UNCHANGED <<registry, registryLog, lived>>
           ELSE /\ registry' = [registry EXCEPT ![s] = registrar[o].row]
                /\ Accept(s, "register") /\ Lives(s, {registrar[o].row.endpoint})
        /\ EndCall(o)
        /\ UNCHANGED <<refusals, deletions>> /\ othersIdle

\* An UPDATE or DELETE whose row is gone changes nothing and locks nothing; its row
\* count is not looked at, and the link follows later.
MatchesNoRow(o) ==
    /\ registrar[o].at = "write" /\ registrar[o].call # "register"
    /\ registrar[o].id \notin Registered
    /\ Goto(o, "link")
    /\ UNCHANGED rowVars /\ othersIdle

update_sentinel(o) ==
    LET s == registrar[o].id
        change == registrar[o].row
    IN  /\ registrar[o].at = "write" /\ registrar[o].call = "modify"
        /\ s \in Registered
        /\ registry' = [registry EXCEPT ![s] =
                          [f \in DOMAIN @ |-> IF f \in DOMAIN change THEN change[f] ELSE @[f]]]
        /\ Accept(s, "modify")
        /\ Lives(s, IF "endpoint" \in DOMAIN change THEN {change.endpoint} ELSE {})
        /\ EndCall(o)
        /\ UNCHANGED <<refusals, deletions>> /\ othersIdle

delete_sentinel(o) ==
    LET s == registrar[o].id
    IN  /\ registrar[o].at = "write" /\ registrar[o].call = "deregister"
        /\ s \in Registered
        /\ registry' = [registry EXCEPT ![s] = Unregistered]
        /\ deletions' = [deletions EXCEPT ![s] = @ + 1]
        /\ Accept(s, "deregister")
        /\ EndCall(o)
        /\ UNCHANGED <<refusals, lived>> /\ othersIdle

\* The link of a change that matched no row.
append_registry_audit_link(o) ==
    /\ registrar[o].at = "link"
    /\ Accept(registrar[o].id, registrar[o].call)
    /\ EndCall(o)
    /\ UNCHANGED <<registry, refusals, deletions, lived>> /\ othersIdle

\* An error or a dead worker rolls the transaction back.
CallRollsBack(o) ==
    /\ registrar[o] # NoRequest
    /\ EndCall(o)
    /\ UNCHANGED rowVars /\ othersIdle

Changes ==
    [enabled : BOOLEAN] \cup [endpoint : Endpoints] \cup [capable : BOOLEAN]

RegistrarStep(o) ==
    \/ \E s \in Fleet :
          \/ \E e \in Endpoints, capable \in BOOLEAN : register_sentinel(o, s, e, capable)
          \/ \E change \in Changes : modify_sentinel(o, s, change)
          \/ deregister_sentinel(o, s)
    \/ get_sentinel(o) \/ insert_sentinel(o) \/ update_sentinel(o) \/ delete_sentinel(o)
    \/ MatchesNoRow(o) \/ append_registry_audit_link(o) \/ CallRollsBack(o)

-----------------------------------------------------------------------------
(* The health cycle *)

healthIdle == UNCHANGED <<registryLog, refusals, deletions, lived, resolvable, fleetTime,
                          registrar, push, relay, relayLog>>

\* The enabled rows, read once for the whole cycle; the others are only reported.
run_health_cycle(c) ==
    /\ cycle[c] = NoRequest
    /\ LET enabled == {s \in Registered : registry[s].enabled}
       IN  /\ enabled # {}
           /\ cycle' = [cycle EXCEPT ![c] =
                          [at |-> "probe", rows |-> [s \in enabled |-> registry[s]]]]
    /\ UNCHANGED <<registry, probeVars>> /\ healthIdle

\* The sentinel the cycle is at: they are visited in the order of their ids.
At(c) == CHOOSE s \in DOMAIN cycle[c].rows : \A u \in DOMAIN cycle[c].rows : s <= u

\* What a probe finds: the name no longer validates, there is no connection, the host
\* answers with something else than 2xx, or it answers 2xx.
Finding(outcome, prior) ==
    CASE outcome = "ok" -> [health |-> "healthy", failures |-> 0]
      [] outcome = "http" -> [health |-> "degraded", failures |-> prior + 1]
      [] outcome = "error" ->
            [health |-> IF prior + 1 >= Threshold THEN "unreachable" ELSE "degraded",
             failures |-> prior + 1]
      [] outcome = "invalid" -> [health |-> "unreachable", failures |-> prior + 1]

\* One probe of the endpoint that was read, counted on the failures that were read.
\* checked_at is taken when it returns.
_probe_one(c, outcome) ==
    LET s == At(c)
        row == cycle[c].rows[s]
    IN  /\ cycle[c].at = "probe"
        /\ (outcome = "invalid") = (row.endpoint \notin resolvable)
        /\ outcome # "ok" => probeFails[s] < MaxProbeFails
        /\ cycle' = [cycle EXCEPT ![c] = [at |-> "save", rows |-> @.rows,
                        found |-> Finding(outcome, row.failures), when |-> fleetTime]]
        /\ IF outcome = "ok"
           THEN /\ answeredAt' = [answeredAt EXCEPT ![s] = fleetTime]
                /\ answeredBy' = [answeredBy EXCEPT ![s] = {row.endpoint}]
           ELSE UNCHANGED <<answeredAt, answeredBy>>
        /\ probeFails' = IF outcome = "ok" THEN probeFails ELSE [probeFails EXCEPT ![s] = @ + 1]
        /\ UNCHANGED registry /\ healthIdle

\* The UPDATE by id, in a transaction of its own: it overwrites whatever another cycle
\* wrote and hits whatever row now has the id; then on to the next.
update_sentinel_health(c) ==
    LET s == At(c)
        found == cycle[c].found
        rest == [u \in DOMAIN cycle[c].rows \ {s} |-> cycle[c].rows[u]]
    IN  /\ cycle[c].at = "save"
        /\ registry' = IF s \in Registered
                       THEN [registry EXCEPT ![s].health = found.health,
                                             ![s].failures = found.failures,
                                             ![s].checked = cycle[c].when]
                       ELSE registry
        /\ cycle' = [cycle EXCEPT ![c] = IF DOMAIN rest = {} THEN NoRequest
                                         ELSE [at |-> "probe", rows |-> rest]]
        /\ UNCHANGED probeVars /\ healthIdle

\* The process of a cycle ends; nothing resumes it.
CycleDies(c) ==
    /\ cycle[c] # NoRequest
    /\ cycle' = [cycle EXCEPT ![c] = NoRequest]
    /\ UNCHANGED <<registry, probeVars>> /\ healthIdle

CycleStep(c) ==
    \/ run_health_cycle(c)
    \/ \E outcome \in {"ok", "http", "error", "invalid"} : _probe_one(c, outcome)
    \/ update_sentinel_health(c)

-----------------------------------------------------------------------------
(* Coordinated pushes and relays *)

Fresh(row) == row.checked # NeverChecked /\ fleetTime - row.checked <= Staleness

\* Mutant of effective_health_status: the age of a check is not looked at.
MutIgnoreStaleness(row) == row.health

effective_health_status(row) ==
    IF row.health = "healthy" /\ ~Fresh(row) THEN "degraded" ELSE row.health

\* History: the sentinel answered a probe within the window.
HeardRecently(s) == answeredAt[s] # NeverChecked /\ fleetTime - answeredAt[s] <= Staleness

\* History: and it did so at endpoint e, or it has had another one.
Vouched(s, e) == HeardRecently(s) /\ (answeredBy[s] = {e} \/ lived[s] # {e})

useIdle == UNCHANGED <<rowVars, probeVars, resolvable, fleetTime, registrar, cycle>>

coordinate_push(p) ==
    /\ push[p] = NoRequest
    /\ push' = [push EXCEPT ![p] =
                  [at |-> "select", rows |-> [s \in Registered |-> registry[s]]]]
    /\ UNCHANGED <<relay, relayLog>> /\ useIdle

\* The reason a row is skipped for, in the order of the checks.
SkipReason(row) ==
    CASE ~row.enabled -> "disabled"
      [] row.enabled /\ effective_health_status(row) # "healthy" -> "unhealthy"
      [] row.enabled /\ effective_health_status(row) = "healthy" /\ ~row.capable -> "incapable"
      [] OTHER -> IF row.endpoint \in resolvable THEN "none" ELSE "invalid_endpoint"

\* Later, in a thread; the clock is read then.  The distribution, its targets and the
\* "submitted" link are made for the selection, and the fan-out posts to its endpoints.
_select_targets(p) ==
    LET rows == push[p].rows
    IN  /\ push[p].at = "select"
        /\ push' = [push EXCEPT ![p] =
                      [at |-> "driven", heard |-> {s \in DOMAIN rows : Vouched(s, rows[s].endpoint)},
                       verdict |-> [s \in DOMAIN rows |-> SkipReason(rows[s])]]]
        /\ UNCHANGED <<relay, relayLog>> /\ useIdle

\* A push that ended; the caller may start another.
PushReturns(p) ==
    /\ push[p].at = "driven"
    /\ push' = [push EXCEPT ![p] = NoRequest]
    /\ UNCHANGED <<relay, relayLog>> /\ useIdle

\* What is still to be audited: nothing was sent, or something was.
ToAudit(disposition) ==
    [at |-> "audit", sent |-> disposition # "blocked", disposition |-> disposition]

\* Unknown, disabled, unhealthy: blocked, and nothing is sent.
relay_request(r, s) ==
    /\ relay[r] = NoRequest
    /\ relay' = [relay EXCEPT ![r] =
                   IF /\ s \in Registered /\ registry[s].enabled
                      /\ effective_health_status(registry[s]) = "healthy"
                   THEN [at |-> "validate", endpoint |-> registry[s].endpoint,
                         heard |-> Vouched(s, registry[s].endpoint)]
                   ELSE ToAudit("blocked")]
    /\ UNCHANGED <<push, relayLog>> /\ useIdle

RelayValidates(r) ==
    /\ relay[r].at = "validate"
    /\ relay' = [relay EXCEPT ![r] = IF @.endpoint \in resolvable THEN [@ EXCEPT !.at = "post"]
                                     ELSE ToAudit("blocked")]
    /\ UNCHANGED <<push, relayLog>> /\ useIdle

\* The POST: any answer is "forwarded", a timeout or a lost connection "failed".
RelayPosts(r, reached) ==
    /\ relay[r].at = "post"
    /\ relay' = [relay EXCEPT ![r] = ToAudit(IF reached THEN "forwarded" ELSE "failed")]
    /\ UNCHANGED <<push, relayLog>> /\ useIdle

\* The link commits before the caller is answered.
append_relay_audit_link(r) ==
    /\ relay[r].at = "audit"
    /\ relayLog' = [relayLog EXCEPT ![r] = Append(@, relay[r].disposition)]
    /\ relay' = [relay EXCEPT ![r].at = "answered"]
    /\ UNCHANGED push /\ useIdle

\* The worker dies, before or after the POST: the caller is not answered.
RelayDies(r) ==
    /\ relay[r].at \in {"validate", "post", "audit"}
    /\ relay' = [relay EXCEPT ![r] = [at |-> "gone"]]
    /\ UNCHANGED <<push, relayLog>> /\ useIdle

\* An error nobody catches (an answer that cannot be decoded, a link that cannot be
\* written) is a 500 without a link.
RelayFails(r) ==
    /\ relay[r].at \in {"validate", "post", "audit"}
    /\ relay' = [relay EXCEPT ![r] = [at |-> "error"]]
    /\ UNCHANGED <<push, relayLog>> /\ useIdle

RelayStep(r) ==
    \/ RelayValidates(r)
    \/ \E reached \in BOOLEAN : RelayPosts(r, reached)
    \/ append_relay_audit_link(r)
    \/ RelayDies(r)
    \/ RelayFails(r)

FleetNext ==
    \/ FleetTick
    \/ \E e \in Endpoints : NamesChange(e)
    \/ \E o \in Registrars : RegistrarStep(o)
    \/ \E c \in Cycles : CycleStep(c) \/ CycleDies(c)
    \/ \E p \in Pushes : coordinate_push(p) \/ _select_targets(p) \/ PushReturns(p)
    \/ \E r \in Relays : RelayStep(r) \/ \E s \in Fleet : relay_request(r, s)

FleetSpec == FleetInit /\ [][FleetNext]_fleetVars

-----------------------------------------------------------------------------
(* Properties *)

\* A Sentinel is used only if it answered a probe within the staleness window, although
\* cycles overlap, write late and write over rows that changed.  The answer is that of
\* the endpoint used if its id never had another.  Otherwise it may be the other's:
\* modify_sentinel keeps the health of the old endpoint, and the result of a late probe
\* is written by id (effective_health_status at a push and at a relay).
UsedWasHealthy ==
    /\ \A p \in Pushes : push[p].at = "driven" =>
          \A s \in DOMAIN push[p].verdict :
              push[p].verdict[s] = "none" => s \in push[p].heard
    /\ \A r \in Relays : relay[r].at \in {"validate", "post"} => relay[r].heard

\* No instance is given up for lost connections before Threshold probes of it failed:
\* overlapping cycles may lose failures, they never invent one (_probe_one).
FailuresAreReal ==
    \A s \in Registered : registry[s].failures <= probeFails[s]

\* However registrations race, every accepted "register" link made the one row of its
\* id: the links less the deletions are the row that is there (register_sentinel).
RegisteredOnce ==
    \A s \in Fleet :
        Cardinality({i \in DOMAIN registryLog[s] : registryLog[s][i] = "register"}) =
            deletions[s] + (IF s \in Registered THEN 1 ELSE 0)

\* Every relayed request that was answered with an outcome has exactly one link, which
\* tells whether anything was sent (relay_request: "audited before returning or
\* raising"); one that ended in a 500 or with its worker has none.
RelaysAreExplained ==
    \A r \in Relays :
        /\ relay[r].at = "answered" =>
              /\ Len(relayLog[r]) = 1
              /\ relay[r].sent = (relayLog[r][1] # "blocked")
        /\ relay[r].at # "answered" => relayLog[r] = <<>>

\* The registry can be trusted: what is used was healthy, what is counted happened,
\* what is registered is logged, what is relayed is explained.
FleetIsKnown == UsedWasHealthy /\ FailuresAreReal /\ RegisteredOnce /\ RelaysAreExplained
=============================================================================
