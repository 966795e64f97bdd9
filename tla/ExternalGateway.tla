-------------------------- MODULE ExternalGateway ---------------------------
(***************************************************************************)
(* The Orchestrator's gateway for third parties (external_gateway/auth.py, *)
(* router.py, persistence/repositories.py): operators issue and revoke API *)
(* keys, and a key reads events within a limit per minute.  One tenant.    *)
(* The only scope there is must be granted to every key, so scope_denied   *)
(* cannot happen; requests refused by the validation change nothing.       *)
(***************************************************************************)
EXTENDS Naturals, FiniteSets

CONSTANTS
    ApiKeys,        \* keys that may be issued
    Issuers,        \* concurrent POST /v1/admin/external-keys
    Partners,       \* concurrent GET /v1/external/events
    KeyCap,         \* max_keys_per_tenant
    RateLimit,      \* rate_limit_per_minute
    MaxMinute,      \* bound on the clock
    NoIssuer, NoKey

ASSUME GatewayAssumption ==
    /\ KeyCap \in Nat /\ RateLimit \in Nat /\ MaxMinute \in Nat
    /\ IsFiniteSet(Partners)
    /\ NoIssuer \notin Issuers /\ NoKey \notin ApiKeys

VARIABLES
    keyStatus,      \* keyStatus[k]: "none", "active" or "revoked"
    keyLock,        \* who holds the tenant's key cap lock
    issuing,        \* issuing[i]: an issue request: "idle", "count" or "insert"
    minute,         \* the wall clock
    used,           \* used[k][w]: request_count of key k in window w
    call,           \* call[p]: a partner's request
    outcomes,       \* outcomes[k][w]: number of "allowed" links for requests of window w
    served,         \* served[k][w]: number of answers with events
    late            \* keys whose request was authenticated after their revocation and served

gatewayVars == <<keyStatus, keyLock, issuing, minute, used, call, outcomes, served, late>>

NoCall == [pc |-> "idle"]
PerWindow == [k \in ApiKeys |-> [w \in 0..MaxMinute |-> 0]]

GatewayInit ==
    /\ keyStatus = [k \in ApiKeys |-> "none"]
    /\ keyLock = NoIssuer
    /\ issuing = [i \in Issuers |-> "idle"]
    /\ minute = 0
    /\ used = PerWindow /\ outcomes = PerWindow /\ served = PerWindow
    /\ call = [p \in Partners |-> NoCall]
    /\ late = {}

-----------------------------------------------------------------------------
(* The keys *)

Issued == {k \in ApiKeys : keyStatus[k] # "none"}
callsUnchanged == UNCHANGED <<minute, used, call, outcomes, served, late>>

lock_external_gateway_key_cap(i) ==
    /\ issuing[i] = "idle" /\ keyLock = NoIssuer
    /\ keyLock' = i
    /\ issuing' = [issuing EXCEPT ![i] = "count"]
    /\ UNCHANGED keyStatus /\ callsUnchanged

EndIssue(i) ==
    /\ issuing' = [issuing EXCEPT ![i] = "idle"]
    /\ keyLock' = IF keyLock = i THEN NoIssuer ELSE keyLock

\* Revoked keys count; at the cap the answer is 422 key_limit_exceeded.
count_third_party_api_keys(i) ==
    /\ issuing[i] = "count"
    /\ IF Cardinality(Issued) >= KeyCap
       THEN EndIssue(i)
       ELSE issuing' = [issuing EXCEPT ![i] = "insert"] /\ UNCHANGED keyLock
    /\ UNCHANGED keyStatus /\ callsUnchanged

\* The INSERT of a fresh key, and the commit.
insert_third_party_api_key(i, k) ==
    /\ issuing[i] = "insert"
    /\ keyStatus[k] = "none"
    /\ keyStatus' = [keyStatus EXCEPT ![k] = "active"]
    /\ EndIssue(i)
    /\ callsUnchanged

revoke_third_party_api_key(k) ==
    /\ keyStatus[k] = "active"
    /\ keyStatus' = [keyStatus EXCEPT ![k] = "revoked"]
    /\ UNCHANGED <<keyLock, issuing>> /\ callsUnchanged

-----------------------------------------------------------------------------
(* A read *)

keysUnchanged == UNCHANGED <<keyStatus, keyLock, issuing>>

\* The key is looked up once; its status is what the request goes by.
require_third_party_api_key(p, k) ==
    /\ call[p] = NoCall /\ k \in Issued
    /\ call' = [call EXCEPT ![p] =
                  [pc |-> "gate", key |-> k, status |-> keyStatus[k], window |-> minute, count |-> 0]]
    /\ keysUnchanged /\ UNCHANGED <<minute, used, outcomes, served, late>>

\* A revoked key is a 403 with a link; another goes on with the window of this minute.
external_query_events(p) ==
    /\ call[p].pc = "gate"
    /\ call' = [call EXCEPT ![p] = IF @.status # "active" THEN NoCall
                                   ELSE [@ EXCEPT !.pc = "count", !.window = minute]]
    /\ keysUnchanged /\ UNCHANGED <<minute, used, outcomes, served, late>>

\* Mutant of increment_external_gateway_rate_limit: the count is read, not returned by
\* the statement that increments it.
MutStaleCount(p) ==
    /\ call[p].pc = "count"
    /\ LET k == call[p].key
           w == call[p].window
       IN  /\ used' = [used EXCEPT ![k][w] = @ + 1]
           /\ call' = [call EXCEPT ![p].pc = "limit", ![p].count = used[k][w]]
    /\ keysUnchanged /\ UNCHANGED <<minute, outcomes, served, late>>

\* INSERT ... ON CONFLICT DO UPDATE ... RETURNING request_count.
increment_external_gateway_rate_limit(p) ==
    /\ call[p].pc = "count"
    /\ LET k == call[p].key
           w == call[p].window
       IN  /\ used[k][w] < RateLimit + Cardinality(Partners)
           /\ used' = [used EXCEPT ![k][w] = @ + 1]
           /\ call' = [call EXCEPT ![p].pc = "limit", ![p].count = used[k][w] + 1]
    /\ keysUnchanged /\ UNCHANGED <<minute, outcomes, served, late>>

\* Above the limit a 429 with a link; else the "allowed" link, and then the read.
CheckLimit(p) ==
    /\ call[p].pc = "limit"
    /\ IF call[p].count > RateLimit
       THEN call' = [call EXCEPT ![p] = NoCall] /\ UNCHANGED outcomes
       ELSE /\ call' = [call EXCEPT ![p].pc = "read"]
            /\ outcomes' = [outcomes EXCEPT ![call[p].key][call[p].window] = @ + 1]
    /\ keysUnchanged /\ UNCHANGED <<minute, used, served, late>>

ReadEvents(p) ==
    /\ call[p].pc = "read"
    /\ served' = [served EXCEPT ![call[p].key][call[p].window] = @ + 1]
    /\ late' = IF call[p].status = "revoked" THEN late \cup {call[p].key} ELSE late
    /\ call' = [call EXCEPT ![p] = NoCall]
    /\ keysUnchanged /\ UNCHANGED <<minute, used, outcomes>>

\* An error, or a dead worker; the count is not taken back.
CallFails(p) ==
    /\ call[p] # NoCall
    /\ call' = [call EXCEPT ![p] = NoCall]
    /\ keysUnchanged /\ UNCHANGED <<minute, used, outcomes, served, late>>

Tick ==
    /\ minute < MaxMinute
    /\ minute' = minute + 1
    /\ keysUnchanged /\ UNCHANGED <<used, call, outcomes, served, late>>

GatewayNext ==
    \/ \E i \in Issuers :
          \/ lock_external_gateway_key_cap(i)
          \/ count_third_party_api_keys(i)
          \/ \E k \in ApiKeys : insert_third_party_api_key(i, k)
    \/ \E k \in ApiKeys : revoke_third_party_api_key(k)
    \/ \E p \in Partners :
          \/ \E k \in ApiKeys : require_third_party_api_key(p, k)
          \/ external_query_events(p)
          \/ increment_external_gateway_rate_limit(p)
          \/ CheckLimit(p)
          \/ ReadEvents(p)
          \/ CallFails(p)
    \/ Tick

GatewaySpec == GatewayInit /\ [][GatewayNext]_gatewayVars

-----------------------------------------------------------------------------
(* Properties *)

\* Concurrent issues stay within the tenant's cap, and no revocation makes room.
IssuedWithinCap == Cardinality(Issued) <= KeyCap

\* In no minute a key is served more often than its limit allows, however its requests
\* overlap, and no answer leaves without its "allowed" link.
ServedWithinLimit ==
    \A k \in ApiKeys, w \in 0..MaxMinute :
        served[k][w] <= outcomes[k][w] /\ outcomes[k][w] <= RateLimit

\* A request that starts after its key was revoked is never served; only one that was
\* authenticated before may still be.
RevokedNotServed == late = {}

\* Partners get what they were given and no more: keys within the cap, requests
\* within the limit, nothing after a revocation (issue_external_key, external_query_events).
PartnersWithinRights == IssuedWithinCap /\ ServedWithinLimit /\ RevokedNotServed
=============================================================================
