------------------------------ MODULE OperatorSso ------------------------------
(***************************************************************************)
(* Single sign-on of the Sentinel's operators (admin/sso/*.py): a login is *)
(* a transaction that is stored before the browser is sent to the tenant's *)
(* identity provider and consumed once when it comes back; the provider's  *)
(* configuration is read again then, and may have changed.  A verified     *)
(* identity is resolved to a role, provisioned, audited, and only then     *)
(* gets a session.  OIDC and SAML run the same steps.  Signatures, claims  *)
(* and XML are the libraries': an assertion is what a provider said to a   *)
(* transaction, and it may fail its checks at any time.                    *)
(***************************************************************************)
EXTENDS Naturals, Sequences, FiniteSets

CONSTANTS
    SsoTenants,
    Protocols,      \* "oidc", "saml"
    Providers,      \* identity providers
    NoProvider,
    Groups,         \* group names in assertions
    Subjects,       \* people, as their providers name them
    MaxLogins,      \* bound on the login transactions (state, request_id)
    MaxCallbacks,   \* bound on the calls of oidc_callback and saml_acs
    Operators,      \* calls that change the configuration
    MaxIdpChanges   \* bound on those changes

Logins == 1..MaxLogins          \* numbered as they are drawn
Callbacks == 1..MaxCallbacks    \* numbered as they arrive

Roles == {"tenant_admin", "tenant_auditor"}

ASSUME SsoAssumption ==
    /\ {MaxLogins, MaxCallbacks, MaxIdpChanges} \subseteq Nat /\ NoProvider \notin Providers
    /\ IsFiniteSet(Operators)

VARIABLES
    idpConfig,      \* idpConfig[t][p]: the provider of the active row, or NoProvider
    roleMap,        \* roleMap[t][g]: the role a group is mapped to, or "none"
    login,          \* login[x]: the row of a transaction
    assertions,     \* what providers said: to which transaction, and of whom
    callback,       \* callback[c]: a completion in progress
    adminUsers,     \* rows <<tenant, subject>>
    roleAssigned,   \* rows <<tenant, subject, role>>
    ssoEvents,      \* ssoEvents[c]: audit events of a completion
    sessions,       \* minted sessions that have not expired
    expiredSessions,
    operator,       \* operator[a]: a configuration change in progress
    idpChanges,     \* history: the changes committed, in order
    idpEvents       \* idp_config_changed events, in order

identityVars == <<adminUsers, roleAssigned, ssoEvents, sessions>>
operatorVars == <<idpConfig, roleMap, operator, idpChanges, idpEvents>>
ssoVars == <<login, assertions, callback, identityVars, expiredSessions, operatorVars>>

NoLogin == [at |-> "free"]
NotCalled == [at |-> "idle"]
Answered == [at |-> "answered"]

SsoInit ==
    /\ idpConfig \in [SsoTenants -> [Protocols -> Providers \cup {NoProvider}]]
    /\ roleMap \in [SsoTenants -> [Groups -> Roles \cup {"none"}]]
    /\ login = [x \in Logins |-> NoLogin]
    /\ assertions = {}
    /\ callback = [c \in Callbacks |-> NotCalled]
    /\ adminUsers = {} /\ roleAssigned = {}
    /\ ssoEvents = [c \in Callbacks |-> <<>>]
    /\ sessions = {} /\ expiredSessions = {}
    /\ operator = [a \in Operators |-> NotCalled]
    /\ idpChanges = <<>> /\ idpEvents = <<>>

-----------------------------------------------------------------------------
(* The start of a login *)

\* The active configuration is read; without one the tenant has no login (404).  The
\* browser will be sent to the provider that was read.
begin_login(x, t, p) ==
    /\ login[x] = NoLogin /\ \A y \in 1..x-1 : login[y] # NoLogin
    /\ idpConfig[t][p] # NoProvider
    /\ login' = [login EXCEPT ![x] = [at |-> "begun", tenant |-> t, protocol |-> p,
                                      provider |-> idpConfig[t][p], expired |-> FALSE]]
    /\ UNCHANGED <<assertions, callback, identityVars, expiredSessions, operatorVars>>

\* delete_expired and create, in one transaction.  A discovery that fails, or a lost
\* worker, leaves nothing behind (LoginAbandoned).
create(x) ==
    /\ login[x].at = "begun"
    /\ login' = [y \in Logins |->
                   CASE y = x -> [login[y] EXCEPT !.at = "open"]
                     [] y # x /\ login[y].at \in {"open", "consumed"} /\ login[y].expired ->
                            [login[y] EXCEPT !.at = "deleted"]
                     [] OTHER -> login[y]]
    /\ UNCHANGED <<assertions, callback, identityVars, expiredSessions, operatorVars>>

LoginAbandoned(x) ==
    /\ login[x].at = "begun"
    /\ login' = [login EXCEPT ![x].at = "deleted"]
    /\ UNCHANGED <<assertions, callback, identityVars, expiredSessions, operatorVars>>

\* expires_at passes.
LoginExpires(x) ==
    /\ login[x].at \in {"open", "consumed"} /\ ~login[x].expired
    /\ login' = [login EXCEPT ![x].expired = TRUE]
    /\ UNCHANGED <<assertions, callback, identityVars, expiredSessions, operatorVars>>

\* The provider authenticates a person and answers with their groups.
ProviderAsserts(x, s, gs) ==
    /\ login[x].at \in {"open", "consumed", "deleted"}
    /\ \A r \in assertions : r.to # x
    /\ assertions' = assertions \cup
          {[to |-> x, provider |-> login[x].provider, subject |-> s, groups |-> gs]}
    /\ UNCHANGED <<login, callback, identityVars, expiredSessions, operatorVars>>

-----------------------------------------------------------------------------
(* The end of a login *)

callbackOnly == UNCHANGED <<login, assertions, identityVars, expiredSessions, operatorVars>>
Continue(c, at) == callback' = [callback EXCEPT ![c].at = at]
Finish(c) == callback' = [callback EXCEPT ![c] = Answered]

\* Mutant of consume: the row is looked up and marked in two statements.
MutConsumeUnchecked(x) == login[x].at \in {"open", "consumed"} /\ ~login[x].expired

\* The WHERE clause of the one UPDATE that consumes a transaction.
consume(x) == login[x].at = "open" /\ ~login[x].expired

\* The callback names a transaction and carries an assertion, which may have been made
\* to another one.  The transaction is consumed first, whatever follows.
complete_login(c, x, r) ==
    /\ callback[c] = NotCalled /\ \A d \in 1..c-1 : callback[d] # NotCalled
    /\ login[x] # NoLogin
    /\ IF consume(x)
       THEN /\ login' = [login EXCEPT ![x].at = "consumed"]
            /\ callback' = [callback EXCEPT ![c] =
                              [at |-> "reload", login |-> x, assertion |-> r,
                               tenant |-> login[x].tenant, protocol |-> login[x].protocol,
                               provider |-> NoProvider, role |-> "none"]]
       ELSE /\ Finish(c)
            /\ UNCHANGED login
    /\ UNCHANGED <<assertions, identityVars, expiredSessions, operatorVars>>

\* The configuration as it is now.
get_active(c) ==
    LET now == idpConfig[callback[c].tenant][callback[c].protocol]
    IN  /\ callback[c].at = "reload"
        /\ callback' = [callback EXCEPT ![c] =
                          IF now = NoProvider THEN Answered
                          ELSE [@ EXCEPT !.at = "verify", !.provider = now]]
        /\ callbackOnly

\* Issuer, audience and signature are those of the configuration, nonce or InResponseTo
\* that of the transaction.
Verified(c) ==
    /\ callback[c].assertion.provider = callback[c].provider
    /\ callback[c].assertion.to = callback[c].login

VerifyAssertion(c) ==
    /\ callback[c].at = "verify"
    /\ Verified(c)
    /\ Continue(c, "resolve")
    /\ callbackOnly

\* Any check may fail, as do discovery, the exchange of the code and the keys (401).
VerificationFails(c) ==
    /\ callback[c].at = "verify"
    /\ Finish(c)
    /\ callbackOnly

\* The highest role that any of the groups is mapped to.
resolve_role(t, gs) ==
    LET mapped == {roleMap[t][g] : g \in gs} \ {"none"}
    IN  IF "tenant_admin" \in mapped THEN "tenant_admin"
        ELSE IF mapped # {} THEN "tenant_auditor" ELSE "none"

finalize_sso_login(c) ==
    LET role == resolve_role(callback[c].tenant, callback[c].assertion.groups)
    IN  /\ callback[c].at = "resolve"
        /\ callback' = [callback EXCEPT ![c] =
                          [@ EXCEPT !.at = IF role = "none" THEN "deny" ELSE "provision",
                                    !.role = role]]
        /\ callbackOnly

_emit_denied(c) ==
    /\ callback[c].at = "deny"
    /\ ssoEvents' = [ssoEvents EXCEPT ![c] = Append(@, [type |-> "operator_sso_denied",
                                                         tenant |-> callback[c].tenant])]
    /\ Finish(c)
    /\ UNCHANGED <<login, assertions, adminUsers, roleAssigned, sessions, expiredSessions, operatorVars>>

\* The idempotent upserts and their commit.
ProvisionCommits(c) ==
    LET user == <<callback[c].tenant, callback[c].assertion.subject>>
    IN  /\ callback[c].at = "provision"
        /\ adminUsers' = adminUsers \cup {user}
        /\ roleAssigned' = roleAssigned \cup {Append(user, callback[c].role)}
        /\ Continue(c, "audit")
        /\ UNCHANGED <<login, assertions, ssoEvents, sessions, expiredSessions, operatorVars>>

emit_sso_event(c) ==
    /\ callback[c].at = "audit"
    /\ ssoEvents' = [ssoEvents EXCEPT ![c] =
                       Append(@, [type |-> "operator_sso_login", tenant |-> callback[c].tenant,
                                  actor |-> callback[c].assertion.subject])]
    /\ Continue(c, "mint")
    /\ UNCHANGED <<login, assertions, adminUsers, roleAssigned, sessions, expiredSessions, operatorVars>>

mint(c) ==
    /\ callback[c].at = "mint"
    /\ sessions' = sessions \cup
          {[by |-> c, login |-> callback[c].login, tenant |-> callback[c].tenant,
            subject |-> callback[c].assertion.subject, role |-> callback[c].role]}
    /\ Finish(c)
    /\ UNCHANGED <<login, assertions, adminUsers, roleAssigned, ssoEvents, expiredSessions, operatorVars>>

\* Without the session secret nothing is minted (503); a worker may be lost anywhere.
CallbackEnds(c) ==
    /\ callback[c].at \in {"reload", "resolve", "deny", "provision", "audit", "mint"}
    /\ Finish(c)
    /\ callbackOnly

CallbackStep(c) ==
    \/ \E x \in Logins, r \in assertions : complete_login(c, x, r)
    \/ get_active(c) \/ VerifyAssertion(c) \/ VerificationFails(c)
    \/ finalize_sso_login(c) \/ _emit_denied(c)
    \/ ProvisionCommits(c) \/ emit_sso_event(c) \/ mint(c)
    \/ CallbackEnds(c)

-----------------------------------------------------------------------------
(* Sessions at work *)

SessionExpires(s) ==
    /\ sessions' = sessions \ {s}
    /\ expiredSessions' = expiredSessions \cup {s}
    /\ UNCHANGED <<login, assertions, callback, adminUsers, roleAssigned, ssoEvents, operatorVars>>

\* Who may change the configuration of a tenant: the break-glass token, of any; the
\* session of an operator, of its own and as an administrator.
BreakGlass == [by |-> "breakglass"]
require_admin(t) ==
    {BreakGlass} \cup {s \in sessions : s.tenant = t /\ s.role = "tenant_admin"}

operatorOnly == UNCHANGED <<login, assertions, callback, identityVars, expiredSessions>>

\* The principal is checked once, at the start; the session may expire before the commit.
Authorize(a, t, who) ==
    /\ operator[a] = NotCalled
    /\ Len(idpChanges) < MaxIdpChanges
    /\ who \in require_admin(t)
    /\ operator' = [operator EXCEPT ![a] = [at |-> "write", tenant |-> t, who |-> who]]
    /\ UNCHANGED <<idpConfig, roleMap, idpChanges, idpEvents>> /\ operatorOnly

\* A change commits; its event follows in a transaction of its own.
CommitChange(a) ==
    /\ operator[a].at = "write"
    /\ operator' = [operator EXCEPT ![a].at = "audit"]
    /\ idpChanges' = Append(idpChanges, [tenant |-> operator[a].tenant, who |-> operator[a].who])
    /\ UNCHANGED idpEvents /\ operatorOnly

upsert_idp_config(a, p, provider) ==
    /\ CommitChange(a)
    /\ idpConfig' = [idpConfig EXCEPT ![operator[a].tenant][p] = provider]
    /\ UNCHANGED roleMap

set_group_mapping(a, g, role) ==
    /\ CommitChange(a)
    /\ roleMap' = [roleMap EXCEPT ![operator[a].tenant][g] = role]
    /\ UNCHANGED idpConfig

EmitConfigChanged(a) ==
    /\ operator[a].at = "audit"
    /\ idpEvents' = Append(idpEvents, [tenant |-> operator[a].tenant, who |-> operator[a].who])
    /\ operator' = [operator EXCEPT ![a] = NotCalled]
    /\ UNCHANGED <<idpConfig, roleMap, idpChanges>> /\ operatorOnly

\* The secret cannot be encrypted (503), or the worker is lost, before or after the commit.
OperatorDies(a) ==
    /\ operator[a].at \in {"write", "audit"}
    /\ operator' = [operator EXCEPT ![a] = NotCalled]
    /\ UNCHANGED <<idpConfig, roleMap, idpChanges, idpEvents>> /\ operatorOnly

OperatorStep(a) ==
    \/ \E t \in SsoTenants, who \in sessions \cup {BreakGlass} : Authorize(a, t, who)
    \/ \E p \in Protocols, provider \in Providers : upsert_idp_config(a, p, provider)
    \/ \E g \in Groups, role \in Roles : set_group_mapping(a, g, role)
    \/ EmitConfigChanged(a) \/ OperatorDies(a)

SsoNext ==
    \/ \E x \in Logins :
          \/ \E t \in SsoTenants, p \in Protocols : begin_login(x, t, p)
          \/ create(x) \/ LoginAbandoned(x) \/ LoginExpires(x)
          \/ \E s \in Subjects, gs \in SUBSET Groups : ProviderAsserts(x, s, gs)
    \/ \E c \in Callbacks : CallbackStep(c)
    \/ \E s \in sessions : SessionExpires(s)
    \/ \E a \in Operators : OperatorStep(a)

SsoSpec == SsoInit /\ [][SsoNext]_ssoVars

-----------------------------------------------------------------------------
(* Properties *)

Minted == sessions \cup expiredSessions

\* A login transaction yields at most one session, although callbacks are repeated and
\* run at once (consume: "single-use").
OneSessionPerLogin == \A s, u \in Minted : s.login = u.login => s = u

\* A session belongs to a person whom a provider of the tenant asserted in answer to
\* that very login, is of the tenant that started it, is backed by its rows, and was
\* audited as a login of that person before it was minted, whatever the configuration
\* became meanwhile (finalize_sso_login).
SessionsAreExplained ==
    \A s \in Minted :
        /\ login[s.login].tenant = s.tenant
        /\ \E r \in assertions :
              r.to = s.login /\ r.provider = login[s.login].provider /\ r.subject = s.subject
        /\ <<s.tenant, s.subject>> \in adminUsers
        /\ <<s.tenant, s.subject, s.role>> \in roleAssigned
        /\ ssoEvents[s.by] = <<[type |-> "operator_sso_login", tenant |-> s.tenant,
                                actor |-> s.subject]>>

\* Whoever has no role stays outside: a person is provisioned only with a role, for an
\* assertion that named a group and answered a login of that tenant, and a denied
\* callback has one event and no session (vector 14 of docs/adr/0017).
DeniedStaysOut ==
    /\ \A c \in Callbacks :
          (\E i \in 1..Len(ssoEvents[c]) : ssoEvents[c][i].type = "operator_sso_denied") =>
              Len(ssoEvents[c]) = 1 /\ \A s \in Minted : s.by # c
    /\ \A u \in adminUsers :
          /\ \E role \in Roles : <<u[1], u[2], role>> \in roleAssigned
          /\ \E r \in assertions :
                r.subject = u[2] /\ r.groups # {} /\ login[r.to].tenant = u[1]

\* How often a record is in a log.
Occurrences(log, e) == Cardinality({i \in 1..Len(log) : log[i] = e})

\* Every configuration event was preceded by its change, and names who made it.
EventsFollowChanges ==
    \A i \in 1..Len(idpEvents) :
        Occurrences(idpEvents, idpEvents[i]) <= Occurrences(idpChanges, idpEvents[i])

\* Operators are accounted for: one session per login, each explained, nobody let in
\* without a role, and no event without its change.
OperatorsAreAccounted ==
    OneSessionPerLogin /\ SessionsAreExplained /\ DeniedStaysOut /\ EventsFollowChanges
=============================================================================
