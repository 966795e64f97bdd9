------------------------------ MODULE MCSentinel ------------------------------
(***************************************************************************)
(* Sentinel's policy path and its gateway for TLC: the intake of a policy, *)
(* the decision on a model, the operators' approvals against the requests  *)
(* that use them, one gateway request, and the sign-on of operators.       *)
(* Every behaviour runs one of them, named by unit, and the others stay    *)
(* where they start.                                                       *)
(***************************************************************************)
EXTENDS PolicyIntake, ModelApproval, GatewayRequest, OperatorSso, TLC

VARIABLE unit

sentinelVars == <<vars, approvalVars, gatewayRequestVars, ssoVars, unit>>

\* Constants with structure.
P(kind, id, version, team, project, agent, models, from, until) ==
    [kind |-> kind, id |-> id, version |-> version, ids |-> <<team, project, agent>>,
     models |-> models, from |-> from, until |-> until]

mcPolicies ==
    {P("deny", 1, 1, "own", "any", "any", {"m"}, 0, Never),
     P("deny", 1, 2, "own", "any", "any", {}, 1, Never),
     P("deny", 2, 1, "other", "any", "any", {"m"}, 0, Never),
     P("allow", 3, 1, "any", "any", "any", {"m"}, 0, Never),
     P("allow", 3, 3, "any", "any", "any", {}, 0, Never),
     P("allow", 4, 1, "own", "any", "any", {"m"}, 0, 1),
     P("allow", 5, 2, "own", "own", "any", {}, 1, Never),
     P("allow", 6, 2, "any", "own", "any", {"m"}, 0, Never),
     P("approval", 7, 1, "any", "any", "any", {}, 0, Never),
     P("approval", 8, 1, "any", "any", "other", {}, 0, Never)}

mcChain == <<"a", "b", "c", "d">>
mcRate == [p \in {"a", "b", "c", "d"} |-> IF p = "b" THEN 2 ELSE 1]
mcSecret == <<"s", "t", "s">>
Delta(c, text) == [choice |-> c, text |-> text]
mcTexts == {<<>>, <<"s">>, <<"t">>, <<"x">>, <<"s", "t">>, <<"t", "s">>, <<"s", "t", "s", "t", "s">>}
mcChunks ==
    {<<Delta(1, text), Delta(1, <<>>)>> : text \in mcTexts}
        \cup {<<Delta(2, text), Delta(2, <<>>)>> : text \in {<<"s">>, <<"t">>, <<"s", "t", "s">>}}
        \cup {<<Delta(1, <<"s">>), Delta(2, <<"t">>)>>, <<Delta(1, <<"t">>), Delta(1, <<"s">>)>>}

\* One tenant signs on already, the other has its groups mapped and no provider yet.
mcIdpConfig == [t \in SsoTenants |-> [p \in Protocols |-> IF t = "t" THEN "x" ELSE NoProvider]]
mcRoleMap ==
    [t \in SsoTenants |-> [g \in Groups |-> IF t = "t" THEN "tenant_admin" ELSE "tenant_auditor"]]

SentinelInit ==
    /\ Init /\ GatewayRequestInit /\ SsoInit
    /\ idpConfig = mcIdpConfig /\ roleMap = mcRoleMap
    /\ \/ unit \in {"intake", "request", "sso"} /\ ApprovalInit /\ modelRow.state = "absent"
       \/ unit = "decision" /\ PolicyDecisionInit /\ NoCalls
       \/ unit = "approval" /\ ApprovalInit
    /\ streaming \/ asked > 1 => unit = "request"

\* A request ends, policies stop coming, and so do operators; anything else that cannot go on is a
\* deadlock.
Rest ==
    /\ \/ unit = "decision" \/ gstage = "closed"
       \/ /\ unit = "sso" /\ sessions = {}
          /\ \A c \in Callbacks : callback[c] = Answered
          /\ \A a \in Operators : operator[a] = NotCalled
    /\ UNCHANGED <<vars, approvalVars, gatewayRequestVars, ssoVars>>

SentinelNext ==
    /\ UNCHANGED unit
    /\ \/ unit = "intake" /\ Next /\ UNCHANGED <<approvalVars, gatewayRequestVars, ssoVars>>
       \/ /\ unit = "decision" /\ PolicyDecisionNext
          /\ UNCHANGED <<deciderVars, requesterVars, vars, gatewayRequestVars, ssoVars>>
       \/ unit = "approval" /\ ApprovalNext /\ UNCHANGED <<vars, gatewayRequestVars, ssoVars>>
       \/ unit = "request" /\ GatewayRequestNext /\ UNCHANGED <<vars, approvalVars, ssoVars>>
       \/ unit = "sso" /\ SsoNext /\ UNCHANGED <<vars, approvalVars, gatewayRequestVars>>
       \/ Rest

\* The event loop runs every request it has started; Redis runs out every TTL.
SentinelSpec ==
    /\ SentinelInit /\ [][SentinelNext]_sentinelVars
    /\ \A r \in Requesters : WF_sentinelVars(unit = "approval" /\ RequesterStep(r)
                                 /\ UNCHANGED <<vars, gatewayRequestVars, ssoVars, unit>>)
    /\ WF_sentinelVars(unit = "approval" /\ ExpireDecision
                       /\ UNCHANGED <<vars, gatewayRequestVars, ssoVars, unit>>)

\* A denial takes effect: if a model is denied for good, then from some time on no
\* request is served with it any more, although no operator call invalidates the
\* cached decisions (_decide, set_cached_decision and its TTL).
DenialTakesEffect ==
    (<>[](unit = "approval" /\ modelRow.state = "denied")) =>
        <>[][\A r \in Requesters : lastServed'[r] = "served" => lastServed[r] = "served"]_sentinelVars
=============================================================================
