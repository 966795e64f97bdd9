------------------------------ MODULE ModelPolicy ------------------------------
(* Sentinel's decision on a requested model (policy/enforcement.py): deny-     *)
(* lists, allow-lists of different specificity, and the default-deny approval  *)
(* mode over the tenant's model inventory.  One tenant, one request scope; of  *)
(* a policy's team, project and agent ids the model keeps whether each is the  *)
(* request's own, another one, or the wildcard.                                *)
EXTENDS Integers, FiniteSets

CONSTANTS
    Policies,   \* every policy version that may be stored
    Model,      \* the requested model
    MaxNow,     \* bound on time
    Never       \* no effective_until, no retire_at

ASSUME PolicyAssumption ==
    IsFiniteSet(Policies) /\ \A p \in Policies : p.version \in Int /\ p.id \in Int

VARIABLES
    policyRows, \* current policies of the tenant, one version per policy_id
    modelRow,   \* the model's row of model_inventory, as committed
    now

\* A policy: kind, policy_id, policy_version, ids (team, project, agent), the
\* models it lists, its effective_from and effective_until; kinds are deny, allow
\* and approval.
ModelStates == {"absent", "pending", "approved", "denied"}

-----------------------------------------------------------------------------
model_matches_scope(view) == \A i \in 1..3 : view.ids[i] \in {"own", "any"}

model_specificity(view) == Cardinality({i \in 1..3 : view.ids[i] # "any"})

allowlist_active(view) == view.until = Never \/ view.until > now

\* The rows of a kind whose effective_from has come, within them those in scope.
get_active_policies_for_scope(kind) == {v \in policyRows : v.kind = kind /\ v.from <= now}
Views(kind) == {v \in get_active_policies_for_scope(kind) : model_matches_scope(v)}

\* The key of max(): specificity, then version, then policy_id.
MoreSpecific(v, w) ==
    LET sv == model_specificity(v)
        sw == model_specificity(w)
    IN  \/ sv > sw
        \/ sv = sw /\ v.version > w.version
        \/ sv = sw /\ v.version = w.version /\ v.id > w.id

MutNewestFirst(views) ==
    CHOOSE v \in views : \A w \in views \ {v} :
        v.version > w.version \/ (v.version = w.version /\ v.id > w.id)

MostSpecific(views) ==
    CHOOSE v \in views : \A w \in views \ {v} : MoreSpecific(v, w)

\* Deny is absolute; without an allow-list there is no constraint; otherwise the
\* most specific active allow-list decides.
resolve_model_decision ==
    LET allows == {v \in Views("allow") : allowlist_active(v)}
    IN  /\ \A v \in Views("deny") : Model \notin v.models
        /\ allows = {} \/ Model \in MostSpecific(allows).models

\* The approval gate: with an approval policy in scope the model must be approved
\* and within its grace period; an inventory that cannot be read denies.
ApprovalGate(readable) ==
    \/ Views("approval") = {}
    \/ /\ readable
       /\ modelRow.state = "approved"
       /\ modelRow.retire = Never \/ now <= modelRow.retire

MutApprovalReplaces(readable) ==
    IF Views("approval") = {} THEN resolve_model_decision
    ELSE readable /\ modelRow.state = "approved"

evaluate_model_policies(readable) ==
    resolve_model_decision /\ ApprovalGate(readable)

-----------------------------------------------------------------------------
PolicyDecisionInit ==
    /\ policyRows = {}
    /\ modelRow \in [state : ModelStates, retire : {Never} \cup 0..MaxNow]
    /\ (modelRow.retire # Never) => modelRow.state \in {"approved", "denied"}
    /\ now = 0

\* A policy the intake accepted: the row of its policy_id now holds this version, also
\* if it is not yet effective and the version it replaces was.
StorePolicy(p) ==
    /\ \A v \in policyRows : v.id = p.id => v.version < p.version
    /\ policyRows' = {v \in policyRows : v.id # p.id} \cup {p}
    /\ UNCHANGED <<modelRow, now>>

PassTime ==
    /\ now < MaxNow
    /\ now' = now + 1
    /\ UNCHANGED <<policyRows, modelRow>>

PolicyDecisionNext == PassTime \/ \E p \in Policies : StorePolicy(p)

policyDecisionVars == <<policyRows, modelRow, now>>

PolicyDecisionSpec == PolicyDecisionInit /\ [][PolicyDecisionNext]_policyDecisionVars

-----------------------------------------------------------------------------
\* A policy that only forbids never lets a model through: storing a new deny-list
\* or a new approval policy turns no refusal into an allowance ("it ADDS a
\* default-deny gate, never removes one", evaluate_model_policies).
ForbiddingNeverWidens ==
    [][\A p \in policyRows' \ policyRows :
          (p.kind \in {"deny", "approval"} /\ \A v \in policyRows : v.id # p.id) =>
              (evaluate_model_policies(TRUE)' => evaluate_model_policies(TRUE))
      ]_policyDecisionVars

\* What is allowed can be justified row by row: no deny-list in scope and in effect
\* names the model; a narrower allow-list is never overruled by a broader one, however new;
\* in approval mode the model is approved and not past its retirement.
AllowedIsJustified ==
    \A readable \in BOOLEAN : evaluate_model_policies(readable) =>
        LET live == {v \in Views("allow") : allowlist_active(v)}
        IN  /\ \A v \in Views("deny") : Model \notin v.models
            /\ live # {} => \E v \in live :
                  /\ Model \in v.models
                  /\ \A w \in live : model_specificity(w) <= model_specificity(v)
            /\ Views("approval") # {} =>
                  /\ readable /\ modelRow.state = "approved"
                  /\ modelRow.retire # Never => now <= modelRow.retire
=============================================================================
