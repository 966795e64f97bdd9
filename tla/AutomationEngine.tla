-------------------------- MODULE AutomationEngine --------------------------
(***************************************************************************)
(* The Orchestrator's automation rules (automation/router.py) and their    *)
(* evaluation against an accepted event (automation/engine.py).  One       *)
(* tenant, the master switch on; an event is evaluated once                *)
(* (EventForwarding, AcceptedOnlyOnce).  PolicyOperations models what a    *)
(* redistribution does; here it returns or raises.                         *)
(***************************************************************************)
EXTENDS Naturals, FiniteSets

CONSTANTS
    RuleIds,        \* fresh ids, each used once
    NameOf,         \* NameOf[r]: the name given to r
    Fires,          \* <<r, e>>: rule_matches holds of rule r and event e
    Authors,        \* concurrent POST /v1/automation/rules
    AcceptedEvents, \* the events whose evaluation is scheduled
    RuleCap,        \* max_rules_per_tenant
    NoAuthor, NoRule

ASSUME AutomationAssumption ==
    /\ Fires \subseteq RuleIds \X AcceptedEvents
    /\ RuleCap \in Nat
    /\ NoAuthor \notin Authors /\ NoRule \notin RuleIds

VARIABLES
    rule,           \* rule[r]: "unused", "enabled", "disabled" or "deleted"
    ruleLock,       \* who holds the tenant's rule cap lock
    authoring,      \* authoring[a]: a create request: next statement and rule
    evaluation,     \* evaluation[e]: the background task of event e
    loaded,         \* loaded[e]: the rules it has to serve
    serving,        \* serving[e]: the rule being executed
    executions,     \* <<r, e, disposition>>: the automation_executions rows
    driven,         \* <<r, e>>: redistributions that were carried out
    forgone         \* <<r, e>>: rows that could not be written

automationVars ==
    <<rule, ruleLock, authoring, evaluation, loaded, serving, executions, driven, forgone>>
rulebook == <<rule, ruleLock, authoring>>

NotAuthoring == [pc |-> "idle"]

AutomationInit ==
    /\ rule = [r \in RuleIds |-> "unused"]
    /\ ruleLock = NoAuthor
    /\ authoring = [a \in Authors |-> NotAuthoring]
    /\ evaluation = [e \in AcceptedEvents |-> "scheduled"]
    /\ loaded = [e \in AcceptedEvents |-> {}]
    /\ serving = [e \in AcceptedEvents |-> NoRule]
    /\ executions = {} /\ driven = {} /\ forgone = {}

-----------------------------------------------------------------------------
(* The rules *)

RulesThere == {r \in RuleIds : rule[r] \in {"enabled", "disabled"}}
tasksUnchanged == UNCHANGED <<evaluation, loaded, serving, executions, driven, forgone>>

create_automation_rule(a, r) ==
    /\ authoring[a] = NotAuthoring
    /\ rule[r] = "unused" /\ \A b \in Authors : authoring[b] # [pc |-> "lock", rule |-> r]
    /\ authoring' = [authoring EXCEPT ![a] = [pc |-> "lock", rule |-> r]]
    /\ UNCHANGED <<rule, ruleLock>> /\ tasksUnchanged

lock_automation_rule_cap(a) ==
    /\ authoring[a].pc = "lock" /\ ruleLock = NoAuthor
    /\ ruleLock' = a
    /\ authoring' = [authoring EXCEPT ![a].pc = "count"]
    /\ UNCHANGED rule /\ tasksUnchanged

\* The lock goes with the transaction, however it ends.
EndCreate(a) ==
    /\ authoring' = [authoring EXCEPT ![a] = NotAuthoring]
    /\ ruleLock' = IF ruleLock = a THEN NoAuthor ELSE ruleLock

\* 422 rule_limit_exceeded at the cap.
count_automation_rules(a) ==
    /\ authoring[a].pc = "count"
    /\ IF Cardinality(RulesThere) >= RuleCap
       THEN EndCreate(a)
       ELSE authoring' = [authoring EXCEPT ![a].pc = "insert"] /\ UNCHANGED ruleLock
    /\ UNCHANGED rule /\ tasksUnchanged

\* The INSERT and its commit; a name that exists is a 409.
insert_automation_rule(a, enabled) ==
    /\ authoring[a].pc = "insert"
    /\ LET r == authoring[a].rule
       IN  rule' = IF \E q \in RulesThere : NameOf[q] = NameOf[r] THEN rule
                   ELSE [rule EXCEPT ![r] = IF enabled THEN "enabled" ELSE "disabled"]
    /\ EndCreate(a)
    /\ tasksUnchanged

CreateFails(a) ==
    /\ authoring[a] # NotAuthoring
    /\ EndCreate(a)
    /\ UNCHANGED rule /\ tasksUnchanged

patch_rule(r) ==
    /\ r \in RulesThere
    /\ rule' = [rule EXCEPT ![r] = IF @ = "enabled" THEN "disabled" ELSE "enabled"]
    /\ UNCHANGED <<ruleLock, authoring>> /\ tasksUnchanged

delete_rule(r) ==
    /\ r \in RulesThere
    /\ rule' = [rule EXCEPT ![r] = "deleted"]
    /\ UNCHANGED <<ruleLock, authoring>> /\ tasksUnchanged

-----------------------------------------------------------------------------
(* The evaluation of an event *)

\* The enabled rules that match, read once; a database that is down means no rule is
\* evaluated for this event.
evaluate_and_execute(e) ==
    /\ evaluation[e] = "scheduled"
    /\ \/ /\ evaluation' = [evaluation EXCEPT ![e] = "loop"]
          /\ loaded' = [loaded EXCEPT ![e] =
                          {r \in RuleIds : rule[r] = "enabled" /\ <<r, e>> \in Fires}]
       \/ /\ evaluation' = [evaluation EXCEPT ![e] = "gone"]
          /\ UNCHANGED loaded
    /\ UNCHANGED <<rulebook, serving, executions, driven, forgone>>

\* _execute_rule drives the distribution: it works, or raises.
ExecuteRule(e, r) ==
    /\ evaluation[e] = "loop"
    /\ r \in loaded[e]
    /\ loaded' = [loaded EXCEPT ![e] = @ \ {r}]
    /\ serving' = [serving EXCEPT ![e] = r]
    /\ \/ evaluation' = [evaluation EXCEPT ![e] = "executed"] /\ driven' = driven \cup {<<r, e>>}
       \/ evaluation' = [evaluation EXCEPT ![e] = "failed"] /\ UNCHANGED driven
    /\ UNCHANGED <<rulebook, executions, forgone>>

NextRule(e) ==
    /\ evaluation' = [evaluation EXCEPT ![e] = "loop"]
    /\ serving' = [serving EXCEPT ![e] = NoRule]

\* Mutant of _execute_rule: an unexpected error ends the whole evaluation.
MutErrorEndsLoop(e) ==
    /\ evaluation[e] \in {"executed", "failed"}
    /\ \/ /\ executions' = executions \cup {<<serving[e], e, evaluation[e]>>}
          /\ NextRule(e)
          /\ UNCHANGED forgone
       \/ /\ evaluation' = [evaluation EXCEPT ![e] = "ended"]
          /\ UNCHANGED <<serving, executions, forgone>>
    /\ UNCHANGED <<rulebook, loaded, driven>>

\* _execute_rule appends the link: it may find the database down, which is logged
\* only, or raise, which evaluate_and_execute catches.
_execute_rule_link(e) ==
    /\ evaluation[e] \in {"executed", "failed"}
    /\ \/ /\ executions' = executions \cup {<<serving[e], e, evaluation[e]>>}
          /\ NextRule(e)
          /\ UNCHANGED forgone
       \/ /\ forgone' = forgone \cup {<<serving[e], e>>}
          /\ NextRule(e)
          /\ UNCHANGED executions
       \/ /\ evaluation' = [evaluation EXCEPT ![e] = "raised"]
          /\ UNCHANGED <<serving, executions, forgone>>
    /\ UNCHANGED <<rulebook, loaded, driven>>

\* A last attempt to write a failed row.
_record_unexpected_failure(e) ==
    /\ evaluation[e] = "raised"
    /\ \/ executions' = executions \cup {<<serving[e], e, "failed">>} /\ UNCHANGED forgone
       \/ forgone' = forgone \cup {<<serving[e], e>>} /\ UNCHANGED executions
    /\ NextRule(e)
    /\ UNCHANGED <<rulebook, loaded, driven>>

EndEvaluation(e) ==
    /\ evaluation[e] = "loop" /\ loaded[e] = {}
    /\ evaluation' = [evaluation EXCEPT ![e] = "ended"]
    /\ UNCHANGED <<rulebook, loaded, serving, executions, driven, forgone>>

\* A background task dies with its process.
EvaluationDies(e) ==
    /\ evaluation[e] \notin {"ended", "gone"}
    /\ evaluation' = [evaluation EXCEPT ![e] = "gone"]
    /\ UNCHANGED <<rulebook, loaded, serving, executions, driven, forgone>>

RuleStep ==
    \/ \E a \in Authors :
          \/ \E r \in RuleIds : create_automation_rule(a, r)
          \/ lock_automation_rule_cap(a)
          \/ count_automation_rules(a)
          \/ \E enabled \in BOOLEAN : insert_automation_rule(a, enabled)
          \/ CreateFails(a)
    \/ \E r \in RuleIds : patch_rule(r) \/ delete_rule(r)

EvaluationStep ==
    \E e \in AcceptedEvents :
        \/ evaluate_and_execute(e)
        \/ \E r \in RuleIds : ExecuteRule(e, r)
        \/ _execute_rule_link(e)
        \/ _record_unexpected_failure(e)
        \/ EndEvaluation(e)
        \/ EvaluationDies(e)

AutomationNext == RuleStep \/ EvaluationStep

AutomationSpec == AutomationInit /\ [][AutomationNext]_automationVars

-----------------------------------------------------------------------------
(* Properties *)

\* Concurrent creates and deletes never leave a tenant with more rules than its cap,
\* or with two of one name.
RulesWithinCap ==
    /\ Cardinality(RulesThere) <= RuleCap
    /\ \A q, r \in RulesThere : NameOf[q] = NameOf[r] => q = r

\* A redistribution is on record: every rule that was executed for an event has one
\* execution row, or was logged as unrecorded, once the evaluation has gone on; an
\* error of one rule does not end the evaluation of the others, and a row that says
\* "executed" is of a redistribution that was carried out.
ExecutionsAreRecorded ==
    \A e \in AcceptedEvents :
        /\ evaluation[e] = "ended" => loaded[e] = {}
        /\ \A r \in RuleIds :
              /\ Cardinality({x \in executions : x[1] = r /\ x[2] = e}) <= 1
              /\ <<r, e, "executed">> \in executions => <<r, e>> \in driven
              /\ <<r, e>> \in driven /\ evaluation[e] \in {"loop", "ended"} =>
                    \/ <<r, e>> \in forgone
                    \/ \E x \in executions : x[1] = r /\ x[2] = e

\* The rulebook stays within its cap, and what its rules did is on record
\* (create_automation_rule, evaluate_and_execute).
RulesAreKept == RulesWithinCap /\ ExecutionsAreRecorded
=============================================================================
