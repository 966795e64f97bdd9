------------------------------ MODULE MCDelivery ------------------------------
(***************************************************************************)
(* The way of a decision for TLC: Delta's outbox and its drainers, the     *)
(* Orchestrator's fan-out, the two joined at their HTTP call, the other    *)
(* operations that start a fan-out, and the kill-switch that feeds the     *)
(* same kind of outbox.  Every behaviour runs one of these, named by unit. *)
(***************************************************************************)
EXTENDS PolicyDelivery, PolicyOperations, KillSwitch

VARIABLE unit

deliveryGroupVars == <<deliveryVars, operationVars, vars, unit>>

\* Every scope belongs to the one agent of the instance.
OneAgent == [s \in Scopes |-> AnyAgent]

\* Bounds of single units.
AnyDrainer == CHOOSE d \in Drainers : TRUE
FewDists == \E x, y \in Dists : x # y /\ dstate[x] = "none" /\ dstate[y] = "none"

MCInit ==
    /\ unit \in {"outbox", "fanout", "delivery", "operations", "kill"}
    /\ OutboxInit /\ OperationsInit /\ Init

Outbox == unit = "outbox" /\ OutboxNext /\ UNCHANGED <<distVars, operationVars, vars>>

Fanout ==
    /\ unit = "fanout"
    /\ \/ \E x \in NewIds, v \in PolicyVersions, T \in SUBSET Sentinels, ok \in BOOLEAN :
             FewDists /\ submit_distribution(x, v, T, ok)
       \/ \E x \in Dists : TaskStep(x) \/ LoseTask(x)
    /\ UNCHANGED <<outboxVars, operationVars, vars>>

\* One drainer, two distributions.
Delivery ==
    /\ unit = "delivery"
    /\ DeliveryNext
    /\ \A d \in Drainers : drainAt'[d] # "idle" => d = AnyDrainer
    /\ \E x \in Dists : dstate'[x] = "none"
    /\ UNCHANGED <<operationVars, vars>>

\* Delta's versions come in order, and one fan-out runs at a time.
Operations ==
    /\ unit = "operations"
    /\ OperationsNext
    /\ \A k \in 1..Len(history') : history'[k] \in rollbacks' \/ dver'[history'[k]] = k
    /\ Cardinality({x \in Dists : task'[x] \notin {"none", "done", "lost"}}) <= 1
    /\ UNCHANGED <<outboxVars, vars>>

Kill == unit = "kill" /\ Next /\ UNCHANGED <<deliveryVars, operationVars>>

\* With nothing in progress a component may stay as it is, so that a deadlock is
\* a call, a drain or a task that can never end.
Rest ==
    /\ \A d \in Drainers : drainAt[d] = "idle"
    /\ \A x \in Dists : task[x] \in {"none", "done", "lost"}
    /\ \A t \in Txns : pc[t] = "idle"
    /\ UNCHANGED <<deliveryVars, operationVars, vars>>

MCNext ==
    /\ UNCHANGED unit
    /\ Outbox \/ Fanout \/ Delivery \/ Operations \/ Kill \/ Rest

DecisionsSpec == MCInit /\ [][MCNext]_deliveryGroupVars

(***************************************************************************)
(* Time passes; a request that is draining goes on, since its POST has a   *)
(* timeout, and usage events keep arriving, since only they start a drain; *)
(* a task of the fan-out goes on, since its POSTs have timeouts too.       *)
(***************************************************************************)
MCSpec ==
    /\ DecisionsSpec
    /\ \A r \in Rows :
          WF_deliveryGroupVars(BackoffEnds(r) /\ UNCHANGED <<distVars, operationVars, vars, unit>>)
    /\ \A d \in Drainers :
          WF_deliveryGroupVars(/\ unit = "outbox"
                               /\ due_outbox_ids(d) \/ DrainStep(d) \/ Publish(d)
                               /\ UNCHANGED <<distVars, operationVars, vars, unit>>)
    /\ WF_deliveryGroupVars(/\ unit = "delivery"
                            /\ Drain(AnyDrainer) \/ Deliver(AnyDrainer)
                            /\ \E x \in Dists : dstate'[x] = "none"
                            /\ UNCHANGED <<operationVars, vars, unit>>)
    /\ \A x \in Dists :
          WF_deliveryGroupVars(TaskStep(x) /\ UNCHANGED <<outboxVars, operationVars, vars, unit>>)

-----------------------------------------------------------------------------
(* Properties *)

\* What was reported stays: a settled outbox row is not touched again, and no later
\* step changes the state of a settled target, or of a target or distribution whose
\* fan-out has ended, as long as nobody drives the distribution again (_deliver_one,
\* drive_distribution).
ReportsAreFinal ==
    /\ SettledIsFinal
    /\ [][unit # "operations" => \A x \in Dists : ReportKept(x)]_deliveryGroupVars

\* Nothing is retried or kept waiting for ever: every decision leaves the outbox and
\* every fan-out ends, whatever is lost on the way (drain_tenant, drive_distribution).
DecisionsSettle == EveryDecisionSettles /\ FanoutEnds

\* The Sentinels enforce only decisions Delta committed, and no retry of an older
\* decision that arrives late displaces a newer one that O-004 reported.
NoStaleEnforcement == unit = "delivery" => \A s \in Sentinels : EnforcesADecision(s)

\* A decision that Delta shows as distributed is enforced by every Sentinel in the
\* end (it, or a newer one), unless O-004 reports that target as not distributed or
\* lost its task: no decision vanishes between the two outboxes.
DistributedIsEnforced ==
    <>[](unit = "delivery" =>
            \A r \in Rows, s \in Known :
                state[r] = "distributed" => active[s] >= r \/ Undelivered(r, s))
=============================================================================
