-------------------------- MODULE PolicyOperations --------------------------
(***************************************************************************)
(* What else starts a distribution of the Orchestrator: the rollback of    *)
(* the command center (command_center/router.py), which submits the record *)
(* of an earlier distribution again, and an automation rule                *)
(* (automation/engine.py), which drives an existing distribution again.    *)
(* A distribution is driven by one task at a time.                         *)
(***************************************************************************)
EXTENDS PolicyDistribution, Sequences

CONSTANTS
    Operators,      \* concurrent rollback requests
    MaxRedrives     \* bound on the executions of automation rules

ASSUME OperationsAssumption == MaxRedrives \in Nat

VARIABLES
    history,        \* the distributions of the policy, by created_at
    undo,           \* undo[o]: the <<previous, current>> a rollback has read, or <<>>
    rollbacks,      \* the distributions made by rollbacks
    redrives        \* number of automation executions

operationVars == <<history, undo, rollbacks, redrives>>

OperationsInit ==
    /\ DistInit
    /\ history = <<>>
    /\ undo = [o \in Operators |-> <<>>]
    /\ rollbacks = {}
    /\ redrives = 0

Submit(x, v, T, ok) ==
    /\ submit_distribution(x, v, T, ok)
    /\ history' = Append(history, x)
    /\ UNCHANGED <<undo, rollbacks, redrives>>

\* The two newest distributions of the policy; with fewer than two, a 409.
list_recent_distributions_for_policy(o) ==
    /\ undo[o] = <<>>
    /\ Len(history) >= 2
    /\ undo' = [undo EXCEPT ![o] = SubSeq(history, Len(history) - 1, Len(history))]
    /\ UNCHANGED <<distVars, history, rollbacks, redrives>>

\* The previous record, byte for byte, becomes a distribution of its own to the
\* targets the previous one had.
rollback_policy_distribution(o, x, ok) ==
    /\ undo[o] # <<>>
    /\ submit_distribution(x, dver[undo[o][1]], Targets(undo[o][1]), ok)
    /\ history' = Append(history, x)
    /\ rollbacks' = rollbacks \cup {x}
    /\ undo' = [undo EXCEPT ![o] = <<>>]
    /\ UNCHANGED redrives

\* redistribute_policy drives all targets of x again, settled or not.
_execute_rule(x) ==
    /\ redrives < MaxRedrives
    /\ task[x] \in {"done", "lost"}
    /\ task' = [task EXCEPT ![x] = "scheduled"]
    /\ redrives' = redrives + 1
    /\ UNCHANGED <<tables, work, at, posts, verdict, sentinels, history, undo, rollbacks>>

OperationsNext ==
    \/ \E x \in NewIds :
          \/ \E v \in PolicyVersions, T \in (SUBSET Known) \ {{}} : Submit(x, v, T, TRUE)
          \/ \E o \in Operators, ok \in BOOLEAN : rollback_policy_distribution(o, x, ok)
    \/ \E x \in Dists :
          \/ _execute_rule(x)
          \/ (TaskStep(x) \/ LoseTask(x)) /\ UNCHANGED operationVars
    \/ \E o \in Operators : list_recent_distributions_for_policy(o)

OperationsSpec == OperationsInit /\ [][OperationsNext]_<<distVars, operationVars>>

-----------------------------------------------------------------------------
(* Properties *)

\* "A rollback ... restore[s] the SECOND-most-recent version": the record it delivers
\* is one the Sentinel can accept.
RollbackIsAccepted ==
    \A x \in rollbacks : task[x] = "post" =>
        \A s \in at[x] : IntakeNewer(s, dver[x])

=============================================================================
