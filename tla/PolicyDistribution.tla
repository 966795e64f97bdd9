------------------------- MODULE PolicyDistribution -------------------------
(***************************************************************************)
(* The Orchestrator's policy distribution (O-004): POST                    *)
(* /v1/policies/distributions persists a distribution and its targets,     *)
(* answers 202 and leaves the fan-out to a background task of the process  *)
(* (distribution/router.py, distribution/engine.py).  The hash-chained     *)
(* audit links it also writes are left out.                                *)
(*                                                                         *)
(* The distributions carry versions of one policy_id.  Each Sentinel is    *)
(* the register PolicyRegister, which PolicyIntake is proved to implement. *)
(***************************************************************************)
EXTENDS Naturals, FiniteSets

CONSTANTS
    Dists,              \* distribution_ids
    Sentinels,          \* sentinel_ids a request may name
    Known,              \* those with a base URL in settings.targets
    PolicyVersions,     \* the policy versions submitted
    MaxPosts            \* settings.max_attempts

ASSUME DistributionAssumption ==
    /\ Known \subseteq Sentinels
    /\ IsFiniteSet(Sentinels)
    /\ PolicyVersions \subseteq Nat \ {0}
    /\ MaxPosts \in Nat \ {0}

VARIABLES
    dver,       \* dver[x]: policy_version of distribution x, 0 before it exists
    dstate,     \* dstate[x]: policy_distributions.state
    target,     \* target[x][s]: policy_distribution_targets.state, or "none"
    task,       \* task[x]: where the background task of x is
    work,       \* work[x]: targets the task has still to serve
    at,         \* at[x]: the set with the target being served
    posts,      \* posts[x]: POSTs made to it
    verdict,    \* verdict[x]: the state to record for it, "failed" until a 2xx
    live,       \* live[s]: versions Sentinel s has accepted
    active      \* active[s]: the version Sentinel s enforces

tables == <<dver, dstate, target>>
tasks == <<task, work, at, posts, verdict>>
sentinels == <<live, active>>
distVars == <<tables, tasks, sentinels>>

Settled == {"distributed", "failed"}

DistTypeOK ==
    /\ dver \in [Dists -> PolicyVersions \cup {0}]
    /\ dstate \in [Dists -> Settled \cup {"none", "pending", "partial"}]
    /\ target \in [Dists -> [Sentinels -> Settled \cup {"none", "pending"}]]
    /\ task \in [Dists -> {"none", "scheduled", "fanout", "post", "record", "done",
                           "lost"}]
    /\ work \in [Dists -> SUBSET Sentinels]
    /\ at \in [Dists -> SUBSET Sentinels]
    /\ posts \in [Dists -> 0..MaxPosts]
    /\ verdict \in [Dists -> Settled]
    /\ live \in [Sentinels -> SUBSET PolicyVersions]
    /\ active \in [Sentinels -> PolicyVersions \cup {0}]

DistInit ==
    /\ dver = [x \in Dists |-> 0]
    /\ dstate = [x \in Dists |-> "none"]
    /\ target = [x \in Dists |-> [s \in Sentinels |-> "none"]]
    /\ task = [x \in Dists |-> "none"]
    /\ work = [x \in Dists |-> {}]
    /\ at = [x \in Dists |-> {}]
    /\ posts = [x \in Dists |-> 0]
    /\ verdict = [x \in Dists |-> "failed"]
    /\ live = [s \in Sentinels |-> {}]
    /\ active = [s \in Sentinels |-> 0]

Targets(x) == {s \in Sentinels : target[x][s] # "none"}

\* A fresh distribution_id.
NewIds == LET unused == {x \in Dists : dstate[x] = "none"}
          IN  IF unused = {} THEN {} ELSE {CHOOSE x \in unused : TRUE}

-----------------------------------------------------------------------------
(* The submit endpoint *)

\* Mutant of submit_distribution: the task is not scheduled.
MutSubmitWithoutTask(x, v, T, ok) ==
    /\ dstate[x] = "none"
    /\ dver' = [dver EXCEPT ![x] = v]
    /\ dstate' = [dstate EXCEPT ![x] = "pending"]
    /\ target' = [target EXCEPT ![x] =
                    [s \in Sentinels |-> IF s \in T THEN "pending" ELSE "none"]]
    /\ UNCHANGED <<tasks, sentinels>>

\* A valid request for version v and targets T is persisted as pending.  The audit
\* link and the background task follow only if the privileged session works (ok);
\* otherwise the answer is a 503 and the distribution stays pending.
submit_distribution(x, v, T, ok) ==
    /\ dstate[x] = "none"
    /\ dver' = [dver EXCEPT ![x] = v]
    /\ dstate' = [dstate EXCEPT ![x] = "pending"]
    /\ target' = [target EXCEPT ![x] =
                    [s \in Sentinels |-> IF s \in T THEN "pending" ELSE "none"]]
    /\ task' = [task EXCEPT ![x] = IF ok THEN "scheduled" ELSE "lost"]
    /\ UNCHANGED <<work, at, posts, verdict, sentinels>>

-----------------------------------------------------------------------------
(* The background task: drive_distribution *)

\* The task reads the distribution and its targets.
drive_distribution(x) ==
    /\ task[x] = "scheduled"
    /\ task' = [task EXCEPT ![x] = "fanout"]
    /\ work' = [work EXCEPT ![x] = Targets(x)]
    /\ UNCHANGED <<tables, at, posts, verdict, sentinels>>

\* Mutant of NextTarget: the list of targets is not consumed.
MutNextTargetAgain(x, s) ==
    /\ task[x] = "fanout"
    /\ s \in work[x]
    /\ at' = [at EXCEPT ![x] = {s}]
    /\ task' = [task EXCEPT ![x] = IF s \in Known THEN "post" ELSE "record"]
    /\ UNCHANGED <<tables, work, posts, verdict, sentinels>>

\* _distribute_to_target begins: an id without URL fails without a POST.
NextTarget(x, s) ==
    /\ task[x] = "fanout"
    /\ s \in work[x]
    /\ work' = [work EXCEPT ![x] = @ \ {s}]
    /\ at' = [at EXCEPT ![x] = {s}]
    /\ task' = [task EXCEPT ![x] = IF s \in Known THEN "post" ELSE "record"]
    /\ UNCHANGED <<tables, posts, verdict, sentinels>>

\* A 2xx, or a 4xx other than 429, ends the loop.
Answered(x, v) ==
    /\ task[x] = "post"
    /\ posts' = [posts EXCEPT ![x] = @ + 1]
    /\ verdict' = [verdict EXCEPT ![x] = v]
    /\ task' = [task EXCEPT ![x] = "record"]
    /\ UNCHANGED <<tables, work, at>>

\* A timeout, a network error, a 429 or a 5xx: again, up to max_attempts POSTs.
Transient(x) ==
    /\ task[x] = "post"
    /\ posts' = [posts EXCEPT ![x] = @ + 1]
    /\ task' = [task EXCEPT ![x] = IF posts[x] + 1 < MaxPosts THEN "post" ELSE "record"]
    /\ UNCHANGED <<tables, work, at, verdict>>

\* Mutant of IntakeNewer: a Sentinel without replay protection.
MutIntakeAny(s, v) == v > 0

\* policy_version must be above every version Sentinel s has.
IntakeNewer(s, v) == \A w \in live[s] : w < v

\* Sentinel s takes version v: PolicyRegister's Accept.
IntakeAccept(s, v) ==
    /\ IntakeNewer(s, v)
    /\ live' = [live EXCEPT ![s] = @ \cup {v}]
    /\ active' = [active EXCEPT ![s] = v]

\* One POST of the signed record and what became of it: accepted (200); refused
\* (409 replay, or another 4xx); accepted but the answer lost; never processed.
Post(x, s) ==
    /\ s \in at[x]
    /\ \/ Answered(x, "distributed") /\ IntakeAccept(s, dver[x])
       \/ Answered(x, "failed") /\ UNCHANGED sentinels
       \/ Transient(x) /\ IntakeAccept(s, dver[x])
       \/ Transient(x) /\ UNCHANGED sentinels

\* _distribute_target_success and _fail_target commit the state of the target.  A
\* lost connection leaves it pending; the fan-out goes on.
RecordTarget(x, s) ==
    /\ task[x] = "record"
    /\ s \in at[x]
    /\ \/ target' = [target EXCEPT ![x][s] = verdict[x]]
       \/ UNCHANGED target
    /\ at' = [at EXCEPT ![x] = {}]
    /\ posts' = [posts EXCEPT ![x] = 0]
    /\ verdict' = [verdict EXCEPT ![x] = "failed"]
    /\ task' = [task EXCEPT ![x] = "fanout"]
    /\ UNCHANGED <<dver, dstate, work, sentinels>>

\* Mutant of _aggregate_state: targets that were left pending are overlooked.
MutAggregateSettledOnly(x) ==
    LET done == {s \in Targets(x) : target[x][s] = "distributed"}
        settled == {s \in Targets(x) : target[x][s] # "pending"}
    IN  IF done # {} /\ done = settled THEN "distributed"
        ELSE IF done # {} THEN "partial" ELSE "failed"

\* The state of the parent, from the states of its targets as re-read.
_aggregate_state(x) ==
    LET done == {s \in Targets(x) : target[x][s] = "distributed"}
    IN  IF done # {} /\ done = Targets(x) THEN "distributed"
        ELSE IF done # {} THEN "partial" ELSE "failed"

\* The end of drive_distribution.
Aggregate(x) ==
    /\ task[x] = "fanout"
    /\ work[x] = {}
    /\ dstate' = [dstate EXCEPT ![x] = _aggregate_state(x)]
    /\ task' = [task EXCEPT ![x] = "done"]
    /\ UNCHANGED <<dver, target, work, at, posts, verdict, sentinels>>

\* The process stops, or the task raises: nothing resumes it.
LoseTask(x) ==
    /\ task[x] \in {"scheduled", "fanout", "post", "record"}
    /\ task' = [task EXCEPT ![x] = "lost"]
    /\ work' = [work EXCEPT ![x] = {}]
    /\ at' = [at EXCEPT ![x] = {}]
    /\ posts' = [posts EXCEPT ![x] = 0]
    /\ verdict' = [verdict EXCEPT ![x] = "failed"]
    /\ UNCHANGED <<tables, sentinels>>

TaskStep(x) ==
    \/ drive_distribution(x)
    \/ \E s \in Sentinels : NextTarget(x, s) \/ Post(x, s) \/ RecordTarget(x, s)
    \/ Aggregate(x)

DistNext ==
    \/ \E x \in NewIds, v \in PolicyVersions, T \in SUBSET Sentinels, ok \in BOOLEAN :
          submit_distribution(x, v, T, ok)
    \/ \E x \in Dists : TaskStep(x) \/ LoseTask(x)

DistSpec == DistInit /\ [][DistNext]_distVars

-----------------------------------------------------------------------------
(* Properties *)

\* "Never a false success": a target is reported distributed only when its Sentinel
\* accepted this version, and then enforces it or a newer one however deliveries
\* of other versions interleave; a distribution only when all its targets are.
NeverFalseSuccess ==
    \A x \in Dists :
        /\ \A s \in Sentinels : target[x][s] = "distributed" =>
              dver[x] \in live[s] /\ dver[x] <= active[s]
        /\ dstate[x] = "distributed" =>
              Targets(x) # {} /\ \A s \in Targets(x) : dver[x] \in live[s]

\* A step keeps what was reported of x: the state of a settled target, and both
\* states once the fan-out has ended.
ReportKept(x) ==
    /\ \A s \in Sentinels : target[x][s] \in Settled => target'[x][s] = target[x][s]
    /\ dstate[x] \notin {"none", "pending"} =>
          dstate'[x] = dstate[x] /\ target'[x] = target[x]

\* Every fan-out ends: its distribution reaches a reported state, or its process is
\* gone.  (Finitely many distributions are driven finitely often.)
FanoutEnds ==
    <>[](\A x \in Dists :
            \/ task[x] \in {"none", "lost"}
            \/ task[x] = "done" /\ dstate[x] \in {"distributed", "partial", "failed"})

=============================================================================
