---------------------------- MODULE PolicyIntake ----------------------------
(***************************************************************************)
(* Sentinel's F-008 policy intake for one model policy, and the decision   *)
(* cache it invalidates (Anoryx-Sentinel/src/policy/intake.py,             *)
(* persistence/repositories/policy_repository.py, policy/eval_cache.py,    *)
(* gateway/router/selection.py).                                           *)
(*                                                                         *)
(* Each intake is one READ COMMITTED transaction, modelled statement by    *)
(* statement.  The session does not autoflush, so both rows are written by *)
(* the one flush() of upsert_policy, which handles the mappers in the      *)
(* order of their class names: the policies row (and its lock) first, the  *)
(* policy_versions row (and its trigger) second.                           *)
(***************************************************************************)
EXTENDS Naturals, FiniteSets

CONSTANTS
    Intakes,        \* concurrent POST /admin/policies/intake requests
    Readers,        \* concurrent gateway requests that evaluate model policies
    MaxVersion,     \* records carry policy_version 1..MaxVersion
    MaxEpoch,       \* bound on the tenant's cache version counter
    Nobody          \* not an intake: the row is unlocked

ASSUME IntakeAssumption ==
    /\ MaxVersion \in Nat
    /\ MaxEpoch \in Nat
    /\ Nobody \notin Intakes

Versions == 1..MaxVersion
Epochs == 0..MaxEpoch

\* A decision is represented by the policy version it was computed from (0: no
\* policy stored); Miss is an absent cache entry.
Decisions == 0..MaxVersion
Miss == MaxVersion + 1

VARIABLES
    versions,   \* committed policy_versions
    current,    \* committed policies.current_version, 0 when there is no row
    accepts,    \* accepts[v]: how often version v was answered 200 Accepted
    pc,         \* pc[i]: next statement of intake i
    ver,        \* ver[i]: the policy_version of the record of intake i
    sawRow,     \* sawRow[i]: SELECT policies found a row
    lock,       \* the intake with an uncommitted write of the policies row
    epoch,      \* sentinel:polcache:v:<tenant>
    cache,      \* cache[n]: the decision cached under epoch n, or Miss
    silent,     \* versions whose invalidation Redis did not get
    rpc,        \* rpc[r]: next step of gateway request r
    repoch,     \* repoch[r]: the version get_cached_decision works under
    decision    \* decision[r]: the decision request r acts on

store == <<versions, current, accepts>>
intake == <<pc, ver, sawRow, lock>>
caching == <<epoch, cache, silent>>
reading == <<rpc, repoch, decision>>
vars == <<store, intake, caching, reading>>

TypeOK ==
    /\ versions \subseteq Versions
    /\ current \in Decisions
    /\ accepts \in [Versions -> Nat]
    /\ pc \in [Intakes -> {"idle", "replay", "select", "write", "insert",
                           "invalidate", "commit"}]
    /\ ver \in [Intakes -> Versions \cup {0}]
    /\ sawRow \in [Intakes -> BOOLEAN]
    /\ lock \in Intakes \cup {Nobody}
    /\ epoch \in Epochs
    /\ cache \in [Epochs -> Decisions \cup {Miss}]
    /\ silent \subseteq Versions
    /\ rpc \in [Readers -> {"idle", "lookup", "evaluate", "store"}]
    /\ repoch \in [Readers -> Epochs]
    /\ decision \in [Readers -> Decisions]

Init ==
    /\ versions = {}
    /\ current = 0
    /\ accepts = [v \in Versions |-> 0]
    /\ pc = [i \in Intakes |-> "idle"]
    /\ ver = [i \in Intakes |-> 0]
    /\ sawRow = [i \in Intakes |-> FALSE]
    /\ lock = Nobody
    /\ epoch = 0
    /\ cache = [n \in Epochs |-> Miss]
    /\ silent = {}
    /\ rpc = [r \in Readers |-> "idle"]
    /\ repoch = [r \in Readers |-> 0]
    /\ decision = [r \in Readers |-> 0]

-----------------------------------------------------------------------------
(* Intake *)

\* get_max_version, upsert_policy's own check and the 0004 trigger all compare
\* with the committed versions.
Replayed(v) == \E w \in versions : v <= w

\* The request is answered and its transaction is over.
End(i) ==
    /\ pc' = [pc EXCEPT ![i] = "idle"]
    /\ ver' = [ver EXCEPT ![i] = 0]
    /\ sawRow' = [sawRow EXCEPT ![i] = FALSE]
    /\ lock' = IF lock = i THEN Nobody ELSE lock

\* A record that passes schema, signature, scope and content hash.  (One that
\* does not is audited and rejected without touching any of this state.)
Receive(i, v) ==
    /\ pc[i] = "idle"
    /\ ver' = [ver EXCEPT ![i] = v]
    /\ pc' = [pc EXCEPT ![i] = "replay"]
    /\ UNCHANGED <<store, sawRow, lock, caching, reading>>

\* Step 6 of _run_intake, and the same comparison at the start of upsert_policy:
\* a version that is not newer is RejectedReplay (409) or, when a newer one has
\* committed between the two, PolicyMonotonicityError (500).
CheckReplay(i) ==
    /\ pc[i] = "replay"
    /\ \/ /\ Replayed(ver[i])
          /\ End(i)
       \/ /\ ~Replayed(ver[i])
          /\ pc' = [pc EXCEPT ![i] = "select"]
          /\ UNCHANGED <<ver, sawRow, lock>>
    /\ UNCHANGED <<store, caching, reading>>

\* SELECT of the policies row decides between UPDATE and INSERT.
SelectRow(i) ==
    /\ pc[i] = "select"
    /\ sawRow' = [sawRow EXCEPT ![i] = current # 0]
    /\ pc' = [pc EXCEPT ![i] = "write"]
    /\ UNCHANGED <<store, ver, lock, caching, reading>>

\* flush(), first statement: UPDATE of the policies row, or INSERT when none was
\* seen.  Both wait for a transaction that has written the row; an INSERT that
\* then finds the row committed fails on the primary key (500).
WriteRow(i) ==
    /\ pc[i] = "write"
    /\ lock = Nobody
    /\ \/ /\ sawRow[i] \/ current = 0
          /\ lock' = i
          /\ pc' = [pc EXCEPT ![i] = "insert"]
          /\ UNCHANGED <<ver, sawRow>>
       \/ /\ ~sawRow[i] /\ current # 0
          /\ End(i)
    /\ UNCHANGED <<store, caching, reading>>

\* Mutant of InsertVersion: no trigger and no unique key on policy_versions.
MutInsertUnchecked(i) ==
    /\ pc[i] = "insert"
    /\ pc' = [pc EXCEPT ![i] = "invalidate"]
    /\ UNCHANGED <<store, ver, sawRow, lock, caching, reading>>

\* Mutant of InsertVersion: the unique key alone, without the trigger.
MutInsertUniqueOnly(i) ==
    /\ pc[i] = "insert"
    /\ ver[i] \notin versions
    /\ pc' = [pc EXCEPT ![i] = "invalidate"]
    /\ UNCHANGED <<store, ver, sawRow, lock, caching, reading>>

\* flush(), second statement: INSERT of the version row.  The trigger compares
\* with what is committed now, after the wait for the row lock; a refusal raises
\* and rolls the transaction back (500).
InsertVersion(i) ==
    /\ pc[i] = "insert"
    /\ \/ /\ Replayed(ver[i])
          /\ End(i)
       \/ /\ ~Replayed(ver[i])
          /\ pc' = [pc EXCEPT ![i] = "invalidate"]
          /\ UNCHANGED <<ver, sawRow, lock>>
    /\ UNCHANGED <<store, caching, reading>>

\* eval_cache.invalidate_tenant, called before the transaction commits.  It is
\* best effort: a Redis failure is swallowed.
InvalidateTenant(i) ==
    /\ pc[i] = "invalidate"
    /\ \/ /\ epoch < MaxEpoch
          /\ epoch' = epoch + 1
          /\ silent' = silent \ {ver[i]}
       \/ /\ silent' = silent \cup {ver[i]}
          /\ UNCHANGED epoch
    /\ pc' = [pc EXCEPT ![i] = "commit"]
    /\ UNCHANGED <<store, ver, sawRow, lock, cache, reading>>

\* The policy, its version row and the audit event become visible together.
Commit(i) ==
    /\ pc[i] = "commit"
    /\ versions' = versions \cup {ver[i]}
    /\ current' = ver[i]
    /\ accepts' = [accepts EXCEPT ![ver[i]] = @ + 1]
    /\ End(i)
    /\ UNCHANGED <<caching, reading>>

\* Any other exception before the commit (the audit append, the connection, the
\* worker): everything is rolled back, the cache epoch is not.
Abort(i) ==
    /\ pc[i] # "idle"
    /\ End(i)
    /\ UNCHANGED <<store, caching, reading>>

-----------------------------------------------------------------------------
(* Gateway requests *)

\* get_cached_decision, first round trip: the tenant's version, which stands for
\* 0 when the call fails; a failure is a miss.
LookupVersion(r) ==
    /\ rpc[r] = "idle"
    /\ \/ /\ repoch' = [repoch EXCEPT ![r] = epoch]
          /\ rpc' = [rpc EXCEPT ![r] = "lookup"]
       \/ /\ repoch' = [repoch EXCEPT ![r] = 0]
          /\ rpc' = [rpc EXCEPT ![r] = "evaluate"]
    /\ UNCHANGED <<store, intake, caching, decision>>

\* Second round trip: a hit is acted on, a miss is evaluated against the DB.
LookupDecision(r) ==
    /\ rpc[r] = "lookup"
    /\ \/ /\ cache[repoch[r]] # Miss
          /\ decision' = [decision EXCEPT ![r] = cache[repoch[r]]]
          /\ rpc' = [rpc EXCEPT ![r] = "idle"]
          /\ UNCHANGED repoch
       \/ /\ cache[repoch[r]] = Miss
          /\ rpc' = [rpc EXCEPT ![r] = "evaluate"]
          /\ UNCHANGED <<decision, repoch>>
       \/ /\ repoch' = [repoch EXCEPT ![r] = 0]
          /\ rpc' = [rpc EXCEPT ![r] = "evaluate"]
          /\ UNCHANGED decision
    /\ UNCHANGED <<store, intake, caching>>

\* evaluate_model_policies reads the committed policy row.
EvaluateModelPolicies(r) ==
    /\ rpc[r] = "evaluate"
    /\ decision' = [decision EXCEPT ![r] = current]
    /\ rpc' = [rpc EXCEPT ![r] = "store"]
    /\ UNCHANGED <<store, intake, caching, repoch>>

\* Mutant of SetCachedDecision: the entry goes under the present epoch.
MutSetUnderPresentEpoch(r) ==
    /\ rpc[r] = "store"
    /\ cache' = [cache EXCEPT ![epoch] = decision[r]]
    /\ rpc' = [rpc EXCEPT ![r] = "idle"]
    /\ UNCHANGED <<store, intake, epoch, silent, repoch, decision>>

\* set_cached_decision writes under the version the lookup returned; a failure,
\* or a TTL of 0, writes nothing.
SetCachedDecision(r) ==
    /\ rpc[r] = "store"
    /\ \/ cache' = [cache EXCEPT ![repoch[r]] = decision[r]]
       \/ UNCHANGED cache
    /\ rpc' = [rpc EXCEPT ![r] = "idle"]
    /\ UNCHANGED <<store, intake, epoch, silent, repoch, decision>>

\* The TTL of an entry runs out.
Expire(n) ==
    /\ cache[n] # Miss
    /\ cache' = [cache EXCEPT ![n] = Miss]
    /\ UNCHANGED <<store, intake, epoch, silent, reading>>

Next ==
    \/ \E i \in Intakes :
          \/ \E v \in Versions : Receive(i, v)
          \/ CheckReplay(i)
          \/ SelectRow(i)
          \/ WriteRow(i)
          \/ InsertVersion(i)
          \/ InvalidateTenant(i)
          \/ Commit(i)
          \/ Abort(i)
    \/ \E r \in Readers :
          \/ LookupVersion(r)
          \/ LookupDecision(r)
          \/ EvaluateModelPolicies(r)
          \/ SetCachedDecision(r)
    \/ \E n \in Epochs : Expire(n)

Spec == Init /\ [][Next]_vars

-----------------------------------------------------------------------------
(* Properties *)

\* However often and however concurrently a version is delivered, it is answered
\* 200 at most once, and exactly the versions so answered are in policy_versions.
AcceptedOnce ==
    \A v \in Versions : accepts[v] = IF v \in versions THEN 1 ELSE 0

\* The policies row is the "current (latest) policy record": a delayed older
\* version never overwrites a newer one, although upsert_policy writes the row
\* unconditionally and checks the version before it waits for the row lock.
CurrentIsNewest ==
    /\ \A v \in versions : v <= current
    /\ versions # {} => current \in versions

\* The concurrent intake implements the atomic register PolicyRegister.
Register == INSTANCE PolicyRegister
                WITH Version <- Versions, accepted <- versions, active <- current

RefinesRegister == Register!Spec

\* The read-miss-evaluate-store sequence of a slow request never brings a decision
\* back from behind the last accepted write but one: the entry is stored under the
\* version its lookup saw, and one intake at a time is between its INCR and its
\* commit.  Writes whose INCR failed are left to the TTL.
CacheAtMostOneBehind ==
    cache[epoch] # Miss =>
        Cardinality({v \in versions \ silent : cache[epoch] < v}) <= 1

\* With no intake in flight and no INCR lost, a decision found in the cache is the
\* one the stored policy gives: an accepted write "orphans every previously-cached
\* decision" (eval_cache.py), the TTL being a backstop only.
CacheIsFresh ==
    (\A i \in Intakes : pc[i] = "idle") /\ silent = {} =>
        cache[epoch] \in {Miss, current}

=============================================================================
