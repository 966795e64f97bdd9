--------------------------- MODULE SentinelProofs ---------------------------
(***************************************************************************)
(* Proofs about Sentinel's policies and limits: PolicyIntake, for any      *)
(* number of concurrent intakes and gateway requests and any versions;     *)
(* ModelPolicy, for any set of stored policies; ModelApproval, for any     *)
(* number of operator calls and requests; RateLimiter, for any number of   *)
(* requests, keys and outages; GatewayRequest, for any chain of providers, *)
(* ceiling, budget, secret and splitting of an answer.                     *)
(*                                                                         *)
(* Intake: whoever is past WriteRow holds the row lock, so there is at     *)
(* most one such intake, and the version it carries was compared with      *)
(* policy_versions while it held the lock.                                 *)
(*                                                                         *)
(* Evaluation: the most specific policy of a non-empty finite set exists   *)
(* because the order of the sort keys is total and transitive.             *)
(*                                                                         *)
(* Approval: the writer of the row holds it to its commit, so the entries  *)
(* of the one call that may still commit are the last of the log.          *)
(*                                                                         *)
(* Limits: what a request paid stays in the sorted set as long as it can   *)
(* matter, so the tier that admits the last payment of a window counts     *)
(* all the others.                                                         *)
(*                                                                         *)
(* One request: what a stream has delivered is what it received, the tail  *)
(* it carries is the end of that text, and the routing trail has one event *)
(* per provider given up.                                                  *)
(***************************************************************************)
EXTENDS PolicyIntake, ModelApproval, RateLimiter, GatewayRequest, FiniteSetTheorems, SequenceTheorems,
        WellFoundedInduction, TLAPS

\* An intake in progress carries a version.
Carries == \A i \in Intakes : pc[i] # "idle" => ver[i] \in Versions

\* From its write of the policies row to its end an intake holds the row lock.
HoldsLock ==
    \A i \in Intakes : pc[i] \in {"insert", "invalidate", "commit"} => lock = i

\* An intake that is past the trigger has a version above every committed one.
PastTrigger ==
    \A i \in Intakes : pc[i] \in {"invalidate", "commit"} => ~Replayed(ver[i])

IndInv == TypeOK /\ Carries /\ HoldsLock /\ PastTrigger

\* The inductive invariant implies what a commit relies on.
LEMMA CommitIsNewer ==
    ASSUME IndInv, NEW i \in Intakes, Commit(i)
    PROVE  /\ ver[i] \in Versions
           /\ \A w \in versions : w < ver[i]
           /\ \A j \in Intakes \ {i} : pc[j] \notin {"insert", "invalidate", "commit"}
<1>1. pc[i] = "commit" BY DEF Commit
<1>2. ver[i] \in Versions BY <1>1 DEF IndInv, Carries
<1>3. \A w \in versions : w < ver[i]
  BY <1>1, <1>2, IntakeAssumption DEF IndInv, PastTrigger, Replayed, TypeOK, Versions
<1>4. \A j \in Intakes \ {i} : pc[j] \notin {"insert", "invalidate", "commit"}
  BY <1>1 DEF IndInv, HoldsLock
<1> QED BY <1>2, <1>3, <1>4

\* No intake is in progress at the start.
LEMMA InitInd == Init => IndInv
  BY IntakeAssumption
  DEF Init, IndInv, TypeOK, Carries, HoldsLock, PastTrigger, Versions, Epochs,
      Decisions, Miss

\* Type correctness of one step.
LEMMA TypeStep == IndInv /\ [Next]_vars => TypeOK'
<1> SUFFICES ASSUME IndInv, [Next]_vars PROVE TypeOK'
  OBVIOUS
<1> USE IntakeAssumption DEF IndInv, TypeOK
<1>1. ASSUME NEW i \in Intakes, NEW v \in Versions, Receive(i, v) PROVE TypeOK'
  BY <1>1 DEF Receive, store, caching, reading
<1>2. ASSUME NEW i \in Intakes, CheckReplay(i) PROVE TypeOK'
  BY <1>2 DEF CheckReplay, End, store, caching, reading
<1>3. ASSUME NEW i \in Intakes, SelectRow(i) PROVE TypeOK'
  BY <1>3 DEF SelectRow, store, caching, reading
<1>4. ASSUME NEW i \in Intakes, WriteRow(i) PROVE TypeOK'
  BY <1>4 DEF WriteRow, End, store, caching, reading
<1>5. ASSUME NEW i \in Intakes, InsertVersion(i) PROVE TypeOK'
  BY <1>5 DEF InsertVersion, End, store, caching, reading
<1>6. ASSUME NEW i \in Intakes, InvalidateTenant(i) PROVE TypeOK'
  <2>1. epoch' \in Epochs BY <1>6 DEF InvalidateTenant, Epochs
  <2>2. ver[i] \in Versions BY <1>6 DEF InvalidateTenant, Carries
  <2>3. silent' \subseteq Versions BY <1>6, <2>2 DEF InvalidateTenant
  <2> QED BY <1>6, <2>1, <2>3 DEF InvalidateTenant, store, reading
<1>7. ASSUME NEW i \in Intakes, Commit(i) PROVE TypeOK'
  <2>1. ver[i] \in Versions BY <1>7, CommitIsNewer
  <2>2. ver[i] \in Decisions BY <2>1 DEF Versions, Decisions
  <2>3. accepts' \in [Versions -> Nat] BY <1>7, <2>1 DEF Commit
  <2>4. versions' \subseteq Versions /\ current' \in Decisions
    BY <1>7, <2>1, <2>2 DEF Commit
  <2> QED BY <1>7, <2>3, <2>4 DEF Commit, End, caching, reading
<1>8. ASSUME NEW i \in Intakes, Abort(i) PROVE TypeOK'
  BY <1>8 DEF Abort, End, store, caching, reading
<1>9. ASSUME NEW r \in Readers, LookupVersion(r) PROVE TypeOK'
  <2>1. 0 \in Epochs BY DEF Epochs
  <2> QED BY <1>9, <2>1 DEF LookupVersion, store, intake, caching
<1>10. ASSUME NEW r \in Readers, LookupDecision(r) PROVE TypeOK'
  <2>1. cache[repoch[r]] # Miss => cache[repoch[r]] \in Decisions OBVIOUS
  <2>2. 0 \in Epochs BY DEF Epochs
  <2> QED BY <1>10, <2>1, <2>2 DEF LookupDecision, store, intake, caching
<1>11. ASSUME NEW r \in Readers, EvaluateModelPolicies(r) PROVE TypeOK'
  BY <1>11 DEF EvaluateModelPolicies, store, intake, caching
<1>12. ASSUME NEW r \in Readers, SetCachedDecision(r) PROVE TypeOK'
  BY <1>12 DEF SetCachedDecision, store, intake
<1>13. ASSUME NEW n \in Epochs, Expire(n) PROVE TypeOK'
  BY <1>13 DEF Expire, store, intake, reading
<1>14. CASE UNCHANGED vars
  BY <1>14 DEF vars, store, intake, caching, reading
<1> QED
  BY <1>1, <1>2, <1>3, <1>4, <1>5, <1>6, <1>7, <1>8, <1>9, <1>10, <1>11, <1>12,
     <1>13, <1>14 DEF Next

\* A step that leaves the intakes alone leaves their invariant alone.
LEMMA FrameStep ==
    ASSUME Carries, HoldsLock, PastTrigger, UNCHANGED <<store, intake>>
    PROVE  Carries' /\ HoldsLock' /\ PastTrigger'
  BY DEF Carries, HoldsLock, PastTrigger, Replayed, store, intake

\* The row lock is held from WriteRow to the end, and the trigger compares under it.
LEMMA LockStep == IndInv /\ [Next]_vars => Carries' /\ HoldsLock' /\ PastTrigger'
<1> SUFFICES ASSUME IndInv, [Next]_vars
             PROVE  Carries' /\ HoldsLock' /\ PastTrigger'
  OBVIOUS
<1> DEFINE Goal == Carries' /\ HoldsLock' /\ PastTrigger'
<1> USE IntakeAssumption DEF IndInv, TypeOK, Carries, HoldsLock, PastTrigger, Replayed
<1>1. ASSUME NEW i \in Intakes, NEW v \in Versions, Receive(i, v) PROVE Goal
  BY <1>1 DEF Receive, store
<1>2. ASSUME NEW i \in Intakes, CheckReplay(i) PROVE Goal
  BY <1>2 DEF CheckReplay, End, store
<1>3. ASSUME NEW i \in Intakes, SelectRow(i) PROVE Goal
  BY <1>3 DEF SelectRow, store
<1>4. ASSUME NEW i \in Intakes, WriteRow(i) PROVE Goal
  BY <1>4 DEF WriteRow, End, store
<1>5. ASSUME NEW i \in Intakes, InsertVersion(i) PROVE Goal
  BY <1>5 DEF InsertVersion, End, store
<1>6. ASSUME NEW i \in Intakes, InvalidateTenant(i) PROVE Goal
  BY <1>6 DEF InvalidateTenant, store
<1>7. ASSUME NEW i \in Intakes, Commit(i) PROVE Goal
  <2>1. \A j \in Intakes \ {i} : pc[j] \notin {"insert", "invalidate", "commit"}
    BY <1>7, CommitIsNewer
  <2> QED BY <1>7, <2>1 DEF Commit, End
<1>8. ASSUME NEW i \in Intakes, Abort(i) PROVE Goal
  BY <1>8 DEF Abort, End, store
<1>9. ASSUME NEW r \in Readers,
             LookupVersion(r) \/ LookupDecision(r) \/ EvaluateModelPolicies(r)
                \/ SetCachedDecision(r)
      PROVE  Goal
  <2>1. UNCHANGED <<store, intake>>
    BY <1>9 DEF LookupVersion, LookupDecision, EvaluateModelPolicies, SetCachedDecision
  <2> QED BY <2>1, FrameStep
<1>10. ASSUME NEW n \in Epochs, Expire(n) PROVE Goal
  <2>1. UNCHANGED <<store, intake>> BY <1>10 DEF Expire
  <2> QED BY <2>1, FrameStep
<1>11. CASE UNCHANGED vars
  <2>1. UNCHANGED <<store, intake>> BY <1>11 DEF vars
  <2> QED BY <2>1, FrameStep
<1> QED
  BY <1>1, <1>2, <1>3, <1>4, <1>5, <1>6, <1>7, <1>8, <1>9, <1>10, <1>11 DEF Next

\* The intake state is typed and the lock discipline holds in every behaviour.
THEOREM IntakeTypeCorrect == Spec => []IndInv
<1>1. IndInv /\ [Next]_vars => IndInv'
  BY TypeStep, LockStep DEF IndInv
<1> QED BY InitInd, <1>1, PTL DEF Spec

-----------------------------------------------------------------------------
(* What the committed tables say *)

\* Every step leaves the tables alone or is the commit of one intake.
LEMMA OnlyCommitWrites ==
    ASSUME [Next]_vars, ~(\E i \in Intakes : Commit(i))
    PROVE  UNCHANGED store
<1>1. \A i \in Intakes :
        /\ \A v \in Versions : Receive(i, v) => UNCHANGED store
        /\ CheckReplay(i) => UNCHANGED store
        /\ SelectRow(i) => UNCHANGED store
        /\ WriteRow(i) => UNCHANGED store
        /\ InsertVersion(i) => UNCHANGED store
        /\ InvalidateTenant(i) => UNCHANGED store
        /\ Abort(i) => UNCHANGED store
  BY DEF Receive, CheckReplay, SelectRow, WriteRow, InsertVersion, InvalidateTenant, Abort
<1>2. \A r \in Readers :
        /\ LookupVersion(r) => UNCHANGED store
        /\ LookupDecision(r) => UNCHANGED store
        /\ EvaluateModelPolicies(r) => UNCHANGED store
        /\ SetCachedDecision(r) => UNCHANGED store
  BY DEF LookupVersion, LookupDecision, EvaluateModelPolicies, SetCachedDecision
<1>3. \A n \in Epochs : Expire(n) => UNCHANGED store
  BY DEF Expire
<1>4. UNCHANGED vars => UNCHANGED store
  BY DEF vars
<1> QED BY <1>1, <1>2, <1>3, <1>4 DEF Next

\* A step of the intake is a step of the register, or leaves it alone.
LEMMA RegisterStep ==
    IndInv /\ [Next]_vars => [Register!Next]_<<versions, current>>
<1> SUFFICES ASSUME IndInv, [Next]_vars
             PROVE  [Register!Next]_<<versions, current>>
  OBVIOUS
<1>1. CASE \E i \in Intakes : Commit(i)
  <2>1. PICK i \in Intakes : Commit(i) BY <1>1
  <2>2. ver[i] \in Versions /\ \A w \in versions : w < ver[i]
    BY <2>1, CommitIsNewer
  <2>3. Register!Accept(ver[i])
    BY <2>1, <2>2 DEF Commit, Register!Accept, Register!Newer
  <2> QED BY <2>2, <2>3 DEF Register!Next
<1>2. CASE ~(\E i \in Intakes : Commit(i))
  BY <1>2, OnlyCommitWrites DEF store
<1> QED BY <1>1, <1>2

\* The statement-level intake, run by any number of concurrent requests that may
\* fail anywhere, implements the atomic version register.
THEOREM IntakeImplementsRegister == Spec => RefinesRegister
<1>1. Init => Register!Init
  BY DEF Init, Register!Init
<1> QED
  BY <1>1, RegisterStep, IntakeTypeCorrect, PTL
  DEF Spec, RefinesRegister, Register!Spec

\* No version is ever answered 200 twice, and the policies row always holds the
\* newest accepted version: upsert_policy's unconditional write never rolls a
\* policy back, because the trigger runs after the wait for the row lock.
THEOREM IntakeNeverRollsBack == Spec => [](AcceptedOnce /\ CurrentIsNewest)
<1> DEFINE Tables == AcceptedOnce /\ CurrentIsNewest
<1>1. Init => Tables
  BY DEF Init, AcceptedOnce, CurrentIsNewest, Versions
<1>2. Tables /\ IndInv /\ [Next]_vars => Tables'
  <2> SUFFICES ASSUME Tables, IndInv, [Next]_vars PROVE Tables'
    OBVIOUS
  <2>1. CASE \E i \in Intakes : Commit(i)
    <3>1. PICK i \in Intakes : Commit(i) BY <2>1
    <3>2. ver[i] \in Versions /\ \A w \in versions : w < ver[i]
      BY <3>1, CommitIsNewer
    <3>3. /\ versions' = versions \cup {ver[i]}
          /\ current' = ver[i]
          /\ accepts' = [accepts EXCEPT ![ver[i]] = @ + 1]
      BY <3>1 DEF Commit
    <3>4. versions \subseteq Versions /\ accepts \in [Versions -> Nat]
      BY DEF IndInv, TypeOK
    <3>5. \A v \in Versions : v \in Nat
      BY DEF Versions
    <3>6. ver[i] \notin versions
      BY <3>2, <3>5
    <3>7. AcceptedOnce'
      <4> SUFFICES ASSUME NEW v \in Versions
                   PROVE  accepts'[v] = IF v \in versions' THEN 1 ELSE 0
        BY DEF AcceptedOnce
      <4>1. accepts[v] = IF v \in versions THEN 1 ELSE 0
        BY DEF AcceptedOnce
      <4>2. CASE v = ver[i]
        BY <3>2, <3>3, <3>4, <3>6, <4>1, <4>2
      <4>3. CASE v # ver[i]
        BY <3>2, <3>3, <3>4, <4>1, <4>3
      <4> QED BY <4>2, <4>3
    <3>8. CurrentIsNewest'
      BY <3>2, <3>3, <3>4, <3>5 DEF CurrentIsNewest
    <3> QED BY <3>7, <3>8
  <2>2. CASE ~(\E i \in Intakes : Commit(i))
    BY <2>2, OnlyCommitWrites DEF store, AcceptedOnce, CurrentIsNewest
  <2> QED BY <2>1, <2>2
<1> QED BY <1>1, <1>2, IntakeTypeCorrect, PTL DEF Spec


-----------------------------------------------------------------------------
(* The decision cache *)

\* The intake between its successful INCR and its commit.
Announced == {ver[i] : i \in {j \in Intakes : pc[j] = "commit" /\ ver[j] \notin silent}}

\* The versions that a decision d, cached under the present epoch, is or will be behind.
Behind(d) == {v \in (versions \ silent) \cup Announced : d < v}
AtMostOne(S) == \A v, w \in S : v = w

\* Nothing is stored under an epoch to come, and what is, or is about to be, stored
\* under the present one is behind by one version at most.
CacheInv ==
    /\ \A n \in Epochs : epoch < n => cache[n] = Miss
    /\ \A r \in Readers : repoch[r] <= epoch
    /\ cache[epoch] # Miss => AtMostOne(Behind(cache[epoch]))
    /\ \A r \in Readers : rpc[r] = "store" /\ repoch[r] = epoch => AtMostOne(Behind(decision[r]))

\* One intake at a time is between its INCR and its commit.
LEMMA AnnouncedOne == IndInv => AtMostOne(Announced)
BY DEF IndInv, HoldsLock, Announced, AtMostOne

\* A step of an intake that announces no new version under the present epoch.
LEMMA AnnouncedFrame ==
    ASSUME IndInv, CacheInv, UNCHANGED <<epoch, cache, rpc, repoch, decision>>,
           (versions' \ silent') \cup Announced' \subseteq (versions \ silent) \cup Announced
    PROVE  CacheInv'
<1>1. \A d : Behind(d)' \subseteq Behind(d)
  BY DEF Behind
<1>2. cache'[epoch'] # Miss => AtMostOne(Behind(cache[epoch])')
  BY <1>1 DEF CacheInv, AtMostOne
<1>3. \A r \in Readers : rpc'[r] = "store" /\ repoch'[r] = epoch' => AtMostOne(Behind(decision[r])')
  BY <1>1 DEF CacheInv, AtMostOne
<1> QED BY <1>2, <1>3 DEF CacheInv, AtMostOne

\* A step of a gateway request.
LEMMA ReaderFrame ==
    ASSUME CacheInv, UNCHANGED <<versions, silent, pc, ver, epoch>>,
           \A n \in Epochs : epoch < n => cache'[n] = Miss,
           \A r \in Readers : repoch'[r] <= epoch,
           cache'[epoch] # Miss => AtMostOne(Behind(cache'[epoch])),
           \A r \in Readers : rpc'[r] = "store" /\ repoch'[r] = epoch =>
                                 AtMostOne(Behind(decision'[r]))
    PROVE  CacheInv'
<1>1. Announced' = Announced
  BY DEF Announced
<1>2. \A d : Behind(d)' = Behind(d)
  BY <1>1 DEF Behind
<1>3. cache'[epoch'] # Miss => AtMostOne(Behind(cache[epoch])')
  BY <1>1 DEF Behind
<1>4. \A r \in Readers : rpc'[r] = "store" /\ repoch'[r] = epoch' => AtMostOne(Behind(decision[r])')
  BY <1>1 DEF Behind
<1> QED BY <1>3, <1>4 DEF CacheInv

LEMMA CacheStep == IndInv /\ CurrentIsNewest /\ CacheInv /\ [Next]_vars => CacheInv'
<1> SUFFICES ASSUME IndInv, CurrentIsNewest, CacheInv, [Next]_vars PROVE CacheInv'
  OBVIOUS
<1>0. /\ Epochs \subseteq Nat /\ epoch \in Epochs /\ versions \subseteq Versions
      /\ Versions \subseteq Nat /\ Decisions \subseteq Nat
  BY IntakeAssumption DEF IndInv, TypeOK, Epochs, Versions, Decisions
<1>1. ASSUME NEW i \in Intakes, pc[i] # "commit", pc'[i] # "commit",
             \A j \in Intakes \ {i} : pc'[j] = pc[j] /\ ver'[j] = ver[j],
             UNCHANGED <<versions, silent, epoch, cache, rpc, repoch, decision>>
      PROVE  CacheInv'
  <2>1. Announced' \subseteq Announced
    BY <1>1 DEF Announced
  <2> QED BY <1>1, <2>1, AnnouncedFrame
<1>2. ASSUME NEW i \in Intakes, Abort(i) PROVE CacheInv'
  <2>1. Announced' \subseteq Announced
    BY <1>2 DEF Abort, End, caching, Announced, IndInv, TypeOK
  <2> QED BY <1>2, <2>1, AnnouncedFrame DEF Abort, store, caching, reading
<1>3. ASSUME NEW i \in Intakes, Commit(i) PROVE CacheInv'
  <2>1. (versions' \ silent') \cup Announced' \subseteq (versions \ silent) \cup Announced
    BY <1>3 DEF Commit, End, caching, Announced, IndInv, TypeOK
  <2> QED BY <1>3, <2>1, AnnouncedFrame DEF Commit, caching, reading
<1>4. ASSUME NEW i \in Intakes, InvalidateTenant(i) PROVE CacheInv'
  <2>1. /\ pc[i] = "invalidate" /\ ver[i] \notin versions
        /\ \A j \in Intakes \ {i} : pc[j] # "commit"
        /\ pc' = [pc EXCEPT ![i] = "commit"]
        /\ UNCHANGED <<versions, ver, cache, rpc, repoch, decision>>
    <3>1. /\ pc[i] = "invalidate" /\ pc' = [pc EXCEPT ![i] = "commit"]
          /\ UNCHANGED <<versions, ver, cache, rpc, repoch, decision>>
      BY <1>4 DEF InvalidateTenant, store, reading
    <3>2. ver[i] \in Nat /\ \A w \in versions : ~(ver[i] <= w)
      BY <1>0, <3>1 DEF IndInv, Carries, PastTrigger, Replayed
    <3>3. \A j \in Intakes \ {i} : pc[j] # "commit"
      BY <3>1 DEF IndInv, HoldsLock
    <3> QED BY <3>1, <3>2, <3>3
  <2>2. CASE epoch < MaxEpoch /\ epoch' = epoch + 1
    <3>1. epoch' \in Epochs /\ epoch < epoch'
      BY <1>0, <2>2, IntakeAssumption DEF Epochs
    <3>2. cache'[epoch'] = Miss /\ \A n \in Epochs : epoch' < n => cache'[n] = Miss
      BY <1>0, <2>1, <2>2, <3>1 DEF CacheInv
    <3>3. \A r \in Readers : repoch'[r] < epoch' /\ repoch'[r] \in Nat
      <4> SUFFICES ASSUME NEW r \in Readers PROVE repoch'[r] < epoch' /\ repoch'[r] \in Nat
        OBVIOUS
      <4>1. repoch'[r] = repoch[r] /\ repoch[r] \in Nat /\ epoch \in Nat /\ repoch[r] <= epoch
        BY <1>0, <2>1 DEF CacheInv, IndInv, TypeOK
      <4> QED BY <2>2, <4>1
    <3>4. epoch' \in Nat
      BY <1>0, <3>1
    <3>5. \A r \in Readers : repoch'[r] <= epoch' /\ repoch'[r] # epoch'
      BY <3>3, <3>4
    <3> QED BY <3>2, <3>5 DEF CacheInv
  <2>3. CASE silent' = silent \cup {ver[i]} /\ epoch' = epoch
    <3>1. Announced' = {}
      BY <2>1, <2>3 DEF Announced, IndInv, TypeOK
    <3> QED BY <2>1, <2>3, <3>1, AnnouncedFrame
  <2> QED BY <1>4, <2>2, <2>3 DEF InvalidateTenant
<1>5. ASSUME NEW r \in Readers, LookupVersion(r) PROVE CacheInv'
  <2>1. /\ UNCHANGED <<versions, silent, pc, ver, epoch, cache, decision>>
        /\ rpc'[r] # "store" /\ \A q \in Readers \ {r} : rpc'[q] = rpc[q] /\ repoch'[q] = repoch[q]
        /\ repoch'[r] <= epoch
    BY <1>0, <1>5 DEF LookupVersion, store, intake, caching, IndInv, TypeOK
  <2> QED BY <2>1, ReaderFrame DEF CacheInv
<1>6. ASSUME NEW r \in Readers, LookupDecision(r) PROVE CacheInv'
  <2>1. /\ UNCHANGED <<versions, silent, pc, ver, epoch, cache>>
        /\ rpc'[r] # "store"
        /\ \A q \in Readers \ {r} : rpc'[q] = rpc[q] /\ repoch'[q] = repoch[q] /\ decision'[q] = decision[q]
        /\ repoch'[r] <= epoch
    BY <1>0, <1>6 DEF LookupDecision, store, intake, caching, IndInv, TypeOK, CacheInv
  <2> QED BY <2>1, ReaderFrame DEF CacheInv
<1>7. ASSUME NEW r \in Readers, EvaluateModelPolicies(r) PROVE CacheInv'
  <2>1. /\ UNCHANGED <<versions, silent, pc, ver, epoch, cache, repoch>>
        /\ decision'[r] = current
        /\ \A q \in Readers \ {r} : rpc'[q] = rpc[q] /\ decision'[q] = decision[q]
    BY <1>7 DEF EvaluateModelPolicies, store, intake, caching, IndInv, TypeOK
  <2>2. AtMostOne(Behind(current))
    <3>1. Behind(current) \subseteq Announced
      <4>1. current \in Nat /\ \A v \in versions : v \in Nat /\ ~(current < v)
        BY <1>0 DEF CurrentIsNewest, IndInv, TypeOK
      <4> QED BY <4>1 DEF Behind
    <3> QED BY <3>1, AnnouncedOne DEF AtMostOne
  <2> QED BY <2>1, <2>2, ReaderFrame DEF CacheInv
<1>8. ASSUME NEW r \in Readers, SetCachedDecision(r) PROVE CacheInv'
  <2>1. /\ UNCHANGED <<versions, silent, pc, ver, epoch, repoch, decision>>
        /\ rpc[r] = "store" /\ rpc'[r] # "store"
        /\ \A q \in Readers \ {r} : rpc'[q] = rpc[q]
        /\ cache' = [cache EXCEPT ![repoch[r]] = decision[r]] \/ cache' = cache
    BY <1>8 DEF SetCachedDecision, store, intake, IndInv, TypeOK
  <2>2. repoch[r] \in Epochs /\ repoch[r] <= epoch /\ repoch[r] \in Nat /\ epoch \in Nat
    BY <1>0 DEF CacheInv, IndInv, TypeOK
  <2>3. \A n \in Epochs : epoch < n => cache'[n] = Miss
    BY <1>0, <2>1, <2>2 DEF CacheInv, IndInv, TypeOK
  <2>4. cache'[epoch] # Miss => AtMostOne(Behind(cache'[epoch]))
    <3>1. cache'[epoch] = cache[epoch] \/ (repoch[r] = epoch /\ cache'[epoch] = decision[r])
      BY <1>0, <2>1, <2>2 DEF IndInv, TypeOK
    <3> QED BY <2>1, <3>1 DEF CacheInv
  <2> QED BY <2>1, <2>3, <2>4, ReaderFrame DEF CacheInv
<1>9. ASSUME NEW n \in Epochs, Expire(n) PROVE CacheInv'
  <2>1. /\ UNCHANGED <<versions, silent, pc, ver, epoch, rpc, repoch, decision>>
        /\ \A m \in Epochs : cache'[m] \in {cache[m], Miss}
    BY <1>9 DEF Expire, store, intake, reading, IndInv, TypeOK
  <2>2. cache'[epoch] # Miss => AtMostOne(Behind(cache'[epoch]))
    <3>1. cache'[epoch] = cache[epoch] \/ cache'[epoch] = Miss
      BY <1>0, <2>1
    <3> QED BY <3>1 DEF CacheInv
  <2> QED BY <2>1, <2>2, ReaderFrame DEF CacheInv
<1>10. CASE UNCHANGED vars
  <2>1. UNCHANGED <<versions, silent, pc, ver, epoch, cache, rpc, repoch, decision>>
    BY <1>10 DEF vars, store, intake, caching, reading
  <2> QED BY <2>1, ReaderFrame DEF CacheInv
<1>11. ASSUME NEW i \in Intakes,
              (\E v \in Versions : Receive(i, v)) \/ CheckReplay(i) \/ SelectRow(i) \/ WriteRow(i)
                 \/ InsertVersion(i)
       PROVE  CacheInv'
  <2>1. /\ pc[i] # "commit" /\ pc'[i] # "commit"
        /\ \A j \in Intakes \ {i} : pc'[j] = pc[j] /\ ver'[j] = ver[j]
        /\ UNCHANGED <<versions, silent, epoch, cache, rpc, repoch, decision>>
    BY <1>11 DEF Receive, CheckReplay, SelectRow, WriteRow, InsertVersion, End, store, caching,
                 reading, IndInv, TypeOK
  <2> QED BY <1>1, <2>1
<1> QED BY <1>2, <1>3, <1>4, <1>5, <1>6, <1>7, <1>8, <1>9, <1>10, <1>11 DEF Next

\* A decision found in the cache is behind the accepted writes by one at most
\* (CacheAtMostOneBehind), for any number of slow requests and concurrent intakes.
THEOREM CacheStaysClose == Spec => []CacheAtMostOneBehind
<1>1. Init => CacheInv
  BY IntakeAssumption DEF Init, CacheInv, Epochs
<1>2. IndInv /\ CacheInv => CacheAtMostOneBehind
  <2> SUFFICES ASSUME IndInv, CacheInv, cache[epoch] # Miss
               PROVE  Cardinality({v \in versions \ silent : cache[epoch] < v}) <= 1
    BY DEF CacheAtMostOneBehind
  <2> DEFINE S == {v \in versions \ silent : cache[epoch] < v}
  <2>1. \A v, w \in S : v = w
    BY DEF CacheInv, AtMostOne, Behind
  <2>2. S = {} \/ \E v : S = {v}
    BY <2>1
  <2> HIDE DEF S
  <2>3. S = {} => Cardinality(S) = 0
    BY FS_EmptySet
  <2>4. (\E v : S = {v}) => Cardinality(S) = 1
    BY FS_Singleton, Zenon
  <2>5. Cardinality(S) <= 1
    BY <2>2, <2>3, <2>4
  <2> QED BY <2>5 DEF S
<1>3. Spec => []CurrentIsNewest
  BY IntakeNeverRollsBack, PTL
<1> QED BY <1>1, <1>2, <1>3, CacheStep, IntakeTypeCorrect, PTL DEF Spec

-----------------------------------------------------------------------------
(* The most specific policy *)

Less == {p \in Nat \X Nat : p[1] < p[2]}

\* There is no endless descent in the natural numbers.
LEMMA LessWellFounded == IsWellFoundedOn(Less, Nat)
<1>1. OpToRel(<, Nat) = Less
  BY Zenon DEF OpToRel, Less
<1> QED BY <1>1, NatLessThanWellFounded, Zenon

\* A set of numbers has a least element.
LEMMA LeastNat ==
    ASSUME NEW S, S \subseteq Nat, S # {}
    PROVE  \E n \in S : \A m \in S : n <= m
<1>1. PICK n \in S : \A m \in S : ~(<<m, n>> \in Less)
  BY WFMin, LessWellFounded, Zenon
<1>2. ASSUME NEW m \in S PROVE n <= m
  <2>1. <<m, n>> \in Nat \X Nat
    OBVIOUS
  <2>2. ~(m < n)
    BY <1>1, <2>1 DEF Less
  <2> QED BY <2>2
<1> QED BY <1>2

\* In a finite set that a transitive, irreflexive relation R orders there is a member
\* that none exceeds: the one exceeded by the fewest.
LEMMA FiniteHasMaximal ==
    ASSUME NEW S, IsFiniteSet(S), S # {}, NEW R,
           \A x \in S : <<x, x>> \notin R,
           \A x, y, z \in S : <<x, y>> \in R /\ <<y, z>> \in R => <<x, z>> \in R
    PROVE  \E v \in S : \A w \in S : <<w, v>> \notin R
<1> DEFINE Above(v) == {w \in S : <<w, v>> \in R}
           Sizes == {Cardinality(Above(v)) : v \in S}
<1>1. \A v \in S : IsFiniteSet(Above(v)) /\ Cardinality(Above(v)) \in Nat
  <2> TAKE v \in S
  <2>1. Above(v) \subseteq S
    OBVIOUS
  <2> QED BY <2>1, FS_Subset, FS_CardinalityType
<1> HIDE DEF Above
<1>2. Sizes \subseteq Nat /\ Sizes # {}
  BY <1>1
<1>3. PICK n \in Sizes : \A m \in Sizes : n <= m
  BY <1>2, LeastNat
<1>4. PICK v \in S : n = Cardinality(Above(v))
  BY <1>3
<1>5. ASSUME NEW w \in S, <<w, v>> \in R PROVE FALSE
  <2>1. Above(w) \subseteq Above(v) /\ w \in Above(v) /\ w \notin Above(w)
    BY <1>5 DEF Above
  <2>2. IsFiniteSet(Above(v)) /\ Above(w) # Above(v)
    BY <1>1, <2>1
  <2>3. Cardinality(Above(w)) < Cardinality(Above(v))
    <3>1. /\ Cardinality(Above(w)) <= Cardinality(Above(v))
          /\ Cardinality(Above(v)) = Cardinality(Above(w)) => Above(v) = Above(w)
      BY <2>1, <2>2, FS_Subset
    <3> QED BY <1>1, <2>2, <3>1
  <2>4. Cardinality(Above(w)) \in Sizes
    OBVIOUS
  <2> QED BY <1>1, <1>3, <1>4, <2>3, <2>4
<1> QED BY <1>5

\* One version of each policy is current.
RowsAreCurrent ==
    /\ policyRows \subseteq Policies
    /\ \A v, w \in policyRows : v.id = w.id => v = w

\* A scope names at most three ids.
LEMMA SpecificityType == ASSUME NEW v PROVE model_specificity(v) \in Nat
<1>1. PICK named : named = {i \in 1..3 : v.ids[i] # "any"}
  OBVIOUS
<1>2. IsFiniteSet(1..3)
  BY FS_Interval, 1 \in Int, 3 \in Int
<1>3. IsFiniteSet(named)
  BY <1>1, <1>2, FS_Subset
<1> QED BY <1>1, <1>3, FS_CardinalityType DEF model_specificity

\* Among current policies there is always a most specific one, and it is the one chosen.
LEMMA MostSpecificIs ==
    ASSUME RowsAreCurrent, NEW S \in SUBSET policyRows, S # {}
    PROVE  /\ MostSpecific(S) \in S
           /\ \A w \in S : model_specificity(w) <= model_specificity(MostSpecific(S))
<1> DEFINE R == {p \in S \X S : MoreSpecific(p[1], p[2])}
<1>1. IsFiniteSet(S)
  BY PolicyAssumption, FS_Subset DEF RowsAreCurrent
<1>2. \A v \in S : v.version \in Int /\ v.id \in Int /\ model_specificity(v) \in Nat
  BY PolicyAssumption, SpecificityType DEF RowsAreCurrent
<1>3. \A x \in S : <<x, x>> \notin R
  BY <1>2 DEF MoreSpecific
<1>4. ASSUME NEW x \in S, NEW y \in S, NEW z \in S, <<x, y>> \in R, <<y, z>> \in R
      PROVE  <<x, z>> \in R
  <2>1. MoreSpecific(x, y) /\ MoreSpecific(y, z)
    BY <1>4
  <2>2. MoreSpecific(x, z)
    BY <1>2, <2>1 DEF MoreSpecific
  <2> QED BY <2>2
<1> HIDE DEF R
<1>5. PICK v \in S : \A w \in S : <<w, v>> \notin R
  BY <1>1, <1>3, <1>4, FiniteHasMaximal
<1>6. ASSUME NEW w \in S \ {v} PROVE MoreSpecific(v, w)
  <2>1. ~MoreSpecific(w, v)
    BY <1>5, <1>6 DEF R
  <2>2. v.id # w.id
    BY <1>6 DEF RowsAreCurrent
  <2> QED BY <1>2, <2>1, <2>2 DEF MoreSpecific
<1>7. MostSpecific(S) \in S /\ \A w \in S \ {MostSpecific(S)} : MoreSpecific(MostSpecific(S), w)
  BY <1>6 DEF MostSpecific
<1>8. ASSUME NEW w \in S PROVE model_specificity(w) <= model_specificity(MostSpecific(S))
  BY <1>2, <1>7 DEF MoreSpecific
<1> QED BY <1>7, <1>8

\* Whatever policies the intake stores, what is allowed can be justified by the current
\* rows (evaluate_model_policies).
THEOREM AllowancesJustified == PolicyDecisionSpec => []AllowedIsJustified
<1>1. PolicyDecisionInit => RowsAreCurrent
  BY DEF PolicyDecisionInit, RowsAreCurrent
<1>2. RowsAreCurrent /\ [PolicyDecisionNext]_policyDecisionVars => RowsAreCurrent'
  <2> SUFFICES ASSUME RowsAreCurrent, [PolicyDecisionNext]_policyDecisionVars PROVE RowsAreCurrent'
    OBVIOUS
  <2>1. ASSUME NEW p \in Policies, StorePolicy(p) PROVE RowsAreCurrent'
    BY <2>1 DEF StorePolicy, RowsAreCurrent
  <2>2. CASE UNCHANGED policyRows
    BY <2>2 DEF RowsAreCurrent
  <2> QED BY <2>1, <2>2 DEF PolicyDecisionNext, PassTime, policyDecisionVars
<1>3. RowsAreCurrent => AllowedIsJustified
  <2> SUFFICES ASSUME RowsAreCurrent, NEW readable \in BOOLEAN, evaluate_model_policies(readable)
               PROVE  LET live == {v \in Views("allow") : allowlist_active(v)}
                      IN  /\ \A v \in Views("deny") : Model \notin v.models
                          /\ live # {} => \E v \in live :
                                /\ Model \in v.models
                                /\ \A w \in live : model_specificity(w) <= model_specificity(v)
                          /\ Views("approval") # {} =>
                                /\ readable /\ modelRow.state = "approved"
                                /\ modelRow.retire # Never => now <= modelRow.retire
    BY DEF AllowedIsJustified
  <2> DEFINE live == {v \in Views("allow") : allowlist_active(v)}
  <2>1. live \in SUBSET policyRows
    BY DEF Views, get_active_policies_for_scope
  <2>2. /\ \A v \in Views("deny") : Model \notin v.models
        /\ live = {} \/ Model \in MostSpecific(live).models
    BY DEF evaluate_model_policies, resolve_model_decision
  <2>3. Views("approval") # {} =>
            /\ readable /\ modelRow.state = "approved"
            /\ modelRow.retire # Never => now <= modelRow.retire
    BY DEF evaluate_model_policies, ApprovalGate
  <2> HIDE DEF live
  <2>4. live # {} => \E v \in live :
            /\ Model \in v.models
            /\ \A w \in live : model_specificity(w) <= model_specificity(v)
    BY <2>1, <2>2, MostSpecificIs
  <2> QED BY <2>2, <2>3, <2>4 DEF live
<1> QED BY <1>1, <1>2, <1>3, PTL DEF PolicyDecisionSpec

\* Storing a policy that only forbids turns no refusal into an allowance, whatever the
\* other policies are (evaluate_model_policies).
THEOREM ForbiddingOnlyNarrows == PolicyDecisionSpec => ForbiddingNeverWidens
<1>1. ASSUME [PolicyDecisionNext]_policyDecisionVars, NEW p \in policyRows' \ policyRows,
             p.kind \in {"deny", "approval"}, \A v \in policyRows : v.id # p.id,
             evaluate_model_policies(TRUE)'
      PROVE  evaluate_model_policies(TRUE)
  <2>1. StorePolicy(p)
    BY <1>1 DEF PolicyDecisionNext, PassTime, StorePolicy, policyDecisionVars
  <2>2. policyRows' = policyRows \cup {p} /\ UNCHANGED <<modelRow, now>>
    BY <1>1, <2>1 DEF StorePolicy
  <2>3. /\ Views("allow")' = Views("allow") /\ Views("deny") \subseteq Views("deny")'
        /\ Views("approval") \subseteq Views("approval")'
    BY <1>1, <2>2 DEF Views, get_active_policies_for_scope
  <2>4. PICK A : A = {v \in Views("allow") : allowlist_active(v)}
    OBVIOUS
  <2>5. {v \in Views("allow") : allowlist_active(v)}' = A
    BY <2>2, <2>3, <2>4 DEF allowlist_active
  <2>6. /\ \A v \in Views("deny")' : Model \notin v.models
        /\ A = {} \/ Model \in MostSpecific(A).models
    BY <1>1, <2>5 DEF evaluate_model_policies, resolve_model_decision
  <2>7. resolve_model_decision
    BY <2>3, <2>4, <2>6 DEF resolve_model_decision
  <2>8. ApprovalGate(TRUE)
    BY <1>1, <2>2, <2>3 DEF evaluate_model_policies, ApprovalGate
  <2> QED BY <2>7, <2>8 DEF evaluate_model_policies
<1>2. [PolicyDecisionNext]_policyDecisionVars =>
        [\A p \in policyRows' \ policyRows :
            (p.kind \in {"deny", "approval"} /\ \A v \in policyRows : v.id # p.id) =>
                (evaluate_model_policies(TRUE)' => evaluate_model_policies(TRUE))
        ]_policyDecisionVars
  BY <1>1
<1> QED BY <1>2, PTL DEF PolicyDecisionSpec, ForbiddingNeverWidens

-----------------------------------------------------------------------------
(* Approvals: the event before the change *)

Entries == {"none", "adopt", "approve", "deny", "retire", "unretire"}

\* The changes c are found in this order among the first n entries of the log l.
Found(c, l, n) ==
    \E at \in [1..Len(c) -> 1..n] :
        \A i \in 1..Len(c) : l[at[i]] = c[i] /\ (i > 1 => at[i - 1] < at[i])

\* More entries hide nothing.
LEMMA FoundInMore ==
    ASSUME NEW S, NEW c \in Seq(S), NEW l \in Seq(S), NEW x \in Seq(S),
           NEW n \in 0..Len(l), Found(c, l, n), NEW m \in n..Len(l \o x)
    PROVE  Found(c, l \o x, m)
<1>1. PICK at \in [1..Len(c) -> 1..n] :
         \A i \in 1..Len(c) : l[at[i]] = c[i] /\ (i > 1 => at[i - 1] < at[i])
  BY DEF Found
<1>2. at \in [1..Len(c) -> 1..m]
  OBVIOUS
<1>3. \A j \in 1..n : (l \o x)[j] = l[j]
  OBVIOUS
<1>4. \A i \in 1..Len(c) : (l \o x)[at[i]] = c[i] /\ (i > 1 => at[i - 1] < at[i])
  <2> TAKE i \in 1..Len(c)
  <2>1. at[i] \in 1..n
    OBVIOUS
  <2> QED BY <1>1, <1>3, <2>1
<1> QED BY <1>2, <1>4, Zenon DEF Found

\* Changes that follow the others, as their entries do.
LEMMA FoundWithTail ==
    ASSUME NEW S, NEW c \in Seq(S), NEW l \in Seq(S), NEW e \in Seq(S), NEW n \in Nat,
           Found(c, l, n), Len(l) = n + Len(e), \A i \in 1..Len(e) : l[n + i] = e[i]
    PROVE  Found(c \o e, l, Len(l))
<1>1. PICK at \in [1..Len(c) -> 1..n] :
         \A i \in 1..Len(c) : l[at[i]] = c[i] /\ (i > 1 => at[i - 1] < at[i])
  BY DEF Found
<1>2. PICK to : to = [i \in 1..(Len(c) + Len(e)) |-> IF i <= Len(c) THEN at[i] ELSE n + (i - Len(c))]
  OBVIOUS
<1>3. Len(c) \in Nat /\ Len(e) \in Nat /\ Len(c \o e) = Len(c) + Len(e)
  OBVIOUS
<1>4. to \in [1..Len(c \o e) -> 1..Len(l)]
  <2>1. ASSUME NEW i \in 1..(Len(c) + Len(e)) PROVE to[i] \in 1..Len(l)
    <3>1. CASE i <= Len(c)
      BY <1>1, <1>2, <1>3, <3>1
    <3>2. CASE ~(i <= Len(c))
      BY <1>2, <1>3, <3>2
    <3> QED BY <3>1, <3>2
  <2> QED BY <1>2, <1>3, <2>1
<1>5. ASSUME NEW i \in 1..Len(c \o e)
      PROVE  l[to[i]] = (c \o e)[i] /\ (i > 1 => to[i - 1] < to[i])
  <2>1. CASE i <= Len(c)
    <3>1. to[i] = at[i] /\ (c \o e)[i] = c[i] /\ i \in 1..Len(c)
      BY <1>2, <1>3, <1>5, <2>1
    <3>2. i > 1 => to[i - 1] = at[i - 1]
      BY <1>2, <1>3, <1>5, <2>1
    <3> QED BY <1>1, <3>1, <3>2
  <2>2. CASE ~(i <= Len(c))
    <3>1. PICK k : k = i - Len(c)
      OBVIOUS
    <3>2. k \in 1..Len(e) /\ to[i] = n + k /\ (c \o e)[i] = e[k]
      BY <1>2, <1>3, <1>5, <2>2, <3>1
    <3>3. l[to[i]] = (c \o e)[i]
      BY <3>2
    <3>4. ASSUME i > 1 PROVE to[i - 1] < to[i]
      <4>1. CASE i - 1 <= Len(c)
        <5>1. i - 1 \in 1..Len(c) /\ to[i - 1] = at[i - 1]
          BY <1>2, <1>3, <1>5, <3>4, <4>1
        <5>2. at[i - 1] \in 1..n
          BY <1>1, <5>1
        <5> QED BY <3>2, <5>1, <5>2
      <4>2. CASE ~(i - 1 <= Len(c))
        BY <1>2, <1>3, <1>5, <2>2, <3>4, <4>2
      <4> QED BY <4>1, <4>2
    <3> QED BY <3>3, <3>4
  <2> QED BY <2>1, <2>2
<1> QED BY <1>3, <1>4, <1>5 DEF Found

\* What a call announces and, if it commits, changes.
EventsOf(o) == (IF dseen[o].state = "absent" THEN <<"adopt">> ELSE <<>>) \o <<dcall[o]>>

ApprovalTypeOK ==
    /\ dstep \in [Deciders -> {"idle", "read", "written", "audited"}]
    /\ dcall \in [Deciders -> Entries]
    /\ adminLog \in Seq(Entries) /\ changes \in Seq(Entries)

\* A call that has written the row holds it.
WriterHolds == \A o \in Deciders : dstep[o] \in {"written", "audited"} => rowHeld = o

\* The entries of a call that may still commit are the last of the log.
LastAnnounced ==
    \A o \in Deciders : dstep[o] = "audited" =>
        \E n \in Nat :
            /\ Len(adminLog) = n + Len(EventsOf(o)) /\ Found(changes, adminLog, n)
            /\ \A i \in 1..Len(EventsOf(o)) : adminLog[n + i] = EventsOf(o)[i]

ApprovalInv ==
    /\ ApprovalTypeOK /\ WriterHolds /\ LastAnnounced
    /\ Found(changes, adminLog, Len(adminLog))

\* A call announces one entry or two.
LEMMA EventsType ==
    ASSUME ApprovalTypeOK, NEW o \in Deciders
    PROVE  EventsOf(o) \in Seq(Entries)
<1>1. dcall[o] \in Entries /\ "adopt" \in Entries
  BY DEF ApprovalTypeOK, Entries
<1>2. <<"adopt">> \in Seq(Entries) /\ <<>> \in Seq(Entries) /\ <<dcall[o]>> \in Seq(Entries)
  BY <1>1
<1> QED BY <1>2 DEF EventsOf

\* At the start nothing is announced or changed.
LEMMA ApprovalStart == ApprovalInit => ApprovalInv
<1> SUFFICES ASSUME ApprovalInit PROVE ApprovalInv
  OBVIOUS
<1>1. ApprovalTypeOK /\ WriterHolds /\ LastAnnounced
  BY DEF ApprovalInit, NoCalls, ApprovalTypeOK, WriterHolds, LastAnnounced, Entries
<1>2. Found(<<>>, <<>>, 0)
  <2>1. Len(<<>>) = 0 /\ 1..0 = {}
    OBVIOUS
  <2>2. [i \in {} |-> i] \in [{} -> {}]
    OBVIOUS
  <2>3. [i \in {} |-> i] \in [1..Len(<<>>) -> 1..0] /\ \A i \in 1..Len(<<>>) : FALSE
    BY <2>1, <2>2, Zenon
  <2> QED BY <2>3, Zenon DEF Found
<1> QED BY <1>1, <1>2 DEF ApprovalInit, NoCalls, ApprovalInv

\* A step of the requests, of the clock, or of a call that has not announced anything.
LEMMA ApprovalFrame ==
    ASSUME ApprovalInv, ApprovalTypeOK', WriterHolds', UNCHANGED <<adminLog, changes>>,
           \A o \in Deciders : dstep'[o] = "audited" =>
              dstep[o] = "audited" /\ dcall'[o] = dcall[o] /\ dseen'[o] = dseen[o]
    PROVE  ApprovalInv'
<1>1. LastAnnounced'
  <2> SUFFICES ASSUME NEW o \in Deciders, dstep'[o] = "audited"
               PROVE  \E n \in Nat :
                         /\ Len(adminLog) = n + Len(EventsOf(o)') /\ Found(changes, adminLog, n)
                         /\ \A i \in 1..Len(EventsOf(o)') : adminLog[n + i] = EventsOf(o)'[i]
    BY DEF LastAnnounced
  <2>1. EventsOf(o)' = EventsOf(o)
    BY DEF EventsOf
  <2> QED BY <2>1 DEF ApprovalInv, LastAnnounced
<1> QED BY <1>1 DEF ApprovalInv

\* Every step of the decisions keeps the invariant.
LEMMA ApprovalStep == ApprovalInv /\ [ApprovalNext]_approvalVars => ApprovalInv'
<1> SUFFICES ASSUME ApprovalInv, [ApprovalNext]_approvalVars PROVE ApprovalInv'
  OBVIOUS
<1>1. ASSUME NEW o \in Deciders, NEW c \in {"approve", "deny", "retire", "unretire"}, GetRow(o, c)
      PROVE  ApprovalInv'
  <2>1. ApprovalTypeOK' /\ WriterHolds'
    BY <1>1 DEF GetRow, ApprovalInv, ApprovalTypeOK, WriterHolds, Entries
  <2>2. \A d \in Deciders : dstep'[d] = "audited" =>
            dstep[d] = "audited" /\ dcall'[d] = dcall[d] /\ dseen'[d] = dseen[d]
    BY <1>1 DEF GetRow, ApprovalInv, ApprovalTypeOK
  <2>3. UNCHANGED <<adminLog, changes>>
    BY <1>1 DEF GetRow
  <2> QED BY <2>1, <2>2, <2>3, ApprovalFrame
<1>2. ASSUME NEW o \in Deciders, Flush(o) PROVE ApprovalInv'
  <2>1. ApprovalTypeOK' /\ WriterHolds'
    BY <1>2, ApprovalAssumption DEF Flush, ApprovalInv, ApprovalTypeOK, WriterHolds
  <2>2. \A d \in Deciders : dstep'[d] = "audited" =>
            dstep[d] = "audited" /\ dcall'[d] = dcall[d] /\ dseen'[d] = dseen[d]
    BY <1>2 DEF Flush, ApprovalInv, ApprovalTypeOK
  <2>3. UNCHANGED <<adminLog, changes>>
    BY <1>2 DEF Flush
  <2> QED BY <2>1, <2>2, <2>3, ApprovalFrame
<1>3. ASSUME NEW o \in Deciders, EmitAdminEvent(o) PROVE ApprovalInv'
  <2>1. /\ dstep[o] = "written" /\ UNCHANGED <<dcall, dseen, changes>>
        /\ \A d \in Deciders : d # o => dstep[d] \notin {"written", "audited"}
    BY <1>3 DEF EmitAdminEvent, ApprovalInv, WriterHolds
  <2>2. CASE /\ adminLog' = adminLog \o EventsOf(o) /\ UNCHANGED rowHeld
             /\ dstep' = [dstep EXCEPT ![o] = "audited"]
    <3>1. PICK e \in Seq(Entries) : e = EventsOf(o)
      BY EventsType DEF ApprovalInv
    <3>2. ApprovalTypeOK' /\ WriterHolds'
      BY <2>1, <2>2, <3>1 DEF ApprovalInv, ApprovalTypeOK, WriterHolds
    <3>3. /\ adminLog \in Seq(Entries) /\ changes \in Seq(Entries)
          /\ adminLog' = adminLog \o e /\ Len(adminLog) \in Nat
          /\ Len(adminLog') = Len(adminLog) + Len(e)
      BY <2>2, <3>1 DEF ApprovalInv, ApprovalTypeOK
    <3>4. Found(changes, adminLog, Len(adminLog))
      BY DEF ApprovalInv
    <3>5. Found(changes, adminLog', Len(adminLog)) /\ Found(changes, adminLog', Len(adminLog'))
      <4>1. Len(adminLog) \in Len(adminLog)..Len(adminLog \o e)
            /\ Len(adminLog \o e) \in Len(adminLog)..Len(adminLog \o e)
            /\ Len(adminLog) \in 0..Len(adminLog)
        BY <3>3
      <4> QED BY <3>3, <3>4, <4>1, FoundInMore
    <3>6. \A i \in 1..Len(e) : adminLog'[Len(adminLog) + i] = e[i]
      BY <3>3
    <3>7. EventsOf(o)' = e /\ \A d \in Deciders : dstep'[d] = "audited" => d = o
      BY <2>1, <2>2, <3>1 DEF EventsOf, ApprovalInv, ApprovalTypeOK
    <3>8. LastAnnounced'
      <4> SUFFICES ASSUME NEW d \in Deciders, dstep'[d] = "audited"
                   PROVE  \E n \in Nat :
                             /\ Len(adminLog') = n + Len(EventsOf(d)')
                             /\ Found(changes', adminLog', n)
                             /\ \A i \in 1..Len(EventsOf(d)') : adminLog'[n + i] = EventsOf(d)'[i]
        BY DEF LastAnnounced
      <4>1. EventsOf(d)' = e /\ changes' = changes
        BY <2>1, <3>7
      <4> WITNESS Len(adminLog) \in Nat
      <4> QED BY <3>3, <3>5, <3>6, <4>1
    <3> QED BY <2>1, <3>2, <3>5, <3>8 DEF ApprovalInv
  <2>3. CASE /\ dstep' = [dstep EXCEPT ![o] = "idle"] /\ rowHeld' = NoDecider
             /\ UNCHANGED adminLog
    <3>1. ApprovalTypeOK' /\ WriterHolds'
      BY <2>1, <2>3 DEF ApprovalInv, ApprovalTypeOK, WriterHolds
    <3>2. \A d \in Deciders : dstep'[d] = "audited" =>
              dstep[d] = "audited" /\ dcall'[d] = dcall[d] /\ dseen'[d] = dseen[d]
      BY <2>1, <2>3 DEF ApprovalInv, ApprovalTypeOK
    <3> QED BY <2>1, <2>3, <3>1, <3>2, ApprovalFrame
  <2>4. \/ /\ adminLog' = adminLog \o
                (IF dseen[o].state = "absent" THEN <<"adopt">> ELSE <<>>) \o <<dcall[o]>>
           /\ UNCHANGED rowHeld /\ dstep' = [dstep EXCEPT ![o] = "audited"]
        \/ /\ dstep' = [dstep EXCEPT ![o] = "idle"] /\ rowHeld' = NoDecider
           /\ UNCHANGED adminLog
    BY <1>3 DEF EmitAdminEvent
  <2> QED BY <2>2, <2>3, <2>4 DEF EventsOf
<1>4. ASSUME NEW o \in Deciders, CommitDecision(o) PROVE ApprovalInv'
  <2>1. /\ dstep[o] = "audited" /\ UNCHANGED <<dcall, dseen, adminLog>> /\ rowHeld' = NoDecider
        /\ dstep' = [dstep EXCEPT ![o] = "idle"]
        /\ \A d \in Deciders : d # o => dstep[d] \notin {"written", "audited"}
    BY <1>4 DEF CommitDecision, ApprovalInv, WriterHolds
  <2>2. \A d \in Deciders : dstep'[d] \notin {"written", "audited"}
    BY <2>1 DEF ApprovalInv, ApprovalTypeOK
  <2>3. CASE changes' = changes \o EventsOf(o)
    <3>1. PICK e \in Seq(Entries) : e = EventsOf(o)
      BY EventsType DEF ApprovalInv
    <3>2. /\ adminLog \in Seq(Entries) /\ changes \in Seq(Entries) /\ changes' = changes \o e
      BY <2>3, <3>1 DEF ApprovalInv, ApprovalTypeOK
    <3>3. PICK n \in Nat :
             /\ Len(adminLog) = n + Len(e) /\ Found(changes, adminLog, n)
             /\ \A i \in 1..Len(e) : adminLog[n + i] = e[i]
      BY <2>1, <3>1 DEF ApprovalInv, LastAnnounced
    <3>4. Found(changes \o e, adminLog, Len(adminLog))
      BY <3>2, <3>3, FoundWithTail
    <3>5. ApprovalTypeOK'
      BY <2>1, <3>2 DEF ApprovalInv, ApprovalTypeOK
    <3> QED BY <2>1, <2>2, <3>2, <3>4, <3>5 DEF ApprovalInv, WriterHolds, LastAnnounced
  <2>4. CASE UNCHANGED changes
    <3>1. ApprovalTypeOK' /\ WriterHolds'
      BY <2>1, <2>2, <2>4 DEF ApprovalInv, ApprovalTypeOK, WriterHolds
    <3> QED BY <2>1, <2>2, <2>4, <3>1, ApprovalFrame
  <2>5. \/ changes' = changes \o
              (IF dseen[o].state = "absent" THEN <<"adopt">> ELSE <<>>) \o <<dcall[o]>>
        \/ UNCHANGED changes
    BY <1>4 DEF CommitDecision
  <2> QED BY <2>3, <2>4, <2>5 DEF EventsOf
<1>5. CASE UNCHANGED deciderVars
  <2>1. UNCHANGED <<dstep, dcall, dseen, rowHeld, adminLog, changes>>
    BY <1>5 DEF deciderVars
  <2>2. ApprovalTypeOK' /\ WriterHolds'
    BY <2>1 DEF ApprovalInv, ApprovalTypeOK, WriterHolds
  <2> QED BY <2>1, <2>2, ApprovalFrame
<1>6. [ApprovalNext]_approvalVars =>
        \/ \E o \in Deciders :
              \/ \E c \in {"approve", "deny", "retire", "unretire"} : GetRow(o, c)
              \/ Flush(o) \/ EmitAdminEvent(o) \/ CommitDecision(o)
        \/ UNCHANGED deciderVars
  BY DEF ApprovalNext, ApprovalClock, ExpireDecision, DeciderStep, RequesterStep, LookUp,
         Evaluate, StoreDecision, Proceed, approvalVars, deciderVars
<1> QED BY <1>1, <1>2, <1>3, <1>4, <1>5, <1>6

\* For any number of operator calls: no change of the inventory is committed without its
\* event, and the events are in the order of the changes, whatever commits, fails or is
\* refused in between (_decide, retire_model, unretire_model).
THEOREM ChangesStayAudited == ApprovalSpec => []ChangesAreAudited
<1>1. ApprovalInv => ChangesAreAudited
  BY DEF ApprovalInv, Found, ChangesAreAudited
<1> QED BY <1>1, ApprovalStart, ApprovalStep, PTL DEF ApprovalSpec

-----------------------------------------------------------------------------
(* The rate limiter *)

Payments == [tier : Tiers, at : Nat]
RequestRecords ==
    [pc : {"legacy", "key", "team", "tenant", "stream", "failed", "undo", "admitted", "refused",
           "rejected", "open", "answered", "delete", "closed"},
     key : VKeys, stream : BOOLEAN, path : {"none", "redis", "local"},
     paid : SUBSET Payments, held : BOOLEAN, sent : BOOLEAN, stamp : Nat]
Members == [req : Incoming, at : Nat]

RateTypes ==
    /\ rateClock \in Nat /\ announced \in Nat /\ recoveries \in Nat /\ emitted \in BOOLEAN
    /\ inflight \in [Incoming -> {[pc |-> "new"]} \cup RequestRecords]
    /\ zset \in [Tiers -> SUBSET Members]
    /\ localWindow \in [Tiers -> SUBSET Members]
    /\ \A t \in Tiers : IsFiniteSet(zset[t]) /\ IsFiniteSet(localWindow[t])

\* The requests whose payments count: they are neither refused nor about to be.
Counting(r) == inflight[r].pc \notin {"new", "undo", "refused"}
CountedIn(t, from) ==
    {r \in Incoming : Counting(r)
        /\ \E p \in inflight[r].paid : p.tier = t /\ p.at \in Span(from)}

\* What counts is a member of its sorted set until it leaves the window.
PaymentsLast ==
    \A r \in Incoming : Counting(r) =>
        \A p \in inflight[r].paid : [req |-> r, at |-> p.at] \in zset[p.tier] \/ p.at + Window <= rateClock

\* A stamp is never ahead of the clock.
StampsPast == \A r \in Incoming : inflight[r].pc # "new" => inflight[r].stamp <= rateClock

\* A request that is refused or not yet decided was never admitted.
Undecided == {"undo", "refused", "key", "team", "tenant", "stream", "failed", "legacy"}
RefusedUnadmitted ==
    \A r \in Incoming : inflight[r].pc \in Undecided => inflight[r].path = "none"

CountsWithin ==
    \A t \in Tiers, from \in Nat :
        IsFiniteSet(CountedIn(t, from)) /\ Cardinality(CountedIn(t, from)) <= LimitOf(t)

LocalWithin == \A t \in Tiers : Cardinality(localWindow[t]) <= Rpm

AnnouncedPerRecovery == announced <= recoveries + (IF emitted THEN 1 ELSE 0)

RateInv ==
    /\ RateTypes /\ PaymentsLast /\ StampsPast /\ RefusedUnadmitted /\ CountsWithin /\ LocalWithin
    /\ AnnouncedPerRecovery

\* The invariant implies the property.
LEMMA RateInvImplies == RateInv => LimitsHold
<1> SUFFICES ASSUME RateInv PROVE LimitsHold
  OBVIOUS
<1>1. AnnouncedOnce
  BY DEF RateInv, RateTypes, AnnouncedPerRecovery, AnnouncedOnce
<1>2. ASSUME NEW t \in Tiers, NEW from \in 0..MaxTime
      PROVE  Cardinality(PaidIn(t, from)) <= LimitOf(t) /\ Cardinality(LocalIn(t, from)) <= Rpm
  <2>1. from \in Nat
    BY RateAssumption
  <2>2. PaidIn(t, from) \subseteq CountedIn(t, from)
    BY DEF PaidIn, CountedIn, Admitted, Counting, RateInv, RefusedUnadmitted, Undecided
  <2>3. IsFiniteSet(CountedIn(t, from)) /\ Cardinality(CountedIn(t, from)) <= LimitOf(t)
    BY <2>1 DEF RateInv, CountsWithin
  <2>4. IsFiniteSet(PaidIn(t, from)) /\ Cardinality(PaidIn(t, from)) <= Cardinality(CountedIn(t, from))
    BY <2>2, <2>3, FS_Subset
  <2>5. LocalIn(t, from) \subseteq localWindow[t] /\ IsFiniteSet(localWindow[t])
    BY DEF LocalIn, RateInv, RateTypes
  <2>6. IsFiniteSet(LocalIn(t, from)) /\ Cardinality(LocalIn(t, from)) <= Cardinality(localWindow[t])
    BY <2>5, FS_Subset
  <2>7. Cardinality(localWindow[t]) <= Rpm
    BY DEF RateInv, LocalWithin
  <2>8. /\ Cardinality(PaidIn(t, from)) \in Nat /\ Cardinality(CountedIn(t, from)) \in Nat
        /\ Cardinality(LocalIn(t, from)) \in Nat /\ Cardinality(localWindow[t]) \in Nat
        /\ LimitOf(t) \in Nat /\ Rpm \in Nat
    BY <2>3, <2>4, <2>5, <2>6, FS_CardinalityType, RateAssumption DEF LimitOf
  <2> QED BY <2>3, <2>4, <2>6, <2>7, <2>8
<1> QED BY <1>1, <1>2 DEF LimitsHold, AdmittedWithinLimit

\* Initially nothing is in flight.
LEMMA RateInitInv == RateInit => RateInv
<1> SUFFICES ASSUME RateInit PROVE RateInv
  OBVIOUS
<1>1. IsFiniteSet({}) /\ Cardinality({}) = 0
  BY FS_EmptySet
<1>2. RateTypes
  BY <1>1 DEF RateInit, RateTypes
<1>3. \A r \in Incoming : inflight[r].pc = "new"
  BY DEF RateInit
<1>4. PaymentsLast /\ StampsPast /\ RefusedUnadmitted
  BY <1>3 DEF PaymentsLast, StampsPast, RefusedUnadmitted, Undecided, Counting
<1>5. \A t, from : CountedIn(t, from) = {}
  BY <1>3 DEF CountedIn, Counting
<1>6. CountsWithin
  BY <1>1, <1>5, RateAssumption DEF CountsWithin, LimitOf
<1>7. LocalWithin
  BY <1>1, RateAssumption DEF RateInit, LocalWithin
<1>8. AnnouncedPerRecovery
  BY DEF RateInit, AnnouncedPerRecovery
<1> QED BY <1>2, <1>4, <1>6, <1>7, <1>8 DEF RateInv

\* A step that pays nothing, brings nobody back to the count and takes no member of who
\* counts keeps the counts.
LEMMA NothingPaid ==
    ASSUME RateInv, RateTypes',
           \A r \in Incoming : Counting(r)' =>
               \/ Counting(r) /\ inflight'[r].paid = inflight[r].paid
               \/ inflight'[r].paid = {},
           \A r \in Incoming : Counting(r)' => \A t \in Tiers, n \in Nat :
               [req |-> r, at |-> n] \in zset[t] =>
                   [req |-> r, at |-> n] \in zset'[t] \/ n + Window <= rateClock',
           rateClock' >= rateClock
    PROVE  PaymentsLast' /\ CountsWithin'
<1>1. PaymentsLast'
  BY RateAssumption DEF PaymentsLast, RateInv, RateTypes, RequestRecords, Payments, Counting
<1>2. ASSUME NEW t \in Tiers, NEW from \in Nat
      PROVE  IsFiniteSet(CountedIn(t, from)') /\ Cardinality(CountedIn(t, from)') <= LimitOf(t)
  <2>1. CountedIn(t, from)' \subseteq CountedIn(t, from)
    BY DEF CountedIn
  <2>2. IsFiniteSet(CountedIn(t, from)) /\ Cardinality(CountedIn(t, from)) <= LimitOf(t)
    BY DEF RateInv, CountsWithin
  <2>3. IsFiniteSet(CountedIn(t, from)') /\ Cardinality(CountedIn(t, from)') <= Cardinality(CountedIn(t, from))
    BY <2>1, <2>2, FS_Subset
  <2>4. /\ Cardinality(CountedIn(t, from)) \in Nat /\ Cardinality(CountedIn(t, from)') \in Nat
        /\ LimitOf(t) \in Nat
    BY <2>2, <2>3, FS_CardinalityType, RateAssumption DEF LimitOf
  <2> QED BY <2>2, <2>3, <2>4
<1> QED BY <1>1, <1>2 DEF CountsWithin, LimitOf

\* A step that stamps nothing leaves no stamp ahead of the clock.
LEMMA StampsKept ==
    ASSUME RateInv, rateClock' \in Nat, rateClock' >= rateClock,
           \A r \in Incoming : inflight'[r].pc # "new" =>
               inflight[r].pc # "new" /\ inflight'[r].stamp = inflight[r].stamp
    PROVE  StampsPast'
<1>1. \A r \in Incoming : inflight[r].pc # "new" => inflight[r].stamp \in Nat
  BY DEF RateInv, RateTypes, RequestRecords
<1> QED BY <1>1 DEF RateInv, RateTypes, StampsPast

\* What a transaction does to the sorted set of its tier: it adds its request, and takes
\* only what left the window by now.
LEMMA TierExecuted ==
    ASSUME RateInv, NEW r \in Incoming, ExecutesTier(r)
    PROVE  /\ inflight[r] \in RequestRecords /\ TierOf(r) \in Tiers
           /\ inflight[r].path = "none" /\ Counting(r)
           /\ Executed(r) \in SUBSET Members /\ IsFiniteSet(Executed(r))
           /\ zset' \in [Tiers -> SUBSET Members] /\ zset'[TierOf(r)] = Executed(r)
           /\ \A u \in Tiers : IsFiniteSet(zset'[u])
           /\ \A u \in Tiers : \A m \in zset[u] : m \in zset'[u] \/ m.at + Window <= rateClock
           /\ [req |-> r, at |-> inflight[r].stamp] \in Executed(r)
           /\ inflight[r].stamp \in Nat /\ inflight[r].stamp <= rateClock /\ rateClock \in Nat
<1>1. /\ inflight[r].pc \in {"key", "team", "tenant"}
      /\ zset' = [zset EXCEPT ![TierOf(r)] = Executed(r)]
  BY DEF ExecutesTier, AtTier
<1>2. inflight[r] \in RequestRecords
  BY <1>1 DEF RateInv, RateTypes
<1>3. TierOf(r) \in Tiers
  BY <1>1, <1>2 DEF TierOf, Tiers, RequestRecords
<1>4. inflight[r].stamp \in Nat /\ rateClock \in Nat /\ inflight[r].stamp <= rateClock
  BY <1>1, <1>2 DEF RequestRecords, RateInv, RateTypes, StampsPast
<1>5. inflight[r].path = "none" /\ Counting(r)
  BY <1>1 DEF RateInv, RefusedUnadmitted, Undecided, Counting
<1>6. /\ zset \in [Tiers -> SUBSET Members] /\ \A u \in Tiers : IsFiniteSet(zset[u])
      /\ zset[TierOf(r)] \in SUBSET Members
  BY <1>3 DEF RateInv, RateTypes
<1>7. [req |-> r, at |-> inflight[r].stamp] \in Members
  BY <1>4 DEF Members
<1>8. Kept(r) \subseteq zset[TierOf(r)]
  BY DEF Kept
<1>9. IsFiniteSet(Executed(r)) /\ Executed(r) \in SUBSET Members
  <2>1. IsFiniteSet(Kept(r))
    BY <1>3, <1>6, <1>8, FS_Subset
  <2> QED BY <2>1, <1>6, <1>7, <1>8, FS_AddElement DEF Executed
<1>10. [req |-> r, at |-> inflight[r].stamp] \in Executed(r)
  BY DEF Executed
<1>11. ASSUME NEW m \in zset[TierOf(r)], m \notin Executed(r)
       PROVE  m.at + Window <= rateClock
  <2>1. m.at \in Nat
    BY <1>6 DEF Members
  <2>2. ~(m.at + Window > inflight[r].stamp)
    BY <1>11 DEF Executed, Kept
  <2> QED BY <2>1, <2>2, <1>4, RateAssumption
<1>12. \A u \in Tiers : zset'[u] = IF u = TierOf(r) THEN Executed(r) ELSE zset[u]
  BY <1>1, <1>3, <1>6
<1>13. zset' \in [Tiers -> SUBSET Members]
  BY <1>1, <1>3, <1>6, <1>9
<1>14. \A u \in Tiers : IsFiniteSet(zset'[u])
  BY <1>6, <1>9, <1>12
<1>15. \A u \in Tiers : \A m \in zset[u] : m \in zset'[u] \/ m.at + Window <= rateClock
  BY <1>11, <1>12
<1> QED BY <1>2, <1>3, <1>4, <1>5, <1>9, <1>10, <1>12, <1>13, <1>14, <1>15

\* A tier that admits a request has counted every payment of the span its stamp is in:
\* what was removed before it was executed is older.
LEMMA RateAdmits ==
    ASSUME RateInv, NEW r \in Incoming, _redis_admit_tier(r)
    PROVE  RateInv'
<1> DEFINE t == TierOf(r)
           stamp == inflight[r].stamp
           added == Executed(r)
           fits == Fits(added, r)
           paidNow == inflight[r].paid \cup {[tier |-> t, at |-> stamp]}
<1>0. ExecutesTier(r)
  BY DEF _redis_admit_tier
<1>1. /\ inflight[r].pc \in {"key", "team", "tenant"}
      /\ inflight' = [inflight EXCEPT ![r].pc = IF fits THEN NextTier[inflight[r].pc] ELSE "undo",
                          ![r].paid = IF fits THEN paidNow ELSE inflight[r].paid,
                          ![r].sent = FALSE]
      /\ UNCHANGED <<rateClock, localWindow, emitted, announced, recoveries>>
      /\ rateClock <= stamp + MaxLag
  BY DEF _redis_admit_tier, ExecutesTier, AtTier, TierAnswers, clockUnchanged, healthUnchanged, localUnchanged
<1>2. /\ inflight[r] \in RequestRecords /\ t \in Tiers
      /\ inflight[r].path = "none" /\ Counting(r)
      /\ added \in SUBSET Members /\ IsFiniteSet(added)
      /\ zset' \in [Tiers -> SUBSET Members] /\ zset'[t] = added
      /\ \A u \in Tiers : IsFiniteSet(zset'[u])
      /\ [req |-> r, at |-> stamp] \in added
      /\ stamp \in Nat /\ stamp <= rateClock /\ rateClock \in Nat
  BY <1>0, TierExecuted
<1>3. \A u \in Tiers : \A m \in zset[u] : m \in zset'[u] \/ m.at + Window <= rateClock
  BY <1>0, TierExecuted
<1> HIDE DEF t, added, fits
<1>7. inflight'[r] \in RequestRecords /\ inflight' \in [Incoming -> {[pc |-> "new"]} \cup RequestRecords]
  <2>1. NextTier[inflight[r].pc] \in {"team", "tenant", "stream"}
    BY <1>1 DEF NextTier
  <2>2. paidNow \in SUBSET Payments
    BY <1>2 DEF RequestRecords, Payments
  <2>3. inflight \in [Incoming -> {[pc |-> "new"]} \cup RequestRecords]
    BY DEF RateInv, RateTypes
  <2> QED BY <2>1, <2>2, <2>3, <1>1, <1>2 DEF RequestRecords
<1>8. RateTypes'
  BY <1>1, <1>2, <1>7 DEF RateInv, RateTypes
<1>9. inflight'[r].path = "none" /\ inflight'[r].stamp = stamp
  BY <1>1, <1>2 DEF RequestRecords, RateInv, RateTypes
<1>10. \A q \in Incoming : q # r => inflight'[q] = inflight[q]
  BY <1>1 DEF RateInv, RateTypes
<1>11. RefusedUnadmitted' /\ StampsPast'
  <2>1. RefusedUnadmitted'
    BY <1>9, <1>10 DEF RateInv, RefusedUnadmitted
  <2>2. inflight[r].pc # "new"
    BY <1>1
  <2>3. rateClock' >= rateClock /\ rateClock' \in Nat
    BY <1>1, <1>2
  <2>4. \A q \in Incoming : inflight'[q].pc # "new" =>
           inflight[q].pc # "new" /\ inflight'[q].stamp = inflight[q].stamp
    BY <2>2, <1>9, <1>10
  <2> QED BY <2>1, <2>3, <2>4, StampsKept
<1>12. LocalWithin' /\ AnnouncedPerRecovery'
  BY <1>1 DEF RateInv, LocalWithin, AnnouncedPerRecovery
<1>15. CASE ~fits
  <2>1. inflight'[r].pc = "undo"
    BY <1>1, <1>2, <1>15 DEF RequestRecords, RateInv, RateTypes
  <2>2. \A q \in Incoming : Counting(q)' => Counting(q) /\ inflight'[q].paid = inflight[q].paid
    BY <2>1, <1>10 DEF Counting
  <2>3. rateClock' >= rateClock
    BY <1>1, <1>2
  <2>4. ASSUME NEW q \in Incoming, NEW u \in Tiers, NEW n \in Nat, [req |-> q, at |-> n] \in zset[u]
        PROVE  [req |-> q, at |-> n] \in zset'[u] \/ n + Window <= rateClock'
    BY <2>4, <1>1, <1>3
  <2>5. PaymentsLast' /\ CountsWithin'
    BY <2>2, <2>3, <2>4, <1>8, NothingPaid
  <2> QED BY <2>5, <1>8, <1>11, <1>12 DEF RateInv
<1>16. CASE fits
  <2>1. /\ inflight'[r].pc = NextTier[inflight[r].pc]
        /\ inflight'[r].paid = paidNow
    BY <1>1, <1>2, <1>16 DEF RequestRecords, RateInv, RateTypes
  <2>2. Counting(r)
    BY <1>1 DEF Counting
  <2>3. PaymentsLast'
    <3> SUFFICES ASSUME NEW q \in Incoming, Counting(q)', NEW p \in inflight'[q].paid
                 PROVE  [req |-> q, at |-> p.at] \in zset'[p.tier] \/ p.at + Window <= rateClock'
      BY DEF PaymentsLast
    <3>1. CASE q = r /\ p = [tier |-> t, at |-> stamp]
      BY <3>1, <1>2
    <3>2. CASE ~(q = r /\ p = [tier |-> t, at |-> stamp])
      <4>1. Counting(q) /\ p \in inflight[q].paid
        BY <3>2, <2>1, <2>2, <1>10 DEF Counting
      <4>2. inflight[q] \in RequestRecords
        BY <4>1 DEF Counting, RateInv, RateTypes
      <4>3. p.tier \in Tiers /\ p.at \in Nat
        BY <4>1, <4>2 DEF RequestRecords, Payments
      <4>4. [req |-> q, at |-> p.at] \in zset[p.tier] \/ p.at + Window <= rateClock
        BY <4>1 DEF RateInv, PaymentsLast
      <4> QED BY <4>3, <4>4, <1>1, <1>3
    <3> QED BY <3>1, <3>2
  <2>4. ASSUME NEW u \in Tiers, NEW from \in Nat
        PROVE  IsFiniteSet(CountedIn(u, from)') /\ Cardinality(CountedIn(u, from)') <= LimitOf(u)
    <3>1. CASE u = t /\ stamp \in Span(from)
      <4> DEFINE payers == {m.req : m \in added}
      <4>1. CountedIn(u, from)' \subseteq payers
        <5> SUFFICES ASSUME NEW q \in Incoming, Counting(q)', NEW p \in inflight'[q].paid,
                            p.tier = t, p.at \in Span(from)
                     PROVE  q \in payers
          BY <3>1 DEF CountedIn
        <5>1. p.at + Window > rateClock'
          BY <3>1, <1>1, <1>2, RateAssumption DEF Span
        <5>2. inflight'[q] \in RequestRecords
          BY <1>8 DEF Counting, RateTypes
        <5>3. p.at \in Nat
          BY <5>2 DEF RequestRecords, Payments
        <5>4. [req |-> q, at |-> p.at] \in zset'[p.tier] \/ p.at + Window <= rateClock'
          BY <2>3 DEF PaymentsLast
        <5>5. ~(p.at + Window <= rateClock')
          BY <5>1, <5>3, <1>1, <1>2, RateAssumption
        <5>6. [req |-> q, at |-> p.at] \in added
          BY <5>4, <5>5, <1>2
        <5> QED BY <5>6
      <4>2. IsFiniteSet(payers) /\ Cardinality(payers) <= Cardinality(added)
        <5> DEFINE payer == [m \in added |-> m.req]
        <5>1. payer \in Surjection(added, payers)
          BY Zenon DEF Surjection
        <5> HIDE DEF payers, payer
        <5> QED BY <5>1, <1>2, FS_Surjection
      <4>3. IsFiniteSet(CountedIn(u, from)') /\ Cardinality(CountedIn(u, from)') <= Cardinality(payers)
        BY <4>1, <4>2, FS_Subset
      <4>4. Cardinality(added) <= LimitOf(u)
        BY <3>1, <1>16 DEF fits, Fits, t
      <4>5. /\ Cardinality(added) \in Nat /\ Cardinality(payers) \in Nat /\ LimitOf(u) \in Nat
            /\ Cardinality(CountedIn(u, from)') \in Nat
        BY <1>2, <4>2, <4>3, FS_CardinalityType, RateAssumption DEF LimitOf
      <4> HIDE DEF payers
      <4> QED BY <4>2, <4>3, <4>4, <4>5
    <3>2. CASE ~(u = t /\ stamp \in Span(from))
      <4>1. CountedIn(u, from)' \subseteq CountedIn(u, from)
        BY <3>2, <2>1, <2>2, <1>10 DEF CountedIn, Counting
      <4>2. IsFiniteSet(CountedIn(u, from)) /\ Cardinality(CountedIn(u, from)) <= LimitOf(u)
        BY DEF RateInv, CountsWithin
      <4>3. IsFiniteSet(CountedIn(u, from)') /\ Cardinality(CountedIn(u, from)') <= Cardinality(CountedIn(u, from))
        BY <4>1, <4>2, FS_Subset
      <4>4. /\ Cardinality(CountedIn(u, from)) \in Nat /\ Cardinality(CountedIn(u, from)') \in Nat
            /\ LimitOf(u) \in Nat
        BY <4>2, <4>3, FS_CardinalityType, RateAssumption DEF LimitOf
      <4> QED BY <4>2, <4>3, <4>4
    <3> QED BY <3>1, <3>2
  <2>5. CountsWithin'
    BY <2>4 DEF CountsWithin, LimitOf
  <2> QED BY <2>3, <2>5, <1>8, <1>11, <1>12 DEF RateInv
<1> QED BY <1>15, <1>16

\* A step of one request that moves it on without a payment, and leaves the sorted sets
\* and the local windows.
LEMMA RequestMoves ==
    ASSUME RateInv, NEW r \in Incoming, NEW p, NEW way, NEW holds,
           inflight[r].pc # "new",
           p \in {"legacy", "tenant", "failed", "admitted", "undo", "refused", "rejected", "open",
                  "answered", "delete", "closed"},
           way \in {"none", "redis", "local"}, holds \in BOOLEAN,
           inflight' = [inflight EXCEPT ![r].pc = p, ![r].path = way, ![r].held = holds],
           Counting(r) \/ p \in {"undo", "refused"},
           p \in {"undo", "refused", "tenant", "failed", "legacy"} => way = "none"
    PROVE  /\ inflight' \in [Incoming -> {[pc |-> "new"]} \cup RequestRecords]
           /\ \A q \in Incoming : Counting(q)' => Counting(q) /\ inflight'[q].paid = inflight[q].paid
           /\ \A q \in Incoming : inflight'[q].pc # "new" =>
                 inflight[q].pc # "new" /\ inflight'[q].stamp = inflight[q].stamp
           /\ RefusedUnadmitted'
<1>1. inflight \in [Incoming -> {[pc |-> "new"]} \cup RequestRecords] /\ inflight[r] \in RequestRecords
  BY DEF RateInv, RateTypes
<1>2. inflight' \in [Incoming -> {[pc |-> "new"]} \cup RequestRecords]
  BY <1>1 DEF RequestRecords
<1>3. \A q \in Incoming : q # r => inflight'[q] = inflight[q]
  BY <1>1
<1>4. /\ inflight'[r].pc = p /\ inflight'[r].path = way /\ inflight'[r].paid = inflight[r].paid
      /\ inflight'[r].stamp = inflight[r].stamp
  BY <1>1 DEF RequestRecords
<1>5. \A q \in Incoming : Counting(q)' => Counting(q) /\ inflight'[q].paid = inflight[q].paid
  BY <1>3, <1>4 DEF Counting
<1>6. RefusedUnadmitted'
  BY <1>3, <1>4 DEF RateInv, RefusedUnadmitted, Undecided
<1>7. \A q \in Incoming : inflight'[q].pc # "new" =>
         inflight[q].pc # "new" /\ inflight'[q].stamp = inflight[q].stamp
  BY <1>3, <1>4
<1> QED BY <1>2, <1>5, <1>6, <1>7

\* What a request's move leaves alone keeps the invariant.
LEMMA MovesKeep ==
    ASSUME RateInv, NEW r \in Incoming, NEW p, NEW way, NEW holds,
           inflight[r].pc # "new",
           p \in {"legacy", "tenant", "failed", "admitted", "undo", "refused", "rejected", "open",
                  "answered", "delete", "closed"},
           way \in {"none", "redis", "local"}, holds \in BOOLEAN,
           inflight' = [inflight EXCEPT ![r].pc = p, ![r].path = way, ![r].held = holds],
           Counting(r) \/ p \in {"undo", "refused"},
           p \in {"undo", "refused", "tenant", "failed", "legacy"} => way = "none",
           UNCHANGED <<rateClock, zset, localWindow>>,
           emitted' \in BOOLEAN, announced' \in Nat, recoveries' \in Nat, AnnouncedPerRecovery'
    PROVE  RateInv'
<1>1. /\ inflight' \in [Incoming -> {[pc |-> "new"]} \cup RequestRecords]
      /\ \A q \in Incoming : Counting(q)' => Counting(q) /\ inflight'[q].paid = inflight[q].paid
      /\ \A q \in Incoming : inflight'[q].pc # "new" =>
            inflight[q].pc # "new" /\ inflight'[q].stamp = inflight[q].stamp
      /\ RefusedUnadmitted'
  BY RequestMoves
<1>2. RateTypes'
  BY <1>1 DEF RateInv, RateTypes
<1>3. PaymentsLast' /\ CountsWithin' /\ StampsPast'
  <2>1. rateClock' >= rateClock /\ rateClock' \in Nat
    BY DEF RateInv, RateTypes
  <2>2. StampsPast'
    BY <1>1, <2>1, StampsKept
  <2> QED BY <1>1, <1>2, <2>1, <2>2, NothingPaid
<1>4. LocalWithin'
  BY DEF RateInv, LocalWithin
<1> QED BY <1>1, <1>2, <1>3, <1>4 DEF RateInv

\* The record of a request that is in progress, after a change of its pc.
LEMMA PcMoves ==
    ASSUME RateInv, NEW r \in Incoming, NEW p, inflight[r].pc # "new", ReqGoTo(r, p)
    PROVE  /\ inflight[r] \in RequestRecords
           /\ inflight' = [inflight EXCEPT ![r].pc = p, ![r].path = inflight[r].path,
                                           ![r].held = inflight[r].held]
<1>1. inflight \in [Incoming -> {[pc |-> "new"]} \cup RequestRecords] /\ inflight[r] \in RequestRecords
  BY DEF RateInv, RateTypes
<1>2. [inflight EXCEPT ![r].pc = p] = [inflight EXCEPT ![r].pc = p, ![r].path = inflight[r].path,
                                           ![r].held = inflight[r].held]
  BY <1>1 DEF RequestRecords
<1> QED BY <1>1, <1>2 DEF ReqGoTo

\* The steps of one request that pay nothing keep the invariant.
LEMMA RequestsKeep ==
    ASSUME RateInv, NEW r \in Incoming,
           \/ NoTeamTier(r) \/ ReserveStream(r) \/ AnswerLost(r) \/ _handle_redis_error(r)
           \/ RefuseAdmitted(r) \/ _handle_stream(r) \/ stream_slot(r) \/ DeleteCounter(r)
    PROVE  RateInv'
<1> USE DEF clockUnchanged, healthUnchanged, localUnchanged
<1>a. inflight[r].pc # "new" => inflight[r] \in RequestRecords
  BY DEF RateInv, RateTypes
<1>b. /\ emitted \in BOOLEAN /\ announced \in Nat /\ recoveries \in Nat /\ AnnouncedPerRecovery
  BY DEF RateInv, RateTypes
<1>c. inflight[r].pc \in {"key", "team", "tenant", "stream", "failed", "legacy"} => inflight[r].path = "none"
  BY DEF RateInv, RefusedUnadmitted, Undecided
<1>d. UNCHANGED <<emitted, announced, recoveries>> =>
         emitted' \in BOOLEAN /\ announced' \in Nat /\ recoveries' \in Nat /\ AnnouncedPerRecovery'
  BY <1>b DEF AnnouncedPerRecovery
<1>e. inflight[r].pc # "new" => inflight[r].path \in {"none", "redis", "local"} /\ inflight[r].held \in BOOLEAN
  BY <1>a DEF RequestRecords
<1>1. CASE NoTeamTier(r)
  <2>1. inflight[r].pc = "team" /\ ReqGoTo(r, "tenant")
    BY <1>1 DEF NoTeamTier
  <2>2. UNCHANGED <<rateClock, zset, localWindow, emitted, announced, recoveries>>
    BY <1>1 DEF NoTeamTier
  <2>3. Counting(r) /\ inflight[r].path = "none"
    BY <2>1, <1>c DEF Counting
  <2>4. inflight' = [inflight EXCEPT ![r].pc = "tenant", ![r].path = inflight[r].path,
                                     ![r].held = inflight[r].held]
    BY <2>1, PcMoves
  <2> QED BY <2>1, <2>2, <2>3, <2>4, <1>d, <1>e, MovesKeep
<1>2. CASE ReserveStream(r)
  <2>1. inflight[r].pc = "stream" /\ UNCHANGED <<rateClock, zset, localWindow, emitted, announced, recoveries>>
    BY <1>2 DEF ReserveStream
  <2>2. Counting(r) /\ inflight[r].path = "none" /\ inflight[r] \in RequestRecords
    BY <2>1, <1>a, <1>c DEF Counting
  <2>3. CASE ReqGoTo(r, "undo")
    <3>1. inflight' = [inflight EXCEPT ![r].pc = "undo", ![r].path = inflight[r].path,
                                       ![r].held = inflight[r].held]
      BY <2>1, <2>3, PcMoves
    <3> QED BY <3>1, <2>1, <2>2, <1>d, <1>e, MovesKeep
  <2>4. CASE inflight' = [inflight EXCEPT ![r].pc = "admitted", ![r].path = "redis"]
    <3>1. inflight' = [inflight EXCEPT ![r].pc = "admitted", ![r].path = "redis",
                                       ![r].held = inflight[r].held]
      BY <2>2, <2>4 DEF RequestRecords, RateInv, RateTypes
    <3>2. inflight[r].held \in BOOLEAN
      BY <2>1, <1>e
    <3>3. emitted' \in BOOLEAN /\ announced' \in Nat /\ recoveries' \in Nat /\ AnnouncedPerRecovery'
      BY <2>1, <1>d
    <3> QED BY <3>1, <3>2, <3>3, <2>1, <2>2, MovesKeep
  <2>5. CASE inflight' = [inflight EXCEPT ![r].pc = "admitted", ![r].path = "redis", ![r].held = TRUE]
    BY <2>5, <2>1, <2>2, <1>d, MovesKeep
  <2> QED BY <1>2, <2>3, <2>4, <2>5 DEF ReserveStream
<1>3. CASE _handle_redis_error(r)
  <2>1. /\ inflight[r].pc \in {"key", "team", "tenant", "stream", "failed"} /\ ReqGoTo(r, "legacy")
        /\ UNCHANGED <<rateClock, zset, localWindow, recoveries>>
        /\ emitted' = TRUE /\ announced' = IF emitted THEN announced ELSE announced + 1
    BY <1>3 DEF _handle_redis_error, AtTier
  <2>2. Counting(r) /\ inflight[r].path = "none"
    BY <2>1, <1>c DEF Counting
  <2>3. inflight' = [inflight EXCEPT ![r].pc = "legacy", ![r].path = inflight[r].path,
                                     ![r].held = inflight[r].held]
    BY <2>1, PcMoves
  <2>4. AnnouncedPerRecovery' /\ announced' \in Nat
    BY <2>1, <1>b DEF AnnouncedPerRecovery
  <2> QED BY <2>1, <2>2, <2>3, <2>4, <1>b, <1>e, MovesKeep
<1>4. CASE RefuseAdmitted(r) \/ _handle_stream(r) \/ stream_slot(r) \/ DeleteCounter(r)
  <2>1. UNCHANGED <<rateClock, zset, localWindow, emitted, announced, recoveries>>
    BY <1>4 DEF RefuseAdmitted, _handle_stream, stream_slot, DeleteCounter
  <2>2. inflight[r].pc \in {"admitted", "open", "delete"}
    BY <1>4 DEF RefuseAdmitted, _handle_stream, stream_slot, DeleteCounter
  <2>3. PICK p \in {"rejected", "open", "answered", "delete", "closed"} : ReqGoTo(r, p)
    BY <1>4 DEF RefuseAdmitted, _handle_stream, stream_slot, DeleteCounter
  <2>4. Counting(r)
    BY <2>2 DEF Counting
  <2>5. inflight' = [inflight EXCEPT ![r].pc = p, ![r].path = inflight[r].path,
                                     ![r].held = inflight[r].held]
    BY <2>2, <2>3, PcMoves
  <2>6. inflight[r].path \in {"none", "redis", "local"} /\ inflight[r].held \in BOOLEAN
    BY <2>2, <1>e
  <2>7. emitted' \in BOOLEAN /\ announced' \in Nat /\ recoveries' \in Nat /\ AnnouncedPerRecovery'
    BY <2>1, <1>d
  <2>8. inflight[r].pc # "new" /\ UNCHANGED <<rateClock, zset, localWindow>>
    BY <2>1, <2>2
  <2>9. p \notin {"undo", "refused", "tenant", "failed", "legacy"}
    BY <2>3
  <2> QED BY <2>4, <2>5, <2>6, <2>7, <2>8, <2>9, MovesKeep
<1>5. CASE AnswerLost(r)
  <2>1. ReqGoTo(r, "failed") /\ UNCHANGED <<rateClock, localWindow, emitted, announced, recoveries>>
    BY <1>5 DEF AnswerLost
  <2>2. inflight[r].pc \in {"key", "team", "tenant", "stream"}
    BY <1>5 DEF AnswerLost, ExecutesTier, AtTier
  <2>3. inflight' = [inflight EXCEPT ![r].pc = "failed", ![r].path = inflight[r].path,
                                     ![r].held = inflight[r].held]
    BY <2>1, <2>2, PcMoves
  <2>4. Counting(r) /\ inflight[r].path = "none"
    BY <2>2, <1>c DEF Counting
  <2>5. CASE UNCHANGED zset
    BY <2>1, <2>2, <2>3, <2>4, <2>5, <1>d, <1>e, MovesKeep
  <2>6. CASE ExecutesTier(r)
    <3>1. /\ inflight' \in [Incoming -> {[pc |-> "new"]} \cup RequestRecords]
          /\ \A q \in Incoming : Counting(q)' => Counting(q) /\ inflight'[q].paid = inflight[q].paid
          /\ \A q \in Incoming : inflight'[q].pc # "new" =>
                inflight[q].pc # "new" /\ inflight'[q].stamp = inflight[q].stamp
          /\ RefusedUnadmitted'
      BY <2>2, <2>3, <2>4, <1>e, RequestMoves
    <3>2. /\ zset' \in [Tiers -> SUBSET Members] /\ \A u \in Tiers : IsFiniteSet(zset'[u])
          /\ \A u \in Tiers : \A m \in zset[u] : m \in zset'[u] \/ m.at + Window <= rateClock
      BY <2>6, TierExecuted
    <3>3. RateTypes'
      BY <2>1, <3>1, <3>2 DEF RateInv, RateTypes
    <3>4. rateClock' >= rateClock /\ rateClock' \in Nat
      BY <2>1 DEF RateInv, RateTypes
    <3>5. ASSUME NEW q \in Incoming, NEW u \in Tiers, NEW n \in Nat, [req |-> q, at |-> n] \in zset[u]
          PROVE  [req |-> q, at |-> n] \in zset'[u] \/ n + Window <= rateClock'
      BY <3>5, <3>2, <2>1
    <3>6. PaymentsLast' /\ CountsWithin'
      BY <3>1, <3>3, <3>4, <3>5, NothingPaid
    <3>7. StampsPast'
      BY <3>1, <3>4, StampsKept
    <3>8. LocalWithin' /\ AnnouncedPerRecovery'
      BY <2>1, <1>d DEF RateInv, LocalWithin
    <3> QED BY <3>1, <3>3, <3>6, <3>7, <3>8 DEF RateInv
  <2> QED BY <1>5, <2>5, <2>6 DEF AnswerLost
<1> QED BY <1>1, <1>2, <1>3, <1>4, <1>5

\* A request that is stamped takes the time of the clock.
LEMMA StampKeeps ==
    ASSUME RateInv, NEW r \in Incoming, StampTier(r)
    PROVE  RateInv'
<1>1. /\ inflight[r].pc \in {"key", "team", "tenant"}
      /\ inflight' = [inflight EXCEPT ![r].sent = TRUE, ![r].stamp = rateClock]
      /\ UNCHANGED <<rateClock, zset, localWindow, emitted, announced, recoveries>>
  BY DEF StampTier, AtTier, clockUnchanged, healthUnchanged, localUnchanged
<1>2. /\ inflight \in [Incoming -> {[pc |-> "new"]} \cup RequestRecords]
      /\ inflight[r] \in RequestRecords /\ rateClock \in Nat
  BY <1>1 DEF RateInv, RateTypes
<1>3. inflight' \in [Incoming -> {[pc |-> "new"]} \cup RequestRecords]
  BY <1>1, <1>2 DEF RequestRecords
<1>4. \A q \in Incoming : q # r => inflight'[q] = inflight[q]
  BY <1>1, <1>2
<1>5. /\ inflight'[r].pc = inflight[r].pc /\ inflight'[r].path = inflight[r].path
      /\ inflight'[r].paid = inflight[r].paid /\ inflight'[r].stamp = rateClock
  BY <1>1, <1>2 DEF RequestRecords
<1>6. RateTypes'
  BY <1>1, <1>3 DEF RateInv, RateTypes
<1>7. RefusedUnadmitted' /\ StampsPast'
  BY <1>1, <1>2, <1>4, <1>5 DEF RateInv, RefusedUnadmitted, StampsPast
<1>8. PaymentsLast' /\ CountsWithin'
  <2>1. \A q \in Incoming : Counting(q)' => Counting(q) /\ inflight'[q].paid = inflight[q].paid
    BY <1>4, <1>5 DEF Counting
  <2>2. rateClock' >= rateClock
    BY <1>1, <1>2
  <2> QED BY <1>1, <1>6, <2>1, <2>2, NothingPaid
<1>9. LocalWithin' /\ AnnouncedPerRecovery'
  BY <1>1 DEF RateInv, LocalWithin, AnnouncedPerRecovery
<1> QED BY <1>6, <1>7, <1>8, <1>9 DEF RateInv

\* A new request has paid nothing.
LEMMA RequestArrives ==
    ASSUME RateInv, NEW r \in Incoming, NEW k \in VKeys, NEW stream \in BOOLEAN,
           check_rate_limit(r, k, stream)
    PROVE  RateInv'
<1>1. /\ inflight' = [inflight EXCEPT ![r] = [pc |-> IF degraded THEN "legacy" ELSE "key", key |-> k,
                          stream |-> stream, path |-> "none", paid |-> {}, held |-> FALSE,
                          sent |-> FALSE, stamp |-> 0]]
      /\ UNCHANGED <<rateClock, zset, localWindow, emitted, announced, recoveries>>
  BY DEF check_rate_limit, clockUnchanged, healthUnchanged, localUnchanged
<1>2. inflight \in [Incoming -> {[pc |-> "new"]} \cup RequestRecords]
  BY DEF RateInv, RateTypes
<1>3. /\ inflight'[r] \in RequestRecords /\ inflight'[r].paid = {} /\ inflight'[r].path = "none"
      /\ inflight'[r].stamp = 0
  BY <1>1, <1>2 DEF RequestRecords
<1>4. \A q \in Incoming : q # r => inflight'[q] = inflight[q]
  BY <1>1, <1>2
<1>5. inflight' \in [Incoming -> {[pc |-> "new"]} \cup RequestRecords]
  BY <1>1, <1>2, <1>3
<1>6. RateTypes'
  BY <1>1, <1>5 DEF RateInv, RateTypes
<1>7. RefusedUnadmitted' /\ StampsPast'
  BY <1>1, <1>3, <1>4 DEF RateInv, RateTypes, RefusedUnadmitted, StampsPast
<1>8. PaymentsLast' /\ CountsWithin'
  <2>1. \A q \in Incoming : Counting(q)' =>
           \/ Counting(q) /\ inflight'[q].paid = inflight[q].paid
           \/ inflight'[q].paid = {}
    BY <1>3, <1>4 DEF Counting
  <2>2. rateClock' >= rateClock
    BY <1>1 DEF RateInv, RateTypes
  <2> QED BY <1>1, <1>6, <2>1, <2>2, NothingPaid
<1>9. LocalWithin' /\ AnnouncedPerRecovery'
  BY <1>1 DEF RateInv, LocalWithin, AnnouncedPerRecovery
<1> QED BY <1>6, <1>7, <1>8, <1>9 DEF RateInv

\* The compensation takes the members of its own request, which no longer counts.
LEMMA RefusedPaysBack ==
    ASSUME RateInv, NEW r \in Incoming, _redis_zrem(r)
    PROVE  RateInv'
<1>1. /\ inflight[r].pc = "undo" /\ ReqGoTo(r, "refused")
      /\ UNCHANGED <<rateClock, localWindow, emitted, announced, recoveries>>
  BY DEF _redis_zrem, clockUnchanged, healthUnchanged, localUnchanged
<1>2. /\ inflight[r] \in RequestRecords
      /\ inflight' = [inflight EXCEPT ![r].pc = "refused", ![r].path = inflight[r].path,
                                      ![r].held = inflight[r].held]
  BY <1>1, PcMoves
<1>3. inflight[r].path = "none"
  BY <1>1 DEF RateInv, RefusedUnadmitted, Undecided
<1>4. /\ inflight' \in [Incoming -> {[pc |-> "new"]} \cup RequestRecords]
      /\ \A q \in Incoming : Counting(q)' => Counting(q) /\ inflight'[q].paid = inflight[q].paid
      /\ \A q \in Incoming : inflight'[q].pc # "new" =>
            inflight[q].pc # "new" /\ inflight'[q].stamp = inflight[q].stamp
      /\ RefusedUnadmitted'
  BY <1>1, <1>2, <1>3, RequestMoves DEF RequestRecords
<1>5. inflight'[r].pc = "refused"
  BY <1>1 DEF ReqGoTo, RateInv, RateTypes
<1>6. /\ zset' \in [Tiers -> SUBSET Members]
      /\ \A t \in Tiers : /\ zset'[t] \subseteq zset[t]
                          /\ \A m \in zset[t] : m \in zset'[t] \/ m.req = r
  <2>0. zset \in [Tiers -> SUBSET Members]
    BY DEF RateInv, RateTypes
  <2> DEFINE back(t) == {[req |-> r, at |-> p.at] : p \in {q \in inflight[r].paid : q.tier = t}}
  <2>1. CASE redisUp
    <3>1. zset' = [t \in Tiers |-> zset[t] \ back(t)]
      BY <2>1 DEF _redis_zrem
    <3>2. \A t : \A m \in back(t) : m.req = r
      OBVIOUS
    <3> HIDE DEF back
    <3>3. \A t \in Tiers : zset'[t] = zset[t] \ back(t)
      BY <3>1
    <3>4. \A t \in Tiers : zset'[t] \subseteq zset[t]
      BY <3>3
    <3> QED BY <3>1, <3>2, <3>3, <3>4, <2>0
  <2>2. CASE ~redisUp
    BY <2>2, <2>0 DEF _redis_zrem
  <2> QED BY <2>1, <2>2
<1>7. RateTypes'
  <2>1. \A t \in Tiers : IsFiniteSet(zset[t])
    BY DEF RateInv, RateTypes
  <2>2. \A t \in Tiers : IsFiniteSet(zset'[t])
    BY <2>1, <1>6, FS_Subset
  <2> QED BY <2>2, <1>1, <1>4, <1>6 DEF RateInv, RateTypes
<1>8. PaymentsLast' /\ CountsWithin' /\ StampsPast'
  <2>1. ASSUME NEW q \in Incoming, Counting(q)', NEW t \in Tiers, NEW n \in Nat,
               [req |-> q, at |-> n] \in zset[t]
        PROVE  [req |-> q, at |-> n] \in zset'[t]
    <3>1. q # r
      BY <2>1, <1>5 DEF Counting
    <3> QED BY <3>1, <2>1, <1>6
  <2>2. rateClock' >= rateClock /\ rateClock' \in Nat
    BY <1>1 DEF RateInv, RateTypes
  <2>3. StampsPast'
    BY <1>4, <2>2, StampsKept
  <2> QED BY <1>4, <1>7, <2>1, <2>2, <2>3, NothingPaid
<1>9. LocalWithin' /\ AnnouncedPerRecovery'
  BY <1>1 DEF RateInv, LocalWithin, AnnouncedPerRecovery
<1> QED BY <1>4, <1>7, <1>8, <1>9 DEF RateInv

\* The fallback adds a member to a window only where there is room.
LEMMA FallbackKeeps ==
    ASSUME RateInv, NEW r \in Incoming, _legacy_check_rate_limit(r)
    PROVE  RateInv'
<1> DEFINE both == {inflight[r].key, "tenant"}
           live(t) == {m \in localWindow[t] : m.at + Window >= rateClock}
           mine == [req |-> r, at |-> rateClock]
<1>1. inflight[r].pc = "legacy" /\ UNCHANGED <<rateClock, zset, emitted, announced, recoveries>>
  BY DEF _legacy_check_rate_limit, clockUnchanged, healthUnchanged
<1>2. /\ inflight[r] \in RequestRecords /\ Counting(r) /\ inflight[r].path = "none"
      /\ rateClock \in Nat /\ emitted \in BOOLEAN /\ announced \in Nat /\ recoveries \in Nat
  BY <1>1 DEF RateInv, RateTypes, Counting, RefusedUnadmitted, Undecided
<1>3. AnnouncedPerRecovery'
  BY <1>1 DEF RateInv, AnnouncedPerRecovery
<1>4. CASE ReqGoTo(r, "refused") /\ localUnchanged
  <2>1. inflight' = [inflight EXCEPT ![r].pc = "refused", ![r].path = inflight[r].path,
                                     ![r].held = inflight[r].held]
    BY <1>1, <1>4, PcMoves
  <2>2. UNCHANGED localWindow /\ inflight[r].held \in BOOLEAN
    BY <1>2, <1>4 DEF localUnchanged, RequestRecords
  <2> QED BY <2>1, <2>2, <1>1, <1>2, <1>3, MovesKeep
<1>5. CASE /\ \A t \in both : Cardinality(live(t)) < Rpm
           /\ localWindow' = [t \in Tiers |-> IF t \in both THEN live(t) \cup {mine} ELSE live(t)]
           /\ inflight' = [inflight EXCEPT ![r].pc = "admitted", ![r].path = "local", ![r].held = inflight[r].stream]
  <2>1. inflight[r].stream \in BOOLEAN
    BY <1>2 DEF RequestRecords
  <2>2. /\ inflight' \in [Incoming -> {[pc |-> "new"]} \cup RequestRecords]
        /\ \A q \in Incoming : Counting(q)' => Counting(q) /\ inflight'[q].paid = inflight[q].paid
        /\ \A q \in Incoming : inflight'[q].pc # "new" =>
              inflight[q].pc # "new" /\ inflight'[q].stamp = inflight[q].stamp
        /\ RefusedUnadmitted'
    <3>1. inflight' = [inflight EXCEPT ![r].pc = "admitted", ![r].path = "local", ![r].held = inflight[r].stream]
      BY <1>5
    <3>2. inflight[r].pc # "new" /\ Counting(r)
      BY <1>1, <1>2
    <3> QED BY <3>1, <3>2, <2>1, RequestMoves
  <2>3. mine \in Members
    BY <1>2 DEF Members
  <2>4. ASSUME NEW t \in Tiers
        PROVE  /\ localWindow'[t] \in SUBSET Members /\ IsFiniteSet(localWindow'[t])
               /\ Cardinality(localWindow'[t]) <= Rpm
    <3>1. /\ localWindow[t] \in SUBSET Members /\ IsFiniteSet(localWindow[t])
          /\ Cardinality(localWindow[t]) <= Rpm
      BY DEF RateInv, RateTypes, LocalWithin
    <3>2. live(t) \subseteq localWindow[t]
      OBVIOUS
    <3> HIDE DEF live, both, mine
    <3>3. IsFiniteSet(live(t)) /\ Cardinality(live(t)) <= Cardinality(localWindow[t])
      BY <3>1, <3>2, FS_Subset
    <3>4. /\ IsFiniteSet(live(t) \cup {mine})
          /\ Cardinality(live(t) \cup {mine}) <= Cardinality(live(t)) + 1
      <4>1. /\ IsFiniteSet(live(t) \cup {mine})
            /\ Cardinality(live(t) \cup {mine}) = IF mine \in live(t) THEN Cardinality(live(t))
                                                  ELSE Cardinality(live(t)) + 1
        BY <3>3, FS_AddElement
      <4>2. Cardinality(live(t)) \in Nat
        BY <3>3, FS_CardinalityType
      <4> QED BY <4>1, <4>2
    <3>5. /\ Cardinality(live(t)) \in Nat /\ Cardinality(localWindow[t]) \in Nat /\ Rpm \in Nat
          /\ Cardinality(live(t) \cup {mine}) \in Nat
      BY <3>1, <3>3, <3>4, FS_CardinalityType, RateAssumption
    <3>6. localWindow'[t] = IF t \in both THEN live(t) \cup {mine} ELSE live(t)
      BY <1>5
    <3>7. CASE t \in both
      <4>1. Cardinality(live(t)) < Rpm
        BY <3>7, <1>5
      <4> QED BY <4>1, <3>7, <3>6, <3>1, <3>2, <3>4, <3>5, <2>3
    <3>8. CASE t \notin both
      BY <3>8, <3>6, <3>1, <3>2, <3>3, <3>5
    <3> QED BY <3>7, <3>8
  <2>5. localWindow' \in [Tiers -> SUBSET Members]
    <3> HIDE DEF live, both, mine
    <3>1. localWindow' = [t \in Tiers |-> localWindow'[t]]
      BY <1>5
    <3> QED BY <3>1, <2>4
  <2>6. RateTypes'
    BY <1>1, <2>2, <2>4, <2>5 DEF RateInv, RateTypes
  <2>7. PaymentsLast' /\ CountsWithin' /\ StampsPast'
    <3>1. rateClock' >= rateClock /\ rateClock' \in Nat
      BY <1>1, <1>2
    <3>2. StampsPast'
      BY <2>2, <3>1, StampsKept
    <3> QED BY <1>1, <2>2, <2>6, <3>1, <3>2, NothingPaid
  <2>8. LocalWithin'
    BY <2>4 DEF LocalWithin
  <2> QED BY <2>2, <2>6, <2>7, <2>8, <1>3 DEF RateInv
<1> QED BY <1>4, <1>5 DEF _legacy_check_rate_limit

\* The clock, Redis and the health loop touch no request.
LEMMA WorldKeeps ==
    ASSUME RateInv, _health_loop \/ Pass \/ RedisFails \/ RedisReturns \/ UNCHANGED rateVars
    PROVE  RateInv'
<1> USE DEF clockUnchanged, healthUnchanged, localUnchanged
<1>1. UNCHANGED <<zset, localWindow, inflight>>
  BY DEF _health_loop, Pass, RedisFails, RedisReturns, rateVars
<1>2. rateClock' \in Nat /\ rateClock' >= rateClock
  <2>1. rateClock \in Nat
    BY DEF RateInv, RateTypes
  <2>2. rateClock' = rateClock \/ rateClock' = rateClock + 1
    BY DEF _health_loop, Pass, RedisFails, RedisReturns, rateVars
  <2> QED BY <2>1, <2>2
<1>3. /\ emitted' \in BOOLEAN /\ announced' \in Nat /\ recoveries' \in Nat
      /\ AnnouncedPerRecovery'
  <2>1. emitted \in BOOLEAN /\ announced \in Nat /\ recoveries \in Nat /\ AnnouncedPerRecovery
    BY DEF RateInv, RateTypes
  <2>2. CASE _health_loop
    <3>1. /\ announced' = announced
          /\ emitted' = IF redisUp THEN FALSE ELSE emitted
          /\ recoveries' = IF redisUp THEN recoveries + 1 ELSE recoveries
      BY <2>2 DEF _health_loop
    <3>2. CASE redisUp
      <4>1. emitted' = FALSE /\ recoveries' = recoveries + 1
        BY <3>1, <3>2
      <4>2. announced <= recoveries + 1
        BY <2>1 DEF AnnouncedPerRecovery
      <4>3. (announced <= recoveries + (IF emitted THEN 1 ELSE 0))'
        BY <4>1, <4>2, <3>1, <2>1
      <4>4. AnnouncedPerRecovery'
        BY <4>3 DEF AnnouncedPerRecovery
      <4>5. emitted' \in BOOLEAN
        BY <4>1, Zenon
      <4>6. announced' \in Nat /\ recoveries' \in Nat
        BY <4>1, <3>1, <2>1
      <4> QED BY <4>4, <4>5, <4>6, Zenon
    <3>3. CASE ~redisUp
      BY <3>1, <3>3, <2>1 DEF AnnouncedPerRecovery
    <3> QED BY <3>2, <3>3
  <2>3. CASE UNCHANGED <<emitted, announced, recoveries>>
    BY <2>1, <2>3 DEF AnnouncedPerRecovery
  <2> QED BY <2>2, <2>3 DEF Pass, RedisFails, RedisReturns, rateVars
<1>4. RateTypes'
  BY <1>1, <1>2, <1>3 DEF RateInv, RateTypes
<1>5. PaymentsLast' /\ CountsWithin' /\ StampsPast'
  <2>1. \A q \in Incoming : Counting(q)' => Counting(q) /\ inflight'[q].paid = inflight[q].paid
    BY <1>1 DEF Counting
  <2>2. StampsPast'
    BY <1>1, <1>2, StampsKept
  <2> QED BY <1>1, <1>2, <1>4, <2>1, <2>2, NothingPaid
<1>6. RefusedUnadmitted' /\ LocalWithin'
  BY <1>1 DEF RateInv, RefusedUnadmitted, LocalWithin
<1> QED BY <1>3, <1>4, <1>5, <1>6 DEF RateInv

\* The rate limits hold for any number of requests, keys and outages: within a window less
\* the lag of a transaction the stamps a tier admits do not exceed its limit, in whatever
\* order the transactions are executed and compensated or their answers are lost, and an
\* outage is announced once per recovery.
THEOREM RateLimitsHold == RateSpec => []LimitsHold
<1>1. RateInv /\ [RateNext]_rateVars => RateInv'
  <2> SUFFICES ASSUME RateInv, [RateNext]_rateVars PROVE RateInv'
    OBVIOUS
  <2>1. ASSUME NEW r \in Incoming, NEW k \in VKeys, NEW stream \in BOOLEAN, check_rate_limit(r, k, stream)
        PROVE  RateInv'
    BY <2>1, RequestArrives
  <2>2. ASSUME NEW r \in Incoming, RequestStep(r)
        PROVE  RateInv'
    BY <2>2, StampKeeps, RateAdmits, RequestsKeep, RefusedPaysBack, FallbackKeeps DEF RequestStep
  <2>3. CASE _health_loop \/ Pass \/ RedisFails \/ RedisReturns \/ UNCHANGED rateVars
    BY <2>3, WorldKeeps
  <2> QED BY <2>1, <2>2, <2>3 DEF RateNext
<1> QED BY <1>1, RateInitInv, RateInvImplies, PTL DEF RateSpec

-----------------------------------------------------------------------------
(* One gateway request *)

Text == Seq(Symbols \cup {Marker})

\* Symbol by symbol, what an occurrence of the secret is.
SpelledAt(text, i) == \A k \in 1..Len(Secret) : text[i + k - 1] = Secret[k]

LEMMA OccursIsSpelled ==
    ASSUME NEW text \in Text, NEW i \in 1..(Len(text) - Len(Secret) + 1)
    PROVE  OccursAt(text, i) <=> SpelledAt(text, i)
<1> DEFINE m == Len(Secret)
           part == SubSeq(text, i, i + m - 1)
           A == Symbols \cup {Marker}
<1>1. m \in Nat /\ m > 0 /\ Secret \in Seq(A) /\ Len(text) \in Nat /\ i \in Nat
  BY GatewayAssumption DEF Text
<1>2. \A j \in i..(i + m - 1) : text[j] \in A
  <2> SUFFICES ASSUME NEW j \in i..(i + m - 1) PROVE text[j] \in A
    OBVIOUS
  <2>1. j \in 1..Len(text)
    BY <1>1
  <2> QED BY <2>1 DEF Text
<1>3. /\ part \in Seq(A) /\ Len(part) = m
      /\ \A k \in 1..m : part[k] = text[i + k - 1]
  <2>1. i \in Int /\ i + m - 1 \in Int
    BY <1>1
  <2>2. /\ part \in Seq(A)
        /\ Len(part) = IF i <= i + m - 1 THEN (i + m - 1) - i + 1 ELSE 0
        /\ \A k \in 1..((i + m - 1) - i + 1) : part[k] = text[i + k - 1]
    BY <2>1, <1>2, SubSeqProperties
  <2>3. (i + m - 1) - i + 1 = m /\ i <= i + m - 1
    BY <1>1
  <2> HIDE DEF part, m
  <2> QED BY <2>2, <2>3
<1>4. ASSUME SpelledAt(text, i) PROVE part = Secret
  <2>1. \A k \in 1..Len(part) : part[k] = Secret[k]
    BY <1>3, <1>4 DEF SpelledAt
  <2> HIDE DEF part
  <2> QED BY <2>1, <1>1, <1>3, SeqEqual
<1>5. ASSUME part = Secret PROVE SpelledAt(text, i)
  <2> HIDE DEF part
  <2> QED BY <1>3, <1>5 DEF SpelledAt
<1> QED BY <1>4, <1>5 DEF OccursAt

\* A secret that is left over would overlap a match, and a match is replaced.
LEMMA RedactedIsClean ==
    ASSUME NEW text \in Seq(Symbols), NEW found \in Matches(text)
    PROVE  /\ Redacted(text, found) \in Text /\ Len(Redacted(text, found)) = Len(text)
           /\ ~Leaks(Redacted(text, found))
<1> DEFINE m == Len(Secret)
           n == Len(text)
           occurs == {i \in 1..(n - m + 1) : OccursAt(text, i)}
           Hidden(k) == \E i \in found : k \in i..(i + m - 1)
           clean == [k \in 1..n |-> IF Hidden(k) THEN Marker ELSE text[k]]
<1>1. m \in Nat /\ m > 0 /\ n \in Nat /\ text \in Text
  BY GatewayAssumption DEF Text
<1>2. clean \in [1..n -> Symbols \cup {Marker}]
  BY <1>1
<1>3. clean \in Text /\ Len(clean) = n
  BY <1>1, <1>2 DEF Text
<1>4. Redacted(text, found) = clean
  BY DEF Redacted
<1>f. /\ found \subseteq occurs
      /\ \A i \in occurs : i \in found <=> ~\E j \in found : j < i /\ i < j + m
  BY DEF Matches
<1>5. ASSUME NEW i \in 1..(n - m + 1), SpelledAt(clean, i) PROVE FALSE
  <2>1. ASSUME NEW k \in 1..m PROVE ~Hidden(i + k - 1) /\ i + k - 1 \in 1..n
    <3>1. i + k - 1 \in 1..n
      BY <1>1
    <3>2. clean[i + k - 1] = Secret[k]
      BY <1>5 DEF SpelledAt
    <3>3. Secret[k] \in Range(Secret)
      BY GatewayAssumption DEF Range
    <3>4. Secret[k] # Marker
      BY <3>3, GatewayAssumption
    <3> QED BY <3>1, <3>2, <3>4
  <2>2. \A k \in 1..m : text[i + k - 1] = Secret[k]
    <3> SUFFICES ASSUME NEW k \in 1..m PROVE text[i + k - 1] = Secret[k]
      OBVIOUS
    <3>1. clean[i + k - 1] = Secret[k]
      BY <1>5 DEF SpelledAt
    <3>2. ~Hidden(i + k - 1) /\ i + k - 1 \in 1..n
      BY <2>1
    <3> HIDE DEF Hidden
    <3>3. clean[i + k - 1] = text[i + k - 1]
      BY <3>2
    <3> QED BY <3>1, <3>3
  <2>3. OccursAt(text, i)
    BY <2>2, <1>1, OccursIsSpelled DEF SpelledAt
  <2>4. i \in occurs
    BY <2>3
  <2>5. PICK j \in found : j = i \/ (j < i /\ i < j + m)
    <3> HIDE DEF occurs
    <3> QED BY <2>4, <1>f
  <2>6. j \in Nat /\ 1 \in 1..m /\ i + 1 - 1 \in j..(j + m - 1)
    <3>1. j \in 1..(n - m + 1)
      BY <1>f
    <3> QED BY <3>1, <2>5, <1>1
  <2>7. Hidden(i + 1 - 1)
    BY <2>6
  <2> QED BY <2>1, <2>6, <2>7
<1> HIDE DEF clean
<1>6. ~Leaks(clean)
  <2> SUFFICES ASSUME NEW i \in 1..(Len(clean) - m + 1), OccursAt(clean, i) PROVE FALSE
    BY DEF Leaks
  <2>1. SpelledAt(clean, i)
    BY <1>3, OccursIsSpelled
  <2>2. i \in 1..(n - m + 1)
    BY <1>3
  <2> QED BY <2>1, <2>2, <1>5
<1> QED BY <1>3, <1>4, <1>6

\* The last symbols of a text, at most BufLen of them.
EndsWith(text, end) ==
    /\ Len(end) = IF Len(text) > BufLen THEN BufLen ELSE Len(text)
    /\ \A k \in 1..Len(end) : end[k] = text[Len(text) - Len(end) + k]

\* A secret in the text with the next chunk was there before, or is in the window.
LEMMA WindowSees ==
    ASSUME NEW text \in Seq(Symbols), NEW end \in Seq(Symbols), NEW chunk \in Seq(Symbols),
           EndsWith(text, end), ~Leaks(text), ~Leaks(end \o chunk)
    PROVE  ~Leaks(text \o chunk)
<1> DEFINE m == Len(Secret)
           n == Len(text)
           e == Len(end)
           c == Len(chunk)
<1>1. /\ m \in Nat /\ m > 0 /\ n \in Nat /\ e \in Nat /\ c \in Nat
      /\ BufLen \in Nat /\ BufLen >= m - 1 /\ e <= n
      /\ e = IF n > BufLen THEN BufLen ELSE n
  BY GatewayAssumption DEF EndsWith
<1>2. /\ text \o chunk \in Seq(Symbols) /\ Len(text \o chunk) = n + c
      /\ end \o chunk \in Seq(Symbols) /\ Len(end \o chunk) = e + c
      /\ \A k \in 1..(n + c) : (text \o chunk)[k] = IF k <= n THEN text[k] ELSE chunk[k - n]
      /\ \A k \in 1..(e + c) : (end \o chunk)[k] = IF k <= e THEN end[k] ELSE chunk[k - e]
  BY ConcatProperties
<1>e. \A k \in 1..e : end[k] = text[n - e + k]
  BY DEF EndsWith
<1>3. text \in Text /\ text \o chunk \in Text /\ end \o chunk \in Text
  BY <1>2 DEF Text
<1> SUFFICES ASSUME NEW i \in 1..(n + c - m + 1), SpelledAt(text \o chunk, i) PROVE FALSE
  <2>1. \A i \in 1..(Len(text \o chunk) - m + 1) : OccursAt(text \o chunk, i) <=> SpelledAt(text \o chunk, i)
    BY <1>3, OccursIsSpelled
  <2> QED BY <2>1, <1>2 DEF Leaks
<1>4. \A k \in 1..m : (text \o chunk)[i + k - 1] = Secret[k]
  BY DEF SpelledAt
<1>i. i \in Nat /\ i >= 1 /\ i <= n + c - m + 1
  BY <1>1
<1>5. CASE i + m - 1 <= n
  <2>1. i \in 1..(n - m + 1)
    BY <1>1, <1>5
  <2>2. \A k \in 1..m : i + k - 1 \in 1..(n + c) /\ i + k - 1 <= n
    BY <1>1, <1>5
  <2>3. \A k \in 1..m : text[i + k - 1] = Secret[k]
    BY <2>2, <1>2, <1>4
  <2>4. OccursAt(text, i)
    BY <2>1, <2>3, <1>3, OccursIsSpelled DEF SpelledAt
  <2> QED BY <2>1, <2>4 DEF Leaks
<1>6. CASE i + m - 1 > n
  <2> DEFINE j == i - (n - e)
  <2> HIDE DEF n, e, c, m
  <2>1. j \in 1..(e + c - m + 1) /\ j \in Nat
    BY <1>1, <1>6, <1>i
  <2>2. ASSUME NEW k \in 1..m PROVE (end \o chunk)[j + k - 1] = Secret[k]
    <3> DEFINE p == i + k - 1
               q == j + k - 1
    <3>1. p \in 1..(n + c) /\ q \in 1..(e + c) /\ q = p - (n - e)
      BY <1>1, <1>i, <2>1
    <3>2. (text \o chunk)[p] = Secret[k]
      BY <1>4
    <3> HIDE DEF p, q
    <3>3. CASE p <= n
      <4>1. q <= e /\ q \in 1..e /\ n - e + q = p
        BY <3>1, <3>3, <1>1
      <4>2. (text \o chunk)[p] = text[p] /\ (end \o chunk)[q] = end[q]
        BY <3>1, <3>3, <4>1, <1>2 DEF n, e, c
      <4>3. end[q] = text[n - e + q]
        BY <4>1, <1>e
      <4> QED BY <4>1, <4>2, <4>3, <3>2 DEF q
    <3>4. CASE p > n
      <4>1. q > e /\ q - e = p - n
        BY <3>1, <3>4, <1>1
      <4>2. (text \o chunk)[p] = chunk[p - n] /\ (end \o chunk)[q] = chunk[q - e]
        <5>1. ~(p <= n) /\ ~(q <= e)
          BY <3>1, <3>4, <4>1, <1>1
        <5> QED BY <3>1, <5>1, <1>2 DEF n, e, c
      <4> QED BY <4>1, <4>2, <3>2 DEF q
    <3>5. p <= n \/ p > n
      BY <3>1, <1>1
    <3> QED BY <3>3, <3>4, <3>5, Zenon
  <2> HIDE DEF j
  <2>3. j \in 1..(Len(end \o chunk) - m + 1)
    <3>1. Len(end \o chunk) = e + c
      BY <1>2 DEF e, c
    <3> QED BY <3>1, <2>1, <1>1 DEF e, c
  <2>4. OccursAt(end \o chunk, j)
    BY <2>2, <2>3, <1>3, OccursIsSpelled DEF SpelledAt, m
  <2> QED BY <2>3, <2>4 DEF Leaks, m
<1> QED BY <1>5, <1>6, <1>1

\* The next tail ends the text with the chunk.
LEMMA TailEndsText ==
    ASSUME NEW text \in Seq(Symbols), tail \in Seq(Symbols), NEW chunk \in Seq(Symbols),
           EndsWith(text, tail)
    PROVE  NextTail(chunk) \in Seq(Symbols) /\ EndsWith(text \o chunk, NextTail(chunk))
<1> DEFINE n == Len(text)
           e == Len(tail)
           c == Len(chunk)
           both == tail \o chunk
           from == IF Len(both) > BufLen THEN Len(both) - BufLen + 1 ELSE 1
           next == SubSeq(both, from, Len(both))
<1>1. /\ n \in Nat /\ e \in Nat /\ c \in Nat /\ BufLen \in Nat /\ e <= n
      /\ e = IF n > BufLen THEN BufLen ELSE n
  BY GatewayAssumption DEF EndsWith
<1>2. /\ text \o chunk \in Seq(Symbols) /\ Len(text \o chunk) = n + c
      /\ both \in Seq(Symbols) /\ Len(both) = e + c
      /\ \A k \in 1..(n + c) : (text \o chunk)[k] = IF k <= n THEN text[k] ELSE chunk[k - n]
      /\ \A k \in 1..(e + c) : both[k] = IF k <= e THEN tail[k] ELSE chunk[k - e]
  BY ConcatProperties
<1>3. NextTail(chunk) = next
  BY DEF NextTail
<1>4. from \in 1..(e + c + 1) /\ e + c - from + 1 = IF e + c > BufLen THEN BufLen ELSE e + c
  <2>1. Len(both) = e + c
    BY <1>2
  <2> HIDE DEF both, n, e, c
  <2> QED BY <2>1, <1>1
<1>5. /\ next \in Seq(Symbols)
      /\ Len(next) = e + c - from + 1
      /\ \A k \in 1..(e + c - from + 1) : next[k] = both[from + k - 1]
  <2> HIDE DEF from
  <2>1. PICK z : z = Len(both)
    OBVIOUS
  <2>2. from \in Int /\ z \in Int /\ z = e + c /\ \A k \in from..z : both[k] \in Symbols
    BY <2>1, <1>1, <1>2, <1>4
  <2> HIDE DEF both, e, c
  <2>3. /\ SubSeq(both, from, z) \in Seq(Symbols)
        /\ Len(SubSeq(both, from, z)) = IF from <= z THEN z - from + 1 ELSE 0
        /\ \A k \in 1..(z - from + 1) : SubSeq(both, from, z)[k] = both[from + k - 1]
    BY <2>2, SubSeqProperties
  <2>4. SubSeq(both, from, z) = next
    BY <2>1
  <2>5. ~(from <= z) => z - from + 1 = 0
    BY <2>2, <1>1, <1>4
  <2>6. Len(next) = z - from + 1
    BY <2>3, <2>4, <2>5
  <2> HIDE DEF next
  <2>7. next \in Seq(Symbols) /\ \A k \in 1..(z - from + 1) : next[k] = both[from + k - 1]
    BY <2>3, <2>4, Zenon
  <2>8. z - from + 1 = e + c - from + 1
    BY <2>2, <1>1
  <2> QED BY <2>6, <2>7, <2>8, Zenon
<1>6. Len(next) = IF n + c > BufLen THEN BufLen ELSE n + c
  <2> HIDE DEF next, from
  <2> QED BY <1>1, <1>4, <1>5
<1>7. ASSUME NEW k \in 1..Len(next) PROVE next[k] = (text \o chunk)[(n + c) - Len(next) + k]
  <2> DEFINE p == from + k - 1
             q == (n + c) - Len(next) + k
  <2> HIDE DEF next, from
  <2>1. k \in 1..(e + c - from + 1) /\ Len(next) = e + c - from + 1
    BY <1>5, <1>7
  <2>2. p \in 1..(e + c) /\ q \in 1..(n + c) /\ q - n = p - e
    <3>1. from \in Nat /\ from >= 1 /\ k \in Nat /\ k >= 1 /\ k <= e + c - from + 1
      BY <2>1, <1>1, <1>4
    <3>2. Len(next) = e + c - from + 1
      BY <2>1
    <3> HIDE DEF n, e, c
    <3> QED BY <3>1, <3>2, <1>1
  <2>3. next[k] = both[p]
    BY <2>1, <1>5
  <2>4. both[p] = (text \o chunk)[q]
    <3> HIDE DEF p, q
    <3>1. CASE p <= e
      <4>1. p \in 1..e /\ q <= n /\ n - e + p = q
        BY <3>1, <2>2, <1>1
      <4>2. tail[p] = text[n - e + p]
        BY <4>1 DEF EndsWith
      <4>3. both[p] = tail[p] /\ (text \o chunk)[q] = text[q]
        BY <3>1, <4>1, <2>2, <1>2
      <4> QED BY <4>1, <4>2, <4>3
    <3>2. CASE p > e
      <4>1. q > n
        BY <3>2, <2>2, <1>1
      <4>2. both[p] = chunk[p - e] /\ (text \o chunk)[q] = chunk[q - n]
        <5>1. ~(p <= e) /\ ~(q <= n)
          BY <3>2, <4>1, <2>2, <1>1
        <5> QED BY <5>1, <2>2, <1>2
      <4> QED BY <4>2, <2>2
    <3>3. p <= e \/ p > e
      BY <2>2, <1>1
    <3> QED BY <3>1, <3>2, <3>3, Zenon
  <2> QED BY <2>3, <2>4
<1> QED BY <1>2, <1>3, <1>5, <1>6, <1>7 DEF EndsWith

ChainProviders == {_effective_chain[i] : i \in Nat}
RoutingOutcomes == {"fallback_attempted", "selected", "exhausted", "allowlist_denied", "cost_blocked"}

RequestTypes ==
    /\ gstage \in {"admission", "policy", "attempt", "selected", "stream", "finally", "rejected",
                   "escaped", "closed"}
    /\ streaming \in BOOLEAN /\ attempt \in Nat /\ appendFaults \in Nat
    /\ calls \in Seq(ChainProviders) /\ decisions \in Seq(RoutingOutcomes)
    /\ received \in Seq(Symbols) /\ tail \in Seq(Symbols) /\ delivered \in Seq(Symbols)
    /\ asked \in 1..MaxChoices /\ answer \in [1..MaxChoices -> Text]
    /\ records \in Seq(Nat)

\* What is delivered was received, and the tail is its end; what ends has one record.
ChargingInv ==
    /\ gstage # "closed" => records = <<>> /\ ending # "ok"
    /\ gstage \in {"admission", "policy", "attempt", "selected", "rejected", "escaped"} => delivered = <<>>
    /\ gstage \in {"admission", "policy", "attempt"} => received = <<>> /\ tail = <<>>
    /\ gstage = "stream" => streaming /\ delivered = received /\ EndsWith(delivered, tail)
    /\ gstage = "selected" => ~streaming
    /\ Len(delivered) <= Len(received)
    /\ ending = "gone" => gstage \in {"finally", "closed"}
    /\ DeliveredIsCharged

\* A plain answer is whole or empty, and the only choice of a stream is its text.
ChoicesInv ==
    /\ (~streaming /\ gstage # "closed") => answer = [c \in 1..MaxChoices |-> <<>>]
    /\ (streaming /\ asked = 1) => answer[1] = delivered

ExplainedBy(given) ==
    /\ \A i \in 1..given : decisions[i] = "fallback_attempted"
    /\ \/ /\ Len(decisions) = given /\ ending = "gone"
          /\ Len(calls) \in {given, given + 1}
       \/ /\ Len(decisions) = given + 1
          /\ decisions[given + 1] \in {"selected", "exhausted", "allowlist_denied", "cost_blocked"}
       \/ /\ Len(decisions) = given + 2
          /\ decisions[given + 1] = "selected" /\ decisions[given + 2] = "cost_blocked"
    /\ (Len(decisions) > given /\ decisions[given + 1] = "selected") => Len(calls) = given + 1

\* The trail while the providers are tried, once one is selected, and at the end.
RoutingInv ==
    appendFaults = 0 =>
        /\ gstage \in {"admission", "policy"} => calls = <<>> /\ decisions = <<>>
        /\ gstage = "attempt" =>
              /\ Len(calls) = Len(decisions)
              /\ \A i \in 1..Len(decisions) : decisions[i] = "fallback_attempted"
        /\ gstage \in {"selected", "stream"} =>
              /\ Len(calls) = Len(decisions) /\ Len(decisions) > 0
              /\ decisions[Len(decisions)] = "selected"
              /\ \A i \in 1..(Len(decisions) - 1) : decisions[i] = "fallback_attempted"
        /\ gstage \in {"finally", "rejected", "escaped", "closed"} =>
              (calls = <<>> /\ decisions = <<>>) \/ \E given \in 0..Len(decisions) : ExplainedBy(given)

RequestInv ==
    RequestTypes /\ ChargingInv /\ ChoicesInv /\ DeliveredWithinCeiling /\ NoSecretDelivered /\ RoutingInv

\* The invariant implies the properties.
LEMMA RequestInvAccounts == RequestInv => AnswerIsAccounted /\ NoSecretDelivered
<1> SUFFICES ASSUME RequestInv PROVE RoutingIsExplained
  BY DEF RequestInv, AnswerIsAccounted, ChargingInv
<1> QED BY DEF RequestInv, RoutingInv, RoutingIsExplained, ExplainedBy

LEMMA NothingLeaks == ~Leaks(<<>>)
BY GatewayAssumption DEF Leaks

\* At first nothing is called, received or delivered.
LEMMA RequestStart == GatewayRequestInit => RequestInv
<1> SUFFICES ASSUME GatewayRequestInit PROVE RequestInv
  OBVIOUS
<1> USE DEF GatewayRequestInit
<1>0. 1 \in 1..MaxChoices
  BY GatewayAssumption
<1>1. RequestTypes
  BY DEF RequestTypes, Text
<1>2. ChargingInv
  BY DEF ChargingInv, DeliveredIsCharged
<1>3. DeliveredWithinCeiling /\ RoutingInv
  BY DEF DeliveredWithinCeiling, RoutingInv
<1>4. NoSecretDelivered /\ ChoicesInv
  BY <1>0, NothingLeaks DEF NoSecretDelivered, ChoicesInv
<1> QED BY <1>1, <1>2, <1>3, <1>4 DEF RequestInv

\* A routing decision is the next of the trail, unless its append fails.
LEMMA DecisionEmitted ==
    ASSUME RequestTypes, NEW d \in RoutingOutcomes, emit_routing_decision(d)
    PROVE  /\ decisions' \in Seq(RoutingOutcomes) /\ appendFaults' \in Nat
           /\ appendFaults' = 0 =>
                 /\ appendFaults = 0 /\ Len(decisions') = Len(decisions) + 1 /\ Len(decisions) \in Nat
                 /\ decisions'[Len(decisions) + 1] = d
                 /\ \A i \in 1..Len(decisions) : decisions'[i] = decisions[i]
<1>1. decisions \in Seq(RoutingOutcomes) /\ appendFaults \in Nat
  BY DEF RequestTypes
<1>2. CASE decisions' = Append(decisions, d) /\ appendFaults' = appendFaults
  BY <1>1, <1>2
<1>3. CASE appendFaults' = appendFaults + 1 /\ decisions' = decisions
  BY <1>1, <1>3
<1> QED BY <1>2, <1>3 DEF emit_routing_decision

\* One call more.
LEMMA ProviderCalled ==
    ASSUME RequestTypes, calls' = Append(calls, _effective_chain[attempt])
    PROVE  calls' \in Seq(ChainProviders) /\ Len(calls') = Len(calls) + 1
<1>1. calls \in Seq(ChainProviders) /\ _effective_chain[attempt] \in ChainProviders
  BY DEF RequestTypes, ChainProviders
<1> QED BY <1>1

\* A step that delivers nothing and records nothing, before the end.
LEMMA NothingDelivered ==
    ASSUME RequestInv, gstage # "closed", UNCHANGED <<streaming, asked, tail, delivered, answer, records>>,
           \/ received' = received
           \/ \E text \in Seq(Symbols) : received' = received \o text,
           calls' = calls \/ delivered = <<>>,
           gstage' \in {"policy", "attempt", "selected", "stream", "finally", "rejected", "escaped", "closed"},
           gstage' = "closed" => ending' = "gone",
           gstage' = "stream" => streaming /\ gstage = "attempt",
           gstage' = "selected" => ~streaming,
           gstage' \in {"policy", "attempt"} => gstage \in {"admission", "policy", "attempt"} /\ received' = received,
           gstage' \in {"rejected", "escaped", "selected"} => delivered = <<>>,
           gstage' = "stream" => received' = received,
           ending' # "ok", ending' = "gone" => gstage' \in {"finally", "closed"}
    PROVE  ChargingInv' /\ ChoicesInv' /\ DeliveredWithinCeiling' /\ NoSecretDelivered' /\ received' \in Seq(Symbols)
<1>1. /\ RequestTypes /\ ChargingInv /\ ChoicesInv /\ DeliveredWithinCeiling /\ NoSecretDelivered
      /\ records = <<>> /\ ending # "ok"
  BY DEF RequestInv, ChargingInv
<1>2. received' \in Seq(Symbols) /\ Len(delivered) <= Len(received')
  <2>1. received \in Seq(Symbols) /\ Len(delivered) <= Len(received) /\ Len(delivered) \in Nat
    BY <1>1 DEF RequestTypes, ChargingInv
  <2>2. CASE received' = received
    BY <2>1, <2>2
  <2>4. ASSUME NEW text \in Seq(Symbols), received' = received \o text
        PROVE  received' \in Seq(Symbols) /\ Len(delivered) <= Len(received')
    <3>2. received \o text \in Seq(Symbols) /\ Len(received \o text) = Len(received) + Len(text)
      BY <2>1, ConcatProperties
    <3>3. Len(received) \in Nat /\ Len(text) \in Nat
      BY <2>1
    <3> QED BY <3>2, <3>3, <2>1, <2>4
  <2> QED BY <2>2, <2>4
<1>3. NoSecretDelivered' /\ ChoicesInv'
  BY <1>1 DEF NoSecretDelivered, ChoicesInv
<1>4. DeliveredWithinCeiling'
  BY <1>1 DEF DeliveredWithinCeiling, OverCeiling, OverBudget, Last
<1>5. DeliveredIsCharged'
  BY <1>1 DEF DeliveredIsCharged
<1>6. gstage' = "stream" => delivered' = received' /\ EndsWith(delivered, tail)'
  <2> SUFFICES ASSUME gstage' = "stream" PROVE delivered' = received' /\ EndsWith(delivered, tail)'
    OBVIOUS
  <2>1. received' = <<>> /\ delivered' = <<>> /\ tail' = <<>>
    BY <1>1 DEF ChargingInv
  <2>2. 0 = IF 0 > BufLen THEN BufLen ELSE 0
    BY GatewayAssumption
  <2> QED BY <2>1, <2>2 DEF EndsWith
<1>7. ChargingInv'
  BY <1>1, <1>2, <1>5, <1>6 DEF ChargingInv
<1> QED BY <1>2, <1>3, <1>4, <1>7

\* The trail does not change where nothing is routed.
LEMMA TrailKept ==
    ASSUME RequestInv, UNCHANGED <<calls, decisions>>, appendFaults' = 0 => appendFaults = 0,
           ending = "gone" => ending' = "gone",
           \/ gstage = "admission" /\ gstage' = "policy"
           \/ gstage = "policy" /\ gstage' = "attempt"
           \/ gstage = "stream" /\ gstage' = "stream"
           \/ gstage # "attempt" /\ gstage' \in {"finally", "rejected", "escaped", "closed"}
    PROVE  RoutingInv'
<1> SUFFICES ASSUME appendFaults' = 0 PROVE RoutingInv'
  BY DEF RoutingInv
<1>1. RoutingInv /\ appendFaults = 0 /\ decisions \in Seq(RoutingOutcomes) /\ Len(decisions) \in Nat
  BY DEF RequestInv, RequestTypes
<1>2. CASE gstage' \in {"policy", "attempt"}
  <2>1. calls = <<>> /\ decisions = <<>>
    BY <1>1, <1>2 DEF RoutingInv
  <2> QED BY <1>2, <2>1 DEF RoutingInv
<1>3. CASE gstage' = "stream"
  BY <1>1, <1>3 DEF RoutingInv
<1>4. CASE gstage' \in {"finally", "rejected", "escaped", "closed"}
  <2>1. gstage # "attempt"
    BY <1>4
  <2>2. (calls = <<>> /\ decisions = <<>>) \/ \E given \in 0..Len(decisions) : ExplainedBy(given)
    <3>1. CASE gstage \in {"selected", "stream"}
      <4> DEFINE given == Len(decisions) - 1
      <4>1. /\ Len(calls) = Len(decisions) /\ Len(decisions) > 0
            /\ decisions[Len(decisions)] = "selected"
            /\ \A i \in 1..(Len(decisions) - 1) : decisions[i] = "fallback_attempted"
        BY <1>1, <3>1 DEF RoutingInv
      <4>2. given \in 0..Len(decisions) /\ given + 1 = Len(decisions)
        BY <1>1, <4>1
      <4>3. ExplainedBy(given)
        BY <4>1, <4>2 DEF ExplainedBy
      <4> QED BY <4>2, <4>3
    <3>2. CASE gstage \in {"admission", "policy", "finally", "rejected", "escaped", "closed"}
      BY <1>1, <3>2 DEF RoutingInv
    <3> QED BY <2>1, <3>1, <3>2 DEF RequestInv, RequestTypes
  <2>3. \A given : ExplainedBy(given) => ExplainedBy(given)'
    BY DEF ExplainedBy
  <2> QED BY <1>4, <2>2, <2>3 DEF RoutingInv
<1> QED BY <1>2, <1>3, <1>4

\* A verdict that selects nobody ends the trail.
LEMMA TrailEnds ==
    ASSUME RequestInv, gstage \in {"policy", "attempt"}, gstage' \in {"finally", "rejected"},
           NEW d \in {"exhausted", "allowlist_denied", "cost_blocked"}, emit_routing_decision(d)
    PROVE  RoutingInv'
<1> SUFFICES ASSUME appendFaults' = 0 PROVE RoutingInv'
  BY DEF RoutingInv
<1>1. d \in RoutingOutcomes /\ RequestTypes
  BY DEF RoutingOutcomes, RequestInv
<1>2. /\ appendFaults = 0 /\ Len(decisions') = Len(decisions) + 1 /\ Len(decisions) \in Nat
      /\ decisions'[Len(decisions) + 1] = d
      /\ \A i \in 1..Len(decisions) : decisions'[i] = decisions[i]
  BY <1>1, DecisionEmitted
<1>3. \A i \in 1..Len(decisions) : decisions[i] = "fallback_attempted"
  BY <1>2 DEF RequestInv, RoutingInv
<1>4. PICK given : given = Len(decisions)
  OBVIOUS
<1>5. given \in 0..Len(decisions') /\ ExplainedBy(given)'
  BY <1>2, <1>3, <1>4 DEF ExplainedBy
<1> QED BY <1>5 DEF RoutingInv

\* Before the first call.
LEMMA AdmissionKeeps ==
    ASSUME RequestInv,
           AdmissionFails \/ create_chat_completion \/ _enforce_policies_pre_request \/ ResolvePolicyFails
    PROVE  RequestInv'
<1>1. /\ gstage \in {"admission", "policy"}
      /\ UNCHANGED <<streaming, asked, attempt, calls, received, tail, delivered, answer, records>>
      /\ gstage' \in {"policy", "attempt", "finally", "rejected", "escaped"}
      /\ gstage' \in {"policy", "attempt"} => ending' = ending
      /\ ending' = ending \/ ending' \in {"invalid_request", "policy_blocked", "internal_error"}
  BY DEF AdmissionFails, create_chat_completion, _enforce_policies_pre_request, ResolvePolicyFails, Refuse,
         requestUnchanged, textUnchanged
<1>2. delivered = <<>> /\ ending # "ok" /\ ending # "gone"
  BY <1>1 DEF RequestInv, ChargingInv
<1>3. ending' # "ok" /\ ending' # "gone"
  BY <1>1, <1>2
<1>4. ChargingInv' /\ ChoicesInv' /\ DeliveredWithinCeiling' /\ NoSecretDelivered'
  BY <1>1, <1>2, <1>3, NothingDelivered
<1>5. decisions' \in Seq(RoutingOutcomes) /\ appendFaults' \in Nat /\ RoutingInv'
  <2>0. decisions \in Seq(RoutingOutcomes) /\ appendFaults \in Nat
    BY DEF RequestInv, RequestTypes
  <2>1. CASE AdmissionFails \/ create_chat_completion \/ ResolvePolicyFails
    <3>1. UNCHANGED <<calls, decisions, appendFaults>>
      BY <2>1 DEF AdmissionFails, create_chat_completion, ResolvePolicyFails
    <3>2. \/ gstage = "admission" /\ gstage' = "policy"
          \/ gstage # "attempt" /\ gstage' \in {"finally", "rejected", "escaped", "closed"}
      BY <2>1 DEF AdmissionFails, create_chat_completion, ResolvePolicyFails
    <3> QED BY <2>0, <1>2, <3>1, <3>2, TrailKept
  <2>2. CASE _enforce_policies_pre_request
    <3>1. CASE UNCHANGED <<decisions, appendFaults>>
      <4>1. \/ gstage = "policy" /\ gstage' = "attempt"
            \/ gstage # "attempt" /\ gstage' \in {"finally", "rejected", "escaped", "closed"}
        BY <2>2 DEF _enforce_policies_pre_request, Refuse
      <4> QED BY <2>0, <3>1, <4>1, <1>1, <1>2, TrailKept
    <3>2. CASE emit_routing_decision("allowlist_denied") /\ Refuse("policy_blocked")
      <4>1. gstage' \in {"finally", "rejected"} /\ "allowlist_denied" \in RoutingOutcomes
        BY <3>2 DEF Refuse, RoutingOutcomes
      <4>2. RequestTypes /\ gstage \in {"policy", "attempt"}
        BY <2>2 DEF RequestInv, _enforce_policies_pre_request
      <4> QED BY <3>2, <4>1, <4>2, TrailEnds, DecisionEmitted
    <3> QED BY <2>2, <3>1, <3>2 DEF _enforce_policies_pre_request
  <2> QED BY <2>1, <2>2
<1>6. RequestTypes'
  BY <1>1, <1>5 DEF RequestInv, RequestTypes
<1> QED BY <1>4, <1>5, <1>6 DEF RequestInv

\* The providers are tried in turn.
LEMMA AttemptKeeps ==
    ASSUME RequestInv, DeadlinePassed \/ _check_allowlist_and_cost \/ ProviderFails \/ ProviderAnswers
    PROVE  RequestInv'
<1>1. /\ gstage = "attempt" /\ UNCHANGED <<streaming, asked, received, tail, delivered, answer, records>>
      /\ RequestTypes
  BY DEF DeadlinePassed, _check_allowlist_and_cost, ProviderFails, ProviderAnswers, RequestInv, requestUnchanged, textUnchanged
<1>2. delivered = <<>> /\ ending # "ok" /\ ending # "gone" /\ received = <<>>
  BY <1>1 DEF RequestInv, ChargingInv
<1>3. CASE DeadlinePassed \/ _check_allowlist_and_cost
  <2>1. /\ UNCHANGED <<attempt, calls>> /\ gstage' \in {"finally", "rejected"} /\ ending' # "ok" /\ ending' # "gone"
        /\ \E d \in {"exhausted", "cost_blocked"} : emit_routing_decision(d)
    BY <1>3 DEF DeadlinePassed, _check_allowlist_and_cost, Refuse
  <2>2. PICK d \in {"exhausted", "cost_blocked"} : emit_routing_decision(d)
    BY <2>1
  <2>3. RoutingInv'
    BY <2>1, <2>2, <1>1, TrailEnds
  <2>4. d \in RoutingOutcomes
    BY DEF RoutingOutcomes
  <2>5. decisions' \in Seq(RoutingOutcomes) /\ appendFaults' \in Nat
    BY <2>2, <2>4, <1>1, DecisionEmitted
  <2>6. ChargingInv' /\ ChoicesInv' /\ DeliveredWithinCeiling' /\ NoSecretDelivered'
    BY <2>1, <1>1, <1>2, NothingDelivered
  <2>7. RequestTypes'
    BY <2>1, <2>5, <1>1 DEF RequestTypes
  <2> QED BY <2>3, <2>6, <2>7 DEF RequestInv
<1>4. CASE ProviderFails
  <2>0. /\ calls' = Append(calls, _effective_chain[attempt])
        /\ \/ emit_routing_decision("fallback_attempted") /\ attempt' = attempt + 1 /\ UNCHANGED <<gstage, ending>>
           \/ emit_routing_decision("exhausted") /\ Refuse("internal_error") /\ UNCHANGED attempt
    BY <1>4 DEF ProviderFails
  <2>1. calls' \in Seq(ChainProviders) /\ Len(calls') = Len(calls) + 1 /\ Len(calls) \in Nat
    BY <2>0, <1>1, ProviderCalled DEF RequestTypes
  <2>2. CASE emit_routing_decision("fallback_attempted") /\ attempt' = attempt + 1 /\ UNCHANGED <<gstage, ending>>
    <3>1. "fallback_attempted" \in RoutingOutcomes
      BY DEF RoutingOutcomes
    <3>2. /\ decisions' \in Seq(RoutingOutcomes) /\ appendFaults' \in Nat
          /\ appendFaults' = 0 =>
                 /\ appendFaults = 0 /\ Len(decisions') = Len(decisions) + 1 /\ Len(decisions) \in Nat
                 /\ decisions'[Len(decisions) + 1] = "fallback_attempted"
                 /\ \A i \in 1..Len(decisions) : decisions'[i] = decisions[i]
      BY <2>2, <3>1, <1>1, DecisionEmitted
    <3>3. RoutingInv'
      <4> SUFFICES ASSUME appendFaults' = 0 PROVE RoutingInv'
        BY DEF RoutingInv
      <4>1. Len(calls) = Len(decisions) /\ \A i \in 1..Len(decisions) : decisions[i] = "fallback_attempted"
        BY <3>2, <1>1 DEF RequestInv, RoutingInv
      <4>2. Len(calls') = Len(decisions') /\ \A i \in 1..Len(decisions') : decisions'[i] = "fallback_attempted"
        BY <4>1, <3>2, <2>1
      <4> QED BY <4>2, <2>2, <1>1 DEF RoutingInv
    <3>4. ChargingInv' /\ ChoicesInv' /\ DeliveredWithinCeiling' /\ NoSecretDelivered'
      BY <2>0, <2>2, <1>1, <1>2, NothingDelivered
    <3>5. RequestTypes'
      BY <2>0, <2>1, <2>2, <3>2, <1>1 DEF RequestTypes
    <3> QED BY <3>3, <3>4, <3>5 DEF RequestInv
  <2>3. CASE emit_routing_decision("exhausted") /\ Refuse("internal_error") /\ UNCHANGED attempt
    <3>1. "exhausted" \in RoutingOutcomes /\ gstage' \in {"finally", "rejected"} /\ ending' = "internal_error"
      BY <2>3 DEF RoutingOutcomes, Refuse
    <3>2. decisions' \in Seq(RoutingOutcomes) /\ appendFaults' \in Nat
      BY <2>3, <3>1, <1>1, DecisionEmitted
    <3>3. RoutingInv'
      BY <2>3, <3>1, <1>1, TrailEnds
    <3>4. ChargingInv' /\ ChoicesInv' /\ DeliveredWithinCeiling' /\ NoSecretDelivered'
      BY <2>0, <3>1, <1>1, <1>2, NothingDelivered
    <3>5. RequestTypes'
      BY <2>0, <2>1, <2>3, <3>1, <3>2, <1>1 DEF RequestTypes
    <3> QED BY <3>3, <3>4, <3>5 DEF RequestInv
  <2> QED BY <2>0, <2>2, <2>3
<1>5. CASE ProviderAnswers
  <2>1. /\ calls' = Append(calls, _effective_chain[attempt]) /\ emit_routing_decision("selected")
        /\ \/ streaming /\ gstage' = "stream"
           \/ ~streaming /\ gstage' = "selected"
        /\ UNCHANGED <<attempt, ending>>
    BY <1>5 DEF ProviderAnswers
  <2>2. calls' \in Seq(ChainProviders) /\ Len(calls') = Len(calls) + 1 /\ Len(calls) \in Nat
    BY <2>1, <1>1, ProviderCalled DEF RequestTypes
  <2>3. "selected" \in RoutingOutcomes
    BY DEF RoutingOutcomes
  <2>4. /\ decisions' \in Seq(RoutingOutcomes) /\ appendFaults' \in Nat
        /\ appendFaults' = 0 =>
                 /\ appendFaults = 0 /\ Len(decisions') = Len(decisions) + 1 /\ Len(decisions) \in Nat
                 /\ decisions'[Len(decisions) + 1] = "selected"
                 /\ \A i \in 1..Len(decisions) : decisions'[i] = decisions[i]
    BY <2>1, <2>3, <1>1, DecisionEmitted
  <2>5. RoutingInv'
    <3> SUFFICES ASSUME appendFaults' = 0 PROVE RoutingInv'
      BY DEF RoutingInv
    <3>1. Len(calls) = Len(decisions) /\ \A i \in 1..Len(decisions) : decisions[i] = "fallback_attempted"
      BY <2>4, <1>1 DEF RequestInv, RoutingInv
    <3>2. /\ Len(calls') = Len(decisions') /\ Len(decisions') > 0
          /\ decisions'[Len(decisions')] = "selected"
          /\ \A i \in 1..(Len(decisions') - 1) : decisions'[i] = "fallback_attempted"
      BY <3>1, <2>2, <2>4
    <3>3. gstage' \in {"selected", "stream"}
      BY <2>1
    <3> QED BY <3>2, <3>3 DEF RoutingInv
  <2>7. ChargingInv' /\ ChoicesInv' /\ DeliveredWithinCeiling' /\ NoSecretDelivered'
    <3>1. CASE streaming /\ gstage' = "stream"
      BY <3>1, <2>1, <1>1, <1>2, NothingDelivered
    <3>2. CASE ~streaming /\ gstage' = "selected"
      BY <3>2, <2>1, <1>1, <1>2, NothingDelivered
    <3> QED BY <3>1, <3>2, <2>1
  <2>8. RequestTypes'
    BY <2>1, <2>2, <2>4, <2>7, <1>1 DEF RequestTypes
  <2> QED BY <2>5, <2>7, <2>8 DEF RequestInv
<1> QED BY <1>3, <1>4, <1>5

\* The record that ends a request covers what it delivered, unless its append fails.
LEMMA EndRecorded ==
    ASSUME RequestInv, gstage \in {"finally", "rejected", "escaped"}, gstage' = "closed",
           UNCHANGED <<streaming, asked, attempt, calls, decisions, received, tail, delivered, answer>>,
           ending' \in {ending, "internal_error"}, ending = "gone" => ending' = "gone",
           NEW n \in Nat, n >= Len(delivered),
           \/ records' = Append(records, n) /\ appendFaults' = appendFaults
           \/ records' = records /\ appendFaults' = appendFaults + 1
    PROVE  RequestInv'
<1>1. /\ RequestTypes /\ records = <<>> /\ ending' # "ok" /\ appendFaults \in Nat /\ ChoicesInv
      /\ DeliveredWithinCeiling /\ NoSecretDelivered /\ Len(delivered) <= Len(received)
  BY DEF RequestInv, ChargingInv, RequestTypes
<1>2. /\ records' \in Seq(Nat) /\ appendFaults' \in Nat /\ (appendFaults' = 0 => appendFaults = 0)
      /\ Len(records') <= 1 /\ (records' # <<>> => records'[1] = n)
      /\ appendFaults' = 0 => records' # <<>>
  <2>1. CASE records' = Append(records, n) /\ appendFaults' = appendFaults
    <3>1. records' = <<n>>
      BY <1>1, <2>1
    <3> QED BY <1>1, <2>1, <3>1
  <2>2. CASE records' = records /\ appendFaults' = appendFaults + 1
    BY <1>1, <2>2
  <2> QED BY <2>1, <2>2
<1>s. gstage # "attempt" /\ gstage' \in {"finally", "rejected", "escaped", "closed"}
  OBVIOUS
<1>3. DeliveredIsCharged'
  BY <1>1, <1>2 DEF DeliveredIsCharged
<1>4. ChargingInv'
  BY <1>1, <1>3 DEF ChargingInv
<1>5. DeliveredWithinCeiling' /\ NoSecretDelivered' /\ ChoicesInv'
  BY <1>1 DEF DeliveredWithinCeiling, OverCeiling, OverBudget, Last, NoSecretDelivered, ChoicesInv
<1>6. RoutingInv'
  BY <1>2, <1>s, TrailKept
<1>7. RequestTypes'
  BY <1>1, <1>2 DEF RequestTypes
<1> QED BY <1>4, <1>5, <1>6, <1>7 DEF RequestInv

\* The text of a chunk and of its choices; with one choice they are the same.
LEMMA ChunkText ==
    ASSUME NEW chunk \in Chunks
    PROVE  /\ _extract_chunk_content(chunk) \in Seq(Symbols)
           /\ \A c \in 1..MaxChoices : DeltaOf(chunk, c) \in Seq(Symbols)
           /\ (AskedFor(chunk) /\ asked = 1) => DeltaOf(chunk, 1) = _extract_chunk_content(chunk)
<1>1. PICK one \in Deltas, two \in Deltas : chunk = <<one, two>>
  BY GatewayAssumption
<1>2. /\ one.text \in Seq(Symbols) /\ two.text \in Seq(Symbols) /\ <<>> \in Seq(Symbols)
      /\ one.choice \in 1..MaxChoices /\ two.choice \in 1..MaxChoices
  BY DEF Deltas
<1>3. \A a, b \in Seq(Symbols) : a \o b \in Seq(Symbols)
  BY ConcatProperties
<1>4. _extract_chunk_content(chunk) = one.text \o two.text
  BY <1>1 DEF _extract_chunk_content
<1>5. ASSUME NEW c \in 1..MaxChoices PROVE DeltaOf(chunk, c) \in Seq(Symbols)
  <2>1. (IF one.choice = c THEN one.text ELSE <<>>) \in Seq(Symbols)
    BY <1>2
  <2>2. (IF two.choice = c THEN two.text ELSE <<>>) \in Seq(Symbols)
    BY <1>2
  <2> QED BY <2>1, <2>2, <1>1, <1>3 DEF DeltaOf
<1>6. ASSUME AskedFor(chunk), asked = 1 PROVE DeltaOf(chunk, 1) = one.text \o two.text
  <2>1. one.choice = 1 /\ two.choice = 1
    BY <1>1, <1>2, <1>6 DEF AskedFor
  <2> QED BY <2>1, <1>1 DEF DeltaOf
<1> QED BY <1>2, <1>3, <1>4, <1>5, <1>6

\* A plain answer, inspected as a whole, and the records that end a request.
LEMMA AnswerKeeps ==
    ASSUME RequestInv, InspectionRefuses \/ RecordAndAnswer \/ RecordRejection \/ _emit_audit \/ StreamFinally
    PROVE  RequestInv'
<1>1. /\ RequestTypes /\ received \in Seq(Symbols) /\ delivered \in Seq(Symbols) /\ records \in Seq(Nat)
      /\ appendFaults \in Nat
  BY DEF RequestInv, RequestTypes
<1>2. CASE InspectionRefuses \/ (RecordAndAnswer /\ UNCHANGED <<records, answer>> /\ Refuse("internal_error"))
  <2>1. /\ gstage = "selected"
        /\ UNCHANGED <<streaming, asked, attempt, calls, decisions, received, tail, delivered, answer, records>>
        /\ \E code \in {"policy_blocked", "internal_error"} : Refuse(code)
        /\ appendFaults' \in {appendFaults, appendFaults + 1}
    BY <1>2 DEF InspectionRefuses, RecordAndAnswer, requestUnchanged, textUnchanged
  <2>2. ~streaming /\ delivered = <<>> /\ ending # "gone"
    BY <2>1 DEF RequestInv, ChargingInv
  <2>3. gstage' = "rejected" /\ ending' # "ok" /\ ending' # "gone"
    BY <2>1, <2>2 DEF Refuse
  <2>4. ChargingInv' /\ ChoicesInv' /\ DeliveredWithinCeiling' /\ NoSecretDelivered'
    BY <2>1, <2>2, <2>3, NothingDelivered
  <2>5. appendFaults' \in Nat /\ (appendFaults' = 0 => appendFaults = 0)
    BY <1>1, <2>1
  <2>6. RoutingInv'
    BY <2>1, <2>2, <2>3, <2>5, TrailKept
  <2>7. RequestTypes'
    BY <1>1, <2>1, <2>3, <2>5 DEF RequestTypes
  <2> QED BY <2>4, <2>6, <2>7 DEF RequestInv
<1>3. CASE /\ RecordAndAnswer /\ UNCHANGED appendFaults /\ ending' = "ok" /\ gstage' = "closed"
           /\ \E n \in Reported : records' = Append(records, n)
           /\ \E chunk \in Chunks : \E found :
                 /\ \A c \in 1..MaxChoices : found[c] \in Matches(DeltaOf(chunk, c))
                 /\ answer' = [c \in 1..MaxChoices |-> Redacted(DeltaOf(chunk, c), found[c])]
  <2>1. gstage = "selected" /\ UNCHANGED <<streaming, asked, attempt, calls, decisions, received, tail, delivered, appendFaults>>
    BY <1>3 DEF RecordAndAnswer, requestUnchanged
  <2>2. ~streaming /\ records = <<>> /\ delivered = <<>> /\ ending # "gone"
    BY <2>1 DEF RequestInv, ChargingInv
  <2>b. PICK chunk \in Chunks : \E found :
           /\ \A c \in 1..MaxChoices : found[c] \in Matches(DeltaOf(chunk, c))
           /\ answer' = [c \in 1..MaxChoices |-> Redacted(DeltaOf(chunk, c), found[c])]
    BY <1>3
  <2>3. PICK found :
           /\ \A c \in 1..MaxChoices : found[c] \in Matches(DeltaOf(chunk, c))
           /\ answer' = [c \in 1..MaxChoices |-> Redacted(DeltaOf(chunk, c), found[c])]
    BY <2>b
  <2>4. ASSUME NEW c \in 1..MaxChoices PROVE answer'[c] \in Text /\ ~Leaks(answer'[c])
    <3>1. DeltaOf(chunk, c) \in Seq(Symbols) /\ found[c] \in Matches(DeltaOf(chunk, c))
      BY <2>3, ChunkText
    <3>2. answer'[c] = Redacted(DeltaOf(chunk, c), found[c])
      BY <2>3
    <3> QED BY <3>1, <3>2, RedactedIsClean
  <2>a. answer' \in [1..MaxChoices -> Text] /\ NoSecretDelivered'
    <3>1. answer' \in [1..MaxChoices -> Text]
      <4>1. answer' = [c \in 1..MaxChoices |-> answer'[c]]
        BY <2>3
      <4> QED BY <4>1, <2>4
    <3>2. 1 \in 1..MaxChoices /\ ~Leaks(delivered')
      BY <2>1, GatewayAssumption DEF RequestInv, NoSecretDelivered
    <3> QED BY <3>1, <3>2, <2>4 DEF NoSecretDelivered
  <2>5. records' \in Seq(Nat) /\ Len(records') = 1 /\ records' # <<>>
    <3>1. PICK n \in Reported : records' = Append(records, n)
      BY <1>3
    <3>2. n \in Nat /\ records' = <<n>>
      BY <3>1, <2>2, GatewayAssumption
    <3> QED BY <3>2
  <2>6. DeliveredIsCharged'
    BY <2>1, <2>2, <2>5 DEF DeliveredIsCharged
  <2>7. ChargingInv' /\ ChoicesInv'
    <3>1. Len(delivered') <= Len(received')
      BY <2>1 DEF RequestInv, ChargingInv
    <3> QED BY <3>1, <1>3, <2>1, <2>2, <2>6 DEF ChargingInv, ChoicesInv
  <2>8. DeliveredWithinCeiling'
    BY <2>1, <2>2 DEF DeliveredWithinCeiling
  <2>9. RoutingInv'
    BY <1>3, <2>1, <2>2, TrailKept
  <2>10. RequestTypes'
    BY <1>1, <1>3, <2>1, <2>a, <2>5 DEF RequestTypes
  <2> QED BY <2>a, <2>7, <2>8, <2>9, <2>10 DEF RequestInv
<1>4. CASE RecordRejection \/ _emit_audit
  <2>1. /\ gstage \in {"rejected", "escaped"} /\ gstage' = "closed"
        /\ UNCHANGED <<streaming, asked, attempt, calls, decisions, received, tail, delivered, answer>>
        /\ ending' \in {ending, "internal_error"}
        /\ \/ records' = Append(records, 0) /\ appendFaults' = appendFaults
           \/ records' = records /\ appendFaults' = appendFaults + 1
    BY <1>4 DEF RecordRejection, _emit_audit, requestUnchanged, textUnchanged
  <2>2. delivered = <<>> /\ ending # "gone"
    BY <2>1 DEF RequestInv, ChargingInv
  <2>3. 0 \in Nat /\ 0 >= Len(delivered)
    BY <2>2
  <2> QED BY <2>1, <2>2, <2>3, EndRecorded
<1>5. CASE StreamFinally
  <2>1. /\ gstage = "finally" /\ gstage' = "closed"
        /\ UNCHANGED <<streaming, asked, attempt, calls, decisions, received, tail, delivered, answer, ending>>
        /\ \/ records' = Append(records, Len(received)) /\ appendFaults' = appendFaults
           \/ records' = records /\ appendFaults' = appendFaults + 1
    BY <1>5 DEF StreamFinally, requestUnchanged, textUnchanged
  <2>2. Len(received) \in Nat /\ Len(received) >= Len(delivered)
    <3>1. Len(received) \in Nat /\ Len(delivered) \in Nat /\ Len(delivered) <= Len(received)
      BY <1>1 DEF RequestInv, ChargingInv
    <3> QED BY <3>1
  <2> QED BY <2>1, <2>2, EndRecorded
<1> QED BY <1>2, <1>3, <1>4, <1>5 DEF RecordAndAnswer

\* A stream that is cut off delivers nothing more.
LEMMA StreamCutKeeps ==
    ASSUME RequestInv, gstage = "stream", gstage' \in {"finally", "closed"}, gstage' = "closed" => ending' = "gone",
           UNCHANGED <<streaming, asked, attempt, calls, tail, delivered, answer, records>>,
           received' = received \/ \E text \in Seq(Symbols) : received' = received \o text,
           ending' # "ok", decisions' \in Seq(RoutingOutcomes), appendFaults' \in Nat, RoutingInv'
    PROVE  RequestInv'
<1>1. ChargingInv' /\ ChoicesInv' /\ DeliveredWithinCeiling' /\ NoSecretDelivered' /\ received' \in Seq(Symbols)
  BY NothingDelivered
<1>2. RequestTypes'
  BY <1>1 DEF RequestInv, RequestTypes
<1> QED BY <1>1, <1>2 DEF RequestInv

\* The selected provider's stream is cut by its cost: the one verdict that follows another.
LEMMA CostCutTrail ==
    ASSUME RequestInv, gstage = "stream", gstage' = "finally", UNCHANGED calls, emit_routing_decision("cost_blocked")
    PROVE  RoutingInv'
<1> SUFFICES ASSUME appendFaults' = 0 PROVE RoutingInv'
  BY DEF RoutingInv
<1>1. "cost_blocked" \in RoutingOutcomes /\ RequestTypes
  BY DEF RoutingOutcomes, RequestInv
<1>2. /\ appendFaults = 0 /\ Len(decisions') = Len(decisions) + 1 /\ Len(decisions) \in Nat
      /\ decisions'[Len(decisions) + 1] = "cost_blocked"
      /\ \A i \in 1..Len(decisions) : decisions'[i] = decisions[i]
  BY <1>1, DecisionEmitted
<1>3. /\ Len(calls) = Len(decisions) /\ Len(decisions) > 0
      /\ decisions[Len(decisions)] = "selected"
      /\ \A i \in 1..(Len(decisions) - 1) : decisions[i] = "fallback_attempted"
  BY <1>2 DEF RequestInv, RoutingInv
<1>4. PICK given : given = Len(decisions) - 1
  OBVIOUS
<1>5. given \in 0..Len(decisions') /\ given + 1 = Len(decisions) /\ given + 2 = Len(decisions) + 1
  BY <1>2, <1>3, <1>4
<1>6. ExplainedBy(given)'
  <2>1. \A i \in 1..given : decisions'[i] = "fallback_attempted"
    BY <1>2, <1>3, <1>4
  <2>2. Len(decisions') = given + 2 /\ decisions'[given + 2] = "cost_blocked"
    BY <1>2, <1>5
  <2>3. decisions'[given + 1] = "selected"
    BY <1>2, <1>3, <1>5
  <2> QED BY <2>1, <2>2, <2>3, <1>3, <1>5 DEF ExplainedBy
<1> QED BY <1>5, <1>6 DEF RoutingInv

\* A chunk is counted, then held against ceiling, budget and content, then handed over.
LEMMA ChunkKeeps ==
    ASSUME RequestInv, NEW chunk \in Chunks, StreamChunk(chunk)
    PROVE  RequestInv'
<1> DEFINE text == _extract_chunk_content(chunk)
<1>1. /\ gstage = "stream" /\ AskedFor(chunk) /\ received' = received \o text
      /\ UNCHANGED <<streaming, asked, attempt, calls, records>>
      /\ \/ emit_routing_decision("cost_blocked") /\ Refuse("policy_blocked") /\ UNCHANGED <<tail, delivered, answer>>
         \/ Refuse("policy_blocked") /\ UNCHANGED <<tail, delivered, answer, decisions, appendFaults>>
         \/ /\ ~OverCeiling(received') /\ ~OverBudget(received') /\ ~Leaks(InspectWindow(text))
            /\ tail' = NextTail(text) /\ Deliver(chunk)
            /\ UNCHANGED <<gstage, ending, decisions, appendFaults>>
  BY DEF StreamChunk, requestUnchanged
<1>t. text \in Seq(Symbols) /\ \A c \in 1..MaxChoices : DeltaOf(chunk, c) \in Seq(Symbols)
  BY ChunkText
<1>d. asked = 1 => DeltaOf(chunk, 1) = text
  BY <1>1, ChunkText
<1> HIDE DEF text
<1>2. /\ RequestTypes /\ streaming /\ delivered = received /\ EndsWith(delivered, tail) /\ records = <<>>
      /\ ending # "ok" /\ ending # "gone" /\ decisions \in Seq(RoutingOutcomes) /\ appendFaults \in Nat
  BY <1>1 DEF RequestInv, ChargingInv, RequestTypes
<1>3. received \in Seq(Symbols) /\ tail \in Seq(Symbols)
  BY <1>2 DEF RequestTypes
<1>4. CASE emit_routing_decision("cost_blocked") /\ Refuse("policy_blocked") /\ UNCHANGED <<tail, delivered, answer>>
  <2>1. gstage' = "finally" /\ ending' = "policy_blocked" /\ "cost_blocked" \in RoutingOutcomes
    BY <1>2, <1>4 DEF Refuse, RoutingOutcomes
  <2>2. decisions' \in Seq(RoutingOutcomes) /\ appendFaults' \in Nat
    BY <1>2, <1>4, <2>1, DecisionEmitted
  <2>3. RoutingInv'
    BY <1>1, <1>4, <2>1, CostCutTrail
  <2> QED BY <1>1, <1>t, <1>4, <2>1, <2>2, <2>3, StreamCutKeeps
<1>5. CASE Refuse("policy_blocked") /\ UNCHANGED <<tail, delivered, answer, decisions, appendFaults>>
  <2>1. gstage' = "finally" /\ ending' = "policy_blocked"
    BY <1>2, <1>5 DEF Refuse
  <2>2. RoutingInv'
    BY <1>1, <1>2, <1>5, <2>1, TrailKept
  <2> QED BY <1>1, <1>t, <1>2, <1>5, <2>1, <2>2, StreamCutKeeps
<1>6. CASE /\ ~OverCeiling(received') /\ ~OverBudget(received') /\ ~Leaks(InspectWindow(text))
           /\ tail' = NextTail(text) /\ Deliver(chunk)
           /\ UNCHANGED <<gstage, ending, decisions, appendFaults>>
  <2>1. /\ delivered' = received' /\ delivered' = delivered \o text /\ delivered \in Seq(Symbols)
        /\ answer' = [c \in 1..MaxChoices |-> answer[c] \o DeltaOf(chunk, c)]
    BY <1>1, <1>2, <1>3, <1>6 DEF Deliver, text
  <2>2. tail' \in Seq(Symbols) /\ EndsWith(delivered', tail')
    <3>1. NextTail(text) \in Seq(Symbols) /\ EndsWith(delivered \o text, NextTail(text))
      BY <2>1, <1>t, <1>2, <1>3, TailEndsText
    <3> QED BY <3>1, <2>1, <1>6
  <2>c. ChoicesInv'
    <3> SUFFICES ASSUME asked = 1 PROVE answer'[1] = delivered'
      BY <1>1, <1>2 DEF ChoicesInv
    <3>1. answer[1] = delivered /\ DeltaOf(chunk, 1) = text /\ 1 \in 1..MaxChoices
      BY <1>2, <1>d, GatewayAssumption DEF RequestInv, ChoicesInv
    <3> QED BY <3>1, <2>1
  <2>3. NoSecretDelivered'
    <3>1. ~Leaks(delivered) /\ ~Leaks(tail \o text)
      BY <1>6 DEF RequestInv, NoSecretDelivered, InspectWindow
    <3>2. ~Leaks(delivered \o text)
      BY <3>1, <2>1, <1>t, <1>2, <1>3, WindowSees
    <3>3. ~Leaks(delivered') /\ streaming' /\ (asked' = 1 => answer'[1] = delivered')
      BY <3>2, <2>1, <2>c, <1>1, <1>2 DEF ChoicesInv
    <3> QED BY <3>3 DEF NoSecretDelivered
  <2>4. DeliveredWithinCeiling'
    <3>1. delivered' = received' /\ calls' = calls
      BY <2>1, <1>1
    <3> QED BY <3>1, <1>6 DEF DeliveredWithinCeiling, OverCeiling, OverBudget, Last
  <2>5. received' \in Seq(Symbols) /\ delivered' \in Seq(Symbols) /\ answer' \in [1..MaxChoices -> Text]
    <3>1. received \o text \in Seq(Symbols)
      BY <1>t, <1>3, ConcatProperties
    <3>2. ASSUME NEW c \in 1..MaxChoices PROVE answer[c] \o DeltaOf(chunk, c) \in Text
      <4>1. answer[c] \in Text
        BY <1>2 DEF RequestTypes
      <4>2. DeltaOf(chunk, c) \in Text
        <5>1. DeltaOf(chunk, c) \in Seq(Symbols)
          BY <1>t
        <5> HIDE DEF DeltaOf
        <5> QED BY <5>1 DEF Text
      <4> QED BY <4>1, <4>2, ConcatProperties DEF Text
    <3> QED BY <3>1, <3>2, <1>1, <2>1
  <2>6. DeliveredIsCharged'
    BY <1>1, <1>2, <1>6 DEF DeliveredIsCharged
  <2>7. ChargingInv'
    <3>1. Len(delivered') <= Len(received')
      BY <2>1, <2>5
    <3>2. gstage' = "stream" /\ streaming' /\ records' = <<>> /\ ending' # "ok" /\ ending' # "gone"
      BY <1>1, <1>2, <1>6
    <3> QED BY <3>1, <3>2, <2>1, <2>2, <2>6 DEF ChargingInv
  <2>8. RoutingInv'
    BY <1>1, <1>6, TrailKept
  <2>9. RequestTypes'
    BY <1>1, <1>2, <1>6, <2>2, <2>5 DEF RequestTypes
  <2> QED BY <2>3, <2>c, <2>4, <2>7, <2>8, <2>9 DEF RequestInv
<1> QED BY <1>1, <1>4, <1>5, <1>6

\* A stream ends by its provider or a crash of a detector.
LEMMA StreamEndKeeps ==
    ASSUME RequestInv, StreamHookCrashes \/ StreamEnds
    PROVE  RequestInv'
<1>1. /\ gstage = "stream" /\ streaming /\ decisions \in Seq(RoutingOutcomes) /\ appendFaults \in Nat
      /\ UNCHANGED <<streaming, asked, attempt, calls, decisions, received, tail, delivered, answer, records, appendFaults>>
      /\ ending # "gone"
  BY DEF StreamHookCrashes, StreamEnds, RequestInv, ChargingInv, RequestTypes, requestUnchanged, textUnchanged
<1>2. gstage' = "finally" /\ ending' # "ok" /\ ending' # "gone"
  BY <1>1 DEF StreamHookCrashes, StreamEnds, Refuse
<1>3. RoutingInv'
  BY <1>1, <1>2, TrailKept
<1> QED BY <1>1, <1>2, <1>3, StreamCutKeeps

\* The client leaves: nothing more is delivered, and at most the last call is not explained.
LEMMA ClientLeaves ==
    ASSUME RequestInv, ClientGone
    PROVE  RequestInv'
<1>1. /\ gstage \in {"policy", "attempt", "stream", "finally"} /\ gstage' \in {"finally", "closed"} /\ ending' = "gone"
      /\ UNCHANGED <<streaming, asked, attempt, decisions, received, tail, delivered, answer, records, appendFaults>>
      /\ calls' = calls \/ (gstage = "attempt" /\ calls' = Append(calls, _effective_chain[attempt]))
      /\ RequestTypes
  BY DEF ClientGone, requestUnchanged, textUnchanged, RequestInv
<1>2. gstage = "attempt" => delivered = <<>>
  BY DEF RequestInv, ChargingInv
<1>3. ChargingInv' /\ ChoicesInv' /\ DeliveredWithinCeiling' /\ NoSecretDelivered'
  BY <1>1, <1>2, NothingDelivered
<1>4. calls' \in Seq(ChainProviders) /\ Len(calls') \in {Len(calls), Len(calls) + 1}
  BY <1>1, ProviderCalled DEF RequestTypes
<1>5. RoutingInv'
  <2>1. CASE gstage # "attempt"
    BY <1>1, <2>1, TrailKept
  <2>2. CASE gstage = "attempt"
    <3> SUFFICES ASSUME appendFaults' = 0 PROVE RoutingInv'
      BY DEF RoutingInv
    <3>1. /\ Len(calls) = Len(decisions) /\ \A i \in 1..Len(decisions) : decisions[i] = "fallback_attempted"
          /\ Len(decisions) \in Nat
      BY <1>1, <2>2 DEF RequestInv, RoutingInv, RequestTypes
    <3>2. PICK given : given = Len(decisions)
      OBVIOUS
    <3>3. given \in 0..Len(decisions') /\ ExplainedBy(given)'
      BY <1>1, <1>4, <3>1, <3>2 DEF ExplainedBy
    <3> QED BY <1>1, <3>3 DEF RoutingInv
  <2> QED BY <2>1, <2>2
<1>6. RequestTypes'
  BY <1>1, <1>4 DEF RequestTypes
<1> QED BY <1>3, <1>5, <1>6 DEF RequestInv

\* Every step of a request keeps the invariant.
LEMMA RequestKept == RequestInv /\ [GatewayRequestNext]_gatewayRequestVars => RequestInv'
<1> SUFFICES ASSUME RequestInv, [GatewayRequestNext]_gatewayRequestVars PROVE RequestInv'
  OBVIOUS
<1>1. CASE AdmissionFails \/ create_chat_completion \/ _enforce_policies_pre_request \/ ResolvePolicyFails
  BY <1>1, AdmissionKeeps
<1>2. CASE DeadlinePassed \/ _check_allowlist_and_cost \/ ProviderFails \/ ProviderAnswers
  BY <1>2, AttemptKeeps
<1>3. CASE InspectionRefuses \/ RecordAndAnswer \/ RecordRejection \/ _emit_audit \/ StreamFinally
  BY <1>3, AnswerKeeps
<1>4. CASE \E chunk \in Chunks : StreamChunk(chunk)
  BY <1>4, ChunkKeeps
<1>5. CASE StreamHookCrashes \/ StreamEnds \/ ClientGone
  BY <1>5, StreamEndKeeps, ClientLeaves
<1>6. CASE UNCHANGED gatewayRequestVars
  BY <1>6 DEF gatewayRequestVars, RequestInv, RequestTypes, ChargingInv, DeliveredIsCharged, DeliveredWithinCeiling,
              OverCeiling, OverBudget, Last, NoSecretDelivered, ChoicesInv, RoutingInv, ExplainedBy, EndsWith
<1> QED BY <1>1, <1>2, <1>3, <1>4, <1>5, <1>6 DEF GatewayRequestNext

\* A stream is charged for what it delivered, a plain answer is recorded before it is
\* sent, a stream costs no more than ceiling and budget allow, and the routing trail
\* explains every call but the one a client left behind, for every chain of providers,
\* ceiling, budget and splitting of the answer into chunks (chat_completions.py,
\* router/selection.py).
THEOREM AnswersStayAccounted == GatewayRequestSpec => []AnswerIsAccounted
<1> USE DEF GatewayRequestSpec
<1>1. GatewayRequestSpec => []RequestInv
  BY RequestStart, RequestKept, PTL
<1>2. RequestInv => AnswerIsAccounted
  BY RequestInvAccounts
<1> QED BY <1>1, <1>2, PTL

\* No secret the outbound detector knows is in a stream as it was sent, however the
\* provider cuts it, nor in any choice of a plain answer, nor in the only choice of a
\* stream: the carried tail is at most one symbol short of a secret, and a redacted
\* answer keeps no part of one that was found (_handle_stream, redact).  Several
\* choices mixed in one stream are not covered.
THEOREM SecretsStayInside == GatewayRequestSpec => []NoSecretDelivered
<1> USE DEF GatewayRequestSpec
<1>1. GatewayRequestSpec => []RequestInv
  BY RequestStart, RequestKept, PTL
<1>2. RequestInv => NoSecretDelivered
  BY RequestInvAccounts
<1> QED BY <1>1, <1>2, PTL
====
