------------------------ MODULE CollaborationProofs -------------------------
(* Theorems about the Orchestrator's agent services, its registry of Sentinels, its  *)
(* product events and Rendly's refresh tokens, chat rooms and huddles, for every      *)
(* value of their constants, and about their composition in the Collaboration run.   *)
EXTENDS MCCollaboration, FiniteSetTheorems, WellFoundedInduction, TLAPS

-----------------------------------------------------------------------------
(* Facts about finite sets *)

\* A set whose members are all equal has at most one.
LEMMA AtMostOneMember ==
    ASSUME NEW S, \A x, y \in S : x = y
    PROVE  IsFiniteSet(S) /\ Cardinality(S) <= 1
<1>1. CASE S = {}
  BY <1>1, FS_EmptySet
<1>2. CASE S # {}
  <2>1. PICK x \in S : TRUE
    BY <1>2
  <2>2. S = {x}
    BY <2>1
  <2>3. IsFiniteSet({x}) /\ Cardinality({x}) = 1
    BY FS_Singleton
  <2> QED BY <2>2, <2>3
<1> QED BY <1>1, <1>2

Less == {p \in Nat \X Nat : p[1] < p[2]}

\* There is no endless descent in the natural numbers.
LEMMA LessWellFounded == IsWellFoundedOn(Less, Nat)
<1>1. OpToRel(<, Nat) = Less
  BY Zenon DEF OpToRel, Less
<1> QED BY <1>1, NatLessThanWellFounded, Zenon

\* A set of numbers has a least element.
LEMMA LeastNat ==
    ASSUME NEW S, S \subseteq Nat, S # {}
    PROVE  \E n \in S : \A m \in S : n <= m
<1>1. PICK n \in S : \A m \in S : ~(<<m, n>> \in Less)
  BY WFMin, LessWellFounded, Zenon
<1>2. ASSUME NEW m \in S PROVE n <= m
  <2>1. <<m, n>> \in Nat \X Nat
    OBVIOUS
  <2>2. ~(m < n)
    BY <1>1, <2>1 DEF Less
  <2> QED BY <2>2
<1> QED BY <1>2

Bit(b) == IF b THEN 1 ELSE 0

\* One member more or less in a subset of a finite set.
LEMMA OneMemberMoves ==
    ASSUME NEW P, IsFiniteSet(P), NEW S, S \subseteq P, NEW p \in P, NEW T, NEW joins \in BOOLEAN,
           T = IF joins THEN S \cup {p} ELSE S \ {p}
    PROVE  /\ Cardinality(S) \in Nat /\ Cardinality(T) \in Nat
           /\ Cardinality(T) = Cardinality(S) + Bit(joins) - Bit(p \in S)
<1>1. IsFiniteSet(S) /\ Cardinality(S) \in Nat
  BY FS_Subset, FS_CardinalityType
<1>2. CASE joins
  <2>1. Cardinality(S \cup {p}) = IF p \in S THEN Cardinality(S) ELSE Cardinality(S) + 1
    BY <1>1, FS_AddElement
  <2> QED BY <1>1, <1>2, <2>1 DEF Bit
<1>3. CASE ~joins
  <2>1. Cardinality(S \ {p}) = IF p \in S THEN Cardinality(S) - 1 ELSE Cardinality(S)
    BY <1>1, FS_RemoveElement
  <2>2. S \ {p} \subseteq P
    OBVIOUS
  <2>3. Cardinality(S \ {p}) \in Nat
    BY <2>2, FS_Subset, FS_CardinalityType
  <2> QED BY <1>1, <1>3, <2>1, <2>3 DEF Bit
<1> QED BY <1>2, <1>3

-----------------------------------------------------------------------------
(* Rendly's refresh tokens *)

TokenRow == [tok : Tokens, used : BOOLEAN, by : Presenters \cup {NoPresenter}]

RefreshTypeOK ==
    /\ family \in [Families -> {"none", "active", "revoked"}]
    /\ token \subseteq TokenRow
    /\ present \in [Presenters -> [at : {"idle", "locked", "read"}, tok : Tokens \cup {<<>>},
                                   active : BOOLEAN, used : BOOLEAN]]
    /\ \A p \in Presenters : present[p].at # "idle" => present[p].tok \in Tokens
    /\ tokenHeld \in [Tokens -> Presenters \cup {NoPresenter}]
    /\ finished \in [Tokens -> 0..2]

\* One row per token, of a family that was issued, and only its newest is unused.
NewestIsLive ==
    /\ \A x, y \in token : x.tok = y.tok => x = y
    /\ \A x \in token : family[x.tok[1]] # "none"
    /\ \A x, y \in token : ~x.used /\ x.tok[1] = y.tok[1] => y.tok[2] <= x.tok[2]

\* A call holds the row of its token, so that what it read of it still holds.
HeldAsRead ==
    \A p \in Presenters : present[p].at # "idle" =>
        /\ tokenHeld[present[p].tok] = p
        /\ \E x \in token : x.tok = present[p].tok /\ x.used = present[p].used

\* A token that was answered once has been used or its family is revoked; one that was
\* answered twice has ended its family.
AnswersLeaveTraces ==
    \A t \in Tokens :
        /\ finished[t] >= 1 => \/ family[t[1]] = "revoked"
                               \/ \E x \in token : x.tok = t /\ x.used
        /\ finished[t] >= 2 => family[t[1]] = "revoked"

RefreshInv == RefreshTypeOK /\ NewestIsLive /\ HeldAsRead /\ AnswersLeaveTraces

\* At the start there is no token.
LEMMA RefreshStart == RefreshInit => RefreshInv
BY RefreshAssumption
DEF RefreshInit, RefreshInv, RefreshTypeOK, NewestIsLive, HeldAsRead, AnswersLeaveTraces,
    NotPresenting

\* The rows of a token say that it was used when one of them does.
LEMMA RowsOfToken ==
    ASSUME NewestIsLive, NEW t, TokenRows(t) # {}, token \subseteq TokenRow
    PROVE  \E x \in token : x.tok = t /\ x.used = (\A y \in TokenRows(t) : y.used)
<1>1. PICK x \in token : x.tok = t
  BY DEF TokenRows
<1>2. \A y \in TokenRows(t) : y = x
  BY <1>1 DEF TokenRows, NewestIsLive
<1>3. x \in TokenRows(t) /\ x.used \in BOOLEAN
  BY <1>1 DEF TokenRows, TokenRow
<1>4. x.used = (\A y \in TokenRows(t) : y.used)
  BY <1>2, <1>3, Zenon
<1> QED BY <1>1, <1>4

\* A call ends: it holds nothing any more, and the others hold what they held.
LEMMA RotateEnds ==
    ASSUME RefreshInv, NEW p \in Presenters, present[p].at # "idle", EndRotate(p)
    PROVE  /\ present' \in [Presenters -> [at : {"idle", "locked", "read"},
                                tok : Tokens \cup {<<>>}, active : BOOLEAN, used : BOOLEAN]]
           /\ tokenHeld' \in [Tokens -> Presenters \cup {NoPresenter}]
           /\ present'[p].at = "idle"
           /\ \A o \in Presenters : o # p =>
                 /\ present'[o] = present[o]
                 /\ present[o].at # "idle" =>
                       /\ present[o].tok # present[p].tok
                       /\ tokenHeld'[present[o].tok] = tokenHeld[present[o].tok]
<1>1. NotPresenting \in [at : {"idle", "locked", "read"}, tok : Tokens \cup {<<>>},
                         active : BOOLEAN, used : BOOLEAN]
      /\ NotPresenting.at = "idle"
  BY DEF NotPresenting
<1>2. /\ present' = [present EXCEPT ![p] = NotPresenting]
      /\ tokenHeld' = [tokenHeld EXCEPT ![present[p].tok] = NoPresenter]
  BY DEF EndRotate
<1>3. present[p].tok \in Tokens /\ tokenHeld[present[p].tok] = p
  BY DEF RefreshInv, RefreshTypeOK, HeldAsRead
<1>4. \A o \in Presenters : present[o].at # "idle" =>
         present[o].tok \in Tokens /\ tokenHeld[present[o].tok] = o
  BY DEF RefreshInv, RefreshTypeOK, HeldAsRead
<1>5. /\ present' \in [Presenters -> [at : {"idle", "locked", "read"},
                           tok : Tokens \cup {<<>>}, active : BOOLEAN, used : BOOLEAN]]
      /\ present'[p] = NotPresenting
      /\ \A o \in Presenters : o # p => present'[o] = present[o]
  BY <1>1, <1>2 DEF RefreshInv, RefreshTypeOK
<1>6. /\ tokenHeld' \in [Tokens -> Presenters \cup {NoPresenter}]
      /\ \A t \in Tokens : t # present[p].tok => tokenHeld'[t] = tokenHeld[t]
  BY <1>2, <1>3 DEF RefreshInv, RefreshTypeOK
<1> QED BY <1>1, <1>3, <1>4, <1>5, <1>6

\* Every login, statement of a rotation and logout keeps RefreshInv.
LEMMA RefreshStep == RefreshInv /\ [RefreshNext]_refreshVars => RefreshInv'
<1> SUFFICES ASSUME RefreshInv, [RefreshNext]_refreshVars PROVE RefreshInv'
  OBVIOUS
<1> USE RefreshAssumption
<1>1. ASSUME NEW f \in Families, issue(f) PROVE RefreshInv'
  <2> DEFINE new == Minted(<<f, 0>>, NoPresenter)
  <2>1. /\ family[f] = "none" /\ family' = [family EXCEPT ![f] = "active"]
        /\ token' = token \cup {new} /\ UNCHANGED <<present, tokenHeld, finished>>
    BY <1>1 DEF issue
  <2>2. new \in TokenRow /\ new.tok = <<f, 0>> /\ new.tok[1] = f /\ new.tok \in Tokens
    BY DEF Minted, TokenRow, Tokens
  <2> HIDE DEF new
  <2>3. \A x \in token : x.tok[1] # f /\ x.tok[1] \in Families /\ x \in TokenRow
    BY <2>1 DEF RefreshInv, RefreshTypeOK, NewestIsLive, TokenRow, Tokens
  <2>4. RefreshTypeOK'
    BY <2>1, <2>2 DEF RefreshInv, RefreshTypeOK
  <2>5. NewestIsLive'
    <3>1. \A x, y \in token' : x.tok = y.tok => x = y
      BY <2>1, <2>2, <2>3 DEF RefreshInv, NewestIsLive
    <3>2. \A x \in token' : family'[x.tok[1]] # "none"
      BY <2>1, <2>2, <2>3 DEF RefreshInv, NewestIsLive, RefreshTypeOK
    <3>3. \A x, y \in token' : ~x.used /\ x.tok[1] = y.tok[1] => y.tok[2] <= x.tok[2]
      <4>1. new.tok[2] <= new.tok[2]
        BY <2>2
      <4> QED BY <2>1, <2>2, <2>3, <4>1 DEF RefreshInv, NewestIsLive
    <3> QED BY <3>1, <3>2, <3>3 DEF NewestIsLive
  <2>6. HeldAsRead'
    BY <2>1 DEF RefreshInv, HeldAsRead
  <2>7. AnswersLeaveTraces'
    <3>1. \A t \in Tokens : t[1] \in Families /\ (family[t[1]] = "revoked" => family'[t[1]] = "revoked")
      BY <2>1 DEF RefreshInv, RefreshTypeOK, Tokens
    <3> QED BY <2>1, <3>1 DEF RefreshInv, AnswersLeaveTraces
  <2> QED BY <2>4, <2>5, <2>6, <2>7 DEF RefreshInv
<1>2. ASSUME NEW p \in Presenters, NEW t \in Tokens, SelectForUpdate(p, t) PROVE RefreshInv'
  <2> DEFINE u == \A row \in TokenRows(t) : row.used
             new == [NotPresenting EXCEPT !.at = "locked", !.tok = t, !.used = u]
  <2>1. /\ present[p].at = "idle" /\ TokenRows(t) # {} /\ tokenHeld[t] = NoPresenter
        /\ tokenHeld' = [tokenHeld EXCEPT ![t] = p]
        /\ present' = [present EXCEPT ![p] = new]
        /\ UNCHANGED <<family, token, finished>>
    BY <1>2 DEF SelectForUpdate
  <2>2. /\ new \in [at : {"idle", "locked", "read"}, tok : Tokens \cup {<<>>},
                    active : BOOLEAN, used : BOOLEAN]
        /\ new.at = "locked" /\ new.tok = t /\ new.used = u
    BY DEF NotPresenting
  <2>3. \E x \in token : x.tok = t /\ x.used = u
    BY <2>1, RowsOfToken DEF RefreshInv, RefreshTypeOK
  <2> HIDE DEF new, u
  <2>4. /\ tokenHeld'[t] = p /\ \A o \in Tokens : o # t => tokenHeld'[o] = tokenHeld[o]
        /\ tokenHeld' \in [Tokens -> Presenters \cup {NoPresenter}]
    BY <2>1 DEF RefreshInv, RefreshTypeOK
  <2>5. /\ present'[p] = new /\ \A o \in Presenters : o # p => present'[o] = present[o]
        /\ present' \in [Presenters -> [at : {"idle", "locked", "read"},
                             tok : Tokens \cup {<<>>}, active : BOOLEAN, used : BOOLEAN]]
    BY <2>1, <2>2 DEF RefreshInv, RefreshTypeOK
  <2>6. RefreshTypeOK'
    BY <2>1, <2>2, <2>4, <2>5 DEF RefreshInv, RefreshTypeOK
  <2>7. NewestIsLive' /\ AnswersLeaveTraces'
    BY <2>1 DEF RefreshInv, NewestIsLive, AnswersLeaveTraces
  <2>8. HeldAsRead'
    <3>1. \A o \in Presenters : o # p /\ present[o].at # "idle" =>
             present[o].tok # t /\ present[o].tok \in Tokens
      BY <2>1 DEF RefreshInv, HeldAsRead, RefreshTypeOK
    <3> QED BY <2>1, <2>2, <2>3, <2>4, <2>5, <3>1 DEF RefreshInv, HeldAsRead
  <2> QED BY <2>6, <2>7, <2>8 DEF RefreshInv
<1>3. ASSUME NEW p \in Presenters, ReadFamily(p) PROVE RefreshInv'
  <2> DEFINE new == [present[p] EXCEPT !.at = "read",
                                       !.active = family[present[p].tok[1]] = "active"]
  <2>1. /\ present[p].at = "locked" /\ present' = [present EXCEPT ![p] = new]
        /\ UNCHANGED <<family, token, tokenHeld, finished>>
    BY <1>3 DEF ReadFamily
  <2>2. /\ new \in [at : {"idle", "locked", "read"}, tok : Tokens \cup {<<>>},
                    active : BOOLEAN, used : BOOLEAN]
        /\ new.tok = present[p].tok /\ new.used = present[p].used
    BY DEF RefreshInv, RefreshTypeOK
  <2> HIDE DEF new
  <2>3. /\ present'[p] = new /\ \A o \in Presenters : o # p => present'[o] = present[o]
        /\ present' \in [Presenters -> [at : {"idle", "locked", "read"},
                             tok : Tokens \cup {<<>>}, active : BOOLEAN, used : BOOLEAN]]
    BY <2>1, <2>2 DEF RefreshInv, RefreshTypeOK
  <2>4. RefreshTypeOK'
    BY <2>1, <2>2, <2>3 DEF RefreshInv, RefreshTypeOK
  <2>5. NewestIsLive' /\ AnswersLeaveTraces'
    BY <2>1 DEF RefreshInv, NewestIsLive, AnswersLeaveTraces
  <2>6. HeldAsRead'
    BY <2>1, <2>2, <2>3 DEF RefreshInv, HeldAsRead
  <2> QED BY <2>4, <2>5, <2>6 DEF RefreshInv
<1>4. ASSUME NEW p \in Presenters, RotateRefused(p) PROVE RefreshInv'
  <2>1. present[p].at # "idle" /\ EndRotate(p) /\ UNCHANGED <<family, token, finished>>
    BY <1>4 DEF RotateRefused
  <2>2. RefreshTypeOK'
    BY <2>1, RotateEnds DEF RefreshInv, RefreshTypeOK
  <2>3. NewestIsLive' /\ AnswersLeaveTraces'
    BY <2>1 DEF RefreshInv, NewestIsLive, AnswersLeaveTraces
  <2>4. HeldAsRead'
    BY <2>1, RotateEnds DEF RefreshInv, HeldAsRead
  <2> QED BY <2>2, <2>3, <2>4 DEF RefreshInv
<1>5. ASSUME NEW f \in Families, family' = [family EXCEPT ![f] = "revoked"],
             UNCHANGED token
      PROVE  /\ NewestIsLive' /\ family'[f] = "revoked"
             /\ family' \in [Families -> {"none", "active", "revoked"}]
             /\ \A t \in Tokens : family[t[1]] = "revoked" => family'[t[1]] = "revoked"
  <2>1. \A t \in Tokens : t[1] \in Families
    BY DEF Tokens
  <2>2. \A x \in token : x.tok[1] \in Families
    BY DEF RefreshInv, RefreshTypeOK, TokenRow, Tokens
  <2>3. \A g \in Families : family'[g] = "revoked" \/ family'[g] = family[g]
    BY <1>5 DEF RefreshInv, RefreshTypeOK
  <2>4. NewestIsLive'
    BY <1>5, <2>2, <2>3 DEF RefreshInv, NewestIsLive
  <2> QED BY <1>5, <2>1, <2>3, <2>4 DEF RefreshInv, RefreshTypeOK
<1>6. ASSUME NEW p \in Presenters, RotateReuse(p) PROVE RefreshInv'
  <2> DEFINE t == present[p].tok
  <2>1. /\ present[p].at # "idle" /\ family' = [family EXCEPT ![t[1]] = "revoked"]
        /\ EndRotate(p) /\ UNCHANGED token
        /\ finished' = [finished EXCEPT ![t] = IF @ < 2 THEN @ + 1 ELSE 2]
    BY <1>6 DEF RotateReuse, Finish
  <2>2. t \in Tokens /\ t[1] \in Families
    BY <2>1 DEF RefreshInv, RefreshTypeOK, Tokens
  <2> HIDE DEF t
  <2>3. /\ finished' \in [Tokens -> 0..2]
        /\ \A u \in Tokens : u # t => finished'[u] = finished[u]
    BY <2>1, <2>2 DEF RefreshInv, RefreshTypeOK
  <2>4. RefreshTypeOK'
    BY <1>5, <2>1, <2>2, <2>3, RotateEnds, SMTT(30) DEF RefreshInv, RefreshTypeOK
  <2>5. HeldAsRead'
    BY <2>1, RotateEnds DEF RefreshInv, HeldAsRead
  <2>6. AnswersLeaveTraces'
    BY <1>5, <2>1, <2>2, <2>3 DEF RefreshInv, AnswersLeaveTraces
  <2> QED BY <1>5, <2>1, <2>2, <2>4, <2>5, <2>6 DEF RefreshInv
<1>7. ASSUME NEW p \in Presenters, RotateMints(p) PROVE RefreshInv'
  <2> DEFINE t == present[p].tok
             spent(x) == IF x.tok = t THEN [x EXCEPT !.used = TRUE] ELSE x
             next == <<t[1], t[2] + 1>>
             new == Minted(next, p)
  <2>1. /\ present[p].at # "idle" /\ ~present[p].used /\ t[2] < MaxGeneration
        /\ token' = {spent(x) : x \in token} \cup {new}
        /\ EndRotate(p) /\ UNCHANGED family
        /\ finished' = [finished EXCEPT ![t] = IF @ < 2 THEN @ + 1 ELSE 2]
    BY <1>7 DEF RotateMints, Finish
  <2>2. t \in Tokens /\ t[1] \in Families /\ t[2] \in 0..MaxGeneration
    BY <2>1 DEF RefreshInv, RefreshTypeOK, Tokens
  <2>3. /\ next \in Tokens /\ next[1] = t[1] /\ next[2] = t[2] + 1 /\ next # t
        /\ new \in TokenRow /\ new.tok = next /\ ~new.used
    BY <2>1, <2>2 DEF Tokens, Minted, TokenRow
  <2>4. PICK old \in token : old.tok = t /\ ~old.used
    BY <2>1 DEF RefreshInv, HeldAsRead
  <2>5. ASSUME NEW x \in token
        PROVE  /\ x \in TokenRow /\ x.tok \in Tokens /\ x.tok[1] \in Families
               /\ x.tok[2] \in 0..MaxGeneration
               /\ x.tok[1] = t[1] => x.tok[2] <= t[2]
               /\ spent(x) \in TokenRow /\ spent(x).tok = x.tok
               /\ x.tok = t => spent(x).used
               /\ x.tok # t => spent(x) = x
               /\ x.used => spent(x).used
    <3>1. /\ x \in TokenRow /\ x.tok \in Tokens /\ x.tok[1] \in Families
          /\ x.tok[2] \in 0..MaxGeneration
      BY DEF RefreshInv, RefreshTypeOK, TokenRow, Tokens
    <3>2. x.tok[1] = t[1] => x.tok[2] <= t[2]
      BY <2>4 DEF RefreshInv, NewestIsLive
    <3>3. [x EXCEPT !.used = TRUE] \in TokenRow /\ [x EXCEPT !.used = TRUE].tok = x.tok
          /\ [x EXCEPT !.used = TRUE].used
      BY <3>1 DEF TokenRow
    <3> QED BY <3>1, <3>2, <3>3
  <2> HIDE DEF t, spent, next, new
  <2>6. /\ finished' \in [Tokens -> 0..2]
        /\ finished'[t] = (IF finished[t] < 2 THEN finished[t] + 1 ELSE 2)
        /\ \A u \in Tokens : u # t => finished'[u] = finished[u]
    BY <2>1, <2>2 DEF RefreshInv, RefreshTypeOK
  <2>7. RefreshTypeOK'
    <3>1. token' \subseteq TokenRow
      BY <2>1, <2>3, <2>5
    <3>2. \A q \in Presenters : present'[q].at # "idle" => present'[q].tok \in Tokens
      BY <2>1, RotateEnds DEF RefreshInv, RefreshTypeOK
    <3> QED BY <2>1, <2>6, <3>1, <3>2, RotateEnds DEF RefreshInv, RefreshTypeOK
  <2>8. \A x \in token : x.tok # next
    BY <2>2, <2>3, <2>5
  <2>9. NewestIsLive'
    <3>1. \A x, y \in token' : x.tok = y.tok => x = y
      <4>1. \A x, y \in token : spent(x).tok = spent(y).tok => spent(x) = spent(y)
        BY <2>5 DEF RefreshInv, NewestIsLive
      <4>2. \A x \in token : spent(x).tok # new.tok
        BY <2>3, <2>5, <2>8
      <4> QED BY <2>1, <4>1, <4>2
    <3>2. \A x \in token' : family'[x.tok[1]] # "none"
      <4>1. family[t[1]] # "none"
        BY <2>4 DEF RefreshInv, NewestIsLive
      <4> QED BY <2>1, <2>3, <2>5, <4>1 DEF RefreshInv, NewestIsLive
    <3>3. ASSUME NEW x \in token', NEW y \in token', ~x.used, x.tok[1] = y.tok[1]
          PROVE  y.tok[2] <= x.tok[2]
      <4>1. CASE x = new
        BY <2>1, <2>2, <2>3, <2>5, <3>3, <4>1
      <4>2. CASE x # new
        <5>1. PICK w \in token : x = spent(w)
          BY <2>1, <3>3, <4>2
        <5>2. x = w /\ w.tok # t
          BY <2>5, <3>3, <5>1
        <5>3. w.tok[1] # t[1]
          <6>1. w.tok[1] = t[1] => w.tok[2] <= t[2] /\ t[2] <= w.tok[2]
            BY <2>4, <2>5, <3>3, <5>2 DEF RefreshInv, NewestIsLive
          <6>2. w.tok = <<w.tok[1], w.tok[2]>> /\ t = <<t[1], t[2]>>
            BY <2>2, <2>5 DEF Tokens
          <6>3. w.tok[2] \in Int /\ t[2] \in Int
            BY <2>2, <2>5
          <6> QED BY <5>2, <6>1, <6>2, <6>3
        <5>4. y # new
          BY <2>3, <3>3, <5>2, <5>3
        <5>5. PICK v \in token : y = spent(v)
          BY <2>1, <3>3, <5>4
        <5> QED BY <2>5, <3>3, <5>2, <5>5 DEF RefreshInv, NewestIsLive
      <4> QED BY <4>1, <4>2
    <3> QED BY <3>1, <3>2, <3>3 DEF NewestIsLive
  <2>10. HeldAsRead'
    <3> SUFFICES ASSUME NEW o \in Presenters, present'[o].at # "idle"
                 PROVE  /\ tokenHeld'[present'[o].tok] = o
                        /\ \E x \in token' : x.tok = present'[o].tok /\ x.used = present'[o].used
      BY DEF HeldAsRead
    <3>1. /\ o # p /\ present'[o] = present[o] /\ present[o].tok # t
          /\ tokenHeld'[present[o].tok] = tokenHeld[present[o].tok]
      BY <2>1, RotateEnds DEF t
    <3>2. PICK x \in token : x.tok = present[o].tok /\ x.used = present[o].used
      BY <3>1 DEF RefreshInv, HeldAsRead
    <3>3. x \in token'
      BY <2>1, <2>5, <3>1, <3>2
    <3> QED BY <3>1, <3>2, <3>3 DEF RefreshInv, HeldAsRead
  <2>11. AnswersLeaveTraces'
    <3>1. \E x \in token' : x.tok = t /\ x.used
      BY <2>1, <2>4, <2>5
    <3>2. ~\E x \in token : x.tok = t /\ x.used
      BY <2>4 DEF RefreshInv, NewestIsLive
    <3>3. finished'[t] >= 2 => family[t[1]] = "revoked"
      <4>1. finished[t] \in 0..2
        BY <2>2 DEF RefreshInv, RefreshTypeOK
      <4>2. finished[t] >= 1 => family[t[1]] = "revoked"
        BY <2>2, <3>2 DEF RefreshInv, AnswersLeaveTraces
      <4> QED BY <2>6, <4>1, <4>2
    <3>4. ASSUME NEW u \in Tokens, u # t,  NEW x \in token, x.tok = u, x.used
          PROVE  x \in token'
      BY <2>1, <2>5, <3>4
    <3>5. ASSUME NEW u \in Tokens, u # t, finished'[u] >= 1
          PROVE  family'[u[1]] = "revoked" \/ \E x \in token' : x.tok = u /\ x.used
      BY <2>1, <2>6, <3>4, <3>5 DEF RefreshInv, AnswersLeaveTraces
    <3>6. \A u \in Tokens : u # t /\ finished'[u] >= 2 => family'[u[1]] = "revoked"
      BY <2>1, <2>6 DEF RefreshInv, AnswersLeaveTraces
    <3> QED BY <2>1, <3>1, <3>3, <3>5, <3>6 DEF AnswersLeaveTraces
  <2> QED BY <2>7, <2>9, <2>10, <2>11 DEF RefreshInv
<1>8. ASSUME NEW t \in Tokens, revoke(t) PROVE RefreshInv'
  <2>1. /\ family' = [family EXCEPT ![t[1]] = "revoked"] /\ t[1] \in Families
        /\ UNCHANGED <<token, present, tokenHeld, finished>>
    BY <1>8 DEF revoke, Tokens
  <2>2. RefreshTypeOK'
    BY <1>5, <2>1 DEF RefreshInv, RefreshTypeOK
  <2>3. HeldAsRead'
    BY <2>1 DEF RefreshInv, HeldAsRead
  <2>4. AnswersLeaveTraces'
    BY <1>5, <2>1 DEF RefreshInv, AnswersLeaveTraces
  <2> QED BY <1>5, <2>1, <2>2, <2>3, <2>4 DEF RefreshInv
<1>9. CASE UNCHANGED refreshVars
  BY <1>9 DEF refreshVars, RefreshInv, RefreshTypeOK, NewestIsLive, HeldAsRead,
              AnswersLeaveTraces
<1> QED BY <1>1, <1>2, <1>3, <1>4, <1>6, <1>7, <1>8, <1>9 DEF RefreshNext

\* What RefreshInv says of the tokens.
LEMMA RefreshInvRotates == RefreshInv => TokensRotate
<1> SUFFICES ASSUME RefreshInv PROVE OneLiveToken /\ ReuseIsCaught
  BY DEF TokensRotate
<1>1. ASSUME NEW f \in Families
      PROVE  Cardinality({row \in token : row.tok[1] = f /\ ~row.used}) <= 1
  <2> DEFINE live == {row \in token : row.tok[1] = f /\ ~row.used}
  <2>1. ASSUME NEW x \in live, NEW y \in live PROVE x = y
    <3>1. /\ x.tok[2] \in Int /\ y.tok[2] \in Int
          /\ x.tok = <<x.tok[1], x.tok[2]>> /\ y.tok = <<y.tok[1], y.tok[2]>>
      BY RefreshAssumption DEF RefreshInv, RefreshTypeOK, TokenRow, Tokens
    <3>2. x.tok[2] <= y.tok[2] /\ y.tok[2] <= x.tok[2]
      BY DEF RefreshInv, NewestIsLive
    <3>3. x.tok = y.tok
      BY <3>1, <3>2
    <3> QED BY <3>3 DEF RefreshInv, NewestIsLive
  <2> HIDE DEF live
  <2>2. Cardinality(live) <= 1
    BY <2>1, AtMostOneMember
  <2> QED BY <2>2 DEF live
<1>2. OneLiveToken
  BY <1>1 DEF OneLiveToken
<1>3. ReuseIsCaught
  BY DEF RefreshInv, AnswersLeaveTraces, ReuseIsCaught
<1> QED BY <1>2, <1>3

\* However many calls present the same token at once, in any order with logins and
\* logouts, a family has one live token, and a token answered twice has ended its family.
THEOREM TokensAlwaysRotate == RefreshSpec => []TokensRotate
<1> QED BY RefreshStart, RefreshStep, RefreshInvRotates, PTL DEF RefreshSpec

-----------------------------------------------------------------------------
(* The Orchestrator's automation rules *)

AuthorState == {NotAuthoring} \cup [pc : {"lock", "count", "insert"}, rule : RuleIds]

AutomationTypeOK ==
    /\ rule \in [RuleIds -> {"unused", "enabled", "disabled", "deleted"}]
    /\ ruleLock \in Authors \cup {NoAuthor}
    /\ authoring \in [Authors -> AuthorState]
    /\ evaluation \in [AcceptedEvents -> {"scheduled", "loop", "executed", "failed",
                                          "raised", "ended", "gone"}]
    /\ loaded \in [AcceptedEvents -> SUBSET RuleIds]
    /\ serving \in [AcceptedEvents -> RuleIds \cup {NoRule}]
    /\ executions \subseteq RuleIds \X AcceptedEvents \X {"executed", "failed"}
    /\ driven \subseteq RuleIds \X AcceptedEvents
    /\ forgone \subseteq RuleIds \X AcceptedEvents

\* A create holds the cap lock from its count on, and what it counted still holds when
\* it inserts.
CapCounted ==
    \A a \in Authors :
        /\ authoring[a].pc \in {"count", "insert"} => ruleLock = a
        /\ authoring[a].pc = "insert" => Cardinality(RulesThere) < RuleCap

RulebookInv == IsFiniteSet(RulesThere) /\ RulesWithinCap /\ CapCounted

\* While a rule is served it is in no row yet; what was loaded is served once.
ServedOnce ==
    /\ \A x, y \in executions : x[1] = y[1] /\ x[2] = y[2] => x = y
    /\ \A x \in executions :
          /\ evaluation[x[2]] # "scheduled"
          /\ x[1] \notin loaded[x[2]]
          /\ evaluation[x[2]] \in {"executed", "failed", "raised"} => x[1] # serving[x[2]]
    /\ \A e \in AcceptedEvents :
          /\ evaluation[e] = "ended" => loaded[e] = {}
          /\ evaluation[e] \in {"executed", "failed", "raised"} =>
                serving[e] \in RuleIds /\ serving[e] \notin loaded[e]

\* What was carried out is on record, given up, or still being served; what the record
\* says was carried out was.
DrivenIsKnown ==
    /\ \A x \in executions : x[3] = "executed" => <<x[1], x[2]>> \in driven
    /\ \A e \in AcceptedEvents : evaluation[e] = "executed" => <<serving[e], e>> \in driven
    /\ \A x \in driven :
          \/ evaluation[x[2]] = "gone"
          \/ x \in forgone
          \/ \E y \in executions : y[1] = x[1] /\ y[2] = x[2]
          \/ /\ evaluation[x[2]] \in {"executed", "failed", "raised"}
             /\ serving[x[2]] = x[1]

AutomationInv == AutomationTypeOK /\ RulebookInv /\ ServedOnce /\ DrivenIsKnown

\* At the start there is no rule and every evaluation is to come.
LEMMA AutomationStart == AutomationInit => AutomationInv
<1> SUFFICES ASSUME AutomationInit PROVE AutomationInv
  OBVIOUS
<1>1. AutomationTypeOK
  BY DEF AutomationInit, AutomationTypeOK, AuthorState
<1>2. RulesThere = {}
  BY DEF AutomationInit, RulesThere
<1>3. RulebookInv
  BY <1>2, FS_EmptySet, AutomationAssumption
  DEF AutomationInit, RulebookInv, RulesWithinCap, CapCounted, NotAuthoring
<1>4. ServedOnce /\ DrivenIsKnown
  BY DEF AutomationInit, ServedOnce, DrivenIsKnown
<1> QED BY <1>1, <1>3, <1>4 DEF AutomationInv

\* The end of a create, however it ends.
LEMMA CreateEnds ==
    ASSUME AutomationTypeOK, NEW a \in Authors, EndCreate(a)
    PROVE  /\ authoring' \in [Authors -> AuthorState]
           /\ ruleLock' \in Authors \cup {NoAuthor}
           /\ authoring'[a].pc = "idle"
           /\ \A b \in Authors : b # a =>
                 authoring'[b] = authoring[b] /\ (ruleLock = b => ruleLock' = b)
<1>1. NotAuthoring \in AuthorState /\ NotAuthoring.pc = "idle"
  BY DEF AuthorState, NotAuthoring
<1> QED BY <1>1, AutomationAssumption DEF AutomationTypeOK, EndCreate

\* An author that is past the start of a create has a rule to write.
LEMMA AuthorAtWork ==
    ASSUME AutomationTypeOK, NEW a \in Authors, authoring[a].pc # "idle"
    PROVE  /\ authoring[a] \in [pc : {"lock", "count", "insert"}, rule : RuleIds]
           /\ \A p \in {"lock", "count", "insert"} :
                 /\ [authoring EXCEPT ![a].pc = p] \in [Authors -> AuthorState]
                 /\ [authoring EXCEPT ![a].pc = p][a].pc = p
                 /\ \A b \in Authors : b # a => [authoring EXCEPT ![a].pc = p][b] = authoring[b]
<1>1. authoring[a] \in [pc : {"lock", "count", "insert"}, rule : RuleIds]
  BY DEF AutomationTypeOK, AuthorState, NotAuthoring
<1>2. ASSUME NEW p \in {"lock", "count", "insert"}
      PROVE  [authoring[a] EXCEPT !.pc = p] \in AuthorState /\ [authoring[a] EXCEPT !.pc = p].pc = p
  BY <1>1 DEF AuthorState
<1>3. \A p : [authoring EXCEPT ![a].pc = p] = [authoring EXCEPT ![a] = [authoring[a] EXCEPT !.pc = p]]
  OBVIOUS
<1> QED BY <1>1, <1>2, <1>3 DEF AutomationTypeOK

\* Every statement that reads or writes the rulebook keeps it.
LEMMA RuleStepKeeps == AutomationTypeOK /\ RulebookInv /\ RuleStep => AutomationTypeOK' /\ RulebookInv'
<1> SUFFICES ASSUME AutomationTypeOK, RulebookInv, RuleStep
             PROVE  AutomationTypeOK' /\ RulebookInv'
  OBVIOUS
<1> USE AutomationAssumption
<1>0. Cardinality(RulesThere) \in Nat
  BY FS_CardinalityType DEF RulebookInv
<1>1. ASSUME rule' \in [RuleIds -> {"unused", "enabled", "disabled", "deleted"}],
             ruleLock' \in Authors \cup {NoAuthor},
             authoring' \in [Authors -> AuthorState], tasksUnchanged
      PROVE  AutomationTypeOK'
  BY <1>1 DEF AutomationTypeOK, tasksUnchanged
<1>2. ASSUME UNCHANGED rule, CapCounted' PROVE RulebookInv'
  BY <1>2 DEF RulebookInv, RulesWithinCap, RulesThere
<1>3. ASSUME NEW a \in Authors, NEW r \in RuleIds, create_automation_rule(a, r)
      PROVE  AutomationTypeOK' /\ RulebookInv'
  <2> DEFINE new == [pc |-> "lock", rule |-> r]
  <2>1. /\ authoring' = [authoring EXCEPT ![a] = new] /\ UNCHANGED <<rule, ruleLock>>
        /\ tasksUnchanged
    BY <1>3 DEF create_automation_rule
  <2>2. new \in AuthorState /\ new.pc = "lock"
    BY DEF AuthorState
  <2> HIDE DEF new
  <2>3. /\ authoring' \in [Authors -> AuthorState] /\ authoring'[a].pc = "lock"
        /\ \A b \in Authors : b # a => authoring'[b] = authoring[b]
    BY <2>1, <2>2 DEF AutomationTypeOK
  <2>4. CapCounted'
    BY <2>1, <2>3 DEF RulebookInv, CapCounted, RulesThere
  <2> QED BY <1>1, <1>2, <2>1, <2>3, <2>4 DEF AutomationTypeOK
<1>4. ASSUME NEW a \in Authors, lock_automation_rule_cap(a)
      PROVE  AutomationTypeOK' /\ RulebookInv'
  <2>1. /\ authoring[a].pc = "lock" /\ ruleLock = NoAuthor /\ ruleLock' = a
        /\ authoring' = [authoring EXCEPT ![a].pc = "count"]
        /\ UNCHANGED rule /\ tasksUnchanged
    BY <1>4 DEF lock_automation_rule_cap
  <2>2. /\ authoring' \in [Authors -> AuthorState] /\ authoring'[a].pc = "count"
        /\ \A b \in Authors : b # a => authoring'[b] = authoring[b]
    BY <2>1, AuthorAtWork
  <2>3. CapCounted'
    BY <2>1, <2>2 DEF RulebookInv, CapCounted, RulesThere
  <2> QED BY <1>1, <1>2, <2>1, <2>2, <2>3 DEF AutomationTypeOK
<1>5. ASSUME NEW a \in Authors, EndCreate(a), UNCHANGED rule, tasksUnchanged
      PROVE  AutomationTypeOK' /\ RulebookInv'
  <2>1. CapCounted'
    BY <1>5, CreateEnds DEF RulebookInv, CapCounted, RulesThere
  <2> QED BY <1>1, <1>2, <1>5, <2>1, CreateEnds DEF AutomationTypeOK
<1>6. ASSUME NEW a \in Authors, count_automation_rules(a)
      PROVE  AutomationTypeOK' /\ RulebookInv'
  <2>1. authoring[a].pc = "count" /\ UNCHANGED rule /\ tasksUnchanged
    BY <1>6 DEF count_automation_rules
  <2>2. CASE Cardinality(RulesThere) >= RuleCap
    BY <1>5, <1>6, <2>1, <2>2 DEF count_automation_rules
  <2>3. CASE ~(Cardinality(RulesThere) >= RuleCap)
    <3>1. authoring' = [authoring EXCEPT ![a].pc = "insert"] /\ UNCHANGED ruleLock
      BY <1>6, <2>3 DEF count_automation_rules
    <3>2. /\ authoring' \in [Authors -> AuthorState] /\ authoring'[a].pc = "insert"
          /\ \A b \in Authors : b # a => authoring'[b] = authoring[b]
      BY <2>1, <3>1, AuthorAtWork
    <3>3. Cardinality(RulesThere) < RuleCap
      BY <1>0, <2>3
    <3>4. CapCounted'
      BY <2>1, <3>1, <3>2, <3>3 DEF RulebookInv, CapCounted, RulesThere
    <3> QED BY <1>1, <1>2, <2>1, <3>1, <3>2, <3>4 DEF AutomationTypeOK
  <2> QED BY <2>2, <2>3
<1>7. ASSUME NEW a \in Authors, NEW enabled \in BOOLEAN, insert_automation_rule(a, enabled)
      PROVE  AutomationTypeOK' /\ RulebookInv'
  <2> DEFINE r == authoring[a].rule
  <2>1. authoring[a].pc = "insert" /\ EndCreate(a) /\ tasksUnchanged
    BY <1>7 DEF insert_automation_rule
  <2>2. r \in RuleIds /\ ruleLock = a /\ Cardinality(RulesThere) < RuleCap
    BY <2>1, AuthorAtWork DEF RulebookInv, CapCounted
  <2>3. CASE \E q \in RulesThere : NameOf[q] = NameOf[r]
    BY <1>5, <1>7, <2>1, <2>3 DEF insert_automation_rule
  <2>4. CASE ~\E q \in RulesThere : NameOf[q] = NameOf[r]
    <3>1. rule' = [rule EXCEPT ![r] = IF enabled THEN "enabled" ELSE "disabled"]
      BY <1>7, <2>4 DEF insert_automation_rule
    <3> HIDE DEF r
    <3>2. /\ rule' \in [RuleIds -> {"unused", "enabled", "disabled", "deleted"}]
          /\ RulesThere' = RulesThere \cup {r}
      BY <2>2, <3>1 DEF AutomationTypeOK, RulesThere
    <3>3. IsFiniteSet(RulesThere') /\ Cardinality(RulesThere') <= RuleCap
      <4>1. /\ IsFiniteSet(RulesThere \cup {r})
            /\ Cardinality(RulesThere \cup {r}) =
                 IF r \in RulesThere THEN Cardinality(RulesThere) ELSE Cardinality(RulesThere) + 1
        BY FS_AddElement DEF RulebookInv
      <4> QED BY <1>0, <2>2, <3>2, <4>1
    <3>4. \A p, q \in RulesThere' : NameOf[p] = NameOf[q] => p = q
      BY <2>4, <3>2 DEF RulebookInv, RulesWithinCap
    <3>5. \A b \in Authors : authoring'[b].pc \notin {"count", "insert"}
      BY <2>1, <2>2, CreateEnds DEF RulebookInv, CapCounted
    <3>6. RulebookInv'
      BY <3>3, <3>4, <3>5 DEF RulebookInv, RulesWithinCap, CapCounted
    <3> QED BY <1>1, <2>1, <3>2, <3>6, CreateEnds
  <2> QED BY <2>3, <2>4
<1>8. ASSUME NEW a \in Authors, CreateFails(a) PROVE AutomationTypeOK' /\ RulebookInv'
  BY <1>5, <1>8 DEF CreateFails
<1>9. ASSUME NEW r \in RuleIds, patch_rule(r) PROVE AutomationTypeOK' /\ RulebookInv'
  <2>1. /\ r \in RulesThere /\ UNCHANGED <<ruleLock, authoring>> /\ tasksUnchanged
        /\ rule' = [rule EXCEPT ![r] = IF @ = "enabled" THEN "disabled" ELSE "enabled"]
    BY <1>9 DEF patch_rule
  <2>2. /\ rule' \in [RuleIds -> {"unused", "enabled", "disabled", "deleted"}]
        /\ RulesThere' = RulesThere
    BY <2>1 DEF AutomationTypeOK, RulesThere
  <2>3. RulebookInv'
    BY <2>1, <2>2 DEF RulebookInv, RulesWithinCap, CapCounted
  <2> QED BY <1>1, <2>1, <2>2, <2>3 DEF AutomationTypeOK
<1>10. ASSUME NEW r \in RuleIds, delete_rule(r) PROVE AutomationTypeOK' /\ RulebookInv'
  <2>1. /\ r \in RulesThere /\ UNCHANGED <<ruleLock, authoring>> /\ tasksUnchanged
        /\ rule' = [rule EXCEPT ![r] = "deleted"]
    BY <1>10 DEF delete_rule
  <2>2. /\ rule' \in [RuleIds -> {"unused", "enabled", "disabled", "deleted"}]
        /\ RulesThere' = RulesThere \ {r}
    BY <2>1 DEF AutomationTypeOK, RulesThere
  <2>3. IsFiniteSet(RulesThere') /\ Cardinality(RulesThere') <= Cardinality(RulesThere)
        /\ Cardinality(RulesThere') \in Nat
    <3>1. /\ IsFiniteSet(RulesThere \ {r})
          /\ Cardinality(RulesThere \ {r}) =
               IF r \in RulesThere THEN Cardinality(RulesThere) - 1 ELSE Cardinality(RulesThere)
      BY FS_RemoveElement DEF RulebookInv
    <3>2. Cardinality(RulesThere \ {r}) \in Nat
      BY <3>1, FS_CardinalityType
    <3> QED BY <1>0, <2>1, <2>2, <3>1, <3>2
  <2>4. Cardinality(RulesThere') <= RuleCap
    BY <1>0, <2>3 DEF RulebookInv, RulesWithinCap
  <2>5. CapCounted'
    BY <1>0, <2>1, <2>3 DEF RulebookInv, CapCounted
  <2>6. \A p, q \in RulesThere' : NameOf[p] = NameOf[q] => p = q
    BY <2>2 DEF RulebookInv, RulesWithinCap
  <2> QED BY <1>1, <2>1, <2>2, <2>3, <2>4, <2>5, <2>6 DEF AutomationTypeOK, RulebookInv, RulesWithinCap
<1> QED BY <1>3, <1>4, <1>6, <1>7, <1>8, <1>9, <1>10 DEF RuleStep

\* Every step of an evaluation keeps the record of what was done.
LEMMA EvaluationStepKeeps ==
    ASSUME AutomationTypeOK, ServedOnce, DrivenIsKnown, EvaluationStep
    PROVE  AutomationTypeOK' /\ ServedOnce' /\ DrivenIsKnown'
<1> USE AutomationAssumption
<1>0. UNCHANGED rulebook /\ \A x \in executions : x \in RuleIds \X AcceptedEvents \X {"executed", "failed"}
  BY DEF EvaluationStep, evaluate_and_execute, ExecuteRule, _execute_rule_link,
         _record_unexpected_failure, EndEvaluation, EvaluationDies, AutomationTypeOK
<1>1. \A x \in executions : x[2] \in AcceptedEvents /\ x[1] \in RuleIds
  BY <1>0
<1>2. \A x \in driven : x[2] \in AcceptedEvents /\ x[1] \in RuleIds /\ x = <<x[1], x[2]>>
  BY DEF AutomationTypeOK
<1> DEFINE Served == {"executed", "failed", "raised"}
\* The event whose task takes the step; the tasks of the others stay as they are.
<1>3. ASSUME NEW e \in AcceptedEvents, NEW v, NEW l \in SUBSET RuleIds,
             evaluation[e] = "scheduled", v \in {"loop", "gone"},
             evaluation' = [evaluation EXCEPT ![e] = v],
             loaded' = [loaded EXCEPT ![e] = l],
             UNCHANGED <<rulebook, serving, executions, driven, forgone>>
      PROVE  AutomationTypeOK' /\ ServedOnce' /\ DrivenIsKnown'
  <2>1. /\ evaluation'[e] = v /\ loaded'[e] = l
        /\ \A o \in AcceptedEvents : o # e => evaluation'[o] = evaluation[o] /\ loaded'[o] = loaded[o]
    BY <1>3 DEF AutomationTypeOK
  <2>2. \A x \in executions : x[2] # e
    BY <1>3 DEF ServedOnce
  <2>3. AutomationTypeOK'
    BY <1>3 DEF AutomationTypeOK, rulebook
  <2>4. ServedOnce'
    BY <1>1, <1>3, <2>1, <2>2 DEF ServedOnce
  <2>5. DrivenIsKnown'
    BY <1>1, <1>2, <1>3, <2>1, <2>2 DEF DrivenIsKnown
  <2> QED BY <2>3, <2>4, <2>5
<1>4. ASSUME NEW e \in AcceptedEvents, evaluate_and_execute(e)
      PROVE  AutomationTypeOK' /\ ServedOnce' /\ DrivenIsKnown'
  <2> DEFINE l == {r \in RuleIds : rule[r] = "enabled" /\ <<r, e>> \in Fires}
  <2>1. /\ evaluation[e] = "scheduled"
        /\ UNCHANGED <<rulebook, serving, executions, driven, forgone>>
    BY <1>4 DEF evaluate_and_execute
  <2>2. CASE /\ evaluation' = [evaluation EXCEPT ![e] = "loop"]
             /\ loaded' = [loaded EXCEPT ![e] = l]
    <3>1. l \in SUBSET RuleIds
      OBVIOUS
    <3> HIDE DEF l
    <3> QED BY <1>3, <2>1, <2>2, <3>1
  <2>3. CASE evaluation' = [evaluation EXCEPT ![e] = "gone"] /\ UNCHANGED loaded
    <3>1. loaded' = [loaded EXCEPT ![e] = loaded[e]] /\ loaded[e] \in SUBSET RuleIds
      BY <2>3 DEF AutomationTypeOK
    <3> QED BY <1>3, <2>1, <2>3, <3>1
  <2> QED BY <1>4, <2>2, <2>3 DEF evaluate_and_execute
<1>5. ASSUME NEW e \in AcceptedEvents, NEW r \in RuleIds, ExecuteRule(e, r)
      PROVE  AutomationTypeOK' /\ ServedOnce' /\ DrivenIsKnown'
  <2>1. /\ evaluation[e] = "loop" /\ r \in loaded[e]
        /\ loaded' = [loaded EXCEPT ![e] = @ \ {r}]
        /\ serving' = [serving EXCEPT ![e] = r]
        /\ UNCHANGED <<rulebook, executions, forgone>>
    BY <1>5 DEF ExecuteRule
  <2>2. PICK v \in {"executed", "failed"} :
           /\ evaluation' = [evaluation EXCEPT ![e] = v]
           /\ v = "executed" => driven' = driven \cup {<<r, e>>}
           /\ v = "failed" => driven' = driven
    BY <1>5 DEF ExecuteRule
  <2>3. /\ evaluation'[e] = v /\ loaded'[e] = loaded[e] \ {r} /\ serving'[e] = r
        /\ \A o \in AcceptedEvents : o # e =>
              /\ evaluation'[o] = evaluation[o] /\ loaded'[o] = loaded[o]
              /\ serving'[o] = serving[o]
    BY <2>1, <2>2 DEF AutomationTypeOK
  <2>4. driven \subseteq driven' /\ \A x \in driven' : x \in driven \/ x = <<r, e>>
    BY <2>2
  <2>5. AutomationTypeOK'
    <3>1. driven' \subseteq RuleIds \X AcceptedEvents
      BY <2>4 DEF AutomationTypeOK
    <3> QED BY <2>1, <2>2, <3>1 DEF AutomationTypeOK, rulebook
  <2>6. ServedOnce'
    <3>1. \A x \in executions : x[2] = e => x[1] # r
      BY <2>1 DEF ServedOnce
    <3> QED BY <1>1, <2>1, <2>2, <2>3, <3>1 DEF ServedOnce
  <2>7. DrivenIsKnown'
    <3>1. \A x \in executions : x[3] = "executed" => <<x[1], x[2]>> \in driven'
      BY <2>4 DEF DrivenIsKnown
    <3>2. \A o \in AcceptedEvents : evaluation'[o] = "executed" => <<serving'[o], o>> \in driven'
      BY <2>2, <2>3, <2>4 DEF DrivenIsKnown
    <3>3. ASSUME NEW x \in driven'
          PROVE  \/ evaluation'[x[2]] = "gone"
                 \/ x \in forgone
                 \/ \E y \in executions : y[1] = x[1] /\ y[2] = x[2]
                 \/ evaluation'[x[2]] \in Served /\ serving'[x[2]] = x[1]
      <4>1. CASE x = <<r, e>>
        BY <2>2, <2>3, <4>1
      <4>2. CASE x # <<r, e>> /\ x[2] = e
        BY <2>1, <2>4, <4>2 DEF DrivenIsKnown
      <4>3. CASE x # <<r, e>> /\ x[2] # e
        BY <1>2, <2>3, <2>4, <4>3 DEF DrivenIsKnown
      <4> QED BY <4>1, <4>2, <4>3
    <3> QED BY <2>1, <3>1, <3>2, <3>3 DEF DrivenIsKnown
  <2> QED BY <2>5, <2>6, <2>7
\* The served rule gets its row, or is given up, and the loop goes on.
<1>6. ASSUME NEW e \in AcceptedEvents, evaluation[e] \in Served, NextRule(e),
             UNCHANGED <<rulebook, loaded, driven>>,
             NEW d \in {"executed", "failed"},
             d = "executed" => evaluation[e] = "executed",
             \/ executions' = executions \cup {<<serving[e], e, d>>} /\ UNCHANGED forgone
             \/ forgone' = forgone \cup {<<serving[e], e>>} /\ UNCHANGED executions
      PROVE  AutomationTypeOK' /\ ServedOnce' /\ DrivenIsKnown'
  <2> DEFINE r == serving[e]
             new == <<r, e, d>>
  <2>1. r \in RuleIds /\ r \notin loaded[e] /\ \A x \in executions : x[2] = e => x[1] # r
    BY <1>6 DEF ServedOnce
  <2>2. /\ evaluation'[e] = "loop" /\ \A o \in AcceptedEvents : o # e =>
              evaluation'[o] = evaluation[o] /\ serving'[o] = serving[o]
        /\ evaluation' \in [AcceptedEvents -> {"scheduled", "loop", "executed", "failed",
                                               "raised", "ended", "gone"}]
        /\ serving' \in [AcceptedEvents -> RuleIds \cup {NoRule}]
    BY <1>6 DEF NextRule, AutomationTypeOK
  <2>3. new[1] = r /\ new[2] = e /\ new[3] = d
    OBVIOUS
  <2>4. new \in RuleIds \X AcceptedEvents \X {"executed", "failed"} /\ <<r, e>> \in RuleIds \X AcceptedEvents
    BY <2>1
  <2>5. (d = "executed" => <<r, e>> \in driven)
    BY <1>6 DEF DrivenIsKnown
  <2>6. /\ executions \subseteq executions' /\ forgone \subseteq forgone'
        /\ \A x \in executions' : x \in executions \/ x = new
        /\ forgone' \subseteq forgone \cup {<<r, e>>}
        /\ new \in executions' \/ <<r, e>> \in forgone'
    BY <1>6
  <2> HIDE DEF new, r
  <2>7. AutomationTypeOK'
    <3>1. executions' \subseteq RuleIds \X AcceptedEvents \X {"executed", "failed"}
      BY <1>0, <2>4, <2>6
    <3>2. forgone' \subseteq RuleIds \X AcceptedEvents
      BY <2>4, <2>6 DEF AutomationTypeOK
    <3> QED BY <1>6, <2>2, <3>1, <3>2 DEF AutomationTypeOK, rulebook
  <2>8. ServedOnce'
    <3>1. \A x, y \in executions' : x[1] = y[1] /\ x[2] = y[2] => x = y
      BY <2>1, <2>3, <2>6 DEF ServedOnce
    <3>2. ASSUME NEW x \in executions'
          PROVE  /\ evaluation'[x[2]] # "scheduled"
                 /\ x[1] \notin loaded'[x[2]]
                 /\ evaluation'[x[2]] \in Served => x[1] # serving'[x[2]]
      <4>1. CASE x = new
        BY <1>6, <2>1, <2>2, <2>3, <4>1
      <4>2. CASE x \in executions
        BY <1>1, <1>6, <2>2, <4>2 DEF ServedOnce
      <4> QED BY <2>6, <4>1, <4>2
    <3>3. \A o \in AcceptedEvents :
             /\ evaluation'[o] = "ended" => loaded'[o] = {}
             /\ evaluation'[o] \in Served => serving'[o] \in RuleIds /\ serving'[o] \notin loaded'[o]
      BY <1>6, <2>2 DEF ServedOnce
    <3> QED BY <3>1, <3>2, <3>3 DEF ServedOnce
  <2>9. DrivenIsKnown'
    <3>1. \A x \in executions' : x[3] = "executed" => <<x[1], x[2]>> \in driven'
      BY <1>6, <2>3, <2>5, <2>6 DEF DrivenIsKnown
    <3>2. \A o \in AcceptedEvents : evaluation'[o] = "executed" => <<serving'[o], o>> \in driven'
      BY <1>6, <2>2 DEF DrivenIsKnown
    <3>3. ASSUME NEW x \in driven'
          PROVE  \/ evaluation'[x[2]] = "gone"
                 \/ x \in forgone'
                 \/ \E y \in executions' : y[1] = x[1] /\ y[2] = x[2]
                 \/ evaluation'[x[2]] \in Served /\ serving'[x[2]] = x[1]
      <4>1. x \in driven /\ x[2] \in AcceptedEvents /\ x = <<x[1], x[2]>>
        BY <1>2, <1>6
      <4>2. CASE x = <<r, e>>
        BY <2>3, <2>6, <4>2
      <4>3. CASE x # <<r, e>>
        <5>1. ~(x[2] = e /\ serving[x[2]] = x[1])
          BY <4>1, <4>3 DEF r
        <5>2. evaluation[x[2]] = "gone" => evaluation'[x[2]] = "gone"
          BY <1>6, <2>2, <4>1
        <5>3. evaluation[x[2]] \in Served /\ serving[x[2]] = x[1]
                 => evaluation'[x[2]] \in Served /\ serving'[x[2]] = x[1]
          BY <2>2, <4>1, <5>1
        <5> QED BY <2>6, <4>1, <5>2, <5>3 DEF DrivenIsKnown
      <4> QED BY <4>2, <4>3
    <3> QED BY <3>1, <3>2, <3>3 DEF DrivenIsKnown
  <2> QED BY <2>7, <2>8, <2>9
\* The task changes its place only.
<1>7. ASSUME NEW e \in AcceptedEvents, NEW v \in {"raised", "ended", "gone"},
             evaluation' = [evaluation EXCEPT ![e] = v],
             v = "raised" => evaluation[e] \in Served,
             v = "ended" => evaluation[e] = "loop" /\ loaded[e] = {},
             UNCHANGED <<rulebook, loaded, serving, executions, driven, forgone>>
      PROVE  AutomationTypeOK' /\ ServedOnce' /\ DrivenIsKnown'
  <2>1. evaluation'[e] = v /\ \A o \in AcceptedEvents : o # e => evaluation'[o] = evaluation[o]
    BY <1>7 DEF AutomationTypeOK
  <2>2. AutomationTypeOK'
    BY <1>7 DEF AutomationTypeOK, rulebook
  <2>3. ServedOnce'
    BY <1>1, <1>7, <2>1 DEF ServedOnce
  <2>4. DrivenIsKnown'
    BY <1>1, <1>2, <1>7, <2>1 DEF DrivenIsKnown
  <2> QED BY <2>2, <2>3, <2>4
<1>8. ASSUME NEW e \in AcceptedEvents, _execute_rule_link(e)
      PROVE  AutomationTypeOK' /\ ServedOnce' /\ DrivenIsKnown'
  <2>1. evaluation[e] \in {"executed", "failed"} /\ UNCHANGED <<rulebook, loaded, driven>>
    BY <1>8 DEF _execute_rule_link
  <2>2. CASE /\ executions' = executions \cup {<<serving[e], e, evaluation[e]>>}
             /\ NextRule(e) /\ UNCHANGED forgone
    BY <1>6, <2>1, <2>2
  <2>3. CASE /\ forgone' = forgone \cup {<<serving[e], e>>}
             /\ NextRule(e) /\ UNCHANGED executions
    BY <1>6, <2>1, <2>3
  <2>4. CASE /\ evaluation' = [evaluation EXCEPT ![e] = "raised"]
             /\ UNCHANGED <<serving, executions, forgone>>
    BY <1>7, <2>1, <2>4
  <2> QED BY <1>8, <2>2, <2>3, <2>4 DEF _execute_rule_link
<1>9. ASSUME NEW e \in AcceptedEvents, _record_unexpected_failure(e)
      PROVE  AutomationTypeOK' /\ ServedOnce' /\ DrivenIsKnown'
  BY <1>6, <1>9 DEF _record_unexpected_failure
<1>10. ASSUME NEW e \in AcceptedEvents, EndEvaluation(e) \/ EvaluationDies(e)
       PROVE  AutomationTypeOK' /\ ServedOnce' /\ DrivenIsKnown'
  BY <1>7, <1>10 DEF EndEvaluation, EvaluationDies
<1> QED BY <1>4, <1>5, <1>8, <1>9, <1>10 DEF EvaluationStep

\* The invariant holds after every step of both.
LEMMA AutomationStep == AutomationInv /\ [AutomationNext]_automationVars => AutomationInv'
<1> SUFFICES ASSUME AutomationInv, [AutomationNext]_automationVars PROVE AutomationInv'
  OBVIOUS
<1>1. CASE RuleStep
  <2>1. UNCHANGED <<evaluation, loaded, serving, executions, driven, forgone>>
    BY <1>1 DEF RuleStep, create_automation_rule, lock_automation_rule_cap,
       count_automation_rules, insert_automation_rule, CreateFails, patch_rule, delete_rule,
       tasksUnchanged
  <2>2. ServedOnce' /\ DrivenIsKnown'
    BY <2>1 DEF AutomationInv, ServedOnce, DrivenIsKnown
  <2> QED BY <1>1, <2>2, RuleStepKeeps DEF AutomationInv
<1>2. CASE EvaluationStep
  <2>1. UNCHANGED rulebook
    BY <1>2 DEF EvaluationStep, evaluate_and_execute, ExecuteRule, _execute_rule_link,
       _record_unexpected_failure, EndEvaluation, EvaluationDies
  <2>2. RulebookInv'
    BY <2>1 DEF AutomationInv, rulebook, RulebookInv, RulesWithinCap, CapCounted, RulesThere
  <2> QED BY <1>2, <2>2, EvaluationStepKeeps DEF AutomationInv
<1>3. CASE UNCHANGED automationVars
  BY <1>3 DEF automationVars, AutomationInv, AutomationTypeOK, RulebookInv, RulesWithinCap,
              CapCounted, RulesThere, ServedOnce, DrivenIsKnown
<1> QED BY <1>1, <1>2, <1>3 DEF AutomationNext

\* What AutomationInv says of the rules.
LEMMA AutomationInvKeeps == AutomationInv => RulesAreKept
<1> SUFFICES ASSUME AutomationInv PROVE ExecutionsAreRecorded
  BY DEF AutomationInv, RulebookInv, RulesAreKept
<1>1. ASSUME NEW e \in AcceptedEvents, NEW r \in RuleIds
      PROVE  /\ Cardinality({x \in executions : x[1] = r /\ x[2] = e}) <= 1
             /\ <<r, e, "executed">> \in executions => <<r, e>> \in driven
             /\ <<r, e>> \in driven /\ evaluation[e] \in {"loop", "ended"} =>
                   \/ <<r, e>> \in forgone
                   \/ \E x \in executions : x[1] = r /\ x[2] = e
  <2> DEFINE rows == {x \in executions : x[1] = r /\ x[2] = e}
  <2>1. \A x, y \in rows : x = y
    BY DEF AutomationInv, ServedOnce
  <2> HIDE DEF rows
  <2>2. Cardinality(rows) <= 1
    BY <2>1, AtMostOneMember
  <2>3. <<r, e, "executed">> \in executions => <<r, e>> \in driven
    <3>1. ASSUME NEW x \in executions, x = <<r, e, "executed">> PROVE <<r, e>> \in driven
      BY <3>1 DEF AutomationInv, DrivenIsKnown
    <3> QED BY <3>1
  <2>4. <<r, e>> \in driven /\ evaluation[e] \in {"loop", "ended"} =>
           \/ <<r, e>> \in forgone
           \/ \E x \in executions : x[1] = r /\ x[2] = e
    <3>1. ASSUME NEW x \in driven, x = <<r, e>>, evaluation[e] \in {"loop", "ended"}
          PROVE  \/ x \in forgone \/ \E y \in executions : y[1] = r /\ y[2] = e
      BY <3>1 DEF AutomationInv, DrivenIsKnown
    <3> QED BY <3>1
  <2> QED BY <2>2, <2>3, <2>4 DEF rows
<1> QED BY <1>1 DEF ExecutionsAreRecorded, AutomationInv, ServedOnce

\* For any number of concurrent authors, events and failures, the rulebook stays within
\* its cap without two rules of one name, and each rule that ran for an event has at
\* most one row, a true one, unless it was logged as unrecorded.
THEOREM RulesStayKept == AutomationSpec => []RulesAreKept
<1> QED BY AutomationStart, AutomationStep, AutomationInvKeeps, PTL DEF AutomationSpec

-----------------------------------------------------------------------------
(* The Orchestrator's gateway for third parties *)

CallState == {NoCall} \cup [pc : {"gate", "count", "limit", "read"}, key : ApiKeys,
                            status : {"active", "revoked"}, window : 0..MaxMinute, count : Nat]

GatewayTypeOK ==
    /\ keyStatus \in [ApiKeys -> {"none", "active", "revoked"}]
    /\ keyLock \in Issuers \cup {NoIssuer}
    /\ issuing \in [Issuers -> {"idle", "count", "insert"}]
    /\ minute \in 0..MaxMinute
    /\ used \in [ApiKeys -> [0..MaxMinute -> Nat]]
    /\ outcomes \in [ApiKeys -> [0..MaxMinute -> Nat]]
    /\ served \in [ApiKeys -> [0..MaxMinute -> Nat]]
    /\ call \in [Partners -> CallState]
    /\ late \subseteq ApiKeys

\* An issue holds the cap lock from its count to its insert, so the count still holds.
KeyCapCounted ==
    /\ IsFiniteSet(Issued)
    /\ Cardinality(Issued) <= KeyCap
    /\ \A i \in Issuers :
          /\ issuing[i] \in {"count", "insert"} => keyLock = i
          /\ issuing[i] = "insert" => Cardinality(Issued) < KeyCap

\* The requests of key k in window w that counted within the limit and have not been
\* let through, and those that have been let through and have not read.
Counted(k, w) == {p \in Partners : /\ call[p].pc = "limit" /\ call[p].key = k
                                   /\ call[p].window = w /\ call[p].count <= RateLimit}
Reading(k, w) == {p \in Partners : call[p].pc = "read" /\ call[p].key = k /\ call[p].window = w}

\* Every number that the counter returned is one request's: those let through and those
\* about to be are no more than the limit, and no more answers leave than were let through.
CallsCounted ==
    \A k \in ApiKeys, w \in 0..MaxMinute :
        /\ outcomes[k][w] + Cardinality(Counted(k, w)) <= used[k][w]
        /\ outcomes[k][w] + Cardinality(Counted(k, w)) <= RateLimit
        /\ served[k][w] + Cardinality(Reading(k, w)) <= outcomes[k][w]

\* Only a request whose key was active when it was looked up passes the gate.
PastGateActive ==
    /\ late = {}
    /\ \A p \in Partners : call[p].pc \in {"count", "limit", "read"} => call[p].status = "active"

GatewayInv == GatewayTypeOK /\ KeyCapCounted /\ CallsCounted /\ PastGateActive

\* Sets of partners are finite.
LEMMA PartnersFinite ==
    ASSUME NEW S, S \subseteq Partners
    PROVE  IsFiniteSet(S) /\ Cardinality(S) \in Nat
BY FS_Subset, FS_CardinalityType, GatewayAssumption

\* At the start no key is issued and no request is under way.
LEMMA GatewayStart == GatewayInit => GatewayInv
<1> SUFFICES ASSUME GatewayInit PROVE GatewayInv
  OBVIOUS
<1> USE GatewayAssumption
<1>1. GatewayTypeOK
  BY DEF GatewayInit, GatewayTypeOK, PerWindow, CallState
<1>2. Issued = {}
  BY DEF GatewayInit, Issued
<1>3. KeyCapCounted
  BY <1>2, FS_EmptySet DEF GatewayInit, KeyCapCounted
<1>4. \A k \in ApiKeys, w \in 0..MaxMinute : Counted(k, w) = {} /\ Reading(k, w) = {}
  BY DEF GatewayInit, Counted, Reading, NoCall
<1>5. \A k \in ApiKeys, w \in 0..MaxMinute : used[k][w] = 0 /\ outcomes[k][w] = 0 /\ served[k][w] = 0
  BY DEF GatewayInit, PerWindow
<1>6. CallsCounted
  <2>1. Cardinality({}) = 0
    BY FS_EmptySet
  <2>2. ASSUME NEW k \in ApiKeys, NEW w \in 0..MaxMinute
        PROVE  Cardinality(Counted(k, w)) = 0 /\ Cardinality(Reading(k, w)) = 0
    BY <1>4, <2>1
  <2> QED BY <1>5, <2>2 DEF CallsCounted
<1>7. PastGateActive
  BY DEF GatewayInit, PastGateActive, NoCall
<1> QED BY <1>1, <1>3, <1>6, <1>7 DEF GatewayInv

\* Issuing and revoking keys keeps the cap; requests are not touched.
LEMMA KeyStepKeeps ==
    ASSUME GatewayTypeOK, KeyCapCounted,
           \/ \E i \in Issuers :
                 \/ lock_external_gateway_key_cap(i)
                 \/ count_third_party_api_keys(i)
                 \/ \E k \in ApiKeys : insert_third_party_api_key(i, k)
           \/ \E k \in ApiKeys : revoke_third_party_api_key(k)
    PROVE  GatewayTypeOK' /\ KeyCapCounted' /\ callsUnchanged
<1> USE GatewayAssumption
<1>0. Cardinality(Issued) \in Nat
  BY FS_CardinalityType DEF KeyCapCounted
<1>1. ASSUME callsUnchanged,
             keyStatus' \in [ApiKeys -> {"none", "active", "revoked"}],
             keyLock' \in Issuers \cup {NoIssuer},
             issuing' \in [Issuers -> {"idle", "count", "insert"}]
      PROVE  GatewayTypeOK'
  BY <1>1 DEF GatewayTypeOK, callsUnchanged
<1>2. ASSUME NEW i \in Issuers, EndIssue(i)
      PROVE  /\ keyLock' \in Issuers \cup {NoIssuer}
             /\ issuing' \in [Issuers -> {"idle", "count", "insert"}]
             /\ issuing'[i] = "idle"
             /\ \A j \in Issuers : j # i => issuing'[j] = issuing[j] /\ (keyLock = j => keyLock' = j)
  BY <1>2 DEF GatewayTypeOK, EndIssue
<1>3. ASSUME NEW i \in Issuers, lock_external_gateway_key_cap(i)
      PROVE  GatewayTypeOK' /\ KeyCapCounted' /\ callsUnchanged
  <2>1. /\ keyLock = NoIssuer /\ keyLock' = i /\ issuing' = [issuing EXCEPT ![i] = "count"]
        /\ UNCHANGED keyStatus /\ callsUnchanged
    BY <1>3 DEF lock_external_gateway_key_cap
  <2>2. GatewayTypeOK'
    BY <1>1, <2>1 DEF GatewayTypeOK
  <2>3. KeyCapCounted'
    BY <2>1 DEF KeyCapCounted, Issued, GatewayTypeOK
  <2> QED BY <2>1, <2>2, <2>3
<1>4. ASSUME NEW i \in Issuers, count_third_party_api_keys(i)
      PROVE  GatewayTypeOK' /\ KeyCapCounted' /\ callsUnchanged
  <2>1. issuing[i] = "count" /\ UNCHANGED keyStatus /\ callsUnchanged
    BY <1>4 DEF count_third_party_api_keys
  <2>2. CASE Cardinality(Issued) >= KeyCap
    <3>1. EndIssue(i)
      BY <1>4, <2>2 DEF count_third_party_api_keys
    <3>2. KeyCapCounted'
      BY <1>2, <2>1, <3>1 DEF KeyCapCounted, Issued
    <3> QED BY <1>1, <1>2, <2>1, <3>1, <3>2 DEF GatewayTypeOK
  <2>3. CASE ~(Cardinality(Issued) >= KeyCap)
    <3>1. issuing' = [issuing EXCEPT ![i] = "insert"] /\ UNCHANGED keyLock
      BY <1>4, <2>3 DEF count_third_party_api_keys
    <3>2. Cardinality(Issued) < KeyCap
      BY <1>0, <2>3
    <3>3. KeyCapCounted'
      BY <2>1, <3>1, <3>2 DEF KeyCapCounted, Issued, GatewayTypeOK
    <3> QED BY <1>1, <2>1, <3>1, <3>3 DEF GatewayTypeOK
  <2> QED BY <2>2, <2>3
<1>5. ASSUME NEW i \in Issuers, NEW k \in ApiKeys, insert_third_party_api_key(i, k)
      PROVE  GatewayTypeOK' /\ KeyCapCounted' /\ callsUnchanged
  <2>1. /\ issuing[i] = "insert" /\ keyStatus' = [keyStatus EXCEPT ![k] = "active"]
        /\ EndIssue(i) /\ callsUnchanged
    BY <1>5 DEF insert_third_party_api_key
  <2>2. /\ keyStatus' \in [ApiKeys -> {"none", "active", "revoked"}]
        /\ Issued' = Issued \cup {k}
    BY <2>1 DEF GatewayTypeOK, Issued
  <2>3. keyLock = i /\ Cardinality(Issued) < KeyCap
    BY <2>1 DEF KeyCapCounted
  <2>4. /\ IsFiniteSet(Issued \cup {k})
        /\ Cardinality(Issued \cup {k}) =
             IF k \in Issued THEN Cardinality(Issued) ELSE Cardinality(Issued) + 1
    BY FS_AddElement DEF KeyCapCounted
  <2>5. IsFiniteSet(Issued') /\ Cardinality(Issued') <= KeyCap
    BY <1>0, <2>2, <2>3, <2>4
  <2>6. \A j \in Issuers : issuing'[j] \notin {"count", "insert"}
    BY <1>2, <2>1, <2>3 DEF KeyCapCounted
  <2>7. KeyCapCounted'
    BY <2>5, <2>6 DEF KeyCapCounted
  <2> QED BY <1>1, <1>2, <2>1, <2>2, <2>7
<1>6. ASSUME NEW k \in ApiKeys, revoke_third_party_api_key(k)
      PROVE  GatewayTypeOK' /\ KeyCapCounted' /\ callsUnchanged
  <2>1. /\ keyStatus[k] = "active" /\ keyStatus' = [keyStatus EXCEPT ![k] = "revoked"]
        /\ UNCHANGED <<keyLock, issuing>> /\ callsUnchanged
    BY <1>6 DEF revoke_third_party_api_key
  <2>2. /\ keyStatus' \in [ApiKeys -> {"none", "active", "revoked"}]
        /\ Issued' = Issued
    BY <2>1 DEF GatewayTypeOK, Issued
  <2> QED BY <1>1, <2>1, <2>2 DEF GatewayTypeOK, KeyCapCounted
<1> QED BY <1>3, <1>4, <1>5, <1>6

\* When the request of p becomes c, p joins or leaves the counted and the reading ones.
LEMMA OneCallMoves ==
    ASSUME GatewayTypeOK, NEW p \in Partners, NEW c \in CallState, call' = [call EXCEPT ![p] = c],
           NEW k \in ApiKeys, NEW w \in 0..MaxMinute
    PROVE  /\ Cardinality(Counted(k, w)) \in Nat /\ Cardinality(Counted(k, w)') \in Nat
           /\ Cardinality(Reading(k, w)) \in Nat /\ Cardinality(Reading(k, w)') \in Nat
           /\ Cardinality(Counted(k, w)') = Cardinality(Counted(k, w))
                + Bit(c.pc = "limit" /\ c.key = k /\ c.window = w /\ c.count <= RateLimit)
                - Bit(p \in Counted(k, w))
           /\ Cardinality(Reading(k, w)') = Cardinality(Reading(k, w))
                + Bit(c.pc = "read" /\ c.key = k /\ c.window = w) - Bit(p \in Reading(k, w))
<1> DEFINE joinsCounted == c.pc = "limit" /\ c.key = k /\ c.window = w /\ c.count <= RateLimit
           joinsReading == c.pc = "read" /\ c.key = k /\ c.window = w
<1>1. call'[p] = c /\ \A o \in Partners : o # p => call'[o] = call[o]
  BY DEF GatewayTypeOK
<1>2. Counted(k, w)' = IF joinsCounted THEN Counted(k, w) \cup {p} ELSE Counted(k, w) \ {p}
  BY <1>1 DEF Counted
<1>3. Reading(k, w)' = IF joinsReading THEN Reading(k, w) \cup {p} ELSE Reading(k, w) \ {p}
  BY <1>1 DEF Reading
<1>4. Counted(k, w) \subseteq Partners /\ Reading(k, w) \subseteq Partners
  BY DEF Counted, Reading
<1>5. joinsCounted \in BOOLEAN /\ joinsReading \in BOOLEAN
  BY DEF joinsCounted, joinsReading
<1> HIDE DEF joinsCounted, joinsReading
<1>8. IsFiniteSet(Partners)
  BY GatewayAssumption
<1>6. /\ Cardinality(Counted(k, w)) \in Nat /\ Cardinality(Counted(k, w)') \in Nat
      /\ Cardinality(Counted(k, w)') = Cardinality(Counted(k, w)) + Bit(joinsCounted)
                                         - Bit(p \in Counted(k, w))
  BY <1>2, <1>4, <1>5, <1>8, OneMemberMoves
<1>7. /\ Cardinality(Reading(k, w)) \in Nat /\ Cardinality(Reading(k, w)') \in Nat
      /\ Cardinality(Reading(k, w)') = Cardinality(Reading(k, w)) + Bit(joinsReading)
                                         - Bit(p \in Reading(k, w))
  BY <1>3, <1>4, <1>5, <1>8, OneMemberMoves
<1> QED BY <1>6, <1>7 DEF joinsCounted, joinsReading

\* One more in the counter of key k and window w.
LEMMA CountsOneMore ==
    ASSUME NEW f \in [ApiKeys -> [0..MaxMinute -> Nat]], NEW k \in ApiKeys, NEW w \in 0..MaxMinute,
           NEW g, g = [f EXCEPT ![k][w] = @ + 1]
    PROVE  /\ g \in [ApiKeys -> [0..MaxMinute -> Nat]]
           /\ g[k][w] = f[k][w] + 1
           /\ \A j \in ApiKeys, v \in 0..MaxMinute : j # k \/ v # w => g[j][v] = f[j][v]
<1>1. f[k] \in [0..MaxMinute -> Nat]
  OBVIOUS
<1>2. /\ [f[k] EXCEPT ![w] = @ + 1] \in [0..MaxMinute -> Nat]
      /\ [f[k] EXCEPT ![w] = @ + 1][w] = f[k][w] + 1
      /\ \A v \in 0..MaxMinute : v # w => [f[k] EXCEPT ![w] = @ + 1][v] = f[k][v]
  BY <1>1
<1>3. g = [f EXCEPT ![k] = [f[k] EXCEPT ![w] = @ + 1]]
  OBVIOUS
<1> QED BY <1>2, <1>3

\* Every step of a request keeps the counts.
LEMMA CallStepKeeps ==
    ASSUME GatewayTypeOK, CallsCounted, PastGateActive, NEW p \in Partners,
           \/ \E k \in ApiKeys : require_third_party_api_key(p, k)
           \/ external_query_events(p)
           \/ increment_external_gateway_rate_limit(p)
           \/ CheckLimit(p)
           \/ ReadEvents(p)
           \/ CallFails(p)
    PROVE  GatewayTypeOK' /\ CallsCounted' /\ PastGateActive' /\ keysUnchanged
<1> USE GatewayAssumption
<1> DEFINE Windows == 0..MaxMinute
           CallRecord == [pc : {"gate", "count", "limit", "read"}, key : ApiKeys,
                          status : {"active", "revoked"}, window : Windows, count : Nat]
<1>0. /\ NoCall \in CallState /\ NoCall.pc = "idle"
      /\ call[p] # NoCall => call[p] \in CallRecord
      /\ call[p].pc # "idle" => call[p] # NoCall
      /\ CallRecord \subseteq CallState
  BY DEF CallState, NoCall, GatewayTypeOK
<1>1. \A k \in ApiKeys, w \in Windows :
         used[k][w] \in Nat /\ outcomes[k][w] \in Nat /\ served[k][w] \in Nat
  BY DEF GatewayTypeOK
<1>2. \A k, w : /\ p \in Counted(k, w) => /\ call[p].pc = "limit" /\ call[p].key = k
                                          /\ call[p].window = w /\ call[p].count <= RateLimit
                /\ p \in Reading(k, w) => call[p].pc = "read" /\ call[p].key = k /\ call[p].window = w
                /\ (/\ call[p].pc = "limit" /\ call[p].key = k
                    /\ call[p].window = w /\ call[p].count <= RateLimit) => p \in Counted(k, w)
                /\ call[p].pc = "read" /\ call[p].key = k /\ call[p].window = w => p \in Reading(k, w)
  BY DEF Counted, Reading
\* A request that only changes its place before the counter or ends counts no more than it did.
<1>3. ASSUME NEW c \in CallState, c.pc \notin {"limit", "read"}, call' = [call EXCEPT ![p] = c],
             c.pc = "count" => c.status = "active",
             keysUnchanged, UNCHANGED <<minute, used, outcomes, served, late>>
      PROVE  GatewayTypeOK' /\ CallsCounted' /\ PastGateActive' /\ keysUnchanged
  <2>1. GatewayTypeOK'
    BY <1>3 DEF GatewayTypeOK, keysUnchanged
  <2>2. ASSUME NEW k \in ApiKeys, NEW w \in Windows
        PROVE  /\ Cardinality(Counted(k, w)') \in Nat /\ Cardinality(Counted(k, w)) \in Nat
               /\ Cardinality(Reading(k, w)') \in Nat /\ Cardinality(Reading(k, w)) \in Nat
               /\ Cardinality(Counted(k, w)') <= Cardinality(Counted(k, w))
               /\ Cardinality(Reading(k, w)') <= Cardinality(Reading(k, w))
    <3>1. /\ Cardinality(Counted(k, w)) \in Nat /\ Cardinality(Counted(k, w)') \in Nat
          /\ Cardinality(Reading(k, w)) \in Nat /\ Cardinality(Reading(k, w)') \in Nat
          /\ Cardinality(Counted(k, w)') = Cardinality(Counted(k, w))
               + Bit(c.pc = "limit" /\ c.key = k /\ c.window = w /\ c.count <= RateLimit)
               - Bit(p \in Counted(k, w))
          /\ Cardinality(Reading(k, w)') = Cardinality(Reading(k, w))
               + Bit(c.pc = "read" /\ c.key = k /\ c.window = w) - Bit(p \in Reading(k, w))
      BY <1>3, OneCallMoves
    <3> QED BY <1>3, <3>1 DEF Bit
  <2>3. CallsCounted'
    BY <1>1, <1>3, <2>2 DEF CallsCounted
  <2>4. PastGateActive'
    BY <1>3 DEF PastGateActive, GatewayTypeOK
  <2> QED BY <1>3, <2>1, <2>3, <2>4
<1>4. ASSUME NEW k \in ApiKeys, require_third_party_api_key(p, k)
      PROVE  GatewayTypeOK' /\ CallsCounted' /\ PastGateActive' /\ keysUnchanged
  <2> DEFINE c == [pc |-> "gate", key |-> k, status |-> keyStatus[k], window |-> minute, count |-> 0]
  <2>1. c \in CallState /\ c.pc = "gate"
    BY <1>4 DEF require_third_party_api_key, CallState, GatewayTypeOK, Issued
  <2>2. /\ call' = [call EXCEPT ![p] = c]
        /\ keysUnchanged /\ UNCHANGED <<minute, used, outcomes, served, late>>
    BY <1>4 DEF require_third_party_api_key
  <2> HIDE DEF c
  <2> QED BY <1>3, <2>1, <2>2
<1>5. ASSUME external_query_events(p)
      PROVE  GatewayTypeOK' /\ CallsCounted' /\ PastGateActive' /\ keysUnchanged
  <2> DEFINE c == IF call[p].status # "active" THEN NoCall
                  ELSE [call[p] EXCEPT !.pc = "count", !.window = minute]
  <2>1. /\ call[p].pc = "gate" /\ call' = [call EXCEPT ![p] = c]
        /\ keysUnchanged /\ UNCHANGED <<minute, used, outcomes, served, late>>
    BY <1>5 DEF external_query_events
  <2>2. call[p] \in CallRecord /\ minute \in Windows
    BY <1>0, <2>1 DEF GatewayTypeOK
  <2>3. /\ [call[p] EXCEPT !.pc = "count", !.window = minute] \in CallRecord
        /\ [call[p] EXCEPT !.pc = "count", !.window = minute].pc = "count"
        /\ [call[p] EXCEPT !.pc = "count", !.window = minute].status = call[p].status
    BY <2>2
  <2>4. c \in CallState /\ c.pc \in {"idle", "count"} /\ (c.pc = "count" => c.status = "active")
    BY <1>0, <2>3
  <2> HIDE DEF c
  <2> QED BY <1>3, <2>1, <2>4
<1>6. ASSUME increment_external_gateway_rate_limit(p)
      PROVE  GatewayTypeOK' /\ CallsCounted' /\ PastGateActive' /\ keysUnchanged
  <2> DEFINE k == call[p].key
             w == call[p].window
             c == [call[p] EXCEPT !.pc = "limit", !.count = used[k][w] + 1]
  <2>1. /\ call[p].pc = "count" /\ used' = [used EXCEPT ![k][w] = @ + 1]
        /\ call' = [call EXCEPT ![p] = c]
        /\ keysUnchanged /\ UNCHANGED <<minute, outcomes, served, late>>
    BY <1>6 DEF increment_external_gateway_rate_limit
  <2>2. call[p] \in CallRecord /\ k \in ApiKeys /\ w \in Windows /\ used[k][w] + 1 \in Nat
    BY <1>0, <1>1, <2>1
  <2>3. /\ c \in CallRecord /\ c.pc = "limit" /\ c.key = k /\ c.window = w
        /\ c.count = used[k][w] + 1 /\ c.status = call[p].status
    BY <2>2
  <2>4. c \in CallState
    BY <1>0, <2>3
  <2> HIDE DEF c, k, w
  <2>5. /\ used' \in [ApiKeys -> [Windows -> Nat]]
        /\ used'[k][w] = used[k][w] + 1
        /\ \A j \in ApiKeys, v \in Windows : j # k \/ v # w => used'[j][v] = used[j][v]
    <3>1. used \in [ApiKeys -> [0..MaxMinute -> Nat]]
      BY DEF GatewayTypeOK
    <3>2. used' = [used EXCEPT ![k][w] = @ + 1] /\ k \in ApiKeys /\ w \in 0..MaxMinute
      BY <2>1, <2>2
    <3> QED BY <3>1, <3>2, CountsOneMore
  <2>6. GatewayTypeOK'
    BY <2>1, <2>4, <2>5 DEF GatewayTypeOK, keysUnchanged
  <2>7. ASSUME NEW j \in ApiKeys, NEW v \in Windows
        PROVE  /\ outcomes'[j][v] + Cardinality(Counted(j, v)') <= used'[j][v]
               /\ outcomes'[j][v] + Cardinality(Counted(j, v)') <= RateLimit
               /\ served'[j][v] + Cardinality(Reading(j, v)') <= outcomes'[j][v]
    <3> DEFINE n == Cardinality(Counted(j, v))
               m == Cardinality(Reading(j, v))
    <3>0. /\ n \in Nat /\ m \in Nat
          /\ Cardinality(Counted(j, v)') = n
               + Bit(c.pc = "limit" /\ c.key = j /\ c.window = v /\ c.count <= RateLimit)
               - Bit(p \in Counted(j, v))
          /\ Cardinality(Reading(j, v)') = m
               + Bit(c.pc = "read" /\ c.key = j /\ c.window = v) - Bit(p \in Reading(j, v))
      BY <2>1, <2>4, OneCallMoves, ZenonT(30)
    <3>1. n \in Nat /\ m \in Nat /\ p \notin Counted(j, v) /\ p \notin Reading(j, v)
      BY <1>2, <2>1, <3>0
    <3> HIDE DEF n, m
    <3>2. Cardinality(Reading(j, v)') = m
      BY <2>3, <3>0, <3>1 DEF Bit
    <3>3. /\ outcomes[j][v] + n <= used[j][v] /\ outcomes[j][v] + n <= RateLimit
          /\ served[j][v] + m <= outcomes[j][v]
      BY DEF CallsCounted, n, m
    <3>4. \/ Cardinality(Counted(j, v)') = n
          \/ /\ j = k /\ v = w /\ used[k][w] + 1 <= RateLimit
             /\ Cardinality(Counted(j, v)') = n + 1
      BY <2>3, <3>0, <3>1 DEF Bit
    <3>5. used'[j][v] >= used[j][v] /\ (j = k /\ v = w => used'[j][v] = used[j][v] + 1)
          /\ used'[j][v] \in Nat
      BY <1>1, <2>5, SMTT(30)
    <3>6. served'[j][v] + Cardinality(Reading(j, v)') <= outcomes'[j][v]
      BY <2>1, <3>2, <3>3
    <3>7. outcomes'[j][v] = outcomes[j][v] /\ outcomes[j][v] \in Nat /\ used[j][v] \in Nat
      BY <1>1, <2>1
    <3> QED BY <3>1, <3>3, <3>4, <3>5, <3>6, <3>7
  <2>8. CallsCounted'
    BY <2>7 DEF CallsCounted
  <2>9. PastGateActive'
    <3>1. call[p].status = "active"
      BY <2>1 DEF PastGateActive
    <3> QED BY <2>1, <2>3, <3>1 DEF PastGateActive, GatewayTypeOK
  <2> QED BY <2>1, <2>6, <2>8, <2>9
<1>7. ASSUME CheckLimit(p)
      PROVE  GatewayTypeOK' /\ CallsCounted' /\ PastGateActive' /\ keysUnchanged
  <2>1. call[p].pc = "limit" /\ keysUnchanged /\ UNCHANGED <<minute, used, served, late>>
    BY <1>7 DEF CheckLimit
  <2>2. call[p] \in CallRecord
    BY <1>0, <2>1
  <2>3. CASE call[p].count > RateLimit
    <3>1. call' = [call EXCEPT ![p] = NoCall] /\ UNCHANGED outcomes
      BY <1>7, <2>3 DEF CheckLimit
    <3> QED BY <1>0, <1>3, <2>1, <3>1
  <2>4. CASE ~(call[p].count > RateLimit)
    <3> DEFINE k == call[p].key
               w == call[p].window
               c == [call[p] EXCEPT !.pc = "read"]
    <3>1. /\ call' = [call EXCEPT ![p] = c]
          /\ outcomes' = [outcomes EXCEPT ![k][w] = @ + 1]
      BY <1>7, <2>4 DEF CheckLimit
    <3>2. /\ c \in CallRecord /\ c.pc = "read" /\ c.key = k /\ c.window = w
          /\ c.status = call[p].status /\ k \in ApiKeys /\ w \in Windows
      BY <2>2
    <3>3. c \in CallState /\ call[p].count <= RateLimit
      BY <1>0, <2>2, <2>4, <3>2
    <3>4. p \in Counted(k, w)
      BY <2>1, <3>3 DEF Counted
    <3> HIDE DEF c, k, w
    <3>5. /\ outcomes' \in [ApiKeys -> [Windows -> Nat]]
          /\ outcomes'[k][w] = outcomes[k][w] + 1
          /\ \A j \in ApiKeys, v \in Windows : j # k \/ v # w => outcomes'[j][v] = outcomes[j][v]
      <4>1. outcomes \in [ApiKeys -> [0..MaxMinute -> Nat]]
        BY DEF GatewayTypeOK
      <4>2. outcomes' = [outcomes EXCEPT ![k][w] = @ + 1] /\ k \in ApiKeys /\ w \in 0..MaxMinute
        BY <3>1, <3>2
      <4> QED BY <4>1, <4>2, CountsOneMore
    <3>6. GatewayTypeOK'
      BY <2>1, <3>1, <3>3, <3>5 DEF GatewayTypeOK, keysUnchanged
    <3>7. ASSUME NEW j \in ApiKeys, NEW v \in Windows
          PROVE  /\ outcomes'[j][v] + Cardinality(Counted(j, v)') <= used'[j][v]
                 /\ outcomes'[j][v] + Cardinality(Counted(j, v)') <= RateLimit
                 /\ served'[j][v] + Cardinality(Reading(j, v)') <= outcomes'[j][v]
      <4> DEFINE n == Cardinality(Counted(j, v))
                 m == Cardinality(Reading(j, v))
      <4>0. /\ n \in Nat /\ m \in Nat
            /\ Cardinality(Counted(j, v)') = n
                 + Bit(c.pc = "limit" /\ c.key = j /\ c.window = v /\ c.count <= RateLimit)
                 - Bit(p \in Counted(j, v))
            /\ Cardinality(Reading(j, v)') = m
                 + Bit(c.pc = "read" /\ c.key = j /\ c.window = v) - Bit(p \in Reading(j, v))
        BY <3>1, <3>3, OneCallMoves, ZenonT(30)
      <4>1. n \in Nat /\ m \in Nat /\ p \notin Reading(j, v)
        BY <1>2, <2>1, <4>0
      <4>2. /\ outcomes[j][v] + n <= used[j][v] /\ outcomes[j][v] + n <= RateLimit
            /\ served[j][v] + m <= outcomes[j][v]
        BY DEF CallsCounted
      <4> HIDE DEF n, m
      <4>3. j = k /\ v = w => /\ Cardinality(Counted(j, v)') = n - 1
                              /\ Cardinality(Reading(j, v)') = m + 1
        BY <3>2, <3>4, <4>0, <4>1 DEF Bit
      <4>4. p \in Counted(j, v) => j = k /\ v = w
        BY <1>2 DEF k, w
      <4>5. ~(j = k /\ v = w) => /\ Cardinality(Counted(j, v)') = n
                                 /\ Cardinality(Reading(j, v)') = m
        BY <3>2, <4>0, <4>1, <4>4 DEF Bit
      <4>6. /\ outcomes'[j][v] = IF j = k /\ v = w THEN outcomes[j][v] + 1 ELSE outcomes[j][v]
            /\ outcomes[j][v] \in Nat /\ used[j][v] \in Nat /\ served[j][v] \in Nat
            /\ used'[j][v] = used[j][v] /\ served'[j][v] = served[j][v]
        BY <1>1, <2>1, <3>5
      <4> QED BY <4>1, <4>2, <4>3, <4>5, <4>6
    <3>8. CallsCounted'
      BY <3>7 DEF CallsCounted
    <3>9. PastGateActive'
      <4>1. call[p].status = "active"
        BY <2>1 DEF PastGateActive
      <4> QED BY <2>1, <3>1, <3>2, <4>1 DEF PastGateActive, GatewayTypeOK
    <3> QED BY <2>1, <3>6, <3>8, <3>9
  <2> QED BY <2>3, <2>4
<1>8. ASSUME ReadEvents(p)
      PROVE  GatewayTypeOK' /\ CallsCounted' /\ PastGateActive' /\ keysUnchanged
  <2> DEFINE k == call[p].key
             w == call[p].window
  <2>1. /\ call[p].pc = "read" /\ served' = [served EXCEPT ![k][w] = @ + 1]
        /\ late' = IF call[p].status = "revoked" THEN late \cup {call[p].key} ELSE late
        /\ call' = [call EXCEPT ![p] = NoCall]
        /\ keysUnchanged /\ UNCHANGED <<minute, used, outcomes>>
    BY <1>8 DEF ReadEvents
  <2>2. k \in ApiKeys /\ w \in Windows /\ p \in Reading(k, w)
    BY <1>0, <2>1 DEF Reading
  <2>3. late' = {}
    BY <2>1 DEF PastGateActive
  <2> HIDE DEF k, w
  <2>4. /\ served' \in [ApiKeys -> [Windows -> Nat]]
        /\ served'[k][w] = served[k][w] + 1
        /\ \A j \in ApiKeys, v \in Windows : j # k \/ v # w => served'[j][v] = served[j][v]
    <3>1. served \in [ApiKeys -> [0..MaxMinute -> Nat]]
      BY DEF GatewayTypeOK
    <3>2. served' = [served EXCEPT ![k][w] = @ + 1] /\ k \in ApiKeys /\ w \in 0..MaxMinute
      BY <2>1, <2>2
    <3> QED BY <3>1, <3>2, CountsOneMore
  <2>5. GatewayTypeOK'
    BY <1>0, <2>1, <2>3, <2>4 DEF GatewayTypeOK, keysUnchanged
  <2>6. ASSUME NEW j \in ApiKeys, NEW v \in Windows
        PROVE  /\ outcomes'[j][v] + Cardinality(Counted(j, v)') <= used'[j][v]
               /\ outcomes'[j][v] + Cardinality(Counted(j, v)') <= RateLimit
               /\ served'[j][v] + Cardinality(Reading(j, v)') <= outcomes'[j][v]
    <3> DEFINE n == Cardinality(Counted(j, v))
               m == Cardinality(Reading(j, v))
    <3>0. /\ n \in Nat /\ m \in Nat
          /\ Cardinality(Counted(j, v)') = n - Bit(p \in Counted(j, v))
          /\ Cardinality(Reading(j, v)') = m - Bit(p \in Reading(j, v))
      <4>1. PICK c \in CallState : c.pc = "idle" /\ call' = [call EXCEPT ![p] = c]
        BY <1>0, <2>1
      <4>2. /\ n \in Nat /\ m \in Nat
            /\ Cardinality(Counted(j, v)') = n
                 + Bit(c.pc = "limit" /\ c.key = j /\ c.window = v /\ c.count <= RateLimit)
                 - Bit(p \in Counted(j, v))
            /\ Cardinality(Reading(j, v)') = m
                 + Bit(c.pc = "read" /\ c.key = j /\ c.window = v) - Bit(p \in Reading(j, v))
        BY <4>1, OneCallMoves, ZenonT(30)
      <4> HIDE DEF n, m
      <4> QED BY <4>1, <4>2 DEF Bit
    <3>1. n \in Nat /\ m \in Nat /\ p \notin Counted(j, v)
      BY <1>2, <2>1, <3>0
    <3>2. /\ outcomes[j][v] + n <= used[j][v] /\ outcomes[j][v] + n <= RateLimit
          /\ served[j][v] + m <= outcomes[j][v]
      BY DEF CallsCounted
    <3> HIDE DEF n, m
    <3>3. p \in Reading(j, v) => j = k /\ v = w
      BY <1>2 DEF k, w
    <3>4. /\ Cardinality(Counted(j, v)') = n
          /\ Cardinality(Reading(j, v)') = IF j = k /\ v = w THEN m - 1 ELSE m
      BY <1>0, <2>2, <3>0, <3>1, <3>3 DEF Bit
    <3>5. /\ served'[j][v] = IF j = k /\ v = w THEN served[j][v] + 1 ELSE served[j][v]
          /\ outcomes[j][v] \in Nat /\ used[j][v] \in Nat /\ served[j][v] \in Nat
          /\ used'[j][v] = used[j][v] /\ outcomes'[j][v] = outcomes[j][v]
      BY <1>1, <2>1, <2>4
    <3> QED BY <3>1, <3>2, <3>4, <3>5
  <2>7. CallsCounted'
    BY <2>6 DEF CallsCounted
  <2>8. PastGateActive'
    BY <1>0, <2>1, <2>3 DEF PastGateActive, GatewayTypeOK
  <2> QED BY <2>1, <2>5, <2>7, <2>8
<1>9. ASSUME CallFails(p)
      PROVE  GatewayTypeOK' /\ CallsCounted' /\ PastGateActive' /\ keysUnchanged
  BY <1>0, <1>3, <1>9 DEF CallFails
<1> QED BY <1>4, <1>5, <1>6, <1>7, <1>8, <1>9

\* Every step of the gateway keeps GatewayInv.
LEMMA GatewayStep == GatewayInv /\ [GatewayNext]_gatewayVars => GatewayInv'
<1> SUFFICES ASSUME GatewayInv, [GatewayNext]_gatewayVars PROVE GatewayInv'
  OBVIOUS
<1>1. ASSUME GatewayTypeOK', KeyCapCounted', callsUnchanged PROVE GatewayInv'
  BY <1>1 DEF GatewayInv, callsUnchanged, CallsCounted, Counted, Reading, PastGateActive
<1>2. ASSUME NEW p \in Partners, GatewayTypeOK', CallsCounted', PastGateActive', keysUnchanged
      PROVE  GatewayInv'
  BY <1>2 DEF GatewayInv, keysUnchanged, KeyCapCounted, Issued
<1>3. CASE Tick
  <2>1. GatewayTypeOK'
    BY <1>3, GatewayAssumption DEF Tick, GatewayInv, GatewayTypeOK, keysUnchanged
  <2> QED BY <1>3, <2>1 DEF Tick, GatewayInv, keysUnchanged, KeyCapCounted, Issued, CallsCounted,
                            Counted, Reading, PastGateActive
<1>4. CASE UNCHANGED gatewayVars
  BY <1>4 DEF gatewayVars, GatewayInv, GatewayTypeOK, KeyCapCounted, Issued, CallsCounted,
              Counted, Reading, PastGateActive
<1>5. CASE \/ \E i \in Issuers :
                 \/ lock_external_gateway_key_cap(i)
                 \/ count_third_party_api_keys(i)
                 \/ \E k \in ApiKeys : insert_third_party_api_key(i, k)
           \/ \E k \in ApiKeys : revoke_third_party_api_key(k)
  BY <1>1, <1>5, KeyStepKeeps DEF GatewayInv
<1>6. ASSUME NEW p \in Partners,
             \/ \E k \in ApiKeys : require_third_party_api_key(p, k)
             \/ external_query_events(p)
             \/ increment_external_gateway_rate_limit(p)
             \/ CheckLimit(p)
             \/ ReadEvents(p)
             \/ CallFails(p)
      PROVE  GatewayInv'
  BY <1>2, <1>6, CallStepKeeps DEF GatewayInv
<1> QED BY <1>3, <1>4, <1>5, <1>6 DEF GatewayNext

\* What GatewayInv says of the partners.
LEMMA GatewayInvLimits == GatewayInv => PartnersWithinRights
<1> SUFFICES ASSUME GatewayInv PROVE PartnersWithinRights
  OBVIOUS
<1>1. ASSUME NEW k \in ApiKeys, NEW w \in 0..MaxMinute
      PROVE  served[k][w] <= outcomes[k][w] /\ outcomes[k][w] <= RateLimit
  <2>1. Counted(k, w) \subseteq Partners /\ Reading(k, w) \subseteq Partners
    BY DEF Counted, Reading
  <2>2. Cardinality(Counted(k, w)) \in Nat /\ Cardinality(Reading(k, w)) \in Nat
    BY <2>1, PartnersFinite
  <2>3. served[k][w] \in Nat /\ outcomes[k][w] \in Nat /\ RateLimit \in Nat
    BY GatewayAssumption DEF GatewayInv, GatewayTypeOK
  <2>4. /\ outcomes[k][w] + Cardinality(Counted(k, w)) <= RateLimit
        /\ served[k][w] + Cardinality(Reading(k, w)) <= outcomes[k][w]
    BY DEF GatewayInv, CallsCounted
  <2> QED BY <2>2, <2>3, <2>4
<1>2. ServedWithinLimit
  BY <1>1 DEF ServedWithinLimit
<1> QED BY <1>2 DEF GatewayInv, KeyCapCounted, PastGateActive, PartnersWithinRights,
                    IssuedWithinCap, RevokedNotServed

\* For any number of operators and partners: issued keys stay within the cap, a key is
\* served at most its limit in a window however its requests overlap and fail, and never
\* for a request that began after its revocation.
THEOREM PartnersStayWithinRights == GatewaySpec => []PartnersWithinRights
<1> QED BY GatewayStart, GatewayStep, GatewayInvLimits, PTL DEF GatewaySpec

-----------------------------------------------------------------------------
(* The Orchestrator's shared agent state *)

WriteRecord == [pc : {"check", "lock", "count", "create", "update", "conflict", "link"},
                key : StateKeys, expected : 0..MaxVersion]
WriteState == {Waiting} \cup WriteRecord

StateTypeOK ==
    /\ version \in [StateKeys -> 0..MaxVersion]
    /\ made \in [StateKeys -> SUBSET (Nat \X Nat)]
    /\ stateLock \in Writers \cup {NoWriter}
    /\ writing \in [Writers -> WriteState]
    /\ known \in [Writers -> [StateKeys -> 0..MaxVersion]]
    /\ stateLinks \in [StateKeys -> [1..MaxVersion -> Nat]]
    /\ unlinked \subseteq StateKeys \X (1..MaxVersion)

\* A create expects no version, an update one that can be replaced, and a link is of a
\* version that is there.
ExpectsVersion ==
    \A w \in Writers :
        /\ writing[w].pc \in {"check", "lock", "count", "create"} => writing[w].expected = 0
        /\ writing[w].pc \in {"check", "lock", "count", "create", "update"} =>
              writing[w].expected < MaxVersion
        /\ writing[w].pc = "update" => writing[w].expected > 0
        /\ writing[w].pc = "link" => writing[w].expected \in 1..version[writing[w].key]

Cells == {k \in StateKeys : Exists(k)}

\* A create of a new key holds the cap lock from its count on, so the count still holds.
CellsCounted ==
    /\ IsFiniteSet(Cells)
    /\ Cardinality(Cells) <= StateCap
    /\ \A w \in Writers :
          /\ writing[w].pc = "count" => stateLock = w
          /\ writing[w].pc = "create" =>
                \/ Exists(writing[w].key)
                \/ stateLock = w /\ Cardinality(Cells) < StateCap

\* The writers about to link version v of k.
Linking(k, v) == {w \in Writers : /\ writing[w].pc = "link" /\ writing[w].key = k
                                  /\ writing[w].expected = v}

\* Every version there is has one link, one writer about to link it, or was dropped.
LinkedOnce ==
    \A k \in StateKeys, v \in 1..MaxVersion :
        stateLinks[k][v] + Cardinality(Linking(k, v)) + Bit(<<k, v>> \in unlinked)
            = Bit(v <= version[k])

StateInv == StateTypeOK /\ ExpectsVersion /\ CellsCounted /\ LinkedOnce /\ NoLostUpdate

\* At the start there is no cell.
LEMMA StateStart == StateInit => StateInv
<1> SUFFICES ASSUME StateInit PROVE StateInv
  OBVIOUS
<1> USE StateAssumption
<1>1. StateTypeOK
  BY DEF StateInit, StateTypeOK, WriteState
<1>2. Cells = {} /\ \A w \in Writers : writing[w].pc = "idle"
  BY DEF StateInit, Cells, Exists, Waiting
<1>3. ExpectsVersion
  BY <1>2 DEF ExpectsVersion
<1>4. CellsCounted
  BY <1>2, FS_EmptySet DEF CellsCounted
<1>5. LinkedOnce
  <2>1. ASSUME NEW k \in StateKeys, NEW v \in 1..MaxVersion
        PROVE  Cardinality(Linking(k, v)) = 0
    <3>1. Linking(k, v) = {}
      BY <1>2 DEF Linking
    <3> QED BY <3>1, FS_EmptySet
  <2>2. \A k \in StateKeys, v \in 1..MaxVersion :
           stateLinks[k][v] = 0 /\ <<k, v>> \notin unlinked /\ ~(v <= version[k])
    BY DEF StateInit
  <2>3. ASSUME NEW k \in StateKeys, NEW v \in 1..MaxVersion
        PROVE  stateLinks[k][v] + Cardinality(Linking(k, v)) + Bit(<<k, v>> \in unlinked)
                 = Bit(v <= version[k])
    <3>1. Bit(<<k, v>> \in unlinked) = 0 /\ Bit(v <= version[k]) = 0
      BY <2>2 DEF Bit
    <3> QED BY <2>1, <2>2, <3>1
  <2> QED BY <2>3 DEF LinkedOnce
<1>6. NoLostUpdate
  BY DEF StateInit, NoLostUpdate
<1> QED BY <1>1, <1>3, <1>4, <1>5, <1>6 DEF StateInv

\* A writer that is not waiting has a record of its request.
LEMMA WriterAtWork ==
    ASSUME StateTypeOK, NEW w \in Writers
    PROVE  /\ Waiting \in WriteState /\ Waiting.pc = "idle"
           /\ writing[w].pc # "idle" => writing[w] \in WriteRecord
           /\ writing[w] # Waiting => writing[w] \in WriteRecord
           /\ WriteRecord \subseteq WriteState
BY DEF StateTypeOK, WriteState, WriteRecord, Waiting

\* The request of w moves to another place and keeps its key and version.
LEMMA WriterMoves ==
    ASSUME StateTypeOK, NEW w \in Writers, writing[w] \in WriteRecord,
           NEW p \in {"check", "lock", "count", "create", "update", "conflict", "link"},
           WriteGoTo(w, p)
    PROVE  \E c \in WriteRecord : /\ writing' = [writing EXCEPT ![w] = c]
                                  /\ c.pc = p /\ c.key = writing[w].key
                                  /\ c.expected = writing[w].expected
<1> DEFINE c == [writing[w] EXCEPT !.pc = p]
<1>1. /\ c \in WriteRecord /\ c.pc = p /\ c.key = writing[w].key
      /\ c.expected = writing[w].expected
  BY DEF WriteRecord
<1>2. writing' = [writing EXCEPT ![w] = c]
  BY DEF WriteGoTo
<1> HIDE DEF c
<1> QED BY <1>1, <1>2

\* When the request of w becomes c, w joins or leaves the writers about to link.
LEMMA OneWriteMoves ==
    ASSUME StateTypeOK, NEW w \in Writers, NEW c \in WriteState,
           writing' = [writing EXCEPT ![w] = c],
           NEW k \in StateKeys, NEW v \in 1..MaxVersion
    PROVE  /\ Cardinality(Linking(k, v)) \in Nat /\ Cardinality(Linking(k, v)') \in Nat
           /\ Cardinality(Linking(k, v)') = Cardinality(Linking(k, v))
                + Bit(c.pc = "link" /\ c.key = k /\ c.expected = v) - Bit(w \in Linking(k, v))
<1> DEFINE joins == c.pc = "link" /\ c.key = k /\ c.expected = v
<1>1. writing'[w] = c /\ \A o \in Writers : o # w => writing'[o] = writing[o]
  BY DEF StateTypeOK
<1>2. Linking(k, v)' = IF joins THEN Linking(k, v) \cup {w} ELSE Linking(k, v) \ {w}
  BY <1>1 DEF Linking
<1>3. Linking(k, v) \subseteq Writers /\ joins \in BOOLEAN
  BY DEF Linking, joins
<1> HIDE DEF joins
<1>4. IsFiniteSet(Writers)
  BY StateAssumption
<1>5. /\ Cardinality(Linking(k, v)) \in Nat /\ Cardinality(Linking(k, v)') \in Nat
      /\ Cardinality(Linking(k, v)') = Cardinality(Linking(k, v)) + Bit(joins)
                                         - Bit(w \in Linking(k, v))
  BY <1>2, <1>3, <1>4, OneMemberMoves
<1> QED BY <1>5 DEF joins

\* The steps of a writer between its link and its write: nothing is stored or linked.
LEMMA StateFrame ==
    ASSUME StateInv, NEW w \in Writers, NEW c \in WriteState,
           writing' = [writing EXCEPT ![w] = c], c.pc # "link", writing[w].pc # "link",
           UNCHANGED <<version, made, stateLinks, unlinked>>,
           known' \in [Writers -> [StateKeys -> 0..MaxVersion]],
           stateLock' \in Writers \cup {NoWriter},
           \A o \in Writers : o # w => (stateLock = o => stateLock' = o),
           c.pc \in {"check", "lock", "count", "create"} => c.expected = 0,
           c.pc \in {"check", "lock", "count", "create", "update"} => c.expected < MaxVersion,
           c.pc = "update" => c.expected > 0,
           c.pc = "count" => stateLock' = w,
           c.pc = "create" => \/ Exists(c.key)
                              \/ stateLock' = w /\ Cardinality(Cells) < StateCap
    PROVE  StateInv'
<1>1. writing'[w] = c /\ \A o \in Writers : o # w => writing'[o] = writing[o]
  BY DEF StateInv, StateTypeOK
<1>2. StateTypeOK'
  BY DEF StateInv, StateTypeOK
<1>3. ExpectsVersion'
  BY <1>1 DEF StateInv, ExpectsVersion
<1>4. CellsCounted'
  <2>1. Cells' = Cells /\ \A k : Exists(k)' = Exists(k)
    BY DEF Cells, Exists
  <2>2. ASSUME NEW o \in Writers
        PROVE  /\ writing'[o].pc = "count" => stateLock' = o
               /\ writing'[o].pc = "create" =>
                     \/ Exists(writing'[o].key)
                     \/ stateLock' = o /\ Cardinality(Cells) < StateCap
    BY <1>1 DEF StateInv, CellsCounted
  <2> QED BY <2>1, <2>2 DEF StateInv, CellsCounted, Cells, Exists
<1>5. LinkedOnce'
  <2>1. ASSUME NEW k \in StateKeys, NEW v \in 1..MaxVersion PROVE Linking(k, v)' = Linking(k, v)
    BY <1>1 DEF Linking
  <2> QED BY <2>1 DEF StateInv, LinkedOnce
<1>6. NoLostUpdate'
  BY DEF StateInv, NoLostUpdate
<1> QED BY <1>2, <1>3, <1>4, <1>5, <1>6 DEF StateInv

\* A cell gets its next version, and its writer goes on to link it.
LEMMA StoreKeeps ==
    ASSUME StateInv, NEW w \in Writers, writing[w].pc \in {"create", "update"},
           NEW k, NEW v, k = writing[w].key, v = version[k] + 1,
           writing[w].expected = version[k], Store(w, k, v),
           version[k] = 0 => stateLock = w /\ Cardinality(Cells) < StateCap,
           stateLock' \in Writers \cup {NoWriter},
           \A o \in Writers : o # w => (stateLock = o => stateLock' = o),
           UNCHANGED <<known, stateLinks, unlinked>>
    PROVE  StateInv'
<1> USE StateAssumption
<1>1. /\ writing[w] \in WriteRecord /\ k \in StateKeys /\ version[k] \in 0..MaxVersion
      /\ version[k] < MaxVersion /\ v \in 1..MaxVersion
  <2>1. writing[w] \in WriteRecord /\ k \in StateKeys
    BY WriterAtWork DEF StateInv, WriteRecord
  <2>2. version[k] \in 0..MaxVersion
    BY <2>1 DEF StateInv, StateTypeOK
  <2>3. version[k] < MaxVersion
    BY DEF StateInv, ExpectsVersion
  <2> QED BY <2>1, <2>2, <2>3
<1> DEFINE c == [pc |-> "link", key |-> k, expected |-> v]
<1>2. /\ version' = [version EXCEPT ![k] = v]
      /\ made' = [made EXCEPT ![k] = @ \cup {<<version[k], v>>}]
      /\ writing' = [writing EXCEPT ![w] = c]
  BY DEF Store
<1>3. c \in WriteState /\ c.pc = "link" /\ c.key = k /\ c.expected = v
  BY <1>1 DEF WriteState, WriteRecord
<1> HIDE DEF c
<1>4. /\ writing'[w] = c /\ \A o \in Writers : o # w => writing'[o] = writing[o]
      /\ version'[k] = v /\ \A j \in StateKeys : j # k => version'[j] = version[j]
  BY <1>1, <1>2 DEF StateInv, StateTypeOK
<1>5. StateTypeOK'
  <2>1. <<version[k], v>> \in Nat \X Nat
    BY <1>1
  <2>2. made' \in [StateKeys -> SUBSET (Nat \X Nat)]
    BY <1>1, <1>2, <2>1 DEF StateInv, StateTypeOK
  <2> QED BY <1>1, <1>2, <1>3, <2>2 DEF StateInv, StateTypeOK
<1>6. ExpectsVersion'
  <2>1. \A j \in StateKeys : version'[j] \in Nat /\ version[j] \in Nat /\ version[j] <= version'[j]
    BY <1>1, <1>4, SMTT(30) DEF StateInv, StateTypeOK
  <2>2. ASSUME NEW o \in Writers, writing'[o].pc = "link"
        PROVE  writing'[o].expected \in 1..version'[writing'[o].key]
    <3>1. CASE o = w
      BY <1>1, <1>3, <1>4, <3>1
    <3>2. CASE o # w
      <4>1. writing[o] \in WriteRecord /\ writing[o].key \in StateKeys
        BY <1>4, <2>2, <3>2, WriterAtWork DEF StateInv, WriteRecord
      <4>2. writing[o].expected \in 1..version[writing[o].key]
        BY <1>4, <2>2, <3>2 DEF StateInv, ExpectsVersion
      <4> QED BY <1>4, <2>1, <3>2, <4>1, <4>2
    <3> QED BY <3>1, <3>2
  <2> QED BY <1>3, <1>4, <2>2 DEF StateInv, ExpectsVersion
<1>7. CellsCounted'
  <2>1. Cells' = Cells \cup {k} /\ (k \in Cells <=> version[k] # 0)
    BY <1>1, <1>4, SMTT(30) DEF Cells, Exists, StateInv, StateTypeOK
  <2>2. IsFiniteSet(Cells) /\ Cardinality(Cells) \in Nat /\ Cardinality(Cells) <= StateCap
    BY FS_CardinalityType DEF StateInv, CellsCounted
  <2>3. /\ IsFiniteSet(Cells \cup {k})
        /\ Cardinality(Cells \cup {k}) =
             IF k \in Cells THEN Cardinality(Cells) ELSE Cardinality(Cells) + 1
    BY <2>2, FS_AddElement
  <2>4. IsFiniteSet(Cells') /\ Cardinality(Cells') <= StateCap
    BY <2>1, <2>2, <2>3
  <2>5. \A j \in StateKeys : Exists(j) => Exists(j)'
    BY <1>1, <1>4 DEF Exists
  <2>6. ASSUME NEW o \in Writers
        PROVE  /\ writing'[o].pc = "count" => stateLock' = o
               /\ writing'[o].pc = "create" =>
                     \/ Exists(writing[o].key)'
                     \/ stateLock' = o /\ Cardinality(Cells') < StateCap
    <3>1. CASE o = w
      BY <1>3, <1>4, <3>1
    <3>2. CASE o # w
      <4>1. writing'[o] = writing[o] /\ (stateLock = o => stateLock' = o)
        BY <1>4, <3>2
      <4>2. ASSUME writing[o].pc = "create"
            PROVE  \/ Exists(writing[o].key)'
                   \/ stateLock' = o /\ Cardinality(Cells') < StateCap
        <5>1. writing[o].key \in StateKeys
          BY <4>2, WriterAtWork DEF StateInv, WriteRecord
        <5>2. CASE Exists(writing[o].key)
          <6>1. \A j \in StateKeys : version[j] > 0 => version'[j] > 0
            BY <2>5 DEF Exists
          <6>2. version'[writing[o].key] > 0
            BY <5>1, <5>2, <6>1 DEF Exists
          <6> QED BY <4>1, <6>2 DEF Exists
        <5>3. CASE ~Exists(writing[o].key)
          <6>1. stateLock = o /\ Cardinality(Cells) < StateCap
            BY <4>2, <5>3 DEF StateInv, CellsCounted
          <6>2. version[k] # 0
            BY <3>2, <6>1
          <6>3. Cells' = Cells
            BY <2>1, <6>2
          <6> QED BY <4>1, <6>1, <6>3
        <5> QED BY <5>2, <5>3
      <4> QED BY <4>1, <4>2 DEF StateInv, CellsCounted
    <3> QED BY <3>1, <3>2
  <2>7. \A o \in Writers : writing'[o].pc = "create" => writing'[o].key = writing[o].key
    BY <1>3, <1>4
  <2> QED BY <2>4, <2>6, <2>7 DEF CellsCounted, Exists
<1>8. LinkedOnce'
  <2> SUFFICES ASSUME NEW j \in StateKeys, NEW u \in 1..MaxVersion
               PROVE  stateLinks[j][u] + Cardinality(Linking(j, u)') + Bit(<<j, u>> \in unlinked)
                        = Bit(u <= version'[j])
    BY DEF LinkedOnce
  <2> DEFINE n == Cardinality(Linking(j, u))
  <2>1. /\ n \in Nat
        /\ Cardinality(Linking(j, u)') = n + Bit(c.pc = "link" /\ c.key = j /\ c.expected = u)
                                           - Bit(w \in Linking(j, u))
    BY <1>2, <1>3, OneWriteMoves, ZenonT(30) DEF StateInv
  <2>2. stateLinks[j][u] + n + Bit(<<j, u>> \in unlinked) = Bit(u <= version[j])
    BY DEF StateInv, LinkedOnce
  <2>3. w \notin Linking(j, u)
    BY DEF Linking
  <2> HIDE DEF n
  <2>4. stateLinks[j][u] \in Nat /\ version[j] \in Nat /\ u \in Nat
    BY DEF StateInv, StateTypeOK
  <2>5. CASE j = k
    <3>1. version'[j] = version[j] + 1 /\ v = version[j] + 1
      BY <1>4, <2>5
    <3>2. /\ stateLinks[j][u] + n + Bit(<<j, u>> \in unlinked) = Bit(u <= version[j])
          /\ Cardinality(Linking(j, u)') = n + Bit(u = v)
      BY <1>3, <2>1, <2>2, <2>3, <2>5 DEF Bit
    <3>3. Bit(u <= version'[j]) = Bit(u <= version[j]) + Bit(u = v)
      BY <2>4, <3>1 DEF Bit
    <3>4. Bit(<<j, u>> \in unlinked) \in Nat /\ Bit(u = v) \in Nat
      BY DEF Bit
    <3> QED BY <2>1, <2>4, <3>2, <3>3, <3>4
  <2>6. CASE j # k
    BY <1>3, <1>4, <2>1, <2>2, <2>3, <2>4, <2>6 DEF Bit
  <2> QED BY <2>5, <2>6
<1>9. NoLostUpdate'
  <2>1. ASSUME NEW j \in StateKeys, j # k PROVE made'[j] = {<<u - 1, u>> : u \in 1..version'[j]}
    BY <1>1, <1>2, <1>4, <2>1 DEF StateInv, NoLostUpdate, StateTypeOK
  <2>2. made'[k] = {<<u - 1, u>> : u \in 1..v}
    <3>1. made'[k] = {<<u - 1, u>> : u \in 1..version[k]} \cup {<<version[k], v>>}
      BY <1>1, <1>2 DEF StateInv, NoLostUpdate, StateTypeOK
    <3>2. 1..v = 1..version[k] \cup {v} /\ v - 1 = version[k]
      BY <1>1
    <3> QED BY <3>1, <3>2
  <2> QED BY <1>4, <2>1, <2>2 DEF NoLostUpdate
<1> QED BY <1>5, <1>6, <1>7, <1>8, <1>9 DEF StateInv

\* Every step of the writers keeps StateInv.
LEMMA StateStep == StateInv /\ [StateNext]_stateVars => StateInv'
<1> SUFFICES ASSUME StateInv, [StateNext]_stateVars PROVE StateInv'
  OBVIOUS
<1> USE StateAssumption
<1>0. StateTypeOK /\ stateLock \in Writers \cup {NoWriter}
      /\ known \in [Writers -> [StateKeys -> 0..MaxVersion]]
      /\ version \in [StateKeys -> 0..MaxVersion]
  BY DEF StateInv, StateTypeOK
<1>1. ASSUME NEW w \in Writers, FreeCap(w)
      PROVE  /\ stateLock' \in Writers \cup {NoWriter}
             /\ \A o \in Writers : o # w => (stateLock = o => stateLock' = o)
  BY <1>0, <1>1 DEF FreeCap
\* A client is told the version of a key.
<1>2. ASSUME NEW w \in Writers, NEW k \in StateKeys, NEW v \in 0..MaxVersion
      PROVE  [known EXCEPT ![w][k] = v] \in [Writers -> [StateKeys -> 0..MaxVersion]]
  BY <1>0
<1>3. ASSUME NEW w \in Writers, NEW k \in StateKeys, read_state(w, k) PROVE StateInv'
  <2>1. /\ known' = [known EXCEPT ![w][k] = version[k]] /\ version[k] \in 0..MaxVersion
        /\ UNCHANGED <<version, made, stateLock, writing, stateLinks, unlinked>>
    BY <1>0, <1>3 DEF read_state
  <2>2. known' \in [Writers -> [StateKeys -> 0..MaxVersion]]
    BY <1>2, <2>1
  <2>3. StateTypeOK'
    BY <2>1, <2>2 DEF StateInv, StateTypeOK
  <2> QED BY <2>1, <2>3 DEF StateInv, ExpectsVersion, CellsCounted, Cells, Exists, LinkedOnce,
                            Linking, NoLostUpdate
<1>4. ASSUME NEW w \in Writers, NEW k \in StateKeys, write_state(w, k) PROVE StateInv'
  <2> DEFINE c == [pc |-> IF known[w][k] = 0 THEN "check" ELSE "update",
                   key |-> k, expected |-> known[w][k]]
  <2>1. /\ writing[w] = Waiting /\ known[w][k] < MaxVersion
        /\ writing' = [writing EXCEPT ![w] = c]
        /\ UNCHANGED <<version, made, stateLock, known, stateLinks, unlinked>>
    BY <1>4 DEF write_state
  <2>2. known[w][k] \in 0..MaxVersion /\ writing[w].pc = "idle"
    BY <1>0, <2>1, WriterAtWork
  <2>3. /\ c \in WriteRecord /\ c.expected < MaxVersion /\ c.pc \in {"check", "update"}
        /\ c.pc = "check" => c.expected = 0
        /\ c.pc = "update" => c.expected > 0
    BY <2>1, <2>2 DEF WriteRecord
  <2>4. c \in WriteState
    BY <2>3 DEF WriteState
  <2> HIDE DEF c
  <2> QED BY <1>0, <2>1, <2>2, <2>3, <2>4, StateFrame
<1>5. ASSUME NEW w \in Writers, NEW p \in {"create", "lock"}, WriteGoTo(w, p),
             writing[w].pc = "check", p = "create" => Exists(writing[w].key),
             UNCHANGED <<version, made, stateLock, known, stateLinks, unlinked>>
      PROVE  StateInv'
  <2>1. writing[w] \in WriteRecord /\ writing[w].expected = 0 /\ 0 < MaxVersion
    BY <1>0, <1>5, WriterAtWork DEF StateInv, ExpectsVersion
  <2>2. PICK c \in WriteRecord : /\ writing' = [writing EXCEPT ![w] = c]
                                 /\ c.pc = p /\ c.key = writing[w].key
                                 /\ c.expected = writing[w].expected
    BY <1>0, <1>5, <2>1, WriterMoves
  <2>3. c \in WriteState
    BY DEF WriteState
  <2> QED BY <1>0, <1>5, <2>1, <2>2, <2>3, StateFrame
<1>6. ASSUME NEW w \in Writers, get_agent_state(w) PROVE StateInv'
  BY <1>5, <1>6 DEF get_agent_state
<1>7. ASSUME NEW w \in Writers, lock_messaging_state_key_cap(w) PROVE StateInv'
  <2>1. /\ writing[w].pc = "lock" /\ stateLock = NoWriter /\ stateLock' = w
        /\ WriteGoTo(w, "count")
        /\ UNCHANGED <<version, made, known, stateLinks, unlinked>>
    BY <1>7 DEF lock_messaging_state_key_cap
  <2>2. writing[w] \in WriteRecord /\ writing[w].expected = 0 /\ 0 < MaxVersion
    BY <1>0, <2>1, WriterAtWork DEF StateInv, ExpectsVersion
  <2>3. PICK c \in WriteRecord : /\ writing' = [writing EXCEPT ![w] = c]
                                 /\ c.pc = "count" /\ c.key = writing[w].key
                                 /\ c.expected = writing[w].expected
    BY <1>0, <2>1, <2>2, WriterMoves
  <2>4. c \in WriteState
    BY DEF WriteState
  <2> QED BY <1>0, <2>1, <2>2, <2>3, <2>4, StateFrame
<1>8. ASSUME NEW w \in Writers, count_agent_state_keys(w) PROVE StateInv'
  <2>1. /\ writing[w].pc = "count"
        /\ UNCHANGED <<version, made, known, stateLinks, unlinked>>
    BY <1>8 DEF count_agent_state_keys
  <2>2. Cardinality(Cells) \in Nat /\ stateLock = w
    BY <2>1, FS_CardinalityType DEF StateInv, CellsCounted
  <2>3. CASE Cardinality(Cells) >= StateCap
    <3>1. writing' = [writing EXCEPT ![w] = Waiting] /\ FreeCap(w)
      BY <1>8, <2>3 DEF count_agent_state_keys, Cells
    <3> QED BY <1>0, <1>1, <2>1, <3>1, StateFrame, WriterAtWork
  <2>4. CASE ~(Cardinality(Cells) >= StateCap)
    <3>1. WriteGoTo(w, "create") /\ UNCHANGED stateLock
      BY <1>8, <2>4 DEF count_agent_state_keys, Cells
    <3>2. writing[w] \in WriteRecord /\ writing[w].expected = 0 /\ 0 < MaxVersion
      BY <1>0, <2>1, WriterAtWork DEF StateInv, ExpectsVersion
    <3>3. PICK c \in WriteRecord : /\ writing' = [writing EXCEPT ![w] = c]
                                   /\ c.pc = "create" /\ c.key = writing[w].key
                                   /\ c.expected = writing[w].expected
      BY <1>0, <3>1, <3>2, WriterMoves
    <3>4. c \in WriteState /\ Cardinality(Cells) < StateCap
      BY <2>2, <2>4 DEF WriteState
    <3> QED BY <1>0, <2>1, <2>2, <3>1, <3>2, <3>3, <3>4, StateFrame
  <2> QED BY <2>3, <2>4
\* The write lost the race.
<1>9. ASSUME NEW w \in Writers, writing[w].pc \in {"create", "update"}, WriteGoTo(w, "conflict"),
             stateLock' \in Writers \cup {NoWriter},
             \A o \in Writers : o # w => (stateLock = o => stateLock' = o),
             UNCHANGED <<version, made, known, stateLinks, unlinked>>
      PROVE  StateInv'
  <2>1. writing[w] \in WriteRecord
    BY <1>0, <1>9, WriterAtWork
  <2>2. PICK c \in WriteRecord : writing' = [writing EXCEPT ![w] = c] /\ c.pc = "conflict"
    BY <1>0, <1>9, <2>1, WriterMoves
  <2>3. c \in WriteState
    BY DEF WriteState
  <2> QED BY <1>0, <1>9, <2>1, <2>2, <2>3, StateFrame
<1>10. ASSUME NEW w \in Writers, create_agent_state_if_absent(w) PROVE StateInv'
  <2> DEFINE k == writing[w].key
  <2>1. /\ writing[w].pc = "create" /\ FreeCap(w) /\ UNCHANGED <<known, stateLinks, unlinked>>
    BY <1>10 DEF create_agent_state_if_absent
  <2>2. writing[w].expected = 0 /\ k \in StateKeys /\ version[k] \in 0..MaxVersion
    BY <1>0, <2>1, WriterAtWork DEF StateInv, ExpectsVersion, WriteRecord
  <2>3. CASE Exists(k)
    <3>1. WriteGoTo(w, "conflict") /\ UNCHANGED <<version, made>>
      BY <1>10, <2>3 DEF create_agent_state_if_absent
    <3> QED BY <1>1, <1>9, <2>1, <3>1
  <2>4. CASE ~Exists(k)
    <3>1. Store(w, k, 1)
      BY <1>10, <2>4 DEF create_agent_state_if_absent
    <3>2. version[k] = 0 /\ 1 = version[k] + 1
      BY <2>2, <2>4 DEF Exists
    <3>3. stateLock = w /\ Cardinality(Cells) < StateCap
      BY <2>1, <2>4 DEF StateInv, CellsCounted
    <3> QED BY <1>1, <2>1, <2>2, <3>1, <3>2, <3>3, StoreKeeps
  <2> QED BY <2>3, <2>4
<1>11. ASSUME NEW w \in Writers, update_agent_state_cas(w) PROVE StateInv'
  <2> DEFINE k == writing[w].key
  <2>1. writing[w].pc = "update" /\ UNCHANGED <<stateLock, known, stateLinks, unlinked>>
    BY <1>11 DEF update_agent_state_cas
  <2>2. CASE version[k] = writing[w].expected
    <3>1. Store(w, k, version[k] + 1)
      BY <1>11, <2>2 DEF update_agent_state_cas
    <3>2. writing[w].expected > 0 /\ version[k] # 0
      BY <2>1, <2>2 DEF StateInv, ExpectsVersion
    <3> QED BY <1>0, <2>1, <2>2, <3>1, <3>2, StoreKeeps
  <2>3. CASE version[k] # writing[w].expected
    <3>1. WriteGoTo(w, "conflict") /\ UNCHANGED <<version, made>>
      BY <1>11, <2>3 DEF update_agent_state_cas
    <3> QED BY <1>0, <1>9, <2>1, <3>1
  <2> QED BY <2>2, <2>3
<1>12. ASSUME NEW w \in Writers, AnswerConflict(w) PROVE StateInv'
  <2> DEFINE k == writing[w].key
  <2>1. /\ writing[w].pc = "conflict" /\ writing' = [writing EXCEPT ![w] = Waiting]
        /\ known' = [known EXCEPT ![w][k] = version[k]]
        /\ UNCHANGED <<version, made, stateLock, stateLinks, unlinked>>
    BY <1>12 DEF AnswerConflict
  <2>2. k \in StateKeys /\ version[k] \in 0..MaxVersion
    BY <1>0, <2>1, WriterAtWork DEF WriteRecord
  <2>3. known' \in [Writers -> [StateKeys -> 0..MaxVersion]]
    BY <1>2, <2>1, <2>2
  <2> QED BY <1>0, <2>1, <2>3, StateFrame, WriterAtWork
\* A writer leaves its link: it has made it, or it has died.
<1>13. ASSUME NEW w \in Writers, NEW k, NEW v, writing[w].pc = "link",
              k = writing[w].key, v = writing[w].expected,
              writing' = [writing EXCEPT ![w] = Waiting],
              UNCHANGED <<version, made>>,
              known' \in [Writers -> [StateKeys -> 0..MaxVersion]],
              stateLock' \in Writers \cup {NoWriter},
              \A o \in Writers : o # w => (stateLock = o => stateLock' = o),
              \/ stateLinks' = [stateLinks EXCEPT ![k][v] = @ + 1] /\ UNCHANGED unlinked
              \/ unlinked' = unlinked \cup {<<k, v>>} /\ UNCHANGED stateLinks
       PROVE  StateInv'
  <2>1. /\ Waiting \in WriteState /\ Waiting.pc = "idle"
        /\ k \in StateKeys /\ v \in 1..version[k] /\ version[k] \in 0..MaxVersion
    BY <1>0, <1>13, WriterAtWork DEF StateInv, ExpectsVersion, WriteRecord
  <2>2. v \in 1..MaxVersion
    BY <2>1
  <2>3. writing'[w] = Waiting /\ \A o \in Writers : o # w => writing'[o] = writing[o]
    BY <1>0, <1>13 DEF StateTypeOK
  <2>4. ASSUME NEW j \in StateKeys, NEW u \in 1..MaxVersion
        PROVE  /\ Cardinality(Linking(j, u)) \in Nat /\ Cardinality(Linking(j, u)') \in Nat
               /\ Cardinality(Linking(j, u)') = Cardinality(Linking(j, u)) - Bit(j = k /\ u = v)
    <3>1. PICK c \in WriteState : c.pc = "idle" /\ writing' = [writing EXCEPT ![w] = c]
      BY <1>13, <2>1
    <3>2. /\ Cardinality(Linking(j, u)) \in Nat /\ Cardinality(Linking(j, u)') \in Nat
          /\ Cardinality(Linking(j, u)') = Cardinality(Linking(j, u))
               + Bit(c.pc = "link" /\ c.key = j /\ c.expected = u) - Bit(w \in Linking(j, u))
      BY <1>0, <3>1, OneWriteMoves, ZenonT(30)
    <3>3. w \in Linking(j, u) <=> j = k /\ u = v
      BY <1>13 DEF Linking
    <3> QED BY <3>1, <3>2, <3>3 DEF Bit
  <2>5. <<k, v>> \notin unlinked
    <3>1. stateLinks[k][v] + Cardinality(Linking(k, v)) + Bit(<<k, v>> \in unlinked)
            = Bit(v <= version[k])
      BY <2>1, <2>2 DEF StateInv, LinkedOnce
    <3>2. Cardinality(Linking(k, v)) >= 1 /\ Cardinality(Linking(k, v)) \in Nat
      BY <2>1, <2>2, <2>4 DEF Bit
    <3>3. stateLinks[k][v] \in Nat
      BY <1>0, <2>1, <2>2 DEF StateTypeOK
    <3> QED BY <3>1, <3>2, <3>3 DEF Bit
  <2>6. /\ stateLinks' \in [StateKeys -> [1..MaxVersion -> Nat]]
        /\ unlinked' \subseteq StateKeys \X (1..MaxVersion)
        /\ \A j \in StateKeys, u \in 1..MaxVersion :
              stateLinks'[j][u] + Bit(<<j, u>> \in unlinked')
                = stateLinks[j][u] + Bit(<<j, u>> \in unlinked) + Bit(j = k /\ u = v)
    <3>1. stateLinks \in [StateKeys -> [1..MaxVersion -> Nat]]
          /\ unlinked \subseteq StateKeys \X (1..MaxVersion)
      BY <1>0 DEF StateTypeOK
    <3>2. CASE stateLinks' = [stateLinks EXCEPT ![k][v] = @ + 1] /\ UNCHANGED unlinked
      <4>1. /\ stateLinks' \in [StateKeys -> [1..MaxVersion -> Nat]]
            /\ stateLinks'[k][v] = stateLinks[k][v] + 1
            /\ \A j \in StateKeys, u \in 1..MaxVersion :
                  j # k \/ u # v => stateLinks'[j][u] = stateLinks[j][u]
        BY <2>1, <2>2, <3>1, <3>2
      <4>2. \A j \in StateKeys, u \in 1..MaxVersion :
               stateLinks[j][u] \in Nat /\ stateLinks'[j][u] \in Nat
        BY <3>1, <4>1
      <4> QED BY <2>1, <2>2, <3>1, <3>2, <4>1, <4>2, SMTT(30) DEF Bit
    <3>3. CASE unlinked' = unlinked \cup {<<k, v>>} /\ UNCHANGED stateLinks
      <4>1. \A j \in StateKeys, u \in 1..MaxVersion : stateLinks[j][u] \in Nat
        BY <3>1
      <4>2. \A j, u : <<j, u>> \in unlinked' <=> <<j, u>> \in unlinked \/ (j = k /\ u = v)
        BY <3>3
      <4>3. unlinked' \subseteq StateKeys \X (1..MaxVersion)
        BY <2>1, <2>2, <3>1, <3>3
      <4>4. ASSUME NEW j \in StateKeys, NEW u \in 1..MaxVersion
            PROVE  stateLinks'[j][u] + Bit(<<j, u>> \in unlinked')
                     = stateLinks[j][u] + Bit(<<j, u>> \in unlinked) + Bit(j = k /\ u = v)
        BY <2>5, <3>3, <4>1, <4>2 DEF Bit
      <4> QED BY <3>1, <3>3, <4>3, <4>4
    <3> QED BY <1>13, <3>2, <3>3
  <2>7. StateTypeOK'
    BY <1>0, <1>13, <2>1, <2>6 DEF StateTypeOK
  <2>8. ExpectsVersion'
    BY <1>13, <2>1, <2>3 DEF StateInv, ExpectsVersion
  <2>9. CellsCounted'
    BY <1>13, <2>1, <2>3 DEF StateInv, CellsCounted, Cells, Exists
  <2>10. LinkedOnce'
    <3> SUFFICES ASSUME NEW j \in StateKeys, NEW u \in 1..MaxVersion
                 PROVE  stateLinks'[j][u] + Cardinality(Linking(j, u)') + Bit(<<j, u>> \in unlinked')
                          = Bit(u <= version'[j])
      BY DEF LinkedOnce
    <3>1. stateLinks[j][u] + Cardinality(Linking(j, u)) + Bit(<<j, u>> \in unlinked)
            = Bit(u <= version[j])
      BY DEF StateInv, LinkedOnce
    <3>2. stateLinks'[j][u] \in Nat /\ stateLinks[j][u] \in Nat
      BY <1>0, <2>6 DEF StateTypeOK
    <3>3. Bit(<<j, u>> \in unlinked) \in Nat /\ Bit(<<j, u>> \in unlinked') \in Nat
          /\ Bit(j = k /\ u = v) \in Nat
      BY DEF Bit
    <3>4. stateLinks'[j][u] + Bit(<<j, u>> \in unlinked')
            = stateLinks[j][u] + Bit(<<j, u>> \in unlinked) + Bit(j = k /\ u = v)
      BY <2>6
    <3>5. version'[j] = version[j]
      BY <1>13
    <3>6. /\ Cardinality(Linking(j, u)) \in Nat
          /\ Cardinality(Linking(j, u)') = Cardinality(Linking(j, u)) - Bit(j = k /\ u = v)
      BY <2>4
    <3>7. \A L, M, n, x, y, t \in Int : M + y = L + x + t => M + (n - t) + y = L + n + x
      OBVIOUS
    <3>8. stateLinks'[j][u] + Cardinality(Linking(j, u)') + Bit(<<j, u>> \in unlinked')
            = stateLinks[j][u] + Cardinality(Linking(j, u)) + Bit(<<j, u>> \in unlinked)
      BY <3>2, <3>3, <3>4, <3>6, <3>7
    <3> QED BY <3>1, <3>5, <3>8
  <2>11. NoLostUpdate'
    BY <1>13 DEF StateInv, NoLostUpdate
  <2> QED BY <2>7, <2>8, <2>9, <2>10, <2>11 DEF StateInv
<1>14. ASSUME NEW w \in Writers, append_state_audit_link(w) PROVE StateInv'
  <2>1. /\ writing[w].pc = "link" /\ writing' = [writing EXCEPT ![w] = Waiting]
        /\ stateLinks' = [stateLinks EXCEPT ![writing[w].key][writing[w].expected] = @ + 1]
        /\ known' = [known EXCEPT ![w][writing[w].key] = writing[w].expected]
        /\ UNCHANGED <<version, made, stateLock, unlinked>>
    BY <1>14 DEF append_state_audit_link
  <2>2. writing[w].key \in StateKeys /\ writing[w].expected \in 0..MaxVersion
    BY <1>0, <2>1, WriterAtWork DEF WriteRecord
  <2>3. known' \in [Writers -> [StateKeys -> 0..MaxVersion]]
    BY <1>2, <2>1, <2>2
  <2> QED BY <1>0, <1>13, <2>1, <2>3
<1>15. ASSUME NEW w \in Writers, WriteFails(w) PROVE StateInv'
  <2>1. /\ writing[w] # Waiting /\ writing' = [writing EXCEPT ![w] = Waiting] /\ FreeCap(w)
        /\ unlinked' = IF writing[w].pc = "link"
                       THEN unlinked \cup {<<writing[w].key, writing[w].expected>>} ELSE unlinked
        /\ UNCHANGED <<version, made, known, stateLinks>>
    BY <1>15 DEF WriteFails
  <2>2. CASE writing[w].pc = "link"
    <3>1. unlinked' = unlinked \cup {<<writing[w].key, writing[w].expected>>}
      BY <2>1, <2>2
    <3> QED BY <1>0, <1>1, <1>13, <2>1, <2>2, <3>1
  <2>3. CASE writing[w].pc # "link"
    <3>1. UNCHANGED unlinked
      BY <2>1, <2>3
    <3> QED BY <1>0, <1>1, <2>1, <2>3, <3>1, StateFrame, WriterAtWork
  <2> QED BY <2>2, <2>3
<1>16. CASE UNCHANGED stateVars
  BY <1>16 DEF stateVars, StateInv, StateTypeOK, ExpectsVersion, CellsCounted, Cells, Exists,
               LinkedOnce, Linking, NoLostUpdate
<1> QED BY <1>3, <1>4, <1>6, <1>7, <1>8, <1>10, <1>11, <1>12, <1>14, <1>15, <1>16 DEF StateNext

\* What StateInv says of the cells.
LEMMA StateInvExact == StateInv => CellsAreExact
<1> SUFFICES ASSUME StateInv PROVE LinkedVersions /\ KeysWithinCap
  BY DEF StateInv, CellsAreExact
<1>1. KeysWithinCap
  BY DEF StateInv, CellsCounted, Cells, KeysWithinCap
<1>2. ASSUME NEW k \in StateKeys, NEW v \in 1..MaxVersion
      PROVE  stateLinks[k][v] + Cardinality(Linking(k, v)) + Cardinality({x \in unlinked : x = <<k, v>>})
               = IF v <= version[k] THEN 1 ELSE 0
  <2> DEFINE dropped == {x \in unlinked : x = <<k, v>>}
  <2>1. Cardinality(dropped) = Bit(<<k, v>> \in unlinked)
    <3>1. CASE <<k, v>> \in unlinked
      <4>1. dropped = {<<k, v>>}
        BY <3>1
      <4>2. Cardinality({<<k, v>>}) = 1
        BY FS_Singleton
      <4> QED BY <3>1, <4>1, <4>2 DEF Bit
    <3>2. CASE <<k, v>> \notin unlinked
      <4>1. dropped = {}
        BY <3>2
      <4> QED BY <3>2, <4>1, FS_EmptySet DEF Bit
    <3> QED BY <3>1, <3>2
  <2> HIDE DEF dropped
  <2>2. stateLinks[k][v] + Cardinality(Linking(k, v)) + Cardinality(dropped)
          = IF v <= version[k] THEN 1 ELSE 0
    BY <2>1 DEF StateInv, LinkedOnce, Bit
  <2> QED BY <2>2 DEF dropped
<1> QED BY <1>1, <1>2 DEF LinkedVersions, Linking

-----------------------------------------------------------------------------
(* The Orchestrator's agent mailbox *)

SendRecord == [pc : {"check", "lock", "count", "insert", "commit", "sent", "deduped", "capped"},
               key : MailKeys, seq : Nat]
SendState == {Resting} \cup SendRecord

MailTypeOK ==
    /\ mail \subseteq [key : MailKeys, seq : Nat]
    /\ mailSeq \in Nat
    /\ mailLock \in Senders \cup {NoSender}
    /\ sending \in [Senders -> SendState]
    /\ mailLinks \in [MailKeys -> Seq({"sent", "deduped"})]
    /\ polledTo \in Nat

\* One row per key, numbered below the next number, as is the poller's cursor.
MailNumbered ==
    /\ IsFiniteSet(mail) /\ Cardinality(mail) <= MailCap
    /\ \A m, n \in mail : m.key = n.key => m = n
    /\ \A m \in mail : m.seq < mailSeq
    /\ polledTo < mailSeq
    /\ \A a \in told : \E m \in mail : a = <<m.key, m.seq>>

\* A send holds the cap lock from its count to its commit, so there is still room, and
\* the number it drew is above every committed one and above the cursor.
MailCounted ==
    \A s \in Senders :
        /\ sending[s].pc \in {"count", "insert", "commit", "capped"} => mailLock = s
        /\ sending[s].pc \in {"insert", "commit"} => Cardinality(mail) < MailCap
        /\ sending[s].pc = "commit" =>
              /\ \A m \in mail : m.key # sending[s].key /\ m.seq < sending[s].seq
              /\ polledTo < sending[s].seq /\ sending[s].seq < mailSeq

SentLinks(k) == {i \in DOMAIN mailLinks[k] : mailLinks[k][i] = "sent"}

\* A "sent" link, and a send about to write one, is of a stored message, and there is
\* only one of both.
SentOnce ==
    /\ \A k \in MailKeys :
          /\ \A i, j \in SentLinks(k) : i = j
          /\ SentLinks(k) # {} => \E m \in mail : m.key = k
    /\ \A s \in Senders : sending[s].pc = "sent" =>
          /\ SentLinks(sending[s].key) = {}
          /\ \E m \in mail : m.key = sending[s].key
          /\ \A o \in Senders : sending[o].pc = "sent" /\ sending[o].key = sending[s].key => o = s

MailInv == MailTypeOK /\ MailNumbered /\ MailCounted /\ SentOnce /\ InboxMissesNothing

\* At the start there is no message.
LEMMA MailStart == MailInit => MailInv
<1> SUFFICES ASSUME MailInit PROVE MailInv
  OBVIOUS
<1> USE MailAssumption
<1>1. MailTypeOK
  BY DEF MailInit, MailTypeOK, SendState
<1>2. \A s \in Senders : sending[s].pc = "idle"
  BY DEF MailInit, Resting
<1>3. MailNumbered
  BY FS_EmptySet DEF MailInit, MailNumbered
<1>4. MailCounted
  BY <1>2 DEF MailCounted
<1>5. SentOnce
  <2>1. \A k \in MailKeys : SentLinks(k) = {}
    BY DEF MailInit, SentLinks
  <2> QED BY <1>2, <2>1 DEF SentOnce
<1>6. InboxMissesNothing
  BY DEF MailInit, InboxMissesNothing
<1> QED BY <1>1, <1>3, <1>4, <1>5, <1>6 DEF MailInv

\* A sender that is not resting has a record of its request.
LEMMA SenderAtWork ==
    ASSUME MailTypeOK, NEW s \in Senders
    PROVE  /\ Resting \in SendState /\ Resting.pc = "idle"
           /\ sending[s].pc # "idle" => sending[s] \in SendRecord
           /\ sending[s] # Resting => sending[s] \in SendRecord
           /\ SendRecord \subseteq SendState
BY DEF MailTypeOK, SendState, SendRecord, Resting

\* The request of s moves to another place and keeps its key and number.
LEMMA SenderMoves ==
    ASSUME MailTypeOK, NEW s \in Senders, sending[s] \in SendRecord,
           NEW p \in {"check", "lock", "count", "insert", "commit", "sent", "deduped", "capped"},
           SendGoTo(s, p)
    PROVE  \E c \in SendRecord : /\ sending' = [sending EXCEPT ![s] = c]
                                 /\ c.pc = p /\ c.key = sending[s].key /\ c.seq = sending[s].seq
<1> DEFINE c == [sending[s] EXCEPT !.pc = p]
<1>1. c \in SendRecord /\ c.pc = p /\ c.key = sending[s].key /\ c.seq = sending[s].seq
  BY DEF SendRecord
<1>2. sending' = [sending EXCEPT ![s] = c]
  BY DEF SendGoTo
<1> HIDE DEF c
<1> QED BY <1>1, <1>2

\* The steps of a send that store nothing and link nothing.
LEMMA MailFrame ==
    ASSUME MailInv, NEW s \in Senders, NEW c \in SendState,
           sending' = [sending EXCEPT ![s] = c], c.pc # "sent",
           UNCHANGED <<mail, mailLinks, told, polledTo, polled>>,
           mailSeq' \in Nat, mailSeq <= mailSeq', mailLock' \in Senders \cup {NoSender},
           \A o \in Senders : o # s => (mailLock = o => mailLock' = o),
           c.pc \in {"count", "insert", "commit", "capped"} => mailLock' = s,
           c.pc \in {"insert", "commit"} => Cardinality(mail) < MailCap,
           c.pc = "commit" => /\ \A m \in mail : m.key # c.key /\ m.seq < c.seq
                              /\ polledTo < c.seq /\ c.seq < mailSeq'
    PROVE  MailInv'
<1>1. sending'[s] = c /\ \A o \in Senders : o # s => sending'[o] = sending[o]
  BY DEF MailInv, MailTypeOK
<1>2. MailTypeOK'
  BY DEF MailInv, MailTypeOK
<1>3. /\ mailSeq \in Nat /\ polledTo \in Nat /\ \A m \in mail : m.seq \in Nat
      /\ \A o \in Senders : sending[o].pc = "commit" => sending[o].seq \in Nat
  BY SenderAtWork DEF MailInv, MailTypeOK, SendRecord
<1>4. MailNumbered'
  <2>1. \A m \in mail : m.seq < mailSeq'
    BY <1>3 DEF MailInv, MailNumbered
  <2>2. polledTo < mailSeq'
    BY <1>3 DEF MailInv, MailNumbered
  <2> QED BY <2>1, <2>2 DEF MailInv, MailNumbered
<1>5. MailCounted'
  <2> SUFFICES ASSUME NEW o \in Senders
               PROVE  /\ sending'[o].pc \in {"count", "insert", "commit", "capped"} => mailLock' = o
                      /\ sending'[o].pc \in {"insert", "commit"} => Cardinality(mail) < MailCap
                      /\ sending'[o].pc = "commit" =>
                            /\ \A m \in mail : m.key # sending'[o].key /\ m.seq < sending'[o].seq
                            /\ polledTo < sending'[o].seq /\ sending'[o].seq < mailSeq'
    BY DEF MailCounted
  <2>1. CASE o = s
    BY <1>1, <2>1
  <2>2. CASE o # s
    <3>1. sending'[o] = sending[o] /\ (mailLock = o => mailLock' = o)
      BY <1>1, <2>2
    <3>2. sending[o].pc = "commit" => sending[o].seq < mailSeq'
      BY <1>3 DEF MailInv, MailCounted
    <3> QED BY <3>1, <3>2 DEF MailInv, MailCounted
  <2> QED BY <2>1, <2>2
<1>6. SentOnce'
  BY <1>1 DEF MailInv, SentOnce, SentLinks
<1>7. InboxMissesNothing'
  BY DEF MailInv, InboxMissesNothing
<1> QED BY <1>2, <1>4, <1>5, <1>6, <1>7 DEF MailInv

\* A bounded set of numbers has a largest one, which Max returns.
LEMMA MaxOfBounded ==
    ASSUME NEW S, S \subseteq Nat, S # {}, NEW b \in Nat, \A x \in S : x < b
    PROVE  Max(S) \in S /\ \A x \in S : x <= Max(S)
<1> DEFINE D == {b - x : x \in S}
<1>1. D \subseteq Nat /\ D # {}
  <2>1. \A x \in S : b - x \in Nat
    OBVIOUS
  <2>2. PICK x : x \in S
    OBVIOUS
  <2>3. b - x \in D
    BY <2>2
  <2> QED BY <2>1, <2>3
<1>2. PICK d \in D : \A e \in D : d <= e
  BY <1>1, LeastNat
<1>3. PICK x \in S : d = b - x
  BY <1>2
<1>4. \A y \in S : x >= y
  BY <1>2, <1>3
<1>5. \E z \in S : \A y \in S : z >= y
  BY <1>4
<1>6. Max(S) \in S /\ \A y \in S : Max(S) >= y
  BY <1>5, Zenon DEF Max
<1> QED BY <1>6

\* Every step of senders and poller keeps MailInv.
LEMMA MailStep == MailInv /\ [MailNext]_mailVars => MailInv'
<1> SUFFICES ASSUME MailInv, [MailNext]_mailVars PROVE MailInv'
  OBVIOUS
<1> USE MailAssumption
<1>0. /\ MailTypeOK /\ mailLock \in Senders \cup {NoSender}
      /\ mailSeq \in Nat /\ polledTo \in Nat
      /\ \A m \in mail : m.seq \in Nat /\ m.key \in MailKeys
      /\ IsFiniteSet(mail) /\ Cardinality(mail) \in Nat /\ Cardinality(mail) <= MailCap
  BY FS_CardinalityType DEF MailInv, MailTypeOK, MailNumbered
<1>1. ASSUME NEW s \in Senders, Unlock(s)
      PROVE  /\ mailLock' \in Senders \cup {NoSender}
             /\ \A o \in Senders : o # s => (mailLock = o => mailLock' = o)
  BY <1>0, <1>1 DEF Unlock
\* A request goes to a place where it has stored nothing.
<1>2. ASSUME NEW s \in Senders, sending[s].pc # "idle",
             NEW p \in {"lock", "count", "insert", "deduped", "capped"}, SendGoTo(s, p),
             mailSeq' \in Nat, mailSeq <= mailSeq', mailLock' \in Senders \cup {NoSender},
             \A o \in Senders : o # s => (mailLock = o => mailLock' = o),
             p \in {"count", "insert", "capped"} => mailLock' = s,
             p = "insert" => Cardinality(mail) < MailCap,
             UNCHANGED <<mail, mailLinks, told, polledTo, polled>>
      PROVE  MailInv'
  <2>1. PICK c \in SendRecord : sending' = [sending EXCEPT ![s] = c] /\ c.pc = p
    BY <1>0, <1>2, SenderAtWork, SenderMoves
  <2>2. c \in SendState
    BY DEF SendState
  <2> QED BY <1>2, <2>1, <2>2, MailFrame
<1>3. ASSUME NEW s \in Senders, NEW k \in MailKeys, send_message(s, k) PROVE MailInv'
  <2> DEFINE c == [pc |-> "check", key |-> k, seq |-> 0]
  <2>1. /\ sending' = [sending EXCEPT ![s] = c]
        /\ UNCHANGED <<mail, mailSeq, mailLock, mailLinks, told, polledTo, polled>>
    BY <1>3 DEF send_message
  <2>2. c \in SendState /\ c.pc = "check"
    BY DEF SendState, SendRecord
  <2>3. /\ mailSeq' \in Nat /\ mailSeq <= mailSeq' /\ mailLock' \in Senders \cup {NoSender}
        /\ \A o \in Senders : o # s => (mailLock = o => mailLock' = o)
    BY <1>0, <2>1
  <2> HIDE DEF c
  <2>4. c.pc # "sent" /\ c.pc \notin {"count", "insert", "commit", "capped"}
    BY <2>2
  <2> QED BY <2>1, <2>2, <2>3, <2>4, MailFrame
<1>4. ASSUME NEW s \in Senders, get_agent_message_by_idempotency_key(s) PROVE MailInv'
  BY <1>0, <1>2, <1>4 DEF get_agent_message_by_idempotency_key
<1>5. ASSUME NEW s \in Senders, lock_messaging_message_cap(s) PROVE MailInv'
  BY <1>0, <1>2, <1>5 DEF lock_messaging_message_cap
<1>6. ASSUME NEW s \in Senders, count_agent_messages(s) PROVE MailInv'
  <2>1. /\ sending[s].pc = "count"
        /\ UNCHANGED <<mail, mailSeq, mailLock, mailLinks, told, polledTo, polled>>
    BY <1>6 DEF count_agent_messages
  <2>2. mailLock = s
    BY <2>1 DEF MailInv, MailCounted
  <2>3. CASE Cardinality(mail) >= MailCap
    <3>1. SendGoTo(s, "capped")
      BY <1>6, <2>3 DEF count_agent_messages
    <3> QED BY <1>0, <1>2, <2>1, <2>2, <3>1
  <2>4. CASE ~(Cardinality(mail) >= MailCap)
    <3>1. SendGoTo(s, "insert") /\ Cardinality(mail) < MailCap
      BY <1>0, <1>6, <2>4 DEF count_agent_messages
    <3> QED BY <1>0, <1>2, <2>1, <2>2, <3>1
  <2> QED BY <2>3, <2>4
<1>7. ASSUME NEW s \in Senders, insert_agent_message(s) PROVE MailInv'
  <2>1. /\ sending[s].pc = "insert" /\ mailSeq' = mailSeq + 1
        /\ UNCHANGED <<mail, mailLinks, told, polledTo, polled>>
    BY <1>7 DEF insert_agent_message
  <2>2. /\ mailLock = s /\ Cardinality(mail) < MailCap /\ sending[s] \in SendRecord
        /\ mailSeq' \in Nat /\ mailSeq <= mailSeq'
    BY <1>0, <2>1, SenderAtWork DEF MailInv, MailCounted
  <2>3. CASE MailOf(sending[s].key) = {}
    <3> DEFINE c == [sending[s] EXCEPT !.pc = "commit", !.seq = mailSeq]
    <3>1. sending' = [sending EXCEPT ![s] = c] /\ UNCHANGED mailLock
      BY <1>7, <2>3 DEF insert_agent_message
    <3>2. c \in SendRecord /\ c.pc = "commit" /\ c.key = sending[s].key /\ c.seq = mailSeq
      BY <1>0, <2>2 DEF SendRecord
    <3> HIDE DEF c
    <3>3. \A m \in mail : m.key # c.key /\ m.seq < c.seq
      BY <2>3, <3>2 DEF MailOf, MailInv, MailNumbered
    <3>4. polledTo < c.seq /\ c.seq < mailSeq'
      BY <1>0, <2>1, <3>2 DEF MailInv, MailNumbered
    <3>5. c \in SendState
      BY <3>2 DEF SendState
    <3> QED BY <1>0, <2>1, <2>2, <3>1, <3>2, <3>3, <3>4, <3>5, MailFrame
  <2>4. CASE MailOf(sending[s].key) # {}
    <3>1. SendGoTo(s, "deduped") /\ Unlock(s)
      BY <1>7, <2>4 DEF insert_agent_message
    <3> QED BY <1>1, <1>2, <2>1, <2>2, <3>1
  <2> QED BY <2>3, <2>4
<1>8. ASSUME NEW s \in Senders, CommitMessage(s) PROVE MailInv'
  <2> DEFINE k == sending[s].key
             new == [key |-> k, seq |-> sending[s].seq]
  <2>1. /\ sending[s].pc = "commit" /\ mail' = mail \cup {new}
        /\ Unlock(s) /\ SendGoTo(s, "sent")
        /\ UNCHANGED <<mailSeq, mailLinks, told, polledTo, polled>>
    BY <1>8 DEF CommitMessage
  <2>2. /\ sending[s] \in SendRecord /\ k \in MailKeys /\ sending[s].seq \in Nat
    BY <1>0, <2>1, SenderAtWork DEF SendRecord
  <2>3. /\ mailLock = s /\ Cardinality(mail) < MailCap
        /\ \A m \in mail : m.key # k /\ m.seq < new.seq
        /\ polledTo < new.seq /\ new.seq < mailSeq
    BY <2>1 DEF MailInv, MailCounted
  <2>4. new \in [key : MailKeys, seq : Nat] /\ new.key = k
    BY <2>2
  <2> HIDE DEF new
  <2>5. PICK c \in SendRecord : sending' = [sending EXCEPT ![s] = c] /\ c.pc = "sent" /\ c.key = k
    BY <1>0, <2>1, <2>2, SenderMoves
  <2>6. /\ c \in SendState /\ sending'[s] = c
        /\ \A o \in Senders : o # s => sending'[o] = sending[o]
    BY <1>0, <2>5 DEF SendState, MailTypeOK
  <2> HIDE DEF k
  <2>7. MailTypeOK'
    BY <1>0, <1>1, <2>1, <2>4, <2>5, <2>6 DEF MailTypeOK
  <2>8. MailNumbered'
    <3>1. /\ IsFiniteSet(mail \cup {new})
          /\ Cardinality(mail \cup {new}) =
               IF new \in mail THEN Cardinality(mail) ELSE Cardinality(mail) + 1
      BY <1>0, FS_AddElement
    <3>2. IsFiniteSet(mail') /\ Cardinality(mail') <= MailCap
      BY <1>0, <2>1, <2>3, <3>1
    <3>3. \A m, n \in mail' : m.key = n.key => m = n
      BY <2>1, <2>3, <2>4 DEF MailInv, MailNumbered
    <3>4. \A m \in mail' : m.seq < mailSeq
      BY <2>1, <2>3 DEF MailInv, MailNumbered
    <3> QED BY <2>1, <3>2, <3>3, <3>4 DEF MailInv, MailNumbered
  <2>9. MailCounted'
    <3>1. \A o \in Senders : sending'[o].pc \notin {"count", "insert", "commit", "capped"}
      BY <2>3, <2>5, <2>6 DEF MailInv, MailCounted
    <3> QED BY <3>1 DEF MailCounted
  <2>10. SentOnce'
    <3>1. SentLinks(k) = {} /\ \A o \in Senders : ~(sending[o].pc = "sent" /\ sending[o].key = k)
      BY <2>2, <2>3 DEF MailInv, SentOnce, k
    <3>2. \A j \in MailKeys : SentLinks(j)' = SentLinks(j)
      BY <2>1 DEF SentLinks
    <3>3. \A j \in MailKeys : /\ \A x, y \in SentLinks(j)' : x = y
                              /\ SentLinks(j)' # {} => \E m \in mail' : m.key = j
      BY <2>1, <3>2 DEF MailInv, SentOnce
    <3>4. ASSUME NEW o \in Senders, sending'[o].pc = "sent"
          PROVE  /\ {i \in DOMAIN mailLinks'[sending'[o].key] : mailLinks'[sending'[o].key][i] = "sent"} = {}
                 /\ \E m \in mail' : m.key = sending'[o].key
                 /\ \A q \in Senders : sending'[q].pc = "sent" /\ sending'[q].key = sending'[o].key => q = o
      <4>1. CASE o = s
        BY <2>1, <2>4, <2>5, <2>6, <3>1, <4>1 DEF SentLinks
      <4>2. CASE o # s
        <5>1. sending'[o] = sending[o] /\ sending[o].pc = "sent" /\ sending[o].key # k
          BY <2>6, <3>1, <3>4, <4>2
        <5>2. /\ SentLinks(sending[o].key) = {} /\ \E m \in mail : m.key = sending[o].key
              /\ \A q \in Senders : sending[q].pc = "sent" /\ sending[q].key = sending[o].key => q = o
          BY <5>1 DEF MailInv, SentOnce
        <5> QED BY <2>1, <2>5, <2>6, <5>1, <5>2 DEF SentLinks
      <4> QED BY <4>1, <4>2
    <3> QED BY <3>3, <3>4 DEF SentOnce, SentLinks
  <2>11. InboxMissesNothing'
    BY <1>0, <2>1, <2>3, <2>4 DEF MailInv, InboxMissesNothing
  <2> QED BY <2>7, <2>8, <2>9, <2>10, <2>11 DEF MailInv
<1>9. ASSUME NEW s \in Senders, append_messaging_audit_link(s) PROVE MailInv'
  <2>0. PICK k, d : k = sending[s].key /\ d = sending[s].pc
    OBVIOUS
  <2>1. /\ d \in {"sent", "deduped"} /\ sending' = [sending EXCEPT ![s] = Resting]
        /\ mailLinks' = [mailLinks EXCEPT ![k] = Append(@, d)]
        /\ told' = told \cup {<<k, m.seq>> : m \in MailOf(k)}
        /\ UNCHANGED <<mail, mailSeq, mailLock, polledTo, polled>>
    BY <1>9, <2>0 DEF append_messaging_audit_link
  <2>2. sending[s] \in SendRecord /\ k \in MailKeys /\ Resting \in SendState /\ Resting.pc = "idle"
    BY <1>0, <2>0, <2>1, SenderAtWork DEF SendRecord
  <2>3. sending'[s] = Resting /\ \A o \in Senders : o # s => sending'[o] = sending[o]
    BY <1>0, <2>1 DEF MailTypeOK
  <2>4. /\ d = "sent" => /\ SentLinks(k) = {} /\ \E m \in mail : m.key = k
                         /\ \A o \in Senders : sending[o].pc = "sent" /\ sending[o].key = k => o = s
    BY <2>0 DEF MailInv, SentOnce
  <2>5. /\ mailLinks' \in [MailKeys -> Seq({"sent", "deduped"})]
        /\ mailLinks[k] \in Seq({"sent", "deduped"}) /\ mailLinks'[k] = Append(mailLinks[k], d)
        /\ \A j \in MailKeys : j # k => mailLinks'[j] = mailLinks[j]
    BY <1>0, <2>1, <2>2 DEF MailTypeOK
  <2>6. MailTypeOK'
    BY <1>0, <2>1, <2>2, <2>5 DEF MailTypeOK
  <2>7. MailNumbered'
    <3>1. \A a \in told' : \E m \in mail : a = <<m.key, m.seq>>
      BY <2>1 DEF MailInv, MailNumbered, MailOf
    <3> QED BY <2>1, <3>1 DEF MailInv, MailNumbered
  <2>8. MailCounted'
    BY <2>1, <2>2, <2>3 DEF MailInv, MailCounted
  <2>9. SentOnce'
    <3>1. ASSUME NEW j \in MailKeys, j # k PROVE SentLinks(j)' = SentLinks(j)
      BY <2>5, <3>1 DEF SentLinks
    <3>2. SentLinks(k)' = IF d = "sent" THEN SentLinks(k) \cup {Len(mailLinks[k]) + 1} ELSE SentLinks(k)
      <4>1. /\ DOMAIN mailLinks[k] = 1..Len(mailLinks[k]) /\ Len(mailLinks[k]) \in Nat
            /\ DOMAIN mailLinks'[k] = 1..(Len(mailLinks[k]) + 1)
            /\ \A i \in 1..Len(mailLinks[k]) : mailLinks'[k][i] = mailLinks[k][i]
            /\ mailLinks'[k][Len(mailLinks[k]) + 1] = d
        BY <2>1, <2>5
      <4>2. SentLinks(k)' = {i \in DOMAIN mailLinks'[k] : mailLinks'[k][i] = "sent"}
        BY DEF SentLinks
      <4>3. CASE d = "sent"
        BY <4>1, <4>2, <4>3 DEF SentLinks
      <4>4. CASE d # "sent"
        BY <4>1, <4>2, <4>4 DEF SentLinks
      <4> QED BY <4>3, <4>4
    <3>3. \A j \in MailKeys : /\ \A x, y \in SentLinks(j)' : x = y
                              /\ SentLinks(j)' # {} => \E m \in mail' : m.key = j
      <4> SUFFICES ASSUME NEW j \in MailKeys
                   PROVE  /\ \A x, y \in SentLinks(j)' : x = y
                          /\ SentLinks(j)' # {} => \E m \in mail' : m.key = j
        OBVIOUS
      <4>1. /\ \A x, y \in SentLinks(j) : x = y
            /\ SentLinks(j) # {} => \E m \in mail' : m.key = j
        BY <2>1 DEF MailInv, SentOnce
      <4>2. CASE j # k
        BY <3>1, <4>1, <4>2
      <4>3. CASE j = k /\ d = "sent"
        <5>1. SentLinks(k)' = {Len(mailLinks[k]) + 1} /\ \E m \in mail' : m.key = k
          BY <2>1, <2>4, <3>2, <4>3
        <5> QED BY <4>3, <5>1
      <4>4. CASE j = k /\ d # "sent"
        BY <3>2, <4>1, <4>4
      <4> QED BY <4>2, <4>3, <4>4
    <3>4. ASSUME NEW o \in Senders, sending'[o].pc = "sent"
          PROVE  /\ {i \in DOMAIN mailLinks'[sending'[o].key] : mailLinks'[sending'[o].key][i] = "sent"} = {}
                 /\ \E m \in mail' : m.key = sending'[o].key
                 /\ \A q \in Senders : sending'[q].pc = "sent" /\ sending'[q].key = sending'[o].key => q = o
      <4>1. o # s /\ sending'[o] = sending[o] /\ sending[o].pc = "sent"
        BY <2>2, <2>3, <3>4
      <4>2. /\ SentLinks(sending[o].key) = {} /\ \E m \in mail : m.key = sending[o].key
            /\ \A q \in Senders : sending[q].pc = "sent" /\ sending[q].key = sending[o].key => q = o
        BY <4>1 DEF MailInv, SentOnce
      <4>3. sending[o].key \in MailKeys /\ (sending[o].key = k => d # "sent")
        BY <1>0, <2>0, <2>4, <4>1, SenderAtWork DEF SendRecord
      <4>4. \A j \in MailKeys : j = sending[o].key => SentLinks(j)' = {}
        <5> SUFFICES ASSUME NEW j \in MailKeys, j = sending[o].key PROVE SentLinks(j)' = {}
          OBVIOUS
        <5>1. SentLinks(j) = {}
          BY <4>2
        <5>2. CASE j # k
          BY <3>1, <5>1, <5>2
        <5>3. CASE j = k
          BY <3>2, <4>3, <5>1, <5>3
        <5> QED BY <5>2, <5>3
      <4>5. {i \in DOMAIN mailLinks'[sending[o].key] : mailLinks'[sending[o].key][i] = "sent"} = {}
        BY <4>3, <4>4 DEF SentLinks
      <4>6. \A q \in Senders : sending'[q].pc = "sent" => sending'[q] = sending[q]
        BY <2>2, <2>3
      <4> QED BY <2>1, <4>1, <4>2, <4>5, <4>6
    <3> QED BY <3>3, <3>4 DEF SentOnce, SentLinks
  <2>10. InboxMissesNothing'
    BY <2>1 DEF MailInv, InboxMissesNothing
  <2> QED BY <2>6, <2>7, <2>8, <2>9, <2>10 DEF MailInv
<1>10. ASSUME NEW s \in Senders, RefuseSend(s) \/ SendFails(s) PROVE MailInv'
  <2>1. /\ sending' = [sending EXCEPT ![s] = Resting] /\ Unlock(s)
        /\ UNCHANGED <<mail, mailSeq, mailLinks, told, polledTo, polled>>
    BY <1>10 DEF RefuseSend, SendFails
  <2>2. PICK c \in SendState : c.pc = "idle" /\ sending' = [sending EXCEPT ![s] = c]
    BY <1>0, <2>1, SenderAtWork
  <2>3. /\ mailSeq' \in Nat /\ mailSeq <= mailSeq' /\ mailLock' \in Senders \cup {NoSender}
        /\ \A o \in Senders : o # s => (mailLock = o => mailLock' = o)
    BY <1>0, <1>1, <2>1
  <2>4. c.pc # "sent" /\ c.pc \notin {"count", "insert", "commit", "capped"}
    BY <2>2
  <2> QED BY <2>1, <2>2, <2>3, <2>4, MailFrame
<1>11. CASE list_inbox_messages
  <2> DEFINE due == {m \in mail : m.seq > polledTo}
             page == {m \in due : Cardinality({n \in due : n.seq < m.seq}) < InboxPage}
             numbers == {m.seq : m \in page}
  <2>1. /\ page # {} /\ polled' = polled \cup page /\ polledTo' = Max(numbers)
        /\ UNCHANGED <<mail, mailSeq, mailLock, sending, mailLinks, told, sends>>
    BY <1>11 DEF list_inbox_messages
  <2>2. Max(numbers) \in numbers /\ \A x \in numbers : x <= Max(numbers)
    <3>1. numbers \subseteq Nat
      BY <1>0
    <3>2. PICK m : m \in page
      BY <2>1
    <3>3. m.seq \in numbers
      BY <3>2
    <3>4. \A n \in mail : n.seq < mailSeq
      BY DEF MailInv, MailNumbered
    <3>5. \A x \in numbers : x < mailSeq
      BY <3>4
    <3> HIDE DEF numbers
    <3> QED BY <1>0, <3>1, <3>3, <3>5, MaxOfBounded
  <2>3. PICK last \in page : last.seq = polledTo'
    BY <2>1, <2>2
  <2>4. last \in mail /\ last.seq > polledTo /\ last.seq \in Nat
    BY <1>0
  <2>5. ASSUME NEW m \in mail, m.seq <= polledTo' PROVE m \in polled'
    <3>1. CASE m.seq <= polledTo
      BY <2>1, <3>1 DEF MailInv, InboxMissesNothing
    <3>2. CASE m.seq > polledTo
      <4> DEFINE before(x) == {n \in due : n.seq < x.seq}
      <4>1. before(m) \subseteq before(last) /\ before(last) \subseteq mail
        BY <1>0, <2>3, <2>5
      <4>2. IsFiniteSet(before(last)) /\ Cardinality(before(last)) \in Nat
        BY <1>0, <4>1, FS_Subset, FS_CardinalityType
      <4>3. Cardinality(before(m)) <= Cardinality(before(last)) /\ Cardinality(before(m)) \in Nat
        BY <4>1, <4>2, FS_Subset, FS_CardinalityType
      <4>4. Cardinality(before(last)) < InboxPage
        BY <2>3
      <4>5. Cardinality(before(m)) < InboxPage
        BY <4>2, <4>3, <4>4
      <4>6. m \in page
        BY <3>2, <4>5
      <4> QED BY <2>1, <4>6
    <3> QED BY <1>0, <3>1, <3>2
  <2> HIDE DEF due, page, numbers
  <2>6. MailTypeOK'
    BY <1>0, <2>1, <2>3, <2>4 DEF MailTypeOK
  <2>7. MailNumbered'
    BY <2>1, <2>3, <2>4 DEF MailInv, MailNumbered
  <2>8. MailCounted'
    BY <2>1, <2>3, <2>4 DEF MailInv, MailCounted
  <2>9. SentOnce'
    BY <2>1 DEF MailInv, SentOnce, SentLinks
  <2>10. InboxMissesNothing'
    BY <2>1, <2>5 DEF InboxMissesNothing
  <2> QED BY <2>6, <2>7, <2>8, <2>9, <2>10 DEF MailInv
<1>12. CASE UNCHANGED mailVars
  BY <1>12 DEF mailVars, MailInv, MailTypeOK, MailNumbered, MailCounted, SentOnce, SentLinks,
               InboxMissesNothing
<1> QED BY <1>3, <1>4, <1>5, <1>6, <1>7, <1>8, <1>9, <1>10, <1>11, <1>12 DEF MailNext

\* What MailInv says of the mailbox.
LEMMA MailInvExact == MailInv => MailIsExact
<1> SUFFICES ASSUME MailInv PROVE MailOnce
  BY DEF MailInv, MailIsExact
<1>1. ASSUME NEW k \in MailKeys
      PROVE  /\ Cardinality(MailOf(k)) <= 1
             /\ Cardinality({i \in DOMAIN mailLinks[k] : mailLinks[k][i] = "sent"}) <= 1
  <2>1. \A m, n \in MailOf(k) : m = n
    BY DEF MailInv, MailNumbered, MailOf
  <2>2. \A i, j \in SentLinks(k) : i = j
    BY DEF MailInv, SentOnce
  <2>3. Cardinality(MailOf(k)) <= 1 /\ Cardinality(SentLinks(k)) <= 1
    BY <2>1, <2>2, AtMostOneMember
  <2> QED BY <2>3 DEF SentLinks
<1> QED BY <1>1 DEF MailInv, MailNumbered, MailOnce

-----------------------------------------------------------------------------
(* The agents' services in the composition *)

\* A step of the composition is one of the mailbox, of the shared state, or leaves
\* both as they are.
LEMMA CollaborationSteps ==
    ASSUME [CollaborationNext]_collaborationVars
    PROVE  [MailNext]_mailVars /\ [StateNext]_stateVars
<1>1. CASE Agents
  BY <1>1 DEF Agents
<1>2. CASE Sentinels \/ Products
  BY <1>2 DEF Sentinels, Products, agentVars
<1>3. CASE Rendly \/ Rest
  BY <1>3 DEF Rendly, Rest, orchestratorVars, agentVars
<1>4. CASE UNCHANGED collaborationVars
  BY <1>4 DEF collaborationVars, orchestratorVars, agentVars
<1> QED BY <1>1, <1>2, <1>3, <1>4 DEF CollaborationNext

\* For any number of concurrent agents, keys, retries and failures: one row per message
\* within the cap and none that a poller misses, and one line of linked versions per
\* shared key within the cap.
THEOREM AgentsStayExact == CollaborationSpec => []AgentsKeepExact
<1>1. CollaborationInit => MailInv /\ StateInv
  BY MailStart, StateStart DEF CollaborationInit
<1>2. MailInv /\ StateInv /\ [CollaborationNext]_collaborationVars => (MailInv /\ StateInv)'
  BY CollaborationSteps, MailStep, StateStep
<1>3. MailInv /\ StateInv => AgentsKeepExact
  BY MailInvExact, StateInvExact DEF AgentsKeepExact
<1> QED BY <1>1, <1>2, <1>3, PTL DEF CollaborationSpec

-----------------------------------------------------------------------------
(* Product events: one request makes the row of a key *)

EventRows == [number : Nat \ {0}, tenant : ReportTenants]
AskedReports == [at : {"insert"}, feed : Feeds, key : ReportKeys, tenant : ReportTenants]
WrittenReports == [at : {"commit", "link", "answer"}, feed : Feeds, key : ReportKeys,
                   tenant : ReportTenants, number : Nat \ {0}, inserted : BOOLEAN]
Walks == [at : {"page", "end"}, feed : Feeds, tenant : ReportTenants, cursor : Nat,
          before : SUBSET Nat, seen : Seq(SUBSET Nat)]

EventsTypeOK ==
    /\ logged \in [Feeds -> [ReportKeys -> {NoRow} \cup EventRows]]
    /\ nextValue \in [Feeds -> Nat \ {0}]
    /\ report \in [Reports -> {Idle} \cup AskedReports \cup WrittenReports]
    /\ eventLinks \in [Feeds -> [ReportKeys -> Seq({"accepted", "duplicate"})]]
    /\ answers \in [Feeds -> [ReportKeys -> Nat]]
    /\ pager \in {Idle} \cup Walks

\* The requests past their INSERT of key k, those of them that made its row and have not
\* linked it, and those that still owe their answer.
Concerns(d, f, k) ==
    report[d].at \in {"commit", "link", "answer"} /\ report[d].feed = f /\ report[d].key = k
Makers(f, k) ==
    {d \in Reports : Concerns(d, f, k) /\ report[d].at # "answer" /\ report[d].inserted}
Answering(f, k) == {d \in Reports : Concerns(d, f, k) /\ report[d].at = "answer"}

\* What holds of one key.
Linked(f, k) ==
    /\ \A d, e \in Makers(f, k) : d = e
    /\ Makers(f, k) # {} => AcceptedLinks(f, k) = {}
    /\ \A i, j \in AcceptedLinks(f, k) : i = j
    /\ \A d \in Reports : Concerns(d, f, k) =>
          IF report[d].at = "commit" /\ report[d].inserted THEN logged[f][k] = NoRow
                                                           ELSE logged[f][k] # NoRow
    /\ eventLinks[f][k] # <<>> => logged[f][k] # NoRow
    /\ answers[f][k] + Cardinality(Answering(f, k)) <= Len(eventLinks[f][k])

\* A walk has been given everything up to its cursor that was there at its start.
WalkInv ==
    /\ pager # Idle =>
          \A i, j \in 1..Len(pager.seen) :
              i < j => \A m \in pager.seen[i], n \in pager.seen[j] : m < n
    /\ pager.at = "page" =>
          /\ pager.before \subseteq Numbers(pager.feed, pager.tenant, 0)
          /\ \A i \in 1..Len(pager.seen) : \A n \in pager.seen[i] : n <= pager.cursor
          /\ \A n \in pager.before : n <= pager.cursor =>
                \E i \in 1..Len(pager.seen) : n \in pager.seen[i]
    /\ pager.at = "end" =>
          \A n \in pager.before : \E i \in 1..Len(pager.seen) : n \in pager.seen[i]

EventsInv == EventsTypeOK /\ (\A f \in Feeds, k \in ReportKeys : Linked(f, k)) /\ WalkInv

\* No report has been made at the start.
LEMMA EventsStart == EventsInit => EventsInv
<1> SUFFICES ASSUME EventsInit PROVE EventsInv
  OBVIOUS
<1>1. EventsTypeOK /\ WalkInv
  BY DEF EventsInit, EventsTypeOK, WalkInv, Tables, Idle, NoRow
<1>2. ASSUME NEW f \in Feeds, NEW k \in ReportKeys PROVE Linked(f, k)
  <2>1. /\ eventLinks[f][k] = <<>> /\ answers[f][k] = 0
        /\ \A d \in Reports : report[d].at = "idle"
    BY DEF EventsInit, Tables, Idle
  <2>2. Makers(f, k) = {} /\ Answering(f, k) = {} /\ \A d \in Reports : ~Concerns(d, f, k)
    BY <2>1 DEF Makers, Answering, Concerns
  <2>3. AcceptedLinks(f, k) = {} /\ Len(eventLinks[f][k]) = 0
    BY <2>1 DEF AcceptedLinks
  <2>4. Cardinality(Answering(f, k)) = 0
    BY <2>2, FS_EmptySet
  <2> QED BY <2>1, <2>2, <2>3, <2>4 DEF Linked
<1> QED BY <1>1, <1>2 DEF EventsInv

\* A step of a request that the key does not concern.
LEMMA KeyKept ==
    ASSUME NEW f \in Feeds, NEW k \in ReportKeys, Linked(f, k), NEW d \in Reports,
           \A e \in Reports \ {d} : report'[e] = report[e],
           ~Concerns(d, f, k), ~Concerns(d, f, k)',
           logged'[f][k] = logged[f][k], eventLinks'[f][k] = eventLinks[f][k],
           answers'[f][k] = answers[f][k]
    PROVE  Linked(f, k)'
<1>1. \A e \in Reports : Concerns(e, f, k)' <=> Concerns(e, f, k)
  BY DEF Concerns
<1>2. \A e \in Reports : Concerns(e, f, k) => report'[e] = report[e]
  OBVIOUS
<1>3. /\ Makers(f, k)' = Makers(f, k) /\ Answering(f, k)' = Answering(f, k)
      /\ AcceptedLinks(f, k)' = AcceptedLinks(f, k)
  BY <1>1, <1>2 DEF Makers, Answering, AcceptedLinks
<1>4. \A e \in Reports : Concerns(e, f, k)' =>
          IF report'[e].at = "commit" /\ report'[e].inserted THEN logged'[f][k] = NoRow
                                                             ELSE logged'[f][k] # NoRow
  BY <1>1, <1>2 DEF Linked
<1> QED BY <1>3, <1>4 DEF Linked

\* The answers still owed are counted.
LEMMA AnsweringType ==
    ASSUME NEW f, NEW k
    PROVE  IsFiniteSet(Answering(f, k)) /\ Cardinality(Answering(f, k)) \in Nat
<1>1. Answering(f, k) \subseteq Reports
  BY DEF Answering
<1> QED BY <1>1, EventsAssumption, FS_Subset, FS_CardinalityType

\* Committed rows stay, so a walk keeps what it has been given while reports go on.
LEMMA WalkKept ==
    ASSUME EventsInv, UNCHANGED pager,
           \A f \in Feeds, k \in ReportKeys : logged[f][k] # NoRow => logged'[f][k] = logged[f][k]
    PROVE  WalkInv'
<1>1. ASSUME pager.at = "page"
      PROVE  Numbers(pager.feed, pager.tenant, 0) \subseteq Numbers(pager.feed, pager.tenant, 0)'
  <2>1. pager.feed \in Feeds
    BY <1>1 DEF EventsInv, EventsTypeOK, Idle, Walks
  <2> QED BY <2>1 DEF Numbers, RowsOf
<1>2. WalkInv
  BY DEF EventsInv
<1> QED BY <1>1, <1>2 DEF WalkInv

\* A request that ends, for whatever reason, and has not answered.
LEMMA DiesKeeps ==
    ASSUME EventsInv, NEW d \in Reports, ReportDies(d)
    PROVE  EventsInv'
<1>0. EventsTypeOK
  BY DEF EventsInv
<1>1. /\ report' = [report EXCEPT ![d] = Idle]
      /\ UNCHANGED <<logged, nextValue, reported, eventLinks, answers, pager>>
  BY DEF ReportDies
<1>2. EventsTypeOK' /\ WalkInv'
  BY <1>0, <1>1, WalkKept DEF EventsTypeOK
<1>3. ASSUME NEW f \in Feeds, NEW k \in ReportKeys PROVE Linked(f, k)'
  <2>1. Linked(f, k)
    BY DEF EventsInv
  <2>2. \A e \in Reports : Concerns(e, f, k)' => Concerns(e, f, k) /\ report'[e] = report[e]
    BY <1>0, <1>1 DEF Concerns, EventsTypeOK, Idle
  <2>3. /\ Makers(f, k)' \subseteq Makers(f, k) /\ Answering(f, k)' \subseteq Answering(f, k)
        /\ AcceptedLinks(f, k)' = AcceptedLinks(f, k)
    BY <1>1, <2>2 DEF Makers, Answering, AcceptedLinks
  <2>4. /\ Cardinality(Answering(f, k)') <= Cardinality(Answering(f, k))
        /\ Cardinality(Answering(f, k)') \in Nat /\ Cardinality(Answering(f, k)) \in Nat
    <3>1. IsFiniteSet(Answering(f, k)) /\ Cardinality(Answering(f, k)) \in Nat
      BY AnsweringType
    <3> QED BY <2>3, <3>1, FS_Subset, FS_CardinalityType
  <2>5. answers[f][k] + Cardinality(Answering(f, k)') <= Len(eventLinks[f][k])
    <3>1. answers[f][k] \in Nat /\ Len(eventLinks[f][k]) \in Nat
      BY <1>0 DEF EventsTypeOK
    <3> QED BY <2>1, <2>4, <3>1 DEF Linked
  <2>6. \A e \in Reports : Concerns(e, f, k)' =>
          IF report'[e].at = "commit" /\ report'[e].inserted THEN logged'[f][k] = NoRow
                                                             ELSE logged'[f][k] # NoRow
    BY <1>1, <2>1, <2>2 DEF Linked
  <2> QED BY <1>1, <2>1, <2>3, <2>5, <2>6 DEF Linked
<1> QED BY <1>2, <1>3 DEF EventsInv

\* A request that is received has touched no key.
LEMMA ReceiveKeeps ==
    ASSUME EventsInv, NEW d \in Reports, NEW f \in Feeds, NEW k \in ReportKeys,
           NEW t \in ReportTenants, Receive(d, f, k, t)
    PROVE  EventsInv'
<1>0. EventsTypeOK
  BY DEF EventsInv
<1>1. /\ report[d] = Idle /\ UNCHANGED <<logged, nextValue, eventLinks, answers, pager>>
      /\ report' = [report EXCEPT ![d] = [at |-> "insert", feed |-> f, key |-> k, tenant |-> t]]
  BY DEF Receive
<1>2. EventsTypeOK' /\ WalkInv'
  BY <1>0, <1>1, WalkKept DEF EventsTypeOK, AskedReports
<1>3. \A e \in Reports \ {d} : report'[e] = report[e]
  BY <1>0, <1>1 DEF EventsTypeOK
<1>4. \A g, q : ~Concerns(d, g, q) /\ ~Concerns(d, g, q)'
  BY <1>0, <1>1 DEF EventsTypeOK, Concerns, Idle
<1> QED BY <1>1, <1>2, <1>3, <1>4, KeyKept DEF EventsInv

\* The INSERT: the key is free and this request makes its row, or there is a row.
LEMMA InsertKeepsEvents ==
    ASSUME EventsInv, NEW d \in Reports, NEW f \in Feeds, InsertEvent(d, f)
    PROVE  EventsInv'
<1>0. EventsTypeOK
  BY DEF EventsInv
<1>1. PICK k : k = report[d].key
  OBVIOUS
<1>2. PICK r : r = [at |-> "commit", feed |-> f, key |-> k, tenant |-> report[d].tenant,
                    number |-> nextValue[f], inserted |-> logged[f][k] = NoRow]
  OBVIOUS
<1>3. /\ report[d].at = "insert" /\ report[d].feed = f /\ Pending(f, k) = {}
      /\ report' = [report EXCEPT ![d] = r]
      /\ nextValue' = [nextValue EXCEPT ![f] = @ + 1]
      /\ UNCHANGED <<logged, reported, eventLinks, answers, pager>>
  BY <1>1, <1>2 DEF InsertEvent
<1>4. report[d] \in AskedReports
  <2>1. report[d] = Idle \/ report[d] \in AskedReports \/ report[d] \in WrittenReports
    BY <1>0 DEF EventsTypeOK
  <2>2. report[d] # Idle /\ report[d] \notin WrittenReports
    BY <1>3 DEF Idle, WrittenReports
  <2> QED BY <2>1, <2>2
<1>5. /\ r \in WrittenReports /\ k \in ReportKeys /\ r.at = "commit" /\ r.feed = f /\ r.key = k
      /\ r.inserted = (logged[f][k] = NoRow)
  BY <1>0, <1>1, <1>2, <1>4 DEF AskedReports, WrittenReports, EventsTypeOK
<1>6. EventsTypeOK' /\ WalkInv'
  BY <1>0, <1>3, <1>5, WalkKept DEF EventsTypeOK
<1>7. report'[d] = r /\ \A e \in Reports \ {d} : report'[e] = report[e]
  BY <1>0, <1>3 DEF EventsTypeOK
<1>8. \A g, q : ~Concerns(d, g, q) /\ (Concerns(d, g, q)' <=> g = f /\ q = k)
  BY <1>3, <1>5, <1>7 DEF Concerns
<1>9. Linked(f, k)
  BY <1>5 DEF EventsInv
<1>10. Linked(f, k)'
  <2>1. /\ \A e \in Reports \ {d} : (Concerns(e, f, k)' <=> Concerns(e, f, k))
        /\ Concerns(d, f, k)' /\ ~Concerns(d, f, k)
    BY <1>7, <1>8 DEF Concerns
  <2>2. Answering(f, k)' = Answering(f, k) /\ AcceptedLinks(f, k)' = AcceptedLinks(f, k)
    BY <1>3, <1>5, <1>7, <2>1 DEF Answering, AcceptedLinks
  <2>3. \A e \in Reports : Concerns(e, f, k)' =>
          IF report'[e].at = "commit" /\ report'[e].inserted THEN logged'[f][k] = NoRow
                                                             ELSE logged'[f][k] # NoRow
    BY <1>3, <1>5, <1>7, <1>9, <2>1 DEF Linked
  <2>4. CASE logged[f][k] = NoRow
    <3>1. Makers(f, k) = {}
      BY <1>3, <1>9, <2>4 DEF Makers, Linked, Pending, Concerns
    <3>2. Makers(f, k)' = {d}
      BY <1>5, <1>7, <2>1, <2>4, <3>1 DEF Makers
    <3>3. AcceptedLinks(f, k) = {}
      BY <1>9, <2>4 DEF Linked, AcceptedLinks
    <3> QED BY <1>3, <1>9, <2>2, <2>3, <3>2, <3>3 DEF Linked
  <2>5. CASE logged[f][k] # NoRow
    <3>1. Makers(f, k)' = Makers(f, k)
      BY <1>5, <1>7, <2>1, <2>5 DEF Makers
    <3> QED BY <1>3, <1>9, <2>2, <2>3, <3>1 DEF Linked
  <2> QED BY <2>4, <2>5
<1>11. ASSUME NEW g \in Feeds, NEW q \in ReportKeys, <<g, q>> # <<f, k>> PROVE Linked(g, q)'
  <2>1. ~Concerns(d, g, q) /\ ~Concerns(d, g, q)' /\ Linked(g, q)
    BY <1>8, <1>11 DEF EventsInv
  <2> QED BY <1>3, <1>7, <2>1, KeyKept
<1> QED BY <1>6, <1>10, <1>11 DEF EventsInv

\* A request past its INSERT carries the key and what the INSERT returned.
LEMMA WrittenAtWork ==
    ASSUME EventsTypeOK, NEW d \in Reports, report[d].at \in {"commit", "link", "answer"}
    PROVE  /\ report[d] \in WrittenReports
           /\ report[d].feed \in Feeds /\ report[d].key \in ReportKeys
           /\ report[d].inserted \in BOOLEAN
           /\ [number |-> report[d].number, tenant |-> report[d].tenant] \in EventRows
           /\ Concerns(d, report[d].feed, report[d].key)
<1>1. report[d] = Idle \/ report[d] \in AskedReports \/ report[d] \in WrittenReports
  BY DEF EventsTypeOK
<1>2. report[d] # Idle /\ report[d] \notin AskedReports
  BY DEF Idle, AskedReports
<1>3. report[d] \in WrittenReports
  BY <1>1, <1>2
<1> QED BY <1>3 DEF WrittenReports, EventRows, Concerns

\* The commit publishes the row; no other request of the key had made one.
LEMMA CommitKeepsEvents ==
    ASSUME EventsInv, NEW d \in Reports, CommitEvent(d)
    PROVE  EventsInv'
<1>0. EventsTypeOK
  BY DEF EventsInv
<1>1. PICK f, k, row : /\ f = report[d].feed /\ k = report[d].key
                       /\ row = [number |-> report[d].number, tenant |-> report[d].tenant]
  OBVIOUS
<1>2. /\ report[d].at = "commit" /\ UNCHANGED <<nextValue, reported, eventLinks, answers, pager>>
      /\ logged' = IF report[d].inserted THEN [logged EXCEPT ![f][k] = row] ELSE logged
      /\ report' = [report EXCEPT ![d].at = "link"]
  BY <1>1 DEF CommitEvent
<1>3. /\ report[d] \in WrittenReports /\ f \in Feeds /\ k \in ReportKeys
      /\ report[d].inserted \in BOOLEAN /\ row \in EventRows /\ Concerns(d, f, k)
  BY <1>0, <1>1, <1>2, WrittenAtWork
<1>4. PICK r : r = [report[d] EXCEPT !.at = "link"]
  OBVIOUS
<1>5. /\ r \in WrittenReports /\ r.at = "link" /\ r.feed = f /\ r.key = k
      /\ r.inserted = report[d].inserted
  BY <1>1, <1>3, <1>4 DEF WrittenReports
<1>6. /\ report' = [report EXCEPT ![d] = r] /\ report'[d] = r
      /\ \A e \in Reports \ {d} : report'[e] = report[e]
  BY <1>0, <1>2, <1>4 DEF EventsTypeOK
<1>7. row # NoRow
  BY <1>3 DEF EventRows, NoRow
<1>8. /\ logged' \in [Feeds -> [ReportKeys -> {NoRow} \cup EventRows]]
      /\ logged'[f][k] = (IF report[d].inserted THEN row ELSE logged[f][k])
      /\ \A g \in Feeds, q \in ReportKeys : <<g, q>> # <<f, k>> => logged'[g][q] = logged[g][q]
  BY <1>0, <1>2, <1>3 DEF EventsTypeOK
<1>9. Linked(f, k)
  BY <1>3 DEF EventsInv
<1>10. IF report[d].inserted THEN logged[f][k] = NoRow ELSE logged[f][k] # NoRow
  BY <1>2, <1>3, <1>9 DEF Linked
<1>11. EventsTypeOK'
  BY <1>0, <1>2, <1>5, <1>6, <1>8 DEF EventsTypeOK
<1>12. WalkInv'
  <2>1. \A g \in Feeds, q \in ReportKeys : logged[g][q] # NoRow => logged'[g][q] = logged[g][q]
    BY <1>8, <1>10
  <2> QED BY <1>2, <2>1, WalkKept
<1>13. Linked(f, k)'
  <2>1. \A e \in Reports : (Concerns(e, f, k)' <=> Concerns(e, f, k))
    BY <1>3, <1>5, <1>6 DEF Concerns
  <2>2. /\ Makers(f, k)' = Makers(f, k) /\ Answering(f, k)' = Answering(f, k)
        /\ AcceptedLinks(f, k)' = AcceptedLinks(f, k)
    BY <1>2, <1>5, <1>6, <2>1 DEF Makers, Answering, AcceptedLinks
  <2>3. logged'[f][k] # NoRow
    BY <1>7, <1>8, <1>10
  <2>4. ASSUME NEW e \in Reports, Concerns(e, f, k), report'[e].at = "commit", report'[e].inserted
        PROVE  FALSE
    <3>1. e # d /\ report'[e] = report[e]
      BY <1>5, <1>6, <2>4
    <3>2. logged[f][k] = NoRow /\ e \in Makers(f, k)
      BY <1>9, <2>4, <3>1 DEF Linked, Makers
    <3>3. d \in Makers(f, k)
      BY <1>2, <1>3, <1>10, <3>2 DEF Makers
    <3> QED BY <1>9, <3>1, <3>2, <3>3 DEF Linked
  <2> QED BY <1>2, <1>9, <2>1, <2>2, <2>3, <2>4 DEF Linked
<1>14. ASSUME NEW g \in Feeds, NEW q \in ReportKeys, <<g, q>> # <<f, k>> PROVE Linked(g, q)'
  <2>1. ~Concerns(d, g, q) /\ ~Concerns(d, g, q)' /\ Linked(g, q)
    BY <1>1, <1>5, <1>6, <1>14 DEF EventsInv, Concerns
  <2> QED BY <1>2, <1>6, <1>8, <1>14, <2>1, KeyKept
<1> QED BY <1>11, <1>12, <1>13, <1>14 DEF EventsInv

\* The link says what the INSERT of this request returned.
LEMMA LinkKeeps ==
    ASSUME EventsInv, NEW d \in Reports, NEW f \in Feeds, AppendLink(d, f)
    PROVE  EventsInv'
<1>0. EventsTypeOK
  BY DEF EventsInv
<1>1. PICK k, v : k = report[d].key /\ v = IF report[d].inserted THEN "accepted" ELSE "duplicate"
  OBVIOUS
<1>2. /\ report[d].at = "link" /\ report[d].feed = f
      /\ UNCHANGED <<logged, nextValue, reported, answers, pager>>
      /\ eventLinks' = [eventLinks EXCEPT ![f][k] = Append(@, v)]
      /\ report' = [report EXCEPT ![d].at = "answer"]
  BY <1>1 DEF AppendLink
<1>3. /\ report[d] \in WrittenReports /\ k \in ReportKeys
      /\ report[d].inserted \in BOOLEAN /\ Concerns(d, f, k) /\ v \in {"accepted", "duplicate"}
  BY <1>0, <1>1, <1>2, WrittenAtWork
<1>4. PICK r : r = [report[d] EXCEPT !.at = "answer"]
  OBVIOUS
<1>5. /\ r \in WrittenReports /\ r.at = "answer" /\ r.feed = f /\ r.key = k
      /\ r.inserted = report[d].inserted
  BY <1>1, <1>2, <1>3, <1>4 DEF WrittenReports
<1>6. /\ report' = [report EXCEPT ![d] = r] /\ report'[d] = r
      /\ \A e \in Reports \ {d} : report'[e] = report[e]
  BY <1>0, <1>2, <1>4 DEF EventsTypeOK
<1>7. PICK l \in Seq({"accepted", "duplicate"}) : l = eventLinks[f][k]
  BY <1>0, <1>3 DEF EventsTypeOK
<1>8. /\ Append(l, v) \in Seq({"accepted", "duplicate"}) /\ Len(l) \in Nat
      /\ Len(Append(l, v)) = Len(l) + 1 /\ Append(l, v)[Len(l) + 1] = v
      /\ \A i \in 1..Len(l) : Append(l, v)[i] = l[i]
  BY <1>3
<1>9. /\ eventLinks' \in [Feeds -> [ReportKeys -> Seq({"accepted", "duplicate"})]]
      /\ eventLinks'[f][k] = Append(l, v)
      /\ \A g \in Feeds, q \in ReportKeys :
            <<g, q>> # <<f, k>> => eventLinks'[g][q] = eventLinks[g][q]
  BY <1>0, <1>2, <1>3, <1>7, <1>8 DEF EventsTypeOK
<1>10. EventsTypeOK' /\ WalkInv'
  <2>1. EventsTypeOK'
    BY <1>0, <1>2, <1>5, <1>6, <1>9 DEF EventsTypeOK
  <2> QED BY <1>2, <2>1, WalkKept
<1>11. Linked(f, k) /\ logged[f][k] # NoRow
  <2>1. Linked(f, k)
    BY <1>3 DEF EventsInv
  <2> QED BY <1>2, <1>3, <2>1 DEF Linked
<1>12. Linked(f, k)'
  <2>1. \A e \in Reports : (Concerns(e, f, k)' <=> Concerns(e, f, k))
    BY <1>3, <1>5, <1>6 DEF Concerns
  <2>2. Makers(f, k)' = Makers(f, k) \ {d} /\ (d \in Makers(f, k) <=> report[d].inserted)
    BY <1>2, <1>3, <1>5, <1>6, <2>1 DEF Makers
  <2>3. AcceptedLinks(f, k)' = AcceptedLinks(f, k) \cup
                                 (IF report[d].inserted THEN {Len(l) + 1} ELSE {})
    <3>1. AcceptedLinks(f, k)' = {i \in 1..Len(Append(l, v)) : Append(l, v)[i] = "accepted"}
          /\ AcceptedLinks(f, k) = {i \in 1..Len(l) : l[i] = "accepted"}
      BY <1>7, <1>9 DEF AcceptedLinks
    <3>2. 1..Len(l) + 1 = (1..Len(l)) \cup {Len(l) + 1} /\ Len(l) + 1 \notin 1..Len(l)
      BY <1>8
    <3>3. v = "accepted" <=> report[d].inserted
      BY <1>1
    <3> QED BY <1>8, <3>1, <3>2, <3>3
  <2>4. Answering(f, k)' = Answering(f, k) \cup {d} /\ d \notin Answering(f, k)
    BY <1>2, <1>3, <1>5, <1>6, <2>1 DEF Answering
  <2>5. /\ Cardinality(Answering(f, k)') = Cardinality(Answering(f, k)) + 1
        /\ Cardinality(Answering(f, k)) \in Nat
    <3>1. IsFiniteSet(Answering(f, k)) /\ Cardinality(Answering(f, k)) \in Nat
      BY AnsweringType
    <3> QED BY <2>4, <3>1, FS_AddElement
  <2>6. answers'[f][k] + Cardinality(Answering(f, k)') <= Len(eventLinks'[f][k])
    <3>1. answers'[f][k] = answers[f][k] /\ answers[f][k] \in Nat
      BY <1>0, <1>2, <1>3 DEF EventsTypeOK
    <3>2. answers[f][k] + Cardinality(Answering(f, k)) <= Len(l)
      BY <1>7, <1>11 DEF Linked
    <3> QED BY <1>8, <1>9, <2>5, <3>1, <3>2
  <2>7. /\ \A i, j \in AcceptedLinks(f, k)' : i = j
        /\ \A a, b \in Makers(f, k)' : a = b
        /\ Makers(f, k)' # {} => AcceptedLinks(f, k)' = {}
    <3>1. CASE report[d].inserted
      <4>1. AcceptedLinks(f, k) = {} /\ Makers(f, k) = {d}
        BY <1>11, <2>2, <3>1 DEF Linked
      <4> QED BY <2>2, <2>3, <3>1, <4>1
    <3>2. CASE ~report[d].inserted
      BY <1>11, <2>2, <2>3, <3>2 DEF Linked
    <3> QED BY <3>1, <3>2
  <2>8. \A e \in Reports : Concerns(e, f, k)' =>
          IF report'[e].at = "commit" /\ report'[e].inserted THEN logged'[f][k] = NoRow
                                                             ELSE logged'[f][k] # NoRow
    BY <1>2, <1>5, <1>6, <1>11, <2>1 DEF Linked
  <2> QED BY <1>2, <1>11, <2>6, <2>7, <2>8 DEF Linked
<1>13. ASSUME NEW g \in Feeds, NEW q \in ReportKeys, <<g, q>> # <<f, k>> PROVE Linked(g, q)'
  <2>1. ~Concerns(d, g, q) /\ ~Concerns(d, g, q)' /\ Linked(g, q)
    BY <1>1, <1>2, <1>5, <1>6, <1>13 DEF EventsInv, Concerns
  <2> QED BY <1>2, <1>6, <1>9, <1>13, <2>1, KeyKept
<1> QED BY <1>10, <1>12, <1>13 DEF EventsInv

\* An answer follows its link.
LEMMA AnswerKeeps ==
    ASSUME EventsInv, NEW d \in Reports, Answer202(d)
    PROVE  EventsInv'
<1>0. EventsTypeOK
  BY DEF EventsInv
<1>1. PICK f, k : f = report[d].feed /\ k = report[d].key
  OBVIOUS
<1>2. /\ report[d].at = "answer" /\ report' = [report EXCEPT ![d] = Idle]
      /\ answers' = [answers EXCEPT ![f][k] = @ + 1]
      /\ UNCHANGED <<logged, nextValue, reported, eventLinks, pager>>
  BY <1>1 DEF Answer202
<1>3. f \in Feeds /\ k \in ReportKeys /\ Concerns(d, f, k)
  BY <1>0, <1>1, <1>2, WrittenAtWork
<1>4. report'[d] = Idle /\ \A e \in Reports \ {d} : report'[e] = report[e]
  BY <1>0, <1>2 DEF EventsTypeOK
<1>5. /\ answers' \in [Feeds -> [ReportKeys -> Nat]] /\ answers'[f][k] = answers[f][k] + 1
      /\ answers[f][k] \in Nat
      /\ \A g \in Feeds, q \in ReportKeys : <<g, q>> # <<f, k>> => answers'[g][q] = answers[g][q]
  BY <1>0, <1>2, <1>3 DEF EventsTypeOK
<1>6. EventsTypeOK' /\ WalkInv'
  BY <1>0, <1>2, <1>5, WalkKept DEF EventsTypeOK
<1>7. \A g, q : ~Concerns(d, g, q)'
  BY <1>4 DEF Concerns, Idle
<1>8. Linked(f, k)'
  <2>1. Linked(f, k)
    BY <1>3 DEF EventsInv
  <2>2. \A e \in Reports : Concerns(e, f, k)' <=> e # d /\ Concerns(e, f, k)
    BY <1>4, <1>7 DEF Concerns
  <2>3. /\ Makers(f, k)' = Makers(f, k) /\ Answering(f, k)' = Answering(f, k) \ {d}
        /\ d \in Answering(f, k) /\ AcceptedLinks(f, k)' = AcceptedLinks(f, k)
    BY <1>2, <1>3, <1>4, <2>2 DEF Makers, Answering, AcceptedLinks
  <2>4. Cardinality(Answering(f, k)') = Cardinality(Answering(f, k)) - 1
        /\ Cardinality(Answering(f, k)) \in Nat
    <3>1. IsFiniteSet(Answering(f, k)) /\ Cardinality(Answering(f, k)) \in Nat
      BY AnsweringType
    <3>2. Cardinality(Answering(f, k) \ {d}) = Cardinality(Answering(f, k)) - 1
      BY <2>3, <3>1, FS_RemoveElement
    <3> QED BY <2>3, <3>1, <3>2
  <2>5. answers'[f][k] + Cardinality(Answering(f, k)') <= Len(eventLinks'[f][k])
    <3>1. answers[f][k] + Cardinality(Answering(f, k)) <= Len(eventLinks[f][k])
          /\ Len(eventLinks[f][k]) \in Nat
      BY <1>0, <1>3, <2>1 DEF Linked, EventsTypeOK
    <3> QED BY <1>2, <1>5, <2>4, <3>1
  <2>6. \A e \in Reports : Concerns(e, f, k)' =>
          IF report'[e].at = "commit" /\ report'[e].inserted THEN logged'[f][k] = NoRow
                                                             ELSE logged'[f][k] # NoRow
    BY <1>2, <1>4, <2>1, <2>2 DEF Linked
  <2> QED BY <1>2, <2>1, <2>3, <2>5, <2>6 DEF Linked
<1>9. ASSUME NEW g \in Feeds, NEW q \in ReportKeys, <<g, q>> # <<f, k>> PROVE Linked(g, q)'
  <2>1. ~Concerns(d, g, q) /\ ~Concerns(d, g, q)' /\ Linked(g, q)
    BY <1>1, <1>7, <1>9 DEF EventsInv, Concerns
  <2> QED BY <1>2, <1>4, <1>5, <1>9, <2>1, KeyKept
<1> QED BY <1>6, <1>8, <1>9 DEF EventsInv

\* The steps of a walk touch no key.
LEMMA WalkFrame ==
    ASSUME EventsInv, UNCHANGED <<logged, nextValue, report, reported, eventLinks, answers>>,
           pager' \in {Idle} \cup Walks, WalkInv'
    PROVE  EventsInv'
<1>1. EventsTypeOK'
  BY DEF EventsInv, EventsTypeOK
<1>2. ASSUME NEW f \in Feeds, NEW k \in ReportKeys PROVE Linked(f, k)'
  <2>1. Linked(f, k)
    BY DEF EventsInv
  <2>2. \A e \in Reports : Concerns(e, f, k)' <=> Concerns(e, f, k)
    BY DEF Concerns
  <2>3. /\ Makers(f, k)' = Makers(f, k) /\ Answering(f, k)' = Answering(f, k)
        /\ AcceptedLinks(f, k)' = AcceptedLinks(f, k)
    BY <2>2 DEF Makers, Answering, AcceptedLinks
  <2> QED BY <2>1, <2>2, <2>3 DEF Linked
<1> QED BY <1>1, <1>2 DEF EventsInv

\* A tenant has finitely many rows, with numbers of their own.
LEMMA NumbersType ==
    ASSUME EventsTypeOK, NEW f \in Feeds, NEW t, NEW c \in Nat
    PROVE  /\ IsFiniteSet(Numbers(f, t, c))
           /\ \A n : n \in Numbers(f, t, c) <=> n \in Numbers(f, t, 0) /\ n > c
           /\ Numbers(f, t, c) \subseteq Nat
<1> DEFINE K == {k \in RowsOf(f, t) : logged[f][k].number > c}
<1>1. \A k \in RowsOf(f, t) : logged[f][k].number \in Nat \ {0}
  BY DEF RowsOf, EventsTypeOK, EventRows
<1>2. K \subseteq ReportKeys
  BY DEF RowsOf
<1>3. IsFiniteSet(K)
  BY <1>2, EventsAssumption, FS_Subset
<1>4. IsFiniteSet({logged[f][k].number : k \in K})
  <2> DEFINE F == [k \in K |-> logged[f][k].number]
             R == {logged[f][k].number : k \in K}
  <2>1. F \in [K -> R] /\ \A y \in R : \E x \in K : F[x] = y
    OBVIOUS
  <2>2. F \in Surjection(K, R)
    BY <2>1 DEF Surjection
  <2> HIDE DEF K, F, R
  <2>3. IsFiniteSet(R)
    BY <1>3, <2>2, FS_Surjection
  <2> QED BY <2>3 DEF R
<1> QED BY <1>1, <1>4 DEF Numbers

\* The numbers of a set that are below one number.
Below(S, n) == {m \in S : m < n}

\* The first rows of a bounded, finite set of numbers: whatever is left out is above them.
LEMMA FirstRows ==
    ASSUME NEW S, IsFiniteSet(S), S \subseteq Nat, NEW size \in Nat \ {0}, NEW P,
           \A n : n \in P <=> n \in S /\ Cardinality(Below(S, n)) < size
    PROVE  /\ P \subseteq S /\ (S # {} => P # {})
           /\ \A n \in P, m \in S : m < n => m \in P
<1>0. \A n \in S : n \in Nat
  OBVIOUS
<1> DEFINE B(n) == Below(S, n)
<1>1. \A n \in S : IsFiniteSet(B(n)) /\ Cardinality(B(n)) \in Nat
  <2> TAKE n \in S
  <2>1. B(n) \subseteq S
    BY DEF Below
  <2> QED BY <2>1, FS_Subset, FS_CardinalityType
<1>2. ASSUME S # {} PROVE P # {}
  <2>1. PICK n \in S : \A m \in S : n <= m
    BY <1>2, LeastNat
  <2>2. \A m \in S : ~ (m < n)
    BY <1>0, <2>1
  <2>3. B(n) = {}
    BY <2>2 DEF Below
  <2>4. Cardinality(B(n)) = 0
    BY <2>3, FS_EmptySet
  <2> QED BY <2>4
<1>3. ASSUME NEW n \in P, NEW m \in S, m < n PROVE m \in P
  <2>1. n \in S /\ Cardinality(B(n)) < size
    OBVIOUS
  <2>2. B(m) \subseteq B(n)
    <3>1. \A x \in S : x < m => x < n
      BY <1>0, <1>3, <2>1
    <3> QED BY <3>1 DEF Below
  <2> HIDE DEF B
  <2>3. Cardinality(B(m)) <= Cardinality(B(n))
    BY <1>1, <2>1, <2>2, FS_Subset
  <2>4. Cardinality(B(m)) < size
    BY <1>1, <2>1, <2>3
  <2> QED BY <2>4 DEF B
<1> QED BY <1>2, <1>3

\* A finite set of numbers is bounded.
LEMMA FiniteHasMax ==
    ASSUME NEW S, IsFiniteSet(S), S \subseteq Nat, S # {}
    PROVE  Max(S) \in S /\ \A n \in S : n <= Max(S)
<1>0. \A n \in S : n \in Nat
  OBVIOUS
<1> DEFINE C(n) == Cardinality({m \in S : m > n})
           D == {C(n) : n \in S}
<1>1. \A n \in S : IsFiniteSet({m \in S : m > n}) /\ C(n) \in Nat
  <2> TAKE n \in S
  <2>1. {m \in S : m > n} \subseteq S
    OBVIOUS
  <2> QED BY <2>1, FS_Subset, FS_CardinalityType
<1> HIDE DEF C
<1>2. PICK c \in D : \A e \in D : c <= e
  <2>1. D \subseteq Nat /\ D # {}
    BY <1>1
  <2> QED BY <2>1, LeastNat
<1>3. PICK n \in S : c = C(n)
  BY <1>2
<1>4. ASSUME NEW m \in S, m > n PROVE FALSE
  <2>1. {x \in S : x > m} \subseteq {x \in S : x > n} /\ m \in {x \in S : x > n}
        /\ m \notin {x \in S : x > m}
    <3>1. m > n /\ ~ (m > m) /\ \A x \in S : x > m => x > n
      BY <1>0, <1>4
    <3> QED BY <3>1
  <2>2. C(m) <= C(n) /\ (C(n) = C(m) => {x \in S : x > n} = {x \in S : x > m})
    BY <1>1, <2>1, FS_Subset DEF C
  <2>3. C(n) <= C(m)
    BY <1>2, <1>3
  <2>4. C(n) \in Nat /\ C(m) \in Nat
    BY <1>1
  <2>5. C(n) = C(m)
    BY <2>2, <2>3, <2>4
  <2> QED BY <2>1, <2>2, <2>5
<1>5. n + 1 \in Nat /\ \A m \in S : m < n + 1
  BY <1>0, <1>4
<1>6. PICK b \in Nat : \A m \in S : m < b
  BY <1>5
<1> QED BY <1>6, MaxOfBounded

\* A page follows the ones before it, and the last one leaves nothing above.
LEMMA PageKeepsEvents ==
    ASSUME EventsInv, NEW f \in Feeds, ListPage(f)
    PROVE  EventsInv'
<1>0. EventsTypeOK /\ WalkInv
  BY DEF EventsInv
<1>1. PICK t, c, above : /\ t = pager.tenant /\ c = pager.cursor /\ above = Numbers(f, t, c)
  OBVIOUS
<1>2. PICK page : page = {n \in above : Cardinality({m \in above : m < n}) < PageRows}
  OBVIOUS
<1>3. /\ pager.at = "page" /\ pager.feed = f
      /\ pager' = IF page # above
                  THEN [pager EXCEPT !.seen = Append(@, page), !.cursor = Max(page)]
                  ELSE [pager EXCEPT !.seen = Append(@, page), !.at = "end"]
      /\ UNCHANGED <<logged, nextValue, report, reported, eventLinks, answers>>
  BY <1>1, <1>2 DEF ListPage
<1>4. pager \in Walks /\ c \in Nat /\ pager.seen \in Seq(SUBSET Nat) /\ pager.before \in SUBSET Nat
  BY <1>0, <1>1, <1>3 DEF EventsTypeOK, Idle, Walks
<1>5. /\ IsFiniteSet(above) /\ above \subseteq Nat
      /\ \A n : n \in above <=> n \in Numbers(f, t, 0) /\ n > c
  BY <1>0, <1>1, <1>4, NumbersType
<1>6. /\ page \subseteq above /\ (above # {} => page # {})
      /\ \A n \in page, m \in above : m < n => m \in page
  <2>1. PageRows \in Nat \ {0}
    BY EventsAssumption
  <2>2. IsFiniteSet(above) /\ above \subseteq Nat
    BY <1>5
  <2>3. \A n : n \in page <=> n \in above /\ Cardinality(Below(above, n)) < PageRows
    BY <1>2 DEF Below
  <2> QED BY <2>1, <2>2, <2>3, FirstRows
<1>7. page \in SUBSET Nat /\ IsFiniteSet(page)
  BY <1>5, <1>6, FS_Subset
<1>8. PICK s \in Seq(SUBSET Nat) : s = pager.seen
  BY <1>4
<1>9. PICK z \in Seq(SUBSET Nat) : z = Append(s, page)
  <2>1. Append(s, page) \in Seq(SUBSET Nat)
    BY <1>7, <1>8
  <2> QED BY <2>1
<1>10. /\ Len(z) = Len(s) + 1 /\ z[Len(s) + 1] = page /\ Len(s) \in Nat
       /\ \A i \in 1..Len(s) : z[i] = s[i]
  BY <1>7, <1>9
<1>11. /\ \A i, j \in 1..Len(s) : i < j => \A m \in s[i], n \in s[j] : m < n
       /\ \A i \in 1..Len(s) : \A n \in s[i] : n <= c
       /\ pager.before \subseteq Numbers(f, t, 0)
       /\ \A n \in pager.before : n <= c => \E i \in 1..Len(s) : n \in s[i]
  BY <1>0, <1>1, <1>3, <1>8 DEF WalkInv, Idle
<1>12. \A i, j \in 1..Len(z) : i < j => \A m \in z[i], n \in z[j] : m < n
  <2> SUFFICES ASSUME NEW i \in 1..Len(z), NEW j \in 1..Len(z), i < j, NEW m \in z[i], NEW n \in z[j]
               PROVE  m < n
    OBVIOUS
  <2>1. i \in 1..Len(s) /\ z[i] = s[i] /\ m \in Nat
    BY <1>9, <1>10
  <2>2. CASE j \in 1..Len(s)
    BY <1>10, <1>11, <2>1, <2>2
  <2>3. CASE j = Len(s) + 1
    <3>1. n \in above /\ n > c /\ n \in Nat
      BY <1>5, <1>6, <1>10, <2>3
    <3>2. m <= c
      BY <1>11, <2>1
    <3> QED BY <1>4, <2>1, <3>1, <3>2
  <2> QED BY <1>10, <2>2, <2>3
<1>13. \A n \in pager.before : n <= c \/ n \in page =>
          \E i \in 1..Len(z) : n \in z[i]
  <2> SUFFICES ASSUME NEW n \in pager.before, n <= c \/ n \in page
               PROVE  \E i \in 1..Len(z) : n \in z[i]
    OBVIOUS
  <2>1. CASE n <= c
    <3>1. PICK i \in 1..Len(s) : n \in s[i]
      BY <1>11, <2>1
    <3> QED BY <1>10, <3>1
  <2>2. CASE n \in page
    <3>1. Len(s) + 1 \in 1..Len(z)
      BY <1>10
    <3> QED BY <1>10, <2>2, <3>1
  <2> QED BY <2>1, <2>2
<1>14. CASE page # above
  <2>1. page # {}
    BY <1>6, <1>14
  <2>2. PICK x \in Nat : x = Max(page) /\ x \in page /\ \A n \in page : n <= x
    BY <1>7, <2>1, FiniteHasMax
  <2>3. /\ pager' \in Walks /\ pager'.at = "page" /\ pager'.feed = f /\ pager'.tenant = t
        /\ pager'.cursor = x /\ pager'.seen = z /\ pager'.before = pager.before
    BY <1>1, <1>3, <1>4, <1>8, <1>9, <1>14, <2>2 DEF Walks
  <2>4. x > c
    BY <1>5, <1>6, <2>2
  <2>5. \A i \in 1..Len(z) : \A n \in z[i] : n <= x
    <3> SUFFICES ASSUME NEW i \in 1..Len(z), NEW n \in z[i] PROVE n <= x
      OBVIOUS
    <3>1. n \in Nat
      BY <1>9
    <3>2. CASE i \in 1..Len(s)
      BY <1>4, <1>10, <1>11, <2>4, <3>1, <3>2
    <3>3. CASE i = Len(s) + 1
      BY <1>10, <2>2, <3>3
    <3> QED BY <1>10, <3>2, <3>3
  <2>6. ASSUME NEW n \in pager.before, n <= x PROVE n <= c \/ n \in page
    <3>1. n \in Nat /\ n \in Numbers(f, t, 0)
      BY <1>4, <1>11
    <3>2. CASE n > c
      <4>1. n \in above
        BY <1>5, <3>1, <3>2
      <4>2. n = x \/ n < x
        BY <2>2, <2>6, <3>1
      <4> QED BY <1>6, <2>2, <4>1, <4>2
    <3> QED BY <1>4, <3>1, <3>2
  <2>7. Numbers(f, t, 0)' = Numbers(f, t, 0)
    BY <1>3 DEF Numbers, RowsOf
  <2>8. pager'.before \subseteq Numbers(pager.feed, pager.tenant, 0)'
    <3>1. Numbers(pager.feed, pager.tenant, 0)' = Numbers(f, t, 0)'
      BY <2>3 DEF Numbers, RowsOf
    <3> QED BY <1>11, <2>3, <2>7, <3>1
  <2>9. WalkInv'
    BY <1>12, <1>13, <2>3, <2>5, <2>6, <2>8 DEF WalkInv
  <2> QED BY <1>3, <2>3, <2>9, WalkFrame
<1>15. CASE page = above
  <2>1. /\ pager' \in Walks /\ pager'.at = "end" /\ pager'.seen = z /\ pager'.before = pager.before
    BY <1>1, <1>3, <1>4, <1>8, <1>9, <1>15 DEF Walks
  <2>2. \A n \in pager.before : n <= c \/ n \in page
    BY <1>4, <1>5, <1>11, <1>15
  <2>3. WalkInv'
    BY <1>12, <1>13, <2>1, <2>2 DEF WalkInv
  <2> QED BY <1>3, <2>1, <2>3, WalkFrame
<1> QED BY <1>14, <1>15

\* Every step of products and tenants keeps EventsInv.
LEMMA EventsStep == EventsInv /\ [EventsNext]_eventVars => EventsInv'
<1> SUFFICES ASSUME EventsInv, [EventsNext]_eventVars PROVE EventsInv'
  OBVIOUS
<1>1. ASSUME NEW d \in Reports, ReportStep(d) PROVE EventsInv'
  <2>1. ASSUME NEW k \in ReportKeys, NEW t \in ReportTenants,
               ingest_identity_event(d, k, t) \/ ingest_safety_event(d, k, t)
        PROVE  EventsInv'
    BY <2>1, ReceiveKeeps DEF ingest_identity_event, ingest_safety_event
  <2>2. ASSUME insert_identity_event(d) \/ insert_safety_event(d) PROVE EventsInv'
    <3>1. PICK f : InsertEvent(d, f)
      BY <2>2 DEF insert_identity_event, insert_safety_event
    <3>2. report[d].at = "insert" /\ report[d].feed = f
      BY <3>1 DEF InsertEvent
    <3>3. f \in Feeds
      <4>1. report[d] = Idle \/ report[d] \in AskedReports \/ report[d] \in WrittenReports
        BY DEF EventsInv, EventsTypeOK
      <4>2. report[d] # Idle
        BY <3>2 DEF Idle
      <4> QED BY <3>2, <4>1, <4>2 DEF AskedReports, WrittenReports
    <3> QED BY <3>1, <3>3, InsertKeepsEvents
  <2>3. ASSUME append_identity_audit_link(d) \/ append_safety_audit_link(d) PROVE EventsInv'
    <3>1. PICK f : AppendLink(d, f)
      BY <2>3 DEF append_identity_audit_link, append_safety_audit_link
    <3>2. report[d].at = "link" /\ report[d].feed = f
      BY <3>1 DEF AppendLink
    <3>3. f \in Feeds
      BY <3>2, WrittenAtWork DEF EventsInv
    <3> QED BY <3>1, <3>3, LinkKeeps
  <2> QED BY <1>1, <2>1, <2>2, <2>3, CommitKeepsEvents, AnswerKeeps, DiesKeeps DEF ReportStep
<1>2. ASSUME NEW f \in Feeds, NEW t \in ReportTenants, OpenListing(f, t) PROVE EventsInv'
  <2>1. PICK all : all = Numbers(f, t, 0)
    OBVIOUS
  <2>2. all \subseteq Nat
    BY <2>1, NumbersType DEF EventsInv
  <2>3. /\ pager' = [at |-> "page", feed |-> f, tenant |-> t, cursor |-> 0,
                    before |-> all, seen |-> <<>>]
        /\ UNCHANGED <<logged, nextValue, report, reported, eventLinks, answers>>
    BY <1>2, <2>1 DEF OpenListing
  <2>4. /\ pager' \in Walks /\ pager'.at = "page" /\ pager'.feed = f /\ pager'.tenant = t
        /\ pager'.cursor = 0 /\ pager'.before = all /\ pager'.seen = <<>>
    BY <2>2, <2>3 DEF Walks
  <2>5. \A n \in all : n > 0
    BY <2>1, NumbersType DEF EventsInv
  <2>6. Numbers(pager.feed, pager.tenant, 0)' = all
    BY <2>1, <2>3, <2>4 DEF Numbers, RowsOf
  <2>7. WalkInv'
    <3>1. Len(pager'.seen) = 0
      BY <2>4
    <3>2. \A i \in 1..Len(pager'.seen) : FALSE
      BY <3>1
    <3>3. \A n \in all : ~(n <= 0)
      BY <2>2, <2>5
    <3> QED BY <2>4, <2>6, <3>2, <3>3 DEF WalkInv
  <2> QED BY <2>3, <2>4, <2>7, WalkFrame
<1>3. ASSUME list_identity_events \/ list_safety_events PROVE EventsInv'
  <2>1. PICK f : ListPage(f)
    BY <1>3 DEF list_identity_events, list_safety_events
  <2>2. pager.at = "page" /\ pager.feed = f
    BY <2>1 DEF ListPage
  <2>3. f \in Feeds
    BY <2>2 DEF EventsInv, EventsTypeOK, Idle, Walks
  <2> QED BY <2>1, <2>3, PageKeepsEvents
<1>4. ASSUME CloseListing PROVE EventsInv'
  <2>1. pager' = Idle /\ UNCHANGED <<logged, nextValue, report, reported, eventLinks, answers>>
    BY <1>4 DEF CloseListing
  <2>2. WalkInv'
    BY <2>1 DEF WalkInv, Idle
  <2> QED BY <2>1, <2>2, WalkFrame
<1>5. ASSUME UNCHANGED eventVars PROVE EventsInv'
  <2>1. UNCHANGED <<logged, nextValue, report, reported, eventLinks, answers, pager>>
    BY <1>5 DEF eventVars
  <2>2. WalkInv' /\ pager' \in {Idle} \cup Walks
    BY <2>1, WalkKept DEF EventsInv, EventsTypeOK
  <2> QED BY <2>1, <2>2, WalkFrame
<1> QED BY <1>1, <1>2, <1>3, <1>4, <1>5 DEF EventsNext

\* For any number of requests, keys and tenants, however reports race, are repeated or
\* die, a key has one row and at most one "accepted" link, every 202 has its link, and a
\* walk through the pages misses no row that was there at its start
\* (ingest_identity_event, list_identity_events and their safety twins).
THEOREM EventsStayRecorded == EventsSpec => []EventsAreRecorded
<1>1. EventsInv => EventsAreRecorded
  <2> SUFFICES ASSUME EventsInv PROVE EventsAreRecorded
    OBVIOUS
  <2>1. LinksMatchRows
    <3> SUFFICES ASSUME NEW f \in Feeds, NEW k \in ReportKeys
                 PROVE  /\ \A i, j \in AcceptedLinks(f, k) : i = j
                        /\ eventLinks[f][k] # <<>> => logged[f][k] # NoRow
                        /\ answers[f][k] <= Len(eventLinks[f][k])
                        /\ AcceptedLinks(f, k) # {} =>
                              \A d \in Reports :
                                 report[d].at \in {"commit", "link"} /\ report[d].feed = f
                                 /\ report[d].key = k => ~report[d].inserted
      BY DEF LinksMatchRows
    <3>1. Linked(f, k)
      BY DEF EventsInv
    <3>2. answers[f][k] \in Nat /\ Len(eventLinks[f][k]) \in Nat
          /\ Cardinality(Answering(f, k)) \in Nat
      BY AnsweringType DEF EventsInv, EventsTypeOK
    <3>3. answers[f][k] <= Len(eventLinks[f][k])
      BY <3>1, <3>2 DEF Linked
    <3>4. ASSUME AcceptedLinks(f, k) # {}, NEW d \in Reports, report[d].at \in {"commit", "link"},
                 report[d].feed = f, report[d].key = k, report[d].inserted
          PROVE  FALSE
      <4>1. d \in Makers(f, k)
        BY <3>4 DEF Makers, Concerns
      <4> QED BY <3>1, <3>4, <4>1 DEF Linked
    <3> QED BY <3>1, <3>3, <3>4 DEF Linked
  <2>2. WalkIsComplete
    BY DEF EventsInv, WalkInv, WalkIsComplete, Idle
  <2> QED BY <2>1, <2>2 DEF EventsAreRecorded
<1> QED BY <1>1, EventsStart, EventsStep, PTL DEF EventsSpec

-----------------------------------------------------------------------------
(* The registry of Sentinels *)

RowHealths == {"unknown", "healthy", "degraded", "unreachable"}
FleetRows ==
    [endpoint : Endpoints, capable : BOOLEAN, enabled : BOOLEAN,
     health : RowHealths, failures : Nat, checked : Nat]
NewRows == {NewRow(e, b) : e \in Endpoints, b \in BOOLEAN}
RegistryCalls ==
    {NoRequest}
        \cup [at : {"read", "write"}, call : {"register"}, id : Fleet, row : NewRows]
        \cup [at : {"read", "write", "link"}, call : {"modify"}, id : Fleet, row : Changes]
        \cup [at : {"read", "write", "link"}, call : {"deregister"}, id : Fleet]
RelayRecords ==
    {NoRequest, [at |-> "gone"], [at |-> "error"]}
        \cup [at : {"validate", "post"}, endpoint : Endpoints, heard : BOOLEAN]
        \cup [at : {"audit", "answered"}, sent : BOOLEAN, disposition : {"blocked", "forwarded", "failed"}]

\* What the history says of a row, now or when it was read: its failures happened, and a
\* healthy row is no younger than the last answer of its sentinel.
RowIsTrue(s, row) ==
    /\ row.failures <= probeFails[s]
    /\ row.health = "healthy" => answeredAt[s] # NeverChecked /\ row.checked <= answeredAt[s]
RowsAreTrue(rows) ==
    DOMAIN rows \subseteq Fleet /\ \A s \in DOMAIN rows : rows[s] \in FleetRows /\ RowIsTrue(s, rows[s])

HistoryInv ==
    /\ fleetTime \in 0..MaxFleetTime
    /\ probeFails \in [Fleet -> Nat]
    /\ answeredAt \in [Fleet -> Nat]
    /\ \A s \in Fleet : answeredAt[s] <= fleetTime \/ answeredAt[s] = NeverChecked

RegistryInv ==
    /\ registry \in [Fleet -> {Unregistered} \cup FleetRows]
    /\ registryLog \in [Fleet -> Seq({"register", "modify", "deregister"})]
    /\ deletions \in [Fleet -> Nat]
    /\ registrar \in [Registrars -> RegistryCalls]
    /\ \A s \in Registered : RowIsTrue(s, registry[s])
    /\ RegisteredOnce

\* What a probe found is counted, and a success was an answer.
FindingIsTrue(c) ==
    LET found == cycle[c].found
        s == At(c)
    IN  /\ found.health \in RowHealths /\ found.failures \in Nat /\ cycle[c].when \in Nat
        /\ found.failures <= probeFails[s]
        /\ found.health = "healthy" => answeredAt[s] # NeverChecked /\ cycle[c].when <= answeredAt[s]

CycleInv ==
    /\ DOMAIN cycle = Cycles
    /\ \A c \in Cycles : cycle[c] # NoRequest =>
          /\ cycle[c].at \in {"probe", "save"}
          /\ DOMAIN cycle[c].rows # {} /\ RowsAreTrue(cycle[c].rows)
          /\ cycle[c].at = "save" => FindingIsTrue(c)

PushInv ==
    /\ DOMAIN push = Pushes
    /\ \A p \in Pushes :
          /\ push[p].at = "select" => RowsAreTrue(push[p].rows)
          /\ push[p].at = "driven" =>
                \A s \in DOMAIN push[p].verdict : push[p].verdict[s] = "none" => s \in push[p].heard

RelayInv ==
    /\ relay \in [Relays -> RelayRecords]
    /\ relayLog \in [Relays -> Seq({"blocked", "forwarded", "failed"})]
    /\ \A r \in Relays :
          /\ relay[r].at \in {"validate", "post"} => relay[r].heard
          /\ relay[r].at \in {"audit", "answered"} => relay[r].sent = (relay[r].disposition # "blocked")
          /\ relay[r].at = "answered" => relayLog[r] = <<relay[r].disposition>>
          /\ relay[r].at # "answered" => relayLog[r] = <<>>

FleetInv == HistoryInv /\ RegistryInv /\ CycleInv /\ PushInv /\ RelayInv

\* Whatever is probed is an endpoint its sentinel has had, so one that has had a single
\* endpoint was answered by no other.
LivedInv ==
    /\ DOMAIN lived = Fleet /\ DOMAIN answeredBy = Fleet
    /\ \A s \in Registered : registry[s].endpoint \in lived[s]
    /\ \A c \in Cycles : cycle[c] # NoRequest =>
          \A s \in DOMAIN cycle[c].rows : cycle[c].rows[s].endpoint \in lived[s]
    /\ \A s \in Fleet :
          /\ answeredBy[s] \subseteq lived[s]
          /\ answeredAt[s] # NeverChecked => answeredBy[s] # {}

LEMMA RegisteredRows ==
    ASSUME RegistryInv
    PROVE  \A s : s \in Registered <=> s \in Fleet /\ registry[s] \in FleetRows
<1>1. \A x \in FleetRows : x # Unregistered
  <2> SUFFICES ASSUME NEW x \in FleetRows PROVE x # Unregistered
    OBVIOUS
  <2>1. x.health \in RowHealths
    BY DEF FleetRows
  <2> QED BY <2>1 DEF RowHealths, Unregistered
<1> QED BY <1>1 DEF RegistryInv, Registered

\* The invariant implies the property.
LEMMA FleetInvKnown == FleetInv => FleetIsKnown
<1> SUFFICES ASSUME FleetInv PROVE FleetIsKnown
  OBVIOUS
<1>1. UsedWasHealthy
  BY DEF UsedWasHealthy, FleetInv, PushInv, RelayInv
<1>2. FailuresAreReal
  BY DEF FailuresAreReal, FleetInv, RegistryInv, RowIsTrue
<1>3. RegisteredOnce
  BY DEF FleetInv, RegistryInv
<1>4. RelaysAreExplained
  <2> SUFFICES ASSUME NEW r \in Relays
               PROVE  /\ relay[r].at = "answered" => /\ Len(relayLog[r]) = 1
                                                     /\ relay[r].sent = (relayLog[r][1] # "blocked")
                      /\ relay[r].at # "answered" => relayLog[r] = <<>>
    BY DEF RelaysAreExplained
  <2>1. CASE relay[r].at = "answered"
    <3>1. /\ relayLog[r] = <<relay[r].disposition>>
          /\ relay[r].sent = (relay[r].disposition # "blocked")
      BY <2>1 DEF FleetInv, RelayInv
    <3>2. Len(relayLog[r]) = 1 /\ relayLog[r][1] = relay[r].disposition
      BY <3>1
    <3> QED BY <2>1, <3>1, <3>2, Zenon
  <2>2. CASE relay[r].at # "answered"
    BY <2>2 DEF FleetInv, RelayInv
  <2> QED BY <2>1, <2>2
<1> QED BY <1>1, <1>2, <1>3, <1>4 DEF FleetIsKnown

\* Initially nothing is registered.
LEMMA FleetStart == FleetInit => FleetInv
<1> SUFFICES ASSUME FleetInit PROVE FleetInv
  OBVIOUS
<1> USE DEF FleetInit, FleetQuiet
<1>1. HistoryInv
  BY FleetAssumption DEF HistoryInv, NeverChecked
<1>2. Registered = {}
  BY DEF Registered
<1>3. RegistryInv
  <2>1. \A s \in Fleet : {i \in DOMAIN registryLog[s] : registryLog[s][i] = "register"} = {}
    OBVIOUS
  <2>2. RegisteredOnce
    BY <2>1, <1>2, FS_EmptySet DEF RegisteredOnce
  <2> QED BY <2>2, <1>2 DEF RegistryInv, RegistryCalls
<1>4. CycleInv /\ PushInv
  BY DEF CycleInv, PushInv, NoRequest
<1>5. RelayInv
  BY DEF RelayInv, RelayRecords, NoRequest
<1> QED BY <1>1, <1>3, <1>4, <1>5 DEF FleetInv

\* What is true of a row stays true while the history grows.
LEMMA TruthLasts ==
    ASSUME HistoryInv, HistoryInv', NEW s \in Fleet, NEW row \in FleetRows, RowIsTrue(s, row),
           probeFails'[s] >= probeFails[s],
           answeredAt'[s] = answeredAt[s] \/ answeredAt'[s] = fleetTime
    PROVE  RowIsTrue(s, row)'
<1>1. probeFails[s] \in Nat /\ probeFails'[s] \in Nat /\ row.failures \in Nat /\ row.checked \in Nat
  BY DEF HistoryInv, FleetRows
<1>2. row.failures <= probeFails'[s]
  BY <1>1 DEF RowIsTrue
<1>3. ASSUME row.health = "healthy"
      PROVE  answeredAt'[s] # NeverChecked /\ row.checked <= answeredAt'[s]
  <2>1. answeredAt[s] # NeverChecked /\ row.checked <= answeredAt[s]
    BY <1>3 DEF RowIsTrue
  <2>2. answeredAt[s] <= fleetTime /\ answeredAt[s] \in Nat /\ fleetTime \in Nat /\ fleetTime <= MaxFleetTime
    BY <2>1, FleetAssumption DEF HistoryInv
  <2> QED BY <2>1, <2>2, <1>1, FleetAssumption DEF NeverChecked
<1> QED BY <1>2, <1>3 DEF RowIsTrue, NeverChecked

LEMMA SnapshotsLast ==
    ASSUME HistoryInv, HistoryInv', NEW rows, RowsAreTrue(rows),
           \A s \in Fleet : /\ probeFails'[s] >= probeFails[s]
                            /\ answeredAt'[s] = answeredAt[s] \/ answeredAt'[s] = fleetTime
    PROVE  RowsAreTrue(rows)'
<1>1. ASSUME NEW s \in DOMAIN rows PROVE rows[s] \in FleetRows /\ RowIsTrue(s, rows[s])'
  BY TruthLasts DEF RowsAreTrue
<1> QED BY <1>1 DEF RowsAreTrue

\* Steps that leave the rows of a part alone, and the history with them.
LEMMA RegistryFrame ==
    ASSUME RegistryInv, UNCHANGED <<registry, registryLog, deletions, probeFails, answeredAt>>,
           registrar' \in [Registrars -> RegistryCalls]
    PROVE  RegistryInv'
BY DEF RegistryInv, Registered, RowIsTrue, RegisteredOnce

LEMMA CycleFrame ==
    ASSUME CycleInv, UNCHANGED <<cycle, probeFails, answeredAt>>
    PROVE  CycleInv'
BY DEF CycleInv, RowsAreTrue, RowIsTrue, FindingIsTrue, At

LEMMA PushFrame ==
    ASSUME PushInv, UNCHANGED <<push, probeFails, answeredAt>>
    PROVE  PushInv'
BY DEF PushInv, RowsAreTrue, RowIsTrue

LEMMA RelayFrame ==
    ASSUME RelayInv, UNCHANGED <<relay, relayLog>>
    PROVE  RelayInv'
BY DEF RelayInv

\* The clock and the name service.
LEMMA FleetWorldKeeps ==
    ASSUME FleetInv, UNCHANGED <<rowVars, probeVars, registrar, cycle, push, relay, relayLog>>,
           fleetTime' \in 0..MaxFleetTime, fleetTime' >= fleetTime
    PROVE  FleetInv'
<1>1. UNCHANGED <<registry, registryLog, deletions, probeFails, answeredAt, registrar>>
  BY DEF rowVars, probeVars
<1>2. HistoryInv'
  <2>1. fleetTime \in Nat
    BY FleetAssumption DEF FleetInv, HistoryInv
  <2> QED BY <1>1, <2>1, FleetAssumption DEF FleetInv, HistoryInv, NeverChecked
<1>3. RegistryInv'
  BY <1>1, RegistryFrame DEF FleetInv, RegistryInv
<1> QED BY <1>1, <1>2, <1>3, CycleFrame, PushFrame, RelayFrame DEF FleetInv

\* A change of some fields of a row keeps the others.
LEMMA RowChanges ==
    ASSUME NEW row \in FleetRows, NEW change \in Changes, NEW new,
           new = [f \in DOMAIN row |-> IF f \in DOMAIN change THEN change[f] ELSE row[f]]
    PROVE  /\ new \in FleetRows /\ new.failures = row.failures
           /\ new.health = row.health /\ new.checked = row.checked
<1>1. DOMAIN row = {"endpoint", "capable", "enabled", "health", "failures", "checked"}
  BY DEF FleetRows
<1>2. CASE change \in [enabled : BOOLEAN]
  <2>1. DOMAIN change = {"enabled"} /\ change["enabled"] \in BOOLEAN
    BY <1>2
  <2> QED BY <1>1, <2>1 DEF FleetRows
<1>3. CASE change \in [endpoint : Endpoints]
  <2>1. DOMAIN change = {"endpoint"} /\ change["endpoint"] \in Endpoints
    BY <1>3
  <2> QED BY <1>1, <2>1 DEF FleetRows
<1>4. CASE change \in [capable : BOOLEAN]
  <2>1. DOMAIN change = {"capable"} /\ change["capable"] \in BOOLEAN
    BY <1>4
  <2> QED BY <1>1, <2>1 DEF FleetRows
<1> QED BY <1>2, <1>3, <1>4 DEF Changes

RegisterLinks(s) == {i \in DOMAIN registryLog[s] : registryLog[s][i] = "register"}

\* One more link of a sentinel.
LEMMA LinkAppended ==
    ASSUME RegistryInv, NEW s \in Fleet, NEW a \in {"register", "modify", "deregister"}, Accept(s, a)
    PROVE  /\ registryLog' \in [Fleet -> Seq({"register", "modify", "deregister"})]
           /\ \A u \in Fleet : u # s => RegisterLinks(u)' = RegisterLinks(u)
           /\ Cardinality(RegisterLinks(s)) \in Nat
           /\ Cardinality(RegisterLinks(s)') =
                 Cardinality(RegisterLinks(s)) + (IF a = "register" THEN 1 ELSE 0)
<1> DEFINE l == registryLog[s]
           n == Len(l)
<1>1. /\ registryLog' = [registryLog EXCEPT ![s] = Append(l, a)]
      /\ registryLog \in [Fleet -> Seq({"register", "modify", "deregister"})]
  BY DEF Accept, RegistryInv
<1>2. /\ l \in Seq({"register", "modify", "deregister"})
      /\ Append(l, a) \in Seq({"register", "modify", "deregister"})
  BY <1>1
<1>3. registryLog' \in [Fleet -> Seq({"register", "modify", "deregister"})]
  BY <1>1, <1>2
<1>4. \A u \in Fleet : u # s => RegisterLinks(u)' = RegisterLinks(u)
  BY <1>1 DEF RegisterLinks
<1>5. /\ n \in Nat /\ DOMAIN l = 1..n /\ registryLog'[s] = Append(l, a)
      /\ DOMAIN Append(l, a) = 1..(n + 1)
      /\ \A i \in 1..n : Append(l, a)[i] = l[i]
      /\ Append(l, a)[n + 1] = a
  BY <1>1, <1>2
<1>6. RegisterLinks(s) \subseteq 1..n /\ n + 1 \notin RegisterLinks(s)
  BY <1>5 DEF RegisterLinks
<1>7. IsFiniteSet(RegisterLinks(s)) /\ Cardinality(RegisterLinks(s)) \in Nat
  <2>1. IsFiniteSet(1..n)
    <3>1. n \in Int /\ 1 \in Int
      BY <1>5
    <3> HIDE DEF n
    <3> QED BY <3>1, FS_Interval
  <2>2. IsFiniteSet(RegisterLinks(s))
    BY <2>1, <1>6, FS_Subset
  <2> QED BY <2>2, FS_CardinalityType
<1>8. RegisterLinks(s)' = IF a = "register" THEN RegisterLinks(s) \cup {n + 1} ELSE RegisterLinks(s)
  BY <1>5 DEF RegisterLinks
<1>9. Cardinality(RegisterLinks(s) \cup {n + 1}) = Cardinality(RegisterLinks(s)) + 1
  BY <1>6, <1>7, FS_AddElement
<1> QED BY <1>3, <1>4, <1>7, <1>8, <1>9

\* A step of a call changes the rows, the links and the deletions of one sentinel.
LEMMA OneRowChanges ==
    ASSUME RegistryInv, NEW s \in Fleet, NEW a \in {"register", "modify", "deregister"}, Accept(s, a),
           NEW row \in {Unregistered} \cup FleetRows, registry' = [registry EXCEPT ![s] = row],
           row # Unregistered => RowIsTrue(s, row),
           NEW d \in {0, 1}, deletions' = [deletions EXCEPT ![s] = @ + d],
           UNCHANGED <<probeFails, answeredAt>>,
           registrar' \in [Registrars -> RegistryCalls],
           (IF s \in Registered THEN 1 ELSE 0) + (IF a = "register" THEN 1 ELSE 0) =
               d + (IF row # Unregistered THEN 1 ELSE 0)
    PROVE  RegistryInv'
<1>1. /\ registryLog' \in [Fleet -> Seq({"register", "modify", "deregister"})]
      /\ \A u \in Fleet : u # s => RegisterLinks(u)' = RegisterLinks(u)
      /\ Cardinality(RegisterLinks(s)) \in Nat
      /\ Cardinality(RegisterLinks(s)') =
            Cardinality(RegisterLinks(s)) + (IF a = "register" THEN 1 ELSE 0)
  BY LinkAppended
<1>2. /\ registry \in [Fleet -> {Unregistered} \cup FleetRows] /\ deletions \in [Fleet -> Nat]
      /\ \A u \in Registered : RowIsTrue(u, registry[u])
      /\ \A u \in Fleet : Cardinality(RegisterLinks(u)) = deletions[u] + (IF u \in Registered THEN 1 ELSE 0)
  BY DEF RegistryInv, RegisteredOnce, RegisterLinks
<1>3. /\ registry' \in [Fleet -> {Unregistered} \cup FleetRows]
      /\ deletions' \in [Fleet -> Nat] /\ deletions'[s] = deletions[s] + d
      /\ \A u \in Fleet : u # s => registry'[u] = registry[u] /\ deletions'[u] = deletions[u]
      /\ registry'[s] = row
  BY <1>2
<1>4. /\ s \in Registered' <=> row # Unregistered
      /\ \A u \in Fleet : u # s => (u \in Registered' <=> u \in Registered)
  BY <1>3 DEF Registered
<1>5. \A u \in Registered' : RowIsTrue(u, registry[u])'
  <2> SUFFICES ASSUME NEW u \in Registered' PROVE RowIsTrue(u, registry[u])'
    OBVIOUS
  <2>1. u \in Fleet
    BY DEF Registered
  <2>2. CASE u = s
    BY <2>2, <1>3, <1>4 DEF RowIsTrue, NeverChecked
  <2>3. CASE u # s
    BY <2>1, <2>3, <1>2, <1>3, <1>4 DEF RowIsTrue, NeverChecked
  <2> QED BY <2>2, <2>3
<1>6. RegisteredOnce'
  <2> SUFFICES ASSUME NEW u \in Fleet
               PROVE  Cardinality(RegisterLinks(u)') = deletions'[u] + (IF u \in Registered' THEN 1 ELSE 0)
    BY DEF RegisteredOnce, RegisterLinks
  <2>1. CASE u = s
    <3>1. deletions[s] \in Nat /\ Cardinality(RegisterLinks(s)) = deletions[s] + (IF s \in Registered THEN 1 ELSE 0)
      BY <1>2
    <3> QED BY <2>1, <3>1, <1>1, <1>3, <1>4
  <2>2. CASE u # s
    BY <2>2, <1>1, <1>2, <1>3, <1>4
  <2> QED BY <2>1, <2>2
<1> QED BY <1>1, <1>3, <1>5, <1>6 DEF RegistryInv

\* The calls of the operators.
LEMMA RegistrarKeeps ==
    ASSUME FleetInv, NEW o \in Registrars, RegistrarStep(o)
    PROVE  RegistryInv'
<1>1. /\ registrar \in [Registrars -> RegistryCalls] /\ registrar[o] \in RegistryCalls
      /\ RegistryInv
  BY DEF FleetInv, RegistryInv
<1>2. NoRequest \in RegistryCalls /\ NoRequest.at = "idle"
  BY DEF RegistryCalls, NoRequest
<1>3. EndCall(o) => registrar' \in [Registrars -> RegistryCalls]
  BY <1>1, <1>2 DEF EndCall
<1>4. ASSUME NEW request \in RegistryCalls, NEW s \in Fleet, NEW e \in Endpoints, ValidateEndpoint(o, s, e, request)
      PROVE  RegistryInv'
  <2>1. UNCHANGED <<registry, registryLog, deletions, probeFails, answeredAt>>
    BY <1>4 DEF ValidateEndpoint, othersIdle, probeVars
  <2>2. registrar' = registrar \/ registrar' = [registrar EXCEPT ![o] = request]
    BY <1>4 DEF ValidateEndpoint
  <2>3. registrar' \in [Registrars -> RegistryCalls]
    BY <2>2, <1>1
  <2> QED BY <1>1, <2>1, <2>3, RegistryFrame
<1>5. ASSUME NEW s \in Fleet, NEW e \in Endpoints, NEW capable \in BOOLEAN, register_sentinel(o, s, e, capable)
      PROVE  RegistryInv'
  <2> DEFINE request == [at |-> "read", call |-> "register", id |-> s, row |-> NewRow(e, capable)]
  <2>1. request \in RegistryCalls
    BY DEF RegistryCalls, NewRows
  <2>2. ValidateEndpoint(o, s, e, request)
    BY <1>5 DEF register_sentinel
  <2> HIDE DEF request
  <2> QED BY <2>1, <2>2, <1>4
<1>6. ASSUME NEW s \in Fleet, NEW change \in Changes, modify_sentinel(o, s, change)
      PROVE  RegistryInv'
  <2> DEFINE request == [at |-> "read", call |-> "modify", id |-> s, row |-> change]
  <2>1. request \in RegistryCalls
    BY DEF RegistryCalls
  <2>2. CASE "endpoint" \in DOMAIN change
    <3>1. change.endpoint \in Endpoints
      <4>1. change \notin [enabled : BOOLEAN] /\ change \notin [capable : BOOLEAN]
        BY <2>2
      <4> QED BY <4>1 DEF Changes
    <3>2. ValidateEndpoint(o, s, change.endpoint, request)
      BY <1>6, <2>2 DEF modify_sentinel
    <3> HIDE DEF request
    <3> QED BY <2>1, <3>1, <3>2, <1>4
  <2>3. CASE "endpoint" \notin DOMAIN change
    <3>1. registrar' = [registrar EXCEPT ![o] = request] /\ UNCHANGED <<rowVars, probeVars>>
      BY <1>6, <2>3 DEF modify_sentinel, othersIdle
    <3>2. UNCHANGED <<registry, registryLog, deletions, probeFails, answeredAt>>
      BY <3>1 DEF rowVars, probeVars
    <3> HIDE DEF request
    <3>3. registrar' \in [Registrars -> RegistryCalls]
      BY <3>1, <2>1, <1>1
    <3> QED BY <1>1, <3>2, <3>3, RegistryFrame
  <2> QED BY <2>2, <2>3
<1>7. ASSUME NEW s \in Fleet, deregister_sentinel(o, s)
      PROVE  RegistryInv'
  <2> DEFINE request == [at |-> "read", call |-> "deregister", id |-> s]
  <2>1. request \in RegistryCalls
    BY DEF RegistryCalls
  <2>2. registrar' = [registrar EXCEPT ![o] = request] /\ UNCHANGED <<rowVars, probeVars>>
    BY <1>7 DEF deregister_sentinel, othersIdle
  <2> HIDE DEF request
  <2>3. registrar' \in [Registrars -> RegistryCalls]
    BY <2>1, <2>2, <1>1
  <2>4. UNCHANGED <<registry, registryLog, deletions, probeFails, answeredAt>>
    BY <2>2 DEF rowVars, probeVars
  <2> QED BY <1>1, <2>3, <2>4, RegistryFrame
<1>8. CASE get_sentinel(o) \/ MatchesNoRow(o) \/ CallRollsBack(o)
  <2>1. UNCHANGED <<rowVars, probeVars>>
    BY <1>8 DEF get_sentinel, MatchesNoRow, CallRollsBack, othersIdle
  <2>2. UNCHANGED <<registry, registryLog, deletions, probeFails, answeredAt>>
    BY <2>1 DEF rowVars, probeVars
  <2>3. ASSUME registrar[o].at = "read", Goto(o, "write")
        PROVE  registrar' \in [Registrars -> RegistryCalls]
    <3>1. [registrar[o] EXCEPT !.at = "write"] \in RegistryCalls
      BY <2>3, <1>1 DEF RegistryCalls, NoRequest
    <3> QED BY <2>3, <3>1, <1>1 DEF Goto
  <2>4. ASSUME registrar[o].at = "write", registrar[o].call # "register", Goto(o, "link")
        PROVE  registrar' \in [Registrars -> RegistryCalls]
    <3>1. [registrar[o] EXCEPT !.at = "link"] \in RegistryCalls
      BY <2>4, <1>1 DEF RegistryCalls, NoRequest
    <3> QED BY <2>4, <3>1, <1>1 DEF Goto
  <2>5. registrar' \in [Registrars -> RegistryCalls]
    BY <1>8, <1>3, <2>3, <2>4 DEF get_sentinel, MatchesNoRow, CallRollsBack
  <2> QED BY <1>1, <2>2, <2>5, RegistryFrame
<1>9. CASE insert_sentinel(o)
  <2> DEFINE s == registrar[o].id
             row == registrar[o].row
  <2>1. registrar[o].at = "write" /\ registrar[o].call = "register" /\ UNCHANGED <<probeFails, answeredAt, deletions>>
    BY <1>9 DEF insert_sentinel, othersIdle, probeVars
  <2>2. s \in Fleet /\ row \in NewRows
    BY <2>1, <1>1 DEF RegistryCalls, NoRequest
  <2>3. registrar' \in [Registrars -> RegistryCalls]
    BY <1>9, <1>3 DEF insert_sentinel
  <2>4. row \in FleetRows /\ row.failures = 0 /\ row.health = "unknown"
    <3>1. PICK e \in Endpoints, b \in BOOLEAN : row = NewRow(e, b)
      BY <2>2 DEF NewRows
    <3>2. NeverChecked \in Nat
      BY FleetAssumption DEF NeverChecked
    <3> QED BY <3>1, <3>2 DEF NewRow, FleetRows, RowHealths
  <2>5. row # Unregistered /\ RowIsTrue(s, row)
    BY <2>2, <2>4 DEF RowIsTrue, Unregistered, FleetInv, HistoryInv
  <2>6. CASE s \in Registered
    <3>1. UNCHANGED <<registry, registryLog>>
      BY <1>9, <2>6 DEF insert_sentinel
    <3> QED BY <3>1, <2>1, <2>3, <1>1, RegistryFrame
  <2>7. CASE s \notin Registered
    <3>1. registry' = [registry EXCEPT ![s] = row] /\ Accept(s, "register")
      BY <1>9, <2>7 DEF insert_sentinel
    <3>2. deletions' = [deletions EXCEPT ![s] = @ + 0]
      BY <2>1, <2>2 DEF FleetInv, RegistryInv
    <3> HIDE DEF s, row
    <3> QED BY <3>1, <3>2, <2>1, <2>2, <2>3, <2>4, <2>5, <2>7, <1>1, OneRowChanges
  <2> QED BY <2>6, <2>7
<1>10. CASE update_sentinel(o)
  <2> DEFINE s == registrar[o].id
             change == registrar[o].row
             old == registry[s]
             row == [f \in DOMAIN old |-> IF f \in DOMAIN change THEN change[f] ELSE old[f]]
  <2>1. /\ registrar[o].at = "write" /\ registrar[o].call = "modify" /\ s \in Registered
        /\ UNCHANGED <<probeFails, answeredAt, deletions>>
        /\ registry' = [registry EXCEPT ![s] = row] /\ Accept(s, "modify")
    BY <1>10 DEF update_sentinel, othersIdle, probeVars
  <2>2. s \in Fleet /\ change \in Changes
    BY <2>1, <1>1 DEF RegistryCalls, NoRequest
  <2>3. registrar' \in [Registrars -> RegistryCalls]
    BY <1>10, <1>3 DEF update_sentinel
  <2>4. old \in FleetRows /\ RowIsTrue(s, old)
    BY <2>1, <1>1, RegisteredRows DEF RegistryInv
  <2>5. row \in FleetRows /\ row.failures = old.failures /\ row.health = old.health /\ row.checked = old.checked
    <3> HIDE DEF old, change
    <3> QED BY <2>2, <2>4, RowChanges
  <2> HIDE DEF row, old, change, s
  <2>6. RowIsTrue(s, row)
    BY <2>4, <2>5 DEF RowIsTrue
  <2>7. row # Unregistered
    <3>1. row.health \in RowHealths
      BY <2>5 DEF FleetRows
    <3> QED BY <3>1 DEF RowHealths, Unregistered
  <2>8. deletions' = [deletions EXCEPT ![s] = @ + 0]
    BY <2>1, <2>2, <1>1 DEF RegistryInv
  <2>9. (IF s \in Registered THEN 1 ELSE 0) + (IF "modify" = "register" THEN 1 ELSE 0) =
            0 + (IF row # Unregistered THEN 1 ELSE 0)
    BY <2>1, <2>7
  <2>10. registry' = [registry EXCEPT ![s] = row] /\ Accept(s, "modify") /\ UNCHANGED <<probeFails, answeredAt>>
    BY <2>1
  <2>11. row \in {Unregistered} \cup FleetRows
    BY <2>5
  <2> QED BY <2>2, <2>3, <2>6, <2>8, <2>9, <2>10, <2>11, <1>1, OneRowChanges
<1>11. CASE delete_sentinel(o)
  <2> DEFINE s == registrar[o].id
  <2>1. /\ registrar[o].at = "write" /\ registrar[o].call = "deregister" /\ s \in Registered
        /\ UNCHANGED <<probeFails, answeredAt>>
        /\ registry' = [registry EXCEPT ![s] = Unregistered] /\ Accept(s, "deregister")
        /\ deletions' = [deletions EXCEPT ![s] = @ + 1]
    BY <1>11 DEF delete_sentinel, othersIdle, probeVars
  <2>2. s \in Fleet
    BY <2>1 DEF Registered
  <2>3. registrar' \in [Registrars -> RegistryCalls]
    BY <1>11, <1>3 DEF delete_sentinel
  <2> HIDE DEF s
  <2> QED BY <2>1, <2>2, <2>3, <1>1, OneRowChanges
<1>12. CASE append_registry_audit_link(o)
  <2> DEFINE s == registrar[o].id
             a == registrar[o].call
  <2>1. registrar[o].at = "link" /\ Accept(s, a) /\ UNCHANGED <<registry, deletions, probeFails, answeredAt>>
    BY <1>12 DEF append_registry_audit_link, othersIdle, probeVars
  <2>2. s \in Fleet /\ a \in {"modify", "deregister"}
    BY <2>1, <1>1 DEF RegistryCalls, NoRequest
  <2>3. registrar' \in [Registrars -> RegistryCalls]
    BY <1>12, <1>3 DEF append_registry_audit_link
  <2>4. /\ registry[s] \in {Unregistered} \cup FleetRows
        /\ registry' = [registry EXCEPT ![s] = registry[s]]
        /\ deletions' = [deletions EXCEPT ![s] = @ + 0]
        /\ registry[s] # Unregistered <=> s \in Registered
        /\ s \in Registered => RowIsTrue(s, registry[s])
    BY <2>1, <2>2, <1>1 DEF RegistryInv, Registered
  <2> HIDE DEF s, a
  <2>5. (IF s \in Registered THEN 1 ELSE 0) + (IF a = "register" THEN 1 ELSE 0) =
            0 + (IF registry[s] # Unregistered THEN 1 ELSE 0)
    BY <2>2, <2>4
  <2>6. a \in {"register", "modify", "deregister"} /\ Accept(s, a) /\ UNCHANGED <<probeFails, answeredAt>>
    BY <2>1, <2>2
  <2> QED BY <2>2, <2>3, <2>4, <2>5, <2>6, <1>1, OneRowChanges
<1> QED BY <1>5, <1>6, <1>7, <1>8, <1>9, <1>10, <1>11, <1>12 DEF RegistrarStep

\* Steps of the health cycle grow the history.
HistoryGrows ==
    \A s \in Fleet : /\ probeFails'[s] >= probeFails[s]
                     /\ answeredAt'[s] = answeredAt[s] \/ answeredAt'[s] = fleetTime

CycleIsTrue(c) ==
    cycle[c] # NoRequest =>
        /\ cycle[c].at \in {"probe", "save"}
        /\ DOMAIN cycle[c].rows # {} /\ RowsAreTrue(cycle[c].rows)
        /\ cycle[c].at = "save" => FindingIsTrue(c)

\* A cycle is at one of the rows it read.
LEMMA AtIsRow ==
    ASSUME CycleInv, NEW c \in Cycles, cycle[c] # NoRequest
    PROVE  At(c) \in DOMAIN cycle[c].rows /\ At(c) \in Fleet
<1> DEFINE D == DOMAIN cycle[c].rows
<1>1. D # {} /\ D \subseteq Fleet
  BY DEF CycleInv, RowsAreTrue
<1>2. D \subseteq Nat
  BY <1>1, FleetAssumption
<1> HIDE DEF D
<1>3. \E n \in D : \A m \in D : n <= m
  BY <1>1, <1>2, LeastNat
<1> USE DEF D
<1> QED BY <1>1, <1>3 DEF At

\* What a cycle holds stays true while others go on.
LEMMA CyclesLast ==
    ASSUME FleetInv, HistoryInv', HistoryGrows, NEW d \in Cycles, cycle'[d] = cycle[d]
    PROVE  CycleIsTrue(d)'
<1> SUFFICES ASSUME cycle[d] # NoRequest PROVE CycleIsTrue(d)'
  BY DEF CycleIsTrue
<1>1. CycleIsTrue(d)
  BY DEF FleetInv, CycleInv, CycleIsTrue
<1>2. RowsAreTrue(cycle[d].rows)'
  BY <1>1, SnapshotsLast DEF FleetInv, HistoryGrows, CycleIsTrue, RowsAreTrue
<1>3. CASE cycle[d].at = "save"
  <2> DEFINE s == At(d)
             found == cycle[d].found
  <2>1. s \in Fleet /\ s' = s /\ found' = found
    BY AtIsRow DEF FleetInv, At
  <2>2. /\ found.health \in RowHealths /\ found.failures \in Nat /\ cycle[d].when \in Nat
        /\ found.failures <= probeFails[s]
        /\ found.health = "healthy" => answeredAt[s] # NeverChecked /\ cycle[d].when <= answeredAt[s]
    BY <1>1, <1>3 DEF CycleIsTrue, FindingIsTrue
  <2> HIDE DEF s, found
  <2>3. probeFails[s] \in Nat /\ probeFails'[s] \in Nat /\ found.failures <= probeFails'[s]
    BY <2>1, <2>2 DEF FleetInv, HistoryInv, HistoryGrows
  <2>4. ASSUME found.health = "healthy"
        PROVE  answeredAt'[s] # NeverChecked /\ cycle[d].when <= answeredAt'[s]
    <3>1. answeredAt[s] # NeverChecked /\ cycle[d].when <= answeredAt[s]
      BY <2>2, <2>4
    <3>2. answeredAt[s] <= fleetTime /\ answeredAt[s] \in Nat /\ fleetTime \in Nat /\ fleetTime <= MaxFleetTime
      BY <3>1, <2>1, FleetAssumption DEF FleetInv, HistoryInv
    <3>3. answeredAt'[s] = answeredAt[s] \/ answeredAt'[s] = fleetTime
      BY <2>1 DEF HistoryGrows
    <3> QED BY <3>1, <3>2, <3>3, <2>2, FleetAssumption DEF NeverChecked
  <2>5. FindingIsTrue(d)'
    BY <2>1, <2>2, <2>3, <2>4 DEF FindingIsTrue, s, found, NeverChecked
  <2> QED BY <2>5, <1>1, <1>2 DEF CycleIsTrue
<1>4. CASE cycle[d].at # "save"
  BY <1>1, <1>2, <1>4 DEF CycleIsTrue
<1> QED BY <1>3, <1>4

\* The pushes and the rows stay true while the history grows.
LEMMA PushesLast ==
    ASSUME FleetInv, HistoryInv', HistoryGrows, UNCHANGED push
    PROVE  PushInv'
<1>1. ASSUME NEW p \in Pushes, push[p].at = "select" PROVE RowsAreTrue(push[p].rows)'
  BY <1>1, SnapshotsLast DEF FleetInv, PushInv, HistoryGrows, RowsAreTrue
<1> QED BY <1>1 DEF FleetInv, PushInv

LEMMA RegistryLasts ==
    ASSUME FleetInv, HistoryInv', HistoryGrows, UNCHANGED <<registry, registryLog, deletions, registrar>>
    PROVE  RegistryInv'
<1>1. ASSUME NEW s \in Registered PROVE RowIsTrue(s, registry[s])'
  <2>1. s \in Fleet /\ registry[s] \in FleetRows /\ RowIsTrue(s, registry[s])
    BY RegisteredRows DEF FleetInv, RegistryInv
  <2>2. RowIsTrue(s, registry[s])' <=> /\ registry[s].failures <= probeFails'[s]
                                       /\ registry[s].health = "healthy" =>
                                            answeredAt'[s] # NeverChecked /\ registry[s].checked <= answeredAt'[s]
    BY DEF RowIsTrue, NeverChecked
  <2> DEFINE row == registry[s]
  <2>3. row \in FleetRows /\ RowIsTrue(s, row)
    BY <2>1
  <2>4. /\ probeFails[s] \in Nat /\ probeFails'[s] \in Nat /\ row.failures \in Nat /\ row.checked \in Nat
        /\ answeredAt[s] \in Nat /\ fleetTime \in Nat /\ fleetTime <= MaxFleetTime
    BY <2>1, FleetAssumption DEF FleetInv, HistoryInv, FleetRows
  <2>5. /\ probeFails'[s] >= probeFails[s]
        /\ answeredAt'[s] = answeredAt[s] \/ answeredAt'[s] = fleetTime
        /\ answeredAt[s] <= fleetTime \/ answeredAt[s] = NeverChecked
    BY <2>1 DEF HistoryGrows, FleetInv, HistoryInv
  <2> HIDE DEF row
  <2>6. /\ row.failures <= probeFails'[s]
        /\ row.health = "healthy" => answeredAt'[s] # NeverChecked /\ row.checked <= answeredAt'[s]
    BY <2>3, <2>4, <2>5, FleetAssumption DEF RowIsTrue, NeverChecked
  <2> QED BY <2>2, <2>6 DEF row
<1>2. Registered' = Registered
  BY DEF Registered
<1>3. RegisteredOnce'
  BY <1>2 DEF FleetInv, RegistryInv, RegisteredOnce
<1> QED BY <1>1, <1>2, <1>3 DEF FleetInv, RegistryInv

\* A health cycle, with what it writes.
LEMMA CycleKeeps ==
    ASSUME FleetInv, NEW c \in Cycles, CycleStep(c) \/ CycleDies(c)
    PROVE  FleetInv'
<1>1. /\ HistoryInv /\ RegistryInv /\ CycleInv /\ DOMAIN cycle = Cycles
      /\ UNCHANGED <<registryLog, deletions, fleetTime, registrar, push, relay, relayLog>>
  BY DEF FleetInv, CycleInv, CycleStep, CycleDies, run_health_cycle, _probe_one, update_sentinel_health, healthIdle
<1>2. RelayInv'
  BY <1>1, RelayFrame DEF FleetInv
<1>3. ASSUME UNCHANGED <<probeFails, answeredAt>>
      PROVE  HistoryInv' /\ HistoryGrows /\ PushInv'
  <2>1. HistoryInv'
    BY <1>1, <1>3 DEF HistoryInv
  <2>2. HistoryGrows
    BY <1>1, <1>3 DEF HistoryGrows, HistoryInv
  <2> QED BY <1>1, <1>3, <2>1, <2>2, PushFrame DEF FleetInv
<1>4. ASSUME HistoryInv', HistoryGrows, CycleIsTrue(c)', DOMAIN cycle' = Cycles,
             \A d \in Cycles : d # c => cycle'[d] = cycle[d]
      PROVE  CycleInv'
  <2>1. \A d \in Cycles : CycleIsTrue(d)'
    BY <1>4, CyclesLast
  <2> QED BY <1>4, <2>1 DEF CycleInv, CycleIsTrue
<1>5. CASE run_health_cycle(c)
  <2> DEFINE enabled == {s \in Registered : registry[s].enabled}
             rows == [s \in enabled |-> registry[s]]
  <2>1. /\ enabled # {}
        /\ cycle' = [cycle EXCEPT ![c] = [at |-> "probe", rows |-> rows]]
        /\ UNCHANGED <<registry, probeFails, answeredAt>>
    BY <1>5 DEF run_health_cycle, probeVars
  <2>2. HistoryInv' /\ HistoryGrows /\ PushInv'
    BY <2>1, <1>3
  <2>3. \A s \in enabled : s \in Fleet /\ registry[s] \in FleetRows /\ RowIsTrue(s, registry[s])
    BY <1>1, RegisteredRows DEF RegistryInv
  <2>4. PICK read : read = rows
    OBVIOUS
  <2>5. RowsAreTrue(read) /\ DOMAIN read # {}
    BY <2>1, <2>3, <2>4 DEF RowsAreTrue
  <2> HIDE DEF rows, enabled
  <2>6. CycleIsTrue(c)'
    <3>1. RowsAreTrue(read)'
      BY <2>1, <2>5 DEF RowsAreTrue, RowIsTrue, NeverChecked
    <3>2. cycle'[c] = [at |-> "probe", rows |-> read]
      BY <1>1, <2>1, <2>4
    <3>3. cycle'[c].at = "probe" /\ cycle'[c].rows = read
      BY <3>2
    <3>4. RowsAreTrue(cycle[c].rows)'
      BY <3>1, <3>3 DEF RowsAreTrue
    <3> QED BY <3>3, <3>4, <2>5 DEF CycleIsTrue
  <2>7. CycleInv'
    BY <1>1, <1>4, <2>1, <2>2, <2>6
  <2>8. RegistryInv'
    BY <1>1, <2>1, <2>2, RegistryLasts
  <2> QED BY <1>2, <2>2, <2>7, <2>8 DEF FleetInv
<1>6. CASE CycleDies(c)
  <2>1. cycle' = [cycle EXCEPT ![c] = NoRequest] /\ UNCHANGED <<registry, probeFails, answeredAt>>
    BY <1>6 DEF CycleDies, probeVars
  <2>2. HistoryInv' /\ HistoryGrows /\ PushInv'
    BY <2>1, <1>3
  <2>3. CycleIsTrue(c)'
    BY <1>1, <2>1 DEF CycleIsTrue
  <2>4. CycleInv'
    BY <1>1, <1>4, <2>1, <2>2, <2>3
  <2>5. RegistryInv'
    BY <1>1, <2>1, <2>2, RegistryLasts
  <2> QED BY <1>2, <2>2, <2>4, <2>5 DEF FleetInv
<1>7. ASSUME NEW outcome \in {"ok", "http", "error", "invalid"}, _probe_one(c, outcome)
      PROVE  FleetInv'
  <2> DEFINE s == At(c)
             rows == cycle[c].rows
             row == rows[s]
             found == Finding(outcome, row.failures)
  <2>1. /\ cycle[c].at = "probe"
        /\ cycle' = [cycle EXCEPT ![c] = [at |-> "save", rows |-> rows, found |-> found, when |-> fleetTime]]
        /\ answeredAt' = IF outcome = "ok" THEN [answeredAt EXCEPT ![s] = fleetTime] ELSE answeredAt
        /\ probeFails' = IF outcome = "ok" THEN probeFails ELSE [probeFails EXCEPT ![s] = @ + 1]
        /\ UNCHANGED registry
    BY <1>7 DEF _probe_one
  <2>2. cycle[c] # NoRequest
    BY <2>1 DEF NoRequest
  <2>3. /\ s \in DOMAIN rows /\ s \in Fleet /\ row \in FleetRows /\ RowIsTrue(s, row)
        /\ RowsAreTrue(rows) /\ DOMAIN rows # {}
    BY <2>2, <1>1, AtIsRow DEF CycleInv, RowsAreTrue
  <2> HIDE DEF s
  <2>4. /\ row.failures \in Nat /\ probeFails[s] \in Nat /\ fleetTime \in Nat /\ fleetTime <= MaxFleetTime
        /\ row.failures <= probeFails[s]
    BY <2>3, <1>1, FleetAssumption DEF FleetRows, HistoryInv, RowIsTrue
  <2> HIDE DEF rows, row
  <2>5. HistoryInv'
    BY <2>1, <2>3, <2>4, <1>1 DEF HistoryInv, NeverChecked
  <2>6. HistoryGrows
    BY <2>1, <2>3, <2>4, <1>1 DEF HistoryInv, HistoryGrows
  <2>7. /\ found.health \in RowHealths /\ found.failures \in Nat
        /\ found.health = "healthy" => outcome = "ok"
        /\ found.failures = IF outcome = "ok" THEN 0 ELSE row.failures + 1
    BY <2>4 DEF Finding, RowHealths
  <2> HIDE DEF found
  <2>8. cycle'[c] = [at |-> "save", rows |-> rows, found |-> found, when |-> fleetTime]
    BY <1>1, <2>1
  <2>9. /\ cycle'[c].at = "save" /\ cycle'[c].rows = rows /\ cycle'[c].found = found
        /\ cycle'[c].when = fleetTime /\ At(c)' = s
    BY <2>8 DEF At, s, rows
  <2>10. found.failures <= probeFails'[s]
    BY <2>1, <2>3, <2>4, <2>7, <1>1 DEF HistoryInv
  <2>11. found.health = "healthy" => answeredAt'[s] # NeverChecked /\ fleetTime <= answeredAt'[s]
    BY <2>1, <2>3, <2>4, <2>7, <1>1, FleetAssumption DEF HistoryInv, NeverChecked
  <2>12. FindingIsTrue(c)'
    BY <2>4, <2>7, <2>9, <2>10, <2>11 DEF FindingIsTrue, NeverChecked
  <2>13. RowsAreTrue(cycle[c].rows)'
    <3>1. PICK read : read = rows
      OBVIOUS
    <3>2. RowsAreTrue(read)
      BY <2>3, <3>1
    <3>3. RowsAreTrue(read)'
      BY <3>2, <2>5, <2>6, <1>1, SnapshotsLast DEF HistoryGrows
    <3>4. cycle'[c].rows = read
      BY <3>1, <2>9
    <3> QED BY <3>3, <3>4 DEF RowsAreTrue
  <2>14. CycleIsTrue(c)'
    BY <2>3, <2>9, <2>12, <2>13 DEF CycleIsTrue
  <2>15. CycleInv'
    BY <1>1, <1>4, <2>1, <2>5, <2>6, <2>14
  <2> QED BY <1>1, <1>2, <2>1, <2>5, <2>6, <2>15, PushesLast, RegistryLasts DEF FleetInv
<1>8. CASE update_sentinel_health(c)
  <2> DEFINE s == At(c)
             found == cycle[c].found
             rows == cycle[c].rows
             rest == [u \in DOMAIN rows \ {s} |-> rows[u]]
  <2>1. /\ cycle[c].at = "save" /\ UNCHANGED <<probeFails, answeredAt>>
        /\ registry' = IF s \in Registered
                       THEN [registry EXCEPT ![s].health = found.health, ![s].failures = found.failures,
                                             ![s].checked = cycle[c].when]
                       ELSE registry
        /\ cycle' = [cycle EXCEPT ![c] = IF DOMAIN rest = {} THEN NoRequest ELSE [at |-> "probe", rows |-> rest]]
    BY <1>8 DEF update_sentinel_health, probeVars
  <2>2. HistoryInv' /\ HistoryGrows /\ PushInv'
    BY <2>1, <1>3
  <2>3. cycle[c] # NoRequest
    BY <2>1 DEF NoRequest
  <2>4. s \in DOMAIN rows /\ s \in Fleet /\ RowsAreTrue(rows) /\ FindingIsTrue(c)
    BY <2>1, <2>3, <1>1, AtIsRow DEF CycleInv
  <2>5. /\ found.health \in RowHealths /\ found.failures \in Nat /\ cycle[c].when \in Nat
        /\ found.failures <= probeFails[s]
        /\ found.health = "healthy" => answeredAt[s] # NeverChecked /\ cycle[c].when <= answeredAt[s]
    BY <2>4 DEF FindingIsTrue
  <2>6. CycleInv'
    <3>1. PICK left : left = rest
      OBVIOUS
    <3>2. RowsAreTrue(left)
      <4> HIDE DEF s
      <4> QED BY <3>1, <2>4 DEF RowsAreTrue
    <3> HIDE DEF rest
    <3>3. RowsAreTrue(left)'
      BY <3>2, <2>1 DEF RowsAreTrue, RowIsTrue, NeverChecked
    <3>4. cycle' = [cycle EXCEPT ![c] = IF DOMAIN left = {} THEN NoRequest ELSE [at |-> "probe", rows |-> left]]
      BY <3>1, <2>1
    <3>5. cycle'[c] = IF DOMAIN left = {} THEN NoRequest ELSE [at |-> "probe", rows |-> left]
      BY <3>4, <1>1
    <3>6. CycleIsTrue(c)'
      <4>1. CASE DOMAIN left = {}
        BY <4>1, <3>5 DEF CycleIsTrue
      <4>2. CASE DOMAIN left # {}
        <5>1. cycle'[c].at = "probe" /\ cycle'[c].rows = left
          BY <4>2, <3>5
        <5>2. RowsAreTrue(cycle[c].rows)'
          BY <5>1, <3>3 DEF RowsAreTrue
        <5> QED BY <5>1, <5>2, <4>2 DEF CycleIsTrue
      <4> QED BY <4>1, <4>2
    <3>7. DOMAIN cycle' = Cycles /\ \A d \in Cycles : d # c => cycle'[d] = cycle[d]
      BY <3>4, <1>1
    <3> QED BY <3>6, <3>7, <1>4, <2>2
  <2>7. RegistryInv'
    <3> HIDE DEF s, found
    <3>1. CASE s \notin Registered
      BY <3>1, <1>1, <2>1, <2>2, RegistryLasts
    <3>2. CASE s \in Registered
      <4> DEFINE old == registry[s]
                 row == [registry[s] EXCEPT !.health = found.health, !.failures = found.failures,
                                            !.checked = cycle[c].when]
      <4>1. old \in FleetRows /\ registry \in [Fleet -> {Unregistered} \cup FleetRows]
        BY <3>2, <1>1, RegisteredRows DEF RegistryInv
      <4>2. /\ row \in FleetRows /\ row.health = found.health /\ row.failures = found.failures
            /\ row.checked = cycle[c].when
        BY <4>1, <2>5 DEF FleetRows
      <4>3. registry' = [registry EXCEPT ![s] = row]
        BY <3>2, <2>1
      <4> HIDE DEF row, old
      <4>4. row # Unregistered
        <5>1. row.health \in RowHealths
          BY <4>2, <2>5
        <5> QED BY <5>1 DEF RowHealths, Unregistered
      <4>5. /\ registry' \in [Fleet -> {Unregistered} \cup FleetRows]
            /\ registry'[s] = row /\ \A u \in Fleet : u # s => registry'[u] = registry[u]
        BY <4>1, <4>2, <4>3, <2>4
      <4>6. Registered' = Registered
        BY <4>4, <4>5, <3>2 DEF Registered
      <4>7. RowIsTrue(s, row)
        BY <4>2, <2>5 DEF RowIsTrue
      <4>8. \A u \in Registered' : RowIsTrue(u, registry[u])'
        <5> SUFFICES ASSUME NEW u \in Registered PROVE RowIsTrue(u, registry[u])'
          BY <4>6
        <5>1. u \in Fleet /\ RowIsTrue(u, registry[u])
          BY <1>1 DEF RegistryInv, Registered
        <5>2. CASE u = s
          BY <5>2, <4>5, <4>7, <2>1 DEF RowIsTrue, NeverChecked
        <5>3. CASE u # s
          BY <5>1, <5>3, <4>5, <2>1 DEF RowIsTrue, NeverChecked
        <5> QED BY <5>2, <5>3
      <4>9. RegisteredOnce'
        BY <4>6, <1>1 DEF RegistryInv, RegisteredOnce
      <4> QED BY <4>5, <4>8, <4>9, <1>1 DEF RegistryInv
    <3> QED BY <3>1, <3>2
  <2> QED BY <1>2, <2>2, <2>6, <2>7 DEF FleetInv
<1> QED BY <1>5, <1>6, <1>7, <1>8 DEF CycleStep

\* Who looks healthy and fresh was heard.
LEMMA HealthyWasHeard ==
    ASSUME HistoryInv, NEW s \in Fleet, NEW row \in FleetRows, RowIsTrue(s, row),
           effective_health_status(row) = "healthy"
    PROVE  HeardRecently(s)
<1>1. row.health = "healthy" /\ Fresh(row)
  BY DEF effective_health_status
<1>2. answeredAt[s] # NeverChecked /\ row.checked <= answeredAt[s] /\ fleetTime - row.checked <= Staleness
  BY <1>1 DEF RowIsTrue, Fresh
<1>3. answeredAt[s] \in Nat /\ row.checked \in Nat /\ fleetTime \in Nat /\ Staleness \in Nat
  BY FleetAssumption DEF HistoryInv, FleetRows
<1>4. fleetTime - answeredAt[s] <= Staleness
  BY <1>2, <1>3
<1> QED BY <1>2, <1>4 DEF HeardRecently

\* And its answer was that of the endpoint it has, if it had no other.
LEMMA HeardIsVouched ==
    ASSUME LivedInv, NEW s \in Fleet, NEW e, HeardRecently(s)
    PROVE  Vouched(s, e)
<1>1. answeredBy[s] \subseteq lived[s] /\ answeredBy[s] # {}
  BY DEF LivedInv, HeardRecently
<1>2. lived[s] = {e} => answeredBy[s] = {e}
  BY <1>1
<1> QED BY <1>2 DEF Vouched

\* Only who passes every check is not skipped.
LEMMA NotSkipped ==
    ASSUME NEW row, SkipReason(row) = "none"
    PROVE  effective_health_status(row) = "healthy"
<1> DEFINE e == row.enabled
           h == effective_health_status(row)
<1>1. CASE ~e
  <2>1. SkipReason(row) = "disabled"
    BY <1>1 DEF SkipReason
  <2> QED BY <2>1
<1>2. CASE e /\ h # "healthy"
  <2>1. SkipReason(row) = "unhealthy"
    BY <1>2 DEF SkipReason
  <2> QED BY <2>1
<1> QED BY <1>1, <1>2

\* Coordinated pushes.
LEMMA PushKeeps ==
    ASSUME FleetInv, LivedInv, NEW p \in Pushes, coordinate_push(p) \/ _select_targets(p) \/ PushReturns(p)
    PROVE  FleetInv'
<1>1. UNCHANGED <<rowVars, probeVars, fleetTime, registrar, cycle, relay, relayLog>>
  BY DEF coordinate_push, _select_targets, PushReturns, useIdle
<1>2. UNCHANGED <<registry, registryLog, deletions, probeFails, answeredAt>>
  BY <1>1 DEF rowVars, probeVars
<1>3. HistoryInv'
  BY <1>1, <1>2 DEF FleetInv, HistoryInv, NeverChecked
<1>4. RegistryInv' /\ CycleInv' /\ RelayInv'
  <2>1. registrar' \in [Registrars -> RegistryCalls]
    BY <1>1 DEF FleetInv, RegistryInv
  <2> QED BY <1>1, <1>2, <2>1, RegistryFrame, CycleFrame, RelayFrame DEF FleetInv
<1>5. DOMAIN push = Pushes
  BY DEF FleetInv, PushInv
<1>6. ASSUME NEW new, push' = [push EXCEPT ![p] = new],
             new.at = "select" => RowsAreTrue(new.rows),
             new.at = "driven" => \A s \in DOMAIN new.verdict : new.verdict[s] = "none" => s \in new.heard
      PROVE  PushInv'
  <2>1. DOMAIN push' = Pushes /\ push'[p] = new /\ \A q \in Pushes : q # p => push'[q] = push[q]
    BY <1>5, <1>6
  <2>2. ASSUME NEW q \in Pushes, push'[q].at = "select" PROVE RowsAreTrue(push[q].rows)'
    <3>1. PICK read : read = push'[q].rows
      OBVIOUS
    <3>2. RowsAreTrue(read)
      <4>1. CASE q = p
        BY <4>1, <3>1, <2>1, <2>2, <1>6
      <4>2. CASE q # p
        BY <4>2, <3>1, <2>1, <2>2 DEF FleetInv, PushInv
      <4> QED BY <4>1, <4>2
    <3>3. RowsAreTrue(read)'
      BY <3>2, <1>2 DEF RowsAreTrue, RowIsTrue, NeverChecked
    <3> QED BY <3>1, <3>3 DEF RowsAreTrue
  <2>3. ASSUME NEW q \in Pushes, push'[q].at = "driven"
        PROVE  \A s \in DOMAIN push'[q].verdict : push'[q].verdict[s] = "none" => s \in push'[q].heard
    <3>1. CASE q = p
      BY <3>1, <2>1, <2>3, <1>6
    <3>2. CASE q # p
      BY <3>2, <2>1, <2>3 DEF FleetInv, PushInv
    <3> QED BY <3>1, <3>2
  <2> QED BY <2>1, <2>2, <2>3 DEF PushInv
<1>7. CASE coordinate_push(p)
  <2>1. PICK rows : rows = [s \in Registered |-> registry[s]]
    OBVIOUS
  <2>2. PICK new : new = [at |-> "select", rows |-> rows]
    OBVIOUS
  <2>3. push' = [push EXCEPT ![p] = new]
    BY <1>7, <2>1, <2>2 DEF coordinate_push
  <2>4. RowsAreTrue(rows)
    BY <2>1, RegisteredRows DEF FleetInv, RegistryInv, RowsAreTrue
  <2>5. PushInv'
    BY <2>2, <2>3, <2>4, <1>6
  <2> QED BY <1>3, <1>4, <2>5 DEF FleetInv
<1>8. CASE _select_targets(p)
  <2>1. PICK rows : rows = push[p].rows
    OBVIOUS
  <2>2. PICK verdict : verdict = [s \in DOMAIN rows |-> SkipReason(rows[s])]
    OBVIOUS
  <2>3. PICK heard : heard = {s \in DOMAIN rows : Vouched(s, rows[s].endpoint)}
    OBVIOUS
  <2>4. PICK new : new = [at |-> "driven", heard |-> heard, verdict |-> verdict]
    OBVIOUS
  <2>5. push[p].at = "select" /\ push' = [push EXCEPT ![p] = new]
    BY <1>8, <2>1, <2>2, <2>3, <2>4 DEF _select_targets
  <2>6. RowsAreTrue(rows)
    BY <2>1, <2>5 DEF FleetInv, PushInv
  <2>7. ASSUME NEW s \in DOMAIN verdict, verdict[s] = "none" PROVE s \in heard
    <3>1. s \in DOMAIN rows /\ SkipReason(rows[s]) = "none"
      BY <2>2, <2>7
    <3>2. s \in Fleet /\ rows[s] \in FleetRows /\ RowIsTrue(s, rows[s])
      BY <3>1, <2>6 DEF RowsAreTrue
    <3>3. Vouched(s, rows[s].endpoint)
      BY <3>1, <3>2, NotSkipped, HealthyWasHeard, HeardIsVouched DEF FleetInv
    <3> QED BY <3>1, <3>3, <2>3
  <2>8. new.at = "driven" /\ new.verdict = verdict /\ new.heard = heard
    BY <2>4
  <2>9. PushInv'
    BY <2>5, <2>7, <2>8, <1>6
  <2> QED BY <1>3, <1>4, <2>9 DEF FleetInv
<1>9. CASE PushReturns(p)
  <2>1. PICK new : new = NoRequest
    OBVIOUS
  <2>2. new.at = "idle" /\ push' = [push EXCEPT ![p] = new]
    BY <1>9, <2>1 DEF PushReturns, NoRequest
  <2>3. PushInv'
    BY <2>2, <1>6
  <2> QED BY <1>3, <1>4, <2>3 DEF FleetInv
<1> QED BY <1>7, <1>8, <1>9

\* Relayed requests.
LEMMA RelayKeeps ==
    ASSUME FleetInv, LivedInv, NEW r \in Relays, RelayStep(r) \/ \E s \in Fleet : relay_request(r, s)
    PROVE  FleetInv'
<1>1. UNCHANGED <<rowVars, probeVars, fleetTime, registrar, cycle, push>>
  BY DEF RelayStep, relay_request, RelayValidates, RelayPosts, append_relay_audit_link, RelayDies,
         RelayFails, useIdle
<1>2. UNCHANGED <<registry, registryLog, deletions, probeFails, answeredAt>>
  BY <1>1 DEF rowVars, probeVars
<1>3. HistoryInv'
  BY <1>1, <1>2 DEF FleetInv, HistoryInv, NeverChecked
<1>4. RegistryInv' /\ CycleInv' /\ PushInv'
  <2>1. registrar' \in [Registrars -> RegistryCalls]
    BY <1>1 DEF FleetInv, RegistryInv
  <2> QED BY <1>1, <1>2, <2>1, RegistryFrame, CycleFrame, PushFrame DEF FleetInv
<1>5. relay \in [Relays -> RelayRecords] /\ relay[r] \in RelayRecords /\ RelayInv
  BY DEF FleetInv, RelayInv
<1>6. ASSUME NEW new \in RelayRecords, relay' = [relay EXCEPT ![r] = new], relay[r].at # "answered",
             UNCHANGED relayLog, new.at # "answered",
             new.at \in {"validate", "post"} => new.heard,
             new.at = "audit" => new.sent = (new.disposition # "blocked")
      PROVE  RelayInv'
  <2>1. /\ relay' \in [Relays -> RelayRecords] /\ relay'[r] = new
        /\ \A q \in Relays : q # r => relay'[q] = relay[q]
    BY <1>5, <1>6
  <2> QED BY <2>1, <1>5, <1>6 DEF RelayInv
<1>7. \A d \in {"blocked", "forwarded", "failed"} :
         /\ ToAudit(d) \in RelayRecords /\ ToAudit(d).at = "audit"
         /\ ToAudit(d).sent = (ToAudit(d).disposition # "blocked")
  BY DEF ToAudit, RelayRecords
<1>8. ASSUME NEW s \in Fleet, relay_request(r, s) PROVE RelayInv'
  <2>1. relay[r] = NoRequest /\ UNCHANGED relayLog
    BY <1>8 DEF relay_request
  <2>2. relay[r].at # "answered"
    BY <2>1 DEF NoRequest
  <2>3. CASE s \in Registered /\ registry[s].enabled /\ effective_health_status(registry[s]) = "healthy"
    <3> DEFINE new == [at |-> "validate", endpoint |-> registry[s].endpoint,
                      heard |-> Vouched(s, registry[s].endpoint)]
    <3>1. relay' = [relay EXCEPT ![r] = new]
      BY <1>8, <2>3 DEF relay_request
    <3>2. registry[s] \in FleetRows /\ RowIsTrue(s, registry[s])
      BY <2>3, RegisteredRows DEF FleetInv, RegistryInv
    <3>3. Vouched(s, registry[s].endpoint) /\ registry[s].endpoint \in Endpoints
      BY <2>3, <3>2, HealthyWasHeard, HeardIsVouched DEF FleetInv, FleetRows
    <3>4. Vouched(s, registry[s].endpoint) \in BOOLEAN
      BY DEF Vouched, HeardRecently
    <3>5. new \in RelayRecords /\ new.at = "validate" /\ new.heard
      BY <3>3, <3>4 DEF RelayRecords
    <3> HIDE DEF new
    <3> QED BY <3>1, <3>5, <2>1, <2>2, <1>6
  <2>4. CASE ~(s \in Registered /\ registry[s].enabled /\ effective_health_status(registry[s]) = "healthy")
    <3>1. relay' = [relay EXCEPT ![r] = ToAudit("blocked")]
      BY <1>8, <2>4 DEF relay_request
    <3> QED BY <3>1, <2>1, <2>2, <1>6, <1>7
  <2> QED BY <2>3, <2>4
<1>9. ASSUME RelayValidates(r) PROVE RelayInv'
  <2>1. relay[r].at = "validate" /\ UNCHANGED relayLog
    BY <1>9 DEF RelayValidates
  <2>2. CASE relay[r].endpoint \in resolvable
    <3> DEFINE new == [relay[r] EXCEPT !.at = "post"]
    <3>1. relay' = [relay EXCEPT ![r] = new]
      BY <1>9, <2>2 DEF RelayValidates
    <3>2. relay[r] \in [at : {"validate", "post"}, endpoint : Endpoints, heard : BOOLEAN] /\ relay[r].heard
      BY <1>5, <2>1 DEF RelayRecords, NoRequest, RelayInv
    <3>3. new \in RelayRecords /\ new.at = "post" /\ new.heard
      BY <3>2 DEF RelayRecords
    <3> HIDE DEF new
    <3>4. new.at # "answered" /\ new.at # "audit" /\ relay[r].at # "answered"
      BY <3>3, <2>1
    <3> QED BY <3>1, <3>3, <3>4, <2>1, <1>6
  <2>3. CASE relay[r].endpoint \notin resolvable
    <3>1. relay' = [relay EXCEPT ![r] = ToAudit("blocked")]
      BY <1>9, <2>3 DEF RelayValidates
    <3>2. relay[r].at # "answered"
      BY <2>1
    <3> QED BY <3>1, <3>2, <2>1, <1>6, <1>7
  <2> QED BY <2>2, <2>3
<1>10. ASSUME NEW reached \in BOOLEAN, RelayPosts(r, reached) PROVE RelayInv'
  <2>1. relay[r].at = "post" /\ UNCHANGED relayLog
    BY <1>10 DEF RelayPosts
  <2>2. PICK d \in {"forwarded", "failed"} : relay' = [relay EXCEPT ![r] = ToAudit(d)]
    BY <1>10 DEF RelayPosts
  <2> QED BY <2>1, <2>2, <1>6, <1>7
<1>11. ASSUME append_relay_audit_link(r) PROVE RelayInv'
  <2> DEFINE d == relay[r].disposition
  <2>1. /\ relay[r].at = "audit"
        /\ relayLog' = [relayLog EXCEPT ![r] = Append(@, d)]
        /\ relay' = [relay EXCEPT ![r].at = "answered"]
    BY <1>11 DEF append_relay_audit_link
  <2>2. /\ relay[r] \in [at : {"audit", "answered"}, sent : BOOLEAN, disposition : {"blocked", "forwarded", "failed"}]
        /\ relay[r].sent = (d # "blocked") /\ relayLog[r] = <<>>
        /\ relayLog \in [Relays -> Seq({"blocked", "forwarded", "failed"})]
    BY <1>5, <2>1 DEF RelayRecords, NoRequest, RelayInv
  <2>3. /\ relay' \in [Relays -> RelayRecords]
        /\ relay'[r].at = "answered" /\ relay'[r].sent = relay[r].sent /\ relay'[r].disposition = d
        /\ \A q \in Relays : q # r => relay'[q] = relay[q]
    BY <1>5, <2>1, <2>2 DEF RelayRecords
  <2>4. d \in {"blocked", "forwarded", "failed"}
    BY <2>2
  <2> HIDE DEF d
  <2>5. /\ relayLog'[r] = <<d>> /\ \A q \in Relays : q # r => relayLog'[q] = relayLog[q]
        /\ relayLog' \in [Relays -> Seq({"blocked", "forwarded", "failed"})]
    BY <2>1, <2>2, <2>4
  <2>6. ASSUME NEW q \in Relays, q # r
        PROVE  /\ relay'[q].at \in {"validate", "post"} => relay'[q].heard
               /\ relay'[q].at \in {"audit", "answered"} => relay'[q].sent = (relay'[q].disposition # "blocked")
               /\ relay'[q].at = "answered" => relayLog'[q] = <<relay'[q].disposition>>
               /\ relay'[q].at # "answered" => relayLog'[q] = <<>>
    <3>1. relay'[q] = relay[q] /\ relayLog'[q] = relayLog[q]
      BY <2>3, <2>5, <2>6
    <3>2. /\ relay[q].at \in {"validate", "post"} => relay[q].heard
          /\ relay[q].at \in {"audit", "answered"} => relay[q].sent = (relay[q].disposition # "blocked")
          /\ relay[q].at = "answered" => relayLog[q] = <<relay[q].disposition>>
          /\ relay[q].at # "answered" => relayLog[q] = <<>>
      BY <1>5 DEF RelayInv
    <3> QED BY <3>1, <3>2, Zenon
  <2>7. relay'[r].sent = (relay'[r].disposition # "blocked") /\ relayLog'[r] = <<relay'[r].disposition>>
    BY <2>2, <2>3, <2>5
  <2>8. relay'[r].at \notin {"validate", "post"}
    BY <2>3
  <2> QED BY <2>3, <2>5, <2>6, <2>7, <2>8 DEF RelayInv
<1>12. ASSUME RelayDies(r) \/ RelayFails(r) PROVE RelayInv'
  <2>1. PICK how \in {"gone", "error"} :
            /\ relay[r].at \in {"validate", "post", "audit"} /\ UNCHANGED relayLog
            /\ relay' = [relay EXCEPT ![r] = [at |-> how]]
    BY <1>12 DEF RelayDies, RelayFails
  <2>2. [at |-> how] \in RelayRecords
    BY <2>1 DEF RelayRecords
  <2>3. PICK new : new = [at |-> how]
    OBVIOUS
  <2>4. new \in RelayRecords /\ new.at = how /\ relay' = [relay EXCEPT ![r] = new]
    BY <2>1, <2>2, <2>3
  <2>5. relay[r].at # "answered"
    BY <2>1
  <2>6. new.at # "answered" /\ new.at \notin {"validate", "post"} /\ new.at # "audit"
    BY <2>4
  <2> QED BY <2>1, <2>4, <2>5, <2>6, <1>6
<1>13. RelayInv'
  <2>1. ASSUME RelayStep(r) PROVE RelayInv'
    BY <2>1, <1>9, <1>10, <1>11, <1>12 DEF RelayStep
  <2>2. ASSUME \E s \in Fleet : relay_request(r, s) PROVE RelayInv'
    BY <2>2, <1>8
  <2> QED BY <2>1, <2>2
<1> QED BY <1>3, <1>4, <1>13 DEF FleetInv

\* Nothing the history of endpoints speaks of changes.
LEMMA LivedFrame ==
    ASSUME LivedInv, UNCHANGED <<registry, cycle, lived, answeredAt, answeredBy>>
    PROVE  LivedInv'
BY DEF LivedInv, Registered, NeverChecked

\* The rows of a sentinel change.
LEMMA LivedGrows ==
    ASSUME FleetInv, LivedInv, UNCHANGED <<cycle, answeredAt, answeredBy>>, NEW s \in Fleet, NEW E,
           lived' = [lived EXCEPT ![s] = @ \cup E] \/ (E = {} /\ UNCHANGED lived),
           \A u \in Fleet : u # s => registry'[u] = registry[u],
           s \in Registered' => registry'[s].endpoint \in lived[s] \cup E
    PROVE  LivedInv'
<1>1. DOMAIN lived' = Fleet /\ \A u \in Fleet : lived[u] \subseteq lived'[u]
  BY DEF LivedInv
<1>2. lived'[s] = lived[s] \cup E
  BY DEF LivedInv
<1>3. ASSUME NEW u \in Registered' PROVE registry'[u].endpoint \in lived'[u]
  <2>1. u \in Fleet /\ (u # s => u \in Registered /\ registry'[u] = registry[u])
    BY <1>3 DEF Registered
  <2>2. CASE u = s
    BY <2>2, <1>2, <1>3
  <2>3. CASE u # s
    BY <2>1, <2>3, <1>1 DEF LivedInv
  <2> QED BY <2>2, <2>3
<1>4. ASSUME NEW c \in Cycles, cycle[c] # NoRequest, NEW u \in DOMAIN cycle[c].rows
      PROVE  cycle[c].rows[u].endpoint \in lived'[u]
  <2>1. u \in Fleet
    BY <1>4 DEF FleetInv, CycleInv, RowsAreTrue
  <2> QED BY <2>1, <1>1, <1>4 DEF LivedInv
<1> QED BY <1>1, <1>3, <1>4 DEF LivedInv, NeverChecked

\* The calls of the operators.
LEMMA RegistrarLives ==
    ASSUME FleetInv, LivedInv, NEW o \in Registrars, RegistrarStep(o)
    PROVE  LivedInv'
<1>1. UNCHANGED <<cycle, answeredAt, answeredBy>>
  BY DEF RegistrarStep, register_sentinel, modify_sentinel, deregister_sentinel, ValidateEndpoint,
         get_sentinel, insert_sentinel, update_sentinel, delete_sentinel, MatchesNoRow,
         append_registry_audit_link, CallRollsBack, othersIdle, probeVars
<1>2. registrar[o] \in RegistryCalls /\ RegistryInv
  BY DEF FleetInv, RegistryInv
<1>3. CASE insert_sentinel(o)
  <2> DEFINE s == registrar[o].id
             row == registrar[o].row
  <2>1. s \in Fleet
    BY <1>2, <1>3 DEF insert_sentinel, RegistryCalls, NoRequest
  <2>2. CASE s \in Registered
    <3>1. UNCHANGED <<registry, lived>>
      BY <1>3, <2>2 DEF insert_sentinel
    <3> QED BY <3>1, <1>1, LivedFrame
  <2>3. CASE s \notin Registered
    <3>1. registry' = [registry EXCEPT ![s] = row] /\ lived' = [lived EXCEPT ![s] = @ \cup {row.endpoint}]
      BY <1>3, <2>3 DEF insert_sentinel, Lives
    <3>2. registry'[s] = row /\ \A u \in Fleet : u # s => registry'[u] = registry[u]
      BY <3>1, <2>1, <1>2 DEF RegistryInv
    <3> HIDE DEF s, row
    <3>3. registry'[s].endpoint \in lived[s] \cup {row.endpoint}
      BY <3>2
    <3> QED BY <3>1, <3>2, <3>3, <2>1, <1>1, LivedGrows
  <2> QED BY <2>2, <2>3
<1>4. CASE update_sentinel(o)
  <2> DEFINE s == registrar[o].id
             change == registrar[o].row
             old == registry[s]
             row == [f \in DOMAIN old |-> IF f \in DOMAIN change THEN change[f] ELSE old[f]]
             E == IF "endpoint" \in DOMAIN change THEN {change.endpoint} ELSE {}
  <2>1. s \in Registered /\ registry' = [registry EXCEPT ![s] = row] /\ lived' = [lived EXCEPT ![s] = @ \cup E]
    BY <1>4 DEF update_sentinel, Lives
  <2>2. s \in Fleet /\ old \in FleetRows
    BY <2>1, <1>2, RegisteredRows
  <2>3. registry'[s] = row /\ \A u \in Fleet : u # s => registry'[u] = registry[u]
    BY <2>1, <2>2, <1>2 DEF RegistryInv
  <2>4. old.endpoint \in lived[s]
    BY <2>1 DEF LivedInv
  <2>5. "endpoint" \in DOMAIN old
    BY <2>2 DEF FleetRows
  <2>6. row.endpoint = IF "endpoint" \in DOMAIN change THEN change.endpoint ELSE old.endpoint
    BY <2>5
  <2> HIDE DEF s, change, old, row
  <2>7. registry'[s].endpoint \in lived[s] \cup E
    BY <2>3, <2>4, <2>6
  <2> HIDE DEF E
  <2> QED BY <2>1, <2>2, <2>3, <2>7, <1>1, LivedGrows
<1>5. CASE delete_sentinel(o)
  <2> DEFINE s == registrar[o].id
  <2>1. s \in Registered /\ registry' = [registry EXCEPT ![s] = Unregistered] /\ UNCHANGED lived
    BY <1>5 DEF delete_sentinel
  <2>2. s \in Fleet
    BY <2>1 DEF Registered
  <2> HIDE DEF s
  <2>3. PICK E : E = {} /\ UNCHANGED lived
    BY <2>1
  <2>4. s \notin Registered' /\ \A u \in Fleet : u # s => registry'[u] = registry[u]
    BY <2>1, <2>2, <1>2 DEF RegistryInv, Registered
  <2> QED BY <2>2, <2>3, <2>4, <1>1, LivedGrows
<1>6. CASE ~(insert_sentinel(o) \/ update_sentinel(o) \/ delete_sentinel(o))
  <2>1. UNCHANGED <<registry, lived>>
    BY <1>6 DEF RegistrarStep, register_sentinel, modify_sentinel, deregister_sentinel, ValidateEndpoint,
                get_sentinel, MatchesNoRow, append_registry_audit_link, CallRollsBack, rowVars
  <2> QED BY <2>1, <1>1, LivedFrame
<1> QED BY <1>3, <1>4, <1>5, <1>6

\* A health cycle.
LEMMA CycleLives ==
    ASSUME FleetInv, LivedInv, NEW c \in Cycles, CycleStep(c) \/ CycleDies(c)
    PROVE  LivedInv'
<1>1. UNCHANGED lived /\ CycleInv /\ RegistryInv /\ DOMAIN cycle = Cycles
  BY DEF FleetInv, CycleInv, CycleStep, CycleDies, run_health_cycle, _probe_one, update_sentinel_health, healthIdle
<1>2. ASSUME NEW rows, cycle'[c] = NoRequest \/ cycle'[c].rows = rows,
             \A d \in Cycles : d # c => cycle'[d] = cycle[d],
             \A s \in DOMAIN rows : rows[s].endpoint \in lived[s],
             \A s \in Registered' : s \in Registered /\ registry'[s].endpoint = registry[s].endpoint,
             DOMAIN answeredBy' = Fleet,
             \A s \in Fleet : /\ answeredBy'[s] \subseteq lived[s]
                              /\ answeredAt'[s] # NeverChecked => answeredBy'[s] # {}
      PROVE  LivedInv'
  <2>1. ASSUME NEW d \in Cycles, cycle'[d] # NoRequest, NEW s \in DOMAIN cycle'[d].rows
        PROVE  cycle'[d].rows[s].endpoint \in lived'[s]
    <3>1. CASE d = c
      BY <3>1, <2>1, <1>2, <1>1
    <3>2. CASE d # c
      BY <3>2, <2>1, <1>2, <1>1 DEF LivedInv
    <3> QED BY <3>1, <3>2
  <2>2. \A s \in Registered' : registry'[s].endpoint \in lived'[s]
    BY <1>1, <1>2 DEF LivedInv
  <2>3. DOMAIN lived' = Fleet /\ \A s \in Fleet : answeredBy'[s] \subseteq lived'[s]
    BY <1>1, <1>2 DEF LivedInv
  <2>4. \A s \in Fleet : answeredAt'[s] # NeverChecked' => answeredBy'[s] # {}
    BY <1>2 DEF NeverChecked
  <2>5. \A d \in Cycles : cycle'[d] # NoRequest' =>
            \A s \in DOMAIN cycle'[d].rows : cycle'[d].rows[s].endpoint \in lived'[s]
    BY <2>1 DEF NoRequest
  <2> QED BY <2>2, <2>3, <2>4, <2>5, <1>2 DEF LivedInv
<1>3. ASSUME UNCHANGED <<answeredAt, answeredBy>>
      PROVE  /\ DOMAIN answeredBy' = Fleet
             /\ \A s \in Fleet : /\ answeredBy'[s] \subseteq lived[s]
                                 /\ answeredAt'[s] # NeverChecked => answeredBy'[s] # {}
  BY <1>3 DEF LivedInv
<1>4. ASSUME UNCHANGED registry
      PROVE  \A s \in Registered' : s \in Registered /\ registry'[s].endpoint = registry[s].endpoint
  BY <1>4 DEF Registered
<1>5. CASE run_health_cycle(c)
  <2>1. PICK rows : rows = [s \in {s \in Registered : registry[s].enabled} |-> registry[s]]
    OBVIOUS
  <2>2. cycle' = [cycle EXCEPT ![c] = [at |-> "probe", rows |-> rows]] /\ UNCHANGED <<registry, answeredAt, answeredBy>>
    BY <1>5, <2>1 DEF run_health_cycle, probeVars
  <2>3. cycle'[c].rows = rows /\ \A d \in Cycles : d # c => cycle'[d] = cycle[d]
    BY <2>2, <1>1
  <2>4. \A s \in DOMAIN rows : rows[s].endpoint \in lived[s]
    BY <2>1 DEF LivedInv
  <2> QED BY <2>2, <2>3, <2>4, <1>2, <1>3, <1>4
<1>6. CASE CycleDies(c)
  <2>1. cycle' = [cycle EXCEPT ![c] = NoRequest] /\ UNCHANGED <<registry, answeredAt, answeredBy>>
    BY <1>6 DEF CycleDies, probeVars
  <2>2. cycle'[c] = NoRequest /\ \A d \in Cycles : d # c => cycle'[d] = cycle[d]
    BY <2>1, <1>1
  <2>3. PICK rows : rows = <<>>
    OBVIOUS
  <2>4. \A s \in DOMAIN rows : rows[s].endpoint \in lived[s]
    BY <2>3
  <2> QED BY <2>1, <2>2, <2>4, <1>2, <1>3, <1>4
<1>7. ASSUME NEW outcome \in {"ok", "http", "error", "invalid"}, _probe_one(c, outcome)
      PROVE  LivedInv'
  <2>1. PICK rows : rows = cycle[c].rows
    OBVIOUS
  <2> DEFINE s == At(c)
             e == rows[s].endpoint
  <2>2. /\ cycle[c].at = "probe" /\ UNCHANGED registry
        /\ cycle' = [cycle EXCEPT ![c] = [at |-> "save", rows |-> rows,
                        found |-> Finding(outcome, rows[s].failures), when |-> fleetTime]]
        /\ \/ UNCHANGED <<answeredAt, answeredBy>>
           \/ /\ answeredAt' = [answeredAt EXCEPT ![s] = fleetTime]
              /\ answeredBy' = [answeredBy EXCEPT ![s] = {e}]
    BY <1>7, <2>1 DEF _probe_one
  <2>3. cycle[c] # NoRequest
    BY <2>2 DEF NoRequest
  <2>4. s \in DOMAIN rows /\ s \in Fleet
    BY <2>1, <2>3, <1>1, AtIsRow
  <2>5. \A u \in DOMAIN rows : rows[u].endpoint \in lived[u]
    BY <2>1, <2>3 DEF LivedInv
  <2>6. cycle'[c].rows = rows /\ \A d \in Cycles : d # c => cycle'[d] = cycle[d]
    BY <2>2, <1>1
  <2>7. e \in lived[s]
    BY <2>4, <2>5
  <2> HIDE DEF s, e
  <2>8. /\ DOMAIN answeredBy' = Fleet
        /\ \A u \in Fleet : /\ answeredBy'[u] \subseteq lived[u]
                            /\ answeredAt'[u] # NeverChecked => answeredBy'[u] # {}
    <3>1. CASE UNCHANGED <<answeredAt, answeredBy>>
      BY <3>1, <1>3
    <3>2. CASE /\ answeredAt' = [answeredAt EXCEPT ![s] = fleetTime]
               /\ answeredBy' = [answeredBy EXCEPT ![s] = {e}]
      BY <3>2, <2>4, <2>7 DEF LivedInv, FleetInv, HistoryInv
    <3> QED BY <2>2, <3>1, <3>2
  <2> QED BY <2>2, <2>5, <2>6, <2>8, <1>2, <1>4
<1>8. CASE update_sentinel_health(c)
  <2> DEFINE s == At(c)
             found == cycle[c].found
  <2>1. PICK rows : rows = [u \in DOMAIN cycle[c].rows \ {s} |-> cycle[c].rows[u]]
    OBVIOUS
  <2>2. /\ cycle[c].at = "save" /\ UNCHANGED <<answeredAt, answeredBy>>
        /\ registry' = IF s \in Registered
                       THEN [registry EXCEPT ![s].health = found.health, ![s].failures = found.failures,
                                             ![s].checked = cycle[c].when]
                       ELSE registry
        /\ cycle' = [cycle EXCEPT ![c] = IF DOMAIN rows = {} THEN NoRequest ELSE [at |-> "probe", rows |-> rows]]
    BY <1>8, <2>1 DEF update_sentinel_health, probeVars
  <2>3. cycle[c] # NoRequest
    BY <2>2 DEF NoRequest
  <2> HIDE DEF s, found
  <2>4. \A u \in DOMAIN rows : rows[u].endpoint \in lived[u]
    BY <2>1, <2>3 DEF LivedInv
  <2>5. /\ cycle'[c] = NoRequest \/ cycle'[c].rows = rows
        /\ \A d \in Cycles : d # c => cycle'[d] = cycle[d]
    BY <2>2, <1>1
  <2>6. \A u \in Registered' : u \in Registered /\ registry'[u].endpoint = registry[u].endpoint
    <3>1. CASE s \notin Registered
      BY <3>1, <2>2, <1>4
    <3>2. CASE s \in Registered
      <4>1. s \in Fleet /\ registry[s] \in FleetRows /\ registry \in [Fleet -> {Unregistered} \cup FleetRows]
        BY <3>2, <1>1, RegisteredRows DEF RegistryInv
      <4>2. /\ \A u \in Fleet : u # s => registry'[u] = registry[u]
            /\ registry'[s] = [registry[s] EXCEPT !.health = found.health, !.failures = found.failures,
                                                  !.checked = cycle[c].when]
        BY <3>2, <2>2, <4>1
      <4>3. registry'[s].endpoint = registry[s].endpoint
        BY <4>1, <4>2 DEF FleetRows
      <4> QED BY <3>2, <4>2, <4>3 DEF Registered
    <3> QED BY <3>1, <3>2
  <2> QED BY <2>2, <2>4, <2>5, <2>6, <1>2, <1>3
<1> QED BY <1>5, <1>6, <1>7, <1>8 DEF CycleStep

\* Every step of the fleet keeps what its sentinels have had.
LEMMA LivedStep ==
    ASSUME FleetInv, LivedInv, [FleetNext]_fleetVars
    PROVE  LivedInv'
<1>1. ASSUME UNCHANGED <<rowVars, probeVars, cycle>> PROVE LivedInv'
  BY <1>1, LivedFrame DEF rowVars, probeVars
<1>2. CASE FleetTick \/ UNCHANGED fleetVars
  BY <1>2, <1>1 DEF FleetTick, fleetVars
<1>3. ASSUME NEW e \in Endpoints, NamesChange(e) PROVE LivedInv'
  BY <1>3, <1>1 DEF NamesChange
<1>4. ASSUME NEW p \in Pushes, coordinate_push(p) \/ _select_targets(p) \/ PushReturns(p) PROVE LivedInv'
  BY <1>4, <1>1 DEF coordinate_push, _select_targets, PushReturns, useIdle
<1>5. ASSUME NEW r \in Relays, RelayStep(r) \/ \E s \in Fleet : relay_request(r, s) PROVE LivedInv'
  BY <1>5, <1>1 DEF RelayStep, relay_request, RelayValidates, RelayPosts, append_relay_audit_link, RelayDies,
                    RelayFails, useIdle
<1> QED BY <1>2, <1>3, <1>4, <1>5, RegistrarLives, CycleLives DEF FleetNext

\* Initially nobody has answered.
LEMMA LivedStart == FleetInit => LivedInv
BY DEF FleetInit, FleetQuiet, LivedInv, Registered

\* The registry can be trusted for any number of Sentinels, operators, cycles, pushes
\* and relays: an instance that is used answered a probe within the staleness window, at
\* the very endpoint used if its id never had another; failures are never invented;
\* every accepted registration made the row; every relay answered with an outcome has
\* its one link.
THEOREM FleetStaysKnown == FleetSpec => []FleetIsKnown
<1>1. FleetInv /\ LivedInv /\ [FleetNext]_fleetVars => FleetInv'
  <2> SUFFICES ASSUME FleetInv, LivedInv, [FleetNext]_fleetVars PROVE FleetInv'
    OBVIOUS
  <2>1. CASE FleetTick
    <3>1. UNCHANGED <<rowVars, probeVars, registrar, cycle, push, relay, relayLog>>
      BY <2>1 DEF FleetTick
    <3>2. fleetTime' \in 0..MaxFleetTime /\ fleetTime' >= fleetTime
      BY <2>1, FleetAssumption DEF FleetTick, FleetInv, HistoryInv
    <3> QED BY <3>1, <3>2, FleetWorldKeeps
  <2>2. ASSUME NEW e \in Endpoints, NamesChange(e) PROVE FleetInv'
    <3>1. UNCHANGED <<rowVars, probeVars, fleetTime, registrar, cycle, push, relay, relayLog>>
      BY <2>2 DEF NamesChange
    <3>2. UNCHANGED <<rowVars, probeVars, registrar, cycle, push, relay, relayLog>>
      BY <3>1
    <3>3. fleetTime' \in 0..MaxFleetTime /\ fleetTime' >= fleetTime
      BY <3>1, FleetAssumption DEF FleetInv, HistoryInv
    <3> QED BY <3>2, <3>3, FleetWorldKeeps
  <2>3. ASSUME NEW o \in Registrars, RegistrarStep(o) PROVE FleetInv'
    <3>1. UNCHANGED <<probeVars, fleetTime, cycle, push, relay, relayLog>>
      BY <2>3 DEF RegistrarStep, register_sentinel, modify_sentinel, deregister_sentinel, ValidateEndpoint,
                  get_sentinel, insert_sentinel, update_sentinel, delete_sentinel, MatchesNoRow,
                  append_registry_audit_link, CallRollsBack, othersIdle
    <3>2. UNCHANGED <<probeFails, answeredAt>>
      BY <3>1 DEF probeVars
    <3>3. HistoryInv'
      BY <3>1, <3>2 DEF FleetInv, HistoryInv, NeverChecked
    <3>4. RegistryInv'
      BY <2>3, RegistrarKeeps
    <3> QED BY <3>1, <3>2, <3>3, <3>4, CycleFrame, PushFrame, RelayFrame DEF FleetInv
  <2>4. ASSUME NEW c \in Cycles, CycleStep(c) \/ CycleDies(c) PROVE FleetInv'
    BY <2>4, CycleKeeps
  <2>5. ASSUME NEW p \in Pushes, coordinate_push(p) \/ _select_targets(p) \/ PushReturns(p) PROVE FleetInv'
    BY <2>5, PushKeeps
  <2>6. ASSUME NEW r \in Relays, RelayStep(r) \/ \E s \in Fleet : relay_request(r, s) PROVE FleetInv'
    BY <2>6, RelayKeeps
  <2>7. CASE UNCHANGED fleetVars
    <3>1. UNCHANGED <<rowVars, probeVars, fleetTime, registrar, cycle, push, relay, relayLog>>
      BY <2>7 DEF fleetVars
    <3>2. UNCHANGED <<rowVars, probeVars, registrar, cycle, push, relay, relayLog>>
      BY <3>1
    <3>3. fleetTime' \in 0..MaxFleetTime /\ fleetTime' >= fleetTime
      BY <3>1, FleetAssumption DEF FleetInv, HistoryInv
    <3> QED BY <3>2, <3>3, FleetWorldKeeps
  <2> QED BY <2>1, <2>2, <2>3, <2>4, <2>5, <2>6, <2>7 DEF FleetNext
<1>2. FleetInv /\ LivedInv /\ [FleetNext]_fleetVars => LivedInv'
  BY LivedStep
<1> QED BY <1>1, <1>2, FleetStart, LivedStart, FleetInvKnown, PTL DEF FleetSpec

-----------------------------------------------------------------------------
(* Rendly's rooms *)

SendStates == {"new", "authorized", "refused", "inspected", "blocked", "admitted", "inserting",
               "stored", "sent", "failed"}

RoomTypes ==
    /\ role \in [People -> {"none", "guest", "member"}] /\ send \in [Messages -> SendStates]
    /\ seqs \in Seq(Messages) /\ seqRead \in [Messages -> Nat] /\ nextNumber \in Nat
    /\ channelRow \in Messages \cup {NoMessage}

\* The right to post was seen after the inspection by whoever got past it; whoever has yet
\* to get past it is eligible as soon as the right is there.
RightWasSeen ==
    \A m \in Messages :
        /\ InFlight(m) /\ CanPost(AuthorOf[m]) => m \in eligible
        /\ send[m] \in {"admitted", "inserting", "stored", "sent"} => m \in eligible

\* The insert in progress has the channel's row and its newest number.
InsertHasRow ==
    \A m \in Messages : send[m] = "inserting" => channelRow = m /\ seqRead[m] = nextNumber

\* A message is in the channel once its commit is over.
InChannelOnceStored ==
    \A i \in 1..Len(seqs) : send[seqs[i]] \in {"stored", "sent"}

RoomInv == RoomTypes /\ RightWasSeen /\ InsertHasRow /\ InChannelOnceStored /\ NumberedInOrder

LEMMA RoomInvSound == RoomInv => RoomIsSound
BY DEF RoomInv, RightWasSeen, RoomIsSound, StoredWasAllowed

LEMMA RoomStart == RoomInit => RoomInv
<1> SUFFICES ASSUME RoomInit PROVE RoomInv
  OBVIOUS
<1>1. RoomTypes /\ InChannelOnceStored /\ NumberedInOrder
  BY DEF RoomInit, RoomTypes, SendStates, InChannelOnceStored, NumberedInOrder
<1>2. RightWasSeen /\ InsertHasRow
  BY DEF RoomInit, RightWasSeen, InsertHasRow, InFlight
<1> QED BY <1>1, <1>2 DEF RoomInv

\* Members come and go: a right that appears is seen by all that is in flight.
LEMMA MembersKeep ==
    ASSUME RoomInv, NEW u \in People, NEW r \in {"none", "guest", "member"},
           role' = [role EXCEPT ![u] = r], UNCHANGED <<storeVars, send>>,
           eligible' = eligible \cup
              (IF r = "member" THEN {m \in Messages : InFlight(m) /\ AuthorOf[m] = u} ELSE {})
    PROVE  RoomInv'
<1>1. RoomTypes'
  BY DEF RoomInv, RoomTypes, storeVars
<1>2. InsertHasRow' /\ InChannelOnceStored' /\ NumberedInOrder'
  BY DEF RoomInv, InsertHasRow, InChannelOnceStored, NumberedInOrder, storeVars
<1>3. RightWasSeen'
  <2> SUFFICES ASSUME NEW m \in Messages
               PROVE  /\ InFlight(m)' /\ CanPost(AuthorOf[m])' => m \in eligible'
                      /\ send'[m] \in {"admitted", "inserting", "stored", "sent"} => m \in eligible'
    BY DEF RightWasSeen
  <2>1. AuthorOf[m] \in People /\ role'[AuthorOf[m]] = (IF AuthorOf[m] = u THEN r ELSE role[AuthorOf[m]])
    BY RoomAssumption DEF RoomInv, RoomTypes
  <2> QED BY <2>1 DEF RoomInv, RightWasSeen, InFlight, CanPost
<1> QED BY <1>1, <1>2, <1>3 DEF RoomInv

\* A send moves on without the channel's row.
LEMMA SendMoves ==
    ASSUME RoomInv, NEW m \in Messages, NEW next \in SendStates \ {"inserting"}, send[m] # "inserting",
           send' = [send EXCEPT ![m] = next], UNCHANGED <<memberVars, storeVars>>,
           eligible \subseteq eligible',
           next = "inspected" /\ CanPost(AuthorOf[m]) => m \in eligible',
           next = "admitted" => InFlight(m) /\ CanPost(AuthorOf[m]),
           next \in {"stored", "sent"} => send[m] = "stored",
           send[m] \in {"stored", "sent"} => next \in {"stored", "sent"}
    PROVE  RoomInv'
<1>1. \A o \in Messages : send'[o] = IF o = m THEN next ELSE send[o]
  BY DEF RoomInv, RoomTypes
<1>2. RoomTypes'
  BY DEF RoomInv, RoomTypes, storeVars, memberVars
<1>3. InsertHasRow'
  BY <1>1 DEF RoomInv, InsertHasRow, storeVars
<1>4. InChannelOnceStored' /\ NumberedInOrder'
  <2>1. \A i \in 1..Len(seqs) : seqs[i] \in Messages
    BY DEF RoomInv, RoomTypes
  <2> QED BY <1>1, <2>1 DEF RoomInv, InChannelOnceStored, NumberedInOrder, storeVars
<1>5. RightWasSeen'
  BY <1>1 DEF RoomInv, RightWasSeen, InFlight, CanPost, memberVars
<1> QED BY <1>2, <1>3, <1>4, <1>5 DEF RoomInv

\* The insert takes the row and reads the counter.
LEMMA InsertStarts ==
    ASSUME RoomInv, NEW m \in Messages, LockChannelRow(m)
    PROVE  RoomInv'
<1>1. /\ send[m] = "admitted" /\ channelRow = NoMessage /\ channelRow' = m
      /\ seqRead' = [seqRead EXCEPT ![m] = nextNumber] /\ send' = [send EXCEPT ![m] = "inserting"]
      /\ UNCHANGED <<role, seqs, nextNumber, eligible>>
  BY DEF LockChannelRow, memberVars
<1>2. \A o \in Messages : /\ send'[o] = (IF o = m THEN "inserting" ELSE send[o])
                          /\ seqRead'[o] = (IF o = m THEN nextNumber ELSE seqRead[o])
  BY <1>1 DEF RoomInv, RoomTypes
<1>3. RoomTypes'
  BY <1>1 DEF RoomInv, RoomTypes, SendStates
<1>4. InsertHasRow'
  <2>1. \A o \in Messages : send[o] # "inserting"
    BY <1>1, RoomAssumption DEF RoomInv, InsertHasRow
  <2> QED BY <1>1, <1>2, <2>1 DEF InsertHasRow
<1>5. InChannelOnceStored' /\ NumberedInOrder'
  <2>1. \A i \in 1..Len(seqs) : seqs[i] \in Messages /\ seqs[i] # m
    <3>1. \A i \in 1..Len(seqs) : seqs[i] \in Messages
      BY DEF RoomInv, RoomTypes
    <3> QED BY <1>1, <3>1 DEF RoomInv, InChannelOnceStored
  <2> QED BY <1>1, <1>2, <2>1 DEF RoomInv, InChannelOnceStored, NumberedInOrder
<1>6. RightWasSeen'
  BY <1>1, <1>2 DEF RoomInv, RightWasSeen, InFlight, CanPost
<1> QED BY <1>3, <1>4, <1>5, <1>6 DEF RoomInv

\* The commit gives the message the number it read, which is still the next.
LEMMA InsertEnds ==
    ASSUME RoomInv, NEW m \in Messages, CommitChat(m)
    PROVE  RoomInv'
<1>1. /\ send[m] = "inserting" /\ channelRow' = NoMessage /\ UNCHANGED <<role, seqRead, eligible>>
      /\ \/ /\ send' = [send EXCEPT ![m] = "stored"] /\ seqs' = Append(seqs, m)
            /\ nextNumber' = seqRead[m] + 1
         \/ send' = [send EXCEPT ![m] = "failed"] /\ UNCHANGED <<seqs, nextNumber>>
  BY DEF CommitChat, memberVars
<1>2. PICK next \in {"stored", "failed"} : /\ send' = [send EXCEPT ![m] = next]
                                           /\ \A o \in Messages : send'[o] = IF o = m THEN next ELSE send[o]
  BY <1>1 DEF RoomInv, RoomTypes
<1>3. channelRow = m /\ seqRead[m] = nextNumber /\ nextNumber = Len(seqs) /\ seqs \in Seq(Messages)
  BY <1>1 DEF RoomInv, InsertHasRow, NumberedInOrder, RoomTypes
<1>4. \A o \in Messages : o # m => send[o] # "inserting"
  BY <1>3 DEF RoomInv, InsertHasRow
<1>5. InsertHasRow' /\ RightWasSeen'
  BY <1>1, <1>2, <1>4 DEF RoomInv, InsertHasRow, RightWasSeen, InFlight, CanPost
<1>6. RoomTypes'
  <2>1. seqs' \in Seq(Messages) /\ nextNumber' \in Nat
    <3>1. nextNumber \in Nat /\ nextNumber + 1 \in Nat /\ Append(seqs, m) \in Seq(Messages)
      BY <1>3 DEF RoomInv, RoomTypes
    <3> QED BY <1>1, <1>3, <3>1
  <2>2. next \in SendStates
    BY DEF SendStates
  <2> QED BY <1>1, <1>2, <2>1, <2>2 DEF RoomInv, RoomTypes
<1>7. \A i \in 1..Len(seqs) : seqs[i] \in Messages /\ seqs[i] # m
  <2>1. \A i \in 1..Len(seqs) : seqs[i] \in Messages
    BY <1>3
  <2> QED BY <1>1, <2>1 DEF RoomInv, InChannelOnceStored
<1>8. CASE send' = [send EXCEPT ![m] = "stored"] /\ seqs' = Append(seqs, m) /\ nextNumber' = seqRead[m] + 1
  <2>1. /\ Len(seqs') = Len(seqs) + 1 /\ seqs'[Len(seqs) + 1] = m /\ Len(seqs) \in Nat
        /\ \A i \in 1..Len(seqs) : seqs'[i] = seqs[i]
    BY <1>3, <1>8
  <2>2. send'[m] = "stored"
    BY <1>8 DEF RoomInv, RoomTypes
  <2>3. InChannelOnceStored'
    BY <1>2, <1>7, <2>1, <2>2 DEF RoomInv, InChannelOnceStored
  <2>4. NumberedInOrder'
    BY <1>1, <1>3, <1>8, <2>1 DEF RoomInv, NumberedInOrder
  <2> QED BY <1>5, <1>6, <2>3, <2>4 DEF RoomInv
<1>9. CASE send' = [send EXCEPT ![m] = "failed"] /\ UNCHANGED <<seqs, nextNumber>>
  <2>1. InChannelOnceStored' /\ NumberedInOrder'
    BY <1>1, <1>2, <1>7, <1>9 DEF RoomInv, InChannelOnceStored, NumberedInOrder
  <2> QED BY <1>5, <1>6, <2>1 DEF RoomInv
<1> QED BY <1>1, <1>8, <1>9

\* Every step of a room keeps the invariant.
LEMMA RoomStep == RoomInv /\ [RoomNext]_roomVars => RoomInv'
<1> SUFFICES ASSUME RoomInv, [RoomNext]_roomVars PROVE RoomInv'
  OBVIOUS
<1> DEFINE Same == UNCHANGED <<role, send, seqs, seqRead, nextNumber, channelRow, eligible>>
<1>1. ASSUME Same PROVE RoomInv'
  BY <1>1 DEF RoomInv, RoomTypes, RightWasSeen, InsertHasRow, InChannelOnceStored, NumberedInOrder, InFlight, CanPost
<1>2. ASSUME NEW u \in People, \/ \E r \in {"guest", "member"} : upsert_member(u, r)
                               \/ remove_member(u)
      PROVE  RoomInv'
  <2>1. CASE remove_member(u)
    <3>1. /\ role' = [role EXCEPT ![u] = "none"] /\ UNCHANGED <<storeVars, send>>
          /\ eligible' = eligible \cup {}
      BY <2>1 DEF remove_member
    <3> QED BY <3>1, MembersKeep
  <2>2. ASSUME NEW r \in {"guest", "member"}, upsert_member(u, r) PROVE RoomInv'
    BY <2>2, MembersKeep DEF upsert_member
  <2> QED BY <1>2, <2>1, <2>2
<1>3. ASSUME NEW u \in People, remove_user_from_channel(u) PROVE RoomInv'
  BY <1>1, <1>3 DEF remove_user_from_channel, storeVars
<1>4. ASSUME NEW c \in Sockets, realtime_endpoint(c) \/ RegistryAdd(c) \/ Disconnect(c) PROVE RoomInv'
  BY <1>1, <1>4 DEF realtime_endpoint, RegistryAdd, Disconnect, storeVars, memberVars
<1>5. ASSUME NEW m \in Messages, handle_chat_send(m) \/ Reauthorize(m) \/ broadcast_channel(m) PROVE RoomInv'
  <2>1. PICK next \in {"authorized", "refused", "admitted", "sent"} :
           /\ send' = [send EXCEPT ![m] = next] /\ UNCHANGED <<memberVars, storeVars, eligible>>
           /\ \/ send[m] = "new" /\ next \in {"authorized", "refused"}
              \/ send[m] = "inspected" /\ next = "refused"
              \/ send[m] = "inspected" /\ next = "admitted" /\ CanPost(AuthorOf[m])
              \/ send[m] = "stored" /\ next = "sent"
    BY <1>5 DEF handle_chat_send, Reauthorize, broadcast_channel
  <2>2. next \in SendStates \ {"inserting"}
    BY DEF SendStates
  <2> QED BY <2>1, <2>2, SendMoves DEF InFlight
<1>6. ASSUME NEW m \in Messages, NEW verdict \in {"pass", "blocked", "unavailable"}, inspect(m, verdict) PROVE RoomInv'
  <2>1. PICK next \in {"inspected", "blocked"} :
           /\ send' = [send EXCEPT ![m] = next] /\ UNCHANGED <<memberVars, storeVars>> /\ send[m] = "authorized"
           /\ next = "inspected" => verdict = "pass"
           /\ eligible' = eligible \cup (IF CanPost(AuthorOf[m]) /\ verdict = "pass" THEN {m} ELSE {})
    BY <1>6 DEF inspect
  <2>2. next \in SendStates \ {"inserting"}
    BY DEF SendStates
  <2> QED BY <2>1, <2>2, SendMoves
<1>7. ASSUME NEW m \in Messages, LockChannelRow(m) \/ CommitChat(m) PROVE RoomInv'
  BY <1>7, InsertStarts, InsertEnds
<1>8. CASE UNCHANGED roomVars
  BY <1>1, <1>8 DEF roomVars
<1> QED BY <1>2, <1>3, <1>4, <1>5, <1>6, <1>7, <1>8 DEF RoomNext

-----------------------------------------------------------------------------
(* Rendly's huddles *)

HuddleObjects == [state : {"none", "ringing", "accepted", "active", "declined", "ended"},
                  caller : Participants \cup {NoHuddle}, live : SUBSET Participants]

HuddleTypes ==
    /\ line \in [Phones -> {"closed", "opening", "live", "dropping", "leaked"}]
    /\ huddle \in [Calls -> HuddleObjects] /\ managed \subseteq Calls
    /\ activeOf \in [Participants -> Calls \cup {NoHuddle}]
    /\ archive \in [Calls -> 0..1]

\* The manager knows only huddles that were started.
ManagedWasStarted == \A h \in managed : huddle[h].state # "none"

\* Whoever is not registered and has been cleaned up after is in no huddle.
UnregisteredIsFree ==
    \A u \in Participants :
        user_connections(u) = {} /\ ~CleaningUp(u) => activeOf[u] = NoHuddle

HuddleInv == HuddleTypes /\ ManagedWasStarted /\ BusyIsLive /\ UnregisteredIsFree /\ EndedIsArchivedOnce

\* The invariant implies the property: a closed socket is registered only if it leaked.
LEMMA HuddleInvClean == HuddleInv => HuddlesEndCleanly
<1> SUFFICES ASSUME HuddleInv PROVE OfflineIsFree
  BY DEF HuddleInv, HuddlesEndCleanly
<1> SUFFICES ASSUME NEW u \in Participants, Offline(u), ~HasLeaked(u) PROVE activeOf[u] = NoHuddle
  BY DEF OfflineIsFree
<1>1. \A c \in Phones : PhoneOf[c] = u => line[c] = "closed"
  BY DEF Offline, HasLeaked
<1>2. user_connections(u) = {} /\ ~CleaningUp(u)
  BY <1>1 DEF user_connections, CleaningUp
<1> QED BY <1>2 DEF HuddleInv, UnregisteredIsFree

LEMMA HuddleStart == HuddleInit => HuddleInv
<1> SUFFICES ASSUME HuddleInit PROVE HuddleInv
  OBVIOUS
<1>1. HuddleTypes
  BY DEF HuddleInit, HuddleTypes, HuddleObjects, NeverStarted
<1>2. ManagedWasStarted /\ BusyIsLive /\ UnregisteredIsFree /\ EndedIsArchivedOnce
  BY HuddleAssumption DEF HuddleInit, ManagedWasStarted, BusyIsLive, UnregisteredIsFree, EndedIsArchivedOnce, NeverStarted
<1> QED BY <1>1, <1>2 DEF HuddleInv

\* A connection that moves on within the registry, or waits for its cleanup.
LEMMA LineMoves ==
    ASSUME HuddleInv, NEW c \in Phones, NEW next \in {"opening", "live", "dropping", "leaked"},
           line' = [line EXCEPT ![c] = next],
           next = "dropping" \/ line[c] # "dropping",
           UNCHANGED <<huddle, managed, activeOf, archive, archiveLost>>
    PROVE  HuddleInv'
<1>1. \A d \in Phones : line'[d] = IF d = c THEN next ELSE line[d]
  BY DEF HuddleInv, HuddleTypes
<1>2. HuddleTypes' /\ ManagedWasStarted' /\ BusyIsLive' /\ EndedIsArchivedOnce'
  BY DEF HuddleInv, HuddleTypes, ManagedWasStarted, BusyIsLive, EndedIsArchivedOnce
<1>3. UnregisteredIsFree'
  <2> SUFFICES ASSUME NEW u \in Participants, user_connections(u)' = {}, ~CleaningUp(u)'
               PROVE  activeOf[u] = NoHuddle
    BY DEF UnregisteredIsFree
  <2>1. PhoneOf[c] # u
    BY <1>1 DEF user_connections, CleaningUp
  <2>2. user_connections(u) = {} /\ ~CleaningUp(u)
    BY <1>1, <2>1 DEF user_connections, CleaningUp
  <2> QED BY <2>2 DEF HuddleInv, UnregisteredIsFree
<1> QED BY <1>2, <1>3 DEF HuddleInv

\* An invitation that everybody can take.
LEMMA InviteKeeps ==
    ASSUME HuddleInv, NEW u \in Participants, NEW h \in Calls, NEW invitees \in SUBSET Participants,
           handle_huddle_invite(u, invitees, h)
    PROVE  HuddleInv'
<1> DEFINE live == invitees \cup {u}
           new == [state |-> "ringing", caller |-> u, live |-> live]
<1>1. /\ \E c \in Phones : PhoneOf[c] = u /\ line[c] = "live"
      /\ \A v \in invitees : user_connections(v) # {}
      /\ \A v \in live : activeOf[v] = NoHuddle
      /\ huddle[h].state = "none" /\ huddle' = [huddle EXCEPT ![h] = new] /\ managed' = managed \cup {h}
      /\ activeOf' = [v \in Participants |-> IF v \in live THEN h ELSE activeOf[v]]
      /\ UNCHANGED <<line, archive, archiveLost>>
  BY DEF handle_huddle_invite
<1>2. new \in HuddleObjects /\ new.state = "ringing" /\ new.live = live
  BY DEF HuddleObjects
<1>3. \A v \in live : user_connections(v) # {}
  BY <1>1 DEF user_connections
<1> HIDE DEF new
<1>4. /\ \A g \in Calls : huddle'[g] = IF g = h THEN new ELSE huddle[g]
      /\ \A v \in Participants : activeOf'[v] = IF v \in live THEN h ELSE activeOf[v]
      /\ h \notin managed
  BY <1>1 DEF HuddleInv, HuddleTypes, ManagedWasStarted
<1>5. HuddleTypes'
  BY <1>1, <1>2 DEF HuddleInv, HuddleTypes
<1>6. ManagedWasStarted' /\ EndedIsArchivedOnce'
  BY <1>1, <1>2, <1>4 DEF HuddleInv, HuddleTypes, ManagedWasStarted, EndedIsArchivedOnce
<1>7. BusyIsLive'
  <2> SUFFICES ASSUME NEW v \in Participants, NEW g \in Calls
               PROVE  activeOf'[v] = g <=> g \in managed' /\ v \in huddle'[g].live
    BY DEF BusyIsLive
  <2>1. activeOf[v] = g <=> g \in managed /\ v \in huddle[g].live
    BY DEF HuddleInv, BusyIsLive
  <2>2. CASE g = h
    BY <2>1, <2>2, <1>1, <1>2, <1>4
  <2>3. CASE g # h
    <3>1. v \in live => activeOf[v] # g
      BY <1>1, HuddleAssumption
    <3> QED BY <2>1, <2>3, <3>1, <1>1, <1>4
  <2> QED BY <2>2, <2>3
<1>8. UnregisteredIsFree'
  <2> SUFFICES ASSUME NEW v \in Participants, user_connections(v)' = {}, ~CleaningUp(v)'
               PROVE  activeOf'[v] = NoHuddle
    BY DEF UnregisteredIsFree
  <2>1. user_connections(v) = {} /\ ~CleaningUp(v)
    BY <1>1 DEF user_connections, CleaningUp
  <2> QED BY <2>1, <1>3, <1>4 DEF HuddleInv, UnregisteredIsFree
<1> QED BY <1>5, <1>6, <1>7, <1>8 DEF HuddleInv

\* A user leaves, and perhaps the huddle is released: nobody stays busy for it.
LEMMA LeaveKeeps ==
    ASSUME HuddleInv, NEW h \in managed, NEW u \in huddle[h].live, NEW decline \in BOOLEAN,
           leave_huddle(h, u, decline)
    PROVE  /\ huddle' \in [Calls -> HuddleObjects] /\ managed' \subseteq Calls
           /\ activeOf' \in [Participants -> Calls \cup {NoHuddle}]
           /\ activeOf'[u] = NoHuddle
           /\ \A v \in Participants : activeOf'[v] \in {activeOf[v], NoHuddle}
           /\ \A g \in Calls : huddle'[g].state \in {huddle[g].state, "declined"}
           /\ ManagedWasStarted' /\ BusyIsLive'
<1> DEFINE live == huddle[h].live \ {u}
           act == [activeOf EXCEPT ![u] = IF @ = h THEN NoHuddle ELSE @]
<1>1. h \in Calls /\ u \in Participants /\ huddle[h] \in HuddleObjects /\ live \subseteq Participants
  BY DEF HuddleInv, HuddleTypes, HuddleObjects
<1>2. activeOf[u] = h /\ \A v \in Participants : activeOf[v] = h <=> v \in huddle[h].live
  BY <1>1 DEF HuddleInv, BusyIsLive
<1>3. /\ act \in [Participants -> Calls \cup {NoHuddle}]
      /\ \A v \in Participants : act[v] = IF v = u THEN NoHuddle ELSE activeOf[v]
  BY <1>1, <1>2 DEF HuddleInv, HuddleTypes
<1>4. \A g \in Calls, v \in Participants : activeOf[v] = g <=> g \in managed /\ v \in huddle[g].live
  BY DEF HuddleInv, BusyIsLive
<1> HIDE DEF act
<1>5. CASE ReleaseHuddle(h, "declined", act, live)
  <2>1. /\ huddle' = [huddle EXCEPT ![h].state = "declined", ![h].live = live]
        /\ managed' = managed \ {h}
        /\ activeOf' = [v \in Participants |-> IF v \in live /\ act[v] = h THEN NoHuddle ELSE act[v]]
    BY <1>5 DEF ReleaseHuddle
  <2>2. \A v \in Participants : activeOf'[v] = IF v \in huddle[h].live THEN NoHuddle ELSE activeOf[v]
    BY <2>1, <1>2, <1>3
  <2>3. /\ huddle' \in [Calls -> HuddleObjects] /\ huddle'[h].state = "declined"
        /\ \A g \in Calls : g # h => huddle'[g] = huddle[g]
    BY <2>1, <1>1 DEF HuddleInv, HuddleTypes, HuddleObjects
  <2>4. activeOf' \in [Participants -> Calls \cup {NoHuddle}]
    BY <2>1, <1>3
  <2>5. BusyIsLive'
    <3> SUFFICES ASSUME NEW v \in Participants, NEW g \in Calls
                 PROVE  activeOf'[v] = g <=> g \in managed' /\ v \in huddle'[g].live
      BY DEF BusyIsLive
    <3>1. NoHuddle # g
      BY HuddleAssumption
    <3>2. CASE g = h
      BY <3>1, <3>2, <2>1, <2>2, <1>2
    <3>3. CASE g # h
      BY <3>1, <3>3, <2>1, <2>2, <2>3, <1>2, <1>4
    <3> QED BY <3>2, <3>3
  <2>6. ManagedWasStarted'
    BY <2>1, <2>3 DEF HuddleInv, HuddleTypes, ManagedWasStarted
  <2>7. managed' \subseteq Calls
    BY <2>1 DEF HuddleInv, HuddleTypes
  <2>8. \A g \in Calls : huddle'[g].state \in {huddle[g].state, "declined"}
    BY <2>3
  <2> QED BY <2>2, <2>3, <2>4, <2>5, <2>6, <2>7, <2>8, <1>1
<1>6. CASE huddle' = [huddle EXCEPT ![h].live = live] /\ activeOf' = act /\ UNCHANGED managed
  <2>1. /\ huddle' \in [Calls -> HuddleObjects] /\ huddle'[h].state = huddle[h].state /\ huddle'[h].live = live
        /\ \A g \in Calls : g # h => huddle'[g] = huddle[g]
    BY <1>6, <1>1 DEF HuddleInv, HuddleTypes, HuddleObjects
  <2>2. BusyIsLive'
    <3> SUFFICES ASSUME NEW v \in Participants, NEW g \in Calls
                 PROVE  activeOf'[v] = g <=> g \in managed' /\ v \in huddle'[g].live
      BY DEF BusyIsLive
    <3>1. NoHuddle # g
      BY HuddleAssumption
    <3> QED BY <3>1, <2>1, <1>2, <1>3, <1>4, <1>6
  <2>3. ManagedWasStarted' /\ managed' \subseteq Calls
    BY <2>1, <1>6 DEF HuddleInv, HuddleTypes, ManagedWasStarted
  <2>4. \A g \in Calls : huddle'[g].state \in {huddle[g].state, "declined"}
    BY <2>1
  <2> QED BY <2>1, <2>2, <2>3, <2>4, <1>1, <1>3, <1>6
<1> QED BY <1>5, <1>6 DEF leave_huddle, act

\* Hangup, and the cleanup after the last connection.
LEMMA DepartKeeps ==
    ASSUME HuddleInv, \/ \E u \in Participants, h \in Calls : handle_huddle_hangup(u, h)
                      \/ \E c \in Phones : CleanUp(c)
    PROVE  HuddleInv'
<1>1. ASSUME NEW u \in Participants, NEW h \in Calls, handle_huddle_hangup(u, h) PROVE HuddleInv'
  <2>1. /\ h \in managed /\ u \in huddle[h].live /\ UNCHANGED <<line, archive, archiveLost>>
        /\ leave_huddle(h, u, huddle[h].state = "ringing" /\ u \in Callee(h))
    BY <1>1 DEF handle_huddle_hangup
  <2>2. (huddle[h].state = "ringing" /\ u \in Callee(h)) \in BOOLEAN
    OBVIOUS
  <2>3. /\ huddle' \in [Calls -> HuddleObjects] /\ managed' \subseteq Calls
        /\ activeOf' \in [Participants -> Calls \cup {NoHuddle}]
        /\ \A v \in Participants : activeOf'[v] \in {activeOf[v], NoHuddle}
        /\ \A g \in Calls : huddle'[g].state \in {huddle[g].state, "declined"}
        /\ ManagedWasStarted' /\ BusyIsLive'
    BY <2>1, <2>2, LeaveKeeps
  <2>4. HuddleTypes' /\ EndedIsArchivedOnce'
    BY <2>1, <2>3 DEF HuddleInv, HuddleTypes, EndedIsArchivedOnce
  <2>5. UnregisteredIsFree'
    <3>1. \A v \in Participants : user_connections(v)' = user_connections(v) /\ CleaningUp(v)' = CleaningUp(v)
      BY <2>1 DEF user_connections, CleaningUp
    <3> QED BY <2>3, <3>1 DEF HuddleInv, UnregisteredIsFree
  <2> QED BY <2>3, <2>4, <2>5 DEF HuddleInv
<1>2. ASSUME NEW c \in Phones, CleanUp(c) PROVE HuddleInv'
  <2> DEFINE u == PhoneOf[c]
             h == activeOf[u]
  <2>1. /\ line[c] = "dropping" /\ line' = [line EXCEPT ![c] = "closed"] /\ UNCHANGED <<archive, archiveLost>>
        /\ \/ user_connections(u) = {} /\ h # NoHuddle /\ leave_huddle(h, u, FALSE)
           \/ ~(user_connections(u) = {} /\ h # NoHuddle) /\ UNCHANGED <<huddle, managed, activeOf>>
    BY <1>2 DEF CleanUp
  <2>2. /\ u \in Participants /\ line' \in [Phones -> {"closed", "opening", "live", "dropping", "leaked"}]
        /\ \A d \in Phones : line'[d] = IF d = c THEN "closed" ELSE line[d]
    BY <2>1, HuddleAssumption DEF HuddleInv, HuddleTypes
  <2>3. \A v \in Participants : user_connections(v)' = user_connections(v) /\ (v # u => CleaningUp(v)' = CleaningUp(v))
    BY <2>1, <2>2 DEF user_connections, CleaningUp
  <2>4. /\ huddle' \in [Calls -> HuddleObjects] /\ managed' \subseteq Calls
        /\ activeOf' \in [Participants -> Calls \cup {NoHuddle}]
        /\ user_connections(u) = {} => activeOf'[u] = NoHuddle
        /\ \A v \in Participants : activeOf'[v] \in {activeOf[v], NoHuddle}
        /\ \A g \in Calls : huddle'[g].state \in {huddle[g].state, "declined"}
        /\ ManagedWasStarted' /\ BusyIsLive'
    <3>1. CASE user_connections(u) = {} /\ h # NoHuddle /\ leave_huddle(h, u, FALSE)
      <4>1. h \in Calls /\ h \in managed /\ u \in huddle[h].live
        BY <2>2, <3>1 DEF HuddleInv, HuddleTypes, BusyIsLive
      <4> HIDE DEF u, h
      <4> QED BY <3>1, <4>1, LeaveKeeps
    <3>2. CASE ~(user_connections(u) = {} /\ h # NoHuddle) /\ UNCHANGED <<huddle, managed, activeOf>>
      BY <2>2, <3>2 DEF HuddleInv, HuddleTypes, ManagedWasStarted, BusyIsLive
    <3> QED BY <2>1, <3>1, <3>2
  <2>5. HuddleTypes' /\ EndedIsArchivedOnce'
    BY <2>1, <2>2, <2>4 DEF HuddleInv, HuddleTypes, EndedIsArchivedOnce
  <2>6. UnregisteredIsFree'
    <3> SUFFICES ASSUME NEW v \in Participants, user_connections(v)' = {}, ~CleaningUp(v)'
                 PROVE  activeOf'[v] = NoHuddle
      BY DEF UnregisteredIsFree
    <3>1. CASE v = u
      BY <3>1, <2>3, <2>4
    <3>2. CASE v # u
      BY <3>2, <2>3, <2>4 DEF HuddleInv, UnregisteredIsFree
    <3> QED BY <3>1, <3>2
  <2> QED BY <2>4, <2>5, <2>6 DEF HuddleInv
<1> QED BY <1>1, <1>2

\* A huddle ends after its archive write, perhaps for the second time.
LEMMA EndKeeps ==
    ASSUME HuddleInv, NEW h \in Calls, NEW u \in Participants, EndHuddle(h, u)
    PROVE  HuddleInv'
<1> DEFINE live == huddle[h].live
<1>1. /\ archive_ended_huddle(h) /\ UNCHANGED line
      /\ huddle' = [huddle EXCEPT ![h].state = "ended", ![h].live = live] /\ managed' = managed \ {h}
      /\ activeOf' = [v \in Participants |-> IF v \in live /\ activeOf[v] = h THEN NoHuddle ELSE activeOf[v]]
  BY DEF EndHuddle, ReleaseHuddle
<1>2. \A g \in Calls, v \in Participants : activeOf[v] = g <=> g \in managed /\ v \in huddle[g].live
  BY DEF HuddleInv, BusyIsLive
<1>3. \A v \in Participants : activeOf'[v] = IF activeOf[v] = h THEN NoHuddle ELSE activeOf[v]
  BY <1>1, <1>2
<1>4. /\ huddle' \in [Calls -> HuddleObjects] /\ \A g \in Calls : g # h => huddle'[g] = huddle[g]
  <2>1. huddle[h] \in HuddleObjects
    BY DEF HuddleInv, HuddleTypes
  <2>2. [huddle[h] EXCEPT !.state = "ended", !.live = live] \in HuddleObjects
    BY <2>1 DEF HuddleObjects
  <2>3. huddle' = [huddle EXCEPT ![h] = [huddle[h] EXCEPT !.state = "ended", !.live = live]]
    BY <1>1, <2>1 DEF HuddleInv, HuddleTypes, HuddleObjects
  <2> HIDE DEF live
  <2> QED BY <2>2, <2>3 DEF HuddleInv, HuddleTypes
<1>5. /\ archive' \in [Calls -> 0..1] /\ (archive'[h] = 1 \/ h \in archiveLost')
      /\ archiveLost \subseteq archiveLost' /\ \A g \in Calls : archive[g] = 1 => archive'[g] = 1
  BY <1>1 DEF archive_ended_huddle, HuddleInv, HuddleTypes
<1>6. HuddleTypes'
  BY <1>1, <1>4, <1>5 DEF HuddleInv, HuddleTypes
<1>7. ManagedWasStarted'
  BY <1>1, <1>4 DEF HuddleInv, HuddleTypes, ManagedWasStarted
<1>8. BusyIsLive'
  <2> SUFFICES ASSUME NEW v \in Participants, NEW g \in Calls
               PROVE  activeOf'[v] = g <=> g \in managed' /\ v \in huddle'[g].live
    BY DEF BusyIsLive
  <2>1. NoHuddle # g
    BY HuddleAssumption
  <2> QED BY <2>1, <1>1, <1>2, <1>3, <1>4
<1>9. UnregisteredIsFree'
  <2>1. \A v \in Participants : user_connections(v)' = user_connections(v) /\ CleaningUp(v)' = CleaningUp(v)
    BY <1>1 DEF user_connections, CleaningUp
  <2> QED BY <1>3, <2>1 DEF HuddleInv, UnregisteredIsFree
<1>10. EndedIsArchivedOnce'
  <2> SUFFICES ASSUME NEW g \in Calls
               PROVE  archive'[g] <= 1 /\ (huddle'[g].state = "ended" => archive'[g] = 1 \/ g \in archiveLost')
    BY DEF EndedIsArchivedOnce
  <2>1. archive'[g] <= 1
    BY <1>5
  <2>2. CASE g = h
    BY <2>1, <2>2, <1>5
  <2>3. CASE g # h
    BY <2>1, <2>3, <1>4, <1>5 DEF HuddleInv, EndedIsArchivedOnce
  <2> QED BY <2>2, <2>3
<1> QED BY <1>6, <1>7, <1>8, <1>9, <1>10 DEF HuddleInv

\* A signal moves a huddle to another live state, and leaves a terminal one as it is.
LEMMA SignalKeeps ==
    ASSUME HuddleInv, NEW h \in Calls, NEW u \in Participants, SignalTransition(h, u)
    PROVE  HuddleInv'
<1> DEFINE next == AfterSignal(h, u)
<1>1. huddle' = [huddle EXCEPT ![h].state = next] /\ UNCHANGED <<line, managed, activeOf, archive, archiveLost>>
  BY DEF SignalTransition
<1>2. /\ next \in {"accepted", "active"} \cup {huddle[h].state}
  BY DEF AfterSignal
<1> HIDE DEF next
<1>3. huddle[h] \in HuddleObjects
  BY DEF HuddleInv, HuddleTypes
<1>4. /\ huddle' \in [Calls -> HuddleObjects] /\ huddle'[h].state = next /\ huddle'[h].live = huddle[h].live
      /\ \A g \in Calls : g # h => huddle'[g] = huddle[g]
  BY <1>1, <1>2, <1>3 DEF HuddleInv, HuddleTypes, HuddleObjects
<1>5. HuddleTypes' /\ ManagedWasStarted' /\ BusyIsLive' /\ EndedIsArchivedOnce'
  BY <1>1, <1>2, <1>4 DEF HuddleInv, HuddleTypes, ManagedWasStarted, BusyIsLive, EndedIsArchivedOnce
<1>6. UnregisteredIsFree'
  BY <1>1 DEF HuddleInv, UnregisteredIsFree, user_connections, CleaningUp
<1> QED BY <1>5, <1>6 DEF HuddleInv

\* Every step of the huddles keeps the invariant.
LEMMA HuddleStep == HuddleInv /\ [HuddleNext]_huddleVars => HuddleInv'
<1> SUFFICES ASSUME HuddleInv, [HuddleNext]_huddleVars PROVE HuddleInv'
  OBVIOUS
<1>1. ASSUME UNCHANGED <<line, huddle, managed, activeOf, archive, archiveLost>> PROVE HuddleInv'
  BY <1>1 DEF HuddleInv, HuddleTypes, ManagedWasStarted, BusyIsLive, UnregisteredIsFree, EndedIsArchivedOnce,
              user_connections, CleaningUp
<1>2. ASSUME NEW c \in Phones, OpenLine(c) \/ Welcome(c) \/ WelcomeFails(c) \/ DropLine(c) PROVE HuddleInv'
  BY <1>2, LineMoves DEF OpenLine, Welcome, WelcomeFails, DropLine
<1>3. ASSUME NEW u \in Participants, NEW h \in Calls, handle_signal_send(u, h) PROVE HuddleInv'
  BY <1>1, <1>3 DEF handle_signal_send
<1>4. CASE UNCHANGED huddleVars
  BY <1>1, <1>4 DEF huddleVars
<1> QED BY <1>2, <1>3, <1>4, InviteKeeps, DepartKeeps, EndKeeps, SignalKeeps DEF HuddleNext

-----------------------------------------------------------------------------
(* Rendly's sessions in the composition *)

\* A step of the composition is one of rooms, huddles and tokens, or leaves them as they are.
LEMMA RendlySteps ==
    ASSUME [CollaborationNext]_collaborationVars
    PROVE  [RoomNext]_roomVars /\ [HuddleNext]_huddleVars /\ [RefreshNext]_refreshVars
<1>1. CASE Agents \/ Sentinels \/ Products
  BY <1>1 DEF Agents, Sentinels, Products, rendlyVars
<1>2. CASE Rendly
  BY <1>2 DEF Rendly, HuddleUnit
<1>3. CASE Rest \/ UNCHANGED collaborationVars
  BY <1>3 DEF Rest, collaborationVars, rendlyVars
<1> QED BY <1>1, <1>2, <1>3 DEF CollaborationNext

\* For any number of people, sockets, messages, calls and presenters: a room stores only what
\* was allowed and in one order; a huddle leaves nobody busy without it, nobody without an
\* open socket in it unless a socket of theirs failed at its welcome and is still registered,
\* and no end of it unarchived; and a reused token ends its family.
THEOREM SessionsHold == CollaborationSpec => []RendlySessionsHold
<1> DEFINE SessionsInv == RoomInv /\ HuddleInv /\ RefreshInv
<1>1. CollaborationInit => SessionsInv
  BY RoomStart, HuddleStart, RefreshStart DEF CollaborationInit
<1>2. SessionsInv /\ [CollaborationNext]_collaborationVars => SessionsInv'
  BY RendlySteps, RoomStep, HuddleStep, RefreshStep
<1>3. SessionsInv => RendlySessionsHold
  BY RoomInvSound, HuddleInvClean, RefreshInvRotates DEF RendlySessionsHold
<1> HIDE DEF SessionsInv
<1> QED BY <1>1, <1>2, <1>3, PTL DEF CollaborationSpec
====
