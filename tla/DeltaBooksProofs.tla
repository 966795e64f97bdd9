---------------------------- MODULE DeltaBooksProofs ----------------------------
(***************************************************************************)
(* Proofs about TaskGraph, Procurement and PersonalLedger, for any number  *)
(* of concurrent calls and any tasks, edge limit, orders, invoices,        *)
(* payments, cap, statement lines.                                         *)
(*                                                                         *)
(* One argument three times: between what it reads and what it writes a    *)
(* call holds a lock, so what it has read is still true of what it must    *)
(* not break.  For the graph that is the edges loaded, and that an edge    *)
(* whose end does not reach its start closes no cycle.  For orders and     *)
(* payments it is a sum, and the facts about sums over finite sets that    *)
(* this needs are proved first: the fold that the model computes adds one  *)
(* member's weight at a time, in an order that does not matter.            *)
(***************************************************************************)
EXTENDS TaskGraph, Procurement, PersonalLedger, FiniteSetTheorems, WellFoundedInduction, TLAPS

-----------------------------------------------------------------------------
(* Reachability *)

\* A node reaches itself and, whatever it reaches, the nodes an edge away.
LEMMA ReachedClosed ==
    ASSUME NEW es \in SUBSET (Tasks \X Tasks), NEW n \in Tasks
    PROVE  n \in Reached(es, n) /\ ClosedUnder(es, Reached(es, n))
<1>1. n \in Reached(es, n)
  BY DEF Reached
<1>2. ASSUME NEW e \in es, e[1] \in Reached(es, n) PROVE e[2] \in Reached(es, n)
  <2>1. e[1] \in Tasks /\ e[2] \in Tasks
    OBVIOUS
  <2>2. ASSUME NEW S \in SUBSET Tasks, n \in S, ClosedUnder(es, S) PROVE e[2] \in S
    BY <1>2, <2>2 DEF Reached, ClosedUnder
  <2> QED BY <2>1, <2>2 DEF Reached
<1> QED BY <1>1, <1>2 DEF ClosedUnder

\* Nothing else: a closed set with the node contains all that it reaches.
LEMMA ReachedLeast ==
    ASSUME NEW es, NEW n, NEW S \in SUBSET Tasks, n \in S, ClosedUnder(es, S)
    PROVE  Reached(es, n) \subseteq S
BY DEF Reached

\* No edge of es leads back to its own start.
NoCycle(es) == \A e \in es : e[1] \notin Reached(es, e[2])

\* The check of create_dependency is enough: an edge from a to b closes no cycle
\* when b does not reach a.
LEMMA EdgeClosesNoCycle ==
    ASSUME NEW es \in SUBSET (Tasks \X Tasks), NoCycle(es), NEW a \in Tasks, NEW b \in Tasks,
           a \notin Reached(es, b)
    PROVE  NoCycle(es \cup {<<a, b>>})
<1> DEFINE fs == es \cup {<<a, b>>}
           R(v) == Reached(es, v)
           F(v) == Reached(fs, v)
<1>1. \A v \in Tasks : R(v) \in SUBSET Tasks /\ v \in R(v) /\ ClosedUnder(es, R(v))
  BY ReachedClosed DEF Reached
<1>2. ASSUME NEW v \in Tasks, a \notin R(v) PROVE F(v) \subseteq R(v)
  <2>1. ClosedUnder(fs, R(v))
    BY <1>1, <1>2 DEF ClosedUnder
  <2> QED BY <1>1, <2>1, ReachedLeast
<1>3. ASSUME NEW v \in Tasks PROVE F(v) \subseteq R(v) \cup R(b)
  <2>1. ClosedUnder(fs, R(v) \cup R(b))
    BY <1>1 DEF ClosedUnder
  <2>2. R(v) \cup R(b) \in SUBSET Tasks /\ v \in R(v) \cup R(b)
    BY <1>1
  <2> QED BY <2>1, <2>2, ReachedLeast
<1>4. a \notin F(b)
  BY <1>2
<1>5. ASSUME NEW e \in es, e[1] \in F(e[2]) PROVE FALSE
  <2> DEFINE x == e[1]
             y == e[2]
  <2>1. x \in Tasks /\ y \in Tasks /\ e \in es /\ x \in F(y) /\ x \notin R(y)
    BY <1>5 DEF NoCycle
  <2>2. a \in R(y)
    BY <1>2, <2>1
  <2>3. x \in R(b)
    BY <1>3, <2>1
  <2>4. y \in R(b)
    BY <1>1, <2>1, <2>3 DEF ClosedUnder
  <2>5. R(y) \subseteq R(b)
    BY <1>1, <2>4, ReachedLeast
  <2> QED BY <2>2, <2>5
<1>6. ASSUME NEW e \in fs PROVE e[1] \notin F(e[2])
  BY <1>4, <1>5
<1> QED BY <1>6 DEF NoCycle

-----------------------------------------------------------------------------
(* The calls *)

GraphTypeOK ==
    /\ edges \in SUBSET (Tasks \X Tasks)
    /\ planner \in [Planners -> [at : {"idle", "waits", "locked", "loaded"},
                                 edge : {<<>>} \cup (Tasks \X Tasks), seen : SUBSET (Tasks \X Tasks)]]
    /\ graphLock \in Planners \cup {NoPlanner}

\* From the lock to the commit a call holds the lock, and what it has loaded is the
\* whole graph unless it is too much.
LoadedIsGraph ==
    \A p \in Planners :
        /\ planner[p].at # "idle" => planner[p].edge \in Tasks \X Tasks
        /\ planner[p].at \in {"locked", "loaded"} => graphLock = p
        /\ planner[p].at = "loaded" /\ Cardinality(planner[p].seen) <= MaxEdges =>
              planner[p].seen = edges

GraphInv == GraphTypeOK /\ LoadedIsGraph /\ NoCycle(edges)

\* The tables hold finitely many edges.
LEMMA EdgesFinite == ASSUME NEW es \in SUBSET (Tasks \X Tasks) PROVE IsFiniteSet(es)
<1>1. IsFiniteSet(Tasks \X Tasks)
  BY GraphAssumption, FS_Product
<1> QED BY <1>1, FS_Subset

\* Loading the edges under the lock.
LEMMA LoadKeeps ==
    ASSUME GraphInv, NEW p \in Planners, list_all_dependency_edges(p)
    PROVE  GraphInv'
<1>1. PICK es \in SUBSET edges :
         /\ Cardinality(es) = IF Cardinality(edges) > MaxEdges + 1 THEN MaxEdges + 1
                              ELSE Cardinality(edges)
         /\ planner' = [planner EXCEPT ![p].at = "loaded", ![p].seen = es]
  BY DEF list_all_dependency_edges
<1>2. planner[p].at = "locked" /\ UNCHANGED <<edges, graphLock>>
  BY DEF list_all_dependency_edges
<1>3. Cardinality(es) <= MaxEdges => es = edges
  <2>1. IsFiniteSet(edges) /\ Cardinality(edges) \in Nat
    BY EdgesFinite, FS_CardinalityType DEF GraphInv, GraphTypeOK
  <2>2. Cardinality(es) = Cardinality(edges) => es = edges
    BY <2>1, FS_Subset
  <2> QED BY <1>1, <2>1, <2>2, GraphAssumption
<1> DEFINE loaded == [planner[p] EXCEPT !.at = "loaded", !.seen = es]
<1>a. planner' = [planner EXCEPT ![p] = loaded]
  BY <1>1 DEF GraphInv, GraphTypeOK
<1>b. /\ loaded \in [at : {"idle", "waits", "locked", "loaded"},
                    edge : {<<>>} \cup (Tasks \X Tasks), seen : SUBSET (Tasks \X Tasks)]
      /\ loaded.at = "loaded" /\ loaded.seen = es /\ loaded.edge = planner[p].edge
  BY DEF GraphInv, GraphTypeOK
<1> HIDE DEF loaded
<1>4. /\ planner'[p] = loaded /\ \A q \in Planners : q # p => planner'[q] = planner[q]
      /\ GraphTypeOK'
  BY <1>2, <1>a, <1>b DEF GraphInv, GraphTypeOK
<1>5. /\ planner'[p].at = "loaded" /\ planner'[p].seen = es
      /\ planner'[p].edge = planner[p].edge
  BY <1>4, <1>b
<1>6. LoadedIsGraph'
  BY <1>2, <1>3, <1>4, <1>5 DEF GraphInv, LoadedIsGraph
<1> QED BY <1>2, <1>4, <1>6 DEF GraphInv, NoCycle, Reached, ClosedUnder

\* The check and the insert.
LEMMA InsertKeeps ==
    ASSUME GraphInv, NEW p \in Planners, InsertDependency(p)
    PROVE  GraphInv'
<1> DEFINE e == planner[p].edge
<1>1. /\ planner[p].at = "loaded" /\ graphLock = p /\ e \in Tasks \X Tasks
      /\ \/ /\ Cardinality(planner[p].seen) <= MaxEdges
            /\ e[1] \notin Reached(planner[p].seen, e[2])
            /\ edges' = edges \cup {e}
         \/ edges' = edges
      /\ graphLock' = NoPlanner /\ planner' = [planner EXCEPT ![p] = NoPlan]
  BY DEF InsertDependency, _would_create_cycle, GraphInv, LoadedIsGraph
<1>2. \A q \in Planners : q # p => planner'[q] = planner[q] /\ planner'[q].at \notin {"locked", "loaded"}
  BY <1>1 DEF GraphInv, LoadedIsGraph, GraphTypeOK
<1>3. planner'[p] = NoPlan /\ NoPlan.at = "idle"
  BY <1>1 DEF GraphInv, GraphTypeOK, NoPlan
<1>4. GraphTypeOK'
  BY <1>1 DEF GraphInv, GraphTypeOK, NoPlan
<1>5. LoadedIsGraph'
  BY <1>2, <1>3 DEF GraphInv, LoadedIsGraph
<1>6. NoCycle(edges')
  <2>1. CASE edges' = edges
    BY <2>1 DEF GraphInv
  <2>2. CASE /\ Cardinality(planner[p].seen) <= MaxEdges
             /\ e[1] \notin Reached(planner[p].seen, e[2])
             /\ edges' = edges \cup {e}
    <3>1. planner[p].seen = edges /\ edges \in SUBSET (Tasks \X Tasks) /\ NoCycle(edges)
      BY <1>1, <2>2 DEF GraphInv, LoadedIsGraph, GraphTypeOK
    <3>2. e[1] \in Tasks /\ e[2] \in Tasks /\ e = <<e[1], e[2]>>
      BY <1>1
    <3> QED BY <2>2, <3>1, <3>2, EdgeClosesNoCycle
  <2> QED BY <1>1, <2>1, <2>2
<1> QED BY <1>4, <1>5, <1>6 DEF GraphInv, NoCycle, Reached, ClosedUnder

\* Every step keeps the graph's invariant.
LEMMA GraphStep == GraphInv /\ [GraphNext]_graphVars => GraphInv'
<1> SUFFICES ASSUME GraphInv, [GraphNext]_graphVars PROVE GraphInv'
  OBVIOUS
<1>1. ASSUME NEW p \in Planners, NEW a \in Tasks, NEW b \in Tasks, create_dependency(p, a, b)
      PROVE  GraphInv'
  <2> DEFINE new == [NoPlan EXCEPT !.at = "waits", !.edge = <<a, b>>]
  <2>1. planner' = [planner EXCEPT ![p] = new] /\ UNCHANGED <<edges, graphLock>>
    BY <1>1 DEF create_dependency
  <2>2. /\ new \in [at : {"idle", "waits", "locked", "loaded"},
                   edge : {<<>>} \cup (Tasks \X Tasks), seen : SUBSET (Tasks \X Tasks)]
        /\ new.at = "waits" /\ new.edge = <<a, b>>
    BY DEF NoPlan
  <2> HIDE DEF new
  <2>3. GraphTypeOK'
    BY <2>1, <2>2 DEF GraphInv, GraphTypeOK
  <2>4. LoadedIsGraph'
    <3>1. /\ planner'[p].at = "waits" /\ planner'[p].edge \in Tasks \X Tasks
          /\ \A q \in Planners : q # p => planner'[q] = planner[q]
      <4>1. planner'[p] = new /\ \A q \in Planners : q # p => planner'[q] = planner[q]
        BY <2>1 DEF GraphInv, GraphTypeOK
      <4> QED BY <2>2, <4>1
    <3> QED BY <2>1, <3>1 DEF GraphInv, LoadedIsGraph
  <2> QED BY <2>1, <2>3, <2>4 DEF GraphInv, NoCycle, Reached, ClosedUnder
<1>2. ASSUME NEW p \in Planners, LockGraph(p) PROVE GraphInv'
  <2>1. /\ planner[p].at = "waits" /\ graphLock = NoPlanner /\ graphLock' = p /\ edges' = edges
        /\ planner' = [planner EXCEPT ![p].at = "locked"]
    BY <1>2 DEF LockGraph
  <2>2. /\ GraphTypeOK' /\ planner'[p].at = "locked" /\ planner'[p].edge = planner[p].edge
        /\ \A q \in Planners : q # p => planner'[q] = planner[q]
    BY <2>1 DEF GraphInv, GraphTypeOK
  <2>3. LoadedIsGraph'
    BY <2>1, <2>2, GraphAssumption DEF GraphInv, LoadedIsGraph
  <2> QED BY <2>1, <2>2, <2>3 DEF GraphInv, NoCycle, Reached, ClosedUnder
<1>3. CASE UNCHANGED graphVars
  BY <1>3 DEF graphVars, GraphInv, GraphTypeOK, LoadedIsGraph, NoCycle, Reached, ClosedUnder
<1> QED BY <1>1, <1>2, <1>3, LoadKeeps, InsertKeeps DEF GraphNext

\* No task ever waits for itself (Acyclic), for any number of tasks, of calls at once
\* and any limit on the edges the check loads.
THEOREM DependenciesAcyclic == GraphSpec => []Acyclic
<1>1. GraphInit => GraphInv
  BY DEF GraphInit, GraphInv, GraphTypeOK, LoadedIsGraph, NoCycle, NoPlan
<1>2. GraphInv => Acyclic
  BY DEF GraphInv, NoCycle, Acyclic
<1> QED BY <1>1, <1>2, GraphStep, PTL DEF GraphSpec

-----------------------------------------------------------------------------
(* Sums over finite sets *)

Less == {p \in Nat \X Nat : p[1] < p[2]}

\* There is no endless descent in the natural numbers.
LEMMA LessWellFounded == IsWellFoundedOn(Less, Nat)
<1>1. OpToRel(<, Nat) = Less
  BY Zenon DEF OpToRel, Less
<1> QED BY <1>1, NatLessThanWellFounded, Zenon

\* A set of numbers has a least element.
LEMMA LeastNumber ==
    ASSUME NEW S, S \subseteq Nat, S # {}
    PROVE  \E n \in S : \A m \in S : n <= m
<1>1. PICK n \in S : \A m \in S : ~(<<m, n>> \in Less)
  BY WFMin, LessWellFounded, Zenon
<1>2. ASSUME NEW m \in S PROVE n <= m
  <2>1. <<m, n>> \in Nat \X Nat
    OBVIOUS
  <2> QED BY <1>1, <2>1, SMT DEF Less
<1> QED BY <1>2

\* Among sets of members of a finite set one has none of the others below it.
LEMMA SmallestSet ==
    ASSUME NEW S, IsFiniteSet(S), NEW B, B \subseteq SUBSET S, B # {}
    PROVE  \E s \in B : \A t \in SUBSET s : t # s => t \notin B
<1>1. \A s \in B : IsFiniteSet(s) /\ Cardinality(s) \in Nat
  BY FS_Subset, FS_CardinalityType
<1> DEFINE sizes == {Cardinality(s) : s \in B}
<1>2. sizes \subseteq Nat /\ sizes # {}
  BY <1>1
<1> HIDE DEF sizes
<1>3. PICK n \in sizes : \A m \in sizes : n <= m
  BY <1>2, LeastNumber
<1>4. PICK s \in B : Cardinality(s) = n
  BY <1>3 DEF sizes
<1>5. ASSUME NEW t \in SUBSET s, t # s, t \in B PROVE FALSE
  <2>1. IsFiniteSet(s) /\ Cardinality(t) \in Nat /\ Cardinality(s) \in Nat
    BY <1>1, <1>5
  <2>2. Cardinality(t) < Cardinality(s)
    BY <2>1, <1>5, FS_Subset
  <2>3. n <= Cardinality(t)
    BY <1>3, <1>5 DEF sizes
  <2> QED BY <2>1, <2>2, <2>3, <1>4
<1> QED BY <1>5

\* The sums of all subsets of S, as a fold computes them: one member is set aside, and its
\* weight is added to the sum of the rest.
Aside(s) == CHOOSE x \in s : TRUE
IsSum(w, S, g) == g = [s \in SUBSET S |-> IF s = {} THEN 0 ELSE w[Aside(s)] + g[s \ {Aside(s)}]]
SumOver(w, S) == (CHOOSE g : IsSum(w, S, g))[S]

\* The member set aside is a member.
LEMMA AsideIsIn == ASSUME NEW s, s # {} PROVE Aside(s) \in s
BY DEF Aside

\* There are such sums, and they are numbers.
LEMMA SumsExist ==
    ASSUME NEW S, IsFiniteSet(S), NEW D, S \subseteq D, NEW w \in [D -> Nat]
    PROVE  \E g \in [SUBSET S -> Nat] : IsSum(w, S, g)
<1> DEFINE Sub(n) == {s \in SUBSET S : Cardinality(s) <= n}
           Next(g, s) == IF s = {} THEN 0 ELSE w[Aside(s)] + g[s \ {Aside(s)}]
           Fits(n, g) == \A s \in Sub(n) : g[s] = Next(g, s)
           bad == {n \in Nat : ~\E g \in [Sub(n) -> Nat] : Fits(n, g)}
<1>1. \A s \in SUBSET S : IsFiniteSet(s) /\ Cardinality(s) \in Nat /\ Cardinality(s) <= Cardinality(S)
  BY FS_Subset, FS_CardinalityType
<1>2. ASSUME NEW n \in Nat, NEW s \in Sub(n + 1), s # {}
      PROVE  /\ Aside(s) \in s /\ w[Aside(s)] \in Nat /\ s \ {Aside(s)} \in Sub(n)
  <2>1. Aside(s) \in s /\ s \in SUBSET S /\ Cardinality(s) <= n + 1
    BY <1>2, AsideIsIn
  <2>2. Cardinality(s \ {Aside(s)}) = Cardinality(s) - 1
    BY <2>1, <1>1, FS_RemoveElement
  <2>3. s \ {Aside(s)} \in SUBSET S /\ Cardinality(s) \in Nat
    BY <2>1, <1>1
  <2>4. Cardinality(s) - 1 <= n
    BY <2>1, <2>3
  <2> QED BY <2>1, <2>2, <2>3, <2>4
<1>3. 0 \notin bad
  <2>1. \A s \in Sub(0) : s = {}
    BY <1>1, FS_EmptySet
  <2> DEFINE g == [s \in Sub(0) |-> 0]
  <2>2. g \in [Sub(0) -> Nat] /\ Fits(0, g)
    BY <2>1
  <2> QED BY <2>2
<1>4. ASSUME NEW n \in Nat, n \notin bad PROVE n + 1 \notin bad
  <2>1. PICK g \in [Sub(n) -> Nat] : Fits(n, g)
    BY <1>4
  <2> DEFINE next == [s \in Sub(n + 1) |-> Next(g, s)]
  <2>2. next \in [Sub(n + 1) -> Nat]
    <3> SUFFICES ASSUME NEW s \in Sub(n + 1) PROVE Next(g, s) \in Nat
      OBVIOUS
    <3>1. CASE s = {}
      BY <3>1
    <3>2. CASE s # {}
      <4>1. w[Aside(s)] \in Nat /\ s \ {Aside(s)} \in Sub(n)
        BY <3>2, <1>2
      <4> HIDE DEF Sub
      <4>2. g[s \ {Aside(s)}] \in Nat
        BY <4>1
      <4> QED BY <3>2, <4>1, <4>2
    <3> QED BY <3>1, <3>2
  <2>3. ASSUME NEW s \in Sub(n + 1) PROVE next[s] = Next(next, s)
    <3>1. CASE s = {}
      BY <3>1, <2>3
    <3>2. CASE s # {}
      <4> DEFINE t == s \ {Aside(s)}
      <4>1. t \in Sub(n)
        BY <3>2, <1>2
      <4>2. t \in Sub(n + 1)
        <5>1. Cardinality(t) \in Nat /\ Cardinality(t) <= n /\ t \in SUBSET S
          BY <4>1, <1>1
        <5> HIDE DEF t
        <5> QED BY <5>1
      <4> HIDE DEF Sub
      <4>3. g[t] = Next(g, t)
        BY <4>1, <2>1
      <4>4. next[t] = Next(g, t) /\ next[s] = Next(g, s)
        BY <4>2, <2>3
      <4>5. Next(g, s) = w[Aside(s)] + g[t] /\ Next(next, s) = w[Aside(s)] + next[t]
        BY <3>2
      <4> HIDE DEF Next, t, next
      <4> QED BY <4>3, <4>4, <4>5
    <3> QED BY <3>1, <3>2
  <2>4. Fits(n + 1, next)
    <3> HIDE DEF next
    <3> QED BY <2>3
  <2> HIDE DEF next, Fits, Sub
  <2> QED BY <2>2, <2>4
<1>5. bad = {}
  <2> SUFFICES ASSUME bad # {} PROVE FALSE
    OBVIOUS
  <2>0. bad \subseteq Nat
    OBVIOUS
  <2> HIDE DEF bad
  <2>1. PICK n \in bad : \A m \in bad : n <= m
    BY <2>0, LeastNumber
  <2>2. n \in Nat /\ n # 0
    BY <2>0, <2>1, <1>3
  <2>3. n - 1 \in Nat /\ (n - 1) + 1 = n /\ ~(n <= n - 1)
    BY <2>2
  <2>4. n - 1 \notin bad
    BY <2>1, <2>3
  <2> QED BY <2>1, <2>3, <2>4, <1>4
<1>6. Cardinality(S) \in Nat
  BY FS_CardinalityType
<1>7. PICK g \in [Sub(Cardinality(S)) -> Nat] : Fits(Cardinality(S), g)
  <2> HIDE DEF Fits, Sub
  <2> QED BY <1>5, <1>6
<1>8. Sub(Cardinality(S)) = SUBSET S
  BY <1>1
<1>9. g \in [SUBSET S -> Nat] /\ \A s \in SUBSET S : g[s] = Next(g, s)
  BY <1>7, <1>8
<1>10. g = [s \in SUBSET S |-> Next(g, s)]
  <2> HIDE DEF Next
  <2> QED BY <1>9
<1> QED BY <1>9, <1>10 DEF IsSum

Agree(g, h, T) == \A s \in SUBSET T : h[s] = g[s]

\* They agree on what they have in common.
LEMMA SumsAgree ==
    ASSUME NEW S, IsFiniteSet(S), NEW T \in SUBSET S, NEW w,
           NEW g, IsSum(w, S, g), NEW h, IsSum(w, T, h)
    PROVE  Agree(g, h, T)
<1> DEFINE bad == {s \in SUBSET T : h[s] # g[s]}
<1> SUFFICES ASSUME bad # {} PROVE FALSE
  BY DEF Agree
<1>1. bad \subseteq SUBSET S
  OBVIOUS
<1>2. PICK s \in bad : \A t \in SUBSET s : t # s => t \notin bad
  <2> HIDE DEF bad
  <2> QED BY <1>1, SmallestSet
<1>3. s \in SUBSET T /\ s \in SUBSET S
  BY <1>2
<1>4. /\ h[s] = IF s = {} THEN 0 ELSE w[Aside(s)] + h[s \ {Aside(s)}]
      /\ g[s] = IF s = {} THEN 0 ELSE w[Aside(s)] + g[s \ {Aside(s)}]
  BY <1>3 DEF IsSum
<1>5. s # {}
  BY <1>2, <1>4
<1>6. s \ {Aside(s)} \in SUBSET s /\ s \ {Aside(s)} # s
  BY <1>5, AsideIsIn
<1>7. h[s \ {Aside(s)}] = g[s \ {Aside(s)}]
  BY <1>2, <1>3, <1>6
<1> QED BY <1>2, <1>4, <1>5, <1>7

AnyAside(w, S, g) == \A s \in SUBSET S : \A x \in s : g[s] = w[x] + g[s \ {x}]

\* Whichever member is set aside, the sum is the same.
LEMMA AnyMemberAside ==
    ASSUME NEW S, IsFiniteSet(S), NEW D, S \subseteq D, NEW w \in [D -> Nat],
           NEW g \in [SUBSET S -> Nat], IsSum(w, S, g)
    PROVE  AnyAside(w, S, g)
<1> DEFINE bad == {s \in SUBSET S : \E x \in s : g[s] # w[x] + g[s \ {x}]}
<1> SUFFICES ASSUME bad # {} PROVE FALSE
  BY DEF AnyAside
<1>1. bad \subseteq SUBSET S
  OBVIOUS
<1>2. PICK s \in bad : \A t \in SUBSET s : t # s => t \notin bad
  <2> HIDE DEF bad
  <2> QED BY <1>1, SmallestSet
<1>3. PICK x \in s : g[s] # w[x] + g[s \ {x}]
  BY <1>2
<1> DEFINE a == Aside(s)
<1>4. s \in SUBSET S /\ a \in s
  BY <1>2, <1>3, AsideIsIn
<1> HIDE DEF bad
<1>5. g[s] = w[a] + g[s \ {a}]
  BY <1>4 DEF IsSum
<1> HIDE DEF a
<1>6. x # a
  BY <1>3, <1>5
<1>7. /\ s \ {a} \in SUBSET s /\ s \ {a} # s /\ x \in s \ {a}
      /\ s \ {x} \in SUBSET s /\ s \ {x} # s /\ a \in s \ {x}
      /\ (s \ {a}) \ {x} = (s \ {x}) \ {a}
  BY <1>3, <1>4, <1>6
<1>8. s \ {a} \notin bad /\ s \ {x} \notin bad /\ s \ {a} \in SUBSET S /\ s \ {x} \in SUBSET S
  BY <1>2, <1>4, <1>7
<1>9. g[s \ {a}] = w[x] + g[(s \ {a}) \ {x}] /\ g[s \ {x}] = w[a] + g[(s \ {x}) \ {a}]
  BY <1>7, <1>8 DEF bad
<1>10. w[x] \in Nat /\ w[a] \in Nat /\ (s \ {a}) \ {x} \in SUBSET S
  BY <1>3, <1>4
<1>11. g[(s \ {a}) \ {x}] \in Nat
  BY <1>10
<1>12. w[a] + (w[x] + g[(s \ {a}) \ {x}]) = w[x] + (w[a] + g[(s \ {a}) \ {x}])
  BY <1>10, <1>11
<1> QED BY <1>3, <1>5, <1>7, <1>9, <1>12

SumsOf(w, S, g) ==
    /\ g \in [SUBSET S -> Nat] /\ IsSum(w, S, g)
    /\ \A T \in SUBSET S : SumOver(w, T) = g[T]

\* The sum over every subset of S is what one function of sums says.
LEMMA SumIsFunction ==
    ASSUME NEW S, IsFiniteSet(S), NEW D, S \subseteq D, NEW w \in [D -> Nat]
    PROVE  \E g : SumsOf(w, S, g)
<1>1. PICK g \in [SUBSET S -> Nat] : IsSum(w, S, g)
  BY SumsExist
<1>2. ASSUME NEW T \in SUBSET S PROVE SumOver(w, T) = g[T]
  <2>1. IsFiniteSet(T) /\ T \subseteq D
    BY FS_Subset
  <2>2. \E h : IsSum(w, T, h)
    BY <2>1, SumsExist
  <2> DEFINE h == CHOOSE f : IsSum(w, T, f)
  <2>3. IsSum(w, T, h)
    BY <2>2
  <2> HIDE DEF h
  <2>4. Agree(g, h, T)
    BY <1>1, <2>3, SumsAgree, Zenon
  <2>5. h[T] = g[T]
    BY <2>4 DEF Agree
  <2> QED BY <2>5 DEF h, SumOver
<1> QED BY <1>1, <1>2 DEF SumsOf

\* What the proofs need of sums.  The sum over nothing is 0.
LEMMA SumOfNone ==
    ASSUME NEW D, NEW w \in [D -> Nat]
    PROVE  SumOver(w, {}) = 0
<1>1. IsFiniteSet({}) /\ {} \subseteq D /\ {} \in SUBSET {}
  BY FS_EmptySet
<1>2. PICK g : SumsOf(w, {}, g)
  BY <1>1, SumIsFunction, Zenon
<1>3. g[{}] = 0
  BY <1>1, <1>2 DEF SumsOf, IsSum
<1> QED BY <1>1, <1>2, <1>3 DEF SumsOf

\* Any member's weight may be taken out of the sum.
LEMMA SumMember ==
    ASSUME NEW S, IsFiniteSet(S), NEW D, S \subseteq D, NEW w \in [D -> Nat], NEW x \in S
    PROVE  SumOver(w, S) = w[x] + SumOver(w, S \ {x})
<1>1. PICK g : SumsOf(w, S, g)
  BY SumIsFunction, Zenon
<1>2. g \in [SUBSET S -> Nat] /\ IsSum(w, S, g)
  BY <1>1 DEF SumsOf
<1>3. AnyAside(w, S, g)
  BY <1>2, AnyMemberAside, Zenon
<1> QED BY <1>1, <1>3 DEF SumsOf, AnyAside

\* A sum is a number.
LEMMA SumIsNumber ==
    ASSUME NEW S, IsFiniteSet(S), NEW D, S \subseteq D, NEW w \in [D -> Nat]
    PROVE  SumOver(w, S) \in Nat
<1>1. PICK g : SumsOf(w, S, g)
  BY SumIsFunction, Zenon
<1> QED BY <1>1 DEF SumsOf

\* A new member adds its weight.
LEMMA SumOfMore ==
    ASSUME NEW S, IsFiniteSet(S), NEW D, S \subseteq D, NEW w \in [D -> Nat], NEW x \in D, x \notin S
    PROVE  SumOver(w, S \cup {x}) = SumOver(w, S) + w[x]
<1>1. IsFiniteSet(S \cup {x}) /\ S \cup {x} \subseteq D /\ (S \cup {x}) \ {x} = S
  BY FS_AddElement
<1>2. SumOver(w, S \cup {x}) = w[x] + SumOver(w, S)
  BY <1>1, SumMember
<1>3. SumOver(w, S) \in Nat /\ w[x] \in Nat
  BY SumIsNumber
<1> QED BY <1>2, <1>3

\* A part does not weigh more than the whole.
LEMMA SumOfPart ==
    ASSUME NEW S, IsFiniteSet(S), NEW D, S \subseteq D, NEW w \in [D -> Nat], NEW T \in SUBSET S
    PROVE  SumOver(w, T) <= SumOver(w, S)
<1>0. \A s \in SUBSET S : IsFiniteSet(s) /\ s \subseteq D /\ SumOver(w, s) \in Nat
  BY FS_Subset, SumIsNumber
<1> DEFINE bad == {s \in SUBSET S : \E t \in SUBSET s : SumOver(w, t) > SumOver(w, s)}
<1> SUFFICES ASSUME bad # {} PROVE FALSE
  BY <1>0
<1>1. bad \subseteq SUBSET S
  OBVIOUS
<1>2. PICK s \in bad : \A t \in SUBSET s : t # s => t \notin bad
  <2> HIDE DEF bad
  <2> QED BY <1>1, SmallestSet
<1>3. PICK t \in SUBSET s : SumOver(w, t) > SumOver(w, s)
  BY <1>2
<1>4. s \in SUBSET S /\ t \in SUBSET S
  BY <1>2, <1>3
<1>5. t # s
  BY <1>0, <1>3, <1>4
<1>6. PICK x \in s : x \notin t
  BY <1>3, <1>5
<1>7. s \ {x} \in SUBSET s /\ s \ {x} # s /\ t \in SUBSET (s \ {x}) /\ s \ {x} \in SUBSET S
  BY <1>3, <1>4, <1>6
<1>8. SumOver(w, t) <= SumOver(w, s \ {x})
  <2>1. s \ {x} \notin bad
    BY <1>2, <1>7
  <2>2. ~(SumOver(w, t) > SumOver(w, s \ {x}))
    BY <2>1, <1>7
  <2>3. SumOver(w, t) \in Nat /\ SumOver(w, s \ {x}) \in Nat
    BY <1>0, <1>4, <1>7
  <2> QED BY <2>2, <2>3
<1>9. SumOver(w, s) = w[x] + SumOver(w, s \ {x})
  BY <1>0, <1>4, <1>6, SumMember
<1>10. w[x] \in Nat /\ SumOver(w, s \ {x}) \in Nat /\ SumOver(w, t) \in Nat
  BY <1>0, <1>4, <1>6, <1>7
<1> QED BY <1>3, <1>8, <1>9, <1>10

-----------------------------------------------------------------------------
(* Purchase orders and invoices *)

Counted(o) == {i \in Invoices : OrderOf[i] = o /\ invoiceStatus[i] \in NonDisputed}

\* What create_invoice sums is the sum over the counted invoices.
LEMMA InvoicedIsSum ==
    ASSUME NEW o
    PROVE  Invoiced(o) = SumOver(Billed, Counted(o))
BY Zenon DEF Invoiced, Counted, SumOver, IsSum, Aside, MapThenSumSet, MapThenFoldSet

\* The same after a step.
LEMMA InvoicedNextIsSum ==
    ASSUME NEW o
    PROVE  Invoiced(o)' = SumOver(Billed, Counted(o)')
BY Zenon DEF Invoiced, Counted, SumOver, IsSum, Aside, MapThenSumSet, MapThenFoldSet

ProcurementTypes ==
    /\ orderStatus \in [Orders -> {"requested", "approved", "rejected"}]
    /\ invoiceStatus \in [Invoices -> {"none", "disputed"} \cup NonDisputed]
    /\ amountPaid \in [Invoices -> Nat] /\ paymentRows \in [Invoices -> Nat]
    /\ orderHeld \in [Orders -> Clerks \cup {NoClerk}]
    /\ clerk \in [Clerks -> [at : {"idle", "locked", "summed"}, invoice : Invoices \cup {NotYet},
                             sum : Nat]]

\* A call past its lock holds the row of an approved order, and what it has summed is not
\* less than what is invoiced now: nobody else can add to it.
SumsStayEnough ==
    \A c \in Clerks : clerk[c].at # "idle" =>
        \E i \in Invoices :
            /\ clerk[c].invoice = i /\ orderHeld[OrderOf[i]] = c
            /\ orderStatus[OrderOf[i]] = "approved"
            /\ clerk[c].at = "summed" => Invoiced(OrderOf[i]) <= clerk[c].sum

ProcurementInv == ProcurementTypes /\ SumsStayEnough /\ OrdersAddUp

\* Only finitely many invoices are counted, and each weighs what it bills.
LEMMA BilledWeighs ==
    /\ Billed \in [Invoices -> Nat]
    /\ \A o : IsFiniteSet(Counted(o)) /\ Counted(o) \subseteq Invoices
BY ProcurementAssumption, FS_Subset DEF Counted

\* The same after a step.
LEMMA BilledWeighsNext == \A o : IsFiniteSet(Counted(o)') /\ Counted(o)' \subseteq Invoices
BY ProcurementAssumption, FS_Subset DEF Counted

\* What is invoiced is a number, before and after a step.
LEMMA InvoicedIsNumber == \A o : Invoiced(o) \in Nat /\ Invoiced(o)' \in Nat
BY BilledWeighs, BilledWeighsNext, SumIsNumber, InvoicedIsSum, InvoicedNextIsSum

\* Fewer counted invoices are not invoiced more.
LEMMA FewerInvoiced ==
    ASSUME NEW o, Counted(o)' \subseteq Counted(o)
    PROVE  Invoiced(o)' <= Invoiced(o)
BY BilledWeighs, BilledWeighsNext, SumOfPart, InvoicedIsSum, InvoicedNextIsSum

\* One more counted invoice adds what it bills.
LEMMA OneMoreInvoiced ==
    ASSUME NEW o, NEW i \in Invoices, i \notin Counted(o), Counted(o)' = Counted(o) \cup {i}
    PROVE  Invoiced(o)' = Invoiced(o) + Billed[i]
BY BilledWeighs, SumOfMore, InvoicedIsSum, InvoicedNextIsSum

\* The invariant holds at first.
LEMMA ProcurementStarts == ProcurementInit => ProcurementInv
<1> SUFFICES ASSUME ProcurementInit PROVE ProcurementInv
  OBVIOUS
<1> USE ProcurementAssumption DEF ProcurementInit
<1>1. ProcurementTypes
  BY DEF ProcurementTypes, IdleClerk, NonDisputed
<1>2. SumsStayEnough
  BY DEF SumsStayEnough, IdleClerk
<1>3. ASSUME NEW o \in Orders PROVE Invoiced(o) = 0
  <2>1. Counted(o) = {}
    BY DEF Counted, NonDisputed
  <2> QED BY <2>1, BilledWeighs, SumOfNone, InvoicedIsSum
<1>4. InvoicedWithinOrder
  BY <1>3 DEF InvoicedWithinOrder
<1>5. PaymentsAddUp
  BY DEF PaymentsAddUp
<1> QED BY <1>1, <1>2, <1>4, <1>5 DEF ProcurementInv, OrdersAddUp

\* An action that adds no counted invoice keeps an order within its amount.
LEMMA WithinOrderStays ==
    ASSUME ProcurementInv, ProcurementTypes', NEW o \in Orders, Counted(o)' \subseteq Counted(o),
           orderStatus'[o] = orderStatus[o] \/ orderStatus[o] = "requested"
    PROVE  Invoiced(o)' <= (IF orderStatus'[o] = "approved" THEN Committed[o] ELSE 0)
<1>1. Invoiced(o)' <= Invoiced(o) /\ Invoiced(o) \in Nat /\ Invoiced(o)' \in Nat
  BY FewerInvoiced, InvoicedIsNumber
<1>2. Committed[o] \in Nat
  BY ProcurementAssumption
<1>3. Invoiced(o) <= (IF orderStatus[o] = "approved" THEN Committed[o] ELSE 0)
  BY DEF ProcurementInv, OrdersAddUp, InvoicedWithinOrder
<1> QED BY <1>1, <1>2, <1>3

\* Every step keeps the invariant: one case per action.
LEMMA ProcurementSteps == ProcurementInv /\ [ProcurementNext]_procurementVars => ProcurementInv'
<1> SUFFICES ASSUME ProcurementInv, [ProcurementNext]_procurementVars PROVE ProcurementInv'
  OBVIOUS
<1> USE ProcurementAssumption
<1>t. ProcurementTypes /\ SumsStayEnough /\ InvoicedWithinOrder /\ PaymentsAddUp
  BY DEF ProcurementInv, OrdersAddUp
<1>n. \A o : Invoiced(o) \in Nat /\ Invoiced(o)' \in Nat
  BY InvoicedIsNumber
<1>q. ASSUME ProcurementTypes', SumsStayEnough', InvoicedWithinOrder', PaymentsAddUp'
      PROVE  ProcurementInv'
  BY <1>q DEF ProcurementInv, OrdersAddUp
<1>u. ASSUME UNCHANGED invoiceStatus
      PROVE  \A o : Invoiced(o)' = Invoiced(o) /\ Counted(o)' = Counted(o)
  <2>1. \A o : Counted(o)' = Counted(o)
    BY <1>u DEF Counted
  <2> QED BY <2>1, InvoicedIsSum, InvoicedNextIsSum
<1>w. ASSUME UNCHANGED <<orderStatus, invoiceStatus>> PROVE InvoicedWithinOrder'
  BY <1>w, <1>u, <1>t DEF InvoicedWithinOrder
<1>1. ASSUME NEW o \in Orders, NEW verdict \in {"approved", "rejected"},
             decide_purchase_order(o, verdict)
      PROVE  ProcurementInv'
  <2> USE <1>1 DEF decide_purchase_order
  <2>1. ProcurementTypes'
    BY <1>t DEF ProcurementTypes
  <2>2. SumsStayEnough'
    BY <1>t, <1>u DEF SumsStayEnough, ProcurementTypes
  <2>3. InvoicedWithinOrder'
    <3> SUFFICES ASSUME NEW x \in Orders
                 PROVE  Invoiced(x)' <= (IF orderStatus'[x] = "approved" THEN Committed[x] ELSE 0)
      BY DEF InvoicedWithinOrder
    <3>1. Counted(x)' \subseteq Counted(x)
      BY <1>u
    <3>2. orderStatus'[x] = orderStatus[x] \/ orderStatus[x] = "requested"
      BY <1>t DEF ProcurementTypes
    <3> QED BY <2>1, <3>1, <3>2, WithinOrderStays
  <2>4. PaymentsAddUp'
    BY <1>t DEF PaymentsAddUp
  <2> QED BY <2>1, <2>2, <2>3, <2>4, <1>q
<1>2. ASSUME NEW c \in Clerks, NEW i \in Invoices, get_purchase_order_summary_for_update(c, i)
      PROVE  ProcurementInv'
  <2> USE <1>2 DEF get_purchase_order_summary_for_update
  <2>1. ProcurementTypes'
    BY <1>t DEF ProcurementTypes
  <2>2. SumsStayEnough'
    BY <1>t, <1>u DEF SumsStayEnough, ProcurementTypes
  <2>4. PaymentsAddUp'
    BY <1>t DEF PaymentsAddUp
  <2> QED BY <2>1, <2>2, <2>4, <1>q, <1>w
<1>3. ASSUME NEW c \in Clerks, SumInvoices(c) PROVE ProcurementInv'
  <2> USE <1>3 DEF SumInvoices
  <2>1. ProcurementTypes'
    <3>1. PICK n \in Nat : n = Invoiced(OrderOf[clerk[c].invoice])
      BY <1>n
    <3>2. clerk' = [clerk EXCEPT ![c] = [clerk[c] EXCEPT !.at = "summed", !.sum = n]]
      BY <3>1
    <3>3. clerk[c] \in [at : {"idle", "locked", "summed"}, invoice : Invoices \cup {NotYet}, sum : Nat]
      BY <1>t DEF ProcurementTypes
    <3>4. [clerk[c] EXCEPT !.at = "summed", !.sum = n]
            \in [at : {"idle", "locked", "summed"}, invoice : Invoices \cup {NotYet}, sum : Nat]
      BY <3>3
    <3>5. clerk' \in [Clerks -> [at : {"idle", "locked", "summed"},
                                 invoice : Invoices \cup {NotYet}, sum : Nat]]
      BY <1>t, <3>2, <3>4 DEF ProcurementTypes
    <3>6. UNCHANGED <<orderStatus, invoiceStatus, amountPaid, paymentRows, orderHeld>>
      OBVIOUS
    <3> QED BY <1>t, <3>5, <3>6 DEF ProcurementTypes
  <2>2. SumsStayEnough'
    BY <1>t, <1>u, <1>n DEF SumsStayEnough, ProcurementTypes
  <2>4. PaymentsAddUp'
    BY <1>t DEF PaymentsAddUp
  <2> QED BY <2>1, <2>2, <2>4, <1>q, <1>w
<1>4. ASSUME NEW c \in Clerks, CommitInvoice(c) PROVE ProcurementInv'
  <2>i. PICK i \in Invoices : clerk[c].invoice = i
    BY <1>4, <1>t DEF CommitInvoice, SumsStayEnough
  <2> DEFINE o == OrderOf[i]
  <2>0. /\ clerk[c].at = "summed" /\ i \in Invoices /\ o \in Orders
        /\ orderHeld[o] = c /\ orderStatus[o] = "approved" /\ Invoiced(o) <= clerk[c].sum
        /\ clerk[c].sum \in Nat /\ Billed[i] \in Nat
        /\ Committed[o] \in Nat
    BY <1>4, <1>t, <2>i DEF CommitInvoice, SumsStayEnough, ProcurementTypes
  <2>a. /\ orderHeld' = [orderHeld EXCEPT ![o] = NoClerk]
        /\ clerk' = [clerk EXCEPT ![c] = IdleClerk]
        /\ UNCHANGED <<orderStatus, amountPaid, paymentRows>>
    BY <1>4, <2>i DEF CommitInvoice
  <2>b. \/ /\ clerk[c].sum + Billed[i] <= Committed[o]
           /\ invoiceStatus[i] = "none"
           /\ invoiceStatus' = [invoiceStatus EXCEPT ![i] = "submitted"]
        \/ UNCHANGED invoiceStatus
    BY <1>4, <2>i DEF CommitInvoice
  <2> HIDE DEF o
  <2>1. ProcurementTypes'
    BY <1>t, <2>0, <2>a, <2>b DEF ProcurementTypes, IdleClerk, NonDisputed
  <2>c. \A x \in Orders : x # o => Counted(x)' = Counted(x)
    BY <1>t, <2>0, <2>b DEF Counted, ProcurementTypes, o
  <2>d. \A x \in Orders : x # o => Invoiced(x)' = Invoiced(x)
    BY <2>c, InvoicedIsSum, InvoicedNextIsSum
  <2>2. SumsStayEnough'
    <3> SUFFICES ASSUME NEW d \in Clerks, clerk'[d].at # "idle"
                 PROVE  \E j \in Invoices :
                           /\ clerk'[d].invoice = j /\ orderHeld'[OrderOf[j]] = d
                           /\ orderStatus'[OrderOf[j]] = "approved"
                           /\ clerk'[d].at = "summed" => Invoiced(OrderOf[j])' <= clerk'[d].sum
      BY DEF SumsStayEnough
    <3>1. d # c /\ clerk'[d] = clerk[d]
      BY <1>t, <2>a DEF IdleClerk, ProcurementTypes
    <3>2. PICK j \in Invoices :
             /\ clerk[d].invoice = j /\ orderHeld[OrderOf[j]] = d
             /\ orderStatus[OrderOf[j]] = "approved"
             /\ clerk[d].at = "summed" => Invoiced(OrderOf[j]) <= clerk[d].sum
      BY <1>t, <3>1 DEF SumsStayEnough
    <3>3. OrderOf[j] # o /\ OrderOf[j] \in Orders
      BY <2>0, <3>1, <3>2
    <3>4. orderHeld'[OrderOf[j]] = d
      BY <1>t, <2>a, <3>2, <3>3 DEF ProcurementTypes
    <3>5. Invoiced(OrderOf[j])' = Invoiced(OrderOf[j])
      BY <2>d, <3>3
    <3> QED BY <3>1, <3>2, <3>4, <3>5, <2>a
  <2>3. InvoicedWithinOrder'
    <3> SUFFICES ASSUME NEW x \in Orders
                 PROVE  Invoiced(x)' <= (IF orderStatus'[x] = "approved" THEN Committed[x] ELSE 0)
      BY DEF InvoicedWithinOrder
    <3>1. CASE x # o \/ UNCHANGED invoiceStatus
      <4>1. Counted(x)' \subseteq Counted(x)
        BY <3>1, <2>c, <1>u
      <4> QED BY <2>1, <2>a, <4>1, WithinOrderStays
    <3>2. CASE x = o /\ ~UNCHANGED invoiceStatus
      <4>1. i \notin Counted(o) /\ Counted(o)' = Counted(o) \cup {i}
        BY <3>2, <2>0, <2>b, <1>t DEF Counted, NonDisputed, ProcurementTypes, o
      <4>2. Invoiced(o)' = Invoiced(o) + Billed[i]
        BY <4>1, <2>0, OneMoreInvoiced
      <4> QED BY <4>2, <3>2, <2>0, <2>a, <2>b, <1>n
    <3> QED BY <3>1, <3>2
  <2>4. PaymentsAddUp'
    BY <1>t, <2>0, <2>a, <2>b DEF PaymentsAddUp, ProcurementTypes
  <2> QED BY <2>1, <2>2, <2>3, <2>4, <1>q
\* Deciding and paying an invoice: no invoice is counted that was not.
<1>5. ASSUME ProcurementTypes', PaymentsAddUp', UNCHANGED <<orderStatus, orderHeld, clerk>>,
             \A x \in Orders : Counted(x)' \subseteq Counted(x)
      PROVE  ProcurementInv'
  <2>1. \A x \in Orders : Invoiced(x)' <= Invoiced(x)
    BY <1>5, FewerInvoiced
  <2>2. SumsStayEnough'
    <3>1. \A d \in Clerks : clerk[d].sum \in Nat
      BY <1>t DEF ProcurementTypes
    <3>2. \A j \in Invoices : Invoiced(OrderOf[j])' <= Invoiced(OrderOf[j])
      BY <2>1
    <3>3. \A j \in Invoices : Invoiced(OrderOf[j]) \in Nat /\ Invoiced(OrderOf[j])' \in Nat
      BY <1>n
    <3> QED BY <1>5, <1>t, <3>1, <3>2, <3>3 DEF SumsStayEnough
  <2>3. InvoicedWithinOrder'
    <3> SUFFICES ASSUME NEW x \in Orders
                 PROVE  Invoiced(x)' <= (IF orderStatus'[x] = "approved" THEN Committed[x] ELSE 0)
      BY DEF InvoicedWithinOrder
    <3> QED BY <1>5, WithinOrderStays
  <2> QED BY <1>5, <2>2, <2>3, <1>q
<1>6. ASSUME NEW i \in Invoices, NEW verdict \in {"approved", "disputed"}, decide_invoice(i, verdict)
      PROVE  ProcurementInv'
  <2> USE <1>6 DEF decide_invoice
  <2>1. ProcurementTypes'
    BY <1>t DEF ProcurementTypes, NonDisputed
  <2>2. PaymentsAddUp'
    BY <1>t DEF PaymentsAddUp, ProcurementTypes
  <2>3. \A x \in Orders : Counted(x)' \subseteq Counted(x)
    BY <1>t DEF Counted, NonDisputed, ProcurementTypes
  <2> QED BY <2>1, <2>2, <2>3, <1>5
<1>7. ASSUME NEW i \in Invoices, NEW amount \in Payable, record_payment(i, amount)
      PROVE  ProcurementInv'
  <2> USE <1>7 DEF record_payment
  <2>0. amount \in Nat
    OBVIOUS
  <2>1. ProcurementTypes'
    BY <2>0, <1>t DEF ProcurementTypes, NonDisputed
  <2>2. PaymentsAddUp'
    BY <2>0, <1>t DEF PaymentsAddUp, ProcurementTypes
  <2>3. \A x \in Orders : Counted(x)' \subseteq Counted(x)
    BY <1>t DEF Counted, NonDisputed, ProcurementTypes
  <2> QED BY <2>1, <2>2, <2>3, <1>5
<1>8. CASE UNCHANGED procurementVars
  <2>1. ProcurementTypes' /\ PaymentsAddUp'
    BY <1>8, <1>t DEF procurementVars, ProcurementTypes, PaymentsAddUp
  <2>2. \A x \in Orders : Counted(x)' \subseteq Counted(x)
    BY <1>8 DEF procurementVars, Counted
  <2> QED BY <1>8, <2>1, <2>2, <1>5 DEF procurementVars
<1> QED BY <1>1, <1>2, <1>3, <1>4, <1>6, <1>7, <1>8 DEF ProcurementNext

\* No interleaving of create_invoice calls, decisions and payments invoices an order beyond
\* its amount or pays an invoice beyond what it bills, and totals equal their payment rows.
THEOREM OrdersStayExact == ProcurementSpec => []OrdersAddUp
<1>1. ProcurementInv => OrdersAddUp
  BY DEF ProcurementInv
<1> QED BY <1>1, ProcurementStarts, ProcurementSteps, PTL DEF ProcurementSpec

-----------------------------------------------------------------------------
(* The personal ledger *)

Row == [key : PaymentKeys, at : Nat, status : {"executed", "rejected"}, by : Payers]
Weight == [e \in Row |-> Amount[e.key]]
Since(t) == {e \in Executed : e.at >= t}
Within(t) == {e \in Executed : e.at >= t /\ e.at <= t + Day}

\* Every row of an execution has the amount of its key.
LEMMA WeightOfRow == Weight \in [Row -> Nat]
BY PersonalAssumption DEF Weight, Row

\* What execute_micro_transaction sums is the sum of the amounts of the rows.
LEMMA PaidIsSum ==
    ASSUME NEW S, IsFiniteSet(S), S \subseteq Row
    PROVE  MapThenSumSet(LAMBDA e : Amount[e.key], S) = SumOver(Weight, S)
<1> DEFINE Paid(g) == g = [s \in SUBSET S |-> IF s = {} THEN 0
                           ELSE Amount[(CHOOSE x \in s : TRUE).key] + g[s \ {CHOOSE x \in s : TRUE}]]
           h == CHOOSE g : Paid(g)
<1>1. MapThenSumSet(LAMBDA e : Amount[e.key], S) = h[S]
  BY Zenon DEF MapThenSumSet, MapThenFoldSet
<1>2. PICK f : SumsOf(Weight, S, f)
  BY WeightOfRow, SumIsFunction, Zenon
<1>3. \A s \in SUBSET S : s # {} => Weight[Aside(s)] = Amount[(CHOOSE x \in s : TRUE).key]
  <2> SUFFICES ASSUME NEW s \in SUBSET S, s # {}
               PROVE  Weight[Aside(s)] = Amount[(CHOOSE x \in s : TRUE).key]
    OBVIOUS
  <2>1. Aside(s) \in Row
    BY AsideIsIn
  <2>2. Weight[Aside(s)] = Amount[Aside(s).key]
    BY <2>1 DEF Weight
  <2> QED BY <2>2 DEF Aside
<1>4. \A g : Paid(g) <=> IsSum(Weight, S, g)
  <2>1. \A g : [s \in SUBSET S |-> IF s = {} THEN 0
                ELSE Amount[(CHOOSE x \in s : TRUE).key] + g[s \ {CHOOSE x \in s : TRUE}]]
             = [s \in SUBSET S |-> IF s = {} THEN 0 ELSE Weight[Aside(s)] + g[s \ {Aside(s)}]]
    BY <1>3 DEF Aside
  <2> QED BY <2>1 DEF IsSum
<1>5. IsSum(Weight, S, h)
  <2>1. Paid(f)
    BY <1>2, <1>4 DEF SumsOf
  <2>2. Paid(h)
    BY <2>1
  <2> HIDE DEF h, Paid
  <2> QED BY <2>2, <1>4
<1> HIDE DEF h
<1>6. IsSum(Weight, S, f) /\ SumOver(Weight, S) = f[S]
  BY <1>2 DEF SumsOf
<1>7. S \in SUBSET S
  OBVIOUS
<1>8. Agree(f, h, S)
  BY <1>5, <1>6, <1>7, SumsAgree, Zenon
<1> QED BY <1>1, <1>6, <1>7, <1>8 DEF Agree

PersonalTypes ==
    /\ executions \subseteq Row /\ IsFiniteSet(executions)
    /\ payer \in [Payers -> [at : {"idle", "waits", "locked", "summed"},
                             key : PaymentKeys \cup {NoCall}, stamp : Nat, total : Nat]]
    /\ cashLock \in Payers \cup {NoCall}
    /\ imported \in [Lines -> Nat]
    /\ importer \in [Importers -> [at : {"idle", "waits", "locked", "compared"},
                                   lines : SUBSET Lines, fresh : SUBSET Lines]]
    /\ ledgerRows \in [PaymentKeys \cup Lines -> Nat]
    /\ payClock \in Nat

\* A call past the account's lock still holds it, so nobody has written a row since it summed.
TotalsAreCurrent ==
    \A p \in Payers :
        /\ payer[p].at # "idle" => payer[p].key \in PaymentKeys
        /\ payer[p].at \in {"locked", "summed"} => cashLock = p
        /\ \A s \in Nat : payer[p].at = "summed" /\ payer[p].stamp = s =>
              payer[p].total = SumOver(Weight, Since(s - Day))

\* One outcome per key, one ledger row per executed outcome and per imported line.
RowsMatch ==
    /\ \A e, f \in executions : e.key = f.key => e = f
    /\ \A k \in PaymentKeys :
          ledgerRows[k] = IF \E e \in Executed : e.key = k THEN 1 ELSE 0
    /\ \A l \in Lines : ledgerRows[l] = imported[l] /\ imported[l] <= 1

DaysWithinCap == \A t \in Int : SumOver(Weight, Within(t)) <= DailyCap

PersonalInv == PersonalTypes /\ TotalsAreCurrent /\ RowsMatch /\ DaysWithinCap

\* The rows of a day, or since some time, are finitely many rows.
LEMMA PartsOfRows ==
    ASSUME PersonalTypes, NEW t
    PROVE  /\ IsFiniteSet(Since(t)) /\ Since(t) \subseteq Row /\ SumOver(Weight, Since(t)) \in Nat
           /\ IsFiniteSet(Within(t)) /\ Within(t) \subseteq Row /\ SumOver(Weight, Within(t)) \in Nat
           /\ Within(t) \in SUBSET Since(t)
<1>1. Since(t) \subseteq executions /\ Within(t) \subseteq Since(t)
  BY DEF Since, Within, Executed
<1>2. /\ IsFiniteSet(Since(t)) /\ Since(t) \subseteq Row
      /\ IsFiniteSet(Within(t)) /\ Within(t) \subseteq Row
  BY <1>1, FS_Subset DEF PersonalTypes
<1> QED BY <1>1, <1>2, WeightOfRow, SumIsNumber

\* The invariant gives the property that the run checks.
LEMMA PersonalInvHolds == PersonalInv => PersonalBooksHold
<1> SUFFICES ASSUME PersonalInv PROVE PersonalBooksHold
  OBVIOUS
<1> USE PersonalAssumption DEF PersonalInv
<1>1. EveryDayWithinCap
  <2> SUFFICES ASSUME NEW t \in 0..MaxClock
               PROVE  MapThenSumSet(LAMBDA e : Amount[e.key],
                          {e \in Executed : e.at >= t /\ e.at <= t + Day}) <= DailyCap
    BY Zenon DEF EveryDayWithinCap
  <2>1. t \in Int
    OBVIOUS
  <2>2. SumOver(Weight, Within(t)) <= DailyCap
    BY <2>1 DEF DaysWithinCap
  <2>3. MapThenSumSet(LAMBDA e : Amount[e.key], Within(t)) = SumOver(Weight, Within(t))
    BY PartsOfRows, PaidIsSum, Zenon
  <2> QED BY <2>2, <2>3, Zenon DEF Within
<1>2. ASSUME NEW k \in PaymentKeys
      PROVE  /\ Cardinality({e \in executions : e.key = k}) <= 1
             /\ ledgerRows[k] = Cardinality({e \in Executed : e.key = k})
  <2> DEFINE all == {e \in executions : e.key = k}
             done == {e \in Executed : e.key = k}
  <2>1. \A e, f \in all : e = f
    BY DEF RowsMatch
  <2>2. done \subseteq all
    BY DEF Executed
  <2>3. ASSUME NEW T, \A e, f \in T : e = f
        PROVE  Cardinality(T) = IF T = {} THEN 0 ELSE 1
    <3>1. CASE T = {}
      BY <3>1, FS_EmptySet
    <3>2. CASE T # {}
      <4>1. PICK e \in T : T = {e}
        BY <3>2, <2>3
      <4> QED BY <3>2, <4>1, FS_Singleton
    <3> QED BY <3>1, <3>2
  <2>4. Cardinality(all) <= 1
    <3> HIDE DEF all
    <3> QED BY <2>1, <2>3
  <2>5. Cardinality(done) = IF done = {} THEN 0 ELSE 1
    <3> HIDE DEF all, done
    <3> QED BY <2>1, <2>2, <2>3
  <2>6. done = {} <=> ~\E e \in Executed : e.key = k
    OBVIOUS
  <2> QED BY <2>4, <2>5, <2>6 DEF RowsMatch
<1>3. OneLedgerRow
  BY <1>2 DEF OneLedgerRow, RowsMatch
<1> QED BY <1>1, <1>3 DEF PersonalBooksHold

\* The invariant holds at first.
LEMMA PersonalStarts == PersonalInit => PersonalInv
<1> SUFFICES ASSUME PersonalInit PROVE PersonalInv
  OBVIOUS
<1> USE PersonalAssumption DEF PersonalInit
<1>1. PersonalTypes
  BY FS_EmptySet DEF PersonalTypes, NoPayment, NoImport
<1>2. TotalsAreCurrent
  BY DEF TotalsAreCurrent, NoPayment
<1>3. RowsMatch
  BY DEF RowsMatch, Executed
<1>4. \A t : Within(t) = {}
  BY DEF Within, Executed
<1>5. SumOver(Weight, {}) = 0
  BY WeightOfRow, SumOfNone
<1>6. DaysWithinCap
  BY <1>4, <1>5 DEF DaysWithinCap
<1> QED BY <1>1, <1>2, <1>3, <1>6 DEF PersonalInv

\* A row that is written for an executed payment: what was summed since a day before its
\* stamp covers every day that the row falls into, whatever order rows are written in.
LEMMA PaymentStaysWithinCap ==
    ASSUME PersonalInv, NEW r \in Row, r \notin executions, executions' = executions \cup {r},
           r.status = "executed" =>
               SumOver(Weight, Since(r.at - Day)) + Amount[r.key] <= DailyCap
    PROVE  DaysWithinCap'
<1> SUFFICES ASSUME NEW t \in Int PROVE SumOver(Weight, Within(t)') <= DailyCap
  BY DEF DaysWithinCap
<1> USE PersonalAssumption
<1>1. /\ Within(t) \subseteq Row /\ IsFiniteSet(Within(t)) /\ SumOver(Weight, Within(t)) \in Nat
      /\ SumOver(Weight, Within(t)) <= DailyCap
  BY PartsOfRows DEF PersonalInv, DaysWithinCap
<1>2. CASE r.status = "executed" /\ r.at >= t /\ r.at <= t + Day
  <2>1. Within(t)' = Within(t) \cup {r} /\ r \notin Within(t)
    BY <1>2 DEF Within, Executed
  <2>2. Weight[r] = Amount[r.key] /\ Amount[r.key] \in Nat /\ r.at \in Nat
    BY DEF Weight, Row
  <2>3. SumOver(Weight, Within(t)') = SumOver(Weight, Within(t)) + Amount[r.key]
    BY <1>1, <2>1, <2>2, WeightOfRow, SumOfMore
  <2> DEFINE since == r.at - Day
  <2>4. since \in Int /\ since <= t
    BY <1>2, <2>2
  <2>5. Within(t) \subseteq Since(since)
    <3> SUFFICES ASSUME NEW e \in Within(t) PROVE e \in Since(since)
      OBVIOUS
    <3>1. e \in Executed /\ e.at >= t /\ e.at \in Nat
      BY DEF Within, Executed, PersonalInv, PersonalTypes, Row
    <3>2. e.at >= since
      BY <3>1, <2>4
    <3> QED BY <3>1, <3>2 DEF Since
  <2>6. /\ IsFiniteSet(Since(since)) /\ Since(since) \subseteq Row
        /\ SumOver(Weight, Since(since)) \in Nat
    BY PartsOfRows DEF PersonalInv
  <2>7. SumOver(Weight, Within(t)) <= SumOver(Weight, Since(since))
    BY <2>5, <2>6, WeightOfRow, SumOfPart
  <2>8. SumOver(Weight, Since(since)) + Amount[r.key] <= DailyCap
    BY <1>2
  <2> HIDE DEF since
  <2> QED BY <1>1, <2>2, <2>3, <2>6, <2>7, <2>8
<1>3. CASE ~(r.status = "executed" /\ r.at >= t /\ r.at <= t + Day)
  <2>1. Within(t)' = Within(t)
    BY <1>3 DEF Within, Executed
  <2> QED BY <1>1, <2>1
<1> QED BY <1>2, <1>3

\* The end of a call that may write one row: create_execution, the ledger row and the lock.
LEMMA PaymentEnds ==
    ASSUME PersonalInv, NEW p \in Payers, NEW status \in {"executed", "rejected"},
           payer[p].at \in {"locked", "summed"}, EndPayment(p), UNCHANGED <<importVars, payClock>>,
           \/ /\ create_execution(p, status)
              /\ ledgerRows' = IF status = "executed" /\ executions' # executions
                               THEN [ledgerRows EXCEPT ![payer[p].key] = @ + 1] ELSE ledgerRows
           \/ UNCHANGED <<executions, ledgerRows>>,
           status = "executed" => /\ payer[p].at = "summed"
                                  /\ payer[p].total + Amount[payer[p].key] <= DailyCap
    PROVE  PersonalInv'
<1> USE PersonalAssumption
<1>0. /\ PersonalTypes /\ TotalsAreCurrent /\ RowsMatch /\ DaysWithinCap
  BY DEF PersonalInv
<1> DEFINE r == [key |-> payer[p].key, at |-> payer[p].stamp, status |-> status, by |-> p]
<1>k. payer[p].key \in PaymentKeys /\ payer[p].stamp \in Nat /\ r \in Row
  BY <1>0 DEF TotalsAreCurrent, PersonalTypes, Row
<1>c. /\ \A q \in Payers : q # p => payer'[q] = payer[q]
      /\ payer'[p] = NoPayment
      /\ \A q \in Payers : q # p => payer[q].at \notin {"locked", "summed"}
      /\ cashLock' = NoCall
  BY <1>0 DEF EndPayment, TotalsAreCurrent, PersonalTypes
<1>1. TotalsAreCurrent'
  BY <1>c, <1>0 DEF TotalsAreCurrent, NoPayment
<1>p. payer' \in [Payers -> [at : {"idle", "waits", "locked", "summed"},
                             key : PaymentKeys \cup {NoCall}, stamp : Nat, total : Nat]]
  BY <1>0 DEF EndPayment, PersonalTypes, NoPayment
<1>2. CASE UNCHANGED <<executions, ledgerRows>>
  <2>1. PersonalTypes'
    BY <1>0, <1>2, <1>p, <1>c DEF PersonalTypes, importVars
  <2>2. RowsMatch'
    BY <1>0, <1>2 DEF RowsMatch, Executed, importVars
  <2>3. DaysWithinCap'
    BY <1>0, <1>2 DEF DaysWithinCap, Within, Executed
  <2> QED BY <1>1, <2>1, <2>2, <2>3 DEF PersonalInv
<1>3. CASE /\ ~\E e \in executions : e.key = payer[p].key
           /\ executions' = executions \cup {r}
           /\ ledgerRows' = IF status = "executed"
                            THEN [ledgerRows EXCEPT ![payer[p].key] = @ + 1] ELSE ledgerRows
  <2>0. r.key = payer[p].key /\ r.at = payer[p].stamp /\ r.status = status /\ r \notin executions
    BY <1>3
  <2>1. PersonalTypes'
    <3>1. executions' \subseteq Row /\ IsFiniteSet(executions')
      BY <1>0, <1>3, <1>k, FS_AddElement DEF PersonalTypes
    <3>2. ledgerRows' \in [PaymentKeys \cup Lines -> Nat]
      BY <1>0, <1>3, <1>k DEF PersonalTypes
    <3> QED BY <3>1, <3>2, <1>0, <1>p, <1>c DEF PersonalTypes, importVars
  <2>2. RowsMatch'
    <3>1. \A e, f \in executions' : e.key = f.key => e = f
      BY <1>0, <1>3, <2>0 DEF RowsMatch
    <3>2. Executed' = IF status = "executed" THEN Executed \cup {r} ELSE Executed
      BY <1>3, <2>0 DEF Executed
    <3>3. ~\E e \in Executed : e.key = payer[p].key
      BY <1>3 DEF Executed
    <3>4. \A k \in PaymentKeys :
             ledgerRows'[k] = IF \E e \in Executed' : e.key = k THEN 1 ELSE 0
      <4> HIDE DEF r
      <4>1. CASE status = "executed"
        BY <4>1, <3>2, <3>3, <1>0, <1>3, <1>k, <2>0 DEF RowsMatch, PersonalTypes
      <4>2. CASE status # "executed"
        BY <4>2, <3>2, <1>0, <1>3 DEF RowsMatch
      <4> QED BY <4>1, <4>2
    <3>5. \A l \in Lines : ledgerRows'[l] = imported'[l] /\ imported'[l] <= 1
      BY <1>0, <1>3, <1>k DEF RowsMatch, PersonalTypes, importVars
    <3> QED BY <3>1, <3>4, <3>5 DEF RowsMatch
  <2>3. DaysWithinCap'
    <3>1. status = "executed" => SumOver(Weight, Since(payer[p].stamp - Day)) = payer[p].total
      BY <1>0, <1>k DEF TotalsAreCurrent
    <3>2. r.status = "executed" => SumOver(Weight, Since(r.at - Day)) + Amount[r.key] <= DailyCap
      BY <2>0, <3>1
    <3> HIDE DEF r
    <3> QED BY <1>3, <1>k, <2>0, <3>2, PaymentStaysWithinCap
  <2> QED BY <1>1, <2>1, <2>2, <2>3 DEF PersonalInv
<1>4. \/ UNCHANGED <<executions, ledgerRows>>
      \/ /\ ~\E e \in executions : e.key = payer[p].key
         /\ executions' = executions \cup {r}
         /\ ledgerRows' = IF status = "executed"
                          THEN [ledgerRows EXCEPT ![payer[p].key] = @ + 1] ELSE ledgerRows
  BY DEF create_execution
<1> QED BY <1>2, <1>3, <1>4

\* Every step keeps the invariant: one case per action.
LEMMA PersonalSteps == PersonalInv /\ [PersonalNext]_personalVars => PersonalInv'
<1> SUFFICES ASSUME PersonalInv, [PersonalNext]_personalVars PROVE PersonalInv'
  OBVIOUS
<1> USE PersonalAssumption
<1>0. /\ PersonalTypes /\ TotalsAreCurrent /\ RowsMatch /\ DaysWithinCap
  BY DEF PersonalInv
\* A step that writes no row leaves the sums, and the cap, as they are.
<1>s. ASSUME UNCHANGED executions
      PROVE  DaysWithinCap' /\ \A t : Since(t)' = Since(t)
  BY <1>0, <1>s DEF DaysWithinCap, Within, Since, Executed
<1>r. ASSUME UNCHANGED <<executions, ledgerRows, imported>> PROVE RowsMatch'
  BY <1>0, <1>r DEF RowsMatch, Executed
<1>l. ASSUME UNCHANGED payVars PROVE TotalsAreCurrent'
  BY <1>0, <1>l, <1>s DEF TotalsAreCurrent, payVars
<1>1. ASSUME Tick PROVE PersonalInv'
  <2>1. PersonalTypes'
    BY <1>0, <1>1 DEF Tick, PersonalTypes, payVars, importVars
  <2> QED BY <1>1, <2>1, <1>s, <1>r, <1>l DEF Tick, payVars, importVars, PersonalInv
<1>2. ASSUME NEW p \in Payers, NEW k \in PaymentKeys, execute_micro_transaction(p, k) PROVE PersonalInv'
  <2> USE <1>2 DEF execute_micro_transaction, importVars
  <2>1. PersonalTypes'
    BY <1>0 DEF PersonalTypes, NoPayment
  <2>2. TotalsAreCurrent'
    BY <1>0, <1>s DEF TotalsAreCurrent, NoPayment, PersonalTypes
  <2> QED BY <2>1, <2>2, <1>s, <1>r DEF PersonalInv
<1>3. ASSUME NEW p \in Payers, acquire_account_execution_lock(p) PROVE PersonalInv'
  <2> USE <1>3 DEF acquire_account_execution_lock, importVars
  <2>1. PersonalTypes'
    BY <1>0 DEF PersonalTypes
  <2>2. TotalsAreCurrent'
    BY <1>0, <1>s DEF TotalsAreCurrent, PersonalTypes
  <2> QED BY <2>1, <2>2, <1>s, <1>r DEF PersonalInv
<1>4. ASSUME NEW p \in Payers, CurrencyMismatch(p) PROVE PersonalInv'
  BY <1>4, PaymentEnds DEF CurrencyMismatch
<1>5. ASSUME NEW p \in Payers, SumLastDay(p) PROVE PersonalInv'
  <2>1. PICK s \in Nat : payer[p].stamp = s
    BY <1>0 DEF PersonalTypes
  <2>2. /\ IsFiniteSet(Since(s - Day)) /\ Since(s - Day) \subseteq Row
        /\ SumOver(Weight, Since(s - Day)) \in Nat
    BY <1>0, PartsOfRows
  <2>3. executed_total_since(s - Day) = SumOver(Weight, Since(s - Day))
    <3>1. MapThenSumSet(LAMBDA e : Amount[e.key], Since(s - Day)) = SumOver(Weight, Since(s - Day))
      BY <2>2, PaidIsSum, Zenon
    <3> QED BY <3>1, Zenon DEF executed_total_since, Since
  <2>4. /\ payer[p].at = "locked"
        /\ payer' = [payer EXCEPT ![p].at = "summed", ![p].total = SumOver(Weight, Since(s - Day))]
        /\ UNCHANGED <<executions, cashLock, imported, importer, importLock, ledgerRows, payClock>>
    BY <1>5, <2>1, <2>3 DEF SumLastDay, importVars
  <2>n. PICK n \in Nat : n = SumOver(Weight, Since(s - Day))
    BY <2>2
  <2>5. PersonalTypes'
    <3>1. payer' = [payer EXCEPT ![p].at = "summed", ![p].total = n]
      BY <2>4, <2>n
    <3>2. payer' = [payer EXCEPT ![p] = [payer[p] EXCEPT !.at = "summed", !.total = n]]
      BY <3>1
    <3>3. [payer[p] EXCEPT !.at = "summed", !.total = n]
            \in [at : {"idle", "waits", "locked", "summed"},
                 key : PaymentKeys \cup {NoCall}, stamp : Nat, total : Nat]
      <4>1. payer[p] \in [at : {"idle", "waits", "locked", "summed"},
                          key : PaymentKeys \cup {NoCall}, stamp : Nat, total : Nat]
        BY <1>0 DEF PersonalTypes
      <4> QED BY <4>1
    <3>4. payer' \in [Payers -> [at : {"idle", "waits", "locked", "summed"},
                                 key : PaymentKeys \cup {NoCall}, stamp : Nat, total : Nat]]
      BY <1>0, <3>2, <3>3 DEF PersonalTypes
    <3> QED BY <1>0, <2>4, <3>4 DEF PersonalTypes
  <2>6. TotalsAreCurrent'
    BY <1>0, <1>s, <2>1, <2>4 DEF TotalsAreCurrent, PersonalTypes
  <2> QED BY <2>4, <2>5, <2>6, <1>s, <1>r DEF PersonalInv
<1>6. ASSUME NEW p \in Payers, CommitPayment(p) PROVE PersonalInv'
  <2> DEFINE within == payer[p].total + Amount[payer[p].key] <= DailyCap
             status == IF within THEN "executed" ELSE "rejected"
  <2>1. /\ payer[p].at = "summed" /\ EndPayment(p) /\ UNCHANGED <<importVars, payClock>>
        /\ \/ /\ create_execution(p, status)
              /\ ledgerRows' = IF status = "executed" /\ executions' # executions
                               THEN [ledgerRows EXCEPT ![payer[p].key] = @ + 1] ELSE ledgerRows
           \/ UNCHANGED <<executions, ledgerRows>>
    BY <1>6 DEF CommitPayment
  <2>2. status \in {"executed", "rejected"} /\ (status = "executed" => within)
    OBVIOUS
  <2> HIDE DEF status
  <2> QED BY <2>1, <2>2, PaymentEnds
<1>7. ASSUME NEW i \in Importers, NEW lines \in (SUBSET Lines) \ {{}}, run_import(i, lines)
      PROVE  PersonalInv'
  <2> USE <1>7 DEF run_import, payVars
  <2>1. PersonalTypes'
    BY <1>0 DEF PersonalTypes
  <2> QED BY <2>1, <1>s, <1>r, <1>l DEF PersonalInv
<1>8. ASSUME NEW i \in Importers, acquire_source_import_lock(i) PROVE PersonalInv'
  <2> USE <1>8 DEF acquire_source_import_lock, payVars
  <2>1. PersonalTypes'
    BY <1>0 DEF PersonalTypes
  <2> QED BY <2>1, <1>s, <1>r, <1>l DEF PersonalInv
<1>9. ASSUME NEW i \in Importers, imported_hashes_for_source(i) PROVE PersonalInv'
  <2>0. PICK fresh \in SUBSET Lines :
           importer' = [importer EXCEPT ![i].at = "compared", ![i].fresh = fresh]
    <3>1. PICK rejected \in SUBSET importer[i].lines :
             importer' = [importer EXCEPT ![i].at = "compared",
                 ![i].fresh = {l \in importer[i].lines \ rejected : imported[l] = 0}]
      BY <1>9 DEF imported_hashes_for_source
    <3>2. {l \in importer[i].lines \ rejected : imported[l] = 0} \in SUBSET Lines
      BY <1>0 DEF PersonalTypes
    <3> QED BY <3>1, <3>2
  <2>1. PersonalTypes'
    <3>1. importer' = [importer EXCEPT ![i] = [importer[i] EXCEPT !.at = "compared", !.fresh = fresh]]
      BY <2>0
    <3>2. [importer[i] EXCEPT !.at = "compared", !.fresh = fresh]
            \in [at : {"idle", "waits", "locked", "compared"},
                 lines : SUBSET Lines, fresh : SUBSET Lines]
      <4>1. importer[i] \in [at : {"idle", "waits", "locked", "compared"},
                             lines : SUBSET Lines, fresh : SUBSET Lines]
        BY <1>0 DEF PersonalTypes
      <4> QED BY <4>1
    <3>3. importer' \in [Importers -> [at : {"idle", "waits", "locked", "compared"},
                                       lines : SUBSET Lines, fresh : SUBSET Lines]]
      BY <1>0, <3>1, <3>2 DEF PersonalTypes
    <3> QED BY <1>9, <1>0, <3>3 DEF PersonalTypes, imported_hashes_for_source, payVars
  <2> QED BY <2>1, <1>9, <1>s, <1>r, <1>l DEF PersonalInv, imported_hashes_for_source, payVars
<1>10. ASSUME NEW i \in Importers, CommitImport(i) PROVE PersonalInv'
  <2>1. /\ UNCHANGED payVars /\ UNCHANGED executions /\ UNCHANGED payClock
        /\ importer' = [importer EXCEPT ![i] = NoImport]
    BY <1>10 DEF CommitImport, payVars
  <2>2. DaysWithinCap' /\ TotalsAreCurrent'
    BY <2>1, <1>s, <1>l
  <2>3. CASE UNCHANGED <<imported, ledgerRows>>
    <3>1. PersonalTypes'
      BY <2>1, <2>3, <1>0 DEF PersonalTypes, NoImport, payVars
    <3> QED BY <3>1, <2>1, <2>2, <2>3, <1>r DEF PersonalInv
  <2>4. CASE /\ \A l \in importer[i].fresh : imported[l] = 0
             /\ imported' = [l \in Lines |-> imported[l] + (IF l \in importer[i].fresh THEN 1 ELSE 0)]
             /\ ledgerRows' = [x \in DOMAIN ledgerRows |->
                    ledgerRows[x] + (IF x \in importer[i].fresh THEN 1 ELSE 0)]
    <3>1. importer[i].fresh \subseteq Lines /\ DOMAIN ledgerRows = PaymentKeys \cup Lines
      BY <1>0 DEF PersonalTypes
    <3>2. PersonalTypes'
      BY <2>1, <2>4, <3>1, <1>0 DEF PersonalTypes, NoImport, payVars
    <3>3. \A k \in PaymentKeys : ledgerRows'[k] = ledgerRows[k]
      BY <2>4, <3>1, <1>0 DEF PersonalTypes
    <3>4. \A l \in Lines : ledgerRows'[l] = imported'[l] /\ imported'[l] <= 1
      BY <2>4, <3>1, <1>0 DEF PersonalTypes, RowsMatch
    <3>5. RowsMatch'
      BY <2>1, <3>3, <3>4, <1>0 DEF RowsMatch, Executed
    <3> QED BY <2>2, <3>2, <3>5 DEF PersonalInv
  <2> QED BY <2>3, <2>4, <1>10 DEF CommitImport
<1>11. CASE UNCHANGED personalVars
  <2>1. PersonalTypes'
    BY <1>0, <1>11 DEF PersonalTypes, personalVars
  <2> QED BY <2>1, <1>11, <1>s, <1>r, <1>l DEF PersonalInv, personalVars, payVars
<1> QED BY <1>1, <1>2, <1>3, <1>4, <1>5, <1>6, <1>7, <1>8, <1>9, <1>10, <1>11
        DEF PersonalNext, PaymentStep, ImportStep

\* However calls overlap and in whatever order their stamps are written, no 24 hours contain
\* more executed micro transactions than the cap, a key has one outcome and a statement line
\* one ledger row (execute_micro_transaction, run_import).
THEOREM PersonalBooksStay == PersonalSpec => []PersonalBooksHold
BY PersonalStarts, PersonalSteps, PersonalInvHolds, PTL DEF PersonalSpec
=============================================================================
