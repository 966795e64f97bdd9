-------------------------- MODULE PipelinesProofs ---------------------------
(***************************************************************************)
(* Proofs about the components of the Pipelines run: the audit chains, the *)
(* event pipeline into Delta's ledger (UsageBooking), Sentinel's webhook   *)
(* dispatcher and its bulk pipeline, for any number of chains,             *)
(* transactions, emitters, drains, handlers, workers, candidates, hooks,   *)
(* batches and files.                                                      *)
(*                                                                         *)
(* Chains: a transaction that has read the tip of a chain, or has rows in  *)
(* it that are not committed, holds its lock.  So the committed rows and   *)
(* the rows of one transaction always form a chain, and the numbers drawn  *)
(* for a chain are above every number it has.                              *)
(* Usage: one request at a time is past the key of an envelope, and what a *)
(* drain or a handler holds is true of the rows it read until it writes    *)
(* them.                                                                   *)
(* Webhooks: every post, and every worker that may still make one, has a   *)
(* read of the message of its own, and the reads are capped.               *)
(* Batches: a slot passes from the request to the batch it makes and to    *)
(* the worker that completes it; a file that is not settled has a worker   *)
(* that will go on, or a job that nobody is at.                            *)
(***************************************************************************)
EXTENDS AuditChain, UsageBooking, WebhookDispatcher, BulkPipeline,
        FiniteSetTheorems, WellFoundedInduction, TLAPS

-----------------------------------------------------------------------------
(* Sets of numbered rows *)

Less == {p \in Nat \X Nat : p[1] < p[2]}

\* There is no endless descent in the natural numbers.
LEMMA LessWellFounded == IsWellFoundedOn(Less, Nat)
<1>1. OpToRel(<, Nat) = Less
  BY Zenon DEF OpToRel, Less
<1> QED BY <1>1, NatLessThanWellFounded, Zenon

\* A set of numbers has a least element.
LEMMA LeastNat ==
    ASSUME NEW S, S \subseteq Nat, S # {}
    PROVE  \E n \in S : \A m \in S : n <= m
<1>1. PICK n \in S : \A m \in S : ~(<<m, n>> \in Less)
  BY WFMin, LessWellFounded, Zenon
<1>2. ASSUME NEW m \in S PROVE n <= m
  <2>1. <<m, n>> \in Nat \X Nat
    OBVIOUS
  <2>2. ~(m < n)
    BY <1>1, <2>1 DEF Less
  <2> QED BY <2>2
<1> QED BY <1>2

\* Rows with numbers below a bound.
Numbered(S, b) == \A row \in S : row.seq \in Nat /\ row.seq < b

\* Such rows have a newest one.
LEMMA NewestType ==
    ASSUME NEW S, S # {}, NEW b \in Nat, Numbered(S, b)
    PROVE  Newest(S) \in S /\ \A q \in S : q.seq <= Newest(S).seq
<1> DEFINE D == {b - row.seq : row \in S}
<1>1. D \subseteq Nat /\ D # {}
  BY DEF Numbered
<1>2. PICK n \in D : \A m \in D : n <= m
  BY <1>1, LeastNat
<1>3. PICK row \in S : n = b - row.seq
  BY <1>2
<1>4. ASSUME NEW q \in S PROVE q.seq <= row.seq
  <2>1. n <= b - q.seq
    BY <1>2
  <2> QED BY <1>3, <2>1 DEF Numbered
<1> QED BY <1>4 DEF Newest

\* The row hashes the number of its transaction and stores what the column keeps of it.
MadeBy(row) ==
    /\ row.hash = compute_row_hash(row.prev, row.entry, Value[row.entry])
    /\ row.value = Numeric(row.chain, Value[row.entry])

\* A finite set of rows in which the hashes link, and every position up to their
\* number is that of exactly one row.
Linked(S) ==
    \A row \in S : row.prev = LastHash(Before(S, row)) /\ MadeBy(row)
AtPosition(S, row, i) == row \in S /\ Cardinality(Before(S, row)) = i - 1
Ranked(S) ==
    \A i \in 1..Cardinality(S) :
        \E row \in S : AtPosition(S, row, i) /\ \A q \in S : AtPosition(S, q, i) => q = row

\* Appending a row with a new number, above all others, that hashes the last one.
LEMMA AppendLinks ==
    ASSUME NEW S, NEW n, NEW b \in Nat, Numbered(S, b), n.seq = b, IsFiniteSet(S),
           Linked(S), Ranked(S), n.prev = LastHash(S),
           MadeBy(n)
    PROVE  Linked(S \cup {n}) /\ Ranked(S \cup {n})
<1> DEFINE T == S \cup {n}
<1>1. n \notin S /\ Before(T, n) = S /\ \A row \in S : Before(T, row) = Before(S, row)
  BY DEF Before, Numbered
<1>2. Linked(T)
  BY <1>1 DEF Linked
<1>3. Cardinality(T) = Cardinality(S) + 1 /\ Cardinality(S) \in Nat
  BY <1>1, FS_AddElement, FS_CardinalityType
<1>4. \A row \in S : Cardinality(Before(S, row)) \in Nat /\ Cardinality(Before(S, row)) < Cardinality(S)
  <2> SUFFICES ASSUME NEW row \in S
               PROVE  Cardinality(Before(S, row)) \in Nat /\ Cardinality(Before(S, row)) < Cardinality(S)
    OBVIOUS
  <2>1. Before(S, row) \in SUBSET S /\ row \notin Before(S, row)
    BY DEF Before, Numbered
  <2>2. IsFiniteSet(Before(S, row)) /\ Cardinality(Before(S, row)) <= Cardinality(S)
        /\ Cardinality(S) # Cardinality(Before(S, row))
    BY <2>1, FS_Subset
  <2> QED BY <1>3, <2>2, FS_CardinalityType
<1>5. ASSUME NEW i \in 1..Cardinality(T)
      PROVE  \E row \in T : AtPosition(T, row, i) /\ \A q \in T : AtPosition(T, q, i) => q = row
  <2>1. CASE i = Cardinality(T)
    <3>1. AtPosition(T, n, i)
      BY <1>1, <1>3, <2>1 DEF AtPosition
    <3>2. ASSUME NEW q \in S PROVE ~AtPosition(T, q, i)
      <4>1. Cardinality(Before(T, q)) \in Nat /\ Cardinality(Before(T, q)) < Cardinality(S)
        BY <1>1, <1>4
      <4>2. Cardinality(Before(T, q)) # i - 1
        BY <1>3, <2>1, <4>1
      <4> QED BY <4>2 DEF AtPosition
    <3> QED BY <3>1, <3>2
  <2>2. CASE i # Cardinality(T)
    <3>1. i \in 1..Cardinality(S) /\ i - 1 # Cardinality(S)
      BY <1>3, <2>2
    <3>2. PICK row \in S : AtPosition(S, row, i) /\ \A q \in S : AtPosition(S, q, i) => q = row
      BY <3>1 DEF Ranked
    <3>3. AtPosition(T, row, i)
      BY <1>1, <3>2 DEF AtPosition
    <3>4. ~AtPosition(T, n, i)
      BY <1>1, <3>1 DEF AtPosition
    <3>5. \A q \in S : AtPosition(T, q, i) => AtPosition(S, q, i)
      BY <1>1 DEF AtPosition
    <3> QED BY <3>2, <3>3, <3>4, <3>5
  <2> QED BY <2>1, <2>2
<1> QED BY <1>2, <1>5 DEF Ranked

-----------------------------------------------------------------------------
(* The audit chains: the inductive invariant *)

Hashes == Seq(Transactions \X Nat)
AuditRow == [chain : Chains, seq : Nat \ {0}, entry : Transactions, value : Nat,
             prev : Hashes, hash : Hashes]

ChainTypeOK ==
    /\ rows \in SUBSET AuditRow /\ IsFiniteSet(rows)
    /\ written \in [Transactions -> SUBSET AuditRow]
    /\ \A t \in Transactions : IsFiniteSet(written[t])
    /\ nextSeq \in Nat \ {0}
    /\ held \in [Locks -> Transactions \cup {Nobody}]
    /\ phase \in [Transactions -> {"new", "open", "wait", "tip", "insert", "done"}]
    /\ want \in [Transactions -> Locks \cup {Nobody}]
    /\ tip \in [Transactions -> Hashes]
    /\ cursor \in [Chains -> Nat]
    /\ seen \in [Chains -> SUBSET AuditRow]

\* Whoever is between the lock and the insert, or has rows to commit, holds the lock
\* of the chain.
LocksHeld ==
    \A t \in Transactions :
        /\ phase[t] = "wait" => want[t] \in Locks
        /\ phase[t] \in {"tip", "insert"} => want[t] \in Chains /\ held[want[t]] = t
        /\ \A row \in written[t] : held[row.chain] = t

\* Numbers are drawn upwards, and no committed row of a chain is above an
\* uncommitted one.
NumbersGrow ==
    /\ Numbered(rows, nextSeq)
    /\ \A t \in Transactions :
          /\ Numbered(written[t], nextSeq)
          /\ \A row \in written[t], q \in rows : q.chain = row.chain => q.seq < row.seq

\* A chain as transaction t sees it.
ViewOf(t, c) == RowsOf(rows \cup written[t], c)

Good(S) == Linked(S) /\ Ranked(S)

\* Every view of a chain is one, and a tip that was read is still the tip.
ViewsLinked ==
    /\ \A c \in Chains : Good(RowsOf(rows, c))
    /\ \A t \in Transactions :
          /\ \A c \in Chains : Good(ViewOf(t, c))
          /\ phase[t] = "insert" => tip[t] = LastHash(ViewOf(t, want[t]))

\* A client's cursor is at a row of the chain, and it has all rows up to there.
CursorsKeep ==
    \A c \in Chains :
        /\ cursor[c] = 0 \/ \E row \in RowsOf(rows, c) : cursor[c] = row.seq
        /\ \A row \in RowsOf(rows, c) : row.seq <= cursor[c] => row \in seen[c]

ChainInv == ChainTypeOK /\ LocksHeld /\ NumbersGrow /\ ViewsLinked /\ CursorsKeep

\* An empty chain is in order.
LEMMA EmptyGood == Good({})
<1>1. Cardinality({}) = 0
  BY FS_EmptySet
<1>2. Ranked({})
  BY <1>1 DEF Ranked
<1> QED BY <1>2 DEF Good, Linked

LEMMA ChainStart == ChainInit => ChainInv
<1> SUFFICES ASSUME ChainInit PROVE ChainInv
  OBVIOUS
<1>1. ChainTypeOK
  BY FS_EmptySet DEF ChainInit, ChainTypeOK, GENESIS_HASH, Hashes, Locks
<1>2. LocksHeld /\ NumbersGrow /\ CursorsKeep
  BY DEF ChainInit, LocksHeld, NumbersGrow, Numbered, CursorsKeep, RowsOf
<1>3. \A t \in Transactions, c \in Chains : ViewOf(t, c) = {} /\ RowsOf(rows, c) = {}
  BY DEF ChainInit, ViewOf, RowsOf
<1>4. ViewsLinked
  <2>1. \A c \in Chains : RowsOf(rows, c) = {}
    BY DEF ChainInit, RowsOf
  <2> QED BY <1>3, <2>1, EmptyGood DEF ChainInit, ViewsLinked
<1> QED BY <1>1, <1>2, <1>4 DEF ChainInv

\* A step that adds no row, commits none and moves no cursor.
LEMMA QuietStep ==
    ASSUME ChainInv, ChainTypeOK', LocksHeld', UNCHANGED <<rows, written, nextSeq, cursor, seen>>,
           \A t \in Transactions : phase'[t] = "insert" => tip'[t] = LastHash(ViewOf(t, want'[t]))
    PROVE  ChainInv'
<1>1. NumbersGrow' /\ CursorsKeep'
  BY DEF ChainInv, NumbersGrow, CursorsKeep, Numbered, RowsOf
<1>2. \A c : RowsOf(rows, c)' = RowsOf(rows, c)
  BY DEF RowsOf
<1>3. \A t \in Transactions, c \in Chains : ViewOf(t, c)' = ViewOf(t, c)
  BY DEF ViewOf, RowsOf
<1>4. \A t \in Transactions : phase'[t] = "insert" => tip'[t] = LastHash(ViewOf(t, want[t]))'
  <2> SUFFICES ASSUME NEW t \in Transactions, phase'[t] = "insert"
               PROVE  tip'[t] = LastHash(ViewOf(t, want[t]))'
    OBVIOUS
  <2>1. ViewOf(t, want[t])' = ViewOf(t, want'[t])
    BY DEF ViewOf, RowsOf
  <2> QED BY <2>1 DEF LastHash, Newest
<1>5. \A c \in Chains : Good(RowsOf(rows, c))' /\ \A t \in Transactions : Good(ViewOf(t, c))'
  BY <1>2, <1>3 DEF ChainInv, ViewsLinked
<1>6. ViewsLinked'
  BY <1>4, <1>5 DEF ViewsLinked
<1> QED BY <1>1, <1>6 DEF ChainInv

\* Opening a transaction, and asking for a lock.
LEMMA AskKeeps ==
    ASSUME ChainInv, NEW t \in Transactions,
           Begin(t) \/ (\E x \in Locks : phase[t] = "open" /\ Waits(t, x))
    PROVE  ChainInv'
<1>1. PICK p \in {"open", "wait"} :
         /\ phase' = [phase EXCEPT ![t] = p]
         /\ UNCHANGED <<rows, written, nextSeq, held, tip, cursor, seen>>
         /\ \/ p = "open" /\ want' = want
            \/ p = "wait" /\ \E x \in Locks : want' = [want EXCEPT ![t] = x]
  BY DEF Begin, Waits
<1>2. ChainTypeOK'
  BY <1>1 DEF ChainInv, ChainTypeOK
<1>3. \A u \in Transactions : u # t => phase'[u] = phase[u] /\ want'[u] = want[u]
  BY <1>1 DEF ChainInv, ChainTypeOK
<1>4. phase'[t] = p /\ (p = "wait" => want'[t] \in Locks)
  BY <1>1 DEF ChainInv, ChainTypeOK
<1>5. LocksHeld'
  BY <1>1, <1>3, <1>4 DEF ChainInv, LocksHeld
<1>6. \A u \in Transactions : phase'[u] = "insert" => tip'[u] = LastHash(ViewOf(u, want'[u]))
  BY <1>1, <1>3, <1>4 DEF ChainInv, ViewsLinked
<1> QED BY <1>1, <1>2, <1>5, <1>6, QuietStep

\* The lock.
LEMMA TakeLockKeeps ==
    ASSUME ChainInv, NEW t \in Transactions, TakeLock(t)
    PROVE  ChainInv'
<1> DEFINE x == want[t]
           p == IF x \in Chains THEN "tip" ELSE "open"
<1>1. /\ phase[t] = "wait" /\ held[x] \in {t, Nobody} /\ x \in Locks
      /\ held' = [held EXCEPT ![x] = t] /\ phase' = [phase EXCEPT ![t] = p]
      /\ UNCHANGED <<rows, written, nextSeq, want, tip, cursor, seen>>
  BY DEF TakeLock, ChainInv, LocksHeld
<1>2. p \in {"tip", "open"} /\ (p = "tip" => x \in Chains)
  OBVIOUS
<1> HIDE DEF p
<1>3. ChainTypeOK'
  BY <1>1, <1>2 DEF ChainInv, ChainTypeOK
<1>4. \A u \in Transactions : u # t => phase'[u] = phase[u]
  BY <1>1 DEF ChainInv, ChainTypeOK
<1>5. \A y \in Locks, u \in Transactions : held[y] = u => held'[y] = u
  BY <1>1, ChainAssumption DEF ChainInv, ChainTypeOK
<1>6. phase'[t] = p /\ held'[x] = t
  BY <1>1 DEF ChainInv, ChainTypeOK
<1>7. \A u \in Transactions : \A row \in written[u] : row.chain \in Locks
  BY DEF ChainInv, ChainTypeOK, AuditRow, Locks
<1>8. ASSUME NEW u \in Transactions
      PROVE  /\ phase'[u] = "wait" => want'[u] \in Locks
             /\ phase'[u] \in {"tip", "insert"} => want'[u] \in Chains /\ held'[want'[u]] = u
             /\ \A row \in written'[u] : held'[row.chain] = u
  <2>1. \A row \in written'[u] : held'[row.chain] = u
    BY <1>1, <1>5, <1>7 DEF ChainInv, LocksHeld
  <2>2. CASE u = t
    BY <1>1, <1>2, <1>6, <2>1, <2>2
  <2>3. CASE u # t
    BY <1>1, <1>4, <1>5, <2>1, <2>3 DEF ChainInv, LocksHeld, Locks
  <2> QED BY <2>2, <2>3
<1>9. LocksHeld'
  BY <1>8 DEF LocksHeld
<1>10. \A u \in Transactions : phase'[u] = "insert" => tip'[u] = LastHash(ViewOf(u, want'[u]))
  BY <1>1, <1>2, <1>4, <1>6 DEF ChainInv, ViewsLinked
<1> QED BY <1>1, <1>3, <1>9, <1>10, QuietStep

\* The hash of the last row of a view is a hash.
LEMMA LastHashType ==
    ASSUME ChainInv, NEW S, S \subseteq AuditRow, Numbered(S, nextSeq)
    PROVE  LastHash(S) \in Hashes
<1>1. CASE S = {}
  BY <1>1 DEF LastHash, GENESIS_HASH, Hashes
<1>2. CASE S # {}
  <2>1. nextSeq \in Nat
    BY DEF ChainInv, ChainTypeOK
  <2>2. Newest(S) \in AuditRow
    BY <1>2, <2>1, NewestType
  <2> QED BY <1>2, <2>2 DEF LastHash, AuditRow
<1> QED BY <1>1, <1>2

\* The tip.
LEMMA ReadTipKeeps ==
    ASSUME ChainInv, NEW t \in Transactions, ReadTip(t)
    PROVE  ChainInv'
<1> DEFINE h == LastHash(ViewOf(t, want[t]))
<1>1. /\ phase[t] = "tip" /\ tip' = [tip EXCEPT ![t] = h]
      /\ phase' = [phase EXCEPT ![t] = "insert"]
      /\ UNCHANGED <<rows, written, nextSeq, held, want, cursor, seen>>
  BY DEF ReadTip, tip_hash, ViewOf
<1>2. h \in Hashes
  <2>1. ViewOf(t, want[t]) \subseteq AuditRow /\ Numbered(ViewOf(t, want[t]), nextSeq)
    BY DEF ChainInv, ChainTypeOK, ViewOf, RowsOf, NumbersGrow, Numbered
  <2> QED BY <2>1, LastHashType
<1>3. \A u \in Transactions : u # t => phase'[u] = phase[u] /\ tip'[u] = tip[u]
  BY <1>1 DEF ChainInv, ChainTypeOK
<1>4. phase'[t] = "insert" /\ tip'[t] = h
  BY <1>1 DEF ChainInv, ChainTypeOK
<1>5. ChainTypeOK'
  BY <1>1, <1>2 DEF ChainInv, ChainTypeOK
<1>6. LocksHeld'
  BY <1>1, <1>3, <1>4 DEF ChainInv, LocksHeld
<1>7. \A u \in Transactions : phase'[u] = "insert" => tip'[u] = LastHash(ViewOf(u, want'[u]))
  BY <1>1, <1>3, <1>4 DEF ChainInv, ViewsLinked
<1> QED BY <1>1, <1>5, <1>6, <1>7, QuietStep

\* A view of a chain is a finite set of numbered rows.
LEMMA ViewType ==
    ASSUME ChainInv, NEW t \in Transactions, NEW c \in Chains
    PROVE  /\ ViewOf(t, c) \subseteq AuditRow /\ IsFiniteSet(ViewOf(t, c))
           /\ Numbered(ViewOf(t, c), nextSeq) /\ RowsOf(rows, c) \subseteq ViewOf(t, c)
<1>1. IsFiniteSet(rows \cup written[t])
  BY FS_Union DEF ChainInv, ChainTypeOK
<1>2. ViewOf(t, c) \in SUBSET (rows \cup written[t])
  BY DEF ViewOf, RowsOf
<1>3. IsFiniteSet(ViewOf(t, c))
  BY <1>1, <1>2, FS_Subset
<1>4. Numbered(ViewOf(t, c), nextSeq)
  BY <1>2 DEF ChainInv, NumbersGrow, Numbered
<1> QED BY <1>2, <1>3, <1>4 DEF ChainInv, ChainTypeOK, ViewOf, RowsOf

\* A number is stored as a number.
LEMMA NumericIsNat ==
    ASSUME NEW c \in Chains, NEW v \in Nat
    PROVE  Numeric(c, v) \in Nat
<1>1. PICK g \in Nat \ {0} : g = Grain[c]
  BY ChainAssumption
<1>2. g \div 2 \in Nat
  BY <1>1
<1>3. PICK w \in Nat : w = v + g \div 2
  BY <1>2
<1>4. w \div g \in Nat
  BY <1>1, <1>3
<1>5. (w \div g) * g \in Nat
  BY <1>4
<1> QED BY <1>1, <1>3, <1>5 DEF Numeric

\* The insert.
LEMMA InsertKeeps ==
    ASSUME ChainInv, NEW t \in Transactions, InsertRow(t)
    PROVE  ChainInv'
<1> DEFINE c == want[t]
           n == [chain |-> c, seq |-> nextSeq, entry |-> t, value |-> Numeric(c, Value[t]),
                 prev |-> tip[t], hash |-> compute_row_hash(tip[t], t, Value[t])]
<1>1. /\ phase[t] = "insert" /\ written' = [written EXCEPT ![t] = written[t] \cup {n}]
      /\ nextSeq' = nextSeq + 1 /\ phase' = [phase EXCEPT ![t] = "open"]
      /\ UNCHANGED <<rows, held, want, tip, cursor, seen>>
  BY DEF InsertRow
<1>2. c \in Chains /\ held[c] = t /\ tip[t] = LastHash(ViewOf(t, c)) /\ nextSeq \in Nat \ {0}
  BY <1>1 DEF ChainInv, LocksHeld, ViewsLinked, ChainTypeOK
<1>3. n \in AuditRow
  <2>1. Value[t] \in Nat /\ Numeric(c, Value[t]) \in Nat
    BY <1>2, NumericIsNat, ChainAssumption
  <2>2. compute_row_hash(tip[t], t, Value[t]) \in Hashes
    BY <2>1 DEF compute_row_hash, Hashes, ChainInv, ChainTypeOK
  <2> QED BY <1>2, <2>1, <2>2 DEF AuditRow, ChainInv, ChainTypeOK
<1>4. n.chain = c /\ n.seq = nextSeq /\ n.prev = tip[t] /\ MadeBy(n)
  BY DEF MadeBy
<1> HIDE DEF n, c
<1>5. /\ written' \in [Transactions -> SUBSET AuditRow] /\ written'[t] = written[t] \cup {n}
      /\ \A u \in Transactions : u # t => written'[u] = written[u] /\ phase'[u] = phase[u]
      /\ phase'[t] = "open"
  BY <1>1, <1>3 DEF ChainInv, ChainTypeOK
<1>6. \A u \in Transactions : IsFiniteSet(written'[u])
  <2>1. IsFiniteSet(written[t] \cup {n})
    BY FS_AddElement DEF ChainInv, ChainTypeOK
  <2> QED BY <1>5, <2>1 DEF ChainInv, ChainTypeOK
<1>7. ChainTypeOK'
  <2>1. nextSeq' \in Nat \ {0}
    BY <1>1, <1>2
  <2> QED BY <1>1, <1>5, <1>6, <2>1 DEF ChainInv, ChainTypeOK
<1>8. LocksHeld'
  BY <1>1, <1>2, <1>4, <1>5 DEF ChainInv, LocksHeld
<1>9. NumbersGrow'
  <2>1. Numbered(rows, nextSeq') /\ \A u \in Transactions : Numbered(written'[u], nextSeq')
    BY <1>1, <1>2, <1>4, <1>5 DEF ChainInv, NumbersGrow, Numbered
  <2>2. \A u \in Transactions : \A row \in written'[u], q \in rows :
            q.chain = row.chain => q.seq < row.seq
    BY <1>4, <1>5 DEF ChainInv, NumbersGrow, Numbered
  <2>3. Numbered(rows, nextSeq)' /\ \A u \in Transactions : Numbered(written[u], nextSeq)'
    BY <1>1, <2>1 DEF Numbered
  <2> QED BY <1>1, <2>2, <2>3 DEF NumbersGrow
<1>10. CursorsKeep'
  BY <1>1 DEF ChainInv, CursorsKeep, RowsOf
<1>11. Good(ViewOf(t, c) \cup {n})
  <2>1. /\ IsFiniteSet(ViewOf(t, c)) /\ Numbered(ViewOf(t, c), nextSeq)
        /\ Linked(ViewOf(t, c)) /\ Ranked(ViewOf(t, c))
    BY <1>2, ViewType DEF ChainInv, ViewsLinked, Good
  <2>2. n.prev = LastHash(ViewOf(t, c)) /\ nextSeq \in Nat
    BY <1>2, <1>4
  <2> QED BY <1>4, <2>1, <2>2, AppendLinks DEF Good
<1>12. ASSUME NEW u \in Transactions, NEW d \in Chains PROVE Good(ViewOf(u, d)')
  <2>1. CASE u = t /\ d = c
    <3>1. ViewOf(u, d)' = ViewOf(t, c) \cup {n}
      BY <1>1, <1>4, <1>5, <2>1 DEF ViewOf, RowsOf
    <3> QED BY <1>11, <3>1
  <2>2. CASE ~(u = t /\ d = c)
    <3>1. ViewOf(u, d)' = ViewOf(u, d)
      BY <1>1, <1>4, <1>5, <2>2 DEF ViewOf, RowsOf
    <3> QED BY <3>1 DEF ChainInv, ViewsLinked
  <2> QED BY <2>1, <2>2
<1>13. ASSUME NEW u \in Transactions, phase'[u] = "insert"
       PROVE  tip'[u] = LastHash(ViewOf(u, want[u])')
  <2>1. u # t /\ phase[u] = "insert"
    BY <1>5, <1>13
  <2>2. ViewOf(u, want[u])' = ViewOf(u, want[u])
    BY <1>1, <1>5, <2>1 DEF ViewOf, RowsOf
  <2> QED BY <1>1, <2>1, <2>2 DEF ChainInv, ViewsLinked
<1>14. \A d \in Chains : Good(RowsOf(rows, d)')
  BY <1>1 DEF ChainInv, ViewsLinked, RowsOf
<1>15. ViewsLinked'
  BY <1>12, <1>13, <1>14 DEF ViewsLinked
<1> QED BY <1>7, <1>8, <1>9, <1>10, <1>15 DEF ChainInv

\* The end of a transaction: its locks are free, everybody else's are kept.
LEMMA EndKeeps ==
    ASSUME ChainInv, NEW t \in Transactions,
           Release(t), phase' = [phase EXCEPT ![t] = "done"],
           written' = [written EXCEPT ![t] = {}],
           rows' \in {rows, rows \cup written[t]},
           UNCHANGED <<nextSeq, want, tip, cursor, seen>>
    PROVE  ChainInv'
<1>1. /\ written'[t] = {} /\ phase'[t] = "done"
      /\ \A u \in Transactions : u # t => written'[u] = written[u] /\ phase'[u] = phase[u]
  BY DEF ChainInv, ChainTypeOK
<1>2. \A x \in Locks, u \in Transactions : u # t /\ held[x] = u => held'[x] = u
  BY DEF Release
<1>3. ChainTypeOK'
  <2>1. rows' \in SUBSET AuditRow /\ IsFiniteSet(rows')
    <3>1. IsFiniteSet(rows \cup written[t])
      BY FS_Union DEF ChainInv, ChainTypeOK
    <3> QED BY <3>1 DEF ChainInv, ChainTypeOK
  <2>2. held' \in [Locks -> Transactions \cup {Nobody}]
    BY DEF Release, ChainInv, ChainTypeOK
  <2>3. written' \in [Transactions -> SUBSET AuditRow] /\ \A u \in Transactions : IsFiniteSet(written'[u])
    BY <1>1, FS_EmptySet DEF ChainInv, ChainTypeOK
  <2> QED BY <2>1, <2>2, <2>3 DEF ChainInv, ChainTypeOK
<1>4. LocksHeld'
  <2>1. \A u \in Transactions : \A row \in written[u] : row.chain \in Locks
    BY DEF ChainInv, ChainTypeOK, AuditRow, Locks
  <2> QED BY <1>1, <1>2, <2>1 DEF ChainInv, LocksHeld, Locks
\* What another transaction has of a chain is not t's.
<1>5. ASSUME NEW u \in Transactions, u # t, NEW row \in written[u], NEW q \in written[t]
      PROVE  row.chain # q.chain
  BY <1>5 DEF ChainInv, LocksHeld
<1>6. NumbersGrow'
  <2>1. Numbered(rows', nextSeq) /\ \A u \in Transactions : Numbered(written'[u], nextSeq)
    BY <1>1 DEF ChainInv, NumbersGrow, Numbered
  <2>2. ASSUME NEW u \in Transactions, NEW row \in written'[u], NEW q \in rows',
               q.chain = row.chain
        PROVE  q.seq < row.seq
    BY <1>1, <1>5, <2>2 DEF ChainInv, NumbersGrow
  <2>3. Numbered(rows, nextSeq)' /\ \A u \in Transactions : Numbered(written[u], nextSeq)'
    BY <2>1 DEF Numbered
  <2> QED BY <2>2, <2>3 DEF NumbersGrow
<1>7. ASSUME NEW c \in Chains
      PROVE  RowsOf(rows, c)' \in {RowsOf(rows, c), ViewOf(t, c)}
  BY DEF RowsOf, ViewOf
<1>8. ASSUME NEW c \in Chains, NEW u \in Transactions, u # t
      PROVE  ViewOf(u, c)' \in {ViewOf(t, c), ViewOf(u, c)}
  <2>1. CASE RowsOf(written[u], c) = {}
    <3>1. ViewOf(u, c)' = RowsOf(rows, c)' /\ ViewOf(u, c) = RowsOf(rows, c)
      BY <1>1, <1>8, <2>1 DEF ViewOf, RowsOf
    <3> QED BY <1>7, <3>1
  <2>2. CASE RowsOf(written[u], c) # {}
    <3>1. RowsOf(written[t], c) = {}
      BY <1>5, <1>8, <2>2 DEF RowsOf
    <3> QED BY <1>1, <1>8, <3>1 DEF ViewOf, RowsOf
  <2> QED BY <2>1, <2>2
<1>9. \A c \in Chains : ViewOf(t, c)' = RowsOf(rows, c)'
  BY <1>1 DEF ViewOf, RowsOf
<1>10. \A c \in Chains : Good(RowsOf(rows, c)') /\ \A u \in Transactions : Good(ViewOf(u, c)')
  BY <1>7, <1>8, <1>9 DEF ChainInv, ViewsLinked
<1>11. ASSUME NEW u \in Transactions, phase'[u] = "insert"
       PROVE  tip'[u] = LastHash(ViewOf(u, want[u])')
  <2>1. u # t /\ phase[u] = "insert"
    BY <1>1, <1>11
  <2>2. want[u] \in Chains /\ held[want[u]] = u
    BY <2>1 DEF ChainInv, LocksHeld
  <2>3. RowsOf(written[t], want[u]) = {}
    BY <2>1, <2>2 DEF ChainInv, LocksHeld, RowsOf
  <2>4. ViewOf(u, want[u])' = ViewOf(u, want[u])
    BY <1>1, <2>1, <2>3 DEF ViewOf, RowsOf
  <2> QED BY <2>1, <2>4 DEF ChainInv, ViewsLinked
<1>12. ViewsLinked'
  BY <1>10, <1>11 DEF ViewsLinked
<1>13. CursorsKeep'
  <2> SUFFICES ASSUME NEW c \in Chains
               PROVE  /\ cursor[c] = 0 \/ \E row \in RowsOf(rows', c) : cursor[c] = row.seq
                      /\ \A row \in RowsOf(rows', c) : row.seq <= cursor[c] => row \in seen[c]
    BY DEF CursorsKeep, RowsOf
  <2>1. /\ cursor[c] = 0 \/ \E row \in RowsOf(rows, c) : cursor[c] = row.seq
        /\ \A row \in RowsOf(rows, c) : row.seq <= cursor[c] => row \in seen[c]
    BY DEF ChainInv, CursorsKeep
  <2>2. ASSUME NEW row \in RowsOf(written[t], c) PROVE ~(row.seq <= cursor[c])
    <3>1. row.seq \in Nat \ {0} /\ \A q \in RowsOf(rows, c) : q.seq \in Nat /\ q.seq < row.seq
      BY <2>2 DEF RowsOf, ChainInv, NumbersGrow, Numbered, ChainTypeOK, AuditRow
    <3> QED BY <2>1, <3>1
  <2> QED BY <2>1, <2>2 DEF RowsOf
<1> QED BY <1>3, <1>4, <1>6, <1>12, <1>13 DEF ChainInv

\* A page: nothing of the chain is passed over.
LEMMA PageKeeps ==
    ASSUME ChainInv, NEW c \in Chains, list_for_tenant_after(c)
    PROVE  ChainInv'
<1> DEFINE after == {row \in RowsOf(rows, c) : row.seq > cursor[c]}
           page == {row \in after : Cardinality(Before(after, row)) < PageSize}
<1>1. /\ page # {} /\ seen' = [seen EXCEPT ![c] = seen[c] \cup page]
      /\ cursor' = [cursor EXCEPT ![c] = Newest(page).seq]
      /\ UNCHANGED <<rows, written, nextSeq, held, phase, want, tip>>
  BY DEF list_for_tenant_after
<1>2. /\ page \subseteq RowsOf(rows, c) /\ page \subseteq AuditRow /\ after \subseteq AuditRow
      /\ Numbered(page, nextSeq) /\ nextSeq \in Nat /\ IsFiniteSet(after)
  <2>1. after \in SUBSET rows /\ page \in SUBSET rows /\ page \subseteq RowsOf(rows, c)
    BY DEF RowsOf
  <2>2. IsFiniteSet(after)
    BY <2>1, FS_Subset DEF ChainInv, ChainTypeOK
  <2> QED BY <2>1, <2>2 DEF ChainInv, ChainTypeOK, NumbersGrow, Numbered
<1>3. Newest(page) \in page /\ \A q \in page : q.seq <= Newest(page).seq
  BY <1>1, <1>2, NewestType
<1>4. ASSUME NEW row \in after, row.seq <= Newest(page).seq PROVE row \in page
  <2> DEFINE m == Newest(page)
  <2>1. m \in after /\ m \in page /\ row.seq \in Nat /\ m.seq \in Nat
    BY <1>2, <1>3 DEF AuditRow
  <2> HIDE DEF m
  <2>2. Before(after, row) \in SUBSET Before(after, m)
    <3>1. ASSUME NEW q \in Before(after, row) PROVE q \in after /\ q.seq < m.seq
      <4>1. q \in after /\ q.seq \in Nat /\ q.seq < row.seq
        BY <1>2 DEF Before, AuditRow
      <4> QED BY <1>4, <2>1, <4>1 DEF m
    <3> QED BY <3>1 DEF Before
  <2>3. Before(after, m) \in SUBSET after
    BY DEF Before
  <2>4. IsFiniteSet(Before(after, m))
    BY <1>2, <2>3, FS_Subset
  <2>5. /\ Cardinality(Before(after, row)) <= Cardinality(Before(after, m))
        /\ Cardinality(Before(after, row)) \in Nat /\ Cardinality(Before(after, m)) \in Nat
    BY <2>2, <2>4, FS_Subset, FS_CardinalityType
  <2> QED BY <2>1, <2>5, ChainAssumption
<1> HIDE DEF page, after
<1>5. /\ cursor'[c] = Newest(page).seq /\ seen'[c] = seen[c] \cup page
      /\ \A d \in Chains : d # c => cursor'[d] = cursor[d] /\ seen'[d] = seen[d]
      /\ Newest(page).seq \in Nat
  BY <1>1, <1>2, <1>3 DEF ChainInv, ChainTypeOK, AuditRow
<1>6. ChainTypeOK'
  BY <1>1, <1>2, <1>5 DEF ChainInv, ChainTypeOK
<1>7. CursorsKeep'
  <2>1. ASSUME NEW d \in Chains
        PROVE  /\ cursor'[d] = 0 \/ \E row \in RowsOf(rows, d) : cursor'[d] = row.seq
               /\ \A row \in RowsOf(rows, d) : row.seq <= cursor'[d] => row \in seen'[d]
    <3>1. CASE d # c
      BY <1>5, <3>1 DEF ChainInv, CursorsKeep
    <3>2. CASE d = c
      <4>1. \E row \in RowsOf(rows, c) : cursor'[c] = row.seq
        BY <1>2, <1>3, <1>5
      <4>2. ASSUME NEW row \in RowsOf(rows, c), row.seq <= cursor'[c] PROVE row \in seen'[c]
        <5>1. CASE row.seq <= cursor[c]
          BY <1>5, <5>1 DEF ChainInv, CursorsKeep
        <5>2. CASE ~(row.seq <= cursor[c])
          <6>1. row.seq \in Nat /\ cursor[c] \in Nat
            BY DEF ChainInv, ChainTypeOK, RowsOf, AuditRow
          <6>2. row \in after
            BY <5>2, <6>1 DEF after
          <6> QED BY <1>4, <1>5, <4>2, <6>2
        <5> QED BY <5>1, <5>2
      <4> QED BY <3>2, <4>1, <4>2
    <3> QED BY <3>1, <3>2
  <2>2. rows' = rows
    BY <1>1
  <2> QED BY <2>1, <2>2 DEF CursorsKeep, RowsOf
<1>8. LocksHeld' /\ NumbersGrow'
  BY <1>1 DEF ChainInv, LocksHeld, NumbersGrow, Numbered
<1>9. ViewsLinked'
  <2>1. \A d \in Chains : RowsOf(rows, d)' = RowsOf(rows, d)
    BY <1>1 DEF RowsOf
  <2>2. \A u \in Transactions, d \in Chains : ViewOf(u, d)' = ViewOf(u, d)
    BY <1>1 DEF ViewOf, RowsOf
  <2>3. \A u \in Transactions : ViewOf(u, want[u])' = ViewOf(u, want[u])
    BY <1>1 DEF ViewOf, RowsOf
  <2>4. \A d \in Chains : Good(RowsOf(rows, d)') /\ \A u \in Transactions : Good(ViewOf(u, d)')
    BY <2>1, <2>2 DEF ChainInv, ViewsLinked
  <2>5. \A u \in Transactions : phase'[u] = "insert" => tip'[u] = LastHash(ViewOf(u, want[u])')
    BY <1>1, <2>3 DEF ChainInv, ViewsLinked
  <2> QED BY <2>4, <2>5 DEF ViewsLinked
<1> QED BY <1>6, <1>7, <1>8, <1>9 DEF ChainInv

LEMMA ChainStep == ChainInv /\ [ChainNext]_chainVars => ChainInv'
<1> SUFFICES ASSUME ChainInv, [ChainNext]_chainVars PROVE ChainInv'
  OBVIOUS
<1>1. ASSUME NEW t \in Transactions, Begin(t) PROVE ChainInv'
  BY <1>1, AskKeeps
<1>2. ASSUME NEW t \in Transactions, NEW x \in Records, WriteRecord(t, x) PROVE ChainInv'
  BY <1>2, AskKeeps DEF WriteRecord, Locks
<1>3. ASSUME NEW t \in Transactions, NEW c \in Chains, append_history(t, c) PROVE ChainInv'
  BY <1>3, AskKeeps DEF append_history, Locks
<1>4. ASSUME NEW t \in Transactions, TakeLock(t) \/ ReadTip(t) \/ InsertRow(t) PROVE ChainInv'
  BY <1>4, TakeLockKeeps, ReadTipKeeps, InsertKeeps
<1>5. ASSUME NEW t \in Transactions, Commit(t) PROVE ChainInv'
  BY <1>5, EndKeeps DEF Commit
<1>6. ASSUME NEW t \in Transactions, Rollback(t) PROVE ChainInv'
  BY <1>6, EndKeeps DEF Rollback
<1>7. ASSUME NEW c \in Chains, list_for_tenant_after(c) PROVE ChainInv'
  BY <1>7, PageKeeps
<1>8. CASE UNCHANGED chainVars
  <2>1. UNCHANGED <<rows, written, nextSeq, held, phase, want, tip, cursor, seen>>
    BY <1>8 DEF chainVars
  <2>2. ChainTypeOK' /\ LocksHeld'
    BY <2>1 DEF ChainInv, ChainTypeOK, LocksHeld
  <2>3. \A t \in Transactions : phase'[t] = "insert" => tip'[t] = LastHash(ViewOf(t, want'[t]))
    BY <2>1 DEF ChainInv, ViewsLinked
  <2> QED BY <2>1, <2>2, <2>3, QuietStep
<1> QED BY <1>1, <1>2, <1>3, <1>4, <1>5, <1>6, <1>7, <1>8
        DEF ChainNext, TransactionStep, BreakDeadlock

\* A row that links is intact unless its number was rounded.
LEMMA IntactUnlessRounded ==
    ASSUME NEW S, Linked(S), NEW row \in S, row \in AuditRow
    PROVE  ~Intact(S, row) <=> Rounded(row)
<1>1. row.prev = LastHash(Before(S, row)) /\ MadeBy(row)
  BY DEF Linked
<1>2. PICK h, e, v, x : h = row.prev /\ e = row.entry /\ v = Value[row.entry] /\ x = row.value
  OBVIOUS
<1>3. h \in Hashes /\ e \in Transactions /\ v \in Nat /\ x \in Nat
  BY <1>2, ChainAssumption DEF AuditRow
<1>4. Append(h, <<e, v>>) = Append(h, <<e, x>>) <=> v = x
  <2>1. ASSUME Append(h, <<e, v>>) = Append(h, <<e, x>>) PROVE v = x
    <3>1. /\ Append(h, <<e, v>>)[Len(h) + 1] = <<e, v>>
          /\ Append(h, <<e, x>>)[Len(h) + 1] = <<e, x>>
      BY <1>3 DEF Hashes
    <3>2. <<e, v>> = <<e, x>>
      BY <2>1, <3>1
    <3> QED BY <3>2
  <2> QED BY <2>1
<1> QED BY <1>1, <1>2, <1>4 DEF Intact, Rounded, MadeBy, compute_row_hash

\* Verification stops at the first rounded number or not at all, and paging misses no
\* row (ReadersAreRight), for any numbers and columns and any interleaving of appends,
\* commits, rollbacks and deadlocks broken.
THEOREM ReadersStayRight == ChainSpec => []ReadersAreRight
<1>1. ChainInv => ReadersAreRight
  <2> SUFFICES ASSUME ChainInv PROVE ReadersAreRight
    OBVIOUS
  <2>1. ASSUME NEW c \in Chains
        PROVE  verify_chain(c) = FirstSeq({row \in RowsOf(rows, c) : Rounded(row)})
    <3>1. PICK S : S = RowsOf(rows, c)
      OBVIOUS
    <3>2. Linked(S) /\ S \subseteq AuditRow
      BY <3>1 DEF ChainInv, ChainTypeOK, ViewsLinked, Good, RowsOf
    <3>3. {row \in S : ~Intact(S, row)} = {row \in S : Rounded(row)}
      BY <3>2, IntactUnlessRounded
    <3> QED BY <3>1, <3>3 DEF verify_chain
  <2>2. PagesMissNothing
    BY DEF ChainInv, CursorsKeep, PagesMissNothing
  <2> QED BY <2>1, <2>2 DEF ReadersAreRight, ChainVerifies
<1> QED BY <1>1, ChainStart, ChainStep, PTL DEF ChainSpec

-----------------------------------------------------------------------------
(* Each chain is an append-only log *)

\* The row at a position is there and is the only one.
LEMMA RowAtIs ==
    ASSUME NEW S, Ranked(S), NEW i \in 1..Cardinality(S)
    PROVE  /\ AtPosition(S, RowAt(S, i), i)
           /\ \A q \in S : AtPosition(S, q, i) => q = RowAt(S, i)
<1>1. PICK row \in S : AtPosition(S, row, i) /\ \A q \in S : AtPosition(S, q, i) => q = row
  BY DEF Ranked
<1>2. RowAt(S, i) = row
  BY <1>1 DEF RowAt, AtPosition
<1> QED BY <1>1, <1>2

\* The entries of a set of rows in their order.
EntriesOf(S) == [i \in 1..Cardinality(S) |-> RowAt(S, i).entry]

\* Rows added above all others leave the positions of the others alone.
LEMMA EntriesGrow ==
    ASSUME NEW S \in SUBSET AuditRow, NEW T \in SUBSET AuditRow, IsFiniteSet(T), S \subseteq T,
           Ranked(S), Ranked(T), \A row \in T \ S, q \in S : q.seq < row.seq
    PROVE  /\ EntriesOf(S) \in Seq(Transactions) /\ EntriesOf(T) \in Seq(Transactions)
           /\ Len(EntriesOf(S)) <= Len(EntriesOf(T))
           /\ \A i \in 1..Len(EntriesOf(S)) : EntriesOf(S)[i] = EntriesOf(T)[i]
<1>1. IsFiniteSet(S) /\ Cardinality(S) <= Cardinality(T) /\ Cardinality(S) \in Nat
      /\ Cardinality(T) \in Nat
  BY FS_Subset, FS_CardinalityType
<1>2. \A i \in 1..Cardinality(S) : RowAt(S, i) \in S
  BY RowAtIs DEF AtPosition
<1>3. \A i \in 1..Cardinality(T) : RowAt(T, i) \in T
  BY RowAtIs DEF AtPosition
<1>4. EntriesOf(S) \in [1..Cardinality(S) -> Transactions]
  BY <1>2 DEF EntriesOf, AuditRow
<1>5. EntriesOf(T) \in [1..Cardinality(T) -> Transactions]
  BY <1>3 DEF EntriesOf, AuditRow
<1>6. /\ EntriesOf(S) \in Seq(Transactions) /\ Len(EntriesOf(S)) = Cardinality(S)
      /\ EntriesOf(T) \in Seq(Transactions) /\ Len(EntriesOf(T)) = Cardinality(T)
  BY <1>1, <1>4, <1>5
<1>7. ASSUME NEW i \in 1..Cardinality(S) PROVE RowAt(S, i) = RowAt(T, i)
  <2> DEFINE row == RowAt(S, i)
  <2>1. row \in S /\ Cardinality(Before(S, row)) = i - 1
    BY RowAtIs DEF AtPosition
  <2> HIDE DEF row
  <2>2. Before(T, row) = Before(S, row)
    <3>1. ASSUME NEW q \in T, q.seq < row.seq PROVE q \in S
      <4>1. q.seq \in Nat /\ row.seq \in Nat
        BY <2>1 DEF AuditRow
      <4> QED BY <2>1, <3>1, <4>1
    <3> QED BY <3>1 DEF Before
  <2>3. AtPosition(T, row, i) /\ i \in 1..Cardinality(T)
    BY <1>1, <2>1, <2>2 DEF AtPosition
  <2>4. row = RowAt(T, i)
    BY <2>1, <2>3, RowAtIs
  <2> QED BY <2>4 DEF row
<1>8. \A i \in 1..Cardinality(S) : EntriesOf(S)[i] = EntriesOf(T)[i]
  BY <1>1, <1>7 DEF EntriesOf
<1> QED BY <1>1, <1>6, <1>8

\* Only a commit changes a chain, and it adds the rows of its transaction at the end.
LEMMA LogGrows ==
    ASSUME ChainInv, [ChainNext]_chainVars, NEW c \in Chains
    PROVE  /\ RowsOf(rows', c) \in SUBSET AuditRow /\ IsFiniteSet(RowsOf(rows', c))
           /\ RowsOf(rows, c) \subseteq RowsOf(rows', c)
           /\ \A row \in RowsOf(rows', c) \ RowsOf(rows, c), q \in RowsOf(rows, c) : q.seq < row.seq
<1>1. rows' = rows \/ \E t \in Transactions : rows' = rows \cup written[t]
  BY DEF ChainNext, TransactionStep, Begin, WriteRecord, append_history, Waits, TakeLock, ReadTip,
         InsertRow, Commit, Rollback, BreakDeadlock, list_for_tenant_after, chainVars
<1>2. ChainTypeOK'
  BY ChainStep DEF ChainInv
<1>3. RowsOf(rows', c) \in SUBSET rows' /\ rows' \in SUBSET AuditRow /\ IsFiniteSet(rows')
  BY <1>2 DEF ChainTypeOK, RowsOf
<1>4. IsFiniteSet(RowsOf(rows', c))
  BY <1>3, FS_Subset
<1>5. RowsOf(rows, c) \subseteq RowsOf(rows', c)
  BY <1>1 DEF RowsOf
<1>6. \A row \in RowsOf(rows', c) \ RowsOf(rows, c), q \in RowsOf(rows, c) : q.seq < row.seq
  BY <1>1 DEF RowsOf, ChainInv, NumbersGrow
<1> QED BY <1>3, <1>4, <1>5, <1>6

\* A sequence that agrees with a longer one is its prefix.
LEMMA PrefixIs ==
    ASSUME NEW X, NEW s \in Seq(X), NEW u \in Seq(X), Len(s) <= Len(u),
           \A i \in 1..Len(s) : s[i] = u[i]
    PROVE  Log!IsPrefix(s, u)
<1>1. SubSeq(s, 1, Len(s)) = SubSeq(u, 1, Len(s))
  OBVIOUS
<1> QED BY <1>1 DEF Log!IsPrefix

\* Every chain implements AppendOnlyLog (ChainIsLog): however transactions interleave
\* and roll back, its committed entries only ever grow at their end.
THEOREM ChainsAreLogs == ChainSpec => ChainIsLog
<1>1. ChainInit => Log!LogInit
  <2> SUFFICES ASSUME ChainInit PROVE Log!LogInit
    OBVIOUS
  <2>1. ASSUME NEW c \in Chains PROVE LogOf(c) = <<>>
    <3>1. RowsOf(rows, c) = {} /\ Cardinality({}) = 0
      BY FS_EmptySet DEF ChainInit, RowsOf
    <3> QED BY <3>1 DEF LogOf
  <2> QED BY <2>1 DEF Log!LogInit
<1>2. ChainInv /\ ChainInv' /\ [ChainNext]_chainVars => [Log!Extend]_([c \in Chains |-> LogOf(c)])
  <2> SUFFICES ASSUME ChainInv, ChainInv', [ChainNext]_chainVars PROVE Log!Extend
    BY DEF Log!Extend
  <2>1. ASSUME NEW c \in Chains
        PROVE  LogOf(c)' \in Seq(Transactions) /\ Log!IsPrefix(LogOf(c), LogOf(c)')
    <3> DEFINE S == RowsOf(rows, c)
               T == RowsOf(rows', c)
    <3>1. /\ T \in SUBSET AuditRow /\ IsFiniteSet(T) /\ S \subseteq T
          /\ \A row \in T \ S, q \in S : q.seq < row.seq
      BY LogGrows
    <3>2. S \in SUBSET AuditRow /\ Ranked(S)
      BY <3>1 DEF ChainInv, ViewsLinked, Good
    <3>3. Ranked(T)
      BY DEF ChainInv, ViewsLinked, Good, RowsOf
    <3>4. LogOf(c) = EntriesOf(S) /\ LogOf(c)' = EntriesOf(T)
      BY DEF LogOf, EntriesOf, RowAt, Before, RowsOf
    <3> HIDE DEF S, T
    <3>5. /\ EntriesOf(S) \in Seq(Transactions) /\ EntriesOf(T) \in Seq(Transactions)
          /\ Len(EntriesOf(S)) <= Len(EntriesOf(T))
          /\ \A i \in 1..Len(EntriesOf(S)) : EntriesOf(S)[i] = EntriesOf(T)[i]
      BY <3>1, <3>2, <3>3, EntriesGrow
    <3>6. Log!IsPrefix(EntriesOf(S), EntriesOf(T))
      BY <3>5, PrefixIs
    <3> QED BY <3>4, <3>5, <3>6
  <2> QED BY <2>1 DEF Log!Extend
<1> QED BY <1>1, <1>2, ChainStart, ChainStep, PTL DEF ChainSpec, ChainIsLog, Log!LogSpec

-----------------------------------------------------------------------------
(* Facts about finite sets *)

\* A set without two different members.
LEMMA AtMostOneMember ==
    ASSUME NEW S, \A x, y \in S : x = y
    PROVE  IsFiniteSet(S) /\ Cardinality(S) <= 1
<1>1. CASE S = {}
  BY <1>1, FS_EmptySet
<1>2. CASE S # {}
  <2>1. PICK x \in S : TRUE
    BY <1>2
  <2>2. S = {x}
    BY <2>1
  <2>3. IsFiniteSet({x}) /\ Cardinality({x}) = 1
    BY FS_Singleton
  <2> QED BY <2>2, <2>3
<1> QED BY <1>1, <1>2

-----------------------------------------------------------------------------
(* Ingest: the same envelope, delivered often *)

ReqRecord ==
    [pc : {"check", "insert", "commit", "resolve", "link", "accepted", "dead", "recorded"},
     key : Keys, con : Contents]

IngestTypeOK ==
    /\ stored \in [Keys -> Contents \cup {NoPayload}]
    /\ arrived \in Seq(Keys)
    /\ links \in [Keys -> Nat] /\ automated \in [Keys -> Nat]
    /\ acked \subseteq Keys \X Contents
    /\ req \in [Emitters -> {Idle} \cup ReqRecord]

Accepting(e) == req[e].pc \in {"commit", "link", "accepted"}

\* Between its insert and its answer a request is alone with its key.
AcceptsAlone ==
    \A e, o \in Emitters :
        Accepting(e) /\ Accepting(o) /\ req[e].key = req[o].key => e = o

\* What a request knows of the tables at its next statement.
RequestsKnow ==
    \A e \in Emitters :
        /\ req[e].pc = "commit" => stored[req[e].key] = NoPayload
        /\ req[e].pc \in {"link", "accepted"} => stored[req[e].key] = req[e].con
        /\ req[e].pc = "link" => links[req[e].key] = 0
        /\ req[e].pc = "accepted" => links[req[e].key] = 1 /\ automated[req[e].key] = 0
        /\ req[e].pc = "recorded" =>
              stored[req[e].key] = req[e].con \/ <<req[e].key, req[e].con>> \in dlq

\* At most one link per event, and an evaluation only after it.
LinksCounted ==
    \A k \in Keys : /\ automated[k] <= links[k] /\ links[k] <= 1
                    /\ links[k] > 0 => stored[k] # NoPayload

IngestInv == IngestTypeOK /\ AcceptsAlone /\ RequestsKnow /\ LinksCounted /\ AckedIsRecorded

\* A request at work has a key and a payload.
LEMMA RequestAtWork ==
    ASSUME IngestTypeOK, NEW e \in Emitters, req[e].pc # "idle"
    PROVE  req[e] \in ReqRecord /\ req[e].key \in Keys /\ req[e].con \in Contents
BY DEF IngestTypeOK, ReqRecord, Idle

\* A request goes to its next statement.
LEMMA RequestMoves ==
    ASSUME IngestTypeOK, NEW e \in Emitters, req[e].pc # "idle",
           NEW p \in {"check", "insert", "commit", "resolve", "link", "accepted", "dead", "recorded"},
           GoTo(e, p)
    PROVE  \E c \in ReqRecord : /\ req' = [req EXCEPT ![e] = c]
                                /\ c.pc = p /\ c.key = req[e].key /\ c.con = req[e].con
<1> DEFINE c == [req[e] EXCEPT !.pc = p]
<1>1. req[e] \in ReqRecord
  BY RequestAtWork
<1>2. c \in ReqRecord /\ c.pc = p /\ c.key = req[e].key /\ c.con = req[e].con
  BY <1>1 DEF ReqRecord
<1>3. req' = [req EXCEPT ![e] = c]
  BY DEF GoTo
<1> HIDE DEF c
<1> QED BY <1>2, <1>3

\* The steps that write nothing: what they find decides where the request goes.
LEMMA IngestFrame ==
    ASSUME IngestInv, NEW e \in Emitters, NEW c \in {Idle} \cup ReqRecord,
           req' = [req EXCEPT ![e] = c], c.pc \notin {"link", "accepted"},
           UNCHANGED <<stored, arrived, links, dlq, acked, automated>>,
           c.pc = "commit" =>
               /\ stored[c.key] = NoPayload
               /\ \A o \in Emitters : ~(req[o].pc = "commit" /\ req[o].key = c.key),
           c.pc = "recorded" => stored[c.key] = c.con \/ <<c.key, c.con>> \in dlq
    PROVE  IngestInv'
<1>1. req'[e] = c /\ \A o \in Emitters : o # e => req'[o] = req[o]
  BY DEF IngestInv, IngestTypeOK
<1>2. IngestTypeOK'
  BY DEF IngestInv, IngestTypeOK
<1>3. AcceptsAlone'
  <2>1. ASSUME c.pc = "commit", NEW o \in Emitters, Accepting(o), req[o].key = c.key PROVE FALSE
    <3>1. req[o].pc # "commit" /\ stored[req[o].key] = NoPayload
      BY <2>1
    <3>2. stored[req[o].key] = req[o].con /\ req[o].con \in Contents
      BY <2>1, <3>1, RequestAtWork DEF IngestInv, RequestsKnow, Accepting
    <3> QED BY <3>1, <3>2, ForwardingAssumption
  <2> SUFFICES ASSUME NEW a \in Emitters, NEW o \in Emitters, Accepting(a)', Accepting(o)',
                      req'[a].key = req'[o].key
               PROVE  a = o
    BY DEF AcceptsAlone
  <2>2. CASE a # e /\ o # e
    BY <1>1, <2>2 DEF IngestInv, AcceptsAlone, Accepting
  <2>3. CASE a = e /\ o # e
    BY <1>1, <2>1, <2>3 DEF Accepting
  <2>4. CASE a # e /\ o = e
    BY <1>1, <2>1, <2>4 DEF Accepting
  <2> QED BY <2>2, <2>3, <2>4
<1>4. RequestsKnow'
  <2> SUFFICES ASSUME NEW o \in Emitters
               PROVE  /\ req'[o].pc = "commit" => stored[req'[o].key] = NoPayload
                      /\ req'[o].pc \in {"link", "accepted"} => stored[req'[o].key] = req'[o].con
                      /\ req'[o].pc = "link" => links[req'[o].key] = 0
                      /\ req'[o].pc = "accepted" =>
                            links[req'[o].key] = 1 /\ automated[req'[o].key] = 0
                      /\ req'[o].pc = "recorded" =>
                            stored[req'[o].key] = req'[o].con \/ <<req'[o].key, req'[o].con>> \in dlq
    BY DEF RequestsKnow
  <2>1. CASE o = e
    BY <1>1, <2>1
  <2>2. CASE o # e
    BY <1>1, <2>2 DEF IngestInv, RequestsKnow
  <2> QED BY <2>1, <2>2
<1>5. LinksCounted' /\ AckedIsRecorded'
  BY DEF IngestInv, LinksCounted, AckedIsRecorded
<1> QED BY <1>2, <1>3, <1>4, <1>5 DEF IngestInv

\* At the start nothing has arrived.
LEMMA IngestStart == ForwardingInit => IngestInv
<1> SUFFICES ASSUME ForwardingInit PROVE IngestInv
  OBVIOUS
<1>1. IngestTypeOK
  BY DEF ForwardingInit, IngestTypeOK
<1>2. \A e \in Emitters : req[e].pc = "idle"
  BY DEF ForwardingInit, Idle
<1>3. AcceptsAlone /\ RequestsKnow
  BY <1>2 DEF AcceptsAlone, RequestsKnow, Accepting
<1>4. LinksCounted /\ AckedIsRecorded
  BY DEF ForwardingInit, LinksCounted, AckedIsRecorded
<1> QED BY <1>1, <1>3, <1>4 DEF IngestInv

\* Every step of a request keeps IngestInv.
LEMMA IngestStep == ASSUME IngestInv, NEW e \in Emitters, Ingest(e) PROVE IngestInv'
<1>0. IngestTypeOK
  BY DEF IngestInv
<1>1. ASSUME NEW k \in Keys, NEW x \in Contents, NEW sound \in BOOLEAN, process_envelope(e, k, x, sound)
      PROVE  IngestInv'
  <2>1. PICK c : c = [pc |-> IF sound THEN "check" ELSE "dead", key |-> k, con |-> x]
    OBVIOUS
  <2>2. c \in ReqRecord /\ c.pc \in {"check", "dead"}
    BY <2>1 DEF ReqRecord
  <2>3. /\ req' = [req EXCEPT ![e] = c]
        /\ UNCHANGED <<stored, arrived, links, dlq, acked, automated>>
    BY <1>1, <2>1 DEF process_envelope
  <2> QED BY <2>2, <2>3, IngestFrame
\* A request that read the tables and goes on to p.
<1>2. ASSUME req[e].pc # "idle", NEW p \in {"insert", "commit", "resolve", "dead", "recorded"}, GoTo(e, p),
             UNCHANGED <<stored, arrived, links, dlq, acked, automated>>,
             p = "commit" =>
                 /\ stored[req[e].key] = NoPayload
                 /\ \A o \in Emitters : ~(req[o].pc = "commit" /\ req[o].key = req[e].key),
             p = "recorded" => stored[req[e].key] = req[e].con
      PROVE  IngestInv'
  <2>1. PICK c \in ReqRecord : /\ req' = [req EXCEPT ![e] = c]
                               /\ c.pc = p /\ c.key = req[e].key /\ c.con = req[e].con
    BY <1>0, <1>2, RequestMoves
  <2> QED BY <1>2, <2>1, IngestFrame
<1>3. CASE tenant_event_content_hash(e)
  <2>1. /\ req[e].pc # "idle" /\ UNCHANGED <<stored, arrived, links, dlq, acked, automated>>
        /\ GoTo(e, IF ~VisibleTo(req[e].con, req[e].key) THEN "insert"
                   ELSE IF stored[req[e].key] = req[e].con THEN "recorded" ELSE "dead")
    BY <1>3 DEF tenant_event_content_hash
  <2>2. CASE ~VisibleTo(req[e].con, req[e].key)
    BY <1>2, <2>1, <2>2
  <2>3. CASE VisibleTo(req[e].con, req[e].key) /\ stored[req[e].key] = req[e].con
    BY <1>2, <2>1, <2>3
  <2>4. CASE VisibleTo(req[e].con, req[e].key) /\ stored[req[e].key] # req[e].con
    BY <1>2, <2>1, <2>4
  <2> QED BY <2>2, <2>3, <2>4
<1>4. CASE insert_ingest_event(e)
  <2>1. CASE stored[req[e].key] = NoPayload
    BY <1>2, <1>4, <2>1 DEF insert_ingest_event
  <2>2. CASE stored[req[e].key] # NoPayload
    BY <1>2, <1>4, <2>2 DEF insert_ingest_event
  <2> QED BY <2>1, <2>2
<1>5. CASE privileged_event_content_hash(e)
  <2>1. CASE stored[req[e].key] = req[e].con
    BY <1>2, <1>5, <2>1 DEF privileged_event_content_hash
  <2>2. CASE stored[req[e].key] # req[e].con
    BY <1>2, <1>5, <2>2 DEF privileged_event_content_hash
  <2> QED BY <2>1, <2>2
<1>6. CASE IngestFails(e)
  <2>1. PICK c \in {Idle} : req' = [req EXCEPT ![e] = c]
    BY <1>6 DEF IngestFails
  <2>2. c.pc = "idle" /\ UNCHANGED <<stored, arrived, links, dlq, acked, automated>>
    BY <1>6 DEF IngestFails, Idle
  <2> QED BY <2>1, <2>2, IngestFrame
\* The steps that write: e keeps its key, the others are as they were.
<1>7. ASSUME req[e].pc # "idle", NEW p \in {"link", "accepted", "recorded"}, GoTo(e, p)
      PROVE  /\ req' \in [Emitters -> {Idle} \cup ReqRecord]
             /\ req'[e].pc = p /\ req'[e].key = req[e].key /\ req'[e].con = req[e].con
             /\ \A o \in Emitters : o # e => req'[o] = req[o]
  <2>1. PICK c \in ReqRecord : /\ req' = [req EXCEPT ![e] = c]
                               /\ c.pc = p /\ c.key = req[e].key /\ c.con = req[e].con
    BY <1>0, <1>7, RequestMoves
  <2> QED BY <1>0, <2>1 DEF IngestTypeOK
<1>8. CASE CommitEvent(e)
  <2>0. PICK k, x : k = req[e].key /\ x = req[e].con
    OBVIOUS
  <2>1. /\ req[e].pc = "commit" /\ stored' = [stored EXCEPT ![k] = x]
        /\ arrived' = (IF Contains(arrived, k) THEN arrived ELSE Append(arrived, k))
        /\ GoTo(e, "link") /\ UNCHANGED <<links, dlq, acked, automated>>
    BY <1>8, <2>0 DEF CommitEvent
  <2>2. k \in Keys /\ x \in Contents
    BY <1>0, <2>0, <2>1, RequestAtWork
  <2>3. /\ stored' \in [Keys -> Contents \cup {NoPayload}] /\ arrived' \in Seq(Keys)
        /\ stored'[k] = x /\ \A j \in Keys : j # k => stored'[j] = stored[j]
    BY <1>0, <2>1, <2>2 DEF IngestTypeOK
  <2>4. /\ req' \in [Emitters -> {Idle} \cup ReqRecord]
        /\ req'[e].pc = "link" /\ req'[e].key = k /\ req'[e].con = x
        /\ \A o \in Emitters : o # e => req'[o] = req[o]
    BY <1>7, <2>0, <2>1
  <2>5. stored[k] = NoPayload /\ links[k] = 0
    <3>1. stored[k] = NoPayload
      BY <2>0, <2>1 DEF IngestInv, RequestsKnow
    <3>2. links[k] \in Nat /\ ~(links[k] > 0)
      BY <1>0, <2>2, <3>1 DEF IngestInv, LinksCounted, IngestTypeOK
    <3> QED BY <3>1, <3>2
  <2>6. IngestTypeOK'
    BY <1>0, <2>1, <2>3, <2>4 DEF IngestTypeOK
  <2>7. AcceptsAlone'
    <3>1. \A o \in Emitters : Accepting(o)' => Accepting(o) /\ req'[o].key = req[o].key
      BY <2>0, <2>1, <2>4 DEF Accepting
    <3> QED BY <3>1 DEF IngestInv, AcceptsAlone
  <2>8. RequestsKnow'
    <3> SUFFICES ASSUME NEW o \in Emitters
                 PROVE  /\ req'[o].pc = "commit" => stored'[req'[o].key] = NoPayload
                        /\ req'[o].pc \in {"link", "accepted"} => stored'[req'[o].key] = req'[o].con
                        /\ req'[o].pc = "link" => links'[req'[o].key] = 0
                        /\ req'[o].pc = "accepted" =>
                              links'[req'[o].key] = 1 /\ automated'[req'[o].key] = 0
                        /\ req'[o].pc = "recorded" =>
                              \/ stored'[req'[o].key] = req'[o].con
                              \/ <<req'[o].key, req'[o].con>> \in dlq'
      BY DEF RequestsKnow
    <3>1. CASE o = e
      BY <2>1, <2>3, <2>4, <2>5, <3>1
    <3>2. CASE o # e /\ req[o].pc # "idle"
      <4>1. req'[o] = req[o] /\ req[o].key \in Keys /\ req[o].con \in Contents
        BY <1>0, <2>4, <3>2, RequestAtWork
      <4>2. CASE req[o].key # k
        BY <2>1, <2>3, <4>1, <4>2 DEF IngestInv, RequestsKnow
      <4>3. CASE req[o].key = k
        <5>1. ~Accepting(o)
          BY <2>0, <2>1, <3>2, <4>3 DEF IngestInv, AcceptsAlone, Accepting
        <5>2. stored[req[o].key] # req[o].con
          BY <2>5, <4>1, <4>3, ForwardingAssumption
        <5>3. req[o].pc = "recorded" => <<req[o].key, req[o].con>> \in dlq
          BY <5>2 DEF IngestInv, RequestsKnow
        <5> QED BY <2>1, <4>1, <5>1, <5>3 DEF Accepting
      <4> QED BY <4>2, <4>3
    <3>3. CASE o # e /\ req[o].pc = "idle"
      BY <2>4, <3>3
    <3> QED BY <3>1, <3>2, <3>3
  <2>9. LinksCounted'
    <3>1. \A j \in Keys : stored[j] # NoPayload => stored'[j] # NoPayload
      BY <2>3, <2>5
    <3> QED BY <2>1, <3>1 DEF IngestInv, LinksCounted
  <2>10. AckedIsRecorded'
    <3>1. ASSUME NEW a \in acked, stored[a[1]] = a[2], a \notin dlq PROVE stored'[a[1]] = a[2]
      <4>1. a[1] \in Keys /\ a[2] \in Contents
        BY <1>0 DEF IngestTypeOK
      <4>2. a[1] # k
        BY <2>5, <3>1, <4>1, ForwardingAssumption
      <4> QED BY <2>3, <3>1, <4>1, <4>2
    <3> QED BY <2>1, <3>1 DEF IngestInv, AckedIsRecorded
  <2> QED BY <2>6, <2>7, <2>8, <2>9, <2>10 DEF IngestInv
<1>9. CASE append_audit_link(e)
  <2>0. PICK k, x : k = req[e].key /\ x = req[e].con
    OBVIOUS
  <2>1. /\ req[e].pc = "link" /\ links' = [links EXCEPT ![k] = @ + 1]
        /\ GoTo(e, "accepted") /\ UNCHANGED <<stored, arrived, dlq, acked, automated>>
    BY <1>9, <2>0 DEF append_audit_link
  <2>2. k \in Keys /\ x \in Contents /\ links[k] = 0 /\ stored[k] = x /\ automated[k] = 0
    <3>1. k \in Keys /\ x \in Contents /\ links[k] = 0 /\ stored[k] = x
      BY <1>0, <2>0, <2>1, RequestAtWork DEF IngestInv, RequestsKnow
    <3>2. automated[k] \in Nat /\ automated[k] <= links[k]
      BY <1>0, <3>1 DEF IngestInv, LinksCounted, IngestTypeOK
    <3> QED BY <3>1, <3>2
  <2>3. links' \in [Keys -> Nat] /\ links'[k] = 1 /\ \A j \in Keys : j # k => links'[j] = links[j]
    BY <1>0, <2>1, <2>2 DEF IngestTypeOK
  <2>4. /\ req' \in [Emitters -> {Idle} \cup ReqRecord]
        /\ req'[e].pc = "accepted" /\ req'[e].key = k /\ req'[e].con = x
        /\ \A o \in Emitters : o # e => req'[o] = req[o]
    BY <1>7, <2>0, <2>1
  <2>5. IngestTypeOK'
    BY <1>0, <2>1, <2>3, <2>4 DEF IngestTypeOK
  <2>6. AcceptsAlone'
    <3>1. \A o \in Emitters : Accepting(o)' => Accepting(o) /\ req'[o].key = req[o].key
      BY <2>0, <2>1, <2>4 DEF Accepting
    <3> QED BY <3>1 DEF IngestInv, AcceptsAlone
  <2>7. RequestsKnow'
    <3> SUFFICES ASSUME NEW o \in Emitters
                 PROVE  /\ req'[o].pc = "commit" => stored'[req'[o].key] = NoPayload
                        /\ req'[o].pc \in {"link", "accepted"} => stored'[req'[o].key] = req'[o].con
                        /\ req'[o].pc = "link" => links'[req'[o].key] = 0
                        /\ req'[o].pc = "accepted" =>
                              links'[req'[o].key] = 1 /\ automated'[req'[o].key] = 0
                        /\ req'[o].pc = "recorded" =>
                              \/ stored'[req'[o].key] = req'[o].con
                              \/ <<req'[o].key, req'[o].con>> \in dlq'
      BY DEF RequestsKnow
    <3>1. CASE o = e
      BY <2>1, <2>2, <2>3, <2>4, <3>1
    <3>2. CASE o # e /\ Accepting(o)
      <4>1. req'[o] = req[o] /\ req[o].key \in Keys /\ req[o].key # k
        BY <1>0, <2>0, <2>1, <2>4, <3>2, RequestAtWork DEF IngestInv, AcceptsAlone, Accepting
      <4> QED BY <2>1, <2>3, <4>1 DEF IngestInv, RequestsKnow
    <3>3. CASE o # e /\ ~Accepting(o)
      BY <2>1, <2>4, <3>3 DEF IngestInv, RequestsKnow, Accepting
    <3> QED BY <3>1, <3>2, <3>3
  <2>8. LinksCounted'
    <3> SUFFICES ASSUME NEW j \in Keys
                 PROVE  /\ automated'[j] <= links'[j] /\ links'[j] <= 1
                        /\ links'[j] > 0 => stored'[j] # NoPayload
      BY DEF LinksCounted
    <3>1. CASE j = k
      BY <2>1, <2>2, <2>3, <3>1, ForwardingAssumption
    <3>2. CASE j # k
      BY <2>1, <2>3, <3>2 DEF IngestInv, LinksCounted
    <3> QED BY <3>1, <3>2
  <2>9. AckedIsRecorded'
    BY <2>1 DEF IngestInv, AckedIsRecorded
  <2> QED BY <2>5, <2>6, <2>7, <2>8, <2>9 DEF IngestInv
<1>10. CASE _dead_letter(e)
  <2>1. /\ req[e].pc = "dead" /\ dlq' = dlq \cup {<<req[e].key, req[e].con>>}
        /\ GoTo(e, "recorded") /\ UNCHANGED <<stored, arrived, links, acked, automated>>
    BY <1>10 DEF _dead_letter
  <2>2. /\ req' \in [Emitters -> {Idle} \cup ReqRecord]
        /\ req'[e].pc = "recorded" /\ req'[e].key = req[e].key /\ req'[e].con = req[e].con
        /\ \A o \in Emitters : o # e => req'[o] = req[o]
    BY <1>7, <2>1
  <2>3. IngestTypeOK'
    BY <1>0, <2>1, <2>2 DEF IngestTypeOK
  <2>4. AcceptsAlone'
    BY <2>2 DEF IngestInv, AcceptsAlone, Accepting
  <2>5. RequestsKnow'
    <3> SUFFICES ASSUME NEW o \in Emitters
                 PROVE  /\ req'[o].pc = "commit" => stored'[req'[o].key] = NoPayload
                        /\ req'[o].pc \in {"link", "accepted"} => stored'[req'[o].key] = req'[o].con
                        /\ req'[o].pc = "link" => links'[req'[o].key] = 0
                        /\ req'[o].pc = "accepted" =>
                              links'[req'[o].key] = 1 /\ automated'[req'[o].key] = 0
                        /\ req'[o].pc = "recorded" =>
                              \/ stored'[req'[o].key] = req'[o].con
                              \/ <<req'[o].key, req'[o].con>> \in dlq'
      BY DEF RequestsKnow
    <3>1. CASE o = e
      BY <2>1, <2>2, <3>1
    <3>2. CASE o # e
      BY <2>1, <2>2, <3>2 DEF IngestInv, RequestsKnow
    <3> QED BY <3>1, <3>2
  <2>6. LinksCounted' /\ AckedIsRecorded'
    BY <2>1 DEF IngestInv, LinksCounted, AckedIsRecorded
  <2> QED BY <2>3, <2>4, <2>5, <2>6 DEF IngestInv
<1>11. CASE ingest_event(e)
  <2>0. PICK k, x : k = req[e].key /\ x = req[e].con
    OBVIOUS
  <2>1. /\ req[e].pc \in {"accepted", "recorded"} /\ acked' = acked \cup {<<k, x>>}
        /\ automated' = (IF req[e].pc = "accepted"
                         THEN [automated EXCEPT ![k] = @ + 1] ELSE automated)
        /\ req' = [req EXCEPT ![e] = Idle]
        /\ UNCHANGED <<stored, arrived, links, dlq>>
    BY <1>11, <2>0 DEF ingest_event
  <2>2. /\ k \in Keys /\ x \in Contents /\ (stored[k] = x \/ <<k, x>> \in dlq)
        /\ req[e].pc = "accepted" => links[k] = 1 /\ automated[k] = 0
    BY <1>0, <2>0, <2>1, RequestAtWork DEF IngestInv, RequestsKnow
  <2>3. /\ req' \in [Emitters -> {Idle} \cup ReqRecord] /\ req'[e].pc = "idle"
        /\ \A o \in Emitters : o # e => req'[o] = req[o]
    BY <1>0, <2>1 DEF IngestTypeOK, Idle
  <2>4. /\ automated' \in [Keys -> Nat]
        /\ req[e].pc = "accepted" => automated'[k] = 1
        /\ req[e].pc # "accepted" => automated' = automated
        /\ \A j \in Keys : j # k => automated'[j] = automated[j]
    BY <1>0, <2>1, <2>2 DEF IngestTypeOK
  <2>5. IngestTypeOK'
    BY <1>0, <2>1, <2>2, <2>3, <2>4 DEF IngestTypeOK
  <2>6. AcceptsAlone'
    BY <2>3 DEF IngestInv, AcceptsAlone, Accepting
  <2>7. RequestsKnow'
    <3> SUFFICES ASSUME NEW o \in Emitters
                 PROVE  /\ req'[o].pc = "commit" => stored'[req'[o].key] = NoPayload
                        /\ req'[o].pc \in {"link", "accepted"} => stored'[req'[o].key] = req'[o].con
                        /\ req'[o].pc = "link" => links'[req'[o].key] = 0
                        /\ req'[o].pc = "accepted" =>
                              links'[req'[o].key] = 1 /\ automated'[req'[o].key] = 0
                        /\ req'[o].pc = "recorded" =>
                              \/ stored'[req'[o].key] = req'[o].con
                              \/ <<req'[o].key, req'[o].con>> \in dlq'
      BY DEF RequestsKnow
    <3>1. CASE o = e
      BY <2>3, <3>1
    <3>2. CASE o # e /\ req[o].pc = "accepted"
      <4>1. req'[o] = req[o] /\ req[o].key \in Keys
        BY <1>0, <2>3, <3>2, RequestAtWork
      <4>2. req[e].pc = "accepted" => req[o].key # k
        BY <2>0, <3>2 DEF IngestInv, AcceptsAlone, Accepting
      <4>3. automated'[req[o].key] = automated[req[o].key]
        BY <2>4, <4>1, <4>2
      <4> QED BY <2>1, <3>2, <4>1, <4>3 DEF IngestInv, RequestsKnow
    <3>3. CASE o # e /\ req[o].pc # "accepted"
      BY <2>1, <2>3, <3>3 DEF IngestInv, RequestsKnow
    <3> QED BY <3>1, <3>2, <3>3
  <2>8. LinksCounted'
    <3> SUFFICES ASSUME NEW j \in Keys
                 PROVE  /\ automated'[j] <= links'[j] /\ links'[j] <= 1
                        /\ links'[j] > 0 => stored'[j] # NoPayload
      BY DEF LinksCounted
    <3>1. CASE j = k /\ req[e].pc = "accepted"
      BY <2>1, <2>2, <2>4, <3>1 DEF IngestInv, LinksCounted
    <3>2. CASE j # k \/ req[e].pc # "accepted"
      BY <2>1, <2>4, <3>2 DEF IngestInv, LinksCounted
    <3> QED BY <3>1, <3>2
  <2>9. AckedIsRecorded'
    <3>1. ASSUME NEW a \in acked' PROVE stored[a[1]] = a[2] \/ a \in dlq
      <4>1. CASE a \in acked
        BY <4>1 DEF IngestInv, AckedIsRecorded
      <4>2. CASE a = <<k, x>>
        BY <2>2, <4>2
      <4> QED BY <2>1, <3>1, <4>1, <4>2
    <3> QED BY <2>1, <3>1 DEF AckedIsRecorded
  <2> QED BY <2>5, <2>6, <2>7, <2>8, <2>9 DEF IngestInv
<1> QED BY <1>1, <1>3, <1>4, <1>5, <1>6, <1>8, <1>9, <1>10, <1>11 DEF Ingest

\* What IngestInv says of the tables.
LEMMA IngestInvIdempotent == IngestInv => IngestIsIdempotent
<1> SUFFICES ASSUME IngestInv PROVE AcceptedOnlyOnce
  BY DEF IngestInv, IngestIsIdempotent
<1> SUFFICES ASSUME NEW k \in Keys
             PROVE  links[k] + Cardinality({e \in Emitters : req[e].pc = "link" /\ req[e].key = k}) <= 1
  BY DEF IngestInv, LinksCounted, AcceptedOnlyOnce
<1> DEFINE L == {e \in Emitters : req[e].pc = "link" /\ req[e].key = k}
<1>1. links[k] \in Nat /\ links[k] <= 1
  BY DEF IngestInv, IngestTypeOK, LinksCounted
<1>2. \A e, o \in L : e = o
  BY DEF IngestInv, AcceptsAlone, Accepting
<1>3. L # {} => links[k] = 0
  BY DEF IngestInv, RequestsKnow
<1> HIDE DEF L
<1>4. IsFiniteSet(L) /\ Cardinality(L) <= 1 /\ Cardinality(L) \in Nat
  BY <1>2, AtMostOneMember, FS_CardinalityType
<1>5. CASE L = {}
  <2>1. Cardinality(L) = 0
    BY <1>5, FS_EmptySet
  <2>2. links[k] + Cardinality(L) <= 1
    BY <1>1, <2>1
  <2> QED BY <2>2 DEF L
<1>6. CASE L # {}
  BY <1>3, <1>4, <1>6 DEF L
<1> QED BY <1>5, <1>6

-----------------------------------------------------------------------------
(* Booking: the drains, and Delta's handlers behind them *)

RowRecord == [at : Nat, key : Keys, tried : Nat]

PostRecord ==
    [pc : {"validate", "insert", "entries", "hooks", "letter"} \cup Answers,
     key : Events, valid : BOOLEAN, caller : Callers \cup {NoCaller}]

DrainTypeOK ==
    /\ fstatus \in [Keys -> {"none", "pending", "forwarded", "failed", "skipped"}]
    /\ tried \in [Keys -> Nat]
    /\ batch \in [Dispatchers -> SUBSET RowRecord]
    /\ dpc \in [Dispatchers -> {"idle", "row", "wait", "apply"}]
    /\ answer \in [Dispatchers -> {"none", "2xx", "4xx", "transient"}]

LedgerTypeOK ==
    /\ posting \in [Handlers -> {Free} \cup PostRecord]
    /\ legs \in [Events -> {0, 2}]

\* What Delta has of event k: booked and handed to the hooks, or a trace of why not.
Booked(k) == legs[k] = 2 /\ k \in Attempted
Traced(k) == k \in letters \cup logged \cup refused

\* A drain that waits or has an answer has a row, and the answer is true of its event.
AnswersTrue ==
    \A d \in Dispatchers :
        /\ dpc[d] \in {"wait", "apply"} => batch[d] # {}
        /\ dpc[d] = "apply" => /\ answer[d] # "none"
                               /\ answer[d] = "2xx" => Booked(RowOf(d).key)
                               /\ answer[d] = "4xx" => Traced(RowOf(d).key)

\* A handler with a caller works on the row that the caller waits for, and no other does.
CallersWait ==
    \A h \in Handlers : posting[h].pc # "free" /\ posting[h].caller # NoCaller =>
        /\ dpc[posting[h].caller] = "wait"
        /\ posting[h].key = RowOf(posting[h].caller).key
        /\ \A g \in Handlers :
              posting[g].pc # "free" /\ posting[g].caller = posting[h].caller => g = h

\* What a handler knows of the ledger at its next step.
HandlersKnow ==
    \A h \in Handlers :
        /\ posting[h].pc = "entries" =>
              /\ legs[posting[h].key] = 0
              /\ \A g \in Handlers :
                    posting[g].pc = "entries" /\ posting[g].key = posting[h].key => g = h
        /\ posting[h].pc = "hooks" => legs[posting[h].key] = 2
        /\ posting[h].pc = "200" => Booked(posting[h].key)
        /\ posting[h].pc \in {"401", "422"} => Traced(posting[h].key)

BookingInv ==
    /\ DrainTypeOK /\ LedgerTypeOK
    /\ AnswersTrue /\ CallersWait /\ HandlersKnow
    /\ ForwardedIsBooked /\ FailedIsTraceable

\* The row a drain is at is one of its batch.
LEMMA RowOfType ==
    ASSUME DrainTypeOK, NEW d \in Dispatchers, batch[d] # {}
    PROVE  RowOf(d) \in batch[d] /\ RowOf(d).key \in Keys /\ RowOf(d).tried \in Nat
<1> DEFINE places == {r.at : r \in batch[d]}
<1>1. \A r \in batch[d] : r.at \in Nat /\ r.key \in Keys /\ r.tried \in Nat
  BY DEF DrainTypeOK, RowRecord
<1>2. places \subseteq Nat /\ places # {}
  BY <1>1
<1>3. PICK n \in places : \A m \in places : n <= m
  BY <1>2, LeastNat
<1>4. \E r \in batch[d] : \A q \in batch[d] : r.at <= q.at
  BY <1>3
<1>5. RowOf(d) \in batch[d]
  BY <1>4 DEF RowOf
<1> QED BY <1>1, <1>5

\* It depends on the batch alone.
LEMMA RowOfSame ==
    ASSUME NEW d, batch'[d] = batch[d]
    PROVE  RowOf(d)' = RowOf(d)
BY DEF RowOf

\* A handler that is not idle has a key.
LEMMA HandlerAtWork ==
    ASSUME LedgerTypeOK, NEW h \in Handlers, posting[h].pc # "free"
    PROVE  /\ posting[h] \in PostRecord /\ posting[h].key \in Events /\ posting[h].valid \in BOOLEAN
           /\ posting[h].caller \in Callers \cup {NoCaller}
BY DEF LedgerTypeOK, PostRecord, Free

\* At the start nothing is claimed, posted or booked.
LEMMA BookingStart == ForwardingInit /\ LedgerInit => BookingInv
<1> SUFFICES ASSUME ForwardingInit, LedgerInit PROVE BookingInv
  OBVIOUS
<1>1. DrainTypeOK /\ LedgerTypeOK
  BY DEF ForwardingInit, LedgerInit, DrainTypeOK, LedgerTypeOK
<1>2. \A h \in Handlers : posting[h].pc = "free"
  BY DEF LedgerInit, Free
<1>3. CallersWait /\ HandlersKnow
  BY <1>2 DEF CallersWait, HandlersKnow, Answers
<1>4. AnswersTrue /\ ForwardedIsBooked /\ FailedIsTraceable
  BY DEF ForwardingInit, AnswersTrue, ForwardedIsBooked, FailedIsTraceable
<1> QED BY <1>1, <1>3, <1>4 DEF BookingInv

\* An accepted event is a pending row; the drains and Delta do not see it yet.
LEMMA IngestKeepsBooking ==
    ASSUME BookingInv, IngestTypeOK, NEW e \in Emitters, Ingest(e), UNCHANGED ledgerVars
    PROVE  BookingInv'
<1>1. UNCHANGED drains /\ UNCHANGED <<posting, legs, letters, logged, refused, evaluated, missed>>
  BY DEF Ingest, process_envelope, tenant_event_content_hash, insert_ingest_event, CommitEvent,
         privileged_event_content_hash, append_audit_link, _dead_letter, ingest_event, IngestFails,
         ledgerVars
<1>2. /\ tried' = tried
      /\ fstatus' = fstatus \/ \E k \in Keys : fstatus' = [fstatus EXCEPT ![k] = "pending"]
  <2>1. CASE CommitEvent(e)
    BY <2>1, RequestAtWork DEF CommitEvent
  <2>2. CASE ~CommitEvent(e)
    BY <2>2 DEF Ingest, process_envelope, tenant_event_content_hash, insert_ingest_event,
         privileged_event_content_hash, append_audit_link, _dead_letter, ingest_event, IngestFails,
         outboxRows
  <2> QED BY <2>1, <2>2
<1>3. \A d \in Dispatchers : RowOf(d)' = RowOf(d)
  BY <1>1, RowOfSame DEF drains
<1>4. DrainTypeOK' /\ LedgerTypeOK'
  BY <1>1, <1>2 DEF BookingInv, DrainTypeOK, LedgerTypeOK, drains
<1>5. AnswersTrue'
  BY <1>1, <1>3 DEF BookingInv, AnswersTrue, Booked, Traced, drains, Attempted
<1>6. CallersWait'
  <2>1. \A h \in Handlers : posting[h].pc # "free" /\ posting[h].caller # NoCaller =>
            posting[h].caller \in Dispatchers
    BY HandlerAtWork, BookingAssumption DEF BookingInv
  <2> QED BY <1>1, <1>3, <2>1 DEF BookingInv, CallersWait, drains
<1>7. HandlersKnow'
  BY <1>1 DEF BookingInv, HandlersKnow, Booked, Traced, Attempted
<1>8. \A k \in Keys : fstatus'[k] \in {fstatus[k], "pending"}
  BY <1>2 DEF BookingInv, DrainTypeOK
<1>9. ForwardedIsBooked' /\ FailedIsTraceable'
  BY <1>1, <1>2, <1>8 DEF BookingInv, ForwardedIsBooked, FailedIsTraceable, Attempted
<1> QED BY <1>4, <1>5, <1>6, <1>7, <1>9 DEF BookingInv

\* A handler's step that only adds to what Delta has keeps what the drains know.
LEMMA LedgerGrows ==
    ASSUME BookingInv, UNCHANGED <<fstatus, tried, drains>>,
           legs' \in [Events -> {0, 2}], \A k \in Events : legs[k] = 2 => legs'[k] = 2,
           letters \subseteq letters', logged \subseteq logged', refused \subseteq refused',
           Attempted \subseteq Attempted'
    PROVE  /\ DrainTypeOK' /\ AnswersTrue' /\ ForwardedIsBooked' /\ FailedIsTraceable'
           /\ \A d \in Dispatchers : RowOf(d)' = RowOf(d)
<1>1. \A d \in Dispatchers : RowOf(d)' = RowOf(d)
  BY RowOfSame DEF drains
<1>2. \A k \in Keys : (Booked(k) => Booked(k)') /\ (Traced(k) => Traced(k)')
  BY BookingAssumption DEF Booked, Traced
<1>3. DrainTypeOK'
  BY DEF BookingInv, DrainTypeOK, drains
<1>4. AnswersTrue'
  <2> SUFFICES ASSUME NEW d \in Dispatchers
               PROVE  /\ dpc[d] \in {"wait", "apply"} => batch[d] # {}
                      /\ dpc[d] = "apply" => /\ answer[d] # "none"
                                             /\ answer[d] = "2xx" => Booked(RowOf(d).key)'
                                             /\ answer[d] = "4xx" => Traced(RowOf(d).key)'
    BY DEF AnswersTrue, drains
  <2>1. dpc[d] = "apply" => RowOf(d).key \in Keys
    BY RowOfType DEF BookingInv, AnswersTrue
  <2>2. PICK k : k = RowOf(d).key
    OBVIOUS
  <2>3. RowOf(d).key' = k
    BY <1>1, <2>2
  <2>4. /\ dpc[d] = "apply" /\ answer[d] = "2xx" => Booked(k)'
        /\ dpc[d] = "apply" /\ answer[d] = "4xx" => Traced(k)'
    BY <1>2, <2>1, <2>2 DEF BookingInv, AnswersTrue
  <2>5. /\ dpc[d] = "apply" /\ answer[d] = "2xx" => Booked(RowOf(d).key)'
        /\ dpc[d] = "apply" /\ answer[d] = "4xx" => Traced(RowOf(d).key)'
    BY <2>3, <2>4 DEF Booked, Traced
  <2> QED BY <2>5 DEF BookingInv, AnswersTrue
<1>5. ForwardedIsBooked'
  BY BookingAssumption DEF BookingInv, ForwardedIsBooked
<1>6. FailedIsTraceable'
  BY BookingAssumption DEF BookingInv, FailedIsTraceable
<1> QED BY <1>1, <1>3, <1>4, <1>5, <1>6

\* A handler moves, the others stay.
LEMMA HandlerMoves ==
    ASSUME LedgerTypeOK, NEW h \in Handlers, posting[h].pc # "free",
           NEW p \in {"validate", "insert", "entries", "hooks", "letter"} \cup Answers, PostGoTo(h, p)
    PROVE  \E c \in PostRecord :
              /\ posting' = [posting EXCEPT ![h] = c]
              /\ c.pc = p /\ c.key = posting[h].key /\ c.caller = posting[h].caller
<1> DEFINE c == [posting[h] EXCEPT !.pc = p]
<1>1. posting[h] \in PostRecord
  BY HandlerAtWork
<1>2. c \in PostRecord /\ c.pc = p /\ c.key = posting[h].key /\ c.caller = posting[h].caller
  BY <1>1 DEF PostRecord
<1>3. posting' = [posting EXCEPT ![h] = c]
  BY DEF PostGoTo
<1> HIDE DEF c
<1> QED BY <1>2, <1>3

\* A step of handler h: it keeps its event and its caller, and the ledger only grows.
LEMMA HandlerFrame ==
    ASSUME BookingInv, NEW h \in Handlers, NEW c \in {Free} \cup PostRecord,
           posting' = [posting EXCEPT ![h] = c],
           c.pc # "free" =>
               posting[h].pc # "free" /\ c.key = posting[h].key /\ c.caller = posting[h].caller,
           UNCHANGED <<fstatus, tried, drains>>,
           legs' \in [Events -> {0, 2}], \A k \in Events : legs[k] = 2 => legs'[k] = 2,
           letters \subseteq letters', logged \subseteq logged', refused \subseteq refused',
           Attempted \subseteq Attempted',
           \A g \in Handlers : g # h /\ posting[g].pc = "entries" =>
               legs'[posting[g].key] = 0 /\ ~(c.pc = "entries" /\ c.key = posting[g].key),
           c.pc = "entries" => legs'[c.key] = 0,
           c.pc = "hooks" => legs'[c.key] = 2,
           c.pc = "200" => legs'[c.key] = 2 /\ c.key \in Attempted',
           c.pc \in {"401", "422"} => c.key \in letters' \cup logged' \cup refused'
    PROVE  BookingInv'
<1>1. posting'[h] = c /\ \A g \in Handlers : g # h => posting'[g] = posting[g]
  BY DEF BookingInv, LedgerTypeOK
<1>2. LedgerTypeOK'
  BY DEF BookingInv, LedgerTypeOK
<1>3. /\ DrainTypeOK' /\ AnswersTrue' /\ ForwardedIsBooked' /\ FailedIsTraceable'
      /\ \A d \in Dispatchers : RowOf(d)' = RowOf(d)
  BY LedgerGrows
<1>4. CallersWait'
  <2>1. \A g \in Handlers : posting'[g].pc # "free" =>
           /\ posting[g].pc # "free" /\ posting'[g].key = posting[g].key
           /\ posting'[g].caller = posting[g].caller
           /\ posting[g].caller # NoCaller => posting[g].caller \in Dispatchers
    BY <1>1, HandlerAtWork, BookingAssumption DEF BookingInv
  <2> SUFFICES ASSUME NEW g \in Handlers, posting'[g].pc # "free", posting'[g].caller # NoCaller
               PROVE  /\ dpc'[posting'[g].caller] = "wait"
                      /\ \A d \in Dispatchers : d = posting[g].caller => posting'[g].key = RowOf(d)'.key
                      /\ \A i \in Handlers : posting'[i].pc # "free"
                              /\ posting'[i].caller = posting'[g].caller => i = g
    <3>1. ASSUME NEW g \in Handlers, posting'[g].pc # "free", posting'[g].caller # NoCaller,
                 \A d \in Dispatchers : d = posting[g].caller => posting'[g].key = RowOf(d)'.key
          PROVE  posting'[g].key = RowOf(posting[g].caller)'.key
      <4>1. PICK d \in Dispatchers : d = posting[g].caller
        BY <2>1, <3>1
      <4>2. posting'[g].key = RowOf(d)'.key /\ d = posting'[g].caller
        BY <2>1, <3>1, <4>1
      <4> QED BY <4>2, <2>1, <3>1 DEF RowOf
    <3> QED BY <2>1, <3>1 DEF CallersWait, RowOf
  <2>2. dpc'[posting'[g].caller] = "wait"
    BY <2>1 DEF BookingInv, CallersWait, drains
  <2>3. ASSUME NEW d \in Dispatchers, d = posting[g].caller PROVE posting'[g].key = RowOf(d)'.key
    <3>1. posting[g].key = RowOf(d).key
      BY <2>1, <2>3 DEF BookingInv, CallersWait
    <3> QED BY <1>3, <2>1, <3>1
  <2> QED BY <2>1, <2>2, <2>3 DEF BookingInv, CallersWait
<1>5. HandlersKnow'
  <2> SUFFICES ASSUME NEW g \in Handlers
               PROVE  /\ posting'[g].pc = "entries" =>
                            /\ legs'[posting'[g].key] = 0
                            /\ \A i \in Handlers : posting'[i].pc = "entries"
                                    /\ posting'[i].key = posting'[g].key => i = g
                      /\ posting'[g].pc = "hooks" => legs'[posting'[g].key] = 2
                      /\ posting'[g].pc = "200" => legs'[posting'[g].key] = 2 /\ posting'[g].key \in Attempted'
                      /\ posting'[g].pc \in {"401", "422"} =>
                            posting'[g].key \in letters' \cup logged' \cup refused'
    BY DEF HandlersKnow, Booked, Traced
  <2>1. CASE g = h
    BY <1>1, <2>1
  <2>2. CASE g # h /\ posting[g].pc # "free"
    <3>1. posting'[g] = posting[g] /\ posting[g].key \in Events
      BY <1>1, <2>2, HandlerAtWork DEF BookingInv
    <3>2. posting[g].pc = "entries" => \A i \in Handlers : posting'[i].pc = "entries"
              /\ posting'[i].key = posting[g].key => i = g
      BY <1>1, <2>2 DEF BookingInv, HandlersKnow
    <3> QED BY <2>2, <3>1, <3>2 DEF BookingInv, HandlersKnow, Booked, Traced
  <2>3. CASE g # h /\ posting[g].pc = "free"
    BY <1>1, <2>3
  <2> QED BY <2>1, <2>2, <2>3
<1> QED BY <1>2, <1>3, <1>4, <1>5 DEF BookingInv

\* Every step of a handler of Delta keeps BookingInv.
LEMMA HandlerKeepsBooking ==
    ASSUME BookingInv, NEW h \in Handlers, HandlerStep(h)
    PROVE  BookingInv'
<1>0. /\ LedgerTypeOK /\ legs \in [Events -> {0, 2}]
      /\ UNCHANGED <<fstatus, tried, drains>>
  BY DEF BookingInv, LedgerTypeOK, HandlerStep, forwardingVars, outboxRows
<1>1. \A g \in Handlers : posting[g].pc = "entries" => legs[posting[g].key] = 0
  BY DEF BookingInv, HandlersKnow
\* The steps that leave the legs alone.
<1>2. ASSUME posting[h].pc # "free",
             NEW p \in {"insert", "entries", "hooks", "letter", "503", "422", "200"}, PostGoTo(h, p),
             legs' = legs, letters \subseteq letters', logged \subseteq logged', refused \subseteq refused',
             Attempted \subseteq Attempted',
             p = "entries" =>
                 /\ legs[posting[h].key] = 0
                 /\ \A g \in Handlers : ~(posting[g].pc = "entries" /\ posting[g].key = posting[h].key),
             p = "hooks" => legs[posting[h].key] = 2,
             p = "200" => legs[posting[h].key] = 2 /\ posting[h].key \in Attempted',
             p = "422" => posting[h].key \in letters' \cup logged' \cup refused'
      PROVE  BookingInv'
  <2>1. PICK c \in PostRecord : /\ posting' = [posting EXCEPT ![h] = c] /\ c.pc = p
                                /\ c.key = posting[h].key /\ c.caller = posting[h].caller
    BY <1>0, <1>2, HandlerMoves DEF Answers
  <2>2. legs' \in [Events -> {0, 2}] /\ \A k \in Events : legs[k] = 2 => legs'[k] = 2
    BY <1>0, <1>2
  <2>3. \A g \in Handlers : g # h /\ posting[g].pc = "entries" =>
            legs'[posting[g].key] = 0 /\ ~(c.pc = "entries" /\ c.key = posting[g].key)
    BY <1>1, <1>2, <2>1
  <2>4. /\ c.pc = "entries" => legs'[c.key] = 0
        /\ c.pc = "hooks" => legs'[c.key] = 2
        /\ c.pc = "200" => legs'[c.key] = 2 /\ c.key \in Attempted'
        /\ c.pc \in {"401", "422"} => c.key \in letters' \cup logged' \cup refused'
    BY <1>2, <2>1
  <2> QED BY <1>0, <1>2, <2>1, <2>2, <2>3, <2>4, HandlerFrame
<1>3. CASE build_usage_record(h)
  <2>1. CASE posting[h].valid
    BY <1>2, <1>3, <2>1 DEF build_usage_record, Attempted
  <2>2. CASE ~posting[h].valid
    BY <1>2, <1>3, <2>2 DEF build_usage_record, Attempted
  <2> QED BY <2>1, <2>2
<1>4. CASE append_transaction(h)
  <2>1. CASE legs[posting[h].key] = 0
    BY <1>2, <1>4, <2>1 DEF append_transaction, Attempted
  <2>2. CASE legs[posting[h].key] # 0
    <3>1. posting[h].pc = "insert"
      BY <1>4 DEF append_transaction
    <3>2. legs[posting[h].key] = 2
      BY <1>0, <2>2, <3>1, HandlerAtWork
    <3> QED BY <1>2, <1>4, <2>2, <3>1, <3>2 DEF append_transaction, Attempted
  <2> QED BY <2>1, <2>2
<1>5. CASE post_usage(h)
  <2>0. PICK k : k = posting[h].key
    OBVIOUS
  <2>1. /\ posting[h].pc = "entries" /\ legs' = [legs EXCEPT ![k] = @ + 2] /\ PostGoTo(h, "hooks")
        /\ UNCHANGED <<letters, logged, refused, evaluated, missed>>
    BY <1>5, <2>0 DEF post_usage
  <2>2. k \in Events /\ legs[k] = 0
    BY <1>0, <1>1, <2>0, <2>1, HandlerAtWork
  <2>3. /\ legs' \in [Events -> {0, 2}] /\ legs'[k] = 2
        /\ \A j \in Events : j # k => legs'[j] = legs[j]
    BY <1>0, <2>1, <2>2
  <2>4. PICK c \in PostRecord : /\ posting' = [posting EXCEPT ![h] = c] /\ c.pc = "hooks"
                                /\ c.key = posting[h].key /\ c.caller = posting[h].caller
    BY <1>0, <2>1, HandlerMoves DEF Answers
  <2>5. \A g \in Handlers : g # h /\ posting[g].pc = "entries" => legs'[posting[g].key] = 0
    <3> SUFFICES ASSUME NEW g \in Handlers, g # h, posting[g].pc = "entries"
                 PROVE  legs'[posting[g].key] = 0
      OBVIOUS
    <3>1. posting[g].key # k /\ posting[g].key \in Events
      BY <1>0, <2>0, <2>1, HandlerAtWork DEF BookingInv, HandlersKnow
    <3> QED BY <1>1, <2>3, <3>1
  <2>6. \A j \in Events : legs[j] = 2 => legs'[j] = 2
    BY <2>3
  <2> QED BY <1>0, <2>0, <2>1, <2>3, <2>4, <2>5, <2>6, HandlerFrame DEF Attempted
<1>6. CASE PostingFails(h)
  BY <1>2, <1>6 DEF PostingFails, Attempted
<1>7. CASE _dead_letter_or_503(h)
  BY <1>2, <1>7 DEF _dead_letter_or_503, Attempted
<1>8. CASE EvaluateHooks(h)
  <2>1. posting[h].pc = "hooks" /\ legs[posting[h].key] = 2
    BY <1>8 DEF EvaluateHooks, BookingInv, HandlersKnow
  <2> QED BY <1>2, <1>8, <2>1 DEF EvaluateHooks, Attempted
<1>9. CASE HandlerEnds(h)
  <2>1. PICK c \in {Free} : posting' = [posting EXCEPT ![h] = c]
    BY <1>9 DEF HandlerEnds
  <2>2. c.pc = "free" /\ UNCHANGED <<legs, letters, logged, refused, evaluated, missed>>
    BY <1>9 DEF HandlerEnds, Free
  <2> QED BY <1>0, <1>1, <2>1, <2>2, HandlerFrame DEF Attempted
<1> QED BY <1>3, <1>4, <1>5, <1>6, <1>7, <1>8, <1>9 DEF HandlerStep, Handle

\* A step of drain d after which no handler has d for its caller: some that had lose it.
LEMMA DrainFrame ==
    ASSUME BookingInv, NEW d \in Dispatchers, DrainTypeOK', UNCHANGED <<legs, letters, logged, refused, evaluated, missed>>,
           \A o \in Dispatchers : o # d =>
               dpc'[o] = dpc[o] /\ batch'[o] = batch[o] /\ answer'[o] = answer[o],
           dpc'[d] \in {"wait", "apply"} => batch'[d] # {},
           dpc'[d] = "apply" => /\ answer'[d] # "none"
                                /\ answer'[d] = "2xx" => Booked(RowOf(d).key)'
                                /\ answer'[d] = "4xx" => Traced(RowOf(d).key)',
           posting' \in [Handlers -> {Free} \cup PostRecord],
           \A h \in Handlers : posting'[h].pc # "free" =>
               /\ posting[h].pc = posting'[h].pc /\ posting[h].key = posting'[h].key
               /\ posting'[h].caller \in {posting[h].caller, NoCaller} /\ posting'[h].caller # d,
           ForwardedIsBooked', FailedIsTraceable'
    PROVE  BookingInv'
<1>1. LedgerTypeOK'
  BY DEF BookingInv, LedgerTypeOK
<1>2. \A o \in Dispatchers : o # d => RowOf(o)' = RowOf(o)
  BY RowOfSame
<1>3. AnswersTrue'
  <2> SUFFICES ASSUME NEW o \in Dispatchers
               PROVE  /\ dpc'[o] \in {"wait", "apply"} => batch'[o] # {}
                      /\ dpc'[o] = "apply" => /\ answer'[o] # "none"
                                              /\ answer'[o] = "2xx" => Booked(RowOf(o).key)'
                                              /\ answer'[o] = "4xx" => Traced(RowOf(o).key)'
    BY DEF AnswersTrue
  <2>1. CASE o = d
    BY <2>1
  <2>2. CASE o # d
    BY <1>2, <2>2 DEF BookingInv, AnswersTrue, Booked, Traced, Attempted
  <2> QED BY <2>1, <2>2
<1>4. CallersWait'
  <2> SUFFICES ASSUME NEW g \in Handlers, posting'[g].pc # "free", posting'[g].caller # NoCaller
               PROVE  \E o \in Dispatchers :
                         /\ o = posting'[g].caller /\ dpc'[o] = "wait" /\ posting'[g].key = RowOf(o)'.key
                         /\ \A i \in Handlers : posting'[i].pc # "free"
                                 /\ posting'[i].caller = posting'[g].caller => i = g
    BY DEF CallersWait
  <2>1. PICK o \in Dispatchers : o = posting'[g].caller /\ o = posting[g].caller /\ o # d
    BY HandlerAtWork, BookingAssumption DEF BookingInv
  <2>2. posting[g].pc # "free" /\ posting[g].caller # NoCaller
    BY <2>1, LedgerAssumption, BookingAssumption
  <2>3. dpc[o] = "wait" /\ posting[g].key = RowOf(o).key
    BY <2>1, <2>2 DEF BookingInv, CallersWait
  <2>4. dpc'[o] = "wait" /\ posting'[g].key = RowOf(o)'.key
    BY <1>2, <2>1, <2>3
  <2>5. \A i \in Handlers : posting'[i].pc # "free" /\ posting'[i].caller = posting'[g].caller => i = g
    BY <2>1, <2>2 DEF BookingInv, CallersWait
  <2> QED BY <2>1, <2>4, <2>5
<1>5. HandlersKnow'
  BY DEF BookingInv, HandlersKnow, Booked, Traced, Answers, Attempted
<1> QED BY <1>1, <1>3, <1>4, <1>5 DEF BookingInv

\* The UPDATE of a pending row keeps the outbox honest when the new state is.
LEMMA ApplyIsHonest ==
    ASSUME BookingInv, NEW k \in Keys, NEW s \in {"pending", "forwarded", "failed", "skipped"}, NEW n \in Nat,
           _apply(k, s, n), UNCHANGED <<legs, letters, logged, refused, evaluated, missed>>,
           s = "forwarded" => Booked(k),
           s = "failed" => Traced(k) \/ n >= MaxForwards
    PROVE  /\ ForwardedIsBooked' /\ FailedIsTraceable'
           /\ fstatus' \in [Keys -> {"none", "pending", "forwarded", "failed", "skipped"}]
           /\ tried' \in [Keys -> Nat]
<1>1. CASE fstatus[k] = "pending"
  <2>1. fstatus' = [fstatus EXCEPT ![k] = s] /\ tried' = [tried EXCEPT ![k] = n]
    BY <1>1 DEF _apply
  <2>2. /\ fstatus' \in [Keys -> {"none", "pending", "forwarded", "failed", "skipped"}]
        /\ tried' \in [Keys -> Nat]
        /\ fstatus'[k] = s /\ tried'[k] = n
        /\ \A j \in Keys : j # k => fstatus'[j] = fstatus[j] /\ tried'[j] = tried[j]
    BY <2>1 DEF BookingInv, DrainTypeOK
  <2>3. ForwardedIsBooked'
    <3> SUFFICES ASSUME NEW j \in Keys, fstatus'[j] = "forwarded"
                 PROVE  legs[j] = 2 /\ j \in Attempted
      BY DEF ForwardedIsBooked, Attempted
    <3>1. CASE j = k
      BY <2>2, <3>1 DEF Booked
    <3>2. CASE j # k
      BY <2>2, <3>2 DEF BookingInv, ForwardedIsBooked
    <3> QED BY <3>1, <3>2
  <2>4. FailedIsTraceable'
    <3> SUFFICES ASSUME NEW j \in Keys, fstatus'[j] = "failed"
                 PROVE  \/ legs[j] = 2 \/ j \in letters \cup logged
                        \/ tried'[j] >= MaxForwards \/ j \in refused
      BY DEF FailedIsTraceable
    <3>1. CASE j = k
      BY <2>2, <3>1 DEF Traced
    <3>2. CASE j # k
      BY <2>2, <3>2 DEF BookingInv, FailedIsTraceable
    <3> QED BY <3>1, <3>2
  <2> QED BY <2>2, <2>3, <2>4
<1>2. CASE fstatus[k] # "pending"
  <2>1. UNCHANGED <<fstatus, tried>>
    BY <1>2 DEF _apply, outboxRows
  <2> QED BY <2>1 DEF BookingInv, DrainTypeOK, ForwardedIsBooked, FailedIsTraceable, Attempted
<1> QED BY <1>1, <1>2

\* Nobody works for a drain that does not wait.
LEMMA NobodyWorksFor ==
    ASSUME BookingInv, NEW d \in Dispatchers, dpc[d] # "wait"
    PROVE  \A h \in Handlers : posting[h].pc # "free" => posting[h].caller # d
<1>1. d # NoCaller
  BY LedgerAssumption, BookingAssumption
<1> QED BY <1>1 DEF BookingInv, CallersWait

\* The steps of a drain by itself, between two POSTs.
LEMMA DrainAlone ==
    ASSUME BookingInv, IngestTypeOK, NEW d \in Dispatchers,
           _select_pending(d) \/ SkipRow(d) \/ _dispatch_row(d) \/ EndPass(d), UNCHANGED ledgerVars
    PROVE  BookingInv'
<1>0. /\ UNCHANGED <<posting, legs, letters, logged, refused, evaluated, missed>> /\ DrainTypeOK
      /\ posting \in [Handlers -> {Free} \cup PostRecord]
  BY DEF ledgerVars, BookingInv, LedgerTypeOK
<1>1. dpc[d] # "wait" /\ dpc'[d] # "apply" /\ dpc'[d] # "wait"
  BY DEF _select_pending, SkipRow, _dispatch_row, EndPass, BookingInv, DrainTypeOK
<1>2. \A h \in Handlers : posting[h].pc # "free" => posting[h].caller # d
  BY <1>1, NobodyWorksFor
\* It is enough that the step is typed, moves d only and leaves the outbox honest.
<1>3. ASSUME DrainTypeOK', ForwardedIsBooked', FailedIsTraceable',
             \A o \in Dispatchers : o # d =>
                 dpc'[o] = dpc[o] /\ batch'[o] = batch[o] /\ answer'[o] = answer[o]
      PROVE  BookingInv'
  BY <1>0, <1>1, <1>2, <1>3, DrainFrame
<1>4. CASE _select_pending(d)
  <2> DEFINE due == {i \in DOMAIN arrived : fstatus[arrived[i]] = "pending"}
             some == {i \in due : Cardinality({j \in due : j < i}) < Limit}
             taken == {[at |-> i, key |-> arrived[i], tried |-> tried[arrived[i]]] : i \in some}
  <2>1. /\ batch' = [batch EXCEPT ![d] = taken] /\ dpc' = [dpc EXCEPT ![d] = "row"]
        /\ UNCHANGED <<fstatus, tried, answer>>
    BY <1>4 DEF _select_pending, outboxRows
  <2>2. taken \subseteq RowRecord
    <3>1. \A i \in DOMAIN arrived : i \in Nat /\ arrived[i] \in Keys /\ tried[arrived[i]] \in Nat
      BY <1>0 DEF IngestTypeOK, DrainTypeOK
    <3>2. ASSUME NEW i \in some
          PROVE  [at |-> i, key |-> arrived[i], tried |-> tried[arrived[i]]] \in RowRecord
      <4>1. i \in DOMAIN arrived
        OBVIOUS
      <4> QED BY <3>1, <4>1 DEF RowRecord
    <3> HIDE DEF some
    <3> QED BY <3>2
  <2> HIDE DEF taken
  <2>3. DrainTypeOK'
    BY <1>0, <2>1, <2>2 DEF DrainTypeOK
  <2>4. \A o \in Dispatchers : o # d =>
            dpc'[o] = dpc[o] /\ batch'[o] = batch[o] /\ answer'[o] = answer[o]
    BY <1>0, <2>1 DEF DrainTypeOK
  <2>5. ForwardedIsBooked' /\ FailedIsTraceable'
    BY <1>0, <2>1 DEF BookingInv, ForwardedIsBooked, FailedIsTraceable, Attempted
  <2> QED BY <1>3, <2>3, <2>4, <2>5
<1>5. CASE SkipRow(d)
  <2>0. PICK r : r = RowOf(d)
    OBVIOUS
  <2>1. /\ batch[d] # {} /\ _apply(r.key, "skipped", r.tried)
        /\ batch' = [batch EXCEPT ![d] = @ \ {r}] /\ UNCHANGED <<dpc, answer>>
    BY <1>5, <2>0 DEF SkipRow, NextRow
  <2>2. r.key \in Keys /\ r.tried \in Nat
    BY <1>0, <2>0, <2>1, RowOfType
  <2>3. /\ ForwardedIsBooked' /\ FailedIsTraceable'
        /\ fstatus' \in [Keys -> {"none", "pending", "forwarded", "failed", "skipped"}]
        /\ tried' \in [Keys -> Nat]
    BY <1>0, <2>1, <2>2, ApplyIsHonest
  <2>4. DrainTypeOK'
    BY <1>0, <2>1, <2>3 DEF DrainTypeOK
  <2>5. \A o \in Dispatchers : o # d =>
            dpc'[o] = dpc[o] /\ batch'[o] = batch[o] /\ answer'[o] = answer[o]
    BY <1>0, <2>1 DEF DrainTypeOK
  <2> QED BY <1>3, <2>3, <2>4, <2>5
<1>6. CASE _dispatch_row(d)
  <2>0. PICK r : r = RowOf(d)
    OBVIOUS
  <2>1. /\ dpc[d] = "apply" /\ batch' = [batch EXCEPT ![d] = @ \ {r}]
        /\ answer' = [answer EXCEPT ![d] = "none"] /\ dpc' = [dpc EXCEPT ![d] = "row"]
    BY <1>6, <2>0 DEF _dispatch_row, NextRow
  <2>2. /\ answer[d] \in {"2xx", "4xx", "transient"} /\ r.key \in Keys /\ r.tried \in Nat
        /\ answer[d] = "2xx" => Booked(r.key)
        /\ answer[d] = "4xx" => Traced(r.key)
    BY <1>0, <2>0, <2>1, RowOfType DEF BookingInv, AnswersTrue, DrainTypeOK
  <2>3. /\ ForwardedIsBooked' /\ FailedIsTraceable'
        /\ fstatus' \in [Keys -> {"none", "pending", "forwarded", "failed", "skipped"}]
        /\ tried' \in [Keys -> Nat]
    <3>1. CASE answer[d] = "2xx"
      <4>1. _apply(r.key, "forwarded", r.tried)
        BY <1>6, <2>0, <3>1 DEF _dispatch_row
      <4> QED BY <1>0, <2>2, <3>1, <4>1, ApplyIsHonest
    <3>2. CASE answer[d] = "4xx"
      <4>1. _apply(r.key, "failed", r.tried)
        BY <1>6, <2>0, <3>2 DEF _dispatch_row
      <4> QED BY <1>0, <2>2, <3>2, <4>1, ApplyIsHonest
    <3>3. CASE answer[d] = "transient"
      <4>1. _record_transient(r.key, r.tried)
        BY <1>6, <2>0, <3>3 DEF _dispatch_row
      <4>2. CASE r.tried + 1 >= MaxForwards
        <5>1. _apply(r.key, "failed", r.tried + 1)
          BY <4>1, <4>2 DEF _record_transient
        <5> QED BY <1>0, <2>2, <4>2, <5>1, ApplyIsHonest
      <4>3. CASE ~(r.tried + 1 >= MaxForwards)
        <5>1. _apply(r.key, "pending", r.tried + 1)
          BY <4>1, <4>3 DEF _record_transient
        <5> QED BY <1>0, <2>2, <5>1, ApplyIsHonest
      <4> QED BY <4>2, <4>3
    <3> QED BY <2>2, <3>1, <3>2, <3>3
  <2>4. DrainTypeOK'
    BY <1>0, <2>1, <2>3 DEF DrainTypeOK
  <2>5. \A o \in Dispatchers : o # d =>
            dpc'[o] = dpc[o] /\ batch'[o] = batch[o] /\ answer'[o] = answer[o]
    BY <1>0, <2>1 DEF DrainTypeOK
  <2> QED BY <1>3, <2>3, <2>4, <2>5
<1>7. CASE EndPass(d)
  <2>1. dpc' = [dpc EXCEPT ![d] = "idle"] /\ UNCHANGED <<fstatus, tried, batch, answer>>
    BY <1>7 DEF EndPass, outboxRows
  <2>2. DrainTypeOK' /\ \A o \in Dispatchers : o # d =>
            dpc'[o] = dpc[o] /\ batch'[o] = batch[o] /\ answer'[o] = answer[o]
    BY <1>0, <2>1 DEF DrainTypeOK
  <2>3. ForwardedIsBooked' /\ FailedIsTraceable'
    BY <1>0, <2>1 DEF BookingInv, ForwardedIsBooked, FailedIsTraceable, Attempted
  <2> QED BY <1>3, <2>2, <2>3
<1> QED BY <1>4, <1>5, <1>6, <1>7

\* A drain posts its row: one free handler gets it, with d as its caller.
LEMMA PostKeepsBooking ==
    ASSUME BookingInv, NEW d \in Dispatchers, NEW h \in Handlers, PostToDelta(d, h)
    PROVE  BookingInv'
<1>0. PICK k, v, p, c : /\ k = RowOf(d).key /\ v = (stored[k] \notin BadUsage) /\ p \in {"validate", "401"}
                        /\ c = [pc |-> p, key |-> k, valid |-> v, caller |-> d]
                        /\ posting' = [posting EXCEPT ![h] = c]
                        /\ refused' = IF p = "401" THEN refused \cup {k} ELSE refused
  BY DEF PostToDelta, ingest_usage
<1>1. /\ dpc[d] = "row" /\ batch[d] # {} /\ dpc' = [dpc EXCEPT ![d] = "wait"]
      /\ UNCHANGED <<fstatus, tried, batch, answer>>
      /\ posting[h] = Free /\ UNCHANGED <<legs, letters, logged, evaluated, missed>>
  BY DEF PostToDelta, ingest_usage, SendRow, outboxRows
<1>2. /\ DrainTypeOK /\ LedgerTypeOK /\ d # NoCaller /\ d \in Callers /\ Keys = Events
  BY LedgerAssumption, BookingAssumption DEF BookingInv
<1>3. k \in Keys
  BY <1>0, <1>1, <1>2, RowOfType
<1>4. c \in PostRecord /\ c.pc = p /\ c.key = k /\ c.caller = d
  BY <1>0, <1>2, <1>3 DEF PostRecord, Answers
<1>5. posting'[h] = c /\ \A g \in Handlers : g # h => posting'[g] = posting[g]
  BY <1>0, <1>2 DEF LedgerTypeOK
<1>6. /\ dpc'[d] = "wait" /\ \A o \in Dispatchers : o # d => dpc'[o] = dpc[o]
      /\ \A o \in Dispatchers : RowOf(o)' = RowOf(o)
  BY <1>1, <1>2, RowOfSame DEF DrainTypeOK
<1>7. DrainTypeOK' /\ LedgerTypeOK'
  BY <1>0, <1>1, <1>2, <1>4 DEF DrainTypeOK, LedgerTypeOK
<1>8. AnswersTrue'
  <2> SUFFICES ASSUME NEW o \in Dispatchers
               PROVE  /\ dpc'[o] \in {"wait", "apply"} => batch'[o] # {}
                      /\ dpc'[o] = "apply" => /\ answer'[o] # "none"
                                              /\ answer'[o] = "2xx" => Booked(RowOf(o).key)'
                                              /\ answer'[o] = "4xx" => Traced(RowOf(o).key)'
    BY DEF AnswersTrue
  <2>1. CASE o = d
    BY <1>1, <1>6, <2>1
  <2>2. CASE o # d
    BY <1>0, <1>1, <1>6, <2>2 DEF BookingInv, AnswersTrue, Booked, Traced, Attempted
  <2> QED BY <2>1, <2>2
<1>9. CallersWait'
  <2> SUFFICES ASSUME NEW g \in Handlers, posting'[g].pc # "free", posting'[g].caller # NoCaller
               PROVE  \E o \in Dispatchers :
                         /\ o = posting'[g].caller /\ dpc'[o] = "wait" /\ posting'[g].key = RowOf(o)'.key
                         /\ \A i \in Handlers : posting'[i].pc # "free"
                                 /\ posting'[i].caller = posting'[g].caller => i = g
    BY DEF CallersWait
  <2>0. \A i \in Handlers : posting[i].pc # "free" => posting[i].caller # d
    BY <1>1, NobodyWorksFor
  <2>1. CASE g = h
    BY <1>0, <1>4, <1>5, <1>6, <2>0, <2>1
  <2>2. CASE g # h
    <3>1. posting'[g] = posting[g]
      BY <1>5, <2>2
    <3>2. PICK o \in Dispatchers : o = posting[g].caller
      BY <1>2, <3>1, HandlerAtWork, BookingAssumption
    <3>3. o # d /\ dpc[o] = "wait" /\ posting[g].key = RowOf(o).key
      BY <2>0, <3>1, <3>2 DEF BookingInv, CallersWait
    <3>4. \A i \in Handlers : posting'[i].pc # "free" /\ posting'[i].caller = posting[g].caller => i = g
      BY <1>4, <1>5, <3>1, <3>2, <3>3 DEF BookingInv, CallersWait
    <3> QED BY <1>6, <3>1, <3>2, <3>3, <3>4
  <2> QED BY <2>1, <2>2
<1>10. HandlersKnow'
  <2> SUFFICES ASSUME NEW g \in Handlers
               PROVE  /\ posting'[g].pc = "entries" =>
                            /\ legs'[posting'[g].key] = 0
                            /\ \A i \in Handlers : posting'[i].pc = "entries"
                                    /\ posting'[i].key = posting'[g].key => i = g
                      /\ posting'[g].pc = "hooks" => legs'[posting'[g].key] = 2
                      /\ posting'[g].pc = "200" => legs'[posting'[g].key] = 2 /\ posting'[g].key \in Attempted'
                      /\ posting'[g].pc \in {"401", "422"} =>
                            posting'[g].key \in letters' \cup logged' \cup refused'
    BY DEF HandlersKnow, Booked, Traced
  <2>1. CASE g = h
    BY <1>0, <1>4, <1>5, <2>1
  <2>2. CASE g # h
    BY <1>0, <1>1, <1>4, <1>5, <2>2 DEF BookingInv, HandlersKnow, Booked, Traced, Attempted
  <2> QED BY <2>1, <2>2
<1>11. ForwardedIsBooked' /\ FailedIsTraceable'
  BY <1>0, <1>1 DEF BookingInv, ForwardedIsBooked, FailedIsTraceable, Attempted
<1> QED BY <1>7, <1>8, <1>9, <1>10, <1>11 DEF BookingInv

\* Giving up on an answer leaves the handlers as they are, without their caller.
LEMMA AbandonedType ==
    ASSUME LedgerTypeOK, NEW d \in Dispatchers, posting' = Abandoned(d)
    PROVE  /\ posting' \in [Handlers -> {Free} \cup PostRecord]
           /\ \A h \in Handlers : posting'[h].pc # "free" =>
                 /\ posting[h].pc = posting'[h].pc /\ posting[h].key = posting'[h].key
                 /\ posting'[h].caller \in {posting[h].caller, NoCaller} /\ posting'[h].caller # d
<1>0. d # NoCaller
  BY LedgerAssumption, BookingAssumption
<1>1. ASSUME NEW h \in Handlers
      PROVE  /\ posting'[h] \in {Free} \cup PostRecord
             /\ posting'[h].pc # "free" =>
                 /\ posting[h].pc = posting'[h].pc /\ posting[h].key = posting'[h].key
                 /\ posting'[h].caller \in {posting[h].caller, NoCaller} /\ posting'[h].caller # d
  <2>1. CASE posting[h] # Free /\ posting[h].caller = d
    <3>1. posting'[h] = [posting[h] EXCEPT !.caller = NoCaller]
      BY <2>1 DEF Abandoned
    <3>2. posting[h] \in PostRecord
      BY <2>1 DEF LedgerTypeOK
    <3> QED BY <1>0, <3>1, <3>2 DEF PostRecord
  <2>2. CASE ~(posting[h] # Free /\ posting[h].caller = d)
    <3>1. posting'[h] = posting[h]
      BY <2>2 DEF Abandoned
    <3> QED BY <2>2, <3>1 DEF LedgerTypeOK, Free
  <2> QED BY <2>1, <2>2
<1>2. posting' = [h \in Handlers |-> posting'[h]]
  BY DEF Abandoned
<1> QED BY <1>1, <1>2

\* A drain takes its answer, gives up on it, or dies.
LEMMA AnswerKeepsBooking ==
    ASSUME BookingInv, NEW d \in Dispatchers,
           (\E h \in Handlers : TakeAnswer(d, h)) \/ PostTimesOut(d) \/ DrainDies(d)
    PROVE  BookingInv'
<1>0. DrainTypeOK /\ LedgerTypeOK /\ d # NoCaller
  BY LedgerAssumption, BookingAssumption DEF BookingInv
<1>1. UNCHANGED <<legs, letters, logged, refused, evaluated, missed, fstatus, tried>>
  BY DEF TakeAnswer, PostTimesOut, DrainDies, Answered, PassDies, outboxRows
<1>2. ForwardedIsBooked' /\ FailedIsTraceable'
  BY <1>1 DEF BookingInv, ForwardedIsBooked, FailedIsTraceable, Attempted
<1>3. ASSUME NEW a \in {"2xx", "4xx", "transient"}, Answered(d, a)
      PROVE  /\ DrainTypeOK' /\ dpc[d] = "wait" /\ dpc'[d] = "apply" /\ answer'[d] = a
             /\ batch' = batch /\ RowOf(d)' = RowOf(d) /\ batch[d] # {}
             /\ \A o \in Dispatchers : o # d => dpc'[o] = dpc[o] /\ batch'[o] = batch[o] /\ answer'[o] = answer[o]
  <2>1. /\ dpc[d] = "wait" /\ answer' = [answer EXCEPT ![d] = a] /\ dpc' = [dpc EXCEPT ![d] = "apply"]
        /\ batch' = batch
    BY <1>3 DEF Answered
  <2>2. DrainTypeOK'
    BY <1>0, <1>1, <2>1 DEF DrainTypeOK
  <2> QED BY <1>0, <2>1, <2>2, RowOfSame DEF DrainTypeOK, BookingInv, AnswersTrue
<1>4. ASSUME NEW h \in Handlers, TakeAnswer(d, h) PROVE BookingInv'
  <2>0. PICK k, a : k = RowOf(d).key /\ a = ClassOf(posting[h].pc)
    OBVIOUS
  <2>1. /\ posting[h].pc \in Answers /\ posting[h].caller = d /\ Answered(d, a)
        /\ posting' = [posting EXCEPT ![h] = Free]
    BY <1>4, <2>0 DEF TakeAnswer
  <2>2. posting[h].pc # "free" /\ posting[h].key = k
        /\ \A g \in Handlers : posting[g].pc # "free" /\ posting[g].caller = d => g = h
    BY <1>0, <2>0, <2>1 DEF BookingInv, CallersWait, Answers
  <2>3. /\ a \in {"2xx", "4xx", "transient"}
        /\ a = "2xx" => posting[h].pc = "200"
        /\ a = "4xx" => posting[h].pc \in {"401", "422"}
    BY <2>0, <2>1 DEF ClassOf, Answers
  <2>4. (a = "2xx" => Booked(k)) /\ (a = "4xx" => Traced(k))
    BY <2>2, <2>3 DEF BookingInv, HandlersKnow
  <2>5. /\ DrainTypeOK' /\ dpc[d] = "wait" /\ dpc'[d] = "apply" /\ answer'[d] = a
        /\ batch' = batch /\ RowOf(d)' = RowOf(d) /\ batch[d] # {}
        /\ \A o \in Dispatchers : o # d => dpc'[o] = dpc[o] /\ batch'[o] = batch[o] /\ answer'[o] = answer[o]
    BY <1>3, <2>1, <2>3
  <2>6. (a = "2xx" => Booked(RowOf(d).key)') /\ (a = "4xx" => Traced(RowOf(d).key)')
    BY <1>1, <2>0, <2>4, <2>5 DEF Booked, Traced, Attempted
  <2>7. /\ posting' \in [Handlers -> {Free} \cup PostRecord] /\ posting'[h].pc = "free"
        /\ \A g \in Handlers : g # h => posting'[g] = posting[g]
    BY <1>0, <2>1 DEF LedgerTypeOK, Free
  <2>8. \A g \in Handlers : posting'[g].pc # "free" =>
           /\ posting[g].pc = posting'[g].pc /\ posting[g].key = posting'[g].key
           /\ posting'[g].caller \in {posting[g].caller, NoCaller} /\ posting'[g].caller # d
    BY <2>2, <2>7
  <2> QED BY <1>1, <1>2, <2>3, <2>5, <2>6, <2>7, <2>8, DrainFrame
<1>5. CASE PostTimesOut(d)
  <2>1. Answered(d, "transient") /\ posting' = Abandoned(d)
    BY <1>5 DEF PostTimesOut
  <2>2. /\ DrainTypeOK' /\ dpc'[d] = "apply" /\ answer'[d] = "transient" /\ batch' = batch /\ batch[d] # {}
        /\ \A o \in Dispatchers : o # d => dpc'[o] = dpc[o] /\ batch'[o] = batch[o] /\ answer'[o] = answer[o]
    BY <1>3, <2>1
  <2> QED BY <1>0, <1>1, <1>2, <2>1, <2>2, AbandonedType, DrainFrame
<1>6. CASE DrainDies(d)
  <2>1. /\ dpc' = [dpc EXCEPT ![d] = "idle"] /\ batch' = [batch EXCEPT ![d] = {}]
        /\ answer' = [answer EXCEPT ![d] = "none"] /\ posting' = Abandoned(d)
    BY <1>6 DEF DrainDies, PassDies
  <2>2. /\ DrainTypeOK' /\ dpc'[d] = "idle"
        /\ \A o \in Dispatchers : o # d => dpc'[o] = dpc[o] /\ batch'[o] = batch[o] /\ answer'[o] = answer[o]
    BY <1>0, <1>1, <2>1 DEF DrainTypeOK
  <2> QED BY <1>0, <1>1, <1>2, <2>1, <2>2, AbandonedType, DrainFrame
<1> QED BY <1>4, <1>5, <1>6

\* Every step from the envelope to the ledger keeps both invariants.
LEMMA BookingStep ==
    IngestInv /\ BookingInv /\ [BookingNext]_bookingVars => (IngestInv /\ BookingInv)'
<1> SUFFICES ASSUME IngestInv, BookingInv, [BookingNext]_bookingVars PROVE IngestInv' /\ BookingInv'
  OBVIOUS
<1>0. IngestTypeOK
  BY DEF IngestInv
<1>1. ASSUME UNCHANGED ingest PROVE IngestInv'
  BY <1>1 DEF ingest, IngestInv, IngestTypeOK, AcceptsAlone, Accepting, RequestsKnow, LinksCounted, AckedIsRecorded
<1>2. ASSUME NEW e \in Emitters, Ingest(e), UNCHANGED ledgerVars PROVE IngestInv' /\ BookingInv'
  BY <1>0, <1>2, IngestStep, IngestKeepsBooking
<1>3. ASSUME NEW d \in Dispatchers, DispatcherStep(d) \/ DrainDies(d) PROVE UNCHANGED ingest
  BY <1>3 DEF DispatcherStep, PassStep, DrainDies, PassDies, _select_pending, SkipRow, _dispatch_row, EndPass,
              PostToDelta, SendRow, TakeAnswer, PostTimesOut, Answered
<1>4. ASSUME NEW d \in Dispatchers, DispatcherStep(d) \/ DrainDies(d) PROVE BookingInv'
  BY <1>0, <1>4, DrainAlone, PostKeepsBooking, AnswerKeepsBooking DEF DispatcherStep, PassStep
<1>5. ASSUME NEW h \in Handlers, HandlerStep(h) PROVE IngestInv' /\ BookingInv'
  BY <1>1, <1>5, HandlerKeepsBooking DEF HandlerStep, forwardingVars
<1>6. CASE UNCHANGED bookingVars
  <2>1. /\ UNCHANGED ingest /\ UNCHANGED <<fstatus, tried, drains>>
        /\ UNCHANGED <<posting, legs, letters, logged, refused, evaluated, missed>>
    BY <1>6 DEF bookingVars, forwardingVars, ledgerVars, outboxRows
  <2>2. /\ DrainTypeOK' /\ AnswersTrue' /\ ForwardedIsBooked' /\ FailedIsTraceable'
        /\ \A d \in Dispatchers : RowOf(d)' = RowOf(d)
    BY <2>1, LedgerGrows DEF BookingInv, LedgerTypeOK, Attempted
  <2>3. LedgerTypeOK' /\ HandlersKnow'
    BY <2>1 DEF BookingInv, LedgerTypeOK, HandlersKnow, Booked, Traced, Attempted
  <2>4. CallersWait'
    <3>1. \A h \in Handlers : posting[h].pc # "free" /\ posting[h].caller # NoCaller =>
              posting[h].caller \in Dispatchers
      BY HandlerAtWork, BookingAssumption DEF BookingInv
    <3> QED BY <2>1, <2>2, <3>1 DEF BookingInv, CallersWait, drains
  <2> QED BY <1>1, <2>1, <2>2, <2>3, <2>4 DEF BookingInv
<1> QED BY <1>1, <1>2, <1>3, <1>4, <1>5, <1>6 DEF BookingNext

\* Ingest and booking start and stay in their invariants.
LEMMA BookingInvariant == BookingSpec => [](IngestInv /\ BookingInv)
<1>1. BookingInit => IngestInv /\ BookingInv
  BY IngestStart, BookingStart DEF BookingInit
<1> QED BY <1>1, BookingStep, PTL DEF BookingSpec

\* For any number of emitters: however often an envelope is repeated, and wherever its
\* handling is cut short, it is answered only when it is recorded, and it is accepted and
\* linked at most once (process_envelope).
THEOREM EnvelopesAcceptedOnce == BookingSpec => []IngestIsIdempotent
BY BookingInvariant, IngestInvIdempotent, PTL

\* For any number of drains and handlers: whatever is repeated, lost, timed out or cut
\* short, an event is booked once, is called forwarded only when it is booked and was
\* handed to the budget engine and the kill-switch, which may have failed, and is called
\* failed only with a trace (dispatch_pending, post_usage).
THEOREM UsageStaysAccounted == BookingSpec => []UsageIsAccounted
<1>1. BookingInv => UsageIsAccounted
  BY DEF BookingInv, LedgerTypeOK, BookedOnce, UsageIsAccounted
<1> QED BY <1>1, BookingInvariant, PTL

-----------------------------------------------------------------------------
(* Counting the members of a set as one joins or leaves *)

Bit(b) == IF b THEN 1 ELSE 0

\* One member more or less in a subset of a finite set.
LEMMA OneMemberMoves ==
    ASSUME NEW P, IsFiniteSet(P), NEW S, S \subseteq P, NEW p \in P, NEW T, NEW joins \in BOOLEAN,
           T = IF joins THEN S \cup {p} ELSE S \ {p}
    PROVE  /\ Cardinality(S) \in Nat /\ Cardinality(T) \in Nat
           /\ Cardinality(T) = Cardinality(S) + Bit(joins) - Bit(p \in S)
<1>1. IsFiniteSet(S) /\ Cardinality(S) \in Nat
  BY FS_Subset, FS_CardinalityType
<1>2. CASE joins
  <2>1. Cardinality(S \cup {p}) = IF p \in S THEN Cardinality(S) ELSE Cardinality(S) + 1
    BY <1>1, FS_AddElement
  <2> QED BY <1>1, <1>2, <2>1 DEF Bit
<1>3. CASE ~joins
  <2>1. Cardinality(S \ {p}) = IF p \in S THEN Cardinality(S) - 1 ELSE Cardinality(S)
    BY <1>1, FS_RemoveElement
  <2>2. S \ {p} \subseteq P
    OBVIOUS
  <2>3. Cardinality(S \ {p}) \in Nat
    BY <2>2, FS_Subset, FS_CardinalityType
  <2> QED BY <1>1, <1>3, <2>1, <2>3 DEF Bit
<1> QED BY <1>2, <1>3

-----------------------------------------------------------------------------
(* Webhooks: reads, reclaims and posts *)

DeliveryRow == [status : {"none", "pending", "failed", "delivered", "dead_lettered"}, attempts : Nat]

\* A worker that has read a message, has loaded its configurations, works on one of them.
Reading == [pc : {"load", "claimed"}, msg : Candidates]
Loaded == [pc : {"next"}, msg : Candidates, todo : SUBSET Hooks]
Delivering == [pc : {"next", "dedup", "post", "sent", "failed"}, msg : Candidates,
               todo : SUBSET Hooks, hook : Hooks, attempt : Nat]
HookState == {AtRest} \cup Reading \cup Loaded \cup Delivering

WebhookTypeOK ==
    /\ entry \in [Candidates -> {"new", "pending", "acked"}]
    /\ reads \in [Candidates -> Nat]
    /\ delivery \in [Candidates -> [Hooks -> DeliveryRow]]
    /\ dispatcher \in [HookWorkers -> HookState]
    /\ received \in [Candidates -> [Hooks -> Nat]]
    /\ blind \in Nat /\ faults \in Nat
    /\ late \in [Candidates -> SUBSET HookWorkers]

\* Nobody has a message that was never read.
NewIsUntouched ==
    \A m \in Candidates : entry[m] = "new" =>
        /\ reads[m] = 0
        /\ \A c \in Hooks : received[m][c] = 0 /\ delivery[m][c].status = "none"
        /\ \A w \in HookWorkers : dispatcher[w].pc # "idle" => dispatcher[w].msg # m

\* A worker in state r has message m, and may still post it to c.
InHand(r, c) ==
    \/ r.pc \in {"next", "dedup", "post", "sent", "failed"} /\ c \in r.todo
    \/ r.pc \in {"dedup", "post"} /\ r.hook = c
MayPost(r, m, c) == r.pc # "idle" /\ r.msg = m /\ (r.pc = "load" \/ InHand(r, c))
HasClaimed(r, m) == r.pc = "claimed" /\ r.msg = m

Passes(m, c) == {w \in HookWorkers : MayPost(dispatcher[w], m, c)}
Claims(m) == {w \in HookWorkers : HasClaimed(dispatcher[w], m)}

ReadsAllowed == IF RetryMax > 1 THEN RetryMax - 1 ELSE 1

\* The lookups that did not see how often m was read; a step may only add to them.
Extra(m) == blind + Cardinality(late[m])
ExtrasGrow ==
    /\ blind' \in Nat /\ late' \in [Candidates -> SUBSET HookWorkers]
    /\ \A x \in Candidates : Extra(x)' \in Nat /\ Extra(x) <= Extra(x)'

\* A worker looks m up late only once: it has claimed m, m is acked and claimed no more.
LateOnce ==
    \A m \in Candidates : \A w \in late[m] : entry[m] = "acked" /\ ~HasClaimed(dispatcher[w], m)

\* Every post and every pass that may still post has a read of its own, and those that the
\* cap let through are as many as it allows.
PostsCounted ==
    \A m \in Candidates, c \in Hooks :
        /\ received[m][c] + Cardinality(Passes(m, c)) + Cardinality(Claims(m)) <= reads[m] + Extra(m)
        /\ received[m][c] + Cardinality(Passes(m, c)) <= ReadsAllowed + Extra(m)

\* A worker in state r delivers to matching hooks only, has an answer before it marks a row
\* delivered and, without faults, a row for each hook that is no longer in its hands.
WorkerFollows(r) ==
    /\ r \in Loaded \cup Delivering =>
          /\ r.todo \subseteq Matching(r.msg)
          /\ faults = 0 => \A c \in Matching(r.msg) :
                               InHand(r, c) \/ delivery[r.msg][c].status # "none"
    /\ r \in Delivering =>
          /\ r.hook \in Matching(r.msg) \ r.todo
          /\ r.pc = "sent" => <<r.msg, r.hook>> \in confirmed
          /\ r.pc = "post" => delivery[r.msg][r.hook].status # "none"

RowsFollow ==
    /\ \A w \in HookWorkers : WorkerFollows(dispatcher[w])
    /\ \A m \in Candidates, c \in Hooks : delivery[m][c].status # "none" => c \in Matching(m)

WebhookInv ==
    /\ WebhookTypeOK /\ NewIsUntouched /\ PostsCounted /\ RowsFollow
    /\ DeliveredIsConfirmed /\ AckedWasTried

\* The lookups are a number, and a step without one leaves it.
LEMMA ExtraIsNat ==
    ASSUME WebhookTypeOK, NEW m \in Candidates
    PROVE  blind \in Nat /\ Cardinality(late[m]) \in Nat /\ Extra(m) \in Nat
<1>1. late[m] \subseteq HookWorkers /\ blind \in Nat /\ IsFiniteSet(HookWorkers)
  BY WebhookAssumption DEF WebhookTypeOK
<1>2. Cardinality(late[m]) \in Nat
  BY <1>1, FS_Subset, FS_CardinalityType
<1> QED BY <1>1, <1>2 DEF Extra

LEMMA ExtrasStay ==
    ASSUME WebhookInv, UNCHANGED <<blind, late>>
    PROVE  ExtrasGrow
<1>1. WebhookTypeOK
  BY DEF WebhookInv
<1>2. ASSUME NEW x \in Candidates PROVE Extra(x)' \in Nat /\ Extra(x) <= Extra(x)'
  <2>1. Extra(x) \in Nat /\ Extra(x)' = Extra(x)
    BY <1>1, ExtraIsNat DEF Extra
  <2> QED BY <2>1
<1> QED BY <1>1, <1>2 DEF ExtrasGrow, WebhookTypeOK

\* At the start nothing is read, posted or acked.
LEMMA WebhookStart == WebhookInit => WebhookInv /\ LateOnce
<1> SUFFICES ASSUME WebhookInit PROVE WebhookInv /\ LateOnce
  OBVIOUS
<1> USE WebhookAssumption
<1>1. NoDelivery \in DeliveryRow /\ NoDelivery.status = "none" /\ AtRest.pc = "idle"
  BY DEF NoDelivery, DeliveryRow, AtRest
<1>2. /\ \A w \in HookWorkers : dispatcher[w] = AtRest /\ dispatcher[w].pc = "idle"
      /\ \A m \in Candidates, c \in Hooks : delivery[m][c].status = "none" /\ received[m][c] = 0
  BY <1>1 DEF WebhookInit
<1>3. WebhookTypeOK
  BY <1>1 DEF WebhookInit, WebhookTypeOK, HookState
<1>4. NewIsUntouched
  BY <1>2 DEF WebhookInit, NewIsUntouched
<1>5. ASSUME NEW m \in Candidates, NEW c \in Hooks
      PROVE  /\ received[m][c] + Cardinality(Passes(m, c)) + Cardinality(Claims(m)) <= reads[m] + Extra(m)
             /\ received[m][c] + Cardinality(Passes(m, c)) <= ReadsAllowed + Extra(m)
  <2>1. Passes(m, c) = {} /\ Claims(m) = {}
    BY <1>2 DEF Passes, Claims, MayPost, HasClaimed
  <2>2. Cardinality(Passes(m, c)) = 0 /\ Cardinality(Claims(m)) = 0
    BY <2>1, FS_EmptySet
  <2>3. ReadsAllowed \in Nat
    BY DEF ReadsAllowed
  <2>4. Extra(m) \in Nat
    BY <1>3, ExtraIsNat
  <2> QED BY <1>2, <2>2, <2>3, <2>4 DEF WebhookInit
<1>6. \A w \in HookWorkers : dispatcher[w] \notin Loaded \cup Delivering
  BY <1>2 DEF Loaded, Delivering
<1>7. RowsFollow
  BY <1>2, <1>6 DEF RowsFollow, WorkerFollows
<1>8. DeliveredIsConfirmed /\ AckedWasTried
  BY <1>2 DEF WebhookInit, DeliveredIsConfirmed, AckedWasTried
<1>9. LateOnce
  BY DEF WebhookInit, LateOnce
<1> QED BY <1>3, <1>4, <1>5, <1>7, <1>8, <1>9 DEF WebhookInv, PostsCounted

\* Worker w moves: it joins or leaves the passes and the claims, the others stay.
LEMMA WorkersCounted ==
    ASSUME dispatcher \in [HookWorkers -> HookState], NEW w \in HookWorkers, NEW r,
           dispatcher' = [dispatcher EXCEPT ![w] = r], NEW m, NEW c
    PROVE  /\ Cardinality(Passes(m, c)) \in Nat /\ Cardinality(Passes(m, c))' \in Nat
           /\ Cardinality(Claims(m)) \in Nat /\ Cardinality(Claims(m))' \in Nat
           /\ Cardinality(Passes(m, c))' =
                 Cardinality(Passes(m, c)) + Bit(MayPost(r, m, c)) - Bit(MayPost(dispatcher[w], m, c))
           /\ Cardinality(Claims(m))' =
                 Cardinality(Claims(m)) + Bit(HasClaimed(r, m)) - Bit(HasClaimed(dispatcher[w], m))
<1>1. dispatcher'[w] = r /\ \A o \in HookWorkers : o # w => dispatcher'[o] = dispatcher[o]
  OBVIOUS
<1>2. IsFiniteSet(HookWorkers)
  BY WebhookAssumption
<1>3. PICK S, T : S = Passes(m, c) /\ T = Passes(m, c)'
  OBVIOUS
<1>4. PICK j \in BOOLEAN : j = MayPost(r, m, c)
  BY DEF MayPost
<1>5. S \subseteq HookWorkers /\ T = IF j THEN S \cup {w} ELSE S \ {w}
  BY <1>1, <1>3, <1>4 DEF Passes
<1>6. /\ Cardinality(S) \in Nat /\ Cardinality(T) \in Nat
      /\ Cardinality(T) = Cardinality(S) + Bit(j) - Bit(w \in S)
  BY <1>2, <1>5, OneMemberMoves
<1>7. (w \in S) = MayPost(dispatcher[w], m, c)
  BY <1>3 DEF Passes, MayPost
<1>8. PICK U, V : U = Claims(m) /\ V = Claims(m)'
  OBVIOUS
<1>9. PICK k \in BOOLEAN : k = HasClaimed(r, m)
  BY DEF HasClaimed
<1>10. U \subseteq HookWorkers /\ V = IF k THEN U \cup {w} ELSE U \ {w}
  BY <1>1, <1>8, <1>9 DEF Claims
<1>11. /\ Cardinality(U) \in Nat /\ Cardinality(V) \in Nat
       /\ Cardinality(V) = Cardinality(U) + Bit(k) - Bit(w \in U)
  BY <1>2, <1>10, OneMemberMoves
<1>12. (w \in U) = HasClaimed(dispatcher[w], m)
  BY <1>8 DEF Claims, HasClaimed
<1>13. /\ Cardinality(Passes(m, c)) = Cardinality(S) /\ Cardinality(Passes(m, c))' = Cardinality(T)
       /\ Cardinality(Claims(m)) = Cardinality(U) /\ Cardinality(Claims(m))' = Cardinality(V)
  BY <1>3, <1>8
<1>14. /\ Bit(j) = Bit(MayPost(r, m, c)) /\ Bit(w \in S) = Bit(MayPost(dispatcher[w], m, c))
       /\ Bit(k) = Bit(HasClaimed(r, m)) /\ Bit(w \in U) = Bit(HasClaimed(dispatcher[w], m))
  BY <1>4, <1>7, <1>9, <1>12
<1> QED BY <1>6, <1>11, <1>13, <1>14

\* A step that reads nothing and posts nothing, and after which w may post no more than
\* before, leaves the counts within their bounds.
LEMMA QuietCount ==
    ASSUME WebhookTypeOK, PostsCounted, NEW w \in HookWorkers, NEW r,
           dispatcher' = [dispatcher EXCEPT ![w] = r], UNCHANGED <<reads, received>>,
           ExtrasGrow,
           \A m \in Candidates, c \in Hooks : MayPost(r, m, c) => MayPost(dispatcher[w], m, c),
           \A m \in Candidates : ~HasClaimed(r, m)
    PROVE  PostsCounted'
<1> SUFFICES ASSUME NEW m \in Candidates, NEW c \in Hooks
             PROVE  /\ received[m][c] + Cardinality(Passes(m, c))' + Cardinality(Claims(m))' <= reads[m] + Extra(m)'
                    /\ received[m][c] + Cardinality(Passes(m, c))' <= ReadsAllowed + Extra(m)'
  BY DEF PostsCounted
<1>1. /\ Cardinality(Passes(m, c)) \in Nat /\ Cardinality(Passes(m, c))' \in Nat
      /\ Cardinality(Claims(m)) \in Nat /\ Cardinality(Claims(m))' \in Nat
      /\ Cardinality(Passes(m, c))' <= Cardinality(Passes(m, c))
      /\ Cardinality(Claims(m))' <= Cardinality(Claims(m))
  <2>1. /\ Cardinality(Passes(m, c)) \in Nat /\ Cardinality(Passes(m, c))' \in Nat
        /\ Cardinality(Claims(m)) \in Nat /\ Cardinality(Claims(m))' \in Nat
        /\ Cardinality(Passes(m, c))' =
              Cardinality(Passes(m, c)) + Bit(MayPost(r, m, c)) - Bit(MayPost(dispatcher[w], m, c))
        /\ Cardinality(Claims(m))' =
              Cardinality(Claims(m)) + Bit(HasClaimed(r, m)) - Bit(HasClaimed(dispatcher[w], m))
    BY WorkersCounted DEF WebhookTypeOK
  <2>2. /\ Bit(MayPost(r, m, c)) \in 0..1 /\ Bit(MayPost(dispatcher[w], m, c)) \in 0..1
        /\ Bit(MayPost(r, m, c)) <= Bit(MayPost(dispatcher[w], m, c))
        /\ Bit(HasClaimed(r, m)) = 0 /\ Bit(HasClaimed(dispatcher[w], m)) \in 0..1
    BY DEF Bit
  <2> QED BY <2>1, <2>2
<1>2. received[m][c] \in Nat /\ reads[m] \in Nat /\ ReadsAllowed \in Nat
  BY WebhookAssumption DEF WebhookTypeOK, ReadsAllowed
<1>4. Extra(m) \in Nat /\ Extra(m)' \in Nat /\ Extra(m) <= Extra(m)'
  BY ExtraIsNat DEF ExtrasGrow
<1>3. /\ received[m][c] + Cardinality(Passes(m, c)) + Cardinality(Claims(m)) <= reads[m] + Extra(m)
      /\ received[m][c] + Cardinality(Passes(m, c)) <= ReadsAllowed + Extra(m)
  BY DEF PostsCounted
<1> QED BY <1>1, <1>2, <1>3, <1>4

\* Worker w moves to state r and works on message m alone: what is left to show is that it
\* keeps within the counts, that it follows the rows, and that an ack left no match out.
LEMMA WorkerMoves ==
    ASSUME WebhookInv, NEW w \in HookWorkers, NEW r \in HookState, NEW m \in Candidates,
           dispatcher' = [dispatcher EXCEPT ![w] = r], r.pc # "idle" => r.msg = m,
           WebhookTypeOK', PostsCounted', WorkerFollows(r)', entry'[m] # "new",
           \A x \in Candidates : x # m => /\ entry'[x] = entry[x] /\ reads'[x] = reads[x]
                                         /\ delivery'[x] = delivery[x] /\ received'[x] = received[x],
           \A c \in Hooks :
              /\ delivery[m][c].status # "none" => delivery'[m][c].status # "none"
              /\ delivery'[m][c].status # "none" => c \in Matching(m)
              /\ delivery'[m][c].status = "delivered" => <<m, c>> \in confirmed',
           confirmed \subseteq confirmed', capped \subseteq capped', unread \subseteq unread',
           faults' = 0 => faults = 0,
           entry'[m] = "acked" =>
              \/ entry[m] = "acked" \/ m \in capped' \/ m \in unread' \/ faults' # 0
              \/ \A c \in Matching(m) : delivery'[m][c].status # "none"
    PROVE  WebhookInv'
<1>0. WebhookTypeOK
  BY DEF WebhookInv
<1>1. dispatcher'[w] = r /\ \A o \in HookWorkers : o # w => dispatcher'[o] = dispatcher[o]
  BY <1>0 DEF WebhookTypeOK
<1>2. \A x \in Candidates, c \in Hooks :
         /\ delivery[x][c].status # "none" => delivery'[x][c].status # "none"
         /\ delivery'[x][c].status # "none" => c \in Matching(x)
         /\ delivery'[x][c].status = "delivered" => <<x, c>> \in confirmed'
  <2> TAKE x \in Candidates, c \in Hooks
  <2>1. CASE x = m
    BY <2>1
  <2>2. CASE x # m
    BY <2>2 DEF WebhookInv, RowsFollow, DeliveredIsConfirmed
  <2> QED BY <2>1, <2>2
<1>3. NewIsUntouched'
  <2> SUFFICES ASSUME NEW x \in Candidates, entry'[x] = "new"
               PROVE  /\ reads'[x] = 0
                      /\ \A c \in Hooks : received'[x][c] = 0 /\ delivery'[x][c].status = "none"
                      /\ \A o \in HookWorkers : dispatcher'[o].pc # "idle" => dispatcher'[o].msg # x
    BY DEF NewIsUntouched
  <2>1. x # m /\ entry[x] = "new"
    OBVIOUS
  <2>2. /\ reads[x] = 0
        /\ \A c \in Hooks : received[x][c] = 0 /\ delivery[x][c].status = "none"
        /\ \A o \in HookWorkers : dispatcher[o].pc # "idle" => dispatcher[o].msg # x
    BY <2>1 DEF WebhookInv, NewIsUntouched
  <2> QED BY <1>1, <2>1, <2>2
<1>4. ASSUME NEW o \in HookWorkers, o # w PROVE WorkerFollows(dispatcher[o])'
  <2>1. PICK s \in HookState : s = dispatcher[o] /\ s = dispatcher'[o]
    BY <1>0, <1>1, <1>4 DEF WebhookTypeOK
  <2>2. WorkerFollows(s)
    BY <2>1 DEF WebhookInv, RowsFollow
  <2>3. s \in Loaded \cup Delivering => s.msg \in Candidates
    BY DEF Loaded, Delivering
  <2>4. Matching(s.msg) \subseteq Hooks /\ (s \in Delivering => s.hook \in Hooks)
    BY DEF Matching, Delivering
  <2>5. WorkerFollows(s)'
    BY <1>2, <2>2, <2>3, <2>4 DEF WorkerFollows
  <2> QED BY <2>1, <2>5 DEF WorkerFollows, InHand
<1>5. RowsFollow'
  BY <1>1, <1>2, <1>4 DEF RowsFollow
<1>6. DeliveredIsConfirmed'
  BY <1>2 DEF DeliveredIsConfirmed
<1>7. AckedWasTried'
  <2> SUFFICES ASSUME NEW x \in Candidates, entry'[x] = "acked", x \notin capped', x \notin unread',
                      faults' = 0, NEW c \in Hooks, c \in Matching(x)
               PROVE  delivery'[x][c].status # "none"
    BY <1>2 DEF AckedWasTried
  <2>1. CASE entry[x] = "acked"
    <3>1. delivery[x][c].status # "none"
      BY <2>1 DEF WebhookInv, AckedWasTried
    <3> QED BY <1>2, <3>1
  <2>2. CASE entry[x] # "acked"
    BY <2>2
  <2> QED BY <2>1, <2>2
<1> QED BY <1>3, <1>5, <1>6, <1>7 DEF WebhookInv

\* A worker that is not at rest has a message, and one that was read.
LEMMA HookHasMessage ==
    ASSUME WebhookInv, NEW w \in HookWorkers, dispatcher[w].pc # "idle"
    PROVE  /\ dispatcher[w].msg \in Candidates /\ entry[dispatcher[w].msg] # "new"
           /\ dispatcher[w].pc \in {"load", "claimed"} => dispatcher[w] \in Reading
           /\ dispatcher[w].pc \in {"dedup", "post", "sent", "failed"} => dispatcher[w] \in Delivering
           /\ dispatcher[w].pc = "next" => dispatcher[w] \in Loaded \cup Delivering
<1>1. PICK s \in HookState : s = dispatcher[w]
  BY DEF WebhookInv, WebhookTypeOK
<1>2. /\ s.msg \in Candidates
      /\ s.pc \in {"load", "claimed"} => s \in Reading
      /\ s.pc \in {"dedup", "post", "sent", "failed"} => s \in Delivering
      /\ s.pc = "next" => s \in Loaded \cup Delivering
  BY <1>1 DEF HookState, AtRest, Reading, Loaded, Delivering
<1>3. entry[s.msg] # "new"
  BY <1>1, <1>2 DEF WebhookInv, NewIsUntouched
<1> QED BY <1>1, <1>2, <1>3

\* The bounds on one message and one hook, as a step finds them.
LEMMA CountsAt ==
    ASSUME WebhookInv, NEW m \in Candidates, NEW c \in Hooks
    PROVE  /\ received[m][c] \in Nat /\ reads[m] \in Nat /\ Extra(m) \in Nat /\ ReadsAllowed \in Nat
           /\ ReadsAllowed >= 1 /\ RetryMax - 1 <= ReadsAllowed
           /\ received[m][c] + Cardinality(Passes(m, c)) + Cardinality(Claims(m)) <= reads[m] + Extra(m)
           /\ received[m][c] + Cardinality(Passes(m, c)) <= ReadsAllowed + Extra(m)
BY WebhookAssumption, ExtraIsNat DEF WebhookInv, WebhookTypeOK, PostsCounted, ReadsAllowed

\* A first read and a reclaim.
LEMMA ReadKeeps ==
    ASSUME WebhookInv, NEW w \in HookWorkers, NEW m \in Candidates, xreadgroup(w, m)
    PROVE  WebhookInv'
<1>1. PICK r : r = [pc |-> "load", msg |-> m]
  OBVIOUS
<1>2. /\ r \in HookState /\ r.pc = "load" /\ r.msg = m /\ r \notin Loaded \cup Delivering
  BY <1>1 DEF HookState, Reading, Loaded, Delivering
<1>3. /\ dispatcher[w] = AtRest /\ entry[m] = "new" /\ entry' = [entry EXCEPT ![m] = "pending"]
      /\ reads' = [reads EXCEPT ![m] = 1] /\ dispatcher' = [dispatcher EXCEPT ![w] = r]
      /\ UNCHANGED <<delivery, received, confirmed, deadLetters, capped, unread, blind, late, faults>>
  BY <1>1 DEF xreadgroup, rowsUnchanged, lookupsUnchanged
<1>4. WebhookTypeOK'
  BY <1>2, <1>3 DEF WebhookInv, WebhookTypeOK
<1>5. /\ entry'[m] = "pending" /\ reads'[m] = 1
      /\ \A x \in Candidates : x # m => entry'[x] = entry[x] /\ reads'[x] = reads[x]
  BY <1>3 DEF WebhookInv, WebhookTypeOK
<1>6. ASSUME NEW x \in Candidates, NEW c \in Hooks
      PROVE  /\ received[x][c] + Cardinality(Passes(x, c))' + Cardinality(Claims(x))' <= reads'[x] + Extra(x)
             /\ received[x][c] + Cardinality(Passes(x, c))' <= ReadsAllowed + Extra(x)
  <2>1. /\ Cardinality(Passes(x, c)) \in Nat /\ Cardinality(Passes(x, c))' \in Nat
        /\ Cardinality(Claims(x)) \in Nat /\ Cardinality(Claims(x))' \in Nat
        /\ Cardinality(Passes(x, c))' =
              Cardinality(Passes(x, c)) + Bit(MayPost(r, x, c)) - Bit(MayPost(dispatcher[w], x, c))
        /\ Cardinality(Claims(x))' =
              Cardinality(Claims(x)) + Bit(HasClaimed(r, x)) - Bit(HasClaimed(dispatcher[w], x))
    BY <1>3, WorkersCounted DEF WebhookInv, WebhookTypeOK
  <2>2. ~MayPost(dispatcher[w], x, c) /\ ~HasClaimed(dispatcher[w], x) /\ ~HasClaimed(r, x)
    BY <1>2, <1>3 DEF AtRest, MayPost, HasClaimed
  <2>3. /\ Cardinality(Passes(x, c))' = Cardinality(Passes(x, c)) + Bit(MayPost(r, x, c))
        /\ Cardinality(Claims(x))' = Cardinality(Claims(x)) /\ Bit(MayPost(r, x, c)) \in 0..1
    BY <2>1, <2>2 DEF Bit
  <2>4. CASE x # m
    <3>1. ~MayPost(r, x, c)
      BY <1>2, <2>4 DEF MayPost
    <3>2. Bit(MayPost(r, x, c)) = 0 /\ reads'[x] = reads[x]
      BY <1>5, <2>4, <3>1 DEF Bit
    <3>3. /\ received[x][c] \in Nat /\ reads[x] \in Nat /\ Extra(x) \in Nat /\ ReadsAllowed \in Nat
          /\ received[x][c] + Cardinality(Passes(x, c)) + Cardinality(Claims(x)) <= reads[x] + Extra(x)
          /\ received[x][c] + Cardinality(Passes(x, c)) <= ReadsAllowed + Extra(x)
      BY CountsAt
    <3> QED BY <2>1, <2>3, <3>2, <3>3
  <2>5. CASE x = m
    <3>1. received[m][c] = 0 /\ \A o \in HookWorkers : dispatcher[o].pc # "idle" => dispatcher[o].msg # m
      BY <1>3 DEF WebhookInv, NewIsUntouched
    <3>2. Passes(m, c) = {} /\ Claims(m) = {}
      BY <3>1 DEF Passes, Claims, MayPost, HasClaimed
    <3>3. Cardinality(Passes(m, c)) = 0 /\ Cardinality(Claims(m)) = 0
      BY <3>2, FS_EmptySet
    <3>4. Extra(m) \in Nat /\ ReadsAllowed \in Nat /\ ReadsAllowed >= 1
      BY CountsAt
    <3> QED BY <1>5, <2>3, <2>5, <3>1, <3>3, <3>4
  <2> QED BY <2>4, <2>5
<1>7. PostsCounted'
  BY <1>3, <1>6 DEF PostsCounted, Extra
<1>8. WorkerFollows(r)'
  BY <1>2 DEF WorkerFollows
<1>9. \A c \in Hooks :
         /\ delivery'[m][c].status # "none" => c \in Matching(m)
         /\ delivery'[m][c].status = "delivered" => <<m, c>> \in confirmed'
  BY <1>3 DEF WebhookInv, RowsFollow, DeliveredIsConfirmed
<1> QED BY <1>2, <1>3, <1>4, <1>5, <1>7, <1>8, <1>9, WorkerMoves

\* A reclaim is a read more and a claim more.
LEMMA ReclaimKeeps ==
    ASSUME WebhookInv, NEW w \in HookWorkers, NEW m \in Candidates, xautoclaim(w, m)
    PROVE  WebhookInv'
<1>1. PICK r : r = [pc |-> "claimed", msg |-> m]
  OBVIOUS
<1>2. /\ r \in HookState /\ r.pc = "claimed" /\ r.msg = m /\ r \notin Loaded \cup Delivering
  BY <1>1 DEF HookState, Reading, Loaded, Delivering
<1>3. /\ dispatcher[w] = AtRest /\ entry[m] = "pending" /\ reads' = [reads EXCEPT ![m] = @ + 1]
      /\ dispatcher' = [dispatcher EXCEPT ![w] = r]
      /\ UNCHANGED <<entry, delivery, received, confirmed, deadLetters, capped, unread, blind, late, faults>>
  BY <1>1 DEF xautoclaim, rowsUnchanged, lookupsUnchanged
<1>4. WebhookTypeOK'
  BY <1>2, <1>3 DEF WebhookInv, WebhookTypeOK
<1>5. reads'[m] = reads[m] + 1 /\ \A x \in Candidates : x # m => reads'[x] = reads[x]
  BY <1>3 DEF WebhookInv, WebhookTypeOK
<1>6. ASSUME NEW x \in Candidates, NEW c \in Hooks
      PROVE  /\ received[x][c] + Cardinality(Passes(x, c))' + Cardinality(Claims(x))' <= reads'[x] + Extra(x)
             /\ received[x][c] + Cardinality(Passes(x, c))' <= ReadsAllowed + Extra(x)
  <2>1. /\ Cardinality(Passes(x, c)) \in Nat /\ Cardinality(Passes(x, c))' \in Nat
        /\ Cardinality(Claims(x)) \in Nat /\ Cardinality(Claims(x))' \in Nat
        /\ Cardinality(Passes(x, c))' =
              Cardinality(Passes(x, c)) + Bit(MayPost(r, x, c)) - Bit(MayPost(dispatcher[w], x, c))
        /\ Cardinality(Claims(x))' =
              Cardinality(Claims(x)) + Bit(HasClaimed(r, x)) - Bit(HasClaimed(dispatcher[w], x))
    BY <1>3, WorkersCounted DEF WebhookInv, WebhookTypeOK
  <2>2. /\ ~MayPost(dispatcher[w], x, c) /\ ~HasClaimed(dispatcher[w], x) /\ ~MayPost(r, x, c)
        /\ HasClaimed(r, x) <=> x = m
    BY <1>2, <1>3 DEF AtRest, MayPost, HasClaimed, InHand
  <2>3. /\ Cardinality(Passes(x, c))' = Cardinality(Passes(x, c))
        /\ Cardinality(Claims(x))' = Cardinality(Claims(x)) + (IF x = m THEN 1 ELSE 0)
    BY <2>1, <2>2 DEF Bit
  <2>4. reads'[x] = reads[x] + (IF x = m THEN 1 ELSE 0) /\ reads[x] \in Nat
    BY <1>5, CountsAt
  <2> QED BY <2>1, <2>3, <2>4, CountsAt
<1>7. PostsCounted'
  BY <1>3, <1>6 DEF PostsCounted, Extra
<1>8. WorkerFollows(r)'
  BY <1>2 DEF WorkerFollows
<1>9. \A c \in Hooks :
         /\ delivery'[m][c].status # "none" => c \in Matching(m)
         /\ delivery'[m][c].status = "delivered" => <<m, c>> \in confirmed'
  BY <1>3 DEF WebhookInv, RowsFollow, DeliveredIsConfirmed
<1>10. entry'[m] # "new" /\ entry'[m] # "acked"
  BY <1>3
<1> QED BY <1>2, <1>3, <1>4, <1>5, <1>7, <1>8, <1>9, <1>10, WorkerMoves

\* What a step may do to the rows of the message it works on.
RowsGrow(m) ==
    /\ delivery' \in [Candidates -> [Hooks -> DeliveryRow]]
    /\ \A x \in Candidates : x # m => delivery'[x] = delivery[x]
    /\ \A c \in Hooks :
          /\ delivery[m][c].status # "none" => delivery'[m][c].status # "none"
          /\ delivery'[m][c].status # "none" => c \in Matching(m)
          /\ delivery'[m][c].status = "delivered" => <<m, c>> \in confirmed'

\* Rows that are not written ...
LEMMA RowsStay ==
    ASSUME WebhookInv, NEW m \in Candidates, UNCHANGED delivery, confirmed \subseteq confirmed'
    PROVE  RowsGrow(m)
BY DEF RowsGrow, WebhookInv, WebhookTypeOK, RowsFollow, DeliveredIsConfirmed

\* ... and one that is.
LEMMA RowWritten ==
    ASSUME WebhookInv, NEW m \in Candidates, NEW h \in Matching(m), NEW d \in DeliveryRow,
           d.status # "none", d.status = "delivered" => <<m, h>> \in confirmed,
           delivery' = [delivery EXCEPT ![m][h] = d], UNCHANGED confirmed
    PROVE  RowsGrow(m) /\ delivery'[m][h] = d
<1>1. delivery \in [Candidates -> [Hooks -> DeliveryRow]] /\ h \in Hooks
  BY DEF WebhookInv, WebhookTypeOK, Matching
<1>2. /\ delivery' \in [Candidates -> [Hooks -> DeliveryRow]]
      /\ \A x \in Candidates : x # m => delivery'[x] = delivery[x]
      /\ delivery'[m][h] = d
      /\ \A c \in Hooks : c # h => delivery'[m][c] = delivery[m][c]
  BY <1>1
<1>3. \A c \in Hooks :
         /\ delivery[m][c].status # "none" => c \in Matching(m)
         /\ delivery[m][c].status = "delivered" => <<m, c>> \in confirmed
  BY DEF WebhookInv, RowsFollow, DeliveredIsConfirmed
<1>4. ASSUME NEW c \in Hooks
      PROVE  /\ delivery[m][c].status # "none" => delivery'[m][c].status # "none"
             /\ delivery'[m][c].status # "none" => c \in Matching(m)
             /\ delivery'[m][c].status = "delivered" => <<m, c>> \in confirmed'
  <2>1. CASE c = h
    BY <1>2, <2>1
  <2>2. CASE c # h
    BY <1>2, <1>3, <2>2
  <2> QED BY <2>1, <2>2
<1> QED BY <1>2, <1>4 DEF RowsGrow

\* A step of a worker with a message that reads nothing, posts nothing and does not enable
\* a post that it could not make before.
LEMMA HookQuietStep ==
    ASSUME WebhookInv, NEW w \in HookWorkers, NEW m \in Candidates, NEW r \in HookState,
           dispatcher[w].pc # "idle", m = dispatcher[w].msg,
           dispatcher' = [dispatcher EXCEPT ![w] = r], r.pc # "idle" => r.msg = m, r.pc # "claimed",
           \A c \in Hooks : MayPost(r, m, c) => MayPost(dispatcher[w], m, c),
           RowsGrow(m), UNCHANGED <<reads, received, confirmed>>, ExtrasGrow,
           faults' \in Nat, faults' = 0 => faults = 0, WorkerFollows(r)',
           capped \subseteq capped', unread \subseteq unread',
           \/ UNCHANGED entry
           \/ /\ entry' = [entry EXCEPT ![m] = "acked"]
              /\ \/ m \in capped' \/ m \in unread'
                 \/ faults' # 0
                 \/ \A c \in Matching(m) : delivery'[m][c].status # "none"
    PROVE  WebhookInv'
<1>1. entry[m] # "new"
  BY HookHasMessage
<1>2. /\ entry' \in [Candidates -> {"new", "pending", "acked"}] /\ entry'[m] # "new"
      /\ \A x \in Candidates : x # m => entry'[x] = entry[x]
      /\ entry'[m] = "acked" =>
            \/ entry[m] = "acked" \/ m \in capped' \/ m \in unread' \/ faults' # 0
            \/ \A c \in Matching(m) : delivery'[m][c].status # "none"
  <2>1. entry \in [Candidates -> {"new", "pending", "acked"}]
    BY DEF WebhookInv, WebhookTypeOK
  <2> QED BY <1>1, <2>1
<1>3. WebhookTypeOK'
  BY <1>2 DEF WebhookInv, WebhookTypeOK, RowsGrow, ExtrasGrow
<1>4. PostsCounted'
  <2>1. /\ \A x \in Candidates, c \in Hooks : MayPost(r, x, c) => MayPost(dispatcher[w], x, c)
        /\ \A x \in Candidates : ~HasClaimed(r, x)
    BY DEF MayPost, HasClaimed
  <2>2. WebhookTypeOK /\ PostsCounted
    BY DEF WebhookInv
  <2> QED BY <2>1, <2>2, QuietCount
<1> QED BY <1>2, <1>3, <1>4, WorkerMoves DEF RowsGrow

\* A worker that stops, be its message acked or not.
LEMMA RestKeeps ==
    ASSUME WebhookInv, NEW w \in HookWorkers, NEW m \in Candidates,
           dispatcher[w].pc # "idle", m = dispatcher[w].msg,
           dispatcher' = [dispatcher EXCEPT ![w] = AtRest], rowsUnchanged, UNCHANGED reads, ExtrasGrow,
           faults' \in Nat, faults' = 0 => faults = 0,
           capped \subseteq capped', unread \subseteq unread',
           \/ UNCHANGED entry
           \/ /\ entry' = [entry EXCEPT ![m] = "acked"]
              /\ \/ m \in capped' \/ m \in unread'
                 \/ faults' # 0
                 \/ \A c \in Matching(m) : delivery[m][c].status # "none"
    PROVE  WebhookInv'
<1>1. PICK r : r = AtRest
  OBVIOUS
<1>2. r \in HookState /\ r.pc = "idle" /\ r \notin Loaded \cup Delivering
  BY <1>1 DEF HookState, AtRest, Loaded, Delivering
<1>3. RowsGrow(m) /\ UNCHANGED <<delivery, received, confirmed>>
  BY RowsStay DEF rowsUnchanged
<1>4. WorkerFollows(r)'
  BY <1>2 DEF WorkerFollows
<1>5. \A c \in Hooks : MayPost(r, m, c) => MayPost(dispatcher[w], m, c)
  BY <1>2 DEF MayPost
<1>6. dispatcher' = [dispatcher EXCEPT ![w] = r]
  BY <1>1
<1> QED BY <1>2, <1>3, <1>4, <1>5, <1>6, HookQuietStep

\* The reclaim cap lets the worker through: its claim becomes a pass.
LEMMA GrantKeeps ==
    ASSUME WebhookInv, NEW w \in HookWorkers, dispatcher[w].pc = "claimed", DispatchGoTo(w, "load"),
           NEW m, m = dispatcher[w].msg, rowsUnchanged, UNCHANGED <<entry, capped, unread, reads>>, ExtrasGrow,
           faults' \in Nat, faults' = 0 => faults = 0,
           reads[m] < RetryMax \/ Extra(m)' = Extra(m) + 1
    PROVE  WebhookInv'
<1>1. PICK r : r = [dispatcher[w] EXCEPT !.pc = "load"]
  OBVIOUS
<1>2. dispatcher[w] \in Reading /\ m \in Candidates /\ entry[m] # "new"
  BY <1>1, HookHasMessage
<1>3. r \in HookState /\ r.pc = "load" /\ r.msg = m /\ r \notin Loaded \cup Delivering
  BY <1>1, <1>2 DEF HookState, Reading, Loaded, Delivering
<1>4. dispatcher' = [dispatcher EXCEPT ![w] = r]
  BY <1>1 DEF DispatchGoTo, WebhookInv, WebhookTypeOK
<1>5. RowsGrow(m) /\ UNCHANGED <<delivery, received, confirmed>>
  BY <1>2, RowsStay DEF rowsUnchanged
<1>6. PICK e, f : e = Extra(m) /\ f = Extra(m)'
  OBVIOUS
<1>7. WebhookTypeOK'
  BY <1>3, <1>4, <1>5 DEF WebhookInv, WebhookTypeOK, ExtrasGrow
<1>8. ASSUME NEW x \in Candidates, NEW c \in Hooks
      PROVE  /\ received[x][c] + Cardinality(Passes(x, c))' + Cardinality(Claims(x))' <= reads[x] + Extra(x)'
             /\ received[x][c] + Cardinality(Passes(x, c))' <= ReadsAllowed + Extra(x)'
  <2>1. /\ Cardinality(Passes(x, c)) \in Nat /\ Cardinality(Passes(x, c))' \in Nat
        /\ Cardinality(Claims(x)) \in Nat /\ Cardinality(Claims(x))' \in Nat
        /\ Cardinality(Passes(x, c))' =
              Cardinality(Passes(x, c)) + Bit(MayPost(r, x, c)) - Bit(MayPost(dispatcher[w], x, c))
        /\ Cardinality(Claims(x))' =
              Cardinality(Claims(x)) + Bit(HasClaimed(r, x)) - Bit(HasClaimed(dispatcher[w], x))
    BY <1>4, WorkersCounted DEF WebhookInv, WebhookTypeOK
  <2>2. /\ ~MayPost(dispatcher[w], x, c) /\ ~HasClaimed(r, x)
        /\ HasClaimed(dispatcher[w], x) <=> x = m
        /\ MayPost(r, x, c) <=> x = m
    BY <1>1, <1>3 DEF MayPost, HasClaimed, InHand
  <2>3. /\ Cardinality(Passes(x, c))' = Cardinality(Passes(x, c)) + (IF x = m THEN 1 ELSE 0)
        /\ Cardinality(Claims(x))' = Cardinality(Claims(x)) - (IF x = m THEN 1 ELSE 0)
    BY <2>1, <2>2 DEF Bit
  <2>4. /\ received[x][c] \in Nat /\ reads[x] \in Nat /\ ReadsAllowed \in Nat
        /\ RetryMax - 1 <= ReadsAllowed
        /\ received[x][c] + Cardinality(Passes(x, c)) + Cardinality(Claims(x)) <= reads[x] + Extra(x)
        /\ received[x][c] + Cardinality(Passes(x, c)) <= ReadsAllowed + Extra(x)
    BY CountsAt
  <2>7. Extra(x) \in Nat /\ Extra(x)' \in Nat /\ Extra(x) <= Extra(x)'
    BY CountsAt DEF ExtrasGrow
  <2>5. CASE x = m
    <3>1. /\ received[x][c] + Cardinality(Passes(x, c))' + Cardinality(Claims(x))' <= reads[x] + Extra(x)'
      BY <2>1, <2>3, <2>4, <2>5, <2>7
    <3>2. CASE reads[m] < RetryMax
      BY <2>1, <2>3, <2>4, <2>5, <2>7, <3>1, <3>2, WebhookAssumption
    <3>3. CASE f = e + 1
      <4>1. Extra(x)' = Extra(x) + 1
        BY <1>6, <2>5, <3>3
      <4> QED BY <2>1, <2>3, <2>4, <2>5, <2>7, <3>1, <4>1
    <3> QED BY <1>1, <1>6, <3>2, <3>3
  <2>6. CASE x # m
    BY <2>1, <2>3, <2>4, <2>6, <2>7
  <2> QED BY <2>5, <2>6
<1>9. PostsCounted'
  BY <1>5, <1>8 DEF PostsCounted
<1>10. WorkerFollows(r)'
  BY <1>3 DEF WorkerFollows
<1> QED BY <1>2, <1>3, <1>4, <1>5, <1>7, <1>9, <1>10, WorkerMoves DEF RowsGrow

\* A lookup that does not see the count is one more of them.
LEMMA LookupCounts ==
    ASSUME WebhookInv, LateOnce, NEW w \in HookWorkers, NEW m \in Candidates,
           HasClaimed(dispatcher[w], m),
           \/ blind' = blind + 1 /\ UNCHANGED late
           \/ late' = [late EXCEPT ![m] = @ \cup {w}] /\ UNCHANGED blind
    PROVE  ExtrasGrow /\ Extra(m)' = Extra(m) + 1
<1>0. WebhookTypeOK
  BY DEF WebhookInv
<1>2. CASE blind' = blind + 1 /\ UNCHANGED late
  <2>1. ASSUME NEW x \in Candidates
        PROVE  Extra(x) \in Nat /\ Extra(x)' = Extra(x) + 1
    <3>1. Cardinality(late[x])' = Cardinality(late[x])
      BY <1>2
    <3> QED BY <1>0, <1>2, <3>1, ExtraIsNat DEF Extra
  <2> QED BY <1>0, <1>2, <2>1 DEF ExtrasGrow, WebhookTypeOK
<1>3. CASE late' = [late EXCEPT ![m] = @ \cup {w}] /\ UNCHANGED blind
  <2>1. late'[m] = late[m] \cup {w} /\ \A x \in Candidates : x # m => late'[x] = late[x]
    BY <1>0, <1>3 DEF WebhookTypeOK
  <2>2. w \notin late[m]
    BY DEF LateOnce
  <2>3. IsFiniteSet(late[m])
    BY <1>0, WebhookAssumption, FS_Subset DEF WebhookTypeOK
  <2>4. Cardinality(late'[m]) = Cardinality(late[m]) + 1
    BY <2>1, <2>2, <2>3, FS_AddElement
  <2>5. ASSUME NEW x \in Candidates
        PROVE  Extra(x) \in Nat /\ Extra(x)' = IF x = m THEN Extra(x) + 1 ELSE Extra(x)
    <3>1. Extra(x)' = blind' + Cardinality(late'[x])
      BY DEF Extra
    <3>2. /\ blind \in Nat /\ Cardinality(late[x]) \in Nat /\ Extra(x) \in Nat
          /\ Extra(x) = blind + Cardinality(late[x])
      BY <1>0, ExtraIsNat DEF Extra
    <3>3. Cardinality(late'[x]) = IF x = m THEN Cardinality(late[x]) + 1 ELSE Cardinality(late[x])
      BY <2>1, <2>4
    <3> QED BY <1>3, <3>1, <3>2, <3>3
  <2>6. late' \in [Candidates -> SUBSET HookWorkers]
    BY <1>0, <1>3 DEF WebhookTypeOK
  <2> QED BY <1>0, <1>3, <2>5, <2>6 DEF ExtrasGrow, WebhookTypeOK
<1> QED BY <1>2, <1>3

\* The reclaim cap: the message is dropped, or the worker goes on with it.
LEMMA CapKeeps ==
    ASSUME WebhookInv, LateOnce, NEW w \in HookWorkers, ReclaimCap(w)
    PROVE  WebhookInv'
<1>1. PICK m : m = dispatcher[w].msg
  OBVIOUS
<1>2. dispatcher[w].pc = "claimed" /\ m \in Candidates /\ rowsUnchanged /\ UNCHANGED <<reads, unread>>
  BY <1>1, HookHasMessage DEF ReclaimCap, LookUp
<1>3. \/ CapOrLoad(w, reads[m], RetryMax) /\ UNCHANGED <<blind, late, faults>>
      \/ /\ CapOrLoad(w, 1, RetryMax)
         /\ late' = [late EXCEPT ![m] = @ \cup {w}] /\ UNCHANGED <<blind, faults>>
      \/ CapOrLoad(w, 1, RetryMax) /\ Fault /\ blind' = blind + 1 /\ UNCHANGED late
  BY <1>1 DEF ReclaimCap, LookUp, lookupsUnchanged
<1>4. /\ ExtrasGrow
      /\ CapOrLoad(w, reads[m], RetryMax) \/ (CapOrLoad(w, 1, RetryMax) /\ Extra(m)' = Extra(m) + 1)
  <2>1. HasClaimed(dispatcher[w], m)
    BY <1>1, <1>2 DEF HasClaimed
  <2> QED BY <1>2, <1>3, <2>1, LookupCounts, ExtrasStay
<1>5. faults' \in Nat /\ (faults' = 0 => faults = 0)
  BY <1>3 DEF Fault, WebhookInv, WebhookTypeOK
<1>6. CASE /\ entry' = [entry EXCEPT ![m] = "acked"] /\ capped' = capped \cup {m}
           /\ dispatcher' = [dispatcher EXCEPT ![w] = AtRest]
  <2>1. capped \subseteq capped' /\ m \in capped'
    BY <1>6
  <2> QED BY <1>1, <1>2, <1>4, <1>5, <1>6, <2>1, RestKeeps
<1>7. CASE /\ DispatchGoTo(w, "load") /\ UNCHANGED <<entry, capped>>
           /\ reads[m] < RetryMax \/ Extra(m)' = Extra(m) + 1
  BY <1>1, <1>2, <1>4, <1>5, <1>7, GrantKeeps
<1> QED BY <1>1, <1>4, <1>6, <1>7 DEF CapOrLoad, xack

\* The configurations are loaded, or the message is given up.
LEMMA LoadKeeps ==
    ASSUME WebhookInv, NEW w \in HookWorkers, process_candidate(w)
    PROVE  WebhookInv'
<1>1. PICK m : m = dispatcher[w].msg
  OBVIOUS
<1>2. /\ dispatcher[w].pc = "load" /\ m \in Candidates /\ rowsUnchanged
      /\ UNCHANGED <<reads, capped>> /\ ExtrasGrow
  BY <1>1, HookHasMessage, ExtrasStay DEF process_candidate, lookupsUnchanged
<1>3. CASE /\ dispatcher' = [dispatcher EXCEPT ![w] = [pc |-> "next", msg |-> m, todo |-> Matching(m)]]
           /\ UNCHANGED <<entry, unread, faults>>
  <2>1. PICK r : r = [pc |-> "next", msg |-> m, todo |-> Matching(m)]
    OBVIOUS
  <2>2. /\ r \in HookState /\ r.pc = "next" /\ r.msg = m /\ r.todo = Matching(m)
        /\ r \notin Delivering
    BY <1>2, <2>1 DEF HookState, Loaded, Delivering, Matching
  <2>3. RowsGrow(m) /\ UNCHANGED <<delivery, received, confirmed>>
    BY <1>2, RowsStay DEF rowsUnchanged
  <2>4. WorkerFollows(r)'
    BY <2>2 DEF WorkerFollows, InHand
  <2>5. \A c \in Hooks : MayPost(r, m, c) => MayPost(dispatcher[w], m, c)
    BY <1>1, <1>2 DEF MayPost
  <2>6. faults' \in Nat
    BY <1>3 DEF WebhookInv, WebhookTypeOK
  <2> QED BY <1>1, <1>2, <1>3, <2>1, <2>2, <2>3, <2>4, <2>5, <2>6, HookQuietStep
<1>4. CASE /\ Fault /\ entry' = [entry EXCEPT ![m] = "acked"] /\ unread' = unread \cup {m}
           /\ dispatcher' = [dispatcher EXCEPT ![w] = AtRest]
  <2>1. faults' \in Nat /\ faults' # 0 /\ unread \subseteq unread' /\ m \in unread'
    BY <1>4 DEF Fault, WebhookInv, WebhookTypeOK
  <2> QED BY <1>1, <1>2, <1>4, <2>1, RestKeeps
<1> QED BY <1>1, <1>3, <1>4 DEF process_candidate, xack

\* The next hook is taken, or the message is acked: nothing is left in hand.
LEMMA NextHookKeeps ==
    ASSUME WebhookInv, NEW w \in HookWorkers, NextHook(w)
    PROVE  WebhookInv'
<1>1. PICK m, s : m = dispatcher[w].msg /\ s = dispatcher[w]
  OBVIOUS
<1>2. /\ s.pc = "next" /\ s.msg = m /\ m \in Candidates /\ s \in Loaded \cup Delivering
      /\ rowsUnchanged /\ UNCHANGED <<reads, capped, unread, faults>> /\ ExtrasGrow
      /\ faults' \in Nat
  BY <1>1, HookHasMessage, ExtrasStay DEF NextHook, WebhookInv, WebhookTypeOK, lookupsUnchanged
<1>3. /\ s.todo \subseteq Matching(m) /\ s.todo \subseteq Hooks
      /\ faults = 0 => \A c \in Matching(m) : InHand(s, c) \/ delivery[m][c].status # "none"
  <2>1. WorkerFollows(s)
    BY <1>1 DEF WebhookInv, RowsFollow
  <2>2. /\ s.todo \subseteq Matching(m)
        /\ faults = 0 => \A c \in Matching(m) : InHand(s, c) \/ delivery[m][c].status # "none"
    BY <1>2, <2>1 DEF WorkerFollows
  <2> QED BY <2>2 DEF Matching
<1>4. CASE /\ s.todo = {} /\ entry' = [entry EXCEPT ![m] = "acked"]
           /\ dispatcher' = [dispatcher EXCEPT ![w] = AtRest]
  <2>1. faults' # 0 \/ \A c \in Matching(m) : delivery[m][c].status # "none"
    BY <1>2, <1>3, <1>4 DEF InHand
  <2> QED BY <1>1, <1>2, <1>4, <2>1, RestKeeps
<1>5. ASSUME NEW h \in s.todo, UNCHANGED entry,
             dispatcher' = [dispatcher EXCEPT ![w] =
                 [pc |-> "dedup", msg |-> m, todo |-> s.todo \ {h}, hook |-> h, attempt |-> 0]]
      PROVE  WebhookInv'
  <2>1. PICK r : r = [pc |-> "dedup", msg |-> m, todo |-> s.todo \ {h}, hook |-> h, attempt |-> 0]
    OBVIOUS
  <2>2. r.pc = "dedup" /\ r.msg = m /\ r.todo = s.todo \ {h} /\ r.hook = h
    BY <2>1
  <2>3. r \in Delivering /\ r \in HookState
    BY <1>2, <1>3, <2>1 DEF HookState, Delivering
  <2>4. RowsGrow(m) /\ UNCHANGED <<delivery, received, confirmed>>
    BY <1>2, RowsStay DEF rowsUnchanged
  <2>5. \A c \in Hooks : InHand(r, c) <=> InHand(s, c)
    BY <1>2, <2>2 DEF InHand
  <2>6. WorkerFollows(r)'
    <3>1. faults = 0 => \A c \in Matching(m) : InHand(r, c) \/ delivery[m][c].status # "none"
      BY <1>3, <2>5 DEF Matching
    <3>2. r.todo \subseteq Matching(m) /\ r.hook \in Matching(m) \ r.todo
      BY <1>3, <2>2
    <3> QED BY <1>2, <2>2, <2>4, <3>1, <3>2 DEF WorkerFollows
  <2>7. \A c \in Hooks : MayPost(r, m, c) => MayPost(dispatcher[w], m, c)
    BY <1>1, <1>2, <2>2, <2>5 DEF MayPost
  <2> QED BY <1>1, <1>2, <1>5, <2>1, <2>2, <2>3, <2>4, <2>6, <2>7, HookQuietStep
<1> QED BY <1>1, <1>4, <1>5 DEF NextHook, xack

\* A worker goes on with the hook it delivers to.
LEMMA DeliveringFollows ==
    ASSUME WebhookInv, NEW w \in HookWorkers, NEW m \in Candidates, NEW h \in Hooks,
           NEW s \in Delivering, NEW r \in Delivering, s = dispatcher[w], s.msg = m, s.hook = h,
           r.msg = m, r.hook = h, r.todo = s.todo, r.pc # "dedup",
           RowsGrow(m), confirmed \subseteq confirmed', faults' = 0 => faults = 0,
           r.pc = "sent" => <<m, h>> \in confirmed',
           r.pc = "post" \/ faults' = 0 => delivery'[m][h].status # "none"
    PROVE  WorkerFollows(r)'
<1>1. WorkerFollows(s)
  BY DEF WebhookInv, RowsFollow
<1>2. r.todo \subseteq Matching(m) /\ r.hook \in Matching(m) \ r.todo
  BY <1>1 DEF WorkerFollows
<1>3. ASSUME faults' = 0, NEW c \in Matching(m)
      PROVE  InHand(r, c) \/ delivery'[m][c].status # "none"
  <2>1. InHand(s, c) \/ delivery[m][c].status # "none"
    BY <1>1, <1>3 DEF WorkerFollows
  <2>2. c \in Hooks /\ (delivery[m][c].status # "none" => delivery'[m][c].status # "none")
    BY DEF Matching, RowsGrow
  <2>3. InHand(s, c) => InHand(r, c) \/ c = h
    BY DEF InHand, Delivering
  <2> QED BY <1>3, <2>1, <2>2, <2>3
<1> QED BY <1>2, <1>3 DEF WorkerFollows

\* The same, as a whole step.
LEMMA DeliveringKeeps ==
    ASSUME WebhookInv, NEW w \in HookWorkers, NEW m \in Candidates, NEW h \in Hooks,
           NEW s \in Delivering, NEW r \in Delivering, s = dispatcher[w], s.msg = m, s.hook = h,
           r.msg = m, r.hook = h, r.todo = s.todo, r.pc # "dedup",
           r.pc = "post" => s.pc = "dedup",
           dispatcher' = [dispatcher EXCEPT ![w] = r],
           RowsGrow(m), UNCHANGED <<entry, reads, received, confirmed, capped, unread, blind, late>>,
           faults' \in Nat, faults' = 0 => faults = 0,
           r.pc = "sent" => <<m, h>> \in confirmed',
           r.pc = "post" \/ faults' = 0 => delivery'[m][h].status # "none"
    PROVE  WebhookInv'
<1>1. WorkerFollows(r)'
  BY DeliveringFollows
<1>2. r \in HookState /\ r.pc # "claimed" /\ dispatcher[w].pc # "idle"
  BY DEF HookState, Delivering
<1>3. \A c \in Hooks : MayPost(r, m, c) => MayPost(dispatcher[w], m, c)
  BY DEF MayPost, InHand, Delivering
<1> QED BY <1>1, <1>2, <1>3, ExtrasStay, HookQuietStep

\* Only the row of the hook a worker delivers to is written.
LEMMA HookIsMatching ==
    ASSUME WebhookInv, NEW w \in HookWorkers, dispatcher[w].pc \in {"dedup", "post", "sent", "failed"}
    PROVE  /\ dispatcher[w] \in Delivering /\ dispatcher[w].msg \in Candidates
           /\ dispatcher[w].hook \in Hooks
           /\ dispatcher[w].hook \in Matching(dispatcher[w].msg) \ dispatcher[w].todo
           /\ dispatcher[w].pc = "sent" => <<dispatcher[w].msg, dispatcher[w].hook>> \in confirmed
           /\ dispatcher[w].pc \in {"post", "sent", "failed"} /\ faults = 0 =>
                 delivery[dispatcher[w].msg][dispatcher[w].hook].status # "none"
           /\ dispatcher[w].pc = "post" =>
                 delivery[dispatcher[w].msg][dispatcher[w].hook].status # "none"
<1>1. PICK s : s = dispatcher[w]
  OBVIOUS
<1>2. s \in Delivering /\ s.msg \in Candidates /\ s.hook \in Hooks
  BY <1>1, HookHasMessage DEF Delivering
<1>3. WorkerFollows(s)
  BY <1>1 DEF WebhookInv, RowsFollow
<1>4. /\ s.hook \in Matching(s.msg) \ s.todo
      /\ s.pc = "sent" => <<s.msg, s.hook>> \in confirmed
      /\ s.pc = "post" => delivery[s.msg][s.hook].status # "none"
      /\ faults = 0 => InHand(s, s.hook) \/ delivery[s.msg][s.hook].status # "none"
  BY <1>2, <1>3 DEF WorkerFollows
<1>5. s.pc \in {"sent", "failed"} => ~InHand(s, s.hook)
  BY <1>4 DEF InHand
<1> QED BY <1>1, <1>2, <1>4, <1>5

\* The row is found or made before the post.
LEMMA DedupKeeps ==
    ASSUME WebhookInv, NEW w \in HookWorkers, _deliver_to_config(w)
    PROVE  WebhookInv'
<1>1. PICK s, m, h : s = dispatcher[w] /\ m = s.msg /\ h = s.hook
  OBVIOUS
<1>2. /\ s.pc = "dedup" /\ s \in Delivering /\ m \in Candidates /\ h \in Hooks /\ h \in Matching(m)
      /\ UNCHANGED <<entry, reads, received, confirmed, capped, unread, blind, late>>
  BY <1>1, HookIsMatching DEF _deliver_to_config, lookupsUnchanged
<1>3. Row(w) = delivery[m][h] /\ delivery[m][h] \in DeliveryRow /\ faults \in Nat
  BY <1>1, <1>2 DEF Row, WebhookInv, WebhookTypeOK
<1>4. CASE /\ DispatchGoTo(w, "next") /\ UNCHANGED delivery
           /\ \/ delivery[m][h].status \in {"delivered", "dead_lettered"} /\ UNCHANGED faults
              \/ Fault
  <2>1. PICK r : r = [s EXCEPT !.pc = "next"]
    OBVIOUS
  <2>2. /\ r \in Delivering /\ r.pc = "next" /\ r.msg = m /\ r.hook = h /\ r.todo = s.todo
    BY <1>1, <1>2, <2>1 DEF Delivering
  <2>3. dispatcher' = [dispatcher EXCEPT ![w] = r]
    BY <1>1, <1>4, <2>1 DEF DispatchGoTo, WebhookInv, WebhookTypeOK
  <2>4. RowsGrow(m)
    BY <1>2, <1>4, RowsStay
  <2>5. faults' \in Nat /\ (faults' = 0 => faults = 0 /\ delivery'[m][h].status # "none")
    BY <1>3, <1>4 DEF Fault
  <2> QED BY <1>1, <1>2, <2>2, <2>3, <2>4, <2>5, DeliveringKeeps
<1>5. CASE /\ delivery[m][h].status \notin {"delivered", "dead_lettered"} /\ UNCHANGED faults
           /\ dispatcher' = [dispatcher EXCEPT ![w].pc = "post", ![w].attempt = Row(w).attempts + 1]
           /\ IF delivery[m][h].status = "none" THEN SetRow(w, [status |-> "pending", attempts |-> 0])
              ELSE UNCHANGED delivery
  <2>1. PICK r : r = [s EXCEPT !.pc = "post", !.attempt = delivery[m][h].attempts + 1]
    OBVIOUS
  <2>2. delivery[m][h].attempts + 1 \in Nat
    BY <1>3 DEF DeliveryRow
  <2>3. /\ r \in Delivering /\ r.pc = "post" /\ r.msg = m /\ r.hook = h /\ r.todo = s.todo
    BY <1>1, <1>2, <2>1, <2>2 DEF Delivering
  <2>4. dispatcher' = [dispatcher EXCEPT ![w] = r]
    BY <1>1, <1>3, <1>5, <2>1 DEF WebhookInv, WebhookTypeOK
  <2>5. RowsGrow(m) /\ delivery'[m][h].status # "none"
    <3>1. CASE UNCHANGED delivery /\ delivery[m][h].status # "none"
      BY <1>2, <3>1, RowsStay
    <3>2. CASE SetRow(w, [status |-> "pending", attempts |-> 0])
      <4>1. PICK d : d = [status |-> "pending", attempts |-> 0]
        OBVIOUS
      <4>2. d \in DeliveryRow /\ d.status = "pending" /\ delivery' = [delivery EXCEPT ![m][h] = d]
        BY <1>1, <3>2, <4>1 DEF DeliveryRow, SetRow
      <4> QED BY <1>2, <4>2, RowWritten
    <3> QED BY <1>5, <3>1, <3>2
  <2>6. faults' \in Nat /\ faults' = faults
    BY <1>3, <1>5
  <2> QED BY <1>1, <1>2, <2>3, <2>4, <2>5, <2>6, DeliveringKeeps
<1> QED BY <1>3, <1>4, <1>5 DEF _deliver_to_config

\* The worker writes the row of its hook, or fails to, and goes on to p.
LEMMA OutcomeKeeps ==
    ASSUME WebhookInv, NEW w \in HookWorkers, NEW p \in {"next", "failed"},
           NEW d \in DeliveryRow, d.status # "none",
           d.status = "delivered" => <<dispatcher[w].msg, dispatcher[w].hook>> \in confirmed,
           dispatcher[w].pc \in {"post", "sent", "failed"}, DispatchGoTo(w, p),
           UNCHANGED <<entry, reads, received, confirmed, capped, unread, blind, late>>,
           \/ SetRow(w, d) /\ UNCHANGED faults
           \/ Fault /\ UNCHANGED delivery
           \/ UNCHANGED <<delivery, faults>>
    PROVE  WebhookInv'
<1>1. PICK s, m, h : s = dispatcher[w] /\ m = s.msg /\ h = s.hook
  OBVIOUS
<1>2. /\ s.pc \in {"post", "sent", "failed"} /\ s \in Delivering /\ m \in Candidates
      /\ h \in Hooks /\ h \in Matching(m)
      /\ faults = 0 => delivery[m][h].status # "none"
  BY <1>1, HookIsMatching
<1>3. PICK r : r = [s EXCEPT !.pc = p]
  OBVIOUS
<1>4. /\ r \in Delivering /\ r.pc = p /\ r.msg = m /\ r.hook = h /\ r.todo = s.todo
  BY <1>1, <1>2, <1>3 DEF Delivering
<1>5. dispatcher' = [dispatcher EXCEPT ![w] = r]
  BY <1>1, <1>3 DEF DispatchGoTo, WebhookInv, WebhookTypeOK
<1>6. faults \in Nat
  BY DEF WebhookInv, WebhookTypeOK
<1>7. /\ RowsGrow(m) /\ faults' \in Nat /\ (faults' = 0 => faults = 0)
      /\ faults' = 0 => delivery'[m][h].status # "none"
  <2>1. CASE SetRow(w, d) /\ UNCHANGED faults
    <3>1. delivery' = [delivery EXCEPT ![m][h] = d] /\ (d.status = "delivered" => <<m, h>> \in confirmed)
      BY <1>1, <2>1 DEF SetRow
    <3>2. RowsGrow(m) /\ delivery'[m][h] = d
      BY <1>2, <3>1, RowWritten
    <3> QED BY <1>6, <2>1, <3>2
  <2>2. CASE Fault /\ UNCHANGED delivery
    BY <1>2, <1>6, <2>2, RowsStay DEF Fault
  <2>3. CASE UNCHANGED <<delivery, faults>>
    BY <1>2, <1>6, <2>3, RowsStay
  <2> QED BY <2>1, <2>2, <2>3
<1>8. /\ r.pc # "dedup" /\ r.pc # "sent" /\ r.pc # "post"
      /\ s = dispatcher[w] /\ s.msg = m /\ s.hook = h
  BY <1>1, <1>4
<1> QED BY <1>2, <1>4, <1>5, <1>7, <1>8, DeliveringKeeps

\* A post uses up the pass that allowed it.
LEMMA PostKeeps ==
    ASSUME WebhookInv, NEW w \in HookWorkers, NEW a, Post(w, a)
    PROVE  WebhookInv'
<1>1. PICK s, m, h : s = dispatcher[w] /\ m = s.msg /\ h = s.hook
  OBVIOUS
<1>2. /\ s.pc = "post" /\ s \in Delivering /\ m \in Candidates /\ h \in Hooks
      /\ h \in Matching(m) \ s.todo /\ delivery[m][h].status # "none"
  BY <1>1, HookIsMatching DEF Post
<1>3. PICK p : p = IF a = "2xx" THEN "sent" ELSE "failed"
  OBVIOUS
<1>4. /\ received' = [received EXCEPT ![m][h] = @ + 1] /\ DispatchGoTo(w, p)
      /\ confirmed \subseteq confirmed' /\ (p = "sent" => <<m, h>> \in confirmed')
      /\ p \in {"sent", "failed"}
      /\ UNCHANGED <<entry, reads, delivery, capped, unread, blind, late, faults>>
  BY <1>1, <1>3 DEF Post, lookupsUnchanged
<1>5. PICK r : r = [s EXCEPT !.pc = p]
  OBVIOUS
<1>6. /\ r \in Delivering /\ r \in HookState /\ r.pc = p /\ r.msg = m /\ r.hook = h
      /\ r.todo = s.todo
  BY <1>1, <1>2, <1>4, <1>5 DEF Delivering, HookState
<1>7. dispatcher' = [dispatcher EXCEPT ![w] = r]
  BY <1>1, <1>4, <1>5 DEF DispatchGoTo, WebhookInv, WebhookTypeOK
<1>8. RowsGrow(m) /\ faults' = faults
  BY <1>2, <1>4, RowsStay
<1>9. WorkerFollows(r)'
  BY <1>1, <1>2, <1>4, <1>6, <1>8, DeliveringFollows
<1>10. /\ received' \in [Candidates -> [Hooks -> Nat]] /\ received'[m][h] = received[m][h] + 1
       /\ \A x \in Candidates, c \in Hooks : x # m \/ c # h => received'[x][c] = received[x][c]
       /\ \A x \in Candidates : x # m => received'[x] = received[x]
  <2>1. received \in [Candidates -> [Hooks -> Nat]]
    BY DEF WebhookInv, WebhookTypeOK
  <2> QED BY <1>2, <1>4, <2>1
<1>11. WebhookTypeOK'
  BY <1>4, <1>6, <1>7, <1>10 DEF WebhookInv, WebhookTypeOK
<1>12. ASSUME NEW x \in Candidates, NEW c \in Hooks
       PROVE  /\ received'[x][c] + Cardinality(Passes(x, c))' + Cardinality(Claims(x))' <= reads[x] + Extra(x)
              /\ received'[x][c] + Cardinality(Passes(x, c))' <= ReadsAllowed + Extra(x)
  <2>1. /\ Cardinality(Passes(x, c)) \in Nat /\ Cardinality(Passes(x, c))' \in Nat
        /\ Cardinality(Claims(x)) \in Nat /\ Cardinality(Claims(x))' \in Nat
        /\ Cardinality(Passes(x, c))' =
              Cardinality(Passes(x, c)) + Bit(MayPost(r, x, c)) - Bit(MayPost(dispatcher[w], x, c))
        /\ Cardinality(Claims(x))' =
              Cardinality(Claims(x)) + Bit(HasClaimed(r, x)) - Bit(HasClaimed(dispatcher[w], x))
    BY <1>7, WorkersCounted DEF WebhookInv, WebhookTypeOK
  <2>2. /\ ~HasClaimed(dispatcher[w], x) /\ ~HasClaimed(r, x)
        /\ MayPost(r, x, c) <=> x = m /\ c \in s.todo
        /\ MayPost(dispatcher[w], x, c) <=> x = m /\ (c \in s.todo \/ c = h)
    BY <1>1, <1>2, <1>4, <1>6 DEF MayPost, HasClaimed, InHand
  <2>3. /\ Cardinality(Passes(x, c))' = Cardinality(Passes(x, c)) - Bit(x = m /\ c = h)
        /\ Cardinality(Claims(x))' = Cardinality(Claims(x))
    BY <1>2, <2>1, <2>2 DEF Bit
  <2>4. received'[x][c] = received[x][c] + Bit(x = m /\ c = h)
    BY <1>10, CountsAt DEF Bit
  <2>5. /\ received[x][c] \in Nat /\ reads[x] \in Nat /\ ReadsAllowed \in Nat /\ Extra(x) \in Nat
        /\ received[x][c] + Cardinality(Passes(x, c)) + Cardinality(Claims(x)) <= reads[x] + Extra(x)
        /\ received[x][c] + Cardinality(Passes(x, c)) <= ReadsAllowed + Extra(x)
    BY CountsAt
  <2>6. Bit(x = m /\ c = h) \in 0..1
    BY DEF Bit
  <2> QED BY <2>1, <2>3, <2>4, <2>5, <2>6
<1>13. PostsCounted'
  BY <1>4, <1>12 DEF PostsCounted, Extra
<1>14. entry'[m] # "new" /\ (entry'[m] = "acked" => entry[m] = "acked")
  BY <1>1, <1>2, <1>4, HookHasMessage
<1>15. \A x \in Candidates : x # m => /\ entry'[x] = entry[x] /\ reads'[x] = reads[x]
                                      /\ delivery'[x] = delivery[x] /\ received'[x] = received[x]
  BY <1>4, <1>10
<1>16. \A c \in Hooks :
          /\ delivery[m][c].status # "none" => delivery'[m][c].status # "none"
          /\ delivery'[m][c].status # "none" => c \in Matching(m)
          /\ delivery'[m][c].status = "delivered" => <<m, c>> \in confirmed'
  BY <1>8 DEF RowsGrow
<1>17. capped \subseteq capped' /\ unread \subseteq unread' /\ (faults' = 0 => faults = 0)
  BY <1>4
<1> QED BY <1>2, <1>4, <1>6, <1>7, <1>9, <1>11, <1>13, <1>14, <1>15, <1>16, <1>17, WorkerMoves

\* No step of a worker, and no death, breaks the invariant.
LEMMA WebhookStep == WebhookInv /\ LateOnce /\ [WebhookNext]_webhookVars => WebhookInv'
<1> SUFFICES ASSUME WebhookInv, LateOnce, [WebhookNext]_webhookVars PROVE WebhookInv'
  OBVIOUS
<1>1. ASSUME NEW w \in HookWorkers, NotSent(w) PROVE WebhookInv'
  <2>1. PICK d : d \in DeliveryRow /\ d.status = "pending"
    <3>1. [status |-> "pending", attempts |-> 0] \in DeliveryRow
      BY DEF DeliveryRow
    <3> QED BY <3>1
  <2> QED BY <1>1, <2>1, OutcomeKeeps DEF NotSent, rowsUnchanged, lookupsUnchanged
<1>2. ASSUME NEW w \in HookWorkers, _mark_delivered(w) PROVE WebhookInv'
  <2>1. dispatcher[w].pc = "sent" /\ dispatcher[w] \in Delivering
        /\ <<dispatcher[w].msg, dispatcher[w].hook>> \in confirmed
    BY <1>2, HookIsMatching DEF _mark_delivered
  <2>2. PICK d : d = [status |-> "delivered", attempts |-> dispatcher[w].attempt]
    OBVIOUS
  <2>3. d \in DeliveryRow /\ d.status = "delivered"
    BY <2>1, <2>2 DEF DeliveryRow, Delivering
  <2> QED BY <1>2, <2>1, <2>2, <2>3, OutcomeKeeps DEF _mark_delivered, lookupsUnchanged
<1>3. ASSUME NEW w \in HookWorkers, _handle_failure(w) PROVE WebhookInv'
  <2>1. dispatcher[w].pc = "failed" /\ dispatcher[w] \in Delivering
    BY <1>3, HookIsMatching DEF _handle_failure
  <2>2. PICK d : d = [status |-> IF dispatcher[w].attempt >= RetryMax THEN "dead_lettered" ELSE "failed",
                      attempts |-> dispatcher[w].attempt]
    OBVIOUS
  <2>3. d \in DeliveryRow /\ d.status \notin {"none", "delivered"}
    BY <2>1, <2>2 DEF DeliveryRow, Delivering
  <2> QED BY <1>3, <2>1, <2>2, <2>3, OutcomeKeeps DEF _handle_failure, lookupsUnchanged
<1>4. ASSUME NEW w \in HookWorkers, DispatcherDies(w) PROVE WebhookInv'
  <2>1. dispatcher[w].pc # "idle" /\ dispatcher[w].msg \in Candidates
    <3>1. dispatcher[w] \in HookState /\ dispatcher[w] # AtRest
      BY <1>4 DEF DispatcherDies, WebhookInv, WebhookTypeOK
    <3> QED BY <3>1 DEF HookState, Reading, Loaded, Delivering
  <2>2. faults' \in Nat /\ faults' # 0
    BY <1>4 DEF DispatcherDies, Fault, WebhookInv, WebhookTypeOK
  <2> QED BY <1>4, <2>1, <2>2, ExtrasStay, RestKeeps DEF DispatcherDies, lookupsUnchanged
<1>5. CASE UNCHANGED webhookVars
  <2>1. UNCHANGED <<entry, reads, delivery, dispatcher, received, confirmed, capped, unread, blind, late, faults>>
    BY <1>5 DEF webhookVars
  <2>2. WebhookTypeOK' /\ NewIsUntouched' /\ DeliveredIsConfirmed' /\ AckedWasTried'
    BY <2>1 DEF WebhookInv, WebhookTypeOK, NewIsUntouched, DeliveredIsConfirmed, AckedWasTried
  <2>3. RowsFollow'
    BY <2>1 DEF WebhookInv, RowsFollow, WorkerFollows
  <2>4. PostsCounted'
    BY <2>1 DEF WebhookInv, PostsCounted, Passes, Claims, Extra
  <2> QED BY <2>2, <2>3, <2>4 DEF WebhookInv
<1> QED
  BY <1>1, <1>2, <1>3, <1>4, <1>5, ReadKeeps, ReclaimKeeps, CapKeeps, LoadKeeps, NextHookKeeps,
     DedupKeeps, PostKeeps DEF WebhookNext, HookWorkerStep

\* A worker that moves to r keeps its late lookups apart: it claims no acked message.
LEMMA LateKeeps ==
    ASSUME WebhookTypeOK, LateOnce, NEW w \in HookWorkers, NEW r, NEW m \in Candidates,
           dispatcher' = [dispatcher EXCEPT ![w] = r],
           \A x \in Candidates : entry[x] = "acked" => entry'[x] = "acked" /\ ~HasClaimed(r, x),
           \/ UNCHANGED late
           \/ entry[m] = "acked" /\ late' = [late EXCEPT ![m] = @ \cup {w}]
    PROVE  LateOnce'
<1> SUFFICES ASSUME NEW x \in Candidates, NEW o \in late'[x]
             PROVE  entry'[x] = "acked" /\ ~HasClaimed(dispatcher'[o], x)
  BY DEF LateOnce, HasClaimed
<1>1. (o \in late[x] \/ (x = m /\ o = w /\ entry[m] = "acked")) /\ late[x] \subseteq HookWorkers
  BY DEF WebhookTypeOK
<1>2. entry[x] = "acked" /\ o \in HookWorkers /\ (o = w \/ ~HasClaimed(dispatcher[o], x))
  BY <1>1 DEF LateOnce
<1>3. dispatcher'[o] = IF o = w THEN r ELSE dispatcher[o]
  BY <1>2 DEF WebhookTypeOK
<1> QED BY <1>2, <1>3

\* No step breaks that.
LEMMA LateStep == WebhookInv /\ LateOnce /\ [WebhookNext]_webhookVars => LateOnce'
<1> SUFFICES ASSUME WebhookInv, LateOnce, [WebhookNext]_webhookVars PROVE LateOnce'
  OBVIOUS
<1>1. WebhookTypeOK /\ \A x : ~HasClaimed(AtRest, x)
  BY DEF WebhookInv, HasClaimed, AtRest
<1>2. ASSUME NEW w \in HookWorkers, NEW m \in Candidates, xreadgroup(w, m) \/ xautoclaim(w, m)
      PROVE  LateOnce'
  <2>1. PICK p \in {"load", "claimed"} : dispatcher' = [dispatcher EXCEPT ![w] = [pc |-> p, msg |-> m]]
    BY <1>2 DEF xreadgroup, xautoclaim
  <2>3. PICK r : r = [pc |-> p, msg |-> m]
    OBVIOUS
  <2>4. \A x : HasClaimed(r, x) => x = m
    BY <2>3 DEF HasClaimed
  <2>2. entry[m] # "acked" /\ UNCHANGED late
        /\ \A x \in Candidates : x # m => entry'[x] = entry[x]
    BY <1>1, <1>2 DEF xreadgroup, xautoclaim, lookupsUnchanged, WebhookTypeOK
  <2> QED BY <1>1, <2>1, <2>2, <2>3, <2>4, LateKeeps
<1>3. ASSUME NEW w \in HookWorkers, HookWorkerStep(w) \/ DispatcherDies(w)
      PROVE  LateOnce'
  <2>1. PICK m : m = dispatcher[w].msg
    OBVIOUS
  <2>2. dispatcher[w].pc # "idle" /\ m \in Candidates
    <3>1. dispatcher[w].pc # "idle"
      <4>1. dispatcher[w] \in HookState /\ (dispatcher[w].pc = "idle" => dispatcher[w] = AtRest)
        BY <1>1 DEF WebhookTypeOK, HookState, Reading, Loaded, Delivering
      <4> QED BY <1>3, <4>1 DEF HookWorkerStep, DispatcherDies, ReclaimCap, LookUp, process_candidate,
                    NextHook, _deliver_to_config, NotSent, Post, _mark_delivered, _handle_failure
    <3> QED BY <2>1, <3>1, HookHasMessage
  <2>3. \A x \in Candidates : entry[x] = "acked" => entry'[x] = "acked"
    BY <1>1, <1>3 DEF WebhookTypeOK, HookWorkerStep, DispatcherDies, ReclaimCap, LookUp, CapOrLoad, xack,
          process_candidate, NextHook, _deliver_to_config, NotSent, Post, _mark_delivered, _handle_failure
  <2>4. UNCHANGED late \/ (entry[m] = "acked" /\ late' = [late EXCEPT ![m] = @ \cup {w}])
    BY <1>3, <2>1 DEF HookWorkerStep, DispatcherDies, ReclaimCap, LookUp, lookupsUnchanged,
          process_candidate, NextHook, _deliver_to_config, NotSent, Post, _mark_delivered, _handle_failure
  <2>5. PICK r : dispatcher' = [dispatcher EXCEPT ![w] = r] /\ \A x : ~HasClaimed(r, x)
    <3>1. ASSUME NEW p \in {"load", "next", "sent", "failed"}, DispatchGoTo(w, p)
          PROVE  \E r : dispatcher' = [dispatcher EXCEPT ![w] = r] /\ \A x : ~HasClaimed(r, x)
      <4>1. PICK r : r = [dispatcher[w] EXCEPT !.pc = p]
        OBVIOUS
      <4>2. dispatcher[w] \in Reading \cup Loaded \cup Delivering
        BY <1>1, <2>2 DEF WebhookTypeOK, HookState, AtRest
      <4>3. r.pc = p
        BY <4>1, <4>2 DEF Reading, Loaded, Delivering
      <4>4. \A x : ~HasClaimed(r, x)
        BY <4>3 DEF HasClaimed
      <4>5. dispatcher' = [dispatcher EXCEPT ![w] = r]
        BY <3>1, <4>1 DEF DispatchGoTo
      <4> QED BY <4>4, <4>5
    <3>2. CASE dispatcher' = [dispatcher EXCEPT ![w] = AtRest]
      BY <1>1, <3>2
    <3>3. CASE process_candidate(w) \/ NextHook(w)
      BY <1>1, <3>3 DEF process_candidate, NextHook, HasClaimed
    <3>4. CASE _deliver_to_config(w)
      <4>1. CASE dispatcher' = [dispatcher EXCEPT ![w].pc = "post", ![w].attempt = Row(w).attempts + 1]
        <5>1. PICK r : r = [dispatcher[w] EXCEPT !.pc = "post", !.attempt = Row(w).attempts + 1]
          OBVIOUS
        <5>2. dispatcher[w] \in Delivering
          BY <3>4, HookHasMessage DEF _deliver_to_config
        <5>3. r.pc = "post"
          BY <5>1, <5>2 DEF Delivering
        <5>4. \A x : ~HasClaimed(r, x)
          BY <5>3 DEF HasClaimed
        <5>5. dispatcher' = [dispatcher EXCEPT ![w] = r]
          BY <4>1, <5>1
        <5> QED BY <5>4, <5>5
      <4> QED BY <3>1, <3>4, <4>1 DEF _deliver_to_config
    <3> QED BY <1>3, <3>1, <3>2, <3>3, <3>4 DEF HookWorkerStep, DispatcherDies, ReclaimCap, LookUp,
                CapOrLoad, NotSent, Post, _mark_delivered, _handle_failure
  <2> QED BY <1>1, <2>2, <2>3, <2>4, <2>5, LateKeeps
<1>4. CASE UNCHANGED webhookVars
  BY <1>4 DEF webhookVars, LateOnce, HasClaimed
<1> QED BY <1>2, <1>3, <1>4 DEF WebhookNext

\* For any number of workers, candidates and hooks, and any cap: whatever is reclaimed,
\* times out or dies, 'delivered' is confirmed by the target, a target is posted to no
\* more often than the cap on reads allows and once more for each lookup that failed or
\* came after the ack, and an acked candidate was tried at every hook it matches
\* (_consume_candidates).
THEOREM DeliveriesStayHonest == WebhookSpec => []DeliveriesAreHonest
<1>1. WebhookInv => DeliveriesAreHonest
  <2> SUFFICES ASSUME WebhookInv, NEW m \in Candidates, NEW c \in Hooks
               PROVE  received[m][c] <= ReadsAllowed + blind + Cardinality(late[m])
    BY DEF DeliveriesAreHonest, PostsAreBounded, WebhookInv, ReadsAllowed
  <2>1. Cardinality(Passes(m, c)) \in Nat
    <3>1. Passes(m, c) \subseteq HookWorkers /\ IsFiniteSet(HookWorkers)
      BY WebhookAssumption DEF Passes
    <3> QED BY <3>1, FS_Subset, FS_CardinalityType
  <2>2. received[m][c] <= ReadsAllowed + Extra(m)
    BY <2>1, CountsAt
  <2>3. ReadsAllowed \in Nat /\ blind \in Nat /\ Cardinality(late[m]) \in Nat
    BY CountsAt, ExtraIsNat DEF WebhookInv
  <2> QED BY <2>2, <2>3 DEF Extra
<1> QED BY <1>1, WebhookStart, WebhookStep, LateStep, PTL DEF WebhookSpec

-----------------------------------------------------------------------------
(* Bulk batches: types *)

Submissions == [pc : {"reserve", "files", "giveFiles", "giveBatch", "create", "enqueue", "release"},
                key : BatchKeys, reserved : BOOLEAN]
JobsAtWork == [pc : {"check", "claim", "process", "requeue", "complete", "emit", "ack"},
               file : AllFiles, n : 1..MaxJobs, attempt : Nat, won : BOOLEAN]

BulkTypeOK ==
    /\ bulkBatch \in [BatchKeys -> {"none", "queued", "completed"}]
    /\ fileStatus \in [AllFiles -> {"none", "queued", "running"} \cup FILE_TERMINAL_STATUSES]
    /\ fileAttempts \in [AllFiles -> Nat]
    /\ job \in [AllFiles -> [1..MaxJobs -> {"none", "new", "pending", "acked"}]]
    /\ submitting \in [Submitters -> {NoSubmit} \cup Submissions]
    /\ bulkWorker \in [BulkWorkers -> {NoJob} \cup JobsAtWork]
    /\ batchSlots \in Int
    /\ accepted \in [BatchKeys -> Nat] /\ completions \in [BatchKeys -> Nat]
    /\ unreserved \subseteq BatchKeys /\ shared \subseteq AllFiles

\* A file is of one batch.
LEMMA BatchOfFile ==
    ASSUME NEW b \in BatchKeys, NEW f \in Files[b]
    PROVE  f \in AllFiles /\ BatchOf(f) = b
<1>1. f \in AllFiles
  BY DEF AllFiles
<1>2. BatchOf(f) \in BatchKeys /\ f \in Files[BatchOf(f)]
  BY DEF BatchOf
<1> QED BY <1>1, <1>2, BulkAssumption

LEMMA FileHasBatch ==
    ASSUME NEW f \in AllFiles
    PROVE  BatchOf(f) \in BatchKeys /\ f \in Files[BatchOf(f)]
<1>1. \E b \in BatchKeys : f \in Files[b]
  BY DEF AllFiles
<1> QED BY <1>1 DEF BatchOf

\* A record of a request or of a worker.
LEMMA SubmissionAtWork ==
    ASSUME BulkTypeOK, NEW s \in Submitters, submitting[s].pc # "idle"
    PROVE  submitting[s] \in Submissions /\ submitting[s].key \in BatchKeys
BY DEF BulkTypeOK, NoSubmit, Submissions

LEMMA WorkerAtWork ==
    ASSUME BulkTypeOK, NEW w \in BulkWorkers, bulkWorker[w].pc # "idle"
    PROVE  /\ bulkWorker[w] \in JobsAtWork /\ FileOf(w) \in AllFiles
           /\ bulkWorker[w].n \in 1..MaxJobs /\ bulkWorker[w].attempt \in Nat
           /\ bulkWorker[w].won \in BOOLEAN
BY DEF BulkTypeOK, NoJob, JobsAtWork, FileOf

\* One XADD puts one job that was not there on the stream, if one is free.
LEMMA EnqueuedOne ==
    ASSUME BulkTypeOK, NEW f \in AllFiles
    PROVE  /\ Enqueued(f, job) \in [AllFiles -> [1..MaxJobs -> {"none", "new", "pending", "acked"}]]
           /\ \A g \in AllFiles \ {f} : Enqueued(f, job)[g] = job[g]
           /\ (\E n \in 1..MaxJobs : job[f][n] = "none") =>
                 \E n \in 1..MaxJobs :
                    /\ job[f][n] = "none" /\ Enqueued(f, job)[f][n] = "new"
                    /\ \A m \in (1..MaxJobs) \ {n} : Enqueued(f, job)[f][m] = job[f][m]
           /\ (\A n \in 1..MaxJobs : job[f][n] # "none") => Enqueued(f, job) = job
<1> DEFINE free == {n \in 1..MaxJobs : job[f][n] = "none"}
<1>1. CASE free = {}
  BY <1>1 DEF Enqueued, BulkTypeOK
<1>2. CASE free # {}
  <2>1. free \subseteq Nat
    OBVIOUS
  <2>2. PICK k \in free : \A m \in free : k <= m
    BY <1>2, <2>1, LeastNat
  <2>3. Min(free) \in free
    BY <2>2 DEF Min
  <2>4. PICK n \in free : n = Min(free)
    BY <2>3
  <2>5. Enqueued(f, job) = [job EXCEPT ![f][n] = "new"]
    BY <1>2, <2>4 DEF Enqueued
  <2> HIDE DEF free
  <2>6. n \in 1..MaxJobs /\ job[f][n] = "none"
    BY <2>4 DEF free
  <2>7. /\ Enqueued(f, job) \in [AllFiles -> [1..MaxJobs -> {"none", "new", "pending", "acked"}]]
        /\ \A g \in AllFiles \ {f} : Enqueued(f, job)[g] = job[g]
    BY <2>5, <2>6 DEF BulkTypeOK
  <2>8. /\ Enqueued(f, job)[f][n] = "new"
        /\ \A m \in (1..MaxJobs) \ {n} : Enqueued(f, job)[f][m] = job[f][m]
    BY <2>5, <2>6 DEF BulkTypeOK
  <2> QED BY <2>6, <2>7, <2>8
<1> QED BY <1>1, <1>2

\* A request goes to its next step, or ends.
LEMMA SubmitMoves ==
    ASSUME BulkTypeOK, NEW s \in Submitters, submitting[s].pc # "idle",
           NEW p \in {"files", "giveFiles", "giveBatch", "create", "enqueue", "release"}, SubmitGoTo(s, p)
    PROVE  /\ submitting' \in [Submitters -> {NoSubmit} \cup Submissions]
           /\ submitting'[s].pc = p /\ submitting'[s].key = submitting[s].key
           /\ submitting'[s].reserved = submitting[s].reserved
           /\ \A t \in Submitters \ {s} : submitting'[t] = submitting[t]
BY SubmissionAtWork DEF SubmitGoTo, BulkTypeOK, Submissions

LEMMA SubmitEnds ==
    ASSUME BulkTypeOK, NEW s \in Submitters, EndSubmit(s)
    PROVE  /\ submitting' \in [Submitters -> {NoSubmit} \cup Submissions]
           /\ submitting'[s].pc = "idle"
           /\ \A t \in Submitters \ {s} : submitting'[t] = submitting[t]
BY DEF EndSubmit, BulkTypeOK, NoSubmit

\* A worker goes to its next step, or ends.
LEMMA WorkGoes ==
    ASSUME BulkTypeOK, NEW w \in BulkWorkers, bulkWorker[w].pc # "idle",
           NEW p \in {"claim", "process", "requeue", "complete", "emit", "ack"}, WorkGoTo(w, p)
    PROVE  /\ bulkWorker' \in [BulkWorkers -> {NoJob} \cup JobsAtWork]
           /\ bulkWorker'[w].pc = p /\ bulkWorker'[w].file = bulkWorker[w].file
           /\ bulkWorker'[w].n = bulkWorker[w].n /\ bulkWorker'[w].won = bulkWorker[w].won
           /\ \A v \in BulkWorkers \ {w} : bulkWorker'[v] = bulkWorker[v]
BY WorkerAtWork DEF WorkGoTo, BulkTypeOK, JobsAtWork

LEMMA WorkEnds ==
    ASSUME BulkTypeOK, NEW w \in BulkWorkers, bulkWorker' = [bulkWorker EXCEPT ![w] = NoJob]
    PROVE  /\ bulkWorker' \in [BulkWorkers -> {NoJob} \cup JobsAtWork]
           /\ bulkWorker'[w].pc = "idle"
           /\ \A v \in BulkWorkers \ {w} : bulkWorker'[v] = bulkWorker[v]
BY DEF BulkTypeOK, NoJob

-----------------------------------------------------------------------------
(* Bulk batches: one request makes the batch, one worker completes it *)

\* A batch has jobs and an answer only once it is made, and its maker makes them alone.
MadeOnce ==
    /\ \A b \in BatchKeys :
          /\ accepted[b] <= 1
          /\ bulkBatch[b] = "none" =>
                accepted[b] = 0 /\ \A f \in Files[b], n \in 1..MaxJobs : job[f][n] = "none"
    /\ \A s \in Submitters : submitting[s].pc = "enqueue" =>
          /\ bulkBatch[submitting[s].key] # "none" /\ accepted[submitting[s].key] = 0
          /\ \A f \in Files[submitting[s].key], n \in 1..MaxJobs : job[f][n] = "none"
    /\ \A s, t \in Submitters :
          submitting[s].pc = "enqueue" /\ submitting[t].pc = "enqueue"
             /\ submitting[s].key = submitting[t].key => s = t

\* A worker is at a job that was read.
JobsWereRead ==
    \A w \in BulkWorkers : bulkWorker[w].pc # "idle" =>
        job[FileOf(w)][bulkWorker[w].n] \in {"pending", "acked"}

\* Who moved the batch has it alone, until it has announced the completion.
Won(w) == bulkWorker[w].pc = "emit" /\ bulkWorker[w].won
CompletedAlone ==
    /\ \A b \in BatchKeys :
          completions[b] <= 1 /\ (completions[b] # 0 => bulkBatch[b] = "completed")
    /\ \A w \in BulkWorkers : Won(w) =>
          bulkBatch[BatchOf(FileOf(w))] = "completed" /\ completions[BatchOf(FileOf(w))] = 0
    /\ \A v, w \in BulkWorkers :
          Won(v) /\ Won(w) /\ BatchOf(FileOf(v)) = BatchOf(FileOf(w)) => v = w

\* A file that is not settled has a job that nobody has read or whose reader died, or a
\* worker that will settle it or put a new job on the stream.
Unread(f) ==
    \E n \in 1..MaxJobs :
        /\ job[f][n] \in {"new", "pending"}
        /\ \A w \in BulkWorkers :
              ~(bulkWorker[w].pc # "idle" /\ FileOf(w) = f /\ bulkWorker[w].n = n)
AtFile(w, f) ==
    bulkWorker[w].pc \in {"check", "claim", "process", "requeue"} /\ FileOf(w) = f
Attended(f) ==
    \/ fileStatus[f] \in FILE_TERMINAL_STATUSES \/ f \in shared
    \/ Unread(f) \/ \E w \in BulkWorkers : AtFile(w, f)
AllAttended == \A b \in BatchKeys : accepted[b] > 0 => \A f \in Files[b] : Attended(f)

\* What holds one of the tenant's slots: a batch that is not completed, a request that
\* was let in and has not made its batch, a worker that has still to give one back; and,
\* until it has given it back, a request that was refused.
Slots == ({"b"} \X BatchKeys) \cup ({"s"} \X Submitters) \cup ({"w"} \X BulkWorkers)
Taken ==
    {x \in Slots : \/ x[1] = "b" /\ bulkBatch[x[2]] = "queued"
                   \/ /\ x[1] = "s"
                      /\ submitting[x[2]].pc \in {"files", "giveFiles", "create", "release"}
                   \/ x[1] = "w" /\ Won(x[2])}
Held == Taken \cup {x \in Slots : x[1] = "s" /\ submitting[x[2]].pc = "giveBatch"}
AllReserved == \A s \in Submitters : submitting[s].pc # "idle" => submitting[s].reserved
SlotsHeld ==
    unreserved = {} =>
        /\ Cardinality(Held) <= batchSlots /\ Cardinality(Taken) <= BatchSlots
        /\ AllReserved

BulkInv ==
    /\ BulkTypeOK /\ MadeOnce /\ JobsWereRead /\ CompletedAlone /\ AllAttended /\ SlotsHeld

\* There are finitely many holders.
LEMMA SlotsFinite ==
    ASSUME NEW S, S \subseteq Slots
    PROVE  IsFiniteSet(S) /\ Cardinality(S) \in Nat
<1>1. IsFiniteSet({"b"}) /\ IsFiniteSet({"s"}) /\ IsFiniteSet({"w"})
  BY FS_Singleton
<1>2. /\ IsFiniteSet({"b"} \X BatchKeys) /\ IsFiniteSet({"s"} \X Submitters)
      /\ IsFiniteSet({"w"} \X BulkWorkers)
  BY <1>1, BulkAssumption, FS_Product
<1>3. IsFiniteSet(Slots)
  BY <1>2, FS_Union DEF Slots
<1> QED BY <1>3, FS_Subset, FS_CardinalityType

LEMMA FewerHolders ==
    ASSUME NEW S, S \subseteq Slots, NEW T, T \subseteq S
    PROVE  Cardinality(T) <= Cardinality(S) /\ Cardinality(T) \in Nat /\ Cardinality(S) \in Nat
BY SlotsFinite, FS_Subset

\* One holder leaves.
LEMMA HolderLeaves ==
    ASSUME NEW S, S \subseteq Slots, NEW x \in S, NEW T, T \subseteq S \ {x}
    PROVE  Cardinality(T) <= Cardinality(S) - 1 /\ Cardinality(T) \in Nat /\ Cardinality(S) \in Nat
<1>1. IsFiniteSet(S) /\ Cardinality(S) \in Nat
  BY SlotsFinite
<1>2. Cardinality(S \ {x}) = Cardinality(S) - 1
  BY <1>1, FS_RemoveElement
<1>3. S \ {x} \subseteq Slots
  OBVIOUS
<1>4. Cardinality(T) <= Cardinality(S \ {x}) /\ Cardinality(T) \in Nat
  BY <1>3, FewerHolders
<1> QED BY <1>1, <1>2, <1>4

\* One holder comes.
LEMMA HolderJoins ==
    ASSUME NEW S, S \subseteq Slots, NEW y \in Slots, NEW T, T \subseteq S \cup {y}
    PROVE  Cardinality(T) <= Cardinality(S) + 1 /\ Cardinality(T) \in Nat /\ Cardinality(S) \in Nat
<1>1. IsFiniteSet(S) /\ Cardinality(S) \in Nat
  BY SlotsFinite
<1>2. Cardinality(S \cup {y}) <= Cardinality(S) + 1 /\ Cardinality(S \cup {y}) \in Nat
  <2>1. CASE y \in S
    <3>1. S \cup {y} = S
      BY <2>1
    <3>2. Cardinality(S \cup {y}) = Cardinality(S)
      BY <3>1, Zenon
    <3> QED BY <1>1, <3>2
  <2>2. CASE y \notin S
    <3>1. Cardinality(S \cup {y}) = Cardinality(S) + 1
      BY <1>1, <2>2, FS_AddElement
    <3> QED BY <1>1, <3>1
  <2> QED BY <2>1, <2>2
<1>3. S \cup {y} \subseteq Slots
  OBVIOUS
<1>4. Cardinality(T) <= Cardinality(S \cup {y}) /\ Cardinality(T) \in Nat
  BY <1>3, FewerHolders
<1> QED BY <1>1, <1>2, <1>4

\* The slots when holders only leave, when one gives its slot to another, and when one
\* gives it back.
LEMMA SlotsFewer ==
    ASSUME BulkTypeOK, SlotsHeld, unreserved' = unreserved, batchSlots' = batchSlots,
           Held' \subseteq Held, Taken' \subseteq Taken, AllReserved => AllReserved'
    PROVE  SlotsHeld'
<1>1. Held \subseteq Slots /\ Taken \subseteq Slots
  BY DEF Held, Taken
<1>2. /\ Cardinality(Held') <= Cardinality(Held) /\ Cardinality(Held') \in Nat
      /\ Cardinality(Held) \in Nat
  BY <1>1, FewerHolders
<1>3. /\ Cardinality(Taken') <= Cardinality(Taken) /\ Cardinality(Taken') \in Nat
      /\ Cardinality(Taken) \in Nat
  BY <1>1, FewerHolders
<1>4. SUFFICES ASSUME unreserved = {} PROVE SlotsHeld'
  BY DEF SlotsHeld
<1>5. Cardinality(Held) <= batchSlots /\ Cardinality(Taken) <= BatchSlots /\ AllReserved
  BY <1>4 DEF SlotsHeld
<1>6. Cardinality(Held') <= batchSlots' /\ Cardinality(Taken') <= BatchSlots
  BY <1>2, <1>3, <1>5, BulkAssumption DEF BulkTypeOK
<1> QED BY <1>5, <1>6 DEF SlotsHeld

LEMMA SlotPassed ==
    ASSUME BulkTypeOK, SlotsHeld, unreserved' = unreserved, batchSlots' = batchSlots,
           NEW x \in Taken, NEW y \in Slots,
           Held' \subseteq (Held \ {x}) \cup {y}, Taken' \subseteq (Taken \ {x}) \cup {y},
           AllReserved => AllReserved'
    PROVE  SlotsHeld'
<1>1. Held \subseteq Slots /\ Taken \subseteq Slots /\ x \in Held
  BY DEF Held, Taken
<1>2. /\ Cardinality(Held \ {x}) <= Cardinality(Held) - 1 /\ Cardinality(Held \ {x}) \in Nat
      /\ Cardinality(Taken \ {x}) <= Cardinality(Taken) - 1 /\ Cardinality(Taken \ {x}) \in Nat
      /\ Cardinality(Held) \in Nat /\ Cardinality(Taken) \in Nat
  BY <1>1, HolderLeaves
<1>3. Held \ {x} \subseteq Slots /\ Taken \ {x} \subseteq Slots
  BY <1>1
<1>4. /\ Cardinality(Held') <= Cardinality(Held \ {x}) + 1 /\ Cardinality(Held') \in Nat
      /\ Cardinality(Taken') <= Cardinality(Taken \ {x}) + 1 /\ Cardinality(Taken') \in Nat
  BY <1>3, HolderJoins
<1>5. Cardinality(Held') <= Cardinality(Held) /\ Cardinality(Taken') <= Cardinality(Taken)
  BY <1>2, <1>4
<1>6. SUFFICES ASSUME unreserved = {} PROVE SlotsHeld'
  BY DEF SlotsHeld
<1>7. Cardinality(Held) <= batchSlots /\ Cardinality(Taken) <= BatchSlots /\ AllReserved
  BY <1>6 DEF SlotsHeld
<1>8. Cardinality(Held') <= batchSlots' /\ Cardinality(Taken') <= BatchSlots
  BY <1>2, <1>4, <1>5, <1>7, BulkAssumption DEF BulkTypeOK
<1> QED BY <1>7, <1>8 DEF SlotsHeld

LEMMA SlotGivenBack ==
    ASSUME BulkTypeOK, SlotsHeld, unreserved' = unreserved,
           NEW x \in Held, Held' \subseteq Held \ {x}, Taken' \subseteq Taken,
           batchSlots' \in {batchSlots - 1, _decr_floor(batchSlots, 1)},
           AllReserved => AllReserved'
    PROVE  SlotsHeld'
<1>1. Held \subseteq Slots /\ Taken \subseteq Slots
  BY DEF Held, Taken
<1>2. /\ Cardinality(Held') <= Cardinality(Held) - 1 /\ Cardinality(Held') \in Nat
      /\ Cardinality(Held) \in Nat
  BY <1>1, HolderLeaves
<1>3. /\ Cardinality(Taken') <= Cardinality(Taken) /\ Cardinality(Taken') \in Nat
      /\ Cardinality(Taken) \in Nat
  BY <1>1, FewerHolders
<1>4. SUFFICES ASSUME unreserved = {} PROVE SlotsHeld'
  BY DEF SlotsHeld
<1>5. Cardinality(Held) <= batchSlots /\ Cardinality(Taken) <= BatchSlots /\ AllReserved
  BY <1>4 DEF SlotsHeld
<1>6. batchSlots \in Int /\ batchSlots >= 1
  BY <1>2, <1>5 DEF BulkTypeOK
<1>7. batchSlots' = batchSlots - 1
  BY <1>6 DEF _decr_floor
<1>8. Cardinality(Held') <= batchSlots' /\ Cardinality(Taken') <= BatchSlots
  BY <1>2, <1>3, <1>5, <1>6, <1>7, BulkAssumption
<1> QED BY <1>5, <1>8 DEF SlotsHeld

-----------------------------------------------------------------------------
(* Bulk batches: the submissions *)

\* A request that makes no batch and no job moves.
LEMMA QuietSubmit ==
    ASSUME BulkInv, NEW s \in Submitters,
           submitting' \in [Submitters -> {NoSubmit} \cup Submissions],
           submitting'[s].pc # "enqueue",
           \A t \in Submitters \ {s} : submitting'[t] = submitting[t],
           UNCHANGED <<bulkBatch, fileStatus, job, accepted>>, workersUnchanged,
           batchSlots' \in Int, unreserved' \subseteq BatchKeys
    PROVE  BulkTypeOK' /\ MadeOnce' /\ JobsWereRead' /\ CompletedAlone' /\ AllAttended'
<1>1. UNCHANGED <<bulkBatch, fileStatus, job, accepted, fileAttempts, bulkWorker, completions, shared>>
  BY DEF workersUnchanged
<1>2. BulkTypeOK'
  BY <1>1 DEF BulkInv, BulkTypeOK
<1>3. MadeOnce'
  <2>1. \A t \in Submitters : submitting'[t].pc = "enqueue" => submitting'[t] = submitting[t]
    OBVIOUS
  <2> QED BY <1>1, <2>1 DEF BulkInv, MadeOnce
<1>4. JobsWereRead' /\ CompletedAlone'
  BY <1>1 DEF BulkInv, JobsWereRead, CompletedAlone, Won, FileOf
<1>5. AllAttended'
  BY <1>1 DEF BulkInv, AllAttended, Attended, Unread, AtFile, FileOf
<1> QED BY <1>2, <1>3, <1>4, <1>5

\* The holders when only requests move.
LEMMA HoldersOfSubmit ==
    ASSUME NEW s \in Submitters, UNCHANGED <<bulkBatch, bulkWorker>>,
           \A t \in Submitters \ {s} : submitting'[t] = submitting[t]
    PROVE  /\ Taken' \subseteq Taken \cup {<<"s", s>>}
           /\ Held' \subseteq Held \cup {<<"s", s>>}
           /\ (submitting'[s].pc \notin {"files", "giveFiles", "create", "release"} =>
                  Taken' \subseteq Taken \ {<<"s", s>>})
           /\ (submitting'[s].pc \notin {"files", "giveFiles", "create", "release", "giveBatch"} =>
                  Held' \subseteq Held \ {<<"s", s>>})
           /\ (submitting[s].pc \in {"files", "giveFiles", "create", "release"} => <<"s", s>> \in Taken)
           /\ (submitting[s].pc \in {"files", "giveFiles", "create", "release", "giveBatch"} =>
                  <<"s", s>> \in Held)
           /\ <<"s", s>> \in Slots
<1>1. \A w : Won(w)' = Won(w)
  BY DEF Won
<1>2. <<"s", s>> \in Slots
  BY DEF Slots
<1>3. ASSUME NEW x \in Taken' PROVE /\ x \in Taken \cup {<<"s", s>>}
                                    /\ submitting'[s].pc \notin {"files", "giveFiles", "create", "release"} =>
                                         x \in Taken \ {<<"s", s>>}
  <2>1. x \in Slots
    BY <1>3 DEF Taken
  <2>2. CASE x = <<"s", s>>
    BY <1>3, <2>2 DEF Taken
  <2>3. CASE x # <<"s", s>>
    BY <1>1, <1>3, <2>1, <2>3 DEF Taken, Slots
  <2> QED BY <2>2, <2>3
<1>4. ASSUME NEW x \in Slots, x \in Held'
      PROVE  /\ x \in Held \cup {<<"s", s>>}
             /\ submitting'[s].pc \notin {"files", "giveFiles", "create", "release", "giveBatch"} =>
                    x \in Held \ {<<"s", s>>}
  <2>1. CASE x = <<"s", s>>
    BY <1>4, <2>1 DEF Held, Taken
  <2>2. CASE x # <<"s", s>>
    BY <1>1, <1>4, <2>2 DEF Held, Taken, Slots
  <2> QED BY <2>1, <2>2
<1>5. Held' \subseteq Slots
  BY DEF Held, Taken
<1> QED BY <1>2, <1>3, <1>4, <1>5 DEF Taken, Held

LEMMA SubmitKeepsBulk ==
    ASSUME BulkInv, NEW s \in Submitters, NEW b \in BatchKeys, submit_batch(s, b)
    PROVE  BulkInv'
<1>1. /\ submitting' \in [Submitters -> {NoSubmit} \cup Submissions]
      /\ submitting'[s].pc \in {"idle", "reserve"}
      /\ submitting'[s].pc # "idle" => submitting'[s].reserved
      /\ \A t \in Submitters \ {s} : submitting'[t] = submitting[t]
  BY DEF submit_batch, BulkInv, BulkTypeOK, NoSubmit, Submissions
<1>2. UNCHANGED <<bulkBatch, fileStatus, job, accepted, batchSlots, unreserved, bulkWorker>> /\ workersUnchanged
  BY DEF submit_batch, workersUnchanged
<1>3. BulkTypeOK' /\ MadeOnce' /\ JobsWereRead' /\ CompletedAlone' /\ AllAttended'
  BY <1>1, <1>2, QuietSubmit DEF BulkInv, BulkTypeOK
<1>4. Taken' \subseteq Taken /\ Held' \subseteq Held
  BY <1>1, <1>2, HoldersOfSubmit
<1>5. AllReserved => AllReserved'
  BY <1>1 DEF AllReserved
<1>6. SlotsHeld'
  BY <1>2, <1>4, <1>5, SlotsFewer DEF BulkInv
<1> QED BY <1>3, <1>6 DEF BulkInv

\* INCR: within the cap the request takes a slot, above it it is refused.
LEMMA ReserveKeepsBulk ==
    ASSUME BulkInv, NEW s \in Submitters, ReserveBatchSlot(s)
    PROVE  BulkInv'
<1>1. PICK p \in {"files", "giveBatch"} :
        p = (IF batchSlots + 1 > BatchSlots THEN "giveBatch" ELSE "files") /\ SubmitGoTo(s, p)
  BY DEF ReserveBatchSlot
<1>2. /\ submitting' \in [Submitters -> {NoSubmit} \cup Submissions]
      /\ submitting[s].pc = "reserve" /\ submitting'[s].pc = p
      /\ submitting'[s].reserved = submitting[s].reserved
      /\ \A t \in Submitters \ {s} : submitting'[t] = submitting[t]
  BY <1>1, SubmitMoves DEF ReserveBatchSlot, BulkInv
<1>3. /\ UNCHANGED <<bulkBatch, fileStatus, job, accepted, unreserved, bulkWorker>>
      /\ workersUnchanged /\ batchSlots' = batchSlots + 1 /\ batchSlots \in Int
      /\ batchSlots' \in Int
  BY DEF ReserveBatchSlot, workersUnchanged, BulkInv, BulkTypeOK
<1>4. BulkTypeOK' /\ MadeOnce' /\ JobsWereRead' /\ CompletedAlone' /\ AllAttended'
  BY <1>2, <1>3, QuietSubmit DEF BulkInv, BulkTypeOK
<1>5. SUFFICES ASSUME unreserved = {} PROVE SlotsHeld'
  BY <1>3, <1>4 DEF BulkInv, SlotsHeld
<1>6. Cardinality(Held) <= batchSlots /\ Cardinality(Taken) <= BatchSlots /\ AllReserved
  BY <1>5 DEF BulkInv, SlotsHeld
<1>7. AllReserved'
  BY <1>2, <1>6 DEF AllReserved
<1>8. Held \subseteq Slots /\ Taken \subseteq Slots
  BY DEF Held, Taken
<1>9. /\ Held' \subseteq Held \cup {<<"s", s>>} /\ <<"s", s>> \in Slots
      /\ p = "giveBatch" => Taken' \subseteq Taken
  BY <1>2, <1>3, HoldersOfSubmit
<1>10. /\ Cardinality(Held') <= Cardinality(Held) + 1 /\ Cardinality(Held') \in Nat
       /\ Cardinality(Held) \in Nat
  BY <1>8, <1>9, HolderJoins
<1>11. Cardinality(Held') <= batchSlots'
  BY <1>3, <1>6, <1>10
<1>12. Cardinality(Taken') <= BatchSlots
  <2>1. CASE p = "giveBatch"
    <3>1. /\ Cardinality(Taken') <= Cardinality(Taken) /\ Cardinality(Taken') \in Nat
          /\ Cardinality(Taken) \in Nat
      BY <1>8, <1>9, <2>1, FewerHolders
    <3> QED BY <1>6, <3>1, BulkAssumption
  <2>2. CASE p = "files"
    <3>1. Taken' \subseteq Held' /\ Held' \subseteq Slots
      BY DEF Held, Taken
    <3>2. Cardinality(Taken') <= Cardinality(Held') /\ Cardinality(Taken') \in Nat
      BY <3>1, FewerHolders
    <3>3. batchSlots' <= BatchSlots
      BY <1>1, <1>3, <2>2, BulkAssumption
    <3> QED BY <1>3, <1>10, <1>11, <3>2, <3>3, BulkAssumption
  <2> QED BY <2>1, <2>2
<1> QED BY <1>7, <1>11, <1>12 DEF SlotsHeld

LEMMA FilesKeepBulk ==
    ASSUME BulkInv, NEW s \in Submitters, ReserveFileSlots(s)
    PROVE  BulkInv'
<1>1. PICK p \in {"giveFiles", "create"} : SubmitGoTo(s, p)
  BY DEF ReserveFileSlots
<1>2. /\ submitting' \in [Submitters -> {NoSubmit} \cup Submissions]
      /\ submitting[s].pc = "files" /\ submitting'[s].pc = p
      /\ submitting'[s].reserved = submitting[s].reserved
      /\ \A t \in Submitters \ {s} : submitting'[t] = submitting[t]
  BY <1>1, SubmitMoves DEF ReserveFileSlots, BulkInv
<1>3. /\ UNCHANGED <<bulkBatch, fileStatus, job, accepted, batchSlots, unreserved, bulkWorker>>
      /\ workersUnchanged
  BY DEF ReserveFileSlots, workersUnchanged
<1>4. BulkTypeOK' /\ MadeOnce' /\ JobsWereRead' /\ CompletedAlone' /\ AllAttended'
  BY <1>2, <1>3, QuietSubmit DEF BulkInv, BulkTypeOK
<1>5. Taken' \subseteq Taken /\ Held' \subseteq Held
  BY <1>2, <1>3, HoldersOfSubmit
<1>6. AllReserved => AllReserved'
  BY <1>2 DEF AllReserved
<1>7. SlotsHeld'
  BY <1>3, <1>5, <1>6, SlotsFewer DEF BulkInv
<1> QED BY <1>4, <1>7 DEF BulkInv

LEMMA GiveBackKeepsBulk ==
    ASSUME BulkInv, NEW s \in Submitters, GiveBack(s)
    PROVE  BulkInv'
<1>1. UNCHANGED <<bulkBatch, fileStatus, job, accepted, unreserved, bulkWorker>> /\ workersUnchanged
  BY DEF GiveBack, workersUnchanged
<1>2. CASE submitting[s].pc = "giveFiles"
  <2>1. SubmitGoTo(s, "giveBatch") /\ batchSlots' = batchSlots
    BY <1>2 DEF GiveBack
  <2>2. /\ submitting' \in [Submitters -> {NoSubmit} \cup Submissions]
        /\ submitting'[s].pc = "giveBatch"
        /\ submitting'[s].reserved = submitting[s].reserved
        /\ \A t \in Submitters \ {s} : submitting'[t] = submitting[t]
    BY <1>2, <2>1, SubmitMoves DEF BulkInv
  <2>3. BulkTypeOK' /\ MadeOnce' /\ JobsWereRead' /\ CompletedAlone' /\ AllAttended'
    BY <1>1, <2>1, <2>2, QuietSubmit DEF BulkInv, BulkTypeOK
  <2>4. Taken' \subseteq Taken /\ Held' \subseteq Held
    BY <1>1, <1>2, <2>2, HoldersOfSubmit
  <2>5. AllReserved => AllReserved'
    BY <1>2, <2>2 DEF AllReserved
  <2>6. SlotsHeld'
    BY <1>1, <2>1, <2>4, <2>5, SlotsFewer DEF BulkInv
  <2> QED BY <2>3, <2>6 DEF BulkInv
<1>3. CASE submitting[s].pc = "giveBatch"
  <2>1. EndSubmit(s) /\ batchSlots' = batchSlots - 1 /\ batchSlots' \in Int
    BY <1>3 DEF GiveBack, BulkInv, BulkTypeOK
  <2>2. /\ submitting' \in [Submitters -> {NoSubmit} \cup Submissions]
        /\ submitting'[s].pc = "idle"
        /\ \A t \in Submitters \ {s} : submitting'[t] = submitting[t]
    BY <2>1, SubmitEnds DEF BulkInv
  <2>3. BulkTypeOK' /\ MadeOnce' /\ JobsWereRead' /\ CompletedAlone' /\ AllAttended'
    BY <1>1, <2>1, <2>2, QuietSubmit DEF BulkInv, BulkTypeOK
  <2>4. Taken' \subseteq Taken /\ Held' \subseteq Held \ {<<"s", s>>} /\ <<"s", s>> \in Held
    BY <1>1, <1>3, <2>2, HoldersOfSubmit
  <2>5. AllReserved => AllReserved'
    BY <2>2 DEF AllReserved
  <2>6. SlotsHeld'
    BY <1>1, <2>1, <2>4, <2>5, SlotGivenBack DEF BulkInv
  <2> QED BY <2>3, <2>6 DEF BulkInv
<1> QED BY <1>2, <1>3 DEF GiveBack

LEMMA FailOpenKeepsBulk ==
    ASSUME BulkInv, NEW s \in Submitters, ReserveFailsOpen(s)
    PROVE  BulkInv'
<1>1. submitting[s] \in Submissions /\ submitting[s].key \in BatchKeys
  BY SubmissionAtWork DEF ReserveFailsOpen, BulkInv
<1>2. /\ submitting' \in [Submitters -> {NoSubmit} \cup Submissions]
      /\ submitting'[s].pc = "create"
      /\ \A t \in Submitters \ {s} : submitting'[t] = submitting[t]
  BY <1>1 DEF ReserveFailsOpen, BulkInv, BulkTypeOK, Submissions
<1>3. /\ UNCHANGED <<bulkBatch, fileStatus, job, accepted, batchSlots>> /\ workersUnchanged
      /\ unreserved' = unreserved \cup {submitting[s].key}
  BY DEF ReserveFailsOpen
<1>4. BulkTypeOK' /\ MadeOnce' /\ JobsWereRead' /\ CompletedAlone' /\ AllAttended'
  BY <1>1, <1>2, <1>3, QuietSubmit DEF BulkInv, BulkTypeOK
<1>5. SlotsHeld'
  BY <1>3 DEF SlotsHeld
<1> QED BY <1>4, <1>5 DEF BulkInv

LEMMA EndKeepsBulk ==
    ASSUME BulkInv, NEW s \in Submitters, release_reservation(s) \/ SubmitDies(s)
    PROVE  BulkInv'
<1>1. /\ UNCHANGED <<bulkBatch, fileStatus, job, accepted, unreserved, bulkWorker>> /\ workersUnchanged
      /\ EndSubmit(s)
  BY DEF release_reservation, SubmitDies, workersUnchanged
<1>2. batchSlots' \in {batchSlots, _decr_floor(batchSlots, 1)} /\ batchSlots' \in Int
  BY DEF release_reservation, SubmitDies, _decr_floor, BulkInv, BulkTypeOK
<1>3. /\ submitting' \in [Submitters -> {NoSubmit} \cup Submissions]
      /\ submitting'[s].pc = "idle"
      /\ \A t \in Submitters \ {s} : submitting'[t] = submitting[t]
  BY <1>1, SubmitEnds DEF BulkInv
<1>4. BulkTypeOK' /\ MadeOnce' /\ JobsWereRead' /\ CompletedAlone' /\ AllAttended'
  BY <1>1, <1>2, <1>3, QuietSubmit DEF BulkInv, BulkTypeOK
<1>5. /\ Taken' \subseteq Taken /\ Held' \subseteq Held /\ Held' \subseteq Held \ {<<"s", s>>}
      /\ submitting[s].pc = "release" => <<"s", s>> \in Held
  BY <1>1, <1>3, HoldersOfSubmit
<1>6. AllReserved => AllReserved'
  BY <1>3 DEF AllReserved
<1>7. CASE SubmitDies(s)
  <2>1. SlotsHeld'
    BY <1>1, <1>5, <1>6, <1>7, SlotsFewer DEF BulkInv, SubmitDies
  <2> QED BY <1>4, <2>1 DEF BulkInv
<1>8. CASE release_reservation(s)
  <2>1. submitting[s].pc = "release" /\ batchSlots' = _decr_floor(batchSlots, 1)
    BY <1>8 DEF release_reservation
  <2>2. SlotsHeld'
    BY <1>1, <1>5, <1>6, <2>1, SlotGivenBack DEF BulkInv
  <2> QED BY <1>4, <2>2 DEF BulkInv
<1> QED BY <1>7, <1>8

\* The request that makes the batch hands its slot to it.
LEMMA CreateKeepsBulk ==
    ASSUME BulkInv, NEW s \in Submitters, _create_or_get(s)
    PROVE  BulkInv'
<1>1. PICK b \in BatchKeys : b = submitting[s].key
  BY SubmissionAtWork DEF _create_or_get, BulkInv
<1>2. /\ submitting[s].pc = "create" /\ workersUnchanged
      /\ UNCHANGED <<job, accepted, batchSlots, unreserved>>
  BY DEF _create_or_get
<1>3. UNCHANGED <<bulkWorker, completions, shared, fileAttempts>>
  BY <1>2 DEF workersUnchanged
<1>4. CASE bulkBatch[b] # "none"
  <2>1. UNCHANGED <<bulkBatch, fileStatus>> /\ (SubmitGoTo(s, "release") \/ EndSubmit(s))
    BY <1>1, <1>4 DEF _create_or_get
  <2>2. /\ submitting' \in [Submitters -> {NoSubmit} \cup Submissions]
        /\ submitting'[s].pc \in {"idle", "release"}
        /\ submitting'[s].pc # "idle" => submitting'[s].reserved = submitting[s].reserved
        /\ \A t \in Submitters \ {s} : submitting'[t] = submitting[t]
    BY <1>2, <2>1, SubmitMoves, SubmitEnds DEF BulkInv
  <2>3. batchSlots' \in Int /\ unreserved' \subseteq BatchKeys
    BY <1>2 DEF BulkInv, BulkTypeOK
  <2>4. BulkTypeOK' /\ MadeOnce' /\ JobsWereRead' /\ CompletedAlone' /\ AllAttended'
    BY <1>2, <2>1, <2>2, <2>3, QuietSubmit
  <2>5. Taken' \subseteq Taken /\ Held' \subseteq Held
    BY <1>2, <1>3, <2>1, <2>2, HoldersOfSubmit
  <2>6. AllReserved => AllReserved'
    BY <1>2, <2>2 DEF AllReserved
  <2>7. SlotsHeld'
    BY <1>2, <2>5, <2>6, SlotsFewer DEF BulkInv
  <2> QED BY <2>4, <2>7 DEF BulkInv
<1>5. CASE bulkBatch[b] = "none"
  <2>1. /\ bulkBatch' = [bulkBatch EXCEPT ![b] = "queued"] /\ SubmitGoTo(s, "enqueue")
        /\ fileStatus' = [f \in AllFiles |-> IF f \in Files[b] THEN "queued" ELSE fileStatus[f]]
    BY <1>1, <1>5 DEF _create_or_get
  <2>2. /\ submitting' \in [Submitters -> {NoSubmit} \cup Submissions]
        /\ submitting'[s].pc = "enqueue" /\ submitting'[s].key = b
        /\ submitting'[s].reserved = submitting[s].reserved
        /\ \A t \in Submitters \ {s} : submitting'[t] = submitting[t]
    BY <1>1, <1>2, <2>1, SubmitMoves DEF BulkInv
  <2>3. /\ bulkBatch'[b] = "queued" /\ \A c \in BatchKeys \ {b} : bulkBatch'[c] = bulkBatch[c]
        /\ bulkBatch' \in [BatchKeys -> {"none", "queued", "completed"}]
    BY <2>1 DEF BulkInv, BulkTypeOK
  <2>4. fileStatus' \in [AllFiles -> {"none", "queued", "running"} \cup FILE_TERMINAL_STATUSES]
    BY <2>1 DEF BulkInv, BulkTypeOK
  <2>5. BulkTypeOK'
    BY <1>2, <1>3, <2>2, <2>3, <2>4 DEF BulkInv, BulkTypeOK
  <2>6. accepted[b] = 0 /\ \A f \in Files[b], n \in 1..MaxJobs : job[f][n] = "none"
    BY <1>5 DEF BulkInv, MadeOnce
  <2>7. \A t \in Submitters \ {s} : submitting[t].pc = "enqueue" => submitting[t].key # b
    BY <1>5 DEF BulkInv, MadeOnce
  <2>8. MadeOnce'
    <3>1. \A c \in BatchKeys :
            /\ accepted'[c] <= 1
            /\ bulkBatch'[c] = "none" =>
                  accepted'[c] = 0 /\ \A f \in Files[c], n \in 1..MaxJobs : job'[f][n] = "none"
      BY <1>2, <2>3 DEF BulkInv, MadeOnce
    <3>2. ASSUME NEW t \in Submitters, submitting'[t].pc = "enqueue"
          PROVE  /\ bulkBatch'[submitting'[t].key] # "none" /\ accepted'[submitting'[t].key] = 0
                 /\ \A f \in Files[submitting'[t].key], n \in 1..MaxJobs : job'[f][n] = "none"
      <4>1. CASE t = s
        BY <1>2, <2>2, <2>3, <2>6, <4>1
      <4>2. CASE t # s
        <5>1. submitting'[t] = submitting[t] /\ submitting[t].key \in BatchKeys \ {b}
          BY <2>2, <2>7, <3>2, <4>2, SubmissionAtWork DEF BulkInv
        <5> QED BY <1>2, <2>3, <3>2, <5>1 DEF BulkInv, MadeOnce
      <4> QED BY <4>1, <4>2
    <3>3. \A t, u \in Submitters :
            submitting'[t].pc = "enqueue" /\ submitting'[u].pc = "enqueue"
               /\ submitting'[t].key = submitting'[u].key => t = u
      BY <2>2, <2>7 DEF BulkInv, MadeOnce
    <3> QED BY <3>1, <3>2, <3>3 DEF MadeOnce
  <2>9. JobsWereRead'
    BY <1>2, <1>3 DEF BulkInv, JobsWereRead, FileOf
  <2>10. CompletedAlone'
    <3>1. \A w \in BulkWorkers : Won(w) => BatchOf(FileOf(w)) \in BatchKeys \ {b}
      BY <1>5, WorkerAtWork, FileHasBatch DEF BulkInv, CompletedAlone, Won
    <3>2. \A w \in BulkWorkers : Won(w)' = Won(w) /\ FileOf(w)' = FileOf(w)
      BY <1>3 DEF Won, FileOf
    <3>3. \A c \in BatchKeys :
            completions'[c] <= 1 /\ (completions'[c] # 0 => bulkBatch'[c] = "completed")
      BY <1>3, <1>5, <2>3 DEF BulkInv, CompletedAlone
    <3> QED BY <1>3, <2>3, <3>1, <3>2, <3>3 DEF BulkInv, CompletedAlone
  <2>11. AllAttended'
    <3> SUFFICES ASSUME NEW c \in BatchKeys, accepted'[c] > 0, NEW f \in Files[c]
                 PROVE  Attended(f)'
      BY DEF AllAttended
    <3>1. c # b /\ accepted[c] > 0
      BY <1>2, <2>6
    <3>2. f \in AllFiles /\ f \notin Files[b]
      BY <3>1, BatchOfFile
    <3>3. fileStatus'[f] = fileStatus[f]
      BY <2>1, <3>2
    <3>4. Attended(f)
      BY <3>1 DEF BulkInv, AllAttended
    <3> QED BY <1>2, <1>3, <3>3, <3>4 DEF Attended, Unread, AtFile, FileOf
  <2>12. SlotsHeld'
    <3>1. <<"s", s>> \in Taken /\ <<"b", b>> \in Slots
      BY <1>2 DEF Taken, Slots
    <3>2. \A w : Won(w)' = Won(w)
      BY <1>3 DEF Won
    <3>3. Taken' \subseteq (Taken \ {<<"s", s>>}) \cup {<<"b", b>>}
      BY <2>2, <2>3, <3>2 DEF Taken, Slots
    <3>4. Held' \subseteq (Held \ {<<"s", s>>}) \cup {<<"b", b>>}
      BY <2>2, <3>3 DEF Held, Taken, Slots
    <3>5. AllReserved => AllReserved'
      BY <1>2, <2>2 DEF AllReserved
    <3> QED BY <1>2, <3>1, <3>3, <3>4, <3>5, SlotPassed DEF BulkInv
  <2> QED BY <2>5, <2>8, <2>9, <2>10, <2>11, <2>12 DEF BulkInv
<1> QED BY <1>4, <1>5

\* Every file gets its first job.
LEMMA EnqueueKeepsBulk ==
    ASSUME BulkInv, NEW s \in Submitters, enqueue_files(s)
    PROVE  BulkInv'
<1>1. PICK b \in BatchKeys : b = submitting[s].key
  BY SubmissionAtWork DEF enqueue_files, BulkInv
<1>2. /\ submitting[s].pc = "enqueue" /\ EndSubmit(s)
      /\ job' = [f \in AllFiles |-> IF f \in Files[b] THEN Enqueued(f, job)[f] ELSE job[f]]
      /\ accepted' = [accepted EXCEPT ![b] = @ + 1]
      /\ UNCHANGED <<bulkBatch, fileStatus, fileAttempts, bulkWorker, completions, shared, batchSlots, unreserved>>
  BY <1>1 DEF enqueue_files, workersUnchanged
<1>3. /\ submitting' \in [Submitters -> {NoSubmit} \cup Submissions]
      /\ submitting'[s].pc = "idle"
      /\ \A t \in Submitters \ {s} : submitting'[t] = submitting[t]
  BY <1>2, SubmitEnds DEF BulkInv
<1>4. /\ bulkBatch[b] # "none" /\ accepted[b] = 0
      /\ \A f \in Files[b], n \in 1..MaxJobs : job[f][n] = "none"
      /\ \A t \in Submitters \ {s} : submitting[t].pc = "enqueue" => submitting[t].key # b
  BY <1>1, <1>2 DEF BulkInv, MadeOnce
<1>5. /\ job' \in [AllFiles -> [1..MaxJobs -> {"none", "new", "pending", "acked"}]]
      /\ \A f \in AllFiles : f \notin Files[b] => job'[f] = job[f]
      /\ \A f \in Files[b] : f \in AllFiles /\ \E n \in 1..MaxJobs : job'[f][n] = "new"
  <2>1. \A f \in Files[b] : f \in AllFiles
    BY BatchOfFile
  <2>2. 1 \in 1..MaxJobs
    BY BulkAssumption
  <2>3. ASSUME NEW f \in Files[b] PROVE \E n \in 1..MaxJobs : job'[f][n] = "new"
    <3>1. \E n \in 1..MaxJobs : Enqueued(f, job)[f][n] = "new"
      BY <1>4, <2>1, <2>2, EnqueuedOne DEF BulkInv
    <3> QED BY <1>2, <2>1, <3>1
  <2>4. \A f \in AllFiles : Enqueued(f, job)[f] \in [1..MaxJobs -> {"none", "new", "pending", "acked"}]
    BY EnqueuedOne DEF BulkInv
  <2> QED BY <1>2, <2>1, <2>3, <2>4 DEF BulkInv, BulkTypeOK
<1>6. /\ accepted'[b] = 1 /\ \A c \in BatchKeys \ {b} : accepted'[c] = accepted[c]
      /\ accepted' \in [BatchKeys -> Nat]
  BY <1>2, <1>4 DEF BulkInv, BulkTypeOK
<1>7. BulkTypeOK'
  BY <1>2, <1>3, <1>5, <1>6 DEF BulkInv, BulkTypeOK
<1>8. \A c \in BatchKeys \ {b} : \A f \in Files[c] : f \in AllFiles /\ job'[f] = job[f]
  BY <1>5, BatchOfFile
<1>9. MadeOnce'
  <2>1. ASSUME NEW c \in BatchKeys
        PROVE  /\ accepted'[c] <= 1
               /\ bulkBatch'[c] = "none" =>
                     accepted'[c] = 0 /\ \A f \in Files[c], n \in 1..MaxJobs : job'[f][n] = "none"
    BY <1>2, <1>4, <1>6, <1>8 DEF BulkInv, MadeOnce
  <2>2. ASSUME NEW t \in Submitters, submitting'[t].pc = "enqueue"
        PROVE  /\ bulkBatch'[submitting'[t].key] # "none" /\ accepted'[submitting'[t].key] = 0
               /\ \A f \in Files[submitting'[t].key], n \in 1..MaxJobs : job'[f][n] = "none"
    <3>1. submitting'[t] = submitting[t] /\ submitting[t].key \in BatchKeys \ {b} /\ submitting[t].pc = "enqueue"
      BY <1>3, <1>4, <2>2, SubmissionAtWork DEF BulkInv
    <3> QED BY <1>2, <1>6, <1>8, <3>1 DEF BulkInv, MadeOnce
  <2>3. \A t, u \in Submitters :
          submitting'[t].pc = "enqueue" /\ submitting'[u].pc = "enqueue"
             /\ submitting'[t].key = submitting'[u].key => t = u
    BY <1>3 DEF BulkInv, MadeOnce
  <2> QED BY <2>1, <2>2, <2>3 DEF MadeOnce
<1>10. \A w \in BulkWorkers : bulkWorker[w].pc # "idle" => FileOf(w) \in AllFiles /\ FileOf(w) \notin Files[b]
  BY <1>4, WorkerAtWork DEF BulkInv, JobsWereRead
<1>11. JobsWereRead'
  BY <1>2, <1>5, <1>10 DEF BulkInv, JobsWereRead, FileOf
<1>12. CompletedAlone'
  BY <1>2 DEF BulkInv, CompletedAlone, Won, FileOf
<1>13. AllAttended'
  <2> SUFFICES ASSUME NEW c \in BatchKeys, accepted'[c] > 0, NEW f \in Files[c]
               PROVE  Attended(f)'
    BY DEF AllAttended
  <2>1. CASE c = b
    <3>1. PICK n \in 1..MaxJobs : job'[f][n] = "new"
      BY <1>5, <2>1
    <3>2. \A w \in BulkWorkers : ~(bulkWorker'[w].pc # "idle" /\ FileOf(w)' = f)
      BY <1>2, <1>10, <2>1 DEF FileOf
    <3> QED BY <3>1, <3>2 DEF Attended, Unread
  <2>2. CASE c # b
    <3>1. Attended(f) /\ job'[f] = job[f]
      BY <1>6, <1>8, <2>2 DEF BulkInv, AllAttended
    <3> QED BY <1>2, <3>1 DEF Attended, Unread, AtFile, FileOf
  <2> QED BY <2>1, <2>2
<1>14. SlotsHeld'
  <2>1. Taken' \subseteq Taken /\ Held' \subseteq Held
    BY <1>2, <1>3, HoldersOfSubmit
  <2>2. AllReserved => AllReserved'
    BY <1>3 DEF AllReserved
  <2> QED BY <1>2, <2>1, <2>2, SlotsFewer DEF BulkInv
<1> QED BY <1>7, <1>9, <1>11, <1>12, <1>13, <1>14 DEF BulkInv

-----------------------------------------------------------------------------
(* Bulk batches: the workers *)

\* The batch of a file that has a job is made, and nobody is about to make its jobs.
LEMMA FileIsMade ==
    ASSUME BulkInv, NEW f \in AllFiles, NEW n \in 1..MaxJobs, job[f][n] # "none"
    PROVE  /\ bulkBatch[BatchOf(f)] # "none"
           /\ \A s \in Submitters : submitting[s].pc = "enqueue" => f \notin Files[submitting[s].key]
BY FileHasBatch DEF BulkInv, MadeOnce

\* A worker changes the jobs of such a file only.
LEMMA WorkKeepsMade ==
    ASSUME BulkInv, submitsUnchanged, NEW f \in AllFiles, NEW n \in 1..MaxJobs, job[f][n] # "none",
           \A g \in AllFiles \ {f} : job'[g] = job[g],
           \A c \in BatchKeys : bulkBatch'[c] = "none" <=> bulkBatch[c] = "none"
    PROVE  MadeOnce'
<1>1. UNCHANGED <<submitting, accepted>>
  BY DEF submitsUnchanged
<1>2. \A c \in BatchKeys : \A g \in Files[c] : g \in AllFiles /\ BatchOf(g) = c
  BY BatchOfFile
<1>3. \A c \in BatchKeys : bulkBatch[c] = "none" => f \notin Files[c]
  BY <1>2, FileIsMade
<1>4. ASSUME NEW c \in BatchKeys
      PROVE  /\ accepted'[c] <= 1
             /\ bulkBatch'[c] = "none" =>
                   accepted'[c] = 0 /\ \A g \in Files[c], m \in 1..MaxJobs : job'[g][m] = "none"
  <2>1. ASSUME bulkBatch[c] = "none", NEW g \in Files[c], NEW m \in 1..MaxJobs PROVE job'[g][m] = "none"
    <3>1. g \in AllFiles \ {f}
      BY <1>2, <1>3, <2>1
    <3> QED BY <2>1, <3>1 DEF BulkInv, MadeOnce
  <2> QED BY <1>1, <2>1 DEF BulkInv, MadeOnce
<1>5. ASSUME NEW s \in Submitters, submitting[s].pc = "enqueue"
      PROVE  /\ bulkBatch'[submitting[s].key] # "none" /\ accepted[submitting[s].key] = 0
             /\ \A g \in Files[submitting[s].key], m \in 1..MaxJobs : job'[g][m] = "none"
  <2>1. PICK c \in BatchKeys : c = submitting[s].key
    BY <1>5, SubmissionAtWork DEF BulkInv
  <2>2. f \notin Files[c]
    BY <1>5, <2>1, FileIsMade
  <2>3. /\ bulkBatch[c] # "none" /\ accepted[c] = 0
        /\ \A g \in Files[c], m \in 1..MaxJobs : job[g][m] = "none"
    BY <1>5, <2>1 DEF BulkInv, MadeOnce
  <2>4. \A g \in Files[c] : g \in AllFiles \ {f}
    BY <1>2, <2>2
  <2> QED BY <2>1, <2>3, <2>4
<1>6. \A s, t \in Submitters :
          submitting[s].pc = "enqueue" /\ submitting[t].pc = "enqueue"
             /\ submitting[s].key = submitting[t].key => s = t
  BY DEF BulkInv, MadeOnce
<1> QED BY <1>1, <1>4, <1>5, <1>6 DEF MadeOnce

\* One worker moves: what the others do stays as it is.
OneMoves(w, f, n) ==
    /\ bulkWorker' \in [BulkWorkers -> {NoJob} \cup JobsAtWork]
    /\ \A v \in BulkWorkers \ {w} : bulkWorker'[v] = bulkWorker[v]
    /\ bulkWorker[w].pc # "idle" => FileOf(w) = f /\ bulkWorker[w].n = n
    /\ bulkWorker'[w].pc # "idle" => bulkWorker'[w].file = f /\ bulkWorker'[w].n = n

LEMMA WorkKeepsRead ==
    ASSUME BulkInv, NEW w \in BulkWorkers, NEW f \in AllFiles, NEW n \in 1..MaxJobs, OneMoves(w, f, n),
           \A g \in AllFiles, m \in 1..MaxJobs :
              job[g][m] \in {"pending", "acked"} => job'[g][m] \in {"pending", "acked"},
           job'[f][n] \in {"pending", "acked"}
    PROVE  JobsWereRead'
<1> SUFFICES ASSUME NEW v \in BulkWorkers, bulkWorker'[v].pc # "idle"
             PROVE  job'[bulkWorker'[v].file][bulkWorker'[v].n] \in {"pending", "acked"}
  BY DEF JobsWereRead, FileOf
<1>1. CASE v = w
  BY <1>1 DEF OneMoves
<1>2. CASE v # w
  <2>1. bulkWorker'[v] = bulkWorker[v] /\ bulkWorker[v].pc # "idle"
    BY <1>2 DEF OneMoves
  <2>2. job[bulkWorker[v].file][bulkWorker[v].n] \in {"pending", "acked"}
    BY <2>1 DEF BulkInv, JobsWereRead, FileOf
  <2>3. bulkWorker[v].file \in AllFiles /\ bulkWorker[v].n \in 1..MaxJobs
    BY <2>1, WorkerAtWork DEF BulkInv, FileOf
  <2> QED BY <2>1, <2>2, <2>3
<1> QED BY <1>1, <1>2

\* A worker that has not won and does not win.
LEMMA WorkKeepsCompleted ==
    ASSUME BulkInv, NEW w \in BulkWorkers, NEW f \in AllFiles, NEW n, OneMoves(w, f, n),
           ~Won(w)', UNCHANGED <<bulkBatch, completions>>
    PROVE  CompletedAlone'
<1>1. \A v \in BulkWorkers : Won(v)' => v # w /\ Won(v) /\ FileOf(v)' = FileOf(v)
  BY DEF OneMoves, Won, FileOf
<1> QED BY <1>1 DEF BulkInv, CompletedAlone

\* The holders when only a worker moves.
LEMMA HoldersOfWork ==
    ASSUME NEW w \in BulkWorkers, NEW f, NEW n, OneMoves(w, f, n), ~Won(w)',
           UNCHANGED <<bulkBatch, submitting>>
    PROVE  /\ Taken' \subseteq Taken /\ Held' \subseteq Held
           /\ Held' \subseteq Held \ {<<"w", w>>}
           /\ Won(w) => <<"w", w>> \in Held
<1>1. \A v \in BulkWorkers : Won(v)' => v # w /\ Won(v)
  BY DEF OneMoves, Won
<1>2. Taken' \subseteq Taken \ {<<"w", w>>}
  BY <1>1 DEF Taken, Slots
<1>3. Held' \subseteq Held \ {<<"w", w>>}
  BY <1>2 DEF Held, Slots
<1> QED BY <1>2, <1>3 DEF Held, Taken, Slots

LEMMA WorkKeepsSlots ==
    ASSUME BulkInv, NEW w \in BulkWorkers, NEW f, NEW n, OneMoves(w, f, n), ~Won(w)',
           UNCHANGED <<bulkBatch, batchSlots>>, submitsUnchanged
    PROVE  SlotsHeld'
<1>1. UNCHANGED <<submitting, unreserved>>
  BY DEF submitsUnchanged
<1>2. Taken' \subseteq Taken /\ Held' \subseteq Held
  BY <1>1, HoldersOfWork
<1>3. AllReserved => AllReserved'
  BY <1>1 DEF AllReserved
<1> QED BY <1>1, <1>2, <1>3, SlotsFewer DEF BulkInv

\* The files a worker is not at stay attended.
LEMMA WorkKeepsAttended ==
    ASSUME BulkInv, NEW w \in BulkWorkers, NEW f \in AllFiles, NEW n, OneMoves(w, f, n),
           \A g \in AllFiles \ {f} : job'[g] = job[g] /\ fileStatus'[g] = fileStatus[g],
           shared \subseteq shared', accepted' = accepted,
           Attended(f) => Attended(f)'
    PROVE  AllAttended'
<1> SUFFICES ASSUME NEW c \in BatchKeys, accepted[c] > 0, NEW g \in Files[c] PROVE Attended(g)'
  BY DEF AllAttended
<1>1. g \in AllFiles /\ Attended(g)
  BY BatchOfFile DEF BulkInv, AllAttended
<1>2. CASE g = f
  BY <1>1, <1>2
<1>3. CASE g # f
  <2>1. job'[g] = job[g] /\ fileStatus'[g] = fileStatus[g]
    BY <1>1, <1>3
  <2>2. \A v \in BulkWorkers :
          (bulkWorker'[v].pc # "idle" /\ bulkWorker'[v].file = g) =>
             v # w /\ bulkWorker'[v] = bulkWorker[v]
    BY <1>3 DEF OneMoves
  <2>3. \A v \in BulkWorkers : AtFile(v, g) => AtFile(v, g)'
    BY <1>3 DEF OneMoves, AtFile, FileOf
  <2>4. Unread(g) => Unread(g)'
    BY <2>1, <2>2 DEF Unread, FileOf
  <2> QED BY <1>1, <2>1, <2>3, <2>4 DEF Attended
<1> QED BY <1>2, <1>3

\* What a worker is at.
LEMMA WorkersFile ==
    ASSUME BulkInv, NEW w \in BulkWorkers, bulkWorker[w].pc # "idle"
    PROVE  \E f \in AllFiles, n \in 1..MaxJobs :
              f = FileOf(w) /\ n = bulkWorker[w].n /\ job[f][n] \in {"pending", "acked"}
BY WorkerAtWork DEF BulkInv, JobsWereRead

LEMMA ConsumeKeepsBulk ==
    ASSUME BulkInv, NEW w \in BulkWorkers, NEW f \in AllFiles, NEW n \in 1..MaxJobs, _consume_batch(w, f, n)
    PROVE  BulkInv'
<1>1. /\ bulkWorker[w].pc = "idle" /\ job[f][n] \in {"new", "pending"} /\ submitsUnchanged
      /\ job' = [job EXCEPT ![f][n] = "pending"]
      /\ UNCHANGED <<bulkBatch, fileStatus, fileAttempts, batchSlots, completions, shared>>
  BY DEF _consume_batch, NoJob
<1>2. OneMoves(w, f, n) /\ bulkWorker'[w].pc = "check" /\ bulkWorker'[w].file = f
  BY <1>1 DEF _consume_batch, OneMoves, BulkInv, BulkTypeOK, JobsAtWork
<1>3. /\ job' \in [AllFiles -> [1..MaxJobs -> {"none", "new", "pending", "acked"}]]
      /\ job'[f][n] = "pending" /\ \A g \in AllFiles \ {f} : job'[g] = job[g]
      /\ \A g \in AllFiles, m \in 1..MaxJobs :
            job[g][m] \in {"pending", "acked"} => job'[g][m] \in {"pending", "acked"}
  BY <1>1 DEF BulkInv, BulkTypeOK
<1>4. UNCHANGED <<submitting, unreserved, accepted>>
  BY <1>1 DEF submitsUnchanged
<1>5. BulkTypeOK'
  BY <1>1, <1>2, <1>3, <1>4 DEF OneMoves, BulkInv, BulkTypeOK
<1>6. MadeOnce'
  BY <1>1, <1>3, WorkKeepsMade
<1>7. JobsWereRead'
  BY <1>2, <1>3, WorkKeepsRead
<1>8. ~Won(w)'
  BY <1>2 DEF Won
<1>9. CompletedAlone' /\ SlotsHeld'
  BY <1>1, <1>2, <1>8, WorkKeepsCompleted, WorkKeepsSlots
<1>10. Attended(f)'
  BY <1>2 DEF Attended, AtFile, FileOf
<1>11. AllAttended'
  BY <1>1, <1>2, <1>3, <1>4, <1>10, WorkKeepsAttended
<1> QED BY <1>5, <1>6, <1>7, <1>9, <1>11 DEF BulkInv

\* A step of a worker that completes no batch: only its file, and the jobs of it, change.
FileStep(w, f, n) ==
    /\ OneMoves(w, f, n) /\ ~Won(w)' /\ submitsUnchanged
    /\ UNCHANGED <<bulkBatch, batchSlots, completions>>
    /\ job' \in [AllFiles -> [1..MaxJobs -> {"none", "new", "pending", "acked"}]]
    /\ \A g \in AllFiles \ {f} : job'[g] = job[g] /\ fileStatus'[g] = fileStatus[g]
    /\ \A m \in 1..MaxJobs : job[f][m] \in {"pending", "acked"} => job'[f][m] \in {"pending", "acked"}
    /\ fileStatus' \in [AllFiles -> {"none", "queued", "running"} \cup FILE_TERMINAL_STATUSES]
    /\ fileAttempts' \in [AllFiles -> Nat]
    /\ shared \subseteq shared' /\ shared' \subseteq AllFiles

LEMMA FileStepKeeps ==
    ASSUME BulkInv, NEW w \in BulkWorkers, NEW f \in AllFiles, NEW n \in 1..MaxJobs,
           job[f][n] \in {"pending", "acked"}, FileStep(w, f, n), Attended(f) => Attended(f)'
    PROVE  BulkInv'
<1>1. /\ OneMoves(w, f, n) /\ ~Won(w)' /\ submitsUnchanged
      /\ UNCHANGED <<bulkBatch, batchSlots, completions, submitting, unreserved, accepted>>
  BY DEF FileStep, submitsUnchanged
<1>2. BulkTypeOK'
  BY <1>1 DEF FileStep, OneMoves, BulkInv, BulkTypeOK
<1>3. \A g \in AllFiles, m \in 1..MaxJobs :
        job[g][m] \in {"pending", "acked"} => job'[g][m] \in {"pending", "acked"}
  BY DEF FileStep
<1>4. job[f][n] # "none" /\ \A g \in AllFiles \ {f} : job'[g] = job[g]
  BY DEF FileStep
<1>5. MadeOnce'
  BY <1>1, <1>4, WorkKeepsMade
<1>6. JobsWereRead'
  BY <1>1, <1>3, WorkKeepsRead
<1>7. CompletedAlone' /\ SlotsHeld'
  BY <1>1, WorkKeepsCompleted, WorkKeepsSlots
<1>8. /\ \A g \in AllFiles \ {f} : job'[g] = job[g] /\ fileStatus'[g] = fileStatus[g]
      /\ shared \subseteq shared'
  BY DEF FileStep
<1>9. AllAttended'
  BY <1>1, <1>8, WorkKeepsAttended
<1> QED BY <1>2, <1>5, <1>6, <1>7, <1>9 DEF BulkInv

\* The message of w is acked.
LEMMA AckedJob ==
    ASSUME BulkInv, NEW w \in BulkWorkers, NEW f \in AllFiles, NEW n \in 1..MaxJobs,
           f = FileOf(w), n = bulkWorker[w].n, XackJob(w)
    PROVE  /\ job' \in [AllFiles -> [1..MaxJobs -> {"none", "new", "pending", "acked"}]]
           /\ \A g \in AllFiles \ {f} : job'[g] = job[g]
           /\ job'[f][n] = "acked" /\ \A m \in (1..MaxJobs) \ {n} : job'[f][m] = job[f][m]
<1>1. job' = [job EXCEPT ![f][n] = "acked"]
  BY DEF XackJob
<1> QED BY <1>1 DEF BulkInv, BulkTypeOK

LEMMA CheckKeepsBulk ==
    ASSUME BulkInv, NEW w \in BulkWorkers, process_job(w)
    PROVE  BulkInv'
<1>1. /\ bulkWorker[w].pc = "check" /\ submitsUnchanged
      /\ UNCHANGED <<bulkBatch, fileStatus, fileAttempts, batchSlots, completions, shared>>
  BY DEF process_job
<1>2. PICK f \in AllFiles, n \in 1..MaxJobs :
        f = FileOf(w) /\ n = bulkWorker[w].n /\ job[f][n] \in {"pending", "acked"}
  BY <1>1, WorkersFile
<1>3. CASE fileStatus[f] \in FILE_TERMINAL_STATUSES
  <2>1. XackJob(w) /\ bulkWorker' = [bulkWorker EXCEPT ![w] = NoJob]
    BY <1>2, <1>3 DEF process_job
  <2>2. OneMoves(w, f, n) /\ ~Won(w)'
    BY <1>2, <2>1, WorkEnds DEF BulkInv, OneMoves, Won
  <2>3. /\ job' \in [AllFiles -> [1..MaxJobs -> {"none", "new", "pending", "acked"}]]
        /\ \A g \in AllFiles \ {f} : job'[g] = job[g]
        /\ job'[f][n] = "acked" /\ \A m \in (1..MaxJobs) \ {n} : job'[f][m] = job[f][m]
    BY <1>2, <2>1, AckedJob
  <2>4. FileStep(w, f, n)
    BY <1>1, <2>2, <2>3 DEF FileStep, BulkInv, BulkTypeOK
  <2>5. Attended(f)'
    BY <1>1, <1>3 DEF Attended
  <2> QED BY <1>2, <2>4, <2>5, FileStepKeeps
<1>4. CASE fileStatus[f] \notin FILE_TERMINAL_STATUSES
  <2>1. /\ bulkWorker' = [bulkWorker EXCEPT ![w].pc = "claim", ![w].attempt = fileAttempts[f] + 1]
        /\ job' = job
    BY <1>2, <1>4 DEF process_job
  <2>2. /\ bulkWorker' \in [BulkWorkers -> {NoJob} \cup JobsAtWork]
        /\ bulkWorker'[w].pc = "claim" /\ bulkWorker'[w].file = f /\ bulkWorker'[w].n = n
        /\ \A v \in BulkWorkers \ {w} : bulkWorker'[v] = bulkWorker[v]
    <3>1. fileAttempts[f] + 1 \in Nat
      BY DEF BulkInv, BulkTypeOK
    <3>2. bulkWorker[w] \in JobsAtWork
      BY <1>1, WorkerAtWork DEF BulkInv
    <3> QED BY <1>2, <2>1, <3>1, <3>2 DEF BulkInv, BulkTypeOK, JobsAtWork, FileOf
  <2>3. OneMoves(w, f, n) /\ ~Won(w)'
    BY <1>2, <2>2 DEF OneMoves, Won
  <2>4. FileStep(w, f, n)
    BY <1>1, <2>1, <2>3 DEF FileStep, BulkInv, BulkTypeOK
  <2>5. Attended(f)'
    BY <2>2 DEF Attended, AtFile, FileOf
  <2> QED BY <1>2, <2>4, <2>5, FileStepKeeps
<1> QED BY <1>3, <1>4

\* The statements that write the row of the file.
LEMMA WriteKeepsBulk ==
    ASSUME BulkInv, NEW w \in BulkWorkers, bulkWorker[w].pc # "idle",
           NEW p \in {"process", "requeue", "complete"}, WorkGoTo(w, p),
           NEW status \in {"queued", "running"} \cup FILE_TERMINAL_STATUSES,
           fileStatus' = [fileStatus EXCEPT ![FileOf(w)] = status],
           p = "complete" => status \in FILE_TERMINAL_STATUSES,
           fileAttempts' \in [AllFiles -> Nat], submitsUnchanged,
           UNCHANGED <<bulkBatch, job, batchSlots, completions, shared>>
    PROVE  BulkInv'
<1>1. PICK f \in AllFiles, n \in 1..MaxJobs :
        f = FileOf(w) /\ n = bulkWorker[w].n /\ job[f][n] \in {"pending", "acked"}
  BY WorkersFile
<1>2. /\ OneMoves(w, f, n) /\ ~Won(w)' /\ bulkWorker'[w].pc = p /\ bulkWorker'[w].file = f
  BY <1>1, WorkGoes DEF BulkInv, OneMoves, Won, FileOf
<1>3. /\ fileStatus' \in [AllFiles -> {"none", "queued", "running"} \cup FILE_TERMINAL_STATUSES]
      /\ fileStatus'[f] = status /\ \A g \in AllFiles \ {f} : fileStatus'[g] = fileStatus[g]
  BY <1>1 DEF BulkInv, BulkTypeOK
<1>4. FileStep(w, f, n)
  BY <1>2, <1>3 DEF FileStep, BulkInv, BulkTypeOK
<1>5. Attended(f)'
  BY <1>2, <1>3 DEF Attended, AtFile, FileOf
<1> QED BY <1>1, <1>4, <1>5, FileStepKeeps

LEMMA ProcessKeepsBulk ==
    ASSUME BulkInv, NEW w \in BulkWorkers,
           ClaimFile(w) \/ (\E status \in Outcomes : _finalize(w, status)) \/ _handle_failure_bulk(w)
    PROVE  BulkInv'
<1>1. CASE ClaimFile(w)
  <2>1. bulkWorker[w].pc = "claim"
    BY <1>1 DEF ClaimFile
  <2>2. fileAttempts' \in [AllFiles -> Nat]
    BY <1>1, <2>1, WorkerAtWork DEF ClaimFile, BulkInv, BulkTypeOK
  <2> QED BY <1>1, <2>1, <2>2, WriteKeepsBulk DEF ClaimFile
<1>2. ASSUME NEW status \in Outcomes, _finalize(w, status) PROVE BulkInv'
  <2>1. status \in FILE_TERMINAL_STATUSES
    BY BulkAssumption DEF FILE_TERMINAL_STATUSES
  <2>2. fileAttempts' \in [AllFiles -> Nat] /\ bulkWorker[w].pc = "process"
    BY <1>2 DEF _finalize, BulkInv, BulkTypeOK
  <2> QED BY <1>2, <2>1, <2>2, WriteKeepsBulk DEF _finalize
<1>3. CASE _handle_failure_bulk(w)
  <2>1. "dead_lettered" \in FILE_TERMINAL_STATUSES
    BY DEF FILE_TERMINAL_STATUSES
  <2>2. fileAttempts' \in [AllFiles -> Nat] /\ bulkWorker[w].pc = "process"
    BY <1>3 DEF _handle_failure_bulk, BulkInv, BulkTypeOK
  <2>3. PICK p \in {"requeue", "complete"}, status \in {"queued", "dead_lettered"} :
          /\ fileStatus' = [fileStatus EXCEPT ![FileOf(w)] = status] /\ WorkGoTo(w, p)
          /\ p = "complete" => status = "dead_lettered"
    BY <1>3 DEF _handle_failure_bulk
  <2>4. /\ status \in {"queued", "running"} \cup FILE_TERMINAL_STATUSES
        /\ p = "complete" => status \in FILE_TERMINAL_STATUSES
    BY <2>1, <2>3
  <2>5. submitsUnchanged /\ UNCHANGED <<bulkBatch, job, batchSlots, completions, shared>>
    BY <1>3 DEF _handle_failure_bulk
  <2> QED BY <2>2, <2>3, <2>4, <2>5, WriteKeepsBulk
<1> QED BY <1>1, <1>2, <1>3

\* A new job for the file, which nobody has read.
LEMMA RequeueKeepsBulk ==
    ASSUME BulkInv, NEW w \in BulkWorkers, RequeueFile(w)
    PROVE  BulkInv'
<1>1. /\ bulkWorker[w].pc = "requeue" /\ WorkGoTo(w, "ack") /\ submitsUnchanged
      /\ UNCHANGED <<bulkBatch, fileStatus, fileAttempts, batchSlots, completions, shared>>
  BY DEF RequeueFile
<1>2. PICK f \in AllFiles, n \in 1..MaxJobs :
        f = FileOf(w) /\ n = bulkWorker[w].n /\ job[f][n] \in {"pending", "acked"}
  BY <1>1, WorkersFile
<1>3. (\E m \in 1..MaxJobs : job[f][m] = "none") /\ job' = Enqueued(f, job)
  BY <1>2 DEF RequeueFile
<1>4. /\ job' \in [AllFiles -> [1..MaxJobs -> {"none", "new", "pending", "acked"}]]
      /\ \A g \in AllFiles \ {f} : job'[g] = job[g]
      /\ \E m \in 1..MaxJobs :
            /\ job[f][m] = "none" /\ job'[f][m] = "new"
            /\ \A k \in (1..MaxJobs) \ {m} : job'[f][k] = job[f][k]
  BY <1>3, EnqueuedOne DEF BulkInv
<1>5. PICK m \in 1..MaxJobs : /\ job[f][m] = "none" /\ job'[f][m] = "new"
                              /\ \A k \in (1..MaxJobs) \ {m} : job'[f][k] = job[f][k]
  BY <1>4
<1>6. OneMoves(w, f, n) /\ ~Won(w)'
  BY <1>1, <1>2, WorkGoes DEF BulkInv, OneMoves, Won, FileOf
<1>7. FileStep(w, f, n)
  BY <1>1, <1>4, <1>5, <1>6 DEF FileStep, BulkInv, BulkTypeOK
<1>8. Attended(f)'
  <2>1. \A v \in BulkWorkers : bulkWorker[v].pc # "idle" /\ FileOf(v) = f => bulkWorker[v].n # m
    BY <1>5 DEF BulkInv, JobsWereRead
  <2>2. \A v \in BulkWorkers : bulkWorker'[v].pc # "idle" /\ bulkWorker'[v].file = f => bulkWorker'[v].n # m
    BY <1>1, <1>2, <1>6, <2>1 DEF OneMoves, FileOf
  <2> QED BY <1>5, <2>2 DEF Attended, Unread, FileOf
<1> QED BY <1>2, <1>7, <1>8, FileStepKeeps

LEMMA AckKeepsBulk ==
    ASSUME BulkInv, NEW w \in BulkWorkers, AckJob(w)
    PROVE  BulkInv'
<1>1. /\ bulkWorker[w].pc = "ack" /\ XackJob(w) /\ submitsUnchanged
      /\ bulkWorker' = [bulkWorker EXCEPT ![w] = NoJob]
      /\ UNCHANGED <<bulkBatch, fileStatus, fileAttempts, batchSlots, completions, shared>>
  BY DEF AckJob
<1>2. PICK f \in AllFiles, n \in 1..MaxJobs :
        f = FileOf(w) /\ n = bulkWorker[w].n /\ job[f][n] \in {"pending", "acked"}
  BY <1>1, WorkersFile
<1>3. /\ bulkWorker'[w].pc = "idle" /\ OneMoves(w, f, n) /\ ~Won(w)'
      /\ \A v \in BulkWorkers \ {w} : bulkWorker'[v] = bulkWorker[v]
  BY <1>1, <1>2, WorkEnds DEF BulkInv, OneMoves, Won
<1>4. /\ job' \in [AllFiles -> [1..MaxJobs -> {"none", "new", "pending", "acked"}]]
      /\ \A g \in AllFiles \ {f} : job'[g] = job[g]
      /\ job'[f][n] = "acked" /\ \A m \in (1..MaxJobs) \ {n} : job'[f][m] = job[f][m]
  BY <1>1, <1>2, AckedJob
<1>5. FileStep(w, f, n)
  BY <1>1, <1>3, <1>4 DEF FileStep, BulkInv, BulkTypeOK
<1>6. ASSUME Attended(f) PROVE Attended(f)'
  <2>1. CASE fileStatus[f] \in FILE_TERMINAL_STATUSES \/ f \in shared
    BY <1>1, <2>1 DEF Attended
  <2>2. CASE Unread(f)
    <3>1. PICK m \in 1..MaxJobs :
            /\ job[f][m] \in {"new", "pending"}
            /\ \A v \in BulkWorkers : ~(bulkWorker[v].pc # "idle" /\ FileOf(v) = f /\ bulkWorker[v].n = m)
      BY <2>2 DEF Unread
    <3>2. m # n
      BY <1>1, <1>2, <3>1
    <3>3. \A v \in BulkWorkers :
            ~(bulkWorker'[v].pc # "idle" /\ bulkWorker'[v].file = f /\ bulkWorker'[v].n = m)
      BY <1>3, <3>1 DEF FileOf
    <3> QED BY <1>4, <3>1, <3>2, <3>3 DEF Attended, Unread, FileOf
  <2>3. ASSUME NEW v \in BulkWorkers, AtFile(v, f) PROVE Attended(f)'
    <3>1. v # w
      BY <1>1, <2>3 DEF AtFile
    <3> QED BY <1>3, <2>3, <3>1 DEF Attended, AtFile, FileOf
  <2> QED BY <1>6, <2>1, <2>2, <2>3 DEF Attended
<1> QED BY <1>2, <1>5, <1>6, FileStepKeeps

\* A worker dies: its message is pending and nobody's, or another has it too.
LEMMA DeathKeepsBulk ==
    ASSUME BulkInv, NEW w \in BulkWorkers, WorkerDies(w)
    PROVE  BulkInv'
<1>1. /\ bulkWorker[w].pc # "idle" /\ submitsUnchanged
      /\ bulkWorker' = [bulkWorker EXCEPT ![w] = NoJob]
      /\ UNCHANGED <<bulkBatch, fileStatus, fileAttempts, job, batchSlots, completions>>
  BY DEF WorkerDies, BulkInv, BulkTypeOK, JobsAtWork
<1>2. PICK f \in AllFiles, n \in 1..MaxJobs :
        f = FileOf(w) /\ n = bulkWorker[w].n /\ job[f][n] \in {"pending", "acked"}
  BY <1>1, WorkersFile
<1>3. /\ bulkWorker'[w].pc = "idle" /\ OneMoves(w, f, n) /\ ~Won(w)'
      /\ \A v \in BulkWorkers \ {w} : bulkWorker'[v] = bulkWorker[v]
  BY <1>1, <1>2, WorkEnds DEF BulkInv, OneMoves, Won
<1>4. shared' = IF Shares(w) THEN shared \cup {f} ELSE shared
  BY <1>2 DEF WorkerDies
<1>5. FileStep(w, f, n)
  BY <1>1, <1>3, <1>4 DEF FileStep, BulkInv, BulkTypeOK
<1>6. Attended(f)'
  <2>1. CASE Shares(w)
    BY <1>4, <2>1 DEF Attended
  <2>2. CASE ~Shares(w)
    <3>1. job[f][n] = "pending"
      BY <1>2, <2>2 DEF Shares
    <3>2. \A v \in BulkWorkers \ {w} :
            ~(bulkWorker[v].pc # "idle" /\ FileOf(v) = f /\ bulkWorker[v].n = n)
      BY <1>2, <2>2 DEF Shares, NoJob
    <3>3. \A v \in BulkWorkers :
            ~(bulkWorker'[v].pc # "idle" /\ bulkWorker'[v].file = f /\ bulkWorker'[v].n = n)
      BY <1>3, <3>2 DEF FileOf
    <3> QED BY <1>1, <3>1, <3>3 DEF Attended, Unread, FileOf
  <2> QED BY <2>1, <2>2
<1> QED BY <1>2, <1>5, <1>6, FileStepKeeps

\* A file at which a worker neither starts nor stops being at work.
LEMMA AttendedStill ==
    ASSUME NEW w \in BulkWorkers, NEW f, NEW n, OneMoves(w, f, n),
           bulkWorker[w].pc \in {"complete", "emit"}, bulkWorker'[w].pc \in {"emit", "ack"},
           UNCHANGED <<fileStatus, job, shared>>, Attended(f)
    PROVE  Attended(f)'
<1>1. \A v \in BulkWorkers : AtFile(v, f) => AtFile(v, f)'
  BY DEF OneMoves, AtFile, FileOf
<1>2. Unread(f) => Unread(f)'
  <2>1. \A v \in BulkWorkers : bulkWorker'[v].pc # "idle" /\ bulkWorker'[v].file = f =>
           bulkWorker[v].pc # "idle" /\ bulkWorker[v].file = f /\ bulkWorker'[v].n = bulkWorker[v].n
    BY DEF OneMoves, FileOf
  <2> QED BY <2>1 DEF Unread, FileOf
<1> QED BY <1>1, <1>2 DEF Attended

\* The UPDATE that completes the batch hands its slot to the worker.
LEMMA CompleteKeepsBulk ==
    ASSUME BulkInv, NEW w \in BulkWorkers, try_complete_batch(w)
    PROVE  BulkInv'
<1>1. /\ bulkWorker[w].pc = "complete" /\ submitsUnchanged
      /\ UNCHANGED <<fileStatus, fileAttempts, job, batchSlots, completions, shared>>
  BY DEF try_complete_batch
<1>2. PICK f \in AllFiles, n \in 1..MaxJobs :
        f = FileOf(w) /\ n = bulkWorker[w].n /\ job[f][n] \in {"pending", "acked"}
  BY <1>1, WorkersFile
<1>3. PICK b \in BatchKeys : b = BatchOf(f)
  BY FileHasBatch
<1>4. PICK win \in BOOLEAN :
        /\ win => bulkBatch[b] # "completed"
        /\ bulkBatch' = IF win THEN [bulkBatch EXCEPT ![b] = "completed"] ELSE bulkBatch
        /\ bulkWorker' = [bulkWorker EXCEPT ![w].pc = "emit", ![w].won = win]
  BY <1>2, <1>3 DEF try_complete_batch
<1>5. /\ bulkWorker' \in [BulkWorkers -> {NoJob} \cup JobsAtWork]
      /\ bulkWorker'[w].pc = "emit" /\ bulkWorker'[w].file = f /\ bulkWorker'[w].n = n
      /\ bulkWorker'[w].won = win
      /\ \A v \in BulkWorkers \ {w} : bulkWorker'[v] = bulkWorker[v]
  <2>1. bulkWorker[w] \in JobsAtWork
    BY <1>1, WorkerAtWork DEF BulkInv
  <2> QED BY <1>2, <1>4, <2>1 DEF BulkInv, BulkTypeOK, JobsAtWork, FileOf
<1>6. OneMoves(w, f, n) /\ Won(w)' = win /\ ~Won(w)
  BY <1>1, <1>2, <1>5 DEF OneMoves, Won
<1>7. Attended(f) => Attended(f)'
  BY <1>1, <1>5, <1>6, AttendedStill
<1>8. CASE ~win
  <2>1. FileStep(w, f, n)
    BY <1>1, <1>4, <1>6, <1>8 DEF FileStep, BulkInv, BulkTypeOK
  <2> QED BY <1>2, <1>7, <2>1, FileStepKeeps
<1>9. CASE win
  <2>1. UNCHANGED <<submitting, unreserved, accepted>>
    BY <1>1 DEF submitsUnchanged
  <2>2. bulkBatch[b] = "queued"
    BY <1>2, <1>3, <1>4, <1>9, FileIsMade DEF BulkInv, BulkTypeOK
  <2>3. /\ bulkBatch' \in [BatchKeys -> {"none", "queued", "completed"}]
        /\ bulkBatch'[b] = "completed" /\ \A c \in BatchKeys \ {b} : bulkBatch'[c] = bulkBatch[c]
    BY <1>4, <1>9 DEF BulkInv, BulkTypeOK
  <2>4. BulkTypeOK'
    BY <1>1, <1>5, <2>1, <2>3 DEF BulkInv, BulkTypeOK
  <2>5. MadeOnce'
    <3>1. job[f][n] # "none" /\ \A g \in AllFiles \ {f} : job'[g] = job[g]
      BY <1>1, <1>2
    <3>2. \A c \in BatchKeys : bulkBatch'[c] = "none" <=> bulkBatch[c] = "none"
      BY <2>2, <2>3
    <3> QED BY <1>1, <3>1, <3>2, WorkKeepsMade
  <2>6. JobsWereRead'
    BY <1>1, <1>2, <1>6, WorkKeepsRead
  <2>7. CompletedAlone'
    <3>1. \A v \in BulkWorkers \ {w} : Won(v)' = Won(v) /\ FileOf(v)' = FileOf(v)
      BY <1>5 DEF Won, FileOf
    <3>2. \A v \in BulkWorkers : Won(v) => BatchOf(FileOf(v)) \in BatchKeys \ {b}
      BY <2>2, WorkerAtWork, FileHasBatch DEF BulkInv, CompletedAlone, Won
    <3>3. completions[b] = 0 /\ FileOf(w)' = f
      BY <1>5, <2>2 DEF BulkInv, CompletedAlone, FileOf
    <3>4. \A c \in BatchKeys :
            completions'[c] <= 1 /\ (completions'[c] # 0 => bulkBatch'[c] = "completed")
      BY <1>1, <2>3 DEF BulkInv, CompletedAlone
    <3>5. \A v \in BulkWorkers : Won(v)' =>
            bulkBatch'[BatchOf(FileOf(v)')] = "completed" /\ completions'[BatchOf(FileOf(v)')] = 0
      BY <1>1, <1>3, <2>3, <3>1, <3>2, <3>3 DEF BulkInv, CompletedAlone
    <3>6. \A v, u \in BulkWorkers :
            Won(v)' /\ Won(u)' /\ BatchOf(FileOf(v)') = BatchOf(FileOf(u)') => v = u
      BY <1>3, <3>1, <3>2, <3>3 DEF BulkInv, CompletedAlone
    <3> QED BY <3>4, <3>5, <3>6 DEF CompletedAlone, BatchOf
  <2>8. AllAttended'
    BY <1>1, <1>6, <1>7, <2>1, WorkKeepsAttended
  <2>9. SlotsHeld'
    <3>1. <<"b", b>> \in Taken /\ <<"w", w>> \in Slots
      BY <2>2 DEF Taken, Slots
    <3>2. \A v \in BulkWorkers \ {w} : Won(v)' = Won(v)
      BY <1>5 DEF Won
    <3>3. Taken' \subseteq (Taken \ {<<"b", b>>}) \cup {<<"w", w>>}
      BY <2>1, <2>3, <3>2 DEF Taken, Slots
    <3>4. Held' \subseteq (Held \ {<<"b", b>>}) \cup {<<"w", w>>}
      BY <2>1, <3>3 DEF Held, Slots
    <3>5. AllReserved => AllReserved'
      BY <2>1 DEF AllReserved
    <3> QED BY <1>1, <2>1, <3>1, <3>3, <3>4, <3>5, SlotPassed DEF BulkInv
  <2> QED BY <2>4, <2>5, <2>6, <2>7, <2>8, <2>9 DEF BulkInv
<1> QED BY <1>8, <1>9

\* The announcement, and the slot given back with it.
LEMMA ReleaseKeepsBulk ==
    ASSUME BulkInv, NEW w \in BulkWorkers, _release_slots(w)
    PROVE  BulkInv'
<1>1. /\ bulkWorker[w].pc = "emit" /\ submitsUnchanged /\ WorkGoTo(w, "ack")
      /\ UNCHANGED <<bulkBatch, fileStatus, fileAttempts, job, shared>>
  BY DEF _release_slots
<1>2. PICK f \in AllFiles, n \in 1..MaxJobs :
        f = FileOf(w) /\ n = bulkWorker[w].n /\ job[f][n] \in {"pending", "acked"}
  BY <1>1, WorkersFile
<1>3. PICK b \in BatchKeys : b = BatchOf(f)
  BY FileHasBatch
<1>4. PICK won \in BOOLEAN :
        /\ won = bulkWorker[w].won
        /\ completions' = [completions EXCEPT ![b] = IF won THEN @ + 1 ELSE @]
        /\ batchSlots' = IF won THEN _decr_floor(batchSlots, 1) ELSE batchSlots
  <2>1. bulkWorker[w].won \in BOOLEAN
    BY <1>1, WorkerAtWork DEF BulkInv
  <2> QED BY <1>2, <1>3, <2>1 DEF _release_slots
<1>5. /\ bulkWorker' \in [BulkWorkers -> {NoJob} \cup JobsAtWork]
      /\ bulkWorker'[w].pc = "ack" /\ bulkWorker'[w].file = f /\ bulkWorker'[w].n = n
      /\ \A v \in BulkWorkers \ {w} : bulkWorker'[v] = bulkWorker[v]
  BY <1>1, <1>2, WorkGoes DEF BulkInv, FileOf
<1>6. OneMoves(w, f, n) /\ ~Won(w)' /\ Won(w) = won
  BY <1>1, <1>2, <1>4, <1>5 DEF OneMoves, Won
<1>7. Attended(f) => Attended(f)'
  BY <1>1, <1>5, <1>6, AttendedStill
<1>8. CASE ~won
  <2>1. completions' = completions /\ batchSlots' = batchSlots
    BY <1>4, <1>8 DEF BulkInv, BulkTypeOK
  <2>2. FileStep(w, f, n)
    BY <1>1, <1>6, <2>1 DEF FileStep, BulkInv, BulkTypeOK
  <2> QED BY <1>2, <1>7, <2>2, FileStepKeeps
<1>9. CASE won
  <2>1. UNCHANGED <<submitting, unreserved, accepted>>
    BY <1>1 DEF submitsUnchanged
  <2>2. Won(w) /\ bulkBatch[b] = "completed" /\ completions[b] = 0
    BY <1>2, <1>3, <1>6, <1>9 DEF BulkInv, CompletedAlone
  <2>3. /\ completions' \in [BatchKeys -> Nat] /\ completions'[b] = 1
        /\ \A c \in BatchKeys \ {b} : completions'[c] = completions[c]
    BY <1>4, <1>9, <2>2 DEF BulkInv, BulkTypeOK
  <2>4. batchSlots' = _decr_floor(batchSlots, 1) /\ batchSlots' \in Int
    BY <1>4, <1>9 DEF _decr_floor, BulkInv, BulkTypeOK
  <2>5. BulkTypeOK'
    BY <1>1, <1>5, <2>1, <2>3, <2>4 DEF BulkInv, BulkTypeOK
  <2>6. MadeOnce' /\ JobsWereRead'
    <3>1. job[f][n] # "none" /\ \A g \in AllFiles \ {f} : job'[g] = job[g]
      BY <1>1, <1>2
    <3>2. \A c \in BatchKeys : bulkBatch'[c] = "none" <=> bulkBatch[c] = "none"
      BY <1>1
    <3> QED BY <1>1, <1>2, <1>6, <3>1, <3>2, WorkKeepsMade, WorkKeepsRead
  <2>7. CompletedAlone'
    <3>1. \A v \in BulkWorkers : Won(v)' => v # w /\ Won(v) /\ FileOf(v)' = FileOf(v)
      BY <1>5, <1>6 DEF Won, FileOf
    <3>2. \A v \in BulkWorkers : Won(v)' => BatchOf(FileOf(v)) \in BatchKeys \ {b}
      BY <1>2, <1>3, <2>2, <3>1, WorkerAtWork, FileHasBatch DEF BulkInv, CompletedAlone, Won
    <3>3. \A c \in BatchKeys :
            completions'[c] <= 1 /\ (completions'[c] # 0 => bulkBatch'[c] = "completed")
      BY <1>1, <2>2, <2>3 DEF BulkInv, CompletedAlone
    <3>4. \A v \in BulkWorkers : Won(v)' =>
            bulkBatch'[BatchOf(FileOf(v)')] = "completed" /\ completions'[BatchOf(FileOf(v)')] = 0
      BY <1>1, <2>3, <3>1, <3>2 DEF BulkInv, CompletedAlone
    <3>5. \A v, u \in BulkWorkers :
            Won(v)' /\ Won(u)' /\ BatchOf(FileOf(v)') = BatchOf(FileOf(u)') => v = u
      BY <3>1 DEF BulkInv, CompletedAlone
    <3> QED BY <3>3, <3>4, <3>5 DEF CompletedAlone, BatchOf
  <2>8. AllAttended'
    BY <1>1, <1>6, <1>7, <2>1, WorkKeepsAttended
  <2>9. SlotsHeld'
    <3>1. Taken' \subseteq Taken /\ Held' \subseteq Held \ {<<"w", w>>} /\ <<"w", w>> \in Held
      BY <1>1, <1>6, <2>1, <2>2, HoldersOfWork
    <3>2. AllReserved => AllReserved'
      BY <2>1 DEF AllReserved
    <3> QED BY <2>1, <2>4, <3>1, <3>2, SlotGivenBack DEF BulkInv
  <2> QED BY <2>5, <2>6, <2>7, <2>8, <2>9 DEF BulkInv
<1> QED BY <1>8, <1>9

-----------------------------------------------------------------------------
(* Bulk batches: the theorem *)

\* At the start there is no batch.
LEMMA BulkStart == BulkInit => BulkInv
<1> SUFFICES ASSUME BulkInit PROVE BulkInv
  OBVIOUS
<1>1. BulkTypeOK
  BY DEF BulkInit, BulkTypeOK
<1>2. /\ \A s \in Submitters : submitting[s].pc = "idle"
      /\ \A w \in BulkWorkers : bulkWorker[w].pc = "idle"
      /\ \A b \in BatchKeys : bulkBatch[b] = "none" /\ accepted[b] = 0 /\ completions[b] = 0
  BY DEF BulkInit, NoSubmit, NoJob
<1>3. \A b \in BatchKeys : \A f \in Files[b], n \in 1..MaxJobs : job[f][n] = "none"
  BY BatchOfFile DEF BulkInit
<1>4. MadeOnce /\ JobsWereRead /\ CompletedAlone /\ AllAttended
  BY <1>2, <1>3 DEF MadeOnce, JobsWereRead, CompletedAlone, Won, AllAttended
<1>5. Taken = {} /\ Held = {}
  BY <1>2 DEF Held, Taken, Slots, Won
<1>6. SlotsHeld
  BY <1>2, <1>5, FS_EmptySet, BulkAssumption DEF BulkInit, SlotsHeld, AllReserved
<1> QED BY <1>1, <1>4, <1>6 DEF BulkInv

LEMMA BulkSame == ASSUME BulkInv, UNCHANGED bulkVars PROVE BulkInv'
<1>1. UNCHANGED <<bulkBatch, fileStatus, fileAttempts, job, submitting, bulkWorker, batchSlots,
                  accepted, completions, unreserved, shared>>
  BY DEF bulkVars
<1>2. BulkTypeOK' /\ MadeOnce' /\ JobsWereRead' /\ CompletedAlone'
  BY <1>1 DEF BulkInv, BulkTypeOK, MadeOnce, JobsWereRead, CompletedAlone, Won, FileOf
<1>3. AllAttended'
  BY <1>1 DEF BulkInv, AllAttended, Attended, Unread, AtFile, FileOf
<1>4. Taken' = Taken /\ Held' = Held /\ AllReserved' = AllReserved
  BY <1>1 DEF Held, Taken, Won, AllReserved
<1>5. SlotsHeld'
  BY <1>1, <1>4 DEF BulkInv, SlotsHeld
<1> QED BY <1>2, <1>3, <1>5 DEF BulkInv

LEMMA BulkStep == BulkInv /\ [BulkNext]_bulkVars => BulkInv'
<1> SUFFICES ASSUME BulkInv, [BulkNext]_bulkVars PROVE BulkInv'
  OBVIOUS
<1>1. CASE UNCHANGED bulkVars
  BY <1>1, BulkSame
<1>2. CASE SubmitNext
  BY <1>2, SubmitKeepsBulk, ReserveKeepsBulk, FilesKeepBulk, GiveBackKeepsBulk, FailOpenKeepsBulk,
     CreateKeepsBulk, EnqueueKeepsBulk, EndKeepsBulk DEF SubmitNext, SubmitStep
<1>3. ASSUME NEW w \in BulkWorkers, WorkNext(w) PROVE BulkInv'
  BY <1>3, ConsumeKeepsBulk, CheckKeepsBulk, ProcessKeepsBulk, RequeueKeepsBulk, CompleteKeepsBulk,
     ReleaseKeepsBulk, AckKeepsBulk, DeathKeepsBulk DEF WorkNext, TakeJob, WorkerStep
<1> QED BY <1>1, <1>2, <1>3 DEF BulkNext

\* However many requests submit and workers process, retry, slow down or die, a batch is
\* accepted and completed at most once, the batches in progress stay within the tenant's
\* slots, and no file of an accepted batch is forgotten (submit_batch, process_job,
\* try_complete_batch, release_reservation).
THEOREM BatchesStayExact == BulkSpec => []BatchesAreExact
<1>1. BulkInv => BatchesAreExact
  <2> SUFFICES ASSUME BulkInv PROVE BatchesAreExact
    OBVIOUS
  <2>1. CompletedOnce
    BY DEF BulkInv, CompletedAlone, MadeOnce, CompletedOnce
  <2>2. NoJobLost
    BY DEF BulkInv, AllAttended, Attended, Unread, AtFile, NoJobLost, NoJob
  <2>3. BatchesWithinCap
    <3> SUFFICES ASSUME unreserved = {}
                 PROVE  Cardinality({b \in BatchKeys : bulkBatch[b] = "queued"}) <= BatchSlots
      BY DEF BatchesWithinCap
    <3> DEFINE Q == {b \in BatchKeys : bulkBatch[b] = "queued"}
               F == [b \in Q |-> <<"b", b>>]
    <3>1. F \in Injection(Q, Taken)
      <4>1. \A b \in Q : <<"b", b>> \in Taken
        BY DEF Taken, Slots
      <4>2. F \in [Q -> Taken]
        BY <4>1
      <4>3. \A a, b \in Q : F[a] = F[b] => a = b
        OBVIOUS
      <4> QED BY <4>2, <4>3 DEF Injection, IsInjective
    <3>2. IsFiniteSet(Taken) /\ Cardinality(Taken) \in Nat
      BY SlotsFinite DEF Taken
    <3> HIDE DEF F, Q
    <3>3. IsFiniteSet(Q) /\ Cardinality(Q) <= Cardinality(Taken)
      BY <3>1, <3>2, FS_Injection
    <3>4. Cardinality(Q) \in Nat
      BY <3>3, FS_CardinalityType
    <3>5. Cardinality(Taken) <= BatchSlots
      BY DEF BulkInv, SlotsHeld
    <3>6. Cardinality(Q) <= BatchSlots
      BY <3>2, <3>3, <3>4, <3>5, BulkAssumption
    <3> QED BY <3>6 DEF Q
  <2> QED BY <2>1, <2>2, <2>3 DEF BatchesAreExact
<1> QED BY <1>1, BulkStart, BulkStep, PTL DEF BulkSpec

=============================================================================
