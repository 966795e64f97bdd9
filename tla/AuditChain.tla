----------------------------- MODULE AuditChain -----------------------------
(***************************************************************************)
(* The hash-chained audit logs: Delta's change_history (one chain per      *)
(* tenant, persistence/audit_log.py), Sentinel's events_audit_log and the  *)
(* Orchestrator's ten chains (persistence/repositories.py, hash_chain.py). *)
(* All are written alike: a transaction takes the chain's advisory lock,   *)
(* reads the row hash of the tip, inserts a row that hashes it, and keeps  *)
(* the lock until it commits or rolls back.  In Delta the same transaction *)
(* writes business rows, before the audit row or after it.                 *)
(*                                                                         *)
(* A hash stands for what it covers: the entries of the chain up to and    *)
(* including its row.  An entry carries one number, which Sentinel's chain *)
(* hashes as it is and stores in a Numeric column, rounded.                *)
(***************************************************************************)
EXTENDS Naturals, Sequences, FiniteSets

CONSTANTS
    Chains,         \* the chains: a tenant, or an audit table
    Records,        \* business rows that are locked when they are written
    Transactions,   \* each runs once
    Value,          \* Value[t]: the number in the entries of t (a cost, a score)
    Grain,          \* Grain[c]: the unit of the chain's numeric columns; 1 where none rounds
    PageSize,       \* LIMIT of a page
    MaxAppends,     \* bound on the audit rows of one transaction
    Nobody          \* no transaction, no lock

ASSUME ChainAssumption ==
    /\ Chains \cap Records = {}
    /\ Value \in [Transactions -> Nat] /\ Grain \in [Chains -> Nat \ {0}]
    /\ PageSize \in Nat \ {0}
    /\ MaxAppends \in Nat
    /\ Nobody \notin Transactions \cup Chains \cup Records

VARIABLES
    rows,       \* the committed audit rows
    written,    \* written[t]: the audit rows t has inserted and not committed
    nextSeq,    \* next sequence_number; a rollback leaves a gap
    held,       \* held[x]: the transaction that holds the lock x
    phase,      \* phase[t]: what t does next
    want,       \* want[t]: the lock t is after
    tip,        \* tip[t]: the prev_hash t has read
    cursor,     \* cursor[c]: after_sequence of a client that pages through chain c
    seen        \* seen[c]: the rows that client has been given

chainVars == <<rows, written, nextSeq, held, phase, want, tip, cursor, seen>>

Locks == Chains \cup Records
GENESIS_HASH == <<>>

ChainInit ==
    /\ rows = {}
    /\ written = [t \in Transactions |-> {}]
    /\ nextSeq = 1
    /\ held = [x \in Locks |-> Nobody]
    /\ phase = [t \in Transactions |-> "new"]
    /\ want = [t \in Transactions |-> Nobody]
    /\ tip = [t \in Transactions |-> GENESIS_HASH]
    /\ cursor = [c \in Chains |-> 0]
    /\ seen = [c \in Chains |-> {}]

-----------------------------------------------------------------------------
(* The hash chain *)

compute_row_hash(prev, entry, value) == Append(prev, <<entry, value>>)

\* What a Numeric column keeps of a number: it is rounded to the column's scale.
Numeric(c, v) == ((v + Grain[c] \div 2) \div Grain[c]) * Grain[c]

RowsOf(S, c) == {row \in S : row.chain = c}
Before(S, row) == {q \in S : q.seq < row.seq}

\* ORDER BY sequence_number DESC LIMIT 1.
Newest(S) == CHOOSE row \in S : \A q \in S : q.seq <= row.seq
LastHash(S) == IF S = {} THEN GENESIS_HASH ELSE Newest(S).hash

\* The row hash of the last row, of the committed ones and t's own.
tip_hash(t, c) == LastHash(RowsOf(rows \cup written[t], c))

FirstSeq(S) == IF S = {} THEN 0 ELSE (CHOOSE row \in S : \A q \in S : row.seq <= q.seq).seq

\* The row's prev_hash is its predecessor's row_hash, and its row_hash recomputes from
\* the columns as they are stored.
Intact(walk, row) ==
    /\ row.prev = LastHash(Before(walk, row))
    /\ row.hash = compute_row_hash(row.prev, row.entry, row.value)

\* The number of the first row that is not intact, 0 if there is none.
verify_chain(c) ==
    LET walk == RowsOf(rows, c)
    IN  FirstSeq({row \in walk : ~Intact(walk, row)})

-----------------------------------------------------------------------------
(* Transactions *)

Begin(t) ==
    /\ phase[t] = "new"
    /\ phase' = [phase EXCEPT ![t] = "open"]
    /\ UNCHANGED <<rows, written, nextSeq, held, want, tip, cursor, seen>>

Waits(t, x) ==
    /\ phase' = [phase EXCEPT ![t] = "wait"]
    /\ want' = [want EXCEPT ![t] = x]
    /\ UNCHANGED <<rows, written, nextSeq, held, tip, cursor, seen>>

\* A write to a business row locks it until the transaction ends.
WriteRecord(t, x) ==
    /\ phase[t] = "open" /\ x \in Records /\ held[x] # t
    /\ Waits(t, x)

\* pg_advisory_xact_lock; a transaction that holds it already gets it at once.
append_history(t, c) ==
    /\ phase[t] = "open" /\ c \in Chains
    /\ Cardinality(written[t]) < MaxAppends
    /\ Waits(t, c)

\* Mutant of TakeLock: the advisory lock is not waited for.
MutTakeLockAlways(t) ==
    /\ phase[t] = "wait"
    /\ held' = [held EXCEPT ![want[t]] = t]
    /\ phase' = [phase EXCEPT ![t] = IF want[t] \in Chains THEN "tip" ELSE "open"]
    /\ UNCHANGED <<rows, written, nextSeq, want, tip, cursor, seen>>

TakeLock(t) ==
    /\ phase[t] = "wait"
    /\ held[want[t]] \in {t, Nobody}
    /\ held' = [held EXCEPT ![want[t]] = t]
    /\ phase' = [phase EXCEPT ![t] = IF want[t] \in Chains THEN "tip" ELSE "open"]
    /\ UNCHANGED <<rows, written, nextSeq, want, tip, cursor, seen>>

ReadTip(t) ==
    /\ phase[t] = "tip"
    /\ tip' = [tip EXCEPT ![t] = tip_hash(t, want[t])]
    /\ phase' = [phase EXCEPT ![t] = "insert"]
    /\ UNCHANGED <<rows, written, nextSeq, held, want, cursor, seen>>

\* The sequence number is drawn by the INSERT.  The hash is of the number as it was
\* given, the column keeps what it rounds it to.
InsertRow(t) ==
    /\ phase[t] = "insert"
    /\ written' = [written EXCEPT ![t] = @ \cup
                     {[chain |-> want[t], seq |-> nextSeq, entry |-> t,
                       value |-> Numeric(want[t], Value[t]), prev |-> tip[t],
                       hash |-> compute_row_hash(tip[t], t, Value[t])]}]
    /\ nextSeq' = nextSeq + 1
    /\ phase' = [phase EXCEPT ![t] = "open"]
    /\ UNCHANGED <<rows, held, want, tip, cursor, seen>>

Release(t) == held' = [x \in Locks |-> IF held[x] = t THEN Nobody ELSE held[x]]

Commit(t) ==
    /\ phase[t] = "open"
    /\ rows' = rows \cup written[t]
    /\ written' = [written EXCEPT ![t] = {}]
    /\ phase' = [phase EXCEPT ![t] = "done"]
    /\ Release(t)
    /\ UNCHANGED <<nextSeq, want, tip, cursor, seen>>

\* An error, or the end of the process: everything is rolled back.
Rollback(t) ==
    /\ phase[t] \notin {"new", "done"}
    /\ written' = [written EXCEPT ![t] = {}]
    /\ phase' = [phase EXCEPT ![t] = "done"]
    /\ Release(t)
    /\ UNCHANGED <<rows, nextSeq, want, tip, cursor, seen>>

\* t waits, directly or through others, for itself: one of a cycle of transactions.
Awaits(t) == IF phase[t] = "wait" THEN held[want[t]] ELSE Nobody
InCycle(t) ==
    \E S \in SUBSET Transactions :
        /\ t \in S
        /\ {Awaits(u) : u \in S} = S

\* PostgreSQL breaks a cycle of waiting transactions by failing one of them.
BreakDeadlock(t) == InCycle(t) /\ Rollback(t)

\* The keyset page after the cursor.
list_for_tenant_after(c) ==
    LET after == {row \in RowsOf(rows, c) : row.seq > cursor[c]}
        page == {row \in after : Cardinality(Before(after, row)) < PageSize}
    IN  /\ page # {}
        /\ seen' = [seen EXCEPT ![c] = @ \cup page]
        /\ cursor' = [cursor EXCEPT ![c] = Newest(page).seq]
        /\ UNCHANGED <<rows, written, nextSeq, held, phase, want, tip>>

TransactionStep(t) ==
    \/ \E x \in Records : WriteRecord(t, x)
    \/ \E c \in Chains : append_history(t, c)
    \/ TakeLock(t)
    \/ ReadTip(t)
    \/ InsertRow(t)
    \/ Commit(t)

ChainNext ==
    \/ \E t \in Transactions : Begin(t) \/ TransactionStep(t) \/ Rollback(t) \/ BreakDeadlock(t)
    \/ \E c \in Chains : list_for_tenant_after(c)

ChainSpec == ChainInit /\ [][ChainNext]_chainVars

-----------------------------------------------------------------------------
(* Properties *)

\* The column of the row does not hold the number that was hashed.
Rounded(row) == Numeric(row.chain, Value[row.entry]) # Value[row.entry]

\* Whatever transactions append, roll back and leave gaps, every chain links row by row
\* from the genesis hash, so that verify_chain blames no interleaving: it stops at the
\* first row whose number was rounded when it was stored, and passes if there is none.
\* Such a row is a false alarm, and it hides every row after it; Sentinel's costs and
\* scores have more digits than their columns.
ChainVerifies ==
    \A c \in Chains : verify_chain(c) = FirstSeq({row \in RowsOf(rows, c) : Rounded(row)})

\* A client that pages by after_sequence is given every committed row up to its
\* cursor, also while rows are appended: no transaction commits a row behind it.
PagesMissNothing ==
    \A c \in Chains : \A row \in RowsOf(rows, c) : row.seq <= cursor[c] => row \in seen[c]

\* The committed entries of a chain, in the order of their sequence numbers.
RowAt(S, i) == CHOOSE row \in S : Cardinality(Before(S, row)) = i - 1
LogOf(c) ==
    LET walk == RowsOf(rows, c)
    IN  [i \in 1..Cardinality(walk) |-> RowAt(walk, i).entry]

\* Each chain is a log that grows at its end only.
Log == INSTANCE AppendOnlyLog
         WITH LogNames <- Chains, LogEntries <- Transactions, logs <- [c \in Chains |-> LogOf(c)]
ChainIsLog == Log!LogSpec

\* What is read from a chain is right at every moment: verification stops at a rounded
\* number or not at all, and paging misses no row (verify_chain, list_for_tenant_after).
ReadersAreRight == ChainVerifies /\ PagesMissNothing
=============================================================================
