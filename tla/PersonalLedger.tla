---------------------------- MODULE PersonalLedger ----------------------------
(* Delta's two writers of a personal account's ledger: a micro transaction      *)
(* (micro_transactions/), capped over any 24 hours and idempotent by key, and    *)
(* the import of a bank statement (bank_import/), idempotent by line.            *)
(*                                                                              *)
(* Each call is one database transaction, split at its reads and its lock.  The  *)
(* advisory lock of a call is held to the end of its transaction, so at most one *)
(* call per account, and one per source, is between lock and commit.  A call     *)
(* takes its timestamp BEFORE it waits for the lock.                             *)
EXTENDS Integers, FiniteSets, FiniteSetsExt, Functions

CONSTANTS
    PaymentKeys, Amount,  \* idempotency keys and the amount each one asks for
    Payers,               \* execute_micro_transaction calls in progress at once
    DailyCap, Day,        \* DAILY_CAP_MINOR_UNITS and the length of 24 hours
    MaxClock,             \* bound on time
    Lines,                \* statement lines, named by their reference hash
    Importers,            \* run_import calls in progress at once
    NoCall

\* Amounts are not negative, and a payment's row is told from a line's.
ASSUME PersonalAssumption ==
    /\ Amount \in [PaymentKeys -> Nat] /\ DailyCap \in Nat /\ Day \in Nat /\ MaxClock \in Nat
    /\ PaymentKeys \cap Lines = {} /\ NoCall \notin Payers

VARIABLES
    executions,  \* rows of micro_transaction_executions: key, at, status
    payer,       \* payer[p]: where a call is, its key and its timestamp
    cashLock,    \* the holder of the account's advisory lock
    imported,    \* imported[l]: rows of l with status 'imported'
    importer,    \* importer[i]: where an import is, its lines, those to import
    importLock,  \* the holder of the source's advisory lock
    ledgerRows,  \* ledgerRows[x]: personal_transactions rows written for x
    payClock

payVars == <<executions, payer, cashLock>>
importVars == <<imported, importer, importLock>>
personalVars == <<executions, payer, cashLock, imported, importer, importLock,
                  ledgerRows, payClock>>

NoPayment == [at |-> "idle", key |-> NoCall, stamp |-> 0, total |-> 0]
NoImport == [at |-> "idle", lines |-> {}, fresh |-> {}]

PersonalInit ==
    /\ executions = {} /\ cashLock = NoCall
    /\ payer = [p \in Payers |-> NoPayment]
    /\ imported = [l \in Lines |-> 0] /\ importLock = NoCall
    /\ importer = [i \in Importers |-> NoImport]
    /\ ledgerRows = [x \in PaymentKeys \cup Lines |-> 0]
    /\ payClock = 0

Tick ==
    /\ payClock < MaxClock
    /\ payClock' = payClock + 1
    /\ UNCHANGED <<payVars, importVars, ledgerRows>>

-----------------------------------------------------------------------------
\* get_by_idempotency_key: a stored outcome is replayed and nothing changes;
\* otherwise the call reads the clock and goes on to wait for the lock.
execute_micro_transaction(p, k) ==
    /\ payer[p].at = "idle"
    /\ ~\E e \in executions : e.key = k
    /\ payer' = [payer EXCEPT ![p] = [NoPayment EXCEPT !.at = "waits", !.key = k, !.stamp = payClock]]
    /\ UNCHANGED <<executions, cashLock, importVars, ledgerRows, payClock>>

MutLockTaken(p) ==
    /\ payer[p].at = "waits"
    /\ cashLock' = p
    /\ payer' = [payer EXCEPT ![p].at = "locked"]
    /\ UNCHANGED <<executions, importVars, ledgerRows, payClock>>

acquire_account_execution_lock(p) ==
    /\ payer[p].at = "waits" /\ cashLock = NoCall
    /\ cashLock' = p
    /\ payer' = [payer EXCEPT ![p].at = "locked"]
    /\ UNCHANGED <<executions, importVars, ledgerRows, payClock>>

\* The row is written under the lock; another currency than the account's is
\* recorded as rejected, unsummed.  UNIQUE (tenant_id, idempotency_key) aborts
\* the transaction of a second call with the same key.
create_execution(p, status) ==
    executions' = IF \E e \in executions : e.key = payer[p].key
                  THEN executions
                  ELSE executions \cup {[key |-> payer[p].key, at |-> payer[p].stamp,
                                         status |-> status, by |-> p]}

EndPayment(p) ==
    /\ cashLock' = NoCall
    /\ payer' = [payer EXCEPT ![p] = NoPayment]

CurrencyMismatch(p) ==
    /\ payer[p].at = "locked"
    /\ create_execution(p, "rejected")
    /\ EndPayment(p)
    /\ UNCHANGED <<importVars, ledgerRows, payClock>>

Executed == {e \in executions : e.status = "executed"}

executed_total_since(since) ==
    MapThenSumSet(LAMBDA e : Amount[e.key], {e \in Executed : e.at >= since})

SumLastDay(p) ==
    /\ payer[p].at = "locked"
    /\ payer' = [payer EXCEPT ![p].at = "summed",
                              ![p].total = executed_total_since(payer[p].stamp - Day)]
    /\ UNCHANGED <<executions, cashLock, importVars, ledgerRows, payClock>>

\* The cap check, the rows (ledger row and execution row together) and the
\* commit; the commit may fail, and then nothing is written.
CommitPayment(p) ==
    LET k == payer[p].key
        within == payer[p].total + Amount[k] <= DailyCap
    IN  /\ payer[p].at = "summed"
        /\ \/ /\ create_execution(p, IF within THEN "executed" ELSE "rejected")
              /\ ledgerRows' = IF within /\ executions' # executions
                               THEN [ledgerRows EXCEPT ![k] = @ + 1] ELSE ledgerRows
           \/ UNCHANGED <<executions, ledgerRows>>
        /\ EndPayment(p)
        /\ UNCHANGED <<importVars, payClock>>

-----------------------------------------------------------------------------
run_import(i, lines) ==
    /\ importer[i].at = "idle"
    /\ importer' = [importer EXCEPT ![i] = [at |-> "waits", lines |-> lines, fresh |-> {}]]
    /\ UNCHANGED <<payVars, imported, importLock, ledgerRows, payClock>>

acquire_source_import_lock(i) ==
    /\ importer[i].at = "waits" /\ importLock = NoCall
    /\ importLock' = i
    /\ importer' = [importer EXCEPT ![i].at = "locked"]
    /\ UNCHANGED <<payVars, imported, ledgerRows, payClock>>

\* Which of the lines are new: not yet imported for this source (a line given
\* twice in one request counts once), and in the account's currency.
imported_hashes_for_source(i) ==
    /\ importer[i].at = "locked"
    /\ \E rejected \in SUBSET importer[i].lines :
          importer' = [importer EXCEPT ![i].at = "compared",
              ![i].fresh = {l \in importer[i].lines \ rejected : imported[l] = 0}]
    /\ UNCHANGED <<payVars, imported, importLock, ledgerRows, payClock>>

\* The ledger rows, the import row, its lines and the commit, which may fail
\* (the partial unique index of imported lines aborts it too).
CommitImport(i) ==
    /\ importer[i].at = "compared"
    /\ \/ /\ \A l \in importer[i].fresh : imported[l] = 0
          /\ imported' = [l \in Lines |-> imported[l] + (IF l \in importer[i].fresh THEN 1 ELSE 0)]
          /\ ledgerRows' = [x \in DOMAIN ledgerRows |->
                 ledgerRows[x] + (IF x \in importer[i].fresh THEN 1 ELSE 0)]
       \/ UNCHANGED <<imported, ledgerRows>>
    /\ importLock' = NoCall
    /\ importer' = [importer EXCEPT ![i] = NoImport]
    /\ UNCHANGED <<payVars, payClock>>

PaymentStep ==
    \E p \in Payers :
        \/ \E k \in PaymentKeys : execute_micro_transaction(p, k)
        \/ acquire_account_execution_lock(p) \/ CurrencyMismatch(p)
        \/ SumLastDay(p) \/ CommitPayment(p)

ImportStep ==
    \E i \in Importers :
        \/ \E lines \in (SUBSET Lines) \ {{}} : run_import(i, lines)
        \/ acquire_source_import_lock(i) \/ imported_hashes_for_source(i) \/ CommitImport(i)

PersonalNext == Tick \/ PaymentStep \/ ImportStep

PersonalSpec == PersonalInit /\ [][PersonalNext]_personalVars

-----------------------------------------------------------------------------
\* No 24 hours contain more executed micro transactions than the cap allows,
\* although a call is stamped before it waits for the lock, so that rows are
\* written in another order than their timestamps (execute_micro_transaction).
EveryDayWithinCap ==
    \A t \in 0..MaxClock :
        MapThenSumSet(LAMBDA e : Amount[e.key],
            {e \in Executed : e.at >= t /\ e.at <= t + Day}) <= DailyCap

\* A key has at most one outcome, and a ledger row exactly when it was executed;
\* a statement line has one ledger row however often and however concurrently
\* the statement is imported (the unique keys and the advisory locks).
OneLedgerRow ==
    /\ \A k \in PaymentKeys : /\ Cardinality({e \in executions : e.key = k}) <= 1
                              /\ ledgerRows[k] = Cardinality({e \in Executed : e.key = k})
    /\ \A l \in Lines : ledgerRows[l] = imported[l] /\ imported[l] <= 1

\* The personal books hold under concurrent calls: the cap and the single rows
\* (execute_micro_transaction, run_import).
PersonalBooksHold == EveryDayWithinCap /\ OneLedgerRow
=============================================================================
