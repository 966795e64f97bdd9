---------------------------- MODULE SharedState -----------------------------
(***************************************************************************)
(* The Orchestrator's shared agent state (messaging/router.py write_state  *)
(* and read_state, persistence/repositories.py): a cell is created once    *)
(* and then replaced by compare-and-swap on its version.  One tenant: row  *)
(* level security keeps tenants apart.                                     *)
(***************************************************************************)
EXTENDS Naturals, FiniteSets

CONSTANTS
    StateKeys,      \* state keys of the tenant
    Writers,        \* concurrent clients
    StateCap,       \* max_state_keys_per_tenant
    MaxVersion,     \* bound on versions
    NoWriter        \* the cap lock is free

ASSUME StateAssumption ==
    /\ StateCap \in Nat /\ MaxVersion \in Nat
    /\ IsFiniteSet(Writers)
    /\ NoWriter \notin Writers

VARIABLES
    version,        \* version[k]: version of the committed cell, 0 if there is none
    made,           \* made[k]: <<expected, version>> of each committed write
    stateLock,      \* who holds the tenant's state key cap lock
    writing,        \* writing[w]: the request of w: next statement, key, expected version
    known,          \* known[w][k]: the version w has been told last, 0 for none
    stateLinks,     \* stateLinks[k][v]: number of links of version v of k in the state chain
    unlinked        \* <<k, v>>: writes whose process died before the link

stateVars == <<version, made, stateLock, writing, known, stateLinks, unlinked>>

Waiting == [pc |-> "idle"]

StateInit ==
    /\ version = [k \in StateKeys |-> 0]
    /\ made = [k \in StateKeys |-> {}]
    /\ stateLock = NoWriter
    /\ writing = [w \in Writers |-> Waiting]
    /\ known = [w \in Writers |-> [k \in StateKeys |-> 0]]
    /\ stateLinks = [k \in StateKeys |-> [v \in 1..MaxVersion |-> 0]]
    /\ unlinked = {}

WriteGoTo(w, p) == writing' = [writing EXCEPT ![w].pc = p]
FreeCap(w) == stateLock' = IF stateLock = w THEN NoWriter ELSE stateLock
Exists(k) == version[k] > 0

read_state(w, k) ==
    /\ writing[w] = Waiting /\ known[w][k] # version[k]
    /\ known' = [known EXCEPT ![w][k] = version[k]]
    /\ UNCHANGED <<version, made, stateLock, writing, stateLinks, unlinked>>

\* A write on top of the version the client knows; none known is a create.
write_state(w, k) ==
    /\ writing[w] = Waiting
    /\ known[w][k] < MaxVersion
    /\ writing' = [writing EXCEPT ![w] =
                     [pc |-> IF known[w][k] = 0 THEN "check" ELSE "update",
                      key |-> k, expected |-> known[w][k]]]
    /\ UNCHANGED <<version, made, stateLock, known, stateLinks, unlinked>>

\* A key that exists is not subject to the cap.
get_agent_state(w) ==
    /\ writing[w].pc = "check"
    /\ WriteGoTo(w, IF Exists(writing[w].key) THEN "create" ELSE "lock")
    /\ UNCHANGED <<version, made, stateLock, known, stateLinks, unlinked>>

lock_messaging_state_key_cap(w) ==
    /\ writing[w].pc = "lock" /\ stateLock = NoWriter
    /\ stateLock' = w
    /\ WriteGoTo(w, "count")
    /\ UNCHANGED <<version, made, known, stateLinks, unlinked>>

\* 422 state_key_limit_exceeded at the cap.
count_agent_state_keys(w) ==
    /\ writing[w].pc = "count"
    /\ IF Cardinality({k \in StateKeys : Exists(k)}) >= StateCap
       THEN writing' = [writing EXCEPT ![w] = Waiting] /\ FreeCap(w)
       ELSE WriteGoTo(w, "create") /\ UNCHANGED stateLock
    /\ UNCHANGED <<version, made, known, stateLinks, unlinked>>

Store(w, k, v) ==
    /\ version' = [version EXCEPT ![k] = v]
    /\ made' = [made EXCEPT ![k] = @ \cup {<<writing[w].expected, v>>}]
    /\ writing' = [writing EXCEPT ![w] = [pc |-> "link", key |-> k, expected |-> v]]

\* INSERT ... ON CONFLICT DO NOTHING and its commit.
create_agent_state_if_absent(w) ==
    /\ writing[w].pc = "create"
    /\ IF Exists(writing[w].key)
       THEN WriteGoTo(w, "conflict") /\ UNCHANGED <<version, made>>
       ELSE Store(w, writing[w].key, 1)
    /\ FreeCap(w)
    /\ UNCHANGED <<known, stateLinks, unlinked>>

\* Mutant of update_agent_state_cas: the version is not part of the WHERE.
MutUpdateAnyVersion(w) ==
    /\ writing[w].pc = "update"
    /\ IF Exists(writing[w].key)
       THEN Store(w, writing[w].key, version[writing[w].key] + 1)
       ELSE WriteGoTo(w, "conflict") /\ UNCHANGED <<version, made>>
    /\ UNCHANGED <<stateLock, known, stateLinks, unlinked>>

\* UPDATE ... WHERE state_key = :k AND version = :expected, and its commit: a second
\* writer waits for the row and compares its version again.
update_agent_state_cas(w) ==
    /\ writing[w].pc = "update"
    /\ IF version[writing[w].key] = writing[w].expected
       THEN Store(w, writing[w].key, version[writing[w].key] + 1)
       ELSE WriteGoTo(w, "conflict") /\ UNCHANGED <<version, made>>
    /\ UNCHANGED <<stateLock, known, stateLinks, unlinked>>

\* 409 with the version as it is now.
AnswerConflict(w) ==
    /\ writing[w].pc = "conflict"
    /\ known' = [known EXCEPT ![w][writing[w].key] = version[writing[w].key]]
    /\ writing' = [writing EXCEPT ![w] = Waiting]
    /\ UNCHANGED <<version, made, stateLock, stateLinks, unlinked>>

\* The link, in a transaction after the write's own, and the 200 with the new version.
append_state_audit_link(w) ==
    /\ writing[w].pc = "link"
    /\ LET k == writing[w].key
           v == writing[w].expected
       IN  /\ stateLinks' = [stateLinks EXCEPT ![k][v] = @ + 1]
           /\ known' = [known EXCEPT ![w][k] = v]
    /\ writing' = [writing EXCEPT ![w] = Waiting]
    /\ UNCHANGED <<version, made, stateLock, unlinked>>

\* The process dies; what is committed stays, and the client knows what it knew.
WriteFails(w) ==
    /\ writing[w] # Waiting
    /\ unlinked' = IF writing[w].pc = "link"
                   THEN unlinked \cup {<<writing[w].key, writing[w].expected>>} ELSE unlinked
    /\ writing' = [writing EXCEPT ![w] = Waiting]
    /\ FreeCap(w)
    /\ UNCHANGED <<version, made, known, stateLinks>>

StateNext ==
    \E w \in Writers :
        \/ \E k \in StateKeys : read_state(w, k) \/ write_state(w, k)
        \/ get_agent_state(w)
        \/ lock_messaging_state_key_cap(w)
        \/ count_agent_state_keys(w)
        \/ create_agent_state_if_absent(w)
        \/ update_agent_state_cas(w)
        \/ AnswerConflict(w)
        \/ append_state_audit_link(w)
        \/ WriteFails(w)

-----------------------------------------------------------------------------
(* Properties *)

\* No update is lost: the writes of a cell form one line of versions, each made by
\* one writer who knew the version before it.
NoLostUpdate ==
    \A k \in StateKeys : made[k] = {<<v - 1, v>> : v \in 1..version[k]}

\* Concurrent creates of new keys do not pass the tenant's cap.
KeysWithinCap == Cardinality({k \in StateKeys : Exists(k)}) <= StateCap

\* The state chain links every committed version exactly once, but for those a writer
\* is about to link or died before linking; a refused write leaves no link, and the
\* links of two writers may be in either order but none is missing.
LinkedVersions ==
    \A k \in StateKeys, v \in 1..MaxVersion :
        LET pending == {w \in Writers : writing[w].pc = "link" /\ writing[w].key = k
                                          /\ writing[w].expected = v}
            dropped == {x \in unlinked : x = <<k, v>>}
        IN  stateLinks[k][v] + Cardinality(pending) + Cardinality(dropped)
              = IF v <= version[k] THEN 1 ELSE 0

\* Concurrent writers leave the cells exact: one line of versions, each linked once,
\* and no more cells than the cap (write_state).
CellsAreExact == NoLostUpdate /\ LinkedVersions /\ KeysWithinCap
=============================================================================
