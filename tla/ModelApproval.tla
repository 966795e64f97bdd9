----------------------------- MODULE ModelApproval -----------------------------
(* The operators' decisions on a model (admin/model_approval.py, the inventory *)
(* repository) against the requests that use it.  A decision reads the row     *)
(* without a lock, writes it, commits its audit event in a transaction of its  *)
(* own, and only then commits the row; a request looks in the evaluation cache *)
(* first and evaluates the policies when it finds nothing.                     *)
EXTENDS ModelPolicy, Sequences

CONSTANTS
    Deciders,       \* operator calls that may be in progress at once
    Requesters,     \* gateway requests that may be in progress at once
    Deadline,       \* the date a model may be retired at
    MaxCalls,       \* bound on operator calls
    NoDecider

ASSUME ApprovalAssumption == NoDecider \notin Deciders

VARIABLES
    dstep,      \* dstep[o]: idle, read, written, audited
    dcall,      \* dcall[o]: approve, deny, retire or unretire
    dseen,      \* dseen[o]: the row get_row returned
    rowHeld,    \* the call that holds the row lock
    adminLog,   \* committed admin events on the model
    changes,    \* history: the calls whose row change was committed, in order
    calling,    \* number of operator calls started
    rstep,      \* rstep[r]: idle, missed, decided
    rallow,     \* rallow[r]: the decision in hand
    cached,     \* the cached decision: none, allow or deny
    lastServed  \* lastServed[r]: none, served or refused

approvalVars ==
    <<policyRows, modelRow, now, dstep, dcall, dseen, rowHeld, adminLog, changes,
      calling, rstep, rallow, cached, lastServed>>
deciderVars == <<dstep, dcall, dseen, rowHeld, adminLog, changes, calling>>
requesterVars == <<rstep, rallow, cached, lastServed>>

NoCalls ==
    /\ dstep = [o \in Deciders |-> "idle"]
    /\ dcall = [o \in Deciders |-> "none"]
    /\ dseen = [o \in Deciders |-> [state |-> "absent", retire |-> Never]]
    /\ rowHeld = NoDecider
    /\ adminLog = <<>> /\ changes = <<>>
    /\ calling = 0
    /\ rstep = [r \in Requesters |-> "idle"]
    /\ rallow = [r \in Requesters |-> FALSE]
    /\ cached = "none"
    /\ lastServed = [r \in Requesters |-> "none"]

ApprovalInit ==
    /\ policyRows = {p \in Policies : p.kind = "approval" /\ model_matches_scope(p)}
    /\ modelRow \in {[state |-> "absent", retire |-> Never],
                     [state |-> "approved", retire |-> Never]}
    /\ now = 0
    /\ NoCalls

-----------------------------------------------------------------------------
\* get_row, and the checks of transition, set_retirement and clear_retirement on
\* what it returned: a refused call (404, 409) changes nothing.
GetRow(o, c) ==
    /\ dstep[o] = "idle"
    /\ calling < MaxCalls
    /\ calling' = calling + 1
    /\ \/ c = "approve" /\ modelRow.state # "approved"
       \/ c = "deny" /\ modelRow.state # "denied"
       \/ c = "retire" /\ modelRow.state = "approved" /\ now < Deadline
       \/ c = "unretire" /\ modelRow.state # "absent" /\ modelRow.retire # Never
    /\ dstep' = [dstep EXCEPT ![o] = "read"]
    /\ dcall' = [dcall EXCEPT ![o] = c]
    /\ dseen' = [dseen EXCEPT ![o] = modelRow]
    /\ UNCHANGED <<policyRows, modelRow, now, rowHeld, adminLog, changes>>
    /\ UNCHANGED requesterVars

\* The flush: INSERT of a new row (adopt), which the unique key refuses if
\* another call committed one first, or UPDATE of the changed columns.  Either
\* waits for a call that has written the row and not committed it.
Flush(o) ==
    /\ dstep[o] = "read"
    /\ rowHeld = NoDecider
    /\ IF dseen[o].state = "absent" /\ modelRow.state # "absent"
       THEN /\ dstep' = [dstep EXCEPT ![o] = "idle"]
            /\ UNCHANGED rowHeld
       ELSE /\ dstep' = [dstep EXCEPT ![o] = "written"]
            /\ rowHeld' = o
    /\ UNCHANGED <<policyRows, modelRow, now, dcall, dseen, adminLog, changes, calling>>
    /\ UNCHANGED requesterVars

MutAuditBestEffort(o) ==
    /\ dstep[o] = "written"
    /\ \/ adminLog' = Append(adminLog, dcall[o])
       \/ UNCHANGED adminLog
    /\ dstep' = [dstep EXCEPT ![o] = "audited"]
    /\ UNCHANGED <<policyRows, modelRow, now, dcall, dseen, changes, calling, rowHeld>>
    /\ UNCHANGED requesterVars

\* The audit events, committed in the privileged transaction; if that fails the
\* call ends and the row change is rolled back.
EmitAdminEvent(o) ==
    /\ dstep[o] = "written"
    /\ \/ /\ adminLog' = adminLog \o
                (IF dseen[o].state = "absent" THEN <<"adopt">> ELSE <<>>) \o <<dcall[o]>>
          /\ dstep' = [dstep EXCEPT ![o] = "audited"]
          /\ UNCHANGED rowHeld
       \/ /\ dstep' = [dstep EXCEPT ![o] = "idle"]
          /\ rowHeld' = NoDecider
          /\ UNCHANGED adminLog
    /\ UNCHANGED <<policyRows, modelRow, now, dcall, dseen, changes, calling>>
    /\ UNCHANGED requesterVars

\* The columns the call changed; the others keep what the row holds now.
Written(row, c) ==
    CASE c = "approve" -> [row EXCEPT !.state = "approved"]
      [] c = "deny" -> [row EXCEPT !.state = "denied"]
      [] c = "retire" -> [row EXCEPT !.retire = Deadline]
      [] c = "unretire" -> [row EXCEPT !.retire = Never]

\* ts.commit(), or its failure: the event stays and the row does not change.
CommitDecision(o) ==
    /\ dstep[o] = "audited"
    /\ \/ /\ modelRow' = Written(modelRow, dcall[o])
          /\ changes' = changes \o
                (IF dseen[o].state = "absent" THEN <<"adopt">> ELSE <<>>) \o <<dcall[o]>>
       \/ UNCHANGED <<modelRow, changes>>
    /\ dstep' = [dstep EXCEPT ![o] = "idle"]
    /\ rowHeld' = NoDecider
    /\ UNCHANGED <<policyRows, now, dcall, dseen, adminLog, calling>>
    /\ UNCHANGED requesterVars

\* Retirement dates pass, and the TTL of the cached decision runs out.
ApprovalClock ==
    /\ now < MaxNow
    /\ now' = now + 1
    /\ UNCHANGED <<policyRows, modelRow, deciderVars, requesterVars>>

ExpireDecision ==
    /\ cached # "none"
    /\ cached' = "none"
    /\ UNCHANGED <<policyRows, modelRow, now, deciderVars, rstep, rallow, lastServed>>

-----------------------------------------------------------------------------
\* get_cached_decision: a hit is the decision; a miss, or an unreachable cache,
\* means evaluating.
LookUp(r) ==
    /\ rstep[r] = "idle"
    /\ lastServed' = [lastServed EXCEPT ![r] = "none"]
    /\ \/ /\ cached # "none"
          /\ rallow' = [rallow EXCEPT ![r] = cached = "allow"]
          /\ rstep' = [rstep EXCEPT ![r] = "decided"]
       \/ /\ rstep' = [rstep EXCEPT ![r] = "missed"]
          /\ UNCHANGED rallow
    /\ UNCHANGED <<policyRows, modelRow, now, cached, deciderVars>>

MutUnreadableAllows(r) ==
    /\ rstep[r] = "missed"
    /\ \E readable \in BOOLEAN :
          rallow' = [rallow EXCEPT ![r] = ~readable \/ evaluate_model_policies(TRUE)]
    /\ rstep' = [rstep EXCEPT ![r] = "evaluated"]
    /\ UNCHANGED <<policyRows, modelRow, now, cached, lastServed, deciderVars>>

\* evaluate_model_policies on the committed rows.
Evaluate(r) ==
    /\ rstep[r] = "missed"
    /\ \E readable \in BOOLEAN :
          rallow' = [rallow EXCEPT ![r] = evaluate_model_policies(readable)]
    /\ rstep' = [rstep EXCEPT ![r] = "evaluated"]
    /\ UNCHANGED <<policyRows, modelRow, now, cached, lastServed, deciderVars>>

\* set_cached_decision, which may fail.  Nothing an operator does to the
\* inventory removes the entry or changes its key: only its TTL does.
StoreDecision(r) ==
    /\ rstep[r] = "evaluated"
    /\ cached' \in {cached, IF rallow[r] THEN "allow" ELSE "deny"}
    /\ rstep' = [rstep EXCEPT ![r] = "decided"]
    /\ UNCHANGED <<policyRows, modelRow, now, rallow, lastServed, deciderVars>>

\* The request goes on to the provider or is refused with policy_blocked.
Proceed(r) ==
    /\ rstep[r] = "decided"
    /\ rstep' = [rstep EXCEPT ![r] = "idle"]
    /\ lastServed' = [lastServed EXCEPT ![r] = IF rallow[r] THEN "served" ELSE "refused"]
    /\ UNCHANGED <<policyRows, modelRow, now, rallow, cached, deciderVars>>

DeciderStep(o) == Flush(o) \/ EmitAdminEvent(o) \/ CommitDecision(o)

RequesterStep(r) == Evaluate(r) \/ StoreDecision(r) \/ Proceed(r)

ApprovalNext ==
    \/ ApprovalClock \/ ExpireDecision
    \/ \E o \in Deciders :
          \/ DeciderStep(o)
          \/ \E c \in {"approve", "deny", "retire", "unretire"} : GetRow(o, c)
    \/ \E r \in Requesters : LookUp(r) \/ RequesterStep(r)

ApprovalSpec == ApprovalInit /\ [][ApprovalNext]_approvalVars

-----------------------------------------------------------------------------
\* Audit before state: every committed change of the inventory was announced
\* before it, and the announcements are in the order in which the changes took
\* effect.  A failed commit leaves an event without a change, never a change
\* without its event (_decide, retire_model, unretire_model).
ChangesAreAudited ==
    \E at \in [1..Len(changes) -> 1..Len(adminLog)] :
        \A i \in 1..Len(changes) :
            /\ adminLog[at[i]] = changes[i]
            /\ i > 1 => at[i - 1] < at[i]

=============================================================================
