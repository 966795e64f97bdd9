------------------------- MODULE WebhookDispatcher --------------------------
(***************************************************************************)
(* Sentinel's webhook dispatcher (orchestration/webhooks/worker.py,        *)
(* queue.py): workers of one Redis consumer group take candidates from a   *)
(* stream and post each to the webhook configurations it matches, with one *)
(* webhook_delivery row per candidate and configuration.  A worker reads   *)
(* one message at a time here; a message idle for too long is reclaimed by *)
(* another worker, be its reader dead or only slow.  One tenant.           *)
(***************************************************************************)
EXTENDS Naturals, FiniteSets

CONSTANTS
    Candidates,     \* events put on webhook:candidates
    Hooks,          \* enabled webhook_config rows
    HookWorkers,    \* worker processes
    EventSeverity,  \* EventSeverity[m] \in 0..3
    EventScope,     \* EventScope[m]: team and project of the event
    MinSeverity,    \* MinSeverity[c] \in 0..3
    HookScope,      \* HookScope[c]: team and project, or AnyScope
    AnyScope,
    RetryMax,       \* webhook_retry_max
    MaxReclaims,    \* bound on the XAUTOCLAIMs of a message
    MaxFaults       \* bound on database errors, failed lookups and dead workers

ASSUME WebhookAssumption ==
    /\ IsFiniteSet(HookWorkers)
    /\ RetryMax \in Nat \ {0} /\ MaxReclaims \in Nat /\ MaxFaults \in Nat
    /\ EventSeverity \in [Candidates -> 0..3] /\ MinSeverity \in [Hooks -> 0..3]

VARIABLES
    entry,          \* entry[m]: "new", "pending" (read, not acked) or "acked"
    reads,          \* reads[m]: times_delivered of the pending entry
    delivery,       \* delivery[m][c]: the webhook_delivery row
    dispatcher,     \* dispatcher[w]: what worker w is doing
    received,       \* received[m][c]: posts that reached the target
    confirmed,      \* <<m, c>>: posts answered with 2xx
    deadLetters,    \* candidates on the DLQ stream
    capped,         \* candidates dropped by the reclaim cap
    unread,         \* candidates dropped because the configurations could not be read
    blind,          \* lookups of times_delivered that failed
    late,           \* late[m]: workers that looked it up after m was acked
    faults          \* faults so far

webhookVars == <<entry, reads, delivery, dispatcher, received, confirmed, deadLetters, capped,
                 unread, blind, late, faults>>

NoDelivery == [status |-> "none", attempts |-> 0]
AtRest == [pc |-> "idle"]

WebhookInit ==
    /\ entry = [m \in Candidates |-> "new"]
    /\ reads = [m \in Candidates |-> 0]
    /\ delivery = [m \in Candidates |-> [c \in Hooks |-> NoDelivery]]
    /\ dispatcher = [w \in HookWorkers |-> AtRest]
    /\ received = [m \in Candidates |-> [c \in Hooks |-> 0]]
    /\ confirmed = {} /\ deadLetters = {} /\ capped = {} /\ unread = {} /\ blind = 0 /\ faults = 0
    /\ late = [m \in Candidates |-> {}]

_severity_gte(m, c) == EventSeverity[m] >= MinSeverity[c]
Matching(m) == {c \in Hooks : _severity_gte(m, c) /\ HookScope[c] \in {AnyScope, EventScope[m]}}

Fault == faults < MaxFaults /\ faults' = faults + 1
DispatchGoTo(w, p) == dispatcher' = [dispatcher EXCEPT ![w].pc = p]
rowsUnchanged == UNCHANGED <<delivery, received, confirmed>>
lookupsUnchanged == UNCHANGED <<blind, late>>

-----------------------------------------------------------------------------
(* The consumer group *)

xreadgroup(w, m) ==
    /\ dispatcher[w] = AtRest /\ entry[m] = "new"
    /\ entry' = [entry EXCEPT ![m] = "pending"]
    /\ reads' = [reads EXCEPT ![m] = 1]
    /\ dispatcher' = [dispatcher EXCEPT ![w] = [pc |-> "load", msg |-> m]]
    /\ rowsUnchanged /\ lookupsUnchanged /\ UNCHANGED <<deadLetters, capped, unread, faults>>

xautoclaim(w, m) ==
    /\ dispatcher[w] = AtRest /\ entry[m] = "pending" /\ reads[m] <= MaxReclaims
    /\ reads' = [reads EXCEPT ![m] = @ + 1]
    /\ dispatcher' = [dispatcher EXCEPT ![w] = [pc |-> "claimed", msg |-> m]]
    /\ rowsUnchanged /\ lookupsUnchanged /\ UNCHANGED <<entry, deadLetters, capped, unread, faults>>

\* XACK takes the entry off the list of pending ones, whoever reads it.
xack(w) == entry' = [entry EXCEPT ![dispatcher[w].msg] = "acked"]

\* Read count times, the message goes to the DLQ, or the worker goes on with it.
CapOrLoad(w, count, cap) ==
    LET m == dispatcher[w].msg
    IN  \/ /\ count >= cap
           /\ xack(w)
           /\ deadLetters' = deadLetters \cup {m} /\ capped' = capped \cup {m}
           /\ dispatcher' = [dispatcher EXCEPT ![w] = AtRest]
        \/ /\ count < cap
           /\ DispatchGoTo(w, "load") /\ UNCHANGED <<entry, deadLetters, capped>>

\* XPENDING gives the count of a pending entry; of one that was acked since it was
\* claimed it gives nothing, and it may fail: then the count is taken to be 1.
LookUp(w, cap) ==
    /\ dispatcher[w].pc = "claimed"
    /\ LET m == dispatcher[w].msg
       IN  \/ /\ entry[m] = "pending" /\ CapOrLoad(w, reads[m], cap)
              /\ lookupsUnchanged /\ UNCHANGED faults
           \/ /\ entry[m] = "acked" /\ CapOrLoad(w, 1, cap)
              /\ late' = [late EXCEPT ![m] = @ \cup {w}] /\ UNCHANGED <<blind, faults>>
           \/ /\ Fault /\ CapOrLoad(w, 1, cap)
              /\ blind' = blind + 1 /\ UNCHANGED late
    /\ rowsUnchanged /\ UNCHANGED <<reads, unread>>

\* Mutant of ReclaimCap: the cap counts one reclaim too few.
MutReclaimCapOff(w) == LookUp(w, RetryMax + 2)

\* A reclaimed message that was read RetryMax times goes to the DLQ.
ReclaimCap(w) == LookUp(w, RetryMax)

-----------------------------------------------------------------------------
(* One candidate *)

\* The enabled configurations; when they cannot be read the message is acked as it is.
process_candidate(w) ==
    /\ dispatcher[w].pc = "load"
    /\ LET m == dispatcher[w].msg
       IN  \/ /\ dispatcher' = [dispatcher EXCEPT ![w] = [pc |-> "next", msg |-> m, todo |-> Matching(m)]]
              /\ UNCHANGED <<entry, unread, faults>>
           \/ /\ Fault /\ xack(w)
              /\ unread' = unread \cup {m}
              /\ dispatcher' = [dispatcher EXCEPT ![w] = AtRest]
    /\ rowsUnchanged /\ lookupsUnchanged /\ UNCHANGED <<reads, deadLetters, capped>>

\* The next configuration, or the XACK after the last.
NextHook(w) ==
    /\ dispatcher[w].pc = "next"
    /\ IF dispatcher[w].todo = {}
       THEN xack(w) /\ dispatcher' = [dispatcher EXCEPT ![w] = AtRest]
       ELSE /\ \E c \in dispatcher[w].todo :
                  dispatcher' = [dispatcher EXCEPT ![w] =
                      [pc |-> "dedup", msg |-> @.msg, todo |-> @.todo \ {c}, hook |-> c, attempt |-> 0]]
            /\ UNCHANGED entry
    /\ rowsUnchanged /\ lookupsUnchanged /\ UNCHANGED <<reads, deadLetters, capped, unread, faults>>

Row(w) == delivery[dispatcher[w].msg][dispatcher[w].hook]
SetRow(w, r) == delivery' = [delivery EXCEPT ![dispatcher[w].msg][dispatcher[w].hook] = r]

\* The row is read or inserted and committed; a terminal one ends this configuration,
\* and so does an error (the unique key of a row inserted meanwhile is one).
_deliver_to_config(w) ==
    /\ dispatcher[w].pc = "dedup"
    /\ \/ /\ Row(w).status \in {"delivered", "dead_lettered"}
          /\ DispatchGoTo(w, "next") /\ UNCHANGED <<delivery, faults>>
       \/ /\ Row(w).status \notin {"delivered", "dead_lettered"}
          /\ dispatcher' = [dispatcher EXCEPT ![w].pc = "post", ![w].attempt = Row(w).attempts + 1]
          /\ IF Row(w).status = "none" THEN SetRow(w, [status |-> "pending", attempts |-> 0])
             ELSE UNCHANGED delivery
          /\ UNCHANGED faults
       \/ Fault /\ DispatchGoTo(w, "next") /\ UNCHANGED delivery
    /\ lookupsUnchanged /\ UNCHANGED <<entry, reads, received, confirmed, deadLetters, capped, unread>>

\* The guard, the decryption, the body or the signature fails: nothing leaves.
NotSent(w) ==
    /\ dispatcher[w].pc = "post"
    /\ DispatchGoTo(w, "failed")
    /\ rowsUnchanged /\ lookupsUnchanged /\ UNCHANGED <<entry, reads, deadLetters, capped, unread, faults>>

\* The POST: answered with 2xx, with another status, or not at all (it may have arrived).
Post(w, answer) ==
    /\ dispatcher[w].pc = "post"
    /\ LET m == dispatcher[w].msg
           c == dispatcher[w].hook
       IN  /\ received' = [received EXCEPT ![m][c] = @ + 1]
           /\ confirmed' = IF answer = "2xx" THEN confirmed \cup {<<m, c>>} ELSE confirmed
    /\ DispatchGoTo(w, IF answer = "2xx" THEN "sent" ELSE "failed")
    /\ lookupsUnchanged /\ UNCHANGED <<entry, reads, delivery, deadLetters, capped, unread, faults>>

\* The UPDATE to 'delivered'; its failure is caught by the same try, as a transport error.
_mark_delivered(w) ==
    /\ dispatcher[w].pc = "sent"
    /\ \/ /\ SetRow(w, [status |-> "delivered", attempts |-> dispatcher[w].attempt])
          /\ DispatchGoTo(w, "next") /\ UNCHANGED faults
       \/ Fault /\ DispatchGoTo(w, "failed") /\ UNCHANGED delivery
    /\ lookupsUnchanged /\ UNCHANGED <<entry, reads, received, confirmed, deadLetters, capped, unread>>

\* 'failed' below the bound; at the bound 'dead_lettered' and the DLQ.  An UPDATE that
\* fails is logged and forgotten; none of them looks at the status it replaces.
_handle_failure(w) ==
    LET exhausted == dispatcher[w].attempt >= RetryMax
    IN  /\ dispatcher[w].pc = "failed"
        /\ \/ /\ SetRow(w, [status |-> IF exhausted THEN "dead_lettered" ELSE "failed",
                            attempts |-> dispatcher[w].attempt])
              /\ UNCHANGED faults
           \/ Fault /\ UNCHANGED delivery
        /\ deadLetters' = IF exhausted THEN deadLetters \cup {dispatcher[w].msg} ELSE deadLetters
        /\ DispatchGoTo(w, "next")
        /\ lookupsUnchanged /\ UNCHANGED <<entry, reads, received, confirmed, capped, unread>>

\* The process dies; what it read stays pending until it is reclaimed.
DispatcherDies(w) ==
    /\ dispatcher[w] # AtRest /\ Fault
    /\ dispatcher' = [dispatcher EXCEPT ![w] = AtRest]
    /\ rowsUnchanged /\ lookupsUnchanged /\ UNCHANGED <<entry, reads, deadLetters, capped, unread>>

HookWorkerStep(w) ==
    \/ ReclaimCap(w)
    \/ process_candidate(w)
    \/ NextHook(w)
    \/ _deliver_to_config(w)
    \/ NotSent(w)
    \/ \E answer \in {"2xx", "error", "none"} : Post(w, answer)
    \/ _mark_delivered(w)
    \/ _handle_failure(w)

WebhookNext ==
    \E w \in HookWorkers :
        \/ \E m \in Candidates : xreadgroup(w, m) \/ xautoclaim(w, m)
        \/ HookWorkerStep(w)
        \/ DispatcherDies(w)

WebhookSpec == WebhookInit /\ [][WebhookNext]_webhookVars

-----------------------------------------------------------------------------
(* Properties *)

\* A row says 'delivered' only if the target answered a post of that candidate with 2xx,
\* and it never runs ahead of the posts: an attempt that failed, timed out or lost its
\* worker is not taken for a delivery.
DeliveredIsConfirmed ==
    \A m \in Candidates, c \in Hooks :
        delivery[m][c].status = "delivered" => <<m, c>> \in confirmed

\* However often workers die or are overtaken, a target gets a candidate at most once
\* for the first read, once for each reclaim below the cap, and once more for each
\* lookup that did not see the count: one that failed, and one of a worker, which can
\* be no more than one for each worker, that had claimed the message before it was
\* acked and looked it up afterwards.
PostsAreBounded ==
    \A m \in Candidates, c \in Hooks :
        received[m][c] <= (IF RetryMax > 1 THEN RetryMax - 1 ELSE 1) + blind + Cardinality(late[m])

\* A candidate leaves the stream without a word to one of its targets only if a
\* configuration could not be read, the cap dropped it or a database error ate the row:
\* scope and severity never lose a match.
AckedWasTried ==
    \A m \in Candidates :
        (entry[m] = "acked" /\ m \notin capped /\ m \notin unread /\ faults = 0)
            => \A c \in Hooks : (delivery[m][c].status # "none") <=> c \in Matching(m)

\* "Not exhausted - update to 'failed' and leave on stream for reclaim": a delivery that
\* failed below the bound still has its message on the stream.
FailedStaysOnStream ==
    \A m \in Candidates, c \in Hooks :
        delivery[m][c].status = "failed" => entry[m] = "pending"

\* Deaths, reclaims and lost answers leave the deliveries honest: delivered means
\* confirmed, posts are bounded, and no match is lost (_consume_candidates).
DeliveriesAreHonest == DeliveredIsConfirmed /\ PostsAreBounded /\ AckedWasTried
=============================================================================
