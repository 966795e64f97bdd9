---------------------------- MODULE ProductEvents ----------------------------
(***************************************************************************)
(* The two logs the products report to the Orchestrator: identity events   *)
(* and safety events (identity/router.py, safety/router.py and their part  *)
(* of persistence/repositories.py).  A product retries a report under its  *)
(* idempotency key; the row commits in one transaction and the audit link  *)
(* in a second one; tenants page through their rows by sequence number.    *)
(* Rendly's emitter (realtime/safety_event_emitter.py) reports at most     *)
(* once and looks at no answer; other products may repeat.  Reports that   *)
(* fail the validation of their body change nothing.                       *)
(***************************************************************************)
EXTENDS Naturals, Sequences, FiniteSetsExt

CONSTANTS
    Feeds,          \* "identity", "safety"
    ReportKeys,     \* (source_product, idempotency_key)
    ReportTenants,
    Reports,        \* requests in progress
    PageRows,       \* limit of a page
    MaxReports      \* bound on the reports made

ASSUME EventsAssumption ==
    /\ Feeds \subseteq {"identity", "safety"}
    /\ PageRows \in Nat \ {0} /\ MaxReports \in Nat
    /\ IsFiniteSet(Reports) /\ IsFiniteSet(ReportKeys)

VARIABLES
    logged,         \* logged[f][k]: the committed row of key k, or NoRow
    nextValue,      \* nextValue[f]: the sequence's next value
    report,         \* report[d]: a request
    reported,       \* reports made so far
    eventLinks,     \* eventLinks[f][k]: dispositions of its audit links
    answers,        \* history: answers[f][k]: 202 answers
    pager           \* a tenant's walk through the pages

eventVars == <<logged, nextValue, report, reported, eventLinks, answers, pager>>

NoRow == [number |-> 0]
Idle == [at |-> "idle"]
Tables(x) == [f \in Feeds |-> [k \in ReportKeys |-> x]]

EventsInit ==
    /\ logged = Tables(NoRow)
    /\ nextValue = [f \in Feeds |-> 1]
    /\ report = [d \in Reports |-> Idle]
    /\ reported = 0
    /\ eventLinks = Tables(<<>>)
    /\ answers = Tables(0)
    /\ pager = Idle

-----------------------------------------------------------------------------
(* A report *)

\* Authenticated and validated: the request opens the tenant's transaction.
Receive(d, f, k, t) ==
    /\ report[d] = Idle /\ reported < MaxReports
    /\ report' = [report EXCEPT ![d] = [at |-> "insert", feed |-> f, key |-> k, tenant |-> t]]
    /\ reported' = reported + 1
    /\ UNCHANGED <<logged, nextValue, eventLinks, answers, pager>>

ingest_identity_event(d, k, t) == "identity" \in Feeds /\ Receive(d, "identity", k, t)
ingest_safety_event(d, k, t) == "safety" \in Feeds /\ Receive(d, "safety", k, t)

\* The transaction that has inserted the key and not yet ended.
Pending(f, k) ==
    {d \in Reports : report[d].at = "commit" /\ report[d].inserted
                     /\ report[d].feed = f /\ report[d].key = k}

\* INSERT ... ON CONFLICT DO NOTHING RETURNING: it waits for another transaction with
\* its key, whatever tenant that writes for; a conflict inserts nothing.  The default of
\* the sequence is drawn either way.
InsertEvent(d, f) ==
    LET k == report[d].key
    IN  /\ report[d].at = "insert" /\ report[d].feed = f
        /\ Pending(f, k) = {}
        /\ report' = [report EXCEPT ![d] =
                        [at |-> "commit", feed |-> f, key |-> k, tenant |-> @.tenant,
                         number |-> nextValue[f], inserted |-> logged[f][k] = NoRow]]
        /\ nextValue' = [nextValue EXCEPT ![f] = @ + 1]
        /\ UNCHANGED <<logged, reported, eventLinks, answers, pager>>

insert_identity_event(d) == InsertEvent(d, "identity")
insert_safety_event(d) == InsertEvent(d, "safety")

CommitEvent(d) ==
    /\ report[d].at = "commit"
    /\ LET f == report[d].feed
           row == [number |-> report[d].number, tenant |-> report[d].tenant]
       IN  logged' = IF report[d].inserted THEN [logged EXCEPT ![f][report[d].key] = row]
                                           ELSE logged
    /\ report' = [report EXCEPT ![d].at = "link"]
    /\ UNCHANGED <<nextValue, reported, eventLinks, answers, pager>>

\* Mutant of AppendLink: the disposition is looked up again when the link is written.
MutDispositionLookedUp(d, f) ==
    LET k == report[d].key
        accepted == \A i \in 1..Len(eventLinks[f][k]) : eventLinks[f][k][i] = "duplicate"
    IN  /\ report[d].at = "link" /\ report[d].feed = f
        /\ eventLinks' = [eventLinks EXCEPT ![f][k] =
                            Append(@, IF accepted THEN "accepted" ELSE "duplicate")]
        /\ report' = [report EXCEPT ![d].at = "answer"]
        /\ UNCHANGED <<logged, nextValue, reported, answers, pager>>

\* The link, in the privileged transaction: accepted iff this request made the row.
AppendLink(d, f) ==
    LET k == report[d].key
    IN  /\ report[d].at = "link" /\ report[d].feed = f
        /\ eventLinks' = [eventLinks EXCEPT ![f][k] =
                            Append(@, IF report[d].inserted THEN "accepted" ELSE "duplicate")]
        /\ report' = [report EXCEPT ![d].at = "answer"]
        /\ UNCHANGED <<logged, nextValue, reported, answers, pager>>

append_identity_audit_link(d) == AppendLink(d, "identity")
append_safety_audit_link(d) == AppendLink(d, "safety")

Answer202(d) ==
    /\ report[d].at = "answer"
    /\ answers' = [answers EXCEPT ![report[d].feed][report[d].key] = @ + 1]
    /\ report' = [report EXCEPT ![d] = Idle]
    /\ UNCHANGED <<logged, nextValue, reported, eventLinks, pager>>

\* A dead worker or a lost connection: an open transaction is rolled back, a committed
\* row stays although its link is missing.  The product may report again.
ReportDies(d) ==
    /\ report[d] # Idle
    /\ report' = [report EXCEPT ![d] = Idle]
    /\ UNCHANGED <<logged, nextValue, reported, eventLinks, answers, pager>>

ReportStep(d) ==
    \/ \E k \in ReportKeys, t \in ReportTenants :
          ingest_identity_event(d, k, t) \/ ingest_safety_event(d, k, t)
    \/ insert_identity_event(d) \/ insert_safety_event(d)
    \/ CommitEvent(d)
    \/ append_identity_audit_link(d) \/ append_safety_audit_link(d)
    \/ Answer202(d)
    \/ ReportDies(d)

-----------------------------------------------------------------------------
(* A tenant reads its rows *)

RowsOf(f, t) == {k \in ReportKeys : logged[f][k] # NoRow /\ logged[f][k].tenant = t}
Numbers(f, t, above) ==
    {logged[f][k].number : k \in {k \in RowsOf(f, t) : logged[f][k].number > above}}

\* The first request of a walk has no cursor.  There is one walk at a time.
OpenListing(f, t) ==
    /\ pager.at = "idle"
    /\ pager' = [at |-> "page", feed |-> f, tenant |-> t, cursor |-> 0,
                 before |-> Numbers(f, t, 0), seen |-> <<>>]
    /\ UNCHANGED <<logged, nextValue, report, reported, eventLinks, answers>>

\* The limit+1 smallest numbers above the cursor; the extra one only tells that there is
\* a next page, which starts after the last row of this one.
ListPage(f) ==
    LET above == Numbers(f, pager.tenant, pager.cursor)
        page == {n \in above : Cardinality({m \in above : m < n}) < PageRows}
    IN  /\ pager.at = "page" /\ pager.feed = f
        /\ pager' = IF page # above
                    THEN [pager EXCEPT !.seen = Append(@, page), !.cursor = Max(page)]
                    ELSE [pager EXCEPT !.seen = Append(@, page), !.at = "end"]
        /\ UNCHANGED <<logged, nextValue, report, reported, eventLinks, answers>>

list_identity_events == ListPage("identity")
list_safety_events == ListPage("safety")

CloseListing ==
    /\ pager.at = "end"
    /\ pager' = Idle
    /\ UNCHANGED <<logged, nextValue, report, reported, eventLinks, answers>>

EventsNext ==
    \/ \E d \in Reports : ReportStep(d)
    \/ \E f \in Feeds, t \in ReportTenants : OpenListing(f, t)
    \/ list_identity_events \/ list_safety_events
    \/ CloseListing

EventsSpec == EventsInit /\ [][EventsNext]_eventVars

-----------------------------------------------------------------------------
(* Properties *)

AcceptedLinks(f, k) == {i \in 1..Len(eventLinks[f][k]) : eventLinks[f][k][i] = "accepted"}

\* A key has one row and at most one "accepted" link, whose request made the row; a
\* "duplicate" link is only written when the row is there, and every 202 has its link,
\* however reports of a key race or die (ingest_identity_event, ingest_safety_event).
LinksMatchRows ==
    \A f \in Feeds, k \in ReportKeys :
        /\ \A i, j \in AcceptedLinks(f, k) : i = j
        /\ eventLinks[f][k] # <<>> => logged[f][k] # NoRow
        /\ answers[f][k] <= Len(eventLinks[f][k])
        /\ AcceptedLinks(f, k) # {} =>
              \A d \in Reports : report[d].at \in {"commit", "link"} /\ report[d].feed = f
                                 /\ report[d].key = k => ~report[d].inserted

\* A walk through the pages returns every row that was there when it started, each
\* page after the one before and no row twice, although rows with smaller numbers may
\* commit behind its cursor (list_identity_events, list_safety_events).
WalkIsComplete ==
    /\ pager.at \in {"page", "end"} =>
          \A i, j \in 1..Len(pager.seen) :
              i < j => \A m \in pager.seen[i], n \in pager.seen[j] : m < n
    /\ pager.at = "end" => \A n \in pager.before : \E i \in 1..Len(pager.seen) : n \in pager.seen[i]

\* What the products report is recorded once, explained by its links, and found by its
\* readers.
EventsAreRecorded == LinksMatchRows /\ WalkIsComplete
=============================================================================
