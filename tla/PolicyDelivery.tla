--------------------------- MODULE PolicyDelivery ---------------------------
(***************************************************************************)
(* From a decision in Delta's outbox to its enforcement by the Sentinels:  *)
(* PublishOutbox and PolicyDistribution joined at the HTTP call            *)
(* publish_signed_policy -> submit_distribution.  Row r of the outbox      *)
(* carries policy_version r, and Delta names no targets, so O-004 resolves *)
(* them to its configured ones.                                            *)
(***************************************************************************)
EXTENDS PublishOutbox, PolicyDistribution

ASSUME DeliveryAssumption == PolicyVersions = Rows

deliveryVars == <<outboxVars, distVars>>

\* The POST and the request handler that serves it are one step of the composition.
DeliverAccepted(d, x) ==
    PublishAccepted(d) /\ submit_distribution(x, RowOf(d), Known, TRUE)

DeliverAnswerLost(d, x, ok) ==
    PublishAnswerLost(d) /\ submit_distribution(x, RowOf(d), Known, ok)

Deliver(d) ==
    \/ \E x \in NewIds :
          \/ DeliverAccepted(d, x)
          \/ \E ok \in BOOLEAN : DeliverAnswerLost(d, x, ok)
    \/ \E o \in Outcomes : PublishRefused(d, o) /\ UNCHANGED distVars

Drain(d) == (due_outbox_ids(d) \/ DrainStep(d)) /\ UNCHANGED distVars

DeliveryInit == OutboxInit /\ DistInit

DeliveryNext ==
    \/ \E r \in Rows : (enqueue_decision(r) \/ BackoffEnds(r)) /\ UNCHANGED distVars
    \/ \E d \in Drainers :
          \/ Drain(d)
          \/ Deliver(d)
          \/ \E dies \in BOOLEAN : Rollback(d, dies) /\ UNCHANGED distVars
    \/ \E x \in Dists : (TaskStep(x) \/ LoseTask(x)) /\ UNCHANGED outboxVars

DeliverySpec == DeliveryInit /\ [][DeliveryNext]_deliveryVars

-----------------------------------------------------------------------------
\* O-004 reports, or has lost, the delivery of version r to Sentinel s.
Undelivered(r, s) ==
    \E x \in Dists :
        /\ dver[x] = r
        /\ \/ task[x] = "lost"
           \/ task[x] = "done" /\ target[x][s] # "distributed"

\* What Sentinel s enforces is a decision Delta committed, not older than any
\* that O-004 reported to have distributed to it.
EnforcesADecision(s) ==
    /\ active[s] # 0 => state[active[s]] # "none" /\ accepted[active[s]] # "no"
    /\ \A x \in Dists : target[x][s] = "distributed" => dver[x] <= active[s]

=============================================================================
