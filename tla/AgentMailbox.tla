---------------------------- MODULE AgentMailbox ----------------------------
(***************************************************************************)
(* The Orchestrator's agent mailbox (messaging/router.py send_message and  *)
(* get_inbox, persistence/repositories.py): a message is stored once per   *)
(* idempotency key, up to a cap per tenant, and polled in the order of its *)
(* sequence number.  One tenant and one inbox: row level security keeps    *)
(* tenants apart, and other inboxes only leave gaps in the numbers.        *)
(* Requests that fail the validation change nothing and are left out.      *)
(***************************************************************************)
EXTENDS Naturals, Sequences, FiniteSets, FiniteSetsExt

CONSTANTS
    MailKeys,       \* idempotency keys
    Senders,        \* concurrent POST /v1/messaging/messages requests
    MailCap,        \* max_messages_per_tenant
    InboxPage,      \* the limit of one poll
    MaxSends,       \* bound on the requests
    NoSender        \* the cap lock is free

ASSUME MailAssumption ==
    /\ MailCap \in Nat /\ MaxSends \in Nat
    /\ InboxPage \in Nat \ {0}
    /\ NoSender \notin Senders

VARIABLES
    mail,           \* the committed agent_messages rows
    mailSeq,        \* the next sequence_number
    mailLock,       \* who holds the tenant's message cap lock
    sending,        \* sending[s]: the request of s: next statement, key, row, disposition
    mailLinks,      \* mailLinks[k]: dispositions of the links of k in the messaging chain
    told,           \* <<key, sequence_number>>: what was answered with a 202
    polledTo,       \* since_sequence of the polling agent
    polled,         \* the messages it was given
    sends           \* number of requests so far

mailVars == <<mail, mailSeq, mailLock, sending, mailLinks, told, polledTo, polled, sends>>

Resting == [pc |-> "idle"]

MailInit ==
    /\ mail = {} /\ mailSeq = 1 /\ mailLock = NoSender
    /\ sending = [s \in Senders |-> Resting]
    /\ mailLinks = [k \in MailKeys |-> <<>>]
    /\ told = {} /\ polledTo = 0 /\ polled = {} /\ sends = 0

MailOf(k) == {m \in mail : m.key = k}
SendGoTo(s, p) == sending' = [sending EXCEPT ![s].pc = p]
Unlock(s) == mailLock' = IF mailLock = s THEN NoSender ELSE mailLock

send_message(s, k) ==
    /\ sending[s] = Resting /\ sends < MaxSends
    /\ sending' = [sending EXCEPT ![s] = [pc |-> "check", key |-> k, seq |-> 0]]
    /\ sends' = sends + 1
    /\ UNCHANGED <<mail, mailSeq, mailLock, mailLinks, told, polledTo, polled>>

\* The stored message of the key, before the cap lock is taken.
get_agent_message_by_idempotency_key(s) ==
    /\ sending[s].pc = "check"
    /\ SendGoTo(s, IF MailOf(sending[s].key) # {} THEN "deduped" ELSE "lock")
    /\ UNCHANGED <<mail, mailSeq, mailLock, mailLinks, told, polledTo, polled, sends>>

lock_messaging_message_cap(s) ==
    /\ sending[s].pc = "lock" /\ mailLock = NoSender
    /\ mailLock' = s
    /\ SendGoTo(s, "count")
    /\ UNCHANGED <<mail, mailSeq, mailLinks, told, polledTo, polled, sends>>

count_agent_messages(s) ==
    /\ sending[s].pc = "count"
    /\ SendGoTo(s, IF Cardinality(mail) >= MailCap THEN "capped" ELSE "insert")
    /\ UNCHANGED <<mail, mailSeq, mailLock, mailLinks, told, polledTo, polled, sends>>

\* The sequence number is drawn; a key that exists is an IntegrityError, which rolls
\* back.  The INSERT waits for a transaction with the same key.
insert_agent_message(s) ==
    /\ sending[s].pc = "insert"
    /\ \A o \in Senders : ~(sending[o].pc = "commit" /\ sending[o].key = sending[s].key)
    /\ mailSeq' = mailSeq + 1
    /\ IF MailOf(sending[s].key) = {}
       THEN /\ sending' = [sending EXCEPT ![s].pc = "commit", ![s].seq = mailSeq]
            /\ UNCHANGED mailLock
       ELSE SendGoTo(s, "deduped") /\ Unlock(s)
    /\ UNCHANGED <<mail, mailLinks, told, polledTo, polled, sends>>

CommitMessage(s) ==
    /\ sending[s].pc = "commit"
    /\ mail' = mail \cup {[key |-> sending[s].key, seq |-> sending[s].seq]}
    /\ Unlock(s)
    /\ SendGoTo(s, "sent")
    /\ UNCHANGED <<mailSeq, mailLinks, told, polledTo, polled, sends>>

\* The link of a fresh or a repeated send, in a transaction of its own, and the 202
\* with the sequence number of the stored message.
append_messaging_audit_link(s) ==
    /\ sending[s].pc \in {"sent", "deduped"}
    /\ LET k == sending[s].key
       IN  /\ mailLinks' = [mailLinks EXCEPT ![k] = Append(@, sending[s].pc)]
           /\ told' = told \cup {<<k, m.seq>> : m \in MailOf(k)}
    /\ sending' = [sending EXCEPT ![s] = Resting]
    /\ UNCHANGED <<mail, mailSeq, mailLock, polledTo, polled, sends>>

\* 422 message_limit_exceeded; the session is closed and the lock with it.
RefuseSend(s) ==
    /\ sending[s].pc = "capped"
    /\ sending' = [sending EXCEPT ![s] = Resting]
    /\ Unlock(s)
    /\ UNCHANGED <<mail, mailSeq, mailLinks, told, polledTo, polled, sends>>

\* A database error or a dead worker; the sender may send again.
SendFails(s) ==
    /\ sending[s] # Resting
    /\ sending' = [sending EXCEPT ![s] = Resting]
    /\ Unlock(s)
    /\ UNCHANGED <<mail, mailSeq, mailLinks, told, polledTo, polled, sends>>

\* One page after since_sequence; the agent goes on from the last row it was given.
list_inbox_messages ==
    LET due == {m \in mail : m.seq > polledTo}
        page == {m \in due : Cardinality({n \in due : n.seq < m.seq}) < InboxPage}
    IN  /\ page # {}
        /\ polled' = polled \cup page
        /\ polledTo' = Max({m.seq : m \in page})
        /\ UNCHANGED <<mail, mailSeq, mailLock, sending, mailLinks, told, sends>>

MailNext ==
    \/ \E s \in Senders :
          \/ \E k \in MailKeys : send_message(s, k)
          \/ get_agent_message_by_idempotency_key(s)
          \/ lock_messaging_message_cap(s)
          \/ count_agent_messages(s)
          \/ insert_agent_message(s)
          \/ CommitMessage(s)
          \/ append_messaging_audit_link(s)
          \/ RefuseSend(s)
          \/ SendFails(s)
    \/ list_inbox_messages

-----------------------------------------------------------------------------
(* Properties *)

\* However often a message is sent and resent, at once or after a failure: it is one
\* row, its sends are answered with that row's sequence number, at most one link of
\* the chain says "sent", and the tenant stays within its cap.
MailOnce ==
    /\ Cardinality(mail) <= MailCap
    /\ \A k \in MailKeys :
          /\ Cardinality(MailOf(k)) <= 1
          /\ Cardinality({i \in DOMAIN mailLinks[k] : mailLinks[k][i] = "sent"}) <= 1
    /\ \A a \in told : \E m \in mail : a = <<m.key, m.seq>>

\* An agent that polls from the last sequence number it was given misses no message:
\* none is committed behind its cursor.
InboxMissesNothing == \A m \in mail : m.seq <= polledTo => m \in polled

\* Concurrent sends, retries and polls leave the mailbox exact: one row per message
\* within the cap, and none that a poller misses (send_message, list_inbox_messages).
MailIsExact == MailOnce /\ InboxMissesNothing
=============================================================================
