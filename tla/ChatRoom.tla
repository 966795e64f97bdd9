------------------------------- MODULE ChatRoom -------------------------------
(* One channel of Rendly's chat: the sending pipeline (realtime/pipeline.py), the *)
(* member routes (realtime/rest.py) and the registry of live connections         *)
(* (realtime/registry.py, realtime/ws.py).                                       *)
(*                                                                              *)
(* Everything runs on one event loop, so an action is what a handler does        *)
(* between two awaits; the database commits are such awaits.  A channel          *)
(* message is inserted under the channel's row lock.                             *)
EXTENDS Integers, Sequences, FiniteSets

CONSTANTS
    People, Sockets, OwnerOf,  \* users, WebSocket connections, each one's user
    Messages, AuthorOf,        \* chat.send frames and their senders
    MaxRoleChanges,            \* bound on upsert_member and remove_member calls
    NoMessage

ASSUME RoomAssumption == AuthorOf \in [Messages -> People] /\ NoMessage \notin Messages

VARIABLES
    role,       \* role[u]: committed membership: "none", "guest" or "member"
    socket,     \* socket[c]: closed, loading, live
    snapshot,   \* snapshot[c]: conn.channels holds this channel
    bucket,     \* the registry's connections of this channel
    send,       \* send[m]: where the handling of m is
    seqs,       \* messages rows in the order of their seq
    seqRead,    \* seqRead[m]: the next_seq that the insert of m read
    nextNumber,    \* channels.next_seq
    channelRow, \* the message whose insert holds the channel's row lock
    evicting,   \* users deleted from the channel and not yet evicted
    removed,    \* history: users whose removal was answered, not added since
    eligible,   \* history: messages whose sender could post at some time since
                \* their inspection ended
    roleChanges

memberVars == <<role, evicting, removed, roleChanges>>
socketVars == <<socket, snapshot, bucket>>
storeVars == <<seqs, seqRead, nextNumber, channelRow>>
roomVars == <<role, evicting, removed, roleChanges, socket, snapshot, bucket,
              send, seqs, seqRead, nextNumber, channelRow, eligible>>

RoomInit ==
    /\ role \in [People -> {"none", "member"}]
    /\ socket = [c \in Sockets |-> "closed"]
    /\ snapshot = [c \in Sockets |-> FALSE]
    /\ bucket = {}
    /\ send = [m \in Messages |-> "new"]
    /\ seqs = <<>> /\ seqRead = [m \in Messages |-> 0] /\ nextNumber = 0
    /\ channelRow = NoMessage
    /\ evicting = {} /\ removed = {} /\ eligible = {} /\ roleChanges = 0

\* evaluate(type, role, POST): a guest only reads, a stranger does nothing.
CanPost(u) == role[u] = "member"
InFlight(m) == send[m] \in {"inspected", "admitted", "inserting"}

-----------------------------------------------------------------------------
\* upsert_member: delete and insert of the row in one commit.
upsert_member(u, r) ==
    /\ roleChanges < MaxRoleChanges
    /\ roleChanges' = roleChanges + 1
    /\ role' = [role EXCEPT ![u] = r]
    /\ removed' = removed \ {u}
    /\ eligible' = eligible \cup
           (IF r = "member" THEN {m \in Messages : InFlight(m) /\ AuthorOf[m] = u} ELSE {})
    /\ UNCHANGED <<evicting, socketVars, storeVars, send>>

\* remove_member: the delete commits, then the eviction and the answer.
remove_member(u) ==
    /\ roleChanges < MaxRoleChanges /\ u \notin evicting
    /\ roleChanges' = roleChanges + 1
    /\ role' = [role EXCEPT ![u] = "none"]
    /\ evicting' = evicting \cup {u}
    /\ UNCHANGED <<removed, socketVars, storeVars, send, eligible>>

\* remove_user_from_channel reaches the user's registered connections.
remove_user_from_channel(u) ==
    LET mine == {c \in Sockets : OwnerOf[c] = u /\ socket[c] = "live"}
    IN  /\ u \in evicting
        /\ evicting' = evicting \ {u}
        /\ bucket' = bucket \ mine
        /\ snapshot' = [c \in Sockets |-> snapshot[c] /\ c \notin mine]
        /\ removed' = IF role[u] = "none" THEN removed \cup {u} ELSE removed
        /\ UNCHANGED <<role, roleChanges, socket, storeVars, send, eligible>>

-----------------------------------------------------------------------------
\* realtime_endpoint: the memberships are loaded, then (the session's exit is an
\* await) the connection is registered with them.
realtime_endpoint(c) ==
    /\ socket[c] = "closed"
    /\ socket' = [socket EXCEPT ![c] = "loading"]
    /\ snapshot' = [snapshot EXCEPT ![c] = role[OwnerOf[c]] # "none"]
    /\ UNCHANGED <<memberVars, bucket, storeVars, send, eligible>>

RegistryAdd(c) ==
    /\ socket[c] = "loading"
    /\ socket' = [socket EXCEPT ![c] = "live"]
    /\ bucket' = IF snapshot[c] THEN bucket \cup {c} ELSE bucket
    /\ UNCHANGED <<memberVars, snapshot, storeVars, send, eligible>>

Disconnect(c) ==
    /\ socket[c] = "live"
    /\ socket' = [socket EXCEPT ![c] = "closed"]
    /\ bucket' = bucket \ {c}
    /\ snapshot' = [snapshot EXCEPT ![c] = FALSE]
    /\ UNCHANGED <<memberVars, storeVars, send, eligible>>

-----------------------------------------------------------------------------
\* handle_chat_send, step 2: the early authorization.
handle_chat_send(m) ==
    /\ send[m] = "new"
    /\ send' = [send EXCEPT ![m] = IF CanPost(AuthorOf[m]) THEN "authorized" ELSE "refused"]
    /\ UNCHANGED <<memberVars, socketVars, storeVars, eligible>>

\* step 3: anything but a pass ends the send, an inspector that fails included.
inspect(m, verdict) ==
    /\ send[m] = "authorized"
    /\ send' = [send EXCEPT ![m] = IF verdict = "pass" THEN "inspected" ELSE "blocked"]
    /\ eligible' = eligible \cup (IF CanPost(AuthorOf[m]) /\ verdict = "pass" THEN {m} ELSE {})
    /\ UNCHANGED <<memberVars, socketVars, storeVars>>

\* step 4: the second authorization, in the transaction of the insert.
Reauthorize(m) ==
    /\ send[m] = "inspected"
    /\ send' = [send EXCEPT ![m] = IF CanPost(AuthorOf[m]) THEN "admitted" ELSE "refused"]
    /\ UNCHANGED <<memberVars, socketVars, storeVars, eligible>>

\* insert_message: the channel row FOR UPDATE, and its next_seq.
LockChannelRow(m) ==
    /\ send[m] = "admitted" /\ channelRow = NoMessage
    /\ channelRow' = m
    /\ seqRead' = [seqRead EXCEPT ![m] = nextNumber]
    /\ send' = [send EXCEPT ![m] = "inserting"]
    /\ UNCHANGED <<memberVars, socketVars, seqs, nextNumber, eligible>>

\* The message, the counter and the commit, which may fail (internal_error).
CommitChat(m) ==
    /\ send[m] = "inserting"
    /\ channelRow' = NoMessage
    /\ \/ /\ send' = [send EXCEPT ![m] = "stored"]
          /\ seqs' = Append(seqs, m)
          /\ nextNumber' = seqRead[m] + 1
       \/ /\ send' = [send EXCEPT ![m] = "failed"]
          /\ UNCHANGED <<seqs, nextNumber>>
    /\ UNCHANGED <<memberVars, socketVars, seqRead, eligible>>

\* broadcast_channel, after the acknowledgement: m goes to the connections that
\* are in the bucket at that time.
broadcast_channel(m) ==
    /\ send[m] = "stored"
    /\ send' = [send EXCEPT ![m] = "sent"]
    /\ UNCHANGED <<memberVars, socketVars, storeVars, eligible>>

RoomNext ==
    \/ \E u \in People : \/ \E r \in {"guest", "member"} : upsert_member(u, r)
                         \/ remove_member(u) \/ remove_user_from_channel(u)
    \/ \E c \in Sockets : realtime_endpoint(c) \/ RegistryAdd(c) \/ Disconnect(c)
    \/ \E m \in Messages :
          \/ handle_chat_send(m)
          \/ \E verdict \in {"pass", "blocked", "unavailable"} : inspect(m, verdict)
          \/ Reauthorize(m) \/ LockChannelRow(m) \/ CommitChat(m) \/ broadcast_channel(m)

-----------------------------------------------------------------------------
\* A stored message passed its inspection, and its sender could still post at
\* some moment after the inspection ended: a right revoked during the inspection
\* lets no last message through, and an inspector that fails lets none through
\* (handle_chat_send).
StoredWasAllowed ==
    \A m \in Messages : send[m] \in {"stored", "sent"} => m \in eligible

\* The messages of a channel are numbered 0, 1, 2, ... without gap or repetition,
\* in the order of their commits (insert_message).
NumberedInOrder ==
    /\ nextNumber = Len(seqs)
    /\ \A i \in 1..Len(seqs) : seqRead[seqs[i]] = i - 1

\* "a revoked member stops receiving at once" (docs/adr/0005-rendly-chat.md): once
\* a removal is answered, no connection of the user delivers the channel, unless
\* the user is added again.
RemovedIsDeaf == \A c \in bucket : OwnerOf[c] \notin removed

\* The room stores only what was allowed, in one order (handle_chat_send, insert_message).
RoomIsSound == StoredWasAllowed /\ NumberedInOrder
=============================================================================
