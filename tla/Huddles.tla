-------------------------------- MODULE Huddles --------------------------------
(* Rendly's calls (realtime/huddle.py, the huddle handlers of                   *)
(* realtime/pipeline.py, the cleanup of realtime/ws.py): the in-memory manager   *)
(* of live huddles, the registry of connections they rest on, and the archive    *)
(* of ended ones (persistence/huddle_repo.py).                                   *)
(*                                                                              *)
(* One event loop: an action is what a handler does between two awaits.  The     *)
(* awaits that matter are the archive write inside leave_huddle, the relay       *)
(* inside handle_signal_send and the presence broadcast before the cleanup of a  *)
(* dropped connection.                                                           *)
EXTENDS Integers, FiniteSets

CONSTANTS
    Participants, Phones, PhoneOf,  \* users, connections, each one's user
    Calls,                         \* huddle ids, fresh for every invitation
    MaxDrops,                      \* bound on dropped connections
    NoHuddle

ASSUME HuddleAssumption == PhoneOf \in [Phones -> Participants] /\ NoHuddle \notin Calls

VARIABLES
    line,       \* line[c]: closed, opening, live, dropping; leaked: closed and still registered
    huddle,     \* huddle[h]: state, caller and live_ids of a Huddle object
    managed,    \* huddles the manager knows
    activeOf,   \* activeOf[u]: the manager's _by_user
    leaving,    \* leave_huddle calls waiting for their archive write: <<h, u>>
    relaying,   \* handle_signal_send calls waiting for their relay: <<h, u>>
    archive,    \* archive[h]: rows of h in huddles
    archiveLost,\* history: huddles an archive write of which failed
    drops

huddleVars == <<line, huddle, managed, activeOf, leaving, relaying, archive, archiveLost, drops>>

NeverStarted == [state |-> "none", caller |-> NoHuddle, live |-> {}]
Terminal == {"declined", "ended"}

HuddleInit ==
    /\ line = [c \in Phones |-> "closed"]
    /\ huddle = [h \in Calls |-> NeverStarted]
    /\ managed = {} /\ leaving = {} /\ relaying = {}
    /\ activeOf = [u \in Participants |-> NoHuddle]
    /\ archive = [h \in Calls |-> 0]
    /\ archiveLost = {} /\ drops = 0

user_connections(u) ==
    {c \in Phones : PhoneOf[c] = u /\ line[c] \in {"opening", "live", "leaked"}}
CleaningUp(u) == \E c \in Phones : PhoneOf[c] = u /\ line[c] = "dropping"

\* callee_id: the other one of exactly two, if the caller is one of them.
Callee(h) == IF Cardinality(huddle[h].live) = 2 /\ huddle[h].caller \in huddle[h].live
             THEN huddle[h].live \ {huddle[h].caller} ELSE {}

-----------------------------------------------------------------------------
\* realtime_endpoint registers the connection, then sends the welcome and the
\* presence frames; only then is the loop entered whose end cleans up.
OpenLine(c) ==
    /\ line[c] = "closed"
    /\ line' = [line EXCEPT ![c] = "opening"]
    /\ UNCHANGED <<huddle, managed, activeOf, leaving, relaying, archive, archiveLost, drops>>

Welcome(c) ==
    /\ line[c] = "opening"
    /\ line' = [line EXCEPT ![c] = "live"]
    /\ UNCHANGED <<huddle, managed, activeOf, leaving, relaying, archive, archiveLost, drops>>

\* The socket is gone when the welcome is sent: the error leaves the endpoint
\* outside its try block, and the connection stays in the registry.
WelcomeFails(c) ==
    /\ line[c] = "opening"
    /\ drops < MaxDrops
    /\ drops' = drops + 1
    /\ line' = [line EXCEPT ![c] = "leaked"]
    /\ UNCHANGED <<huddle, managed, activeOf, leaving, relaying, archive, archiveLost>>

\* The finally block: the connection leaves the registry; the offline frames that
\* follow are awaited before the huddle is looked at.
DropLine(c) ==
    /\ line[c] = "live"
    /\ drops < MaxDrops
    /\ drops' = drops + 1
    /\ line' = [line EXCEPT ![c] = "dropping"]
    /\ UNCHANGED <<huddle, managed, activeOf, leaving, relaying, archive, archiveLost>>

-----------------------------------------------------------------------------
\* handle_huddle_invite, reached over a connection of u that is in its loop:
\* everyone reachable, nobody busy, then start.
handle_huddle_invite(u, invitees, h) ==
    LET live == invitees \cup {u}
    IN  /\ \E c \in Phones : PhoneOf[c] = u /\ line[c] = "live"
        /\ u \notin invitees /\ invitees # {}
        /\ \A v \in invitees : user_connections(v) # {}
        /\ \A v \in live : activeOf[v] = NoHuddle
        /\ huddle[h].state = "none"
        /\ huddle' = [huddle EXCEPT ![h] = [state |-> "ringing", caller |-> u, live |-> live]]
        /\ managed' = managed \cup {h}
        /\ activeOf' = [v \in Participants |-> IF v \in live THEN h ELSE activeOf[v]]
        /\ UNCHANGED <<line, leaving, relaying, archive, archiveLost, drops>>

\* handle_signal_send, up to the relay to a live peer.
handle_signal_send(u, h) ==
    /\ \E c \in Phones : PhoneOf[c] = u /\ line[c] = "live"
    /\ h \in managed /\ u \in huddle[h].live /\ huddle[h].live # {u}
    /\ <<h, u>> \notin relaying
    /\ relaying' = relaying \cup {<<h, u>>}
    /\ UNCHANGED <<line, huddle, managed, activeOf, leaving, archive, archiveLost, drops>>

\* The state the huddle is in after the relay decides what the signal means.
AfterSignal(h, u) ==
    LET now == huddle[h].state
    IN  CASE Cardinality(huddle[h].live) = 2 /\ now = "ringing" /\ u \in Callee(h) -> "accepted"
          [] Cardinality(huddle[h].live) = 2 /\ now = "accepted" /\ u = huddle[h].caller -> "active"
          [] Cardinality(huddle[h].live) # 2 /\ now = "ringing" -> "active"
          [] OTHER -> now

SignalTransition(h, u) ==
    /\ <<h, u>> \in relaying
    /\ relaying' = relaying \ {<<h, u>>}
    /\ huddle' = [huddle EXCEPT ![h].state = AfterSignal(h, u)]
    /\ UNCHANGED <<line, managed, activeOf, leaving, archive, archiveLost, drops>>

-----------------------------------------------------------------------------
\* transition to a terminal state: _release drops the huddle and whoever of its
\* live users is still mapped to it.
ReleaseHuddle(h, state, act, live) ==
    /\ huddle' = [huddle EXCEPT ![h].state = state, ![h].live = live]
    /\ managed' = managed \ {h}
    /\ activeOf' = [v \in Participants |-> IF v \in live /\ act[v] = h THEN NoHuddle ELSE act[v]]

\* leave_huddle: u leaves; with two or more left the huddle goes on, otherwise it
\* is declined at once or waits for the archive write before it ends.
leave_huddle(h, u, decline) ==
    LET live == huddle[h].live \ {u}
        act == [activeOf EXCEPT ![u] = IF @ = h THEN NoHuddle ELSE @]
    IN  IF decline /\ Cardinality(live) <= 1
        THEN ReleaseHuddle(h, "declined", act, live) /\ UNCHANGED leaving
        ELSE /\ huddle' = [huddle EXCEPT ![h].live = live]
             /\ activeOf' = act
             /\ leaving' = IF Cardinality(live) > 1 THEN leaving ELSE leaving \cup {<<h, u>>}
             /\ UNCHANGED managed

handle_huddle_hangup(u, h) ==
    /\ \E c \in Phones : PhoneOf[c] = u /\ line[c] = "live"
    /\ h \in managed /\ u \in huddle[h].live
    /\ leave_huddle(h, u, huddle[h].state = "ringing" /\ u \in Callee(h))
    /\ UNCHANGED <<line, relaying, archive, archiveLost, drops>>

MutCleanUpRingingOnly(c) ==
    LET u == PhoneOf[c]
        h == activeOf[u]
    IN  /\ line[c] = "dropping"
        /\ line' = [line EXCEPT ![c] = "closed"]
        /\ IF user_connections(u) = {} /\ h # NoHuddle /\ huddle[h].state = "ringing"
           THEN leave_huddle(h, u, FALSE)
           ELSE UNCHANGED <<huddle, managed, activeOf, leaving>>
        /\ UNCHANGED <<relaying, archive, archiveLost, drops>>

\* The rest of the finally block, when the user's last connection is gone.
CleanUp(c) ==
    LET u == PhoneOf[c]
        h == activeOf[u]
    IN  /\ line[c] = "dropping"
        /\ line' = [line EXCEPT ![c] = "closed"]
        /\ IF user_connections(u) = {} /\ h # NoHuddle
           THEN leave_huddle(h, u, FALSE)
           ELSE UNCHANGED <<huddle, managed, activeOf, leaving>>
        /\ UNCHANGED <<relaying, archive, archiveLost, drops>>

\* archive_ended_huddle_best_effort: a huddle id is inserted once (primary key);
\* a write may fail.
archive_ended_huddle(h) ==
    \/ archive' = [archive EXCEPT ![h] = IF @ = 0 THEN 1 ELSE @] /\ UNCHANGED archiveLost
    \/ archiveLost' = archiveLost \cup {h} /\ UNCHANGED archive

\* The archive write is over, well or badly: the huddle ends.
EndHuddle(h, u) ==
    /\ <<h, u>> \in leaving
    /\ leaving' = leaving \ {<<h, u>>}
    /\ archive_ended_huddle(h)
    /\ ReleaseHuddle(h, "ended", activeOf, huddle[h].live)
    /\ UNCHANGED <<line, relaying, drops>>

HuddleNext ==
    \/ \E c \in Phones : OpenLine(c) \/ Welcome(c) \/ WelcomeFails(c) \/ DropLine(c) \/ CleanUp(c)
    \/ \E u \in Participants, h \in Calls :
          \/ \E invitees \in SUBSET Participants : handle_huddle_invite(u, invitees, h)
          \/ handle_signal_send(u, h) \/ SignalTransition(h, u)
          \/ handle_huddle_hangup(u, h) \/ EndHuddle(h, u)

-----------------------------------------------------------------------------
\* The busy map and the live sets always agree: a user is mapped to a huddle
\* exactly while being one of its live participants, so nobody is in two huddles
\* and nobody stays busy for one that is gone (HuddleManager).
BusyIsLive ==
    \A u \in Participants, h \in Calls :
        activeOf[u] = h <=> h \in managed /\ u \in huddle[h].live

Offline(u) == \A c \in Phones : PhoneOf[c] = u => line[c] \in {"closed", "leaked"}
HasLeaked(u) == \E c \in Phones : PhoneOf[c] = u /\ line[c] = "leaked"

\* Whoever has no open socket, and none still cleaning up, is in no huddle, however the
\* drop crossed an invitation or a hangup (realtime_endpoint, whose comment says that it
\* "prevents a stale ringing/active huddle from lingering").  The exception is named: a
\* socket that failed at its welcome is closed and stays registered, so its user stays
\* busy, and can be rung, for as long as the process lives.
OfflineIsFree ==
    \A u \in Participants : Offline(u) => activeOf[u] = NoHuddle \/ HasLeaked(u)

\* An ended huddle has one archive row unless a write of it failed, also when its
\* last two participants leave at once and both archive it (leave_huddle).
EndedIsArchivedOnce ==
    \A h \in Calls :
        /\ archive[h] <= 1
        /\ huddle[h].state = "ended" => archive[h] = 1 \/ h \in archiveLost

\* Hangups, drops, signals and invitations in any order leave nobody busy without a
\* huddle, nobody offline in one but over a leaked socket, and no end unarchived (leave_huddle, realtime_endpoint).
HuddlesEndCleanly == BusyIsLive /\ OfflineIsFree /\ EndedIsArchivedOnce
=============================================================================
