---------------------------- MODULE MCCollaboration ----------------------------
(***************************************************************************)
(* What agents, partners and people do together, for TLC: the              *)
(* Orchestrator's mailbox, shared state, automation rules, gateway for     *)
(* third parties, registry of Sentinels and logs of product events, and    *)
(* Rendly's rooms, huddles and logins.  They share no state that a         *)
(* property relates, so every behaviour runs one of them, named by unit,   *)
(* and the others stay where they start.                                   *)
(***************************************************************************)
EXTENDS AgentMailbox, SharedState, AutomationEngine, ExternalGateway,
        SentinelFleet, ProductEvents, ChatRoom, Huddles, RefreshTokens

VARIABLE unit

agentVars == <<mailVars, stateVars, automationVars, gatewayVars>>
orchestratorVars == <<agentVars, fleetVars, eventVars>>
rendlyVars == <<roomVars, huddleVars, refreshVars>>
collaborationVars == <<orchestratorVars, rendlyVars, unit>>

-----------------------------------------------------------------------------
(* Constants with structure *)

mcNameOf == [r \in RuleIds |-> IF r \in {"r1", "r2"} THEN "n" ELSE r]
mcFires == RuleIds \X AcceptedEvents
mcOwnerOf == [c \in Sockets |-> IF c = "s2" THEN "v" ELSE "u"]
mcAuthorOf == [m \in Messages |-> IF m = "m2" THEN "v" ELSE "u"]
mcPhoneOf == [c \in Phones |-> CASE c = "c2" -> "v" [] c = "c3" -> "w" [] OTHER -> "u"]

-----------------------------------------------------------------------------
\* The evaluation of events starts with rules in place.
RulesMade ==
    /\ rule \in [RuleIds -> {"unused", "enabled", "disabled"}]
    /\ rule["r2"] = "unused" /\ rule["r4"] = "unused"
    /\ ruleLock = NoAuthor
    /\ authoring = [a \in Authors |-> NotAuthoring]
    /\ evaluation = [e \in AcceptedEvents |-> "scheduled"]
    /\ loaded = [e \in AcceptedEvents |-> {}]
    /\ serving = [e \in AcceptedEvents |-> NoRule]
    /\ executions = {} /\ driven = {} /\ forgone = {}

\* Health cycles, pushes and relays start with the Sentinels registered.
SentinelsRegistered ==
    LET members == IF unit = "sweep" THEN Fleet ELSE {1}
        capabilities == IF unit = "sweep" THEN BOOLEAN ELSE {TRUE}
    IN  /\ \E capable \in capabilities :
              registry = [s \in Fleet |-> IF s \in members THEN NewRow("e1", capable)
                                         ELSE Unregistered]
        /\ registryLog = [s \in Fleet |-> IF s \in members THEN <<"register">> ELSE <<>>]
        /\ FleetQuiet

CollaborationInit ==
    /\ unit \in {"mail", "state", "rules", "evaluation", "gateway", "registry",
                 "health", "sweep", "relay", "identity", "safety", "room",
                 "huddles", "redial", "tokens"}
    /\ IF unit \in {"health", "sweep", "relay"} THEN SentinelsRegistered ELSE FleetInit
    /\ EventsInit
    /\ MailInit /\ StateInit /\ GatewayInit /\ HuddleInit /\ RefreshInit
    /\ IF unit = "evaluation" THEN RulesMade ELSE AutomationInit
    /\ RoomInit /\ (unit # "room" => role = [u \in People |-> "none"])

Agents ==
    /\ \/ unit = "mail" /\ MailNext /\ UNCHANGED <<stateVars, automationVars, gatewayVars>>
       \/ unit = "state" /\ StateNext /\ UNCHANGED <<mailVars, automationVars, gatewayVars>>
       \/ unit = "rules" /\ RuleStep /\ UNCHANGED <<mailVars, stateVars, gatewayVars>>
       \/ unit = "evaluation" /\ EvaluationStep /\ UNCHANGED <<mailVars, stateVars, gatewayVars>>
       \/ unit = "gateway" /\ GatewayNext /\ UNCHANGED <<mailVars, stateVars, automationVars>>
    /\ UNCHANGED <<fleetVars, eventVars, rendlyVars>>

\* The registry with two operators at one id; two overlapping cycles and a push; one
\* cycle over two Sentinels and a push; a relay while its Sentinel is deregistered,
\* registered again and loses its name.
RegistryUnit ==
    /\ NamesChange("e2") \/ \E o \in Registrars : RegistrarStep(o)
    /\ \A o \in Registrars : registrar'[o] # NoRequest => registrar'[o].id = 1

PushStep(p) == coordinate_push(p) \/ _select_targets(p) \/ PushReturns(p)

HealthUnit ==
    \/ FleetTick
    \/ \E c \in Cycles : CycleStep(c)
    \/ CycleDies("c2")
    \/ \E p \in Pushes : PushStep(p)

RelayUnit ==
    \/ FleetTick
    \/ fleetTime = 1 /\ NamesChange("e1")
    \/ /\ RegistrarStep("o1")
       /\ LET request == registrar'["o1"]
          IN  request # NoRequest => /\ request.id = 1 /\ request.call # "modify"
                                     /\ request.call = "register" => request.row = NewRow("e1", TRUE)
    \/ CycleStep("c1") /\ probeFails'[1] <= 1
    \/ \E r \in Relays : relay_request(r, 1) \/ RelayStep(r)

Sentinels ==
    /\ \/ unit = "registry" /\ RegistryUnit
       \/ unit = "health" /\ HealthUnit
       \/ unit = "sweep" /\ HealthUnit /\ cycle'["c2"] = NoRequest /\ fleetTime' = 0
             /\ \A s \in Fleet : probeFails'[s] <= 1
       \/ unit = "relay" /\ RelayUnit
    /\ UNCHANGED <<agentVars, eventVars, rendlyVars>>

\* Both feeds are one design: three reports to the identity feed, two to the safety
\* feed.  The tenants are alike, so it is t1 that lists, and t2 meets it on one key.
Products ==
    /\ EventsNext
    /\ \A d \in Reports : report'[d] # Idle =>
          report'[d].feed = unit /\ (report'[d].tenant = "t2" => report'[d].key = "k1")
    /\ pager'.at # "idle" => pager'.feed = unit /\ pager'.tenant = "t1"
    /\ unit = "identity" \/ (unit = "safety" /\ reported' <= 2)
    /\ UNCHANGED <<agentVars, fleetVars, rendlyVars>>

\* One huddle of three users and four connections; two huddles, one after the other,
\* of two users with one connection each, who are alike: the first call is u's.
HuddleUnit ==
    /\ HuddleNext
    /\ \/ unit = "huddles" /\ huddle'["h2"] = NeverStarted
       \/ unit = "redial" /\ line'["c3"] = "closed" /\ line'["c4"] = "closed"
             /\ huddle'["h1"].caller # "v"
             /\ (huddle'["h1"] = NeverStarted => huddle'["h2"] = NeverStarted)

Rendly ==
    /\ \/ unit = "room" /\ RoomNext /\ UNCHANGED <<huddleVars, refreshVars>>
       \/ HuddleUnit /\ UNCHANGED <<roomVars, refreshVars>>
       \/ unit = "tokens" /\ RefreshNext /\ UNCHANGED <<roomVars, huddleVars>>
    /\ UNCHANGED orchestratorVars

\* With no request in progress a component may stay as it is, so that a deadlock is
\* a request that can never end.
Rest ==
    /\ \A s \in Senders : sending[s] = Resting
    /\ \A w \in Writers : writing[w] = Waiting
    /\ \A a \in Authors : authoring[a] = NotAuthoring
    /\ unit = "evaluation" => \A e \in AcceptedEvents : evaluation[e] \in {"ended", "gone"}
    /\ \A i \in Issuers : issuing[i] # "insert"
    /\ \A p \in Partners : call[p] = NoCall
    /\ \A m \in Messages : send[m] \notin {"inspected", "admitted", "inserting", "stored"}
    /\ \A o \in Registrars : registrar[o] = NoRequest
    /\ \A c \in Cycles : cycle[c].at # "save"
    /\ \A p \in Pushes : push[p].at # "select"
    /\ \A r \in Relays : relay[r].at \notin {"validate", "post", "audit"}
    /\ \A d \in Reports : report[d] = Idle
    /\ pager.at # "page"
    /\ leaving = {} /\ relaying = {}
    /\ \A p \in Presenters : present[p].at = "idle"
    /\ UNCHANGED <<orchestratorVars, rendlyVars>>

CollaborationNext == (Agents \/ Sentinels \/ Products \/ Rendly \/ Rest) /\ UNCHANGED unit

CollaborationSpec == CollaborationInit /\ [][CollaborationNext]_collaborationVars

-----------------------------------------------------------------------------
(* Properties of several components *)

\* Concurrent agents leave what they keep at the Orchestrator exact: one row per
\* message within the inbox cap and none that a poller misses (send_message), and one
\* line of linked versions per shared key within the cap (write_state).
AgentsKeepExact == MailIsExact /\ CellsAreExact

\* Rendly's sessions survive sockets that drop, members that change and tokens that are
\* presented twice: a room stores only what was allowed, in one order
\* (handle_chat_send), huddles leave nobody busy, nobody offline in one and no end
\* unarchived (leave_huddle), and a reused token ends its family (rotate).
RendlySessionsHold == RoomIsSound /\ HuddlesEndCleanly /\ TokensRotate
=============================================================================
