-------------------------- MODULE OperatorSsoProofs --------------------------
(***************************************************************************)
(* Proofs about OperatorSso, for any number of tenants, logins, callbacks  *)
(* and configuration changes.                                              *)
(*                                                                         *)
(* The argument: the one UPDATE of consume gives a login to one callback,  *)
(* which owns it until it is answered, so whatever the callback has found  *)
(* out about the assertion, the rows and the event is still so when it     *)
(* mints the session, and nobody else mints for that login.  A change of   *)
(* the configuration is counted before the call owes its event.            *)
(***************************************************************************)
EXTENDS OperatorSso, FiniteSetTheorems, TLAPS

-----------------------------------------------------------------------------
(* A completion owns its login *)

LoginRows == [at : {"begun", "open", "consumed", "deleted"}, tenant : SsoTenants,
              protocol : Protocols, provider : Providers, expired : BOOLEAN]
Assertions == [to : Logins, provider : Providers, subject : Subjects, groups : SUBSET Groups]
Checked == {"resolve", "deny", "provision", "audit", "mint"}
Completions == [at : {"reload", "verify"} \cup Checked, login : Logins, assertion : Assertions,
                tenant : SsoTenants, protocol : Protocols,
                provider : Providers \cup {NoProvider}, role : Roles \cup {"none"}]
Sessions == [by : Callbacks, login : Logins, tenant : SsoTenants, subject : Subjects, role : Roles]
Changes == [tenant : SsoTenants, who : Sessions \cup {BreakGlass}]
ChangeCalls == [at : {"write", "audit"}, tenant : SsoTenants, who : Sessions \cup {BreakGlass}]

SsoTypeOK ==
    /\ idpConfig \in [SsoTenants -> [Protocols -> Providers \cup {NoProvider}]]
    /\ roleMap \in [SsoTenants -> [Groups -> Roles \cup {"none"}]]
    /\ login \in [Logins -> {NoLogin} \cup LoginRows]
    /\ assertions \subseteq Assertions
    /\ callback \in [Callbacks -> {NotCalled, Answered} \cup Completions]
    /\ DOMAIN ssoEvents = Callbacks
    /\ sessions \subseteq Sessions /\ expiredSessions \subseteq Sessions
    /\ operator \in [Operators -> {NotCalled} \cup ChangeCalls]
    /\ idpChanges \in Seq(Changes) /\ idpEvents \in Seq(Changes)

Taken(x) == login[x].at \in {"consumed", "deleted"}
Active(c) == callback[c].at \notin {"idle", "answered"}
UserOf(c) == <<callback[c].tenant, callback[c].assertion.subject>>
LoginEvent(c) == [type |-> "operator_sso_login", tenant |-> callback[c].tenant,
                  actor |-> callback[c].assertion.subject]

\* What is known of a completion in progress, by the step it has reached.
Owned(c) ==
    /\ Taken(callback[c].login) /\ login[callback[c].login].tenant = callback[c].tenant
    /\ callback[c].assertion \in assertions
    /\ \A d \in Callbacks : Active(d) /\ callback[d].login = callback[c].login => d = c
    /\ \A s \in Minted : s.login # callback[c].login
    /\ callback[c].at \in Checked => callback[c].assertion.to = callback[c].login
    /\ callback[c].at \in {"provision", "audit", "mint"} =>
          callback[c].role \in Roles /\ callback[c].assertion.groups # {}
    /\ callback[c].at \in {"audit", "mint"} =>
          /\ UserOf(c) \in adminUsers
          /\ <<callback[c].tenant, callback[c].assertion.subject, callback[c].role>> \in roleAssigned
    /\ callback[c].at = "mint" => ssoEvents[c] = <<LoginEvent(c)>>
    /\ callback[c].at # "mint" => ssoEvents[c] = <<>>

CompletionsOwn == \A c \in Callbacks : Active(c) => Owned(c)

\* A provider answers the login it was sent.
AssertionsAnswer ==
    \A r \in assertions : login[r.to] # NoLogin /\ login[r.to].provider = r.provider

\* A callback has no event before it is called, and at most one ever.
EventsOnce ==
    \A c \in Callbacks :
        /\ callback[c].at = "idle" => ssoEvents[c] = <<>>
        /\ ssoEvents[c] = <<>> \/ \E e : ssoEvents[c] = <<e>>

\* A session is minted by the last step of a callback, for a login that is taken.
MintedLast == \A s \in Minted : callback[s.by].at = "answered" /\ Taken(s.login)

\* Who has rows was asserted with a group and given a role.
UsersAreExplained ==
    /\ adminUsers \subseteq SsoTenants \X Subjects
    /\ \A u \in adminUsers :
          /\ \E role \in Roles : <<u[1], u[2], role>> \in roleAssigned
          /\ \E r \in assertions :
                r.subject = u[2] /\ r.groups # {} /\ login[r.to].tenant = u[1]

LoginInv ==
    /\ SsoTypeOK /\ CompletionsOwn /\ AssertionsAnswer /\ EventsOnce /\ MintedLast
    /\ UsersAreExplained /\ OneSessionPerLogin /\ SessionsAreExplained

\* The operator calls whose change is committed and whose event is not.
Owing(e) == {a \in Operators : operator[a].at = "audit" /\
                               [tenant |-> operator[a].tenant, who |-> operator[a].who] = e}
ChangesCover ==
    \A e \in Changes :
        Occurrences(idpEvents, e) + Cardinality(Owing(e)) <= Occurrences(idpChanges, e)

\* Nothing is begun at the start.
LEMMA SsoStart == SsoInit => LoginInv /\ ChangesCover
<1> SUFFICES ASSUME SsoInit PROVE LoginInv /\ ChangesCover
  OBVIOUS
<1>1. SsoTypeOK
  BY DEF SsoInit, SsoTypeOK, NoLogin, NotCalled
<1>2. CompletionsOwn /\ EventsOnce
  BY DEF SsoInit, CompletionsOwn, EventsOnce, Active, NotCalled
<1>3. /\ AssertionsAnswer /\ MintedLast /\ UsersAreExplained
      /\ OneSessionPerLogin /\ SessionsAreExplained
  BY DEF SsoInit, AssertionsAnswer, MintedLast, UsersAreExplained, OneSessionPerLogin,
         SessionsAreExplained, Minted
<1>4. ASSUME NEW e \in Changes
      PROVE  Occurrences(idpEvents, e) + Cardinality(Owing(e)) <= Occurrences(idpChanges, e)
  <2>1. Owing(e) = {}
    BY DEF SsoInit, Owing, NotCalled
  <2>2. idpEvents = <<>> /\ idpChanges = <<>> /\ {i \in 1..Len(<<>>) : <<>>[i] = e} = {}
    BY DEF SsoInit
  <2>3. Occurrences(idpEvents, e) = Cardinality({}) /\ Occurrences(idpChanges, e) = Cardinality({})
    BY <2>2 DEF Occurrences
  <2> QED BY <2>1, <2>3, FS_EmptySet
<1> QED BY <1>1, <1>2, <1>3, <1>4 DEF LoginInv, ChangesCover

\* What a step of a login, or of its provider, may do.
LoginKept ==
    /\ \A x \in Logins : login[x] # NoLogin =>
          /\ login'[x] # NoLogin
          /\ login'[x].tenant = login[x].tenant /\ login'[x].provider = login[x].provider
          /\ Taken(x) => Taken(x)'
    /\ assertions \subseteq assertions'

\* Completions, sessions and users keep what is known of them while logins go on.
LEMMA LoginFrame ==
    ASSUME LoginInv, LoginKept, SsoTypeOK', AssertionsAnswer',
           UNCHANGED <<callback, adminUsers, roleAssigned, ssoEvents, Minted>>
    PROVE  LoginInv'
<1>1. UNCHANGED <<callback, adminUsers, roleAssigned, ssoEvents>> /\ Minted' = Minted
  OBVIOUS
<1>2. \A x \in Logins : Taken(x) => Taken(x)' /\ login[x] # NoLogin
  BY DEF LoginKept, Taken, NoLogin
<1>3. CompletionsOwn'
  <2> SUFFICES ASSUME NEW c \in Callbacks, Active(c) PROVE Owned(c)'
    BY <1>1 DEF CompletionsOwn, Active
  <2>1. Owned(c) /\ callback[c].login \in Logins
    BY DEF LoginInv, CompletionsOwn, SsoTypeOK, Active, NotCalled, Answered, Completions
  <2>2. /\ Taken(callback[c].login)' /\ login'[callback[c].login].tenant = callback[c].tenant
        /\ callback[c].assertion \in assertions'
    BY <1>2, <2>1 DEF Owned, LoginKept
  <2> QED BY <1>1, <2>1, <2>2 DEF Owned, Active, UserOf, LoginEvent, Taken
<1>4. EventsOnce'
  BY <1>1 DEF EventsOnce, LoginInv
<1>5. MintedLast'
  <2> SUFFICES ASSUME NEW s \in Minted PROVE callback[s.by].at = "answered" /\ Taken(s.login)'
    BY <1>1 DEF MintedLast
  <2>1. s.login \in Logins
    BY DEF Minted, LoginInv, SsoTypeOK, Sessions
  <2> QED BY <1>2, <2>1 DEF MintedLast, LoginInv
<1>6. UsersAreExplained'
  <2>1. \A r \in assertions : r \in assertions' /\ login'[r.to].tenant = login[r.to].tenant
    BY DEF LoginInv, SsoTypeOK, Assertions, AssertionsAnswer, LoginKept
  <2> QED BY <1>1, <2>1 DEF UsersAreExplained, LoginInv
<1>7. OneSessionPerLogin'
  BY <1>1 DEF OneSessionPerLogin, LoginInv
<1>8. SessionsAreExplained'
  <2> SUFFICES ASSUME NEW s \in Minted
      PROVE /\ login'[s.login].tenant = s.tenant
            /\ \E r \in assertions' :
                 r.to = s.login /\ r.provider = login'[s.login].provider /\ r.subject = s.subject
            /\ <<s.tenant, s.subject>> \in adminUsers
            /\ <<s.tenant, s.subject, s.role>> \in roleAssigned
            /\ ssoEvents[s.by] = <<[type |-> "operator_sso_login", tenant |-> s.tenant,
                                    actor |-> s.subject]>>
    BY <1>1 DEF SessionsAreExplained
  <2>1. s.login \in Logins /\ login[s.login] # NoLogin
    BY <1>2 DEF Minted, LoginInv, SsoTypeOK, Sessions, MintedLast
  <2>2. /\ login'[s.login].tenant = login[s.login].tenant
        /\ login'[s.login].provider = login[s.login].provider
        /\ assertions \subseteq assertions'
    BY <2>1 DEF LoginKept
  <2> QED BY <2>2 DEF LoginInv, SessionsAreExplained
<1> QED BY <1>3, <1>4, <1>5, <1>6, <1>7, <1>8 DEF LoginInv

\* The steps of logins and providers.
LEMMA LoginSteps ==
    ASSUME LoginInv, NEW x \in Logins,
           \/ \E t \in SsoTenants, p \in Protocols : begin_login(x, t, p)
           \/ create(x) \/ LoginAbandoned(x) \/ LoginExpires(x)
           \/ \E s \in Subjects, gs \in SUBSET Groups : ProviderAsserts(x, s, gs)
    PROVE  LoginInv'
<1>0. SsoTypeOK /\ AssertionsAnswer
  BY DEF LoginInv
<1>1. ASSUME UNCHANGED <<assertions, callback, identityVars, expiredSessions, operatorVars>>,
             login' \in [Logins -> {NoLogin} \cup LoginRows], LoginKept
      PROVE  LoginInv'
  <2>1. SsoTypeOK'
    BY <1>0, <1>1 DEF SsoTypeOK, identityVars, operatorVars
  <2>2. AssertionsAnswer'
    BY <1>0, <1>1 DEF AssertionsAnswer, LoginKept, SsoTypeOK, Assertions
  <2> QED BY <1>1, <2>1, <2>2, LoginFrame DEF identityVars, Minted
<1>2. ASSUME NEW t \in SsoTenants, NEW p \in Protocols, begin_login(x, t, p) PROVE LoginInv'
  <2>1. /\ login[x] = NoLogin /\ idpConfig[t][p] \in Providers
        /\ login' = [login EXCEPT ![x] = [at |-> "begun", tenant |-> t, protocol |-> p,
                                          provider |-> idpConfig[t][p], expired |-> FALSE]]
        /\ UNCHANGED <<assertions, callback, identityVars, expiredSessions, operatorVars>>
    BY <1>0, <1>2 DEF begin_login, SsoTypeOK
  <2>2. login' \in [Logins -> {NoLogin} \cup LoginRows]
    BY <1>0, <2>1 DEF SsoTypeOK, LoginRows
  <2>3. LoginKept
    BY <1>0, <2>1 DEF LoginKept, SsoTypeOK, Taken
  <2> QED BY <1>1, <2>1, <2>2, <2>3
<1>3. ASSUME create(x) PROVE LoginInv'
  <2>1. /\ login[x].at = "begun"
        /\ login' = [y \in Logins |->
                       CASE y = x -> [login[y] EXCEPT !.at = "open"]
                         [] y # x /\ login[y].at \in {"open", "consumed"} /\ login[y].expired ->
                                [login[y] EXCEPT !.at = "deleted"]
                         [] OTHER -> login[y]]
        /\ UNCHANGED <<assertions, callback, identityVars, expiredSessions, operatorVars>>
    BY <1>3 DEF create
  <2>2. ASSUME NEW y \in Logins
        PROVE  \/ y = x /\ login'[y] = [login[y] EXCEPT !.at = "open"]
               \/ /\ y # x /\ login[y].at \in {"open", "consumed"}
                  /\ login'[y] = [login[y] EXCEPT !.at = "deleted"]
               \/ y # x /\ login'[y] = login[y]
    BY <2>1
  <2>3. ASSUME NEW y \in Logins PROVE login'[y] \in {NoLogin} \cup LoginRows
    <3>1. login[y] = NoLogin \/ login[y] \in LoginRows
      BY <1>0 DEF SsoTypeOK
    <3>2. login[y] = NoLogin => y # x /\ login[y].at \notin {"open", "consumed"}
      BY <2>1 DEF NoLogin
    <3>3. login[y] \in LoginRows =>
            /\ [login[y] EXCEPT !.at = "open"] \in LoginRows
            /\ [login[y] EXCEPT !.at = "deleted"] \in LoginRows
      BY DEF LoginRows
    <3> QED BY <2>2, <3>1, <3>2, <3>3
  <2>4. login' \in [Logins -> {NoLogin} \cup LoginRows]
    BY <2>1, <2>3
  <2>5. ASSUME NEW y \in Logins, login[y] # NoLogin
        PROVE  /\ login'[y] # NoLogin
               /\ login'[y].tenant = login[y].tenant /\ login'[y].provider = login[y].provider
               /\ Taken(y) => Taken(y)'
    BY <1>0, <2>1, <2>2, <2>5 DEF SsoTypeOK, LoginRows, NoLogin, Taken
  <2>6. LoginKept
    BY <2>1, <2>5 DEF LoginKept
  <2> QED BY <1>1, <2>1, <2>4, <2>6
<1>4. ASSUME LoginAbandoned(x) PROVE LoginInv'
  <2>1. /\ login[x].at = "begun" /\ login' = [login EXCEPT ![x].at = "deleted"]
        /\ UNCHANGED <<assertions, callback, identityVars, expiredSessions, operatorVars>>
    BY <1>4 DEF LoginAbandoned
  <2>2. login[x] \in LoginRows
    BY <1>0, <2>1 DEF SsoTypeOK, NoLogin
  <2>3. login' \in [Logins -> {NoLogin} \cup LoginRows]
    BY <1>0, <2>1, <2>2 DEF SsoTypeOK, LoginRows
  <2>4. LoginKept
    BY <1>0, <2>1, <2>2 DEF SsoTypeOK, LoginRows, LoginKept, Taken, NoLogin
  <2> QED BY <1>1, <2>1, <2>3, <2>4
<1>5. ASSUME LoginExpires(x) PROVE LoginInv'
  <2>1. /\ login[x].at \in {"open", "consumed"} /\ login' = [login EXCEPT ![x].expired = TRUE]
        /\ UNCHANGED <<assertions, callback, identityVars, expiredSessions, operatorVars>>
    BY <1>5 DEF LoginExpires
  <2>2. login[x] \in LoginRows
    BY <1>0, <2>1 DEF SsoTypeOK, NoLogin
  <2>3. login' \in [Logins -> {NoLogin} \cup LoginRows]
    BY <1>0, <2>1, <2>2 DEF SsoTypeOK, LoginRows
  <2>4. LoginKept
    BY <1>0, <2>1, <2>2 DEF SsoTypeOK, LoginRows, LoginKept, Taken, NoLogin
  <2> QED BY <1>1, <2>1, <2>3, <2>4
<1>6. ASSUME NEW s \in Subjects, NEW gs \in SUBSET Groups, ProviderAsserts(x, s, gs)
      PROVE  LoginInv'
  <2>1. /\ login[x].at \in {"open", "consumed", "deleted"}
        /\ assertions' = assertions \cup
              {[to |-> x, provider |-> login[x].provider, subject |-> s, groups |-> gs]}
        /\ UNCHANGED <<login, callback, identityVars, expiredSessions, operatorVars>>
    BY <1>6 DEF ProviderAsserts
  <2>2. login[x] \in LoginRows /\ login[x] # NoLogin
    BY <1>0, <2>1 DEF SsoTypeOK, NoLogin
  <2>3. SsoTypeOK'
    <3>1. assertions' \subseteq Assertions
      BY <1>0, <2>1, <2>2 DEF SsoTypeOK, Assertions, LoginRows
    <3> QED BY <1>0, <2>1, <3>1 DEF SsoTypeOK, identityVars, operatorVars
  <2>4. AssertionsAnswer' /\ LoginKept
    BY <1>0, <2>1, <2>2 DEF AssertionsAnswer, LoginKept, Taken
  <2> QED BY <2>1, <2>3, <2>4, LoginFrame DEF identityVars, Minted
<1> QED BY <1>2, <1>3, <1>4, <1>5, <1>6

\* The other completions keep theirs while one takes a step on a login that is not theirs.
LEMMA OthersOwned ==
    ASSUME LoginInv, LoginKept, NEW c \in Callbacks, NEW x,
           \A d \in Callbacks \ {c} :
              /\ callback'[d] = callback[d] /\ ssoEvents'[d] = ssoEvents[d]
              /\ Active(d) => callback[d].login # x,
           Active(c)' => callback'[c].login = x,
           \A s \in Minted' : s \in Minted \/ s.login = x,
           adminUsers \subseteq adminUsers', roleAssigned \subseteq roleAssigned'
    PROVE  \A d \in Callbacks \ {c} : Active(d)' => Owned(d)'
<1> SUFFICES ASSUME NEW d \in Callbacks \ {c}, Active(d)' PROVE Owned(d)'
  OBVIOUS
<1>1. /\ callback'[d] = callback[d] /\ ssoEvents'[d] = ssoEvents[d] /\ Active(d)
      /\ callback[d].login # x
  BY DEF Active
<1>2. Owned(d) /\ callback[d].login \in Logins
  BY <1>1 DEF LoginInv, CompletionsOwn, SsoTypeOK, Active, NotCalled, Answered, Completions
<1>3. /\ login'[callback[d].login].at \in {"consumed", "deleted"}
      /\ login'[callback[d].login].tenant = callback[d].tenant
      /\ callback[d].assertion \in assertions'
  BY <1>1, <1>2 DEF Owned, LoginKept, Taken, NoLogin
<1>4. \A e \in Callbacks : Active(e)' /\ callback'[e].login = callback[d].login => e = d
  <2> SUFFICES ASSUME NEW e \in Callbacks, Active(e)', callback'[e].login = callback[d].login
               PROVE  e = d
    OBVIOUS
  <2>1. e # c
    BY <1>1
  <2>2. Active(e) /\ callback[e].login = callback[d].login
    BY <2>1 DEF Active
  <2> QED BY <1>2, <2>2 DEF Owned
<1>5. \A s \in Minted' : s.login # callback[d].login
  BY <1>1, <1>2 DEF Owned
<1>6. UserOf(d)' = UserOf(d) /\ LoginEvent(d)' = LoginEvent(d)
  BY <1>1 DEF UserOf, LoginEvent
<1>7. callback[d].at \in {"audit", "mint"} =>
          /\ UserOf(d) \in adminUsers'
          /\ <<callback[d].tenant, callback[d].assertion.subject, callback[d].role>> \in roleAssigned'
  BY <1>2 DEF Owned
<1>8. Taken(callback[d].login)' /\ login'[callback'[d].login].tenant = callback'[d].tenant
  BY <1>1, <1>3 DEF Taken
<1> QED BY <1>1, <1>2, <1>3, <1>4, <1>5, <1>6, <1>7, <1>8 DEF Owned

\* A step of a completion that mints nothing: what is known of k is what its step needs.
LEMMA CallbackFrame ==
    ASSUME LoginInv, NEW c \in Callbacks, callback[c].at # "answered",
           NEW k \in {Answered} \cup Completions, callback' = [callback EXCEPT ![c] = k],
           UNCHANGED <<login, assertions, sessions, expiredSessions, operatorVars>>,
           DOMAIN ssoEvents' = Callbacks,
           \A d \in Callbacks \ {c} : ssoEvents'[d] = ssoEvents[d],
           ssoEvents'[c] = <<>> \/ \E e : ssoEvents'[c] = <<e>>,
           adminUsers \subseteq adminUsers', roleAssigned \subseteq roleAssigned',
           UsersAreExplained',
           k # Answered =>
              /\ Active(c) /\ k.login = callback[c].login /\ k.tenant = callback[c].tenant
              /\ k.assertion = callback[c].assertion
              /\ k.at \in Checked => k.assertion.to = k.login
              /\ k.at \in {"provision", "audit", "mint"} => k.role \in Roles /\ k.assertion.groups # {}
              /\ k.at \in {"audit", "mint"} =>
                    /\ <<k.tenant, k.assertion.subject>> \in adminUsers'
                    /\ <<k.tenant, k.assertion.subject, k.role>> \in roleAssigned'
              /\ k.at = "mint" => ssoEvents'[c] =
                    <<[type |-> "operator_sso_login", tenant |-> k.tenant,
                       actor |-> k.assertion.subject]>>
              /\ k.at # "mint" => ssoEvents'[c] = <<>>
    PROVE  LoginInv'
<1>1. /\ Minted' = Minted /\ LoginKept /\ callback'[c] = k
      /\ \A d \in Callbacks \ {c} : callback'[d] = callback[d]
      /\ \A x : Taken(x)' = Taken(x)
  BY DEF Minted, LoginKept, LoginInv, SsoTypeOK, Taken
<1>2. SsoTypeOK' /\ AssertionsAnswer'
  BY DEF LoginInv, SsoTypeOK, AssertionsAnswer, operatorVars
<1>3. Active(c)' => k \in Completions /\ k # Answered
  BY <1>1 DEF Active, Answered
<1>4. \A d \in Callbacks \ {c} : Active(c) /\ Active(d) => callback[d].login # callback[c].login
  BY DEF LoginInv, CompletionsOwn, Owned
<1>5. ASSUME k # Answered PROVE CompletionsOwn'
  <2>1. Active(c) /\ Owned(c)
    BY <1>5 DEF LoginInv, CompletionsOwn
  <2>2. \A d \in Callbacks \ {c} : Active(d)' => Owned(d)'
    <3> DEFINE x == callback[c].login
    <3>1. /\ \A d \in Callbacks \ {c} :
                /\ callback'[d] = callback[d] /\ ssoEvents'[d] = ssoEvents[d]
                /\ Active(d) => callback[d].login # x
          /\ Active(c)' => callback'[c].login = x
          /\ \A s \in Minted' : s \in Minted \/ s.login = x
      BY <1>1, <1>4, <1>5, <2>1
    <3> HIDE DEF x
    <3> QED BY <1>1, <3>1, OthersOwned
  <2>3. \A d \in Callbacks : Active(d)' /\ callback'[d].login = k.login => d = c
    BY <1>1, <1>5, <2>1 DEF Owned, Active
  <2>4. Owned(c)'
    <3>1. Taken(k.login)' /\ login'[k.login].tenant = k.tenant /\ k.assertion \in assertions'
      BY <1>1, <1>5, <2>1 DEF Owned
    <3>2. \A s \in Minted' : s.login # k.login
      BY <1>1, <1>5, <2>1 DEF Owned
    <3>3. Taken(callback[c].login)'
      BY <1>1, <3>1 DEF Taken
    <3> QED BY <1>1, <1>5, <2>3, <3>1, <3>2, <3>3 DEF Owned, UserOf, LoginEvent
  <2> QED BY <2>2, <2>4 DEF CompletionsOwn
<1>6. ASSUME k = Answered PROVE CompletionsOwn'
  <2>1. ~Active(c)'
    BY <1>1, <1>6 DEF Active, Answered
  <2>2. CASE Active(c)
    <3>1. \A d \in Callbacks \ {c} : Active(d)' => Owned(d)'
      <4> DEFINE x == callback[c].login
      <4>1. /\ \A d \in Callbacks \ {c} :
                  /\ callback'[d] = callback[d] /\ ssoEvents'[d] = ssoEvents[d]
                  /\ Active(d) => callback[d].login # x
            /\ Active(c)' => callback'[c].login = x
            /\ \A s \in Minted' : s \in Minted \/ s.login = x
        BY <1>1, <1>4, <2>1, <2>2
      <4> HIDE DEF x
      <4> QED BY <1>1, <4>1, OthersOwned
    <3> QED BY <2>1, <3>1 DEF CompletionsOwn
  <2>3. CASE ~Active(c)
    <3>1. 0 \notin Logins
      BY SsoAssumption DEF Logins
    <3>2. \A d \in Callbacks \ {c} : Active(d) => callback[d].login # 0
      BY <3>1 DEF LoginInv, SsoTypeOK, Active, NotCalled, Answered, Completions
    <3>3. \A d \in Callbacks \ {c} : Active(d)' => Owned(d)'
      <4>1. /\ \A d \in Callbacks \ {c} :
                  /\ callback'[d] = callback[d] /\ ssoEvents'[d] = ssoEvents[d]
                  /\ Active(d) => callback[d].login # 0
            /\ Active(c)' => callback'[c].login = 0
            /\ \A s \in Minted' : s \in Minted \/ s.login = 0
        BY <1>1, <2>1, <3>2
      <4> QED BY <1>1, <4>1, OthersOwned
    <3> QED BY <2>1, <3>3 DEF CompletionsOwn
  <2> QED BY <2>2, <2>3
<1>7. EventsOnce'
  <2>1. \A d \in Callbacks : callback'[d].at = "idle" => d # c
    BY <1>1 DEF Answered, Completions, Checked
  <2> QED BY <1>1, <2>1 DEF EventsOnce, LoginInv
<1>8. \A s \in Minted : s.by \in Callbacks \ {c}
  BY DEF LoginInv, MintedLast, Minted, SsoTypeOK, Sessions
<1>9. MintedLast'
  BY <1>1, <1>8 DEF MintedLast, LoginInv
<1>10. OneSessionPerLogin'
  BY <1>1 DEF OneSessionPerLogin, LoginInv
<1>11. SessionsAreExplained'
  <2>1. \A s \in Minted : ssoEvents'[s.by] = ssoEvents[s.by]
    BY <1>8
  <2> QED BY <1>1, <2>1 DEF SessionsAreExplained, LoginInv
<1> QED BY <1>2, <1>5, <1>6, <1>7, <1>9, <1>10, <1>11 DEF LoginInv

\* The callback that takes a login owns it from there on.
LEMMA TakeStep ==
    ASSUME LoginInv, NEW c \in Callbacks, NEW x \in Logins, NEW r \in assertions,
           complete_login(c, x, r)
    PROVE  LoginInv'
<1>0. SsoTypeOK
  BY DEF LoginInv
<1>1. callback[c] = NotCalled /\ UNCHANGED <<assertions, identityVars, expiredSessions, operatorVars>>
  BY DEF complete_login
<1>2. /\ callback[c].at = "idle" /\ ssoEvents[c] = <<>>
      /\ UNCHANGED <<adminUsers, roleAssigned, ssoEvents, sessions, expiredSessions>>
  BY <1>1 DEF NotCalled, LoginInv, EventsOnce, identityVars
<1>3. CASE ~consume(x)
  <2>1. callback' = [callback EXCEPT ![c] = Answered] /\ UNCHANGED login
    BY <1>3 DEF complete_login, Finish
  <2>2. UsersAreExplained'
    BY <1>1, <1>2, <2>1 DEF LoginInv, UsersAreExplained
  <2>3. DOMAIN ssoEvents' = Callbacks /\ ssoEvents'[c] = <<>>
    BY <1>0, <1>2 DEF SsoTypeOK
  <2> QED BY <1>1, <1>2, <2>1, <2>2, <2>3, CallbackFrame
<1>4. CASE consume(x)
  <2> DEFINE k == [at |-> "reload", login |-> x, assertion |-> r,
                   tenant |-> login[x].tenant, protocol |-> login[x].protocol,
                   provider |-> NoProvider, role |-> "none"]
  <2>1. /\ login[x].at = "open" /\ login' = [login EXCEPT ![x].at = "consumed"]
        /\ callback' = [callback EXCEPT ![c] = k]
    BY <1>4 DEF complete_login, consume
  <2>2. login[x] \in LoginRows
    BY <1>0, <2>1 DEF SsoTypeOK, NoLogin
  <2>3. login' \in [Logins -> {NoLogin} \cup LoginRows]
    BY <1>0, <2>1, <2>2 DEF SsoTypeOK, LoginRows
  <2>4. LoginKept
    BY <1>0, <1>1, <2>1, <2>2 DEF SsoTypeOK, LoginRows, LoginKept, Taken, NoLogin
  <2>5. k \in Completions
    BY <1>0, <2>2 DEF SsoTypeOK, Completions, LoginRows, Checked
  <2>6. /\ k.at = "reload" /\ k.login = x /\ k.assertion = r /\ k.tenant = login[x].tenant
        /\ login'[x].at = "consumed" /\ login'[x].tenant = login[x].tenant
    BY <1>0, <2>1, <2>2 DEF SsoTypeOK, LoginRows
  <2> HIDE DEF k
  <2>7. callback'[c] = k /\ \A d \in Callbacks \ {c} : callback'[d] = callback[d]
    BY <1>0, <2>1 DEF SsoTypeOK
  <2>8. SsoTypeOK'
    BY <1>0, <1>1, <1>2, <2>1, <2>3, <2>5 DEF SsoTypeOK, operatorVars
  <2>9. Minted' = Minted /\ \A s \in Minted : s.login # x /\ s.by \in Callbacks \ {c}
    BY <1>2, <2>1 DEF Minted, LoginInv, MintedLast, Taken, SsoTypeOK, Sessions
  <2>10. \A d \in Callbacks \ {c} : Active(d) => callback[d].login # x
    BY <2>1 DEF LoginInv, CompletionsOwn, Owned, Taken
  <2>11. \A d \in Callbacks \ {c} : Active(d)' => Owned(d)'
    BY <1>2, <2>4, <2>6, <2>7, <2>9, <2>10, OthersOwned
  <2>12. Owned(c)'
    <3>1. Taken(callback[c].login)' /\ login'[callback'[c].login].tenant = callback'[c].tenant
      BY <2>6, <2>7 DEF Taken
    <3>2. callback'[c].assertion \in assertions'
      BY <1>1, <2>6, <2>7
    <3>3. \A d \in Callbacks : Active(d)' /\ callback'[d].login = callback'[c].login => d = c
      BY <2>6, <2>7, <2>10 DEF Active
    <3>4. \A s \in Minted' : s.login # callback'[c].login
      BY <2>6, <2>7, <2>9
    <3> QED BY <1>2, <2>6, <2>7, <3>1, <3>2, <3>3, <3>4 DEF Owned, Checked
  <2>13. CompletionsOwn'
    BY <2>11, <2>12 DEF CompletionsOwn
  <2>14. AssertionsAnswer'
    BY <1>0, <1>1, <2>4 DEF LoginInv, AssertionsAnswer, LoginKept, SsoTypeOK, Assertions
  <2>15. EventsOnce'
    BY <1>2, <2>7 DEF EventsOnce, LoginInv
  <2>16. MintedLast'
    <3> SUFFICES ASSUME NEW s \in Minted PROVE callback'[s.by].at = "answered" /\ Taken(s.login)'
      BY <2>9 DEF MintedLast
    <3>1. s.login \in Logins /\ callback[s.by].at = "answered" /\ Taken(s.login)
      BY DEF Minted, LoginInv, SsoTypeOK, Sessions, MintedLast
    <3> QED BY <2>4, <2>7, <2>9, <3>1 DEF LoginKept, Taken, NoLogin
  <2>17. UsersAreExplained'
    <3>1. \A q \in assertions : login'[q.to].tenant = login[q.to].tenant
      BY <2>4 DEF LoginInv, SsoTypeOK, Assertions, AssertionsAnswer, LoginKept
    <3> QED BY <1>1, <1>2, <3>1 DEF UsersAreExplained, LoginInv
  <2>18. OneSessionPerLogin'
    BY <2>9 DEF OneSessionPerLogin, LoginInv
  <2>19. SessionsAreExplained'
    <3>1. ASSUME NEW s \in Minted
          PROVE  login'[s.login].tenant = login[s.login].tenant
                 /\ login'[s.login].provider = login[s.login].provider
      <4>1. s.login \in Logins /\ login[s.login] # NoLogin
        BY DEF Minted, LoginInv, SsoTypeOK, Sessions, MintedLast, Taken, NoLogin
      <4> QED BY <2>4, <4>1 DEF LoginKept
    <3>2. ASSUME NEW s \in Minted
          PROVE /\ login'[s.login].tenant = s.tenant
                /\ \E q \in assertions :
                     q.to = s.login /\ q.provider = login'[s.login].provider /\ q.subject = s.subject
                /\ <<s.tenant, s.subject>> \in adminUsers
                /\ <<s.tenant, s.subject, s.role>> \in roleAssigned
                /\ ssoEvents[s.by] = <<[type |-> "operator_sso_login", tenant |-> s.tenant,
                                        actor |-> s.subject]>>
      BY <3>1 DEF SessionsAreExplained, LoginInv
    <3> QED BY <1>1, <1>2, <2>9, <3>2 DEF SessionsAreExplained
  <2> QED BY <2>8, <2>13, <2>14, <2>15, <2>16, <2>17, <2>18, <2>19 DEF LoginInv
<1> QED BY <1>3, <1>4

\* The session is the first of its login, and closes the callback.
LEMMA MintStep ==
    ASSUME LoginInv, NEW c \in Callbacks, mint(c)
    PROVE  LoginInv'
<1> DEFINE k == callback[c]
           new == [by |-> c, login |-> k.login, tenant |-> k.tenant,
                   subject |-> k.assertion.subject, role |-> k.role]
<1>0. SsoTypeOK
  BY DEF LoginInv
<1>1. /\ k.at = "mint" /\ sessions' = sessions \cup {new}
      /\ callback' = [callback EXCEPT ![c] = Answered]
      /\ UNCHANGED <<login, assertions, adminUsers, roleAssigned, ssoEvents, expiredSessions, operatorVars>>
  BY DEF mint, Finish
<1>2. k \in Completions /\ Active(c) /\ Owned(c)
  <2>1. Active(c) /\ callback[c] # NotCalled /\ callback[c] # Answered
    BY <1>1 DEF Active, NotCalled, Answered
  <2> QED BY <1>0, <2>1 DEF LoginInv, CompletionsOwn, SsoTypeOK
<1>3. /\ k.login \in Logins /\ k.tenant \in SsoTenants /\ k.assertion \in assertions
      /\ k.assertion.subject \in Subjects /\ k.assertion.to = k.login /\ k.role \in Roles
      /\ login[k.login].tenant = k.tenant /\ Taken(k.login)
      /\ <<k.tenant, k.assertion.subject>> \in adminUsers
      /\ <<k.tenant, k.assertion.subject, k.role>> \in roleAssigned
      /\ ssoEvents[c] = <<[type |-> "operator_sso_login", tenant |-> k.tenant,
                           actor |-> k.assertion.subject]>>
      /\ \A s \in Minted : s.login # k.login
  BY <1>0, <1>1, <1>2 DEF Owned, UserOf, LoginEvent, Completions, Assertions, SsoTypeOK, Checked
<1>4. new \in Sessions /\ new.by = c /\ new.login = k.login /\ new.tenant = k.tenant
      /\ new.subject = k.assertion.subject /\ new.role = k.role
  BY <1>3 DEF Sessions
<1>5. PICK n : n = new
  OBVIOUS
<1>6. /\ n \in Sessions /\ n.by = c /\ n.login = k.login /\ n.tenant = k.tenant
      /\ n.subject = k.assertion.subject /\ n.role = k.role /\ sessions' = sessions \cup {n}
  BY <1>1, <1>4, <1>5
<1> HIDE DEF k, new
<1>7. /\ callback'[c] = Answered /\ Minted' = Minted \cup {n} /\ LoginKept
      /\ \A d \in Callbacks \ {c} : callback'[d] = callback[d]
      /\ \A x : Taken(x)' = Taken(x)
  BY <1>0, <1>1, <1>6 DEF Minted, LoginKept, SsoTypeOK, Taken
<1>8. SsoTypeOK' /\ AssertionsAnswer' /\ UsersAreExplained' /\ EventsOnce'
  <2>1. SsoTypeOK'
    BY <1>0, <1>1, <1>6 DEF SsoTypeOK, operatorVars
  <2>2. AssertionsAnswer' /\ UsersAreExplained'
    BY <1>1 DEF LoginInv, AssertionsAnswer, UsersAreExplained
  <2>3. EventsOnce'
    BY <1>1, <1>7 DEF LoginInv, EventsOnce, Answered
  <2> QED BY <2>1, <2>2, <2>3
<1>9. CompletionsOwn'
  <2>1. ~Active(c)'
    BY <1>7 DEF Active, Answered
  <2>2. \A d \in Callbacks \ {c} : Active(d) => callback[d].login # k.login
    BY <1>2 DEF Owned, k
  <2>3. \A d \in Callbacks \ {c} : Active(d)' => Owned(d)'
    BY <1>1, <1>6, <1>7, <2>1, <2>2, OthersOwned
  <2> QED BY <2>1, <2>3 DEF CompletionsOwn
<1>10. \A s \in Minted : s.by \in Callbacks \ {c}
  BY <1>1 DEF LoginInv, MintedLast, Minted, SsoTypeOK, Sessions, k
<1>11. MintedLast'
  <2>1. callback'[n.by].at = "answered" /\ Taken(n.login)'
    BY <1>3, <1>6, <1>7 DEF Answered
  <2>2. \A s \in Minted : callback'[s.by].at = "answered" /\ Taken(s.login)'
    BY <1>7, <1>10 DEF LoginInv, MintedLast
  <2> QED BY <1>7, <2>1, <2>2 DEF MintedLast
<1>12. OneSessionPerLogin'
  BY <1>3, <1>6, <1>7 DEF OneSessionPerLogin, LoginInv
<1>13. SessionsAreExplained'
  <2>1. login[n.login].provider = k.assertion.provider
    BY <1>3, <1>6 DEF LoginInv, AssertionsAnswer
  <2> QED BY <1>1, <1>3, <1>6, <1>7, <2>1 DEF SessionsAreExplained, LoginInv
<1> QED BY <1>8, <1>9, <1>11, <1>12, <1>13 DEF LoginInv

\* The other steps of a callback.
LEMMA CallbackSteps ==
    ASSUME LoginInv, NEW c \in Callbacks, CallbackStep(c)
    PROVE  LoginInv'
<1>0. SsoTypeOK /\ UsersAreExplained
  BY DEF LoginInv
<1>1. ASSUME Active(c)
      PROVE  /\ callback[c] \in Completions /\ Owned(c) /\ callback[c].at # "answered"
             /\ callback[c].assertion \in Assertions
             /\ ssoEvents[c] = <<>> \/ \E e : ssoEvents[c] = <<e>>
  <2>1. callback[c] \in Completions
    BY <1>0, <1>1 DEF SsoTypeOK, Active, NotCalled, Answered
  <2> QED BY <1>1, <2>1 DEF LoginInv, CompletionsOwn, Active, EventsOnce, Completions
<1>2. ASSUME Finish(c), callbackOnly, Active(c) PROVE LoginInv'
  <2>1. /\ callback' = [callback EXCEPT ![c] = Answered]
        /\ UNCHANGED <<login, assertions, sessions, expiredSessions, operatorVars,
                       adminUsers, roleAssigned, ssoEvents>>
    BY <1>2 DEF Finish, callbackOnly, identityVars
  <2>2. UsersAreExplained' /\ DOMAIN ssoEvents' = Callbacks
    BY <1>0, <2>1 DEF UsersAreExplained, SsoTypeOK
  <2> QED BY <1>1, <1>2, <2>1, <2>2, CallbackFrame
<1>3. ASSUME get_active(c) PROVE LoginInv'
  <2>1. PICK now \in Providers \cup {NoProvider} :
           now = idpConfig[callback[c].tenant][callback[c].protocol]
    <3>1. callback[c].at = "reload"
      BY <1>3 DEF get_active
    <3> QED BY <1>0, <1>1, <3>1 DEF Active, SsoTypeOK, Completions
  <2>2. /\ callback[c].at = "reload" /\ callbackOnly
        /\ callback' = [callback EXCEPT ![c] =
                          IF now = NoProvider THEN Answered
                          ELSE [callback[c] EXCEPT !.at = "verify", !.provider = now]]
    BY <1>3, <2>1 DEF get_active
  <2>3. Active(c)
    BY <2>2 DEF Active
  <2>4. CASE now = NoProvider
    BY <1>2, <2>2, <2>3, <2>4 DEF Finish
  <2>5. CASE now # NoProvider
    <3>1. PICK k : k = [callback[c] EXCEPT !.at = "verify", !.provider = now]
      OBVIOUS
    <3>2. /\ k \in Completions /\ k.at = "verify" /\ k.login = callback[c].login
          /\ k.tenant = callback[c].tenant /\ k.assertion = callback[c].assertion
      BY <1>1, <2>3, <3>1 DEF Completions
    <3>3. /\ callback' = [callback EXCEPT ![c] = k]
          /\ UNCHANGED <<login, assertions, sessions, expiredSessions, operatorVars,
                         adminUsers, roleAssigned, ssoEvents>>
      BY <2>2, <2>5, <3>1 DEF callbackOnly, identityVars
    <3>4. UsersAreExplained' /\ DOMAIN ssoEvents' = Callbacks /\ ssoEvents'[c] = <<>>
      BY <1>0, <1>1, <2>2, <2>3, <3>3 DEF UsersAreExplained, SsoTypeOK, Owned
    <3> QED BY <1>1, <2>3, <3>2, <3>3, <3>4, CallbackFrame DEF Checked
  <2> QED BY <2>4, <2>5
<1>4. ASSUME VerifyAssertion(c) PROVE LoginInv'
  <2>1. /\ callback[c].at = "verify" /\ Verified(c) /\ callbackOnly
        /\ callback' = [callback EXCEPT ![c].at = "resolve"]
    BY <1>4 DEF VerifyAssertion, Continue
  <2>2. Active(c)
    BY <2>1 DEF Active
  <2>3. PICK k : k = [callback[c] EXCEPT !.at = "resolve"]
    OBVIOUS
  <2>4. /\ k \in Completions /\ k.at = "resolve" /\ k.login = callback[c].login
        /\ k.tenant = callback[c].tenant /\ k.assertion = callback[c].assertion
    BY <1>1, <2>2, <2>3 DEF Completions, Checked
  <2>5. /\ callback' = [callback EXCEPT ![c] = k]
        /\ UNCHANGED <<login, assertions, sessions, expiredSessions, operatorVars,
                       adminUsers, roleAssigned, ssoEvents>>
    BY <2>1, <2>3 DEF callbackOnly, identityVars
  <2>6. UsersAreExplained' /\ DOMAIN ssoEvents' = Callbacks /\ ssoEvents'[c] = <<>>
    BY <1>0, <1>1, <2>1, <2>2, <2>5 DEF UsersAreExplained, SsoTypeOK, Owned
  <2>7. k.assertion.to = k.login
    BY <2>1, <2>4 DEF Verified
  <2> QED BY <1>1, <2>2, <2>4, <2>5, <2>6, <2>7, CallbackFrame
<1>5. ASSUME VerificationFails(c) \/ CallbackEnds(c) PROVE LoginInv'
  BY <1>2, <1>5 DEF VerificationFails, CallbackEnds, Active
<1>6. ASSUME finalize_sso_login(c) PROVE LoginInv'
  <2>1. PICK role : role = resolve_role(callback[c].tenant, callback[c].assertion.groups)
    OBVIOUS
  <2>2. /\ callback[c].at = "resolve" /\ callbackOnly
        /\ callback' = [callback EXCEPT ![c] =
              [callback[c] EXCEPT !.at = IF role = "none" THEN "deny" ELSE "provision",
                                  !.role = role]]
    BY <1>6, <2>1 DEF finalize_sso_login
  <2>3. Active(c)
    BY <2>2 DEF Active
  <2>4. role \in Roles \cup {"none"} /\ (callback[c].assertion.groups = {} => role = "none")
    BY <2>1 DEF resolve_role, Roles
  <2>5. PICK k : k = [callback[c] EXCEPT !.at = IF role = "none" THEN "deny" ELSE "provision",
                                         !.role = role]
    OBVIOUS
  <2>6. /\ k \in Completions /\ k.at = (IF role = "none" THEN "deny" ELSE "provision")
        /\ k.login = callback[c].login /\ k.role = role
        /\ k.tenant = callback[c].tenant /\ k.assertion = callback[c].assertion
    BY <1>1, <2>3, <2>4, <2>5 DEF Completions, Checked
  <2>7. /\ callback' = [callback EXCEPT ![c] = k]
        /\ UNCHANGED <<login, assertions, sessions, expiredSessions, operatorVars,
                       adminUsers, roleAssigned, ssoEvents>>
    BY <2>2, <2>5 DEF callbackOnly, identityVars
  <2>8. UsersAreExplained' /\ DOMAIN ssoEvents' = Callbacks /\ ssoEvents'[c] = <<>>
    BY <1>0, <1>1, <2>2, <2>3, <2>7 DEF UsersAreExplained, SsoTypeOK, Owned
  <2>9. k.assertion.to = k.login
    BY <1>1, <2>2, <2>3, <2>6 DEF Owned, Checked
  <2>10. k.at \in {"deny", "provision"}
         /\ (k.at = "provision" => k.role \in Roles /\ k.assertion.groups # {})
    BY <2>4, <2>6
  <2> QED BY <1>1, <2>3, <2>6, <2>7, <2>8, <2>9, <2>10, CallbackFrame
<1>7. ASSUME _emit_denied(c) PROVE LoginInv'
  <2>1. /\ callback[c].at = "deny" /\ callback' = [callback EXCEPT ![c] = Answered]
        /\ ssoEvents' = [ssoEvents EXCEPT ![c] = Append(@, [type |-> "operator_sso_denied",
                                                             tenant |-> callback[c].tenant])]
        /\ UNCHANGED <<login, assertions, adminUsers, roleAssigned, sessions, expiredSessions, operatorVars>>
    BY <1>7 DEF _emit_denied, Finish
  <2>2. Active(c)
    BY <2>1 DEF Active
  <2>3. ssoEvents[c] = <<>> /\ DOMAIN ssoEvents = Callbacks
    BY <1>0, <1>1, <2>1, <2>2 DEF Owned, SsoTypeOK
  <2>4. PICK e : e = [type |-> "operator_sso_denied", tenant |-> callback[c].tenant]
    OBVIOUS
  <2>5. /\ ssoEvents' = [ssoEvents EXCEPT ![c] = Append(<<>>, e)]
        /\ Append(<<>>, e) = <<e>>
    BY <2>1, <2>3, <2>4
  <2>6. /\ DOMAIN ssoEvents' = Callbacks /\ ssoEvents'[c] = <<e>>
        /\ \A d \in Callbacks \ {c} : ssoEvents'[d] = ssoEvents[d]
    BY <2>3, <2>5
  <2>7. UsersAreExplained'
    BY <1>0, <2>1 DEF UsersAreExplained
  <2>8. /\ UNCHANGED <<login, assertions, sessions, expiredSessions, operatorVars>>
        /\ adminUsers \subseteq adminUsers' /\ roleAssigned \subseteq roleAssigned'
        /\ \E q : ssoEvents'[c] = <<q>>
        /\ callback[c].at # "answered" /\ Answered \in {Answered} \cup Completions
    BY <2>1, <2>6
  <2> QED BY <2>1, <2>6, <2>7, <2>8, CallbackFrame
<1>8. ASSUME ProvisionCommits(c) PROVE LoginInv'
  <2>1. PICK t, s, role :
           t = callback[c].tenant /\ s = callback[c].assertion.subject /\ role = callback[c].role
    OBVIOUS
  <2>2. /\ callback[c].at = "provision" /\ callback' = [callback EXCEPT ![c].at = "audit"]
        /\ adminUsers' = adminUsers \cup {<<t, s>>}
        /\ roleAssigned' = roleAssigned \cup {<<t, s, role>>}
        /\ UNCHANGED <<login, assertions, ssoEvents, sessions, expiredSessions, operatorVars>>
    BY <1>8, <2>1 DEF ProvisionCommits, Continue
  <2>3. Active(c)
    BY <2>2 DEF Active
  <2>4. PICK k : k = [callback[c] EXCEPT !.at = "audit"]
    OBVIOUS
  <2>5. /\ k \in Completions /\ k.at = "audit" /\ k.login = callback[c].login
        /\ k.tenant = t /\ k.assertion = callback[c].assertion /\ k.role = role
        /\ k.assertion.subject = s /\ callback' = [callback EXCEPT ![c] = k]
    BY <1>1, <2>1, <2>2, <2>3, <2>4 DEF Completions, Checked
  <2>6. /\ k.assertion.to = k.login /\ k.role \in Roles /\ k.assertion.groups # {}
        /\ login[k.login].tenant = t /\ k.assertion \in assertions
        /\ ssoEvents[c] = <<>> /\ DOMAIN ssoEvents = Callbacks
        /\ t \in SsoTenants /\ s \in Subjects
    BY <1>0, <1>1, <2>1, <2>2, <2>3, <2>5
       DEF Owned, Checked, SsoTypeOK, Completions, Assertions
  <2>7. UsersAreExplained'
    <3>1. adminUsers' \subseteq SsoTenants \X Subjects
      BY <1>0, <2>2, <2>6 DEF UsersAreExplained
    <3>2. ASSUME NEW u \in adminUsers
          PROVE  /\ \E q \in Roles : <<u[1], u[2], q>> \in roleAssigned'
                 /\ \E r \in assertions' :
                       r.subject = u[2] /\ r.groups # {} /\ login'[r.to].tenant = u[1]
      BY <1>0, <2>2 DEF UsersAreExplained
    <3>3. ASSUME NEW u, u = <<t, s>>
          PROVE  /\ \E q \in Roles : <<u[1], u[2], q>> \in roleAssigned'
                 /\ \E r \in assertions' :
                       r.subject = u[2] /\ r.groups # {} /\ login'[r.to].tenant = u[1]
      BY <2>2, <2>5, <2>6, <3>3
    <3> QED BY <2>2, <3>1, <3>2, <3>3 DEF UsersAreExplained
  <2>8. /\ UNCHANGED <<login, assertions, sessions, expiredSessions, operatorVars>>
        /\ adminUsers \subseteq adminUsers' /\ roleAssigned \subseteq roleAssigned'
        /\ <<k.tenant, k.assertion.subject>> \in adminUsers'
        /\ <<k.tenant, k.assertion.subject, k.role>> \in roleAssigned'
        /\ ssoEvents' = ssoEvents /\ k.tenant = callback[c].tenant
        /\ callback[c].at # "answered" /\ k \in {Answered} \cup Completions
    BY <2>1, <2>2, <2>5
  <2> QED BY <2>3, <2>5, <2>6, <2>7, <2>8, CallbackFrame
<1>9. ASSUME emit_sso_event(c) PROVE LoginInv'
  <2>1. PICK e : e = [type |-> "operator_sso_login", tenant |-> callback[c].tenant,
                      actor |-> callback[c].assertion.subject]
    OBVIOUS
  <2>2. /\ callback[c].at = "audit" /\ callback' = [callback EXCEPT ![c].at = "mint"]
        /\ ssoEvents' = [ssoEvents EXCEPT ![c] = Append(ssoEvents[c], e)]
        /\ UNCHANGED <<login, assertions, adminUsers, roleAssigned, sessions, expiredSessions, operatorVars>>
    BY <1>9, <2>1 DEF emit_sso_event, Continue
  <2>3. Active(c)
    BY <2>2 DEF Active
  <2>4. ssoEvents[c] = <<>> /\ DOMAIN ssoEvents = Callbacks /\ Append(<<>>, e) = <<e>>
    BY <1>0, <1>1, <2>2, <2>3 DEF Owned, SsoTypeOK
  <2>5. /\ DOMAIN ssoEvents' = Callbacks /\ ssoEvents'[c] = <<e>>
        /\ \A d \in Callbacks \ {c} : ssoEvents'[d] = ssoEvents[d]
    BY <2>2, <2>4
  <2>6. PICK k : k = [callback[c] EXCEPT !.at = "mint"]
    OBVIOUS
  <2>7. /\ k \in Completions /\ k.at = "mint" /\ k.login = callback[c].login
        /\ k.tenant = callback[c].tenant /\ k.assertion = callback[c].assertion
        /\ k.role = callback[c].role /\ callback' = [callback EXCEPT ![c] = k]
    BY <1>1, <2>2, <2>3, <2>6 DEF Completions, Checked
  <2>8. /\ k.assertion.to = k.login /\ k.role \in Roles /\ k.assertion.groups # {}
        /\ <<k.tenant, k.assertion.subject>> \in adminUsers'
        /\ <<k.tenant, k.assertion.subject, k.role>> \in roleAssigned'
    BY <1>1, <2>2, <2>3, <2>7 DEF Owned, Checked, UserOf
  <2>9. UsersAreExplained'
    BY <1>0, <2>2 DEF UsersAreExplained
  <2>10. ssoEvents'[c] = <<[type |-> "operator_sso_login", tenant |-> k.tenant,
                            actor |-> k.assertion.subject]>>
    BY <2>1, <2>5, <2>7
  <2>11. callback[c].at # "answered" /\ k \in {Answered} \cup Completions
    BY <2>2, <2>7
  <2>12. /\ UNCHANGED <<login, assertions, sessions, expiredSessions, operatorVars>>
         /\ adminUsers \subseteq adminUsers' /\ roleAssigned \subseteq roleAssigned'
         /\ ssoEvents'[c] = <<>> \/ \E q : ssoEvents'[c] = <<q>>
    BY <2>2, <2>5
  <2> QED BY <2>3, <2>5, <2>7, <2>8, <2>9, <2>10, <2>11, <2>12, CallbackFrame
<1> QED BY <1>3, <1>4, <1>5, <1>6, <1>7, <1>8, <1>9, TakeStep, MintStep DEF CallbackStep

\* Sessions that expire are still minted, and configuration changes leave logins alone.
LEMMA SessionAndOperatorSteps ==
    ASSUME LoginInv,
           (\E s \in sessions : SessionExpires(s)) \/ (\E a \in Operators : OperatorStep(a))
    PROVE  LoginInv'
<1>0. SsoTypeOK /\ AssertionsAnswer
  BY DEF LoginInv
<1>1. ASSUME NEW s \in sessions, SessionExpires(s) PROVE LoginInv'
  <2>1. /\ sessions' = sessions \ {s} /\ expiredSessions' = expiredSessions \cup {s}
        /\ UNCHANGED <<login, assertions, callback, adminUsers, roleAssigned, ssoEvents, operatorVars>>
    BY <1>1 DEF SessionExpires
  <2>2. Minted' = Minted
    BY <2>1 DEF Minted
  <2>3. SsoTypeOK' /\ AssertionsAnswer' /\ LoginKept
    BY <1>0, <2>1 DEF SsoTypeOK, AssertionsAnswer, LoginKept, Taken, operatorVars
  <2> QED BY <2>1, <2>2, <2>3, LoginFrame
<1>2. ASSUME operatorOnly,
             idpConfig' \in [SsoTenants -> [Protocols -> Providers \cup {NoProvider}]],
             roleMap' \in [SsoTenants -> [Groups -> Roles \cup {"none"}]],
             operator' \in [Operators -> {NotCalled} \cup ChangeCalls],
             idpChanges' \in Seq(Changes), idpEvents' \in Seq(Changes)
      PROVE  LoginInv'
  <2>1. UNCHANGED <<login, assertions, callback, adminUsers, roleAssigned, ssoEvents, sessions,
                    expiredSessions>>
    BY <1>2 DEF operatorOnly, identityVars
  <2>2. SsoTypeOK' /\ AssertionsAnswer' /\ LoginKept /\ Minted' = Minted
    BY <1>0, <1>2, <2>1 DEF SsoTypeOK, AssertionsAnswer, LoginKept, Taken, Minted
  <2> QED BY <2>1, <2>2, LoginFrame
<1>3. ASSUME NEW a \in Operators, operator[a] # NotCalled
      PROVE  /\ operator[a] \in ChangeCalls /\ operator[a].tenant \in SsoTenants
             /\ [tenant |-> operator[a].tenant, who |-> operator[a].who] \in Changes
  BY <1>0, <1>3 DEF SsoTypeOK, ChangeCalls, Changes
<1>4. ASSUME NEW a \in Operators, OperatorStep(a) PROVE LoginInv'
  <2>1. ASSUME NEW t \in SsoTenants, NEW who \in sessions \cup {BreakGlass}, Authorize(a, t, who)
        PROVE  LoginInv'
    <3>1. [at |-> "write", tenant |-> t, who |-> who] \in ChangeCalls
      BY <1>0 DEF SsoTypeOK, ChangeCalls
    <3>2. operator' \in [Operators -> {NotCalled} \cup ChangeCalls]
      BY <1>0, <2>1, <3>1 DEF SsoTypeOK, Authorize
    <3> QED BY <1>0, <1>2, <2>1, <3>2 DEF SsoTypeOK, Authorize
  <2>2. ASSUME CommitChange(a)
        PROVE  /\ operator' \in [Operators -> {NotCalled} \cup ChangeCalls]
               /\ idpChanges' \in Seq(Changes) /\ idpEvents' \in Seq(Changes)
               /\ operatorOnly /\ operator[a].tenant \in SsoTenants
    <3>1. operator[a] # NotCalled /\ operator[a].at = "write"
      BY <2>2 DEF CommitChange, NotCalled
    <3>2. [operator[a] EXCEPT !.at = "audit"] \in ChangeCalls
      BY <1>3, <3>1 DEF ChangeCalls
    <3>3. operator' = [operator EXCEPT ![a] = [operator[a] EXCEPT !.at = "audit"]]
      BY <2>2 DEF CommitChange
    <3>4. operator' \in [Operators -> {NotCalled} \cup ChangeCalls]
      BY <1>0, <3>2, <3>3 DEF SsoTypeOK
    <3>5. idpChanges' \in Seq(Changes) /\ idpEvents' \in Seq(Changes)
      BY <1>0, <1>3, <2>2, <3>1 DEF SsoTypeOK, CommitChange
    <3> QED BY <1>3, <2>2, <3>1, <3>4, <3>5 DEF CommitChange
  <2>3. ASSUME NEW p \in Protocols, NEW provider \in Providers, upsert_idp_config(a, p, provider)
        PROVE  LoginInv'
    <3>1. CommitChange(a) /\ UNCHANGED roleMap
          /\ idpConfig' = [idpConfig EXCEPT ![operator[a].tenant][p] = provider]
      BY <2>3 DEF upsert_idp_config
    <3>2. idpConfig' \in [SsoTenants -> [Protocols -> Providers \cup {NoProvider}]]
      BY <1>0, <2>2, <3>1 DEF SsoTypeOK
    <3> QED BY <1>0, <1>2, <2>2, <3>1, <3>2 DEF SsoTypeOK
  <2>4. ASSUME NEW g \in Groups, NEW role \in Roles, set_group_mapping(a, g, role)
        PROVE  LoginInv'
    <3>1. CommitChange(a) /\ UNCHANGED idpConfig
          /\ roleMap' = [roleMap EXCEPT ![operator[a].tenant][g] = role]
      BY <2>4 DEF set_group_mapping
    <3>2. roleMap' \in [SsoTenants -> [Groups -> Roles \cup {"none"}]]
      BY <1>0, <2>2, <3>1 DEF SsoTypeOK
    <3> QED BY <1>0, <1>2, <2>2, <3>1, <3>2 DEF SsoTypeOK
  <2>5. ASSUME EmitConfigChanged(a) PROVE LoginInv'
    <3>1. operator[a] # NotCalled
      BY <2>5 DEF EmitConfigChanged, NotCalled
    <3>2. idpEvents' \in Seq(Changes) /\ operator' \in [Operators -> {NotCalled} \cup ChangeCalls]
      BY <1>0, <1>3, <2>5, <3>1 DEF SsoTypeOK, EmitConfigChanged
    <3> QED BY <1>0, <1>2, <2>5, <3>2 DEF SsoTypeOK, EmitConfigChanged
  <2>6. ASSUME OperatorDies(a) PROVE LoginInv'
    <3>1. operator' \in [Operators -> {NotCalled} \cup ChangeCalls]
      BY <1>0, <2>6 DEF SsoTypeOK, OperatorDies
    <3> QED BY <1>0, <1>2, <2>6, <3>1 DEF SsoTypeOK, OperatorDies
  <2> QED BY <1>4, <2>1, <2>3, <2>4, <2>5, <2>6 DEF OperatorStep
<1> QED BY <1>1, <1>4

\* Appending a record adds an occurrence of it and of no other.
LEMMA OccurrencesAppend ==
    ASSUME NEW S, NEW l \in Seq(S), NEW v \in S, NEW e
    PROVE  /\ Occurrences(l, e) \in Nat
           /\ Occurrences(Append(l, v), e) = Occurrences(l, e) + (IF v = e THEN 1 ELSE 0)
<1> DEFINE A == {i \in 1..Len(l) : l[i] = e}
           B == {i \in 1..Len(Append(l, v)) : Append(l, v)[i] = e}
<1>1. IsFiniteSet(A) /\ Cardinality(A) \in Nat
  <2>1. IsFiniteSet(1..Len(l))
    BY FS_Interval, 1 \in Int, Len(l) \in Int
  <2>2. A \subseteq 1..Len(l)
    OBVIOUS
  <2> QED BY <2>1, <2>2, FS_Subset, FS_CardinalityType
<1>2. /\ Len(Append(l, v)) = Len(l) + 1 /\ Append(l, v)[Len(l) + 1] = v
      /\ \A i \in 1..Len(l) : Append(l, v)[i] = l[i]
      /\ 1..Len(l) + 1 = (1..Len(l)) \cup {Len(l) + 1} /\ Len(l) + 1 \notin 1..Len(l)
  OBVIOUS
<1>3. B = A \cup (IF v = e THEN {Len(l) + 1} ELSE {})
  BY <1>2
<1>4. Len(l) + 1 \notin A
  BY <1>2
<1> HIDE DEF A, B
<1>5. Cardinality(B) = Cardinality(A) + (IF v = e THEN 1 ELSE 0)
  <2>1. CASE v = e
    <3>1. B = A \cup {Len(l) + 1}
      BY <1>3, <2>1
    <3> QED BY <1>1, <1>4, <2>1, <3>1, FS_AddElement
  <2>2. CASE v # e
    BY <1>1, <1>3, <2>2
  <2> QED BY <2>1, <2>2
<1> QED BY <1>1, <1>5 DEF Occurrences, A, B

\* A change is committed before it is owed an event, and an event settles one that is owed.
LEMMA ChangesCoverStep ==
    ASSUME SsoTypeOK, ChangesCover, [SsoNext]_ssoVars
    PROVE  ChangesCover'
<1> SUFFICES ASSUME NEW e \in Changes
             PROVE  Occurrences(idpEvents', e) + Cardinality(Owing(e)') <= Occurrences(idpChanges', e)
  BY DEF ChangesCover
<1>1. ASSUME NEW X \in SUBSET Operators PROVE IsFiniteSet(X) /\ Cardinality(X) \in Nat
  BY SsoAssumption, FS_Subset, FS_CardinalityType
<1>2. /\ Occurrences(idpEvents, e) + Cardinality(Owing(e)) <= Occurrences(idpChanges, e)
      /\ Occurrences(idpEvents, e) \in Nat /\ Occurrences(idpChanges, e) \in Nat
      /\ idpEvents \in Seq(Changes) /\ idpChanges \in Seq(Changes)
      /\ Owing(e) \in SUBSET Operators /\ Owing(e)' \in SUBSET Operators
  BY OccurrencesAppend DEF SsoTypeOK, ChangesCover, Owing
<1>3. IsFiniteSet(Owing(e)) /\ Cardinality(Owing(e)) \in Nat
  BY <1>1, <1>2
<1>4. CASE UNCHANGED operatorVars
  <2>1. UNCHANGED <<operator, idpChanges, idpEvents>>
    BY <1>4 DEF operatorVars
  <2>2. Owing(e)' = Owing(e)
    BY <2>1 DEF Owing
  <2> QED BY <1>2, <2>1, <2>2
<1>5. ASSUME NEW a \in Operators, OperatorStep(a)
      PROVE  Occurrences(idpEvents', e) + Cardinality(Owing(e)') <= Occurrences(idpChanges', e)
  <2> DEFINE m == [tenant |-> operator[a].tenant, who |-> operator[a].who]
  <2>1. ASSUME operator[a].at \in {"write", "audit"} PROVE operator[a] \in ChangeCalls /\ m \in Changes
    BY <2>1 DEF SsoTypeOK, NotCalled, ChangeCalls, Changes
  <2>2. ASSUME NEW t, NEW who, Authorize(a, t, who)
        PROVE  Occurrences(idpEvents', e) + Cardinality(Owing(e)') <= Occurrences(idpChanges', e)
    <3>1. Owing(e)' = Owing(e)
      BY <2>2 DEF Owing, Authorize, SsoTypeOK, NotCalled
    <3> QED BY <1>2, <2>2, <3>1 DEF Authorize
  <2>3. ASSUME CommitChange(a)
        PROVE  Occurrences(idpEvents', e) + Cardinality(Owing(e)') <= Occurrences(idpChanges', e)
    <3>1. /\ operator[a].at = "write" /\ operator' = [operator EXCEPT ![a].at = "audit"]
          /\ idpChanges' = Append(idpChanges, m) /\ idpEvents' = idpEvents
      BY <2>3 DEF CommitChange
    <3>2. operator'[a].at = "audit" /\ operator'[a].tenant = operator[a].tenant
          /\ operator'[a].who = operator[a].who
      BY <2>1, <3>1 DEF SsoTypeOK, ChangeCalls
    <3>3. Owing(e)' = Owing(e) \cup (IF m = e THEN {a} ELSE {}) /\ a \notin Owing(e)
      BY <3>1, <3>2 DEF Owing, SsoTypeOK
    <3>4. Cardinality(Owing(e)') = Cardinality(Owing(e)) + (IF m = e THEN 1 ELSE 0)
      <4>1. CASE m = e
        BY <1>3, <3>3, <4>1, FS_AddElement
      <4>2. CASE m # e
        BY <1>3, <3>3, <4>2
      <4> QED BY <4>1, <4>2
    <3>5. Occurrences(idpChanges', e) = Occurrences(idpChanges, e) + (IF m = e THEN 1 ELSE 0)
      BY <1>2, <2>1, <3>1, OccurrencesAppend
    <3> HIDE DEF m
    <3> QED BY <1>2, <1>3, <3>1, <3>4, <3>5
  <2>4. ASSUME EmitConfigChanged(a)
        PROVE  Occurrences(idpEvents', e) + Cardinality(Owing(e)') <= Occurrences(idpChanges', e)
    <3>1. /\ operator[a].at = "audit" /\ operator' = [operator EXCEPT ![a] = NotCalled]
          /\ idpEvents' = Append(idpEvents, m) /\ idpChanges' = idpChanges
      BY <2>4 DEF EmitConfigChanged
    <3>2. Owing(e)' = Owing(e) \ {a} /\ (a \in Owing(e) <=> m = e)
      BY <3>1 DEF Owing, SsoTypeOK, NotCalled
    <3>3. Cardinality(Owing(e)') = Cardinality(Owing(e)) - (IF m = e THEN 1 ELSE 0)
      <4>1. CASE m = e
        <5>1. Cardinality(Owing(e) \ {a}) = Cardinality(Owing(e)) - 1
          BY <1>3, <3>2, <4>1, FS_RemoveElement
        <5> QED BY <3>2, <4>1, <5>1
      <4>2. CASE m # e
        <5>1. Owing(e)' = Owing(e)
          BY <3>2, <4>2
        <5> QED BY <1>3, <4>2, <5>1
      <4> QED BY <4>1, <4>2
    <3>4. Occurrences(idpEvents', e) = Occurrences(idpEvents, e) + (IF m = e THEN 1 ELSE 0)
      BY <1>2, <2>1, <3>1, OccurrencesAppend
    <3> HIDE DEF m
    <3> QED BY <1>2, <1>3, <3>1, <3>3, <3>4
  <2>5. ASSUME OperatorDies(a)
        PROVE  Occurrences(idpEvents', e) + Cardinality(Owing(e)') <= Occurrences(idpChanges', e)
    <3>1. Owing(e)' \subseteq Owing(e)
      BY <2>5 DEF Owing, OperatorDies, SsoTypeOK, NotCalled
    <3>2. Cardinality(Owing(e)') <= Cardinality(Owing(e)) /\ Cardinality(Owing(e)') \in Nat
      BY <1>1, <1>2, <1>3, <3>1, FS_Subset
    <3>3. idpEvents' = idpEvents /\ idpChanges' = idpChanges
      BY <2>5 DEF OperatorDies
    <3> QED BY <1>2, <1>3, <3>2, <3>3
  <2> QED BY <1>5, <2>2, <2>3, <2>4, <2>5 DEF OperatorStep, upsert_idp_config, set_group_mapping
<1>6. ASSUME NEW x \in Logins,
             \/ \E t \in SsoTenants, p \in Protocols : begin_login(x, t, p)
             \/ create(x) \/ LoginAbandoned(x) \/ LoginExpires(x)
             \/ \E s \in Subjects, gs \in SUBSET Groups : ProviderAsserts(x, s, gs)
      PROVE  UNCHANGED operatorVars
  BY <1>6 DEF begin_login, create, LoginAbandoned, LoginExpires, ProviderAsserts
<1>7. ASSUME NEW c \in Callbacks, CallbackStep(c) PROVE UNCHANGED operatorVars
  BY <1>7 DEF CallbackStep, complete_login, get_active, VerifyAssertion, VerificationFails,
     finalize_sso_login, _emit_denied, ProvisionCommits, emit_sso_event, mint, CallbackEnds,
     callbackOnly
<1>8. ASSUME NEW s \in sessions, SessionExpires(s) PROVE UNCHANGED operatorVars
  BY <1>8 DEF SessionExpires
<1>9. ssoVars' = ssoVars => UNCHANGED operatorVars
  BY DEF ssoVars
<1> QED BY <1>4, <1>5, <1>6, <1>7, <1>8, <1>9 DEF SsoNext

\* Every step keeps both parts.
LEMMA SsoStep == LoginInv /\ ChangesCover /\ [SsoNext]_ssoVars => LoginInv' /\ ChangesCover'
<1> SUFFICES ASSUME LoginInv, ChangesCover, [SsoNext]_ssoVars PROVE LoginInv'
  BY ChangesCoverStep DEF LoginInv
<1>1. CASE UNCHANGED ssoVars
  <2>1. UNCHANGED <<login, assertions, callback, adminUsers, roleAssigned, ssoEvents, sessions,
                    expiredSessions, idpConfig, roleMap, operator, idpChanges, idpEvents>>
    BY <1>1 DEF ssoVars, identityVars, operatorVars
  <2>2. SsoTypeOK' /\ AssertionsAnswer' /\ LoginKept /\ Minted' = Minted
    BY <2>1 DEF LoginInv, SsoTypeOK, AssertionsAnswer, LoginKept, Taken, Minted
  <2> QED BY <2>1, <2>2, LoginFrame
<1> QED BY <1>1, LoginSteps, CallbackSteps, SessionAndOperatorSteps DEF SsoNext

\* For any number of logins, callbacks and configuration changes, and whatever callers
\* repeat or providers answer, a login yields at most one session, explained by its
\* assertion, rows and event; who has no role stays out; and every configuration event
\* follows its change (finalize_sso_login, consume, idp_routes).
THEOREM OperatorsStayAccounted == SsoSpec => []OperatorsAreAccounted
<1>1. LoginInv /\ ChangesCover => OperatorsAreAccounted
  <2> SUFFICES ASSUME LoginInv, ChangesCover PROVE OperatorsAreAccounted
    OBVIOUS
  <2>1. \A c \in Callbacks :
          (\E i \in 1..Len(ssoEvents[c]) : ssoEvents[c][i].type = "operator_sso_denied") =>
              Len(ssoEvents[c]) = 1 /\ \A s \in Minted : s.by # c
    <3> SUFFICES ASSUME NEW c \in Callbacks, NEW i \in 1..Len(ssoEvents[c]),
                        ssoEvents[c][i].type = "operator_sso_denied"
                 PROVE  Len(ssoEvents[c]) = 1 /\ \A s \in Minted : s.by # c
      OBVIOUS
    <3>1. PICK e : ssoEvents[c] = <<e>>
      <4>1. ssoEvents[c] # <<>>
        OBVIOUS
      <4> QED BY <4>1 DEF LoginInv, EventsOnce
    <3>2. Len(ssoEvents[c]) = 1 /\ ssoEvents[c][1] = e /\ i = 1
      BY <3>1
    <3>3. e.type = "operator_sso_denied"
      BY <3>2
    <3>4. ASSUME NEW s \in Minted, s.by = c PROVE FALSE
      <4>1. <<e>> = <<[type |-> "operator_sso_login", tenant |-> s.tenant, actor |-> s.subject]>>
        BY <3>1, <3>4 DEF LoginInv, SessionsAreExplained
      <4>2. e = [type |-> "operator_sso_login", tenant |-> s.tenant, actor |-> s.subject]
        BY <4>1
      <4> QED BY <3>3, <4>2
    <3> QED BY <3>2, <3>4
  <2>2. ASSUME NEW u \in adminUsers
        PROVE  /\ \E role \in Roles : <<u[1], u[2], role>> \in roleAssigned
               /\ \E r \in assertions :
                     r.subject = u[2] /\ r.groups # {} /\ login[r.to].tenant = u[1]
    BY DEF LoginInv, UsersAreExplained
  <2>3. DeniedStaysOut
    BY <2>1, <2>2 DEF DeniedStaysOut
  <2>4. EventsFollowChanges
    <3> SUFFICES ASSUME NEW i \in 1..Len(idpEvents)
                 PROVE  Occurrences(idpEvents, idpEvents[i]) <= Occurrences(idpChanges, idpEvents[i])
      BY DEF EventsFollowChanges
    <3>1. PICK e \in Changes : e = idpEvents[i]
      BY DEF LoginInv, SsoTypeOK
    <3>2. Occurrences(idpEvents, e) \in Nat /\ Occurrences(idpChanges, e) \in Nat
      BY OccurrencesAppend DEF LoginInv, SsoTypeOK
    <3>3. Owing(e) \subseteq Operators
      BY DEF Owing
    <3>4. Cardinality(Owing(e)) \in Nat
      BY <3>3, SsoAssumption, FS_Subset, FS_CardinalityType
    <3>5. Occurrences(idpEvents, e) + Cardinality(Owing(e)) <= Occurrences(idpChanges, e)
      BY DEF ChangesCover
    <3> QED BY <3>1, <3>2, <3>4, <3>5
  <2> QED BY <2>3, <2>4 DEF OperatorsAreAccounted, LoginInv
<1> QED BY <1>1, SsoStart, SsoStep, PTL DEF SsoSpec
=============================================================================
