------------------------------ MODULE Sessions ------------------------------
(***************************************************************************)
(* Who is logged in (auth.go, auth_session.go, auth_oidc.go): a browser    *)
(* with several tabs, the tokens it gets for a password, and the OIDC      *)
(* sessions the process keeps.  A handler that only reads and answers is   *)
(* one step; its cookies reach the browser in a later one, so that the     *)
(* answers to two tabs may arrive in either order.  A login at the         *)
(* provider takes three requests, and the exchange of its code waits for   *)
(* the provider.  A reload swaps the config under everything but the       *)
(* sessions, which outlive applications, and the requests under way, which *)
(* go on with the application that got them.                               *)
(***************************************************************************)
EXTENDS Integers, FiniteSets

CONSTANTS
    Tabs,           \* tabs of the browser
    PwUsers,        \* users of auth.users
    Creds,          \* password hashes
    OidcUsers,      \* users of the provider
    GroupsOf,       \* their groups
    Pages,          \* page -> [users, groups], its allow lists
    Configs,        \* the configs a reload may load
    FirstConfig,    \* the one the program started with
    Nobody,         \* nil
    None,           \* no cookie, no flow, no tab's business, no credential
    Valid,          \* AUTH_TOKEN_VALID_PERIOD, OIDC_SESSION_VALID_PERIOD
    RegenBefore,    \* AUTH_TOKEN_REGEN_BEFORE
    StateValid,     \* OIDC_STATE_VALID_PERIOD
    MaxTime,        \* bound on the clock
    MaxFlows,       \* bound on logins begun at the provider
    MaxReloads      \* bound on reloads

ASSUME PeriodsAssumption ==
    /\ Valid \in Nat /\ RegenBefore \in Nat /\ RegenBefore <= Valid
    /\ StateValid \in Nat /\ MaxTime \in Nat /\ MaxFlows \in Nat /\ MaxReloads \in Nat

\* nil is nobody's name, and no cookie and no credential is like none.
ASSUME NamesAssumption ==
    /\ Nobody \notin PwUsers \union OidcUsers /\ None \notin Creds \union OidcUsers \union Nat
    /\ None \notin [user : PwUsers, cred : Creds, expires : Int]
    /\ \A c \in Configs \union {FirstConfig} : c.cred \in [PwUsers -> Creds \union {None}]

VARIABLES
    now,
    config,     \* [cred, users, groups]: the config of the application that serves
    reloads,
    jar,        \* the browser's cookies: token, oidc, state, pkce
    sessions,   \* sharedOIDCSessions: session id -> [user, created]
    flows,      \* logins begun at the provider
    used,       \* flows whose code the provider has exchanged
    tab,        \* what each tab is doing
    proved,     \* (user, credential) -> when this browser last proved it
    signedIn,   \* OIDC user -> when this browser signed in as that user
    seen,       \* when this browser was last accepted with a token
    given,      \* the session it was last given: [id, user, at], until that is rightly taken
    lastFlow    \* the state cookie the browser received last, until its callback is accepted

sessionVars == <<now, config, reloads, jar, sessions, flows, used, tab, proved, signedIn, seen,
          given, lastFlow>>
history == <<proved, signedIn, seen, given, lastFlow>>

\* A time that is always too long ago.
Never == -(Valid + RegenBefore + 1)

Cookies == {"token", "oidc", "state", "pkce"}
Idle == [at |-> "idle"]
NoChange == [c \in {} |-> None]
Gone == [value |-> None, expires |-> Never]
Cookie(v, lasts) == [value |-> v, expires |-> now + lasts]
Cleared(names) == [c \in names |-> Gone]
Both(f, g) == [c \in DOMAIN f \union DOMAIN g |-> IF c \in DOMAIN g THEN g[c] ELSE f[c]]

\* What a request carries of a cookie.
Sent(c) == IF now <= jar[c].expires THEN jar[c].value ELSE None

--------------------------------------------------------------------------------
\* Tokens of password users.

Issue(u) == [user |-> u, cred |-> config.cred[u], expires |-> now + Valid]

NotExpired(token) == now <= token.expires

\* A mutant: the hash is of the user alone.
KnowsUser(token) == config.cred[token.user] /= None

\* computeUsernameHash mixes the credential in, so a token is for both.
HashMatches(token) == config.cred[token.user] = token.cred

TokenHolds(token) == token /= None /\ NotExpired(token) /\ HashMatches(token)

\* A mutant: tokens are renewed only once they have expired.
RegeneratesLate(token) == token.expires < now

Regenerates(token) == token.expires - RegenBefore < now

--------------------------------------------------------------------------------
\* Sessions of OIDC users.

OidcUserAllowed(c, u) ==
    \/ c.users = {} /\ c.groups = {}
    \/ u \in c.users
    \/ c.groups \intersect GroupsOf[u] /= {}

NotTooOld(session) == now - session.created < Valid

SessionHolds(id) ==
    /\ id \in DOMAIN sessions
    /\ NotTooOld(sessions[id])
    /\ OidcUserAllowed(config, sessions[id].user)

Without(ids) == [id \in DOMAIN sessions \ ids |-> sessions[id]]

--------------------------------------------------------------------------------
\* getAuthenticatedUser: the token first, then the session.  It renews the one
\* when it grows old, and forgets the other when it no longer holds.

User == IF TokenHolds(Sent("token")) THEN Sent("token").user
        ELSE IF SessionHolds(Sent("oidc")) THEN sessions[Sent("oidc")].user
        ELSE Nobody

ByToken == TokenHolds(Sent("token"))

Renewal == IF ByToken /\ Regenerates(Sent("token"))
           THEN [c \in {"token"} |-> Cookie(Issue(Sent("token").user), Valid)]
           ELSE NoChange

Forgotten == IF ~ByToken /\ ~SessionHolds(Sent("oidc")) THEN {Sent("oidc")} ELSE {}

Restricted(p) == Pages[p].users /= {} \/ Pages[p].groups /= {}

AllowedOnPage(u, p) ==
    \/ ~Restricted(p)
    \/ u \in Pages[p].users
    \/ u \in OidcUsers /\ Pages[p].groups \intersect GroupsOf[u] /= {}

CanAccess(u, p) == u /= Nobody /\ AllowedOnPage(u, p)

--------------------------------------------------------------------------------

SessionsInit ==
        /\ now = 0 /\ reloads = 0 /\ flows = 0 /\ used = {}
        /\ config = FirstConfig
        /\ jar = [c \in Cookies |-> Gone]
        /\ sessions = << >>
        /\ tab = [t \in Tabs |-> Idle]
        /\ proved = [p \in PwUsers \X Creds |-> Never]
        /\ signedIn = [u \in OidcUsers |-> Never]
        /\ seen = Never /\ given = None /\ lastFlow = Gone

\* The handler is done; its cookies are on their way.
Answer(t, what, set) == tab' = [tab EXCEPT ![t] = [at |-> what, set |-> set]]

\* A session is rightly taken by a logout, when it is old, and when its user is
\* not allowed.
Kept(ids) == IF given /= None /\ given.id \in ids THEN None ELSE given

Session(id) == IF id \in DOMAIN sessions
               THEN [id |-> id, user |-> sessions[id].user, at |-> sessions[id].created] ELSE None

Proof(u, c) == proved' = [proved EXCEPT ![<<u, c>>] = now]

\* Any page or widget: what it shows depends on User, here it matters what the
\* check leaves behind.
Visit(t) ==
    /\ tab[t] = Idle
    /\ sessions' = Without(Forgotten)
    /\ IF ByToken THEN Proof(Sent("token").user, Sent("token").cred) ELSE UNCHANGED proved
    /\ seen' = IF ByToken /\ Renewal = NoChange THEN now ELSE seen
    /\ given' = IF given /= None /\ now - given.at < Valid /\ OidcUserAllowed(config, given.user)
                THEN given ELSE Kept(Forgotten)
    /\ IF Renewal = NoChange THEN UNCHANGED tab ELSE Answer(t, "renewed", Renewal)
    /\ UNCHANGED <<now, config, reloads, jar, flows, used, signedIn, lastFlow>>

\* handleAuthenticationAttempt with the right password; a wrong one changes
\* nothing here (LoginLimit counts it).
LogIn(t, u) ==
    /\ tab[t] = Idle
    /\ config.cred[u] /= None
    /\ Answer(t, "token", [c \in {"token"} |-> Cookie(Issue(u), Valid)])
    /\ Proof(u, config.cred[u])
    /\ UNCHANGED <<now, config, reloads, jar, sessions, flows, used, signedIn, seen, given,
                   lastFlow>>

LogOut(t) ==
    /\ tab[t] = Idle
    /\ sessions' = Without({Sent("oidc")})
    /\ given' = Kept({Sent("oidc")})
    /\ Answer(t, "out", Cleared({"token", "oidc"}))
    /\ UNCHANGED <<now, config, reloads, jar, flows, used, proved, signedIn, seen, lastFlow>>

--------------------------------------------------------------------------------
\* A login at the provider.

OidcLogin(t) ==
    /\ tab[t] = Idle /\ flows < MaxFlows
    /\ flows' = flows + 1
    /\ Answer(t, "begun", [c \in {"state", "pkce"} |-> Cookie(flows + 1, StateValid)])
    /\ UNCHANGED <<now, config, reloads, jar, sessions, used, history>>

\* The provider sends the browser back, with a code or an error.
Authenticate(t, u) ==
    /\ tab[t].at = "provider"
    /\ tab' = [tab EXCEPT ![t] = [at |-> "returns", flow |-> tab[t].flow, user |-> u]]
    /\ UNCHANGED <<now, config, reloads, jar, sessions, flows, used, history>>

StateMatches(t) == Sent("state") /= None /\ Sent("state") = tab[t].flow
Accepts(t) == StateMatches(t) /\ Sent("pkce") /= None

\* A mutant: a callback that is refused clears the cookies like any other.
MismatchClears(t) ==
    /\ tab[t].at = "returns" /\ ~Accepts(t)
    /\ Answer(t, "failed", Cleared({"state", "pkce"}))
    /\ UNCHANGED <<now, config, reloads, jar, sessions, flows, used, history>>

Mismatch(t) ==
    /\ tab[t].at = "returns" /\ ~Accepts(t)
    /\ tab' = [tab EXCEPT ![t] = Idle]
    /\ UNCHANGED <<now, config, reloads, jar, sessions, flows, used, history>>

Callback(t) ==
    /\ tab[t].at = "returns" /\ Accepts(t)
    /\ IF tab[t].user = None
       THEN Answer(t, "failed", Cleared({"state", "pkce"}))
       ELSE tab' = [tab EXCEPT ![t] = [at |-> "exchange", flow |-> tab[t].flow,
                        user |-> tab[t].user, verifier |-> Sent("pkce"), config |-> config]]
    /\ lastFlow' = IF tab[t].flow = lastFlow.value THEN Gone ELSE lastFlow
    /\ UNCHANGED <<now, config, reloads, jar, sessions, flows, used, proved, signedIn, seen, given>>

\* The exchange failed, or the user is not among the allowed ones of the config
\* the request came under.
Reject(t) ==
    /\ tab[t].at = "exchange"
    /\ Answer(t, "failed", Cleared({"state", "pkce"}))
    /\ used' = IF OidcUserAllowed(tab[t].config, tab[t].user) THEN used
               ELSE used \union {tab[t].flow}
    /\ UNCHANGED <<now, config, reloads, jar, sessions, flows, history>>

Exchange(t) ==
    /\ tab[t].at = "exchange"
    /\ tab[t].flow \notin used /\ tab[t].verifier = tab[t].flow
    /\ OidcUserAllowed(tab[t].config, tab[t].user)
    /\ LET id == tab[t].flow
           u  == tab[t].user
       IN /\ sessions' = [i \in DOMAIN sessions \union {id} |->
                             IF i = id THEN [user |-> u, created |-> now] ELSE sessions[i]]
          /\ used' = used \union {id}
          /\ signedIn' = [signedIn EXCEPT ![u] = now]
          /\ Answer(t, "session", Both(Cleared({"state", "pkce"}),
                                       [c \in {"oidc"} |-> Cookie(id, Valid)]))
    /\ UNCHANGED <<now, config, reloads, jar, flows, proved, seen, given, lastFlow>>

--------------------------------------------------------------------------------
\* Answers arrive, or are lost with their connection.

Others(t) == {s \in Tabs \ {t} : tab[s].at \in {"renewed", "token", "session"}}

\* The end of an earlier login, on its way, will clear the cookies of the next.
Ending(t) == \E s \in Tabs \ {t} : tab[s].at \in {"exchange", "failed", "session"}

Receive(t) ==
    LET what == tab[t].at
        set  == tab[t].set
        clean == what = "out" /\ Others(t) = {}
    IN /\ "set" \in DOMAIN tab[t]
       /\ jar' = Both(jar, set)
       /\ tab' = [tab EXCEPT ![t] = IF what = "begun"
                      THEN [at |-> "provider", flow |-> set["state"].value] ELSE Idle]
       /\ lastFlow' = IF what /= "begun" THEN lastFlow
                      ELSE IF Ending(t) THEN Gone ELSE set["state"]
       /\ seen' = CASE what \in {"renewed", "token"} -> now
                    [] what = "out" -> Never
                    [] OTHER -> seen
       /\ given' = CASE what = "session" -> Session(set["oidc"].value)
                     [] what = "out" -> None
                     [] OTHER -> given
       /\ proved' = IF clean THEN [p \in DOMAIN proved |-> Never] ELSE proved
       /\ signedIn' = IF clean THEN [u \in OidcUsers |-> Never] ELSE signedIn
       /\ UNCHANGED <<now, config, reloads, sessions, flows, used>>

Lose(t) ==
    /\ "set" \in DOMAIN tab[t]
    /\ tab' = [tab EXCEPT ![t] = Idle]
    /\ UNCHANGED <<now, config, reloads, jar, sessions, flows, used, history>>

--------------------------------------------------------------------------------
\* Reloads, the sweeper and the clock.

Reload(c) ==
    /\ reloads < MaxReloads /\ c /= config
    /\ reloads' = reloads + 1 /\ config' = c
    /\ UNCHANGED <<now, jar, sessions, flows, used, tab, history>>

Expired(session) == now - session.created > Valid

Sweep ==
    /\ \E id \in DOMAIN sessions : Expired(sessions[id])
    /\ sessions' = Without({id \in DOMAIN sessions : Expired(sessions[id])})
    /\ UNCHANGED <<now, config, reloads, jar, flows, used, tab, history>>

\* A tick is much longer than a request takes; only the user at the provider
\* takes such a time.
Tick ==
    /\ now < MaxTime
    /\ \A t \in Tabs : tab[t].at \in {"idle", "provider", "returns"}
    /\ now' = now + 1
    /\ UNCHANGED <<config, reloads, jar, sessions, flows, used, tab, history>>

SessionsNext ==
    \/ \E t \in Tabs : \/ Visit(t) \/ LogOut(t) \/ OidcLogin(t) \/ Mismatch(t) \/ Callback(t)
                       \/ Reject(t) \/ Exchange(t) \/ Receive(t) \/ Lose(t)
                       \/ \E u \in PwUsers : LogIn(t, u)
                       \/ \E u \in OidcUsers \union {None} : Authenticate(t, u)
    \/ \E c \in Configs : Reload(c)
    \/ Sweep \/ Tick

SessionsSpec == SessionsInit /\ [][SessionsNext]_sessionVars

--------------------------------------------------------------------------------

\* Whoever the server takes this browser for has, under the config that serves
\* now, proved it from this browser and within Valid: with the password that is
\* configured now, by a login or a visit that kept the token alive, or at the
\* provider.  A logout with no other answer under way takes it all back.  Pages
\* are for those on their lists only.
GrantsAreDeserved ==
    LET u == User
    IN u /= Nobody =>
        /\ \/ u \in PwUsers /\ config.cred[u] /= None
              /\ proved[<<u, config.cred[u]>>] >= now - Valid
           \/ u \in OidcUsers /\ signedIn[u] > now - Valid /\ OidcUserAllowed(config, u)
        /\ \A p \in DOMAIN Pages : CanAccess(u, p) /\ Restricted(p) =>
               \/ u \in Pages[p].users
               \/ u \in OidcUsers /\ Pages[p].groups \intersect GroupsOf[u] /= {}

\* A browser that comes back within RegenBefore of its last accepted request
\* is never asked to log in again, in whatever order the answers to its tabs
\* arrived, unless the password was changed; nor is one that was given a session
\* less than Valid ago, neither by the check nor by the sweeper, while its user
\* is allowed.
RefusedOnlyWhenDue ==
    User = Nobody =>
        /\ now - seen <= RegenBefore => ~HashMatches(jar["token"].value)
        /\ given /= None => \/ now - given.at >= Valid
                            \/ ~OidcUserAllowed(config, given.user)

\* Of several logins begun in several tabs, the one begun last goes through
\* while its cookies last: a callback of an earlier one does not disturb it.  (The
\* answer to one that was accepted before does, if it arrives later.)
LastFlowGoesThrough ==
    \A t \in Tabs :
        tab[t].at = "returns" /\ tab[t].flow = lastFlow.value /\ now <= lastFlow.expires =>
            Accepts(t)
=============================================================================
