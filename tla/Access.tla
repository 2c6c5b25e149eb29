------------------------------- MODULE Access -------------------------------
(***************************************************************************)
(* Who gets in: the first run, where anybody may write the config          *)
(* (FirstRunSetup), logins and sessions (Sessions), how often an address   *)
(* may try (RequestLimits), and what a request is answered with            *)
(* (PageRoutes).  The four share no state: the server of the first run is  *)
(* gone before the application starts, the counters of an address are      *)
(* looked at before a password is, and an answer depends on the user that  *)
(* a session stands for and on nothing else of it.  part says which one a  *)
(* behaviour follows.                                                      *)
(***************************************************************************)
EXTENDS Sessions

CONSTANTS
    Addresses, Checks, LoginWindow, MaxAttempts, ApiWindow, ApiLimit, Second, MaxClock,
    Browsers, MaxHandSaves, Visitors, Settings, Reserved, MaxSwaps

VARIABLES
    part,
    clock, failed, windows, check, passed, asked,       \* RequestLimits
    file, mu, done, server, form, handSaves,            \* FirstRunSetup
    site, who, screen, goal, streams, replies           \* PageRoutes

Limits == INSTANCE RequestLimits
Setup == INSTANCE FirstRunSetup

ASSUME WindowsAssumption == Limits!LimitsAssumption

Users == PwUsers \union OidcUsers

\* A password user has no groups.
Routes == INSTANCE PageRoutes WITH
              Browsers <- Visitors,
              GroupsOfUser <- [u \in Users |-> IF u \in OidcUsers THEN GroupsOf[u] ELSE {}]

ASSUME SettingsAssumption == Routes!SettingsAssumption

limitVars == <<clock, failed, windows, check, passed, asked>>
setupVars == <<file, mu, done, server, form, handSaves>>
routeVars == <<site, who, screen, goal, streams, replies>>
accessVars == <<part, sessionVars, limitVars, setupVars, routeVars>>

\* A part that is not followed stays at one of its starts.
AccessInit ==
    /\ part \in {"sessions", "logins", "api", "setup", "routes"}
    /\ SessionsInit /\ Limits!LimitsInit /\ Setup!SetupInit /\ Routes!RoutesInit
    /\ part /= "setup" => file = Setup!Empty

AccessNext ==
    \/ part = "sessions" /\ SessionsNext /\ UNCHANGED <<part, limitVars, setupVars, routeVars>>
    \/ part = "logins" /\ Limits!LoginLimitNext /\ UNCHANGED <<part, sessionVars, setupVars, routeVars>>
    \/ part = "api" /\ Limits!ApiLimitNext /\ UNCHANGED <<part, sessionVars, setupVars, routeVars>>
    \/ part = "setup" /\ Setup!SetupNext /\ UNCHANGED <<part, sessionVars, limitVars, routeVars>>
    \/ part = "routes" /\ Routes!RoutesNext
         /\ UNCHANGED <<part, sessionVars, limitVars, setupVars>>

AccessSpec == AccessInit /\ [][AccessNext]_accessVars

\* The properties of the parts, see their modules; those of Sessions are checked
\* as they stand.
LimitsHold == part \in {"logins", "api"} => Limits!LimitsHold

RefusalsAreFair == part \in {"logins", "api"} => Limits!RefusalsAreFair

AnswersAreDeserved == part = "routes" => Routes!AnswersAreDeserved

SetupWritesOnce == [][part = "setup" => Setup!SetupStep]_accessVars
=============================================================================
