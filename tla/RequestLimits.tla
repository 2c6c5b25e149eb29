---------------------------- MODULE RequestLimits ---------------------------
(***************************************************************************)
(* How often an address may ask (auth.go, api.go): password checks, which  *)
(* the login form and the basic authentication of the API share, and       *)
(* requests to the API.  A password check is counted before it is made and *)
(* the count is dropped after it succeeded, with the slow comparison in    *)
(* between; other requests of the address pass meanwhile.  The clock moves *)
(* at every counted request, as it does between two calls of time.Now.     *)
(***************************************************************************)
EXTENDS Integers, FiniteSets

CONSTANTS
    Addresses,
    Checks,         \* requests under way at the same time
    LoginWindow,    \* AUTH_RATE_LIMIT_WINDOW
    MaxAttempts,    \* AUTH_RATE_LIMIT_MAX_ATTEMPTS
    ApiWindow,      \* apiRateLimitWindow
    ApiLimit,       \* apiRateLimit()
    Second,         \* ticks in a second, the unit of Retry-After
    MaxClock        \* bound on the clock

\* A limit of the API that is not positive turns it off.
LimitsAssumption ==
    /\ LoginWindow \in Nat \ {0} /\ MaxAttempts \in Nat \ {0} /\ Second \in Nat \ {0}
    /\ ApiWindow \in Nat \ {0} /\ ApiLimit \in Nat \ {0}

VARIABLES
    clock,
    failed,     \* failedAuthAttempts: address -> [attempts, first]
    windows,    \* apiRateRequests: address -> [requests, first]
    check,      \* request -> the address whose password it compares, or {}
    passed,     \* address -> times its password checks passed since it last logged in
    asked       \* address -> times its API requests passed

limitVars == <<clock, failed, windows, check, passed, asked>>

Put(f, a, v) == [b \in DOMAIN f \union {a} |-> IF b = a THEN v ELSE f[b]]
Dropped(f, S) == [b \in DOMAIN f \ S |-> f[b]]
Elapsed(f, a) == clock - f[a].first
Since(S, span) == {t \in S : t >= clock - span}

\* The whole seconds that are left, at least one.
RetryAfter(window, elapsed) ==
    LET whole == (window - elapsed) \div Second IN IF whole < 1 THEN 1 ELSE whole

--------------------------------------------------------------------------------

LimitsInit == /\ clock = 0
              /\ failed = << >> /\ windows = << >>
              /\ check = [r \in Checks |-> {}]
              /\ passed = [a \in Addresses |-> {}]
              /\ asked = [a \in Addresses |-> {}]

Advance == clock < MaxClock /\ clock' = clock + 1

\* A mutant: the window never ends.
ExhaustedForGood(a) == a \in DOMAIN failed /\ failed[a].attempts >= MaxAttempts

Exhausted(a) ==
    /\ a \in DOMAIN failed
    /\ Elapsed(failed, a) < LoginWindow
    /\ failed[a].attempts >= MaxAttempts

AgedOut(f) == {b \in DOMAIN f : Elapsed(f, b) > LoginWindow}

\* A mutant: an address that is known is not counted again.
CountedOnce(a) ==
    IF a \notin DOMAIN failed THEN Put(failed, a, [attempts |-> 1, first |-> clock])
    ELSE Dropped(failed, AgedOut(failed))

Counted(a) ==
    IF a \notin DOMAIN failed THEN Put(failed, a, [attempts |-> 1, first |-> clock])
    ELSE Dropped([failed EXCEPT ![a].attempts = @ + 1], AgedOut(failed))

\* checkAuthRateLimit lets the request pass; bcrypt is at work after this.
CheckPassword(r, a) ==
    /\ check[r] = {} /\ ~Exhausted(a)
    /\ failed' = Counted(a)
    /\ check' = [check EXCEPT ![r] = {a}]
    /\ passed' = [passed EXCEPT ![a] = Since(@, LoginWindow) \union {clock}]
    /\ Advance
    /\ UNCHANGED <<windows, asked>>

WrongPassword(r) ==
    /\ check[r] /= {}
    /\ check' = [check EXCEPT ![r] = {}]
    /\ UNCHANGED <<clock, failed, windows, passed, asked>>

\* clearAuthRateLimit
RightPassword(r) ==
    /\ check[r] /= {}
    /\ failed' = Dropped(failed, check[r])
    /\ check' = [check EXCEPT ![r] = {}]
    /\ passed' = [a \in Addresses |-> IF a \in check[r] THEN {} ELSE passed[a]]
    /\ UNCHANGED <<clock, windows, asked>>

--------------------------------------------------------------------------------

WindowOver(a) == a \notin DOMAIN windows \/ Elapsed(windows, a) >= ApiWindow

NewWindow(a) ==
    LET with == Put(windows, a, [requests |-> 1, first |-> clock])
    IN Dropped(with, {b \in DOMAIN with : Elapsed(with, b) >= ApiWindow})

OverLimit(a) == ~WindowOver(a) /\ windows[a].requests + 1 > ApiLimit

\* apiExceededRateLimit: a refused request is counted as well.
AskApiPage(a) ==
    /\ windows' = IF WindowOver(a) THEN NewWindow(a) ELSE [windows EXCEPT ![a].requests = @ + 1]
    /\ asked' = [asked EXCEPT ![a] =
                    Since(@, ApiWindow) \union (IF OverLimit(a) THEN {} ELSE {clock})]
    /\ a \in DOMAIN windows => windows[a].requests <= ApiLimit
    /\ Advance
    /\ UNCHANGED <<failed, check, passed>>

Wait == Advance /\ UNCHANGED <<failed, windows, check, passed, asked>>

\* The two limits share no state: each is checked by itself.
LoginLimitNext ==
    \/ \E r \in Checks : \/ (\E a \in Addresses : CheckPassword(r, a))
                         \/ WrongPassword(r) \/ RightPassword(r)
    \/ Wait

ApiLimitNext == Wait \/ \E a \in Addresses : AskApiPage(a)

--------------------------------------------------------------------------------

\* However requests overlap, an address gets at most twice MaxAttempts and one
\* more password checks in any LoginWindow without a login that succeeds (the
\* rest of one window, the check that ends it, which no window counts, and the
\* next window), and fewer than twice the limit of the API in any ApiWindow.
LimitsHold ==
    \A a \in Addresses :
        /\ Cardinality(Since(passed[a], LoginWindow)) <= 2 * MaxAttempts + 1
        /\ Cardinality(Since(asked[a], ApiWindow)) < 2 * ApiLimit

\* Nobody is refused for what others did, or for what is longer ago than a
\* window, and a refused caller that waits for Retry-After and a second more is
\* let through.
RefusalsAreFair ==
    \A a \in Addresses :
        /\ Exhausted(a) =>
               /\ Cardinality(Since(passed[a], LoginWindow)) >= MaxAttempts
               /\ (RetryAfter(LoginWindow, Elapsed(failed, a)) + 1) * Second
                      > LoginWindow - Elapsed(failed, a)
        /\ OverLimit(a) => Cardinality(Since(asked[a], ApiWindow)) >= ApiLimit
=============================================================================
