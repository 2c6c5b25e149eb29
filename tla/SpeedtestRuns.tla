---------------------------- MODULE SpeedtestRuns ---------------------------
(***************************************************************************)
(* The runner that all speedtest widgets of the same settings share        *)
(* (widget-speedtest.go).  Widgets trigger it from their updates, a        *)
(* goroutine does the test, and rendering takes the last result and the    *)
(* one before in two critical sections.  Results are numbered.  The        *)
(* runner has no server configured: it picks one from a list and keeps it  *)
(* until a test with it fails.                                             *)
(***************************************************************************)
EXTENDS Integers, FiniteSets

CONSTANTS
    Renderers,
    Testers,        \* goroutines that may be running a test
    Servers,
    NoServer,       \* nil
    Debounce,       \* ticks in r.debounce
    MaxResults      \* bound on tests that succeed

SpeedAssumption == Debounce \in Nat \ {0} /\ MaxResults \in Nat /\ NoServer \notin Servers

VARIABLES
    running, result, previous, lastErr, selected,   \* of speedtestRunner
    resultAge,      \* time.Since(resultTime), up to Debounce
    test,           \* tester -> [at, server, kept]: with which server, and
                    \* whether it was kept from an earlier test
    broken,         \* servers a test failed with since they were picked
    render          \* renderer -> [at, current, previous]

speedVars == <<running, result, previous, lastErr, selected, resultAge, test, broken, render>>

NoTest == [at |-> "none", server |-> NoServer, kept |-> FALSE]
NoRender == [at |-> "none", current |-> 0, previous |-> 0]

SpeedInit == /\ running = FALSE /\ result = 0 /\ previous = 0
             /\ lastErr = FALSE /\ selected = NoServer
             /\ resultAge = 0 /\ broken = {}
             /\ test = [x \in Testers |-> NoTest]
             /\ render = [r \in Renderers |-> NoRender]

Debounced == result /= 0 /\ resultAge < Debounce

\* A mutant: a running test stops nobody.
TriggersAnyway == ~Debounced

Triggers == ~running /\ ~Debounced

\* An update triggers; if a test is running or the last is too young, nothing
\* happens.
Trigger(x) ==
    /\ test[x] = NoTest /\ Triggers /\ result < MaxResults
    /\ running' = TRUE
    /\ test' = [test EXCEPT ![x] = [NoTest EXCEPT !.at = "resolve"]]
    /\ UNCHANGED <<result, previous, lastErr, selected, resultAge, broken, render>>

\* resolveServer
KeepServer(x) ==
    /\ test[x].at = "resolve" /\ selected /= NoServer
    /\ test' = [test EXCEPT ![x] = [at |-> "ping", server |-> selected, kept |-> TRUE]]
    /\ UNCHANGED <<running, result, previous, lastErr, selected, resultAge, broken, render>>

AutoSelectServer(x, s) ==
    /\ test[x].at = "resolve" /\ selected = NoServer
    /\ selected' = s
    /\ test' = [test EXCEPT ![x] = [at |-> "ping", server |-> s, kept |-> FALSE]]
    /\ broken' = broken \ {s}
    /\ UNCHANGED <<running, result, previous, lastErr, resultAge, render>>

\* No list, an empty one, or no server in it that answers.
NoServerFound(x) ==
    /\ test[x].at = "resolve" /\ selected = NoServer
    /\ test' = [test EXCEPT ![x].at = "fail"]
    /\ UNCHANGED <<running, result, previous, lastErr, selected, resultAge, broken, render>>

Measuring(x) == test[x].at \in {"ping", "download", "upload"}

\* Some of the pings are answered.
MeasurePing(x) ==
    /\ test[x].at = "ping"
    /\ test' = [test EXCEPT ![x].at = "download"]
    /\ UNCHANGED <<running, result, previous, lastErr, selected, resultAge, broken, render>>

\* Bytes went over some of the streams, one way and then the other.
MeasureStreams(x) ==
    /\ test[x].at \in {"download", "upload"}
    /\ test' = [test EXCEPT ![x].at = IF @ = "download" THEN "upload" ELSE "succeed"]
    /\ UNCHANGED <<running, result, previous, lastErr, selected, resultAge, broken, render>>

\* forgetAutoSelectedServer
Forgets == NoServer

MeasureFails(x) ==
    /\ Measuring(x)
    /\ selected' = Forgets
    /\ test' = [test EXCEPT ![x].at = "fail"]
    /\ broken' = broken \union {test[x].server}
    /\ UNCHANGED <<running, result, previous, lastErr, resultAge, render>>

\* The goroutine's last critical section.
Succeed(x) ==
    /\ test[x].at = "succeed"
    /\ previous' = result
    /\ result' = result + 1
    /\ resultAge' = 0
    /\ lastErr' = FALSE /\ running' = FALSE
    /\ test' = [test EXCEPT ![x] = NoTest]
    /\ UNCHANGED <<selected, broken, render>>

Fail(x) ==
    /\ test[x].at = "fail"
    /\ lastErr' = TRUE /\ running' = FALSE
    /\ test' = [test EXCEPT ![x] = NoTest]
    /\ UNCHANGED <<result, previous, selected, resultAge, broken, render>>

--------------------------------------------------------------------------------
\* metricChange

TakeCurrent(r) ==
    /\ render[r].at = "none"
    /\ render' = [render EXCEPT ![r] = [at |-> "current", current |-> result, previous |-> 0]]
    /\ UNCHANGED <<running, result, previous, lastErr, selected, resultAge, test, broken>>

TakePrevious(r) ==
    /\ render[r].at = "current"
    /\ render' = [render EXCEPT ![r].at = "both", ![r].previous = previous]
    /\ UNCHANGED <<running, result, previous, lastErr, selected, resultAge, test, broken>>

ShowChange(r) ==
    /\ render[r].at = "both"
    /\ render' = [render EXCEPT ![r] = NoRender]
    /\ UNCHANGED <<running, result, previous, lastErr, selected, resultAge, test, broken>>

\* A minute is longer than it takes to render.
SpeedTick ==
    /\ resultAge < Debounce
    /\ \A r \in Renderers : render[r].at = "none"
    /\ resultAge' = resultAge + 1
    /\ UNCHANGED <<running, result, previous, lastErr, selected, test, broken, render>>

SpeedNext ==
    \/ \E x \in Testers : \/ Trigger(x) \/ KeepServer(x) \/ NoServerFound(x) \/ MeasurePing(x) \/ MeasureStreams(x)
                          \/ MeasureFails(x) \/ Succeed(x) \/ Fail(x)
                          \/ \E s \in Servers : AutoSelectServer(x, s)
    \/ \E r \in Renderers : TakeCurrent(r) \/ TakePrevious(r) \/ ShowChange(r)
    \/ SpeedTick

SpeedSpec == SpeedInit /\ [][SpeedNext]_speedVars

--------------------------------------------------------------------------------

\* One test runs at a time, however many widgets trigger it; no test is made with
\* a server kept from an earlier test that has failed since; and the change that
\* is shown is the one between two results next to each other, or none at all
\* where a test ended between the two looks.
TestsAreSound ==
    /\ Cardinality({x \in Testers : test[x] /= NoTest}) <= 1
    /\ \A x \in Testers : Measuring(x) /\ test[x].kept => test[x].server \notin broken
    /\ \A r \in Renderers :
          render[r].at = "both" /\ render[r].current /= 0 /\ render[r].previous /= 0 =>
              render[r].current - render[r].previous \in {0, 1}
=============================================================================
