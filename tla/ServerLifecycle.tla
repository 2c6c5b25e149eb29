-------------------------- MODULE ServerLifecycle --------------------------
(***************************************************************************)
(* serveApp's onChange (main.go) and what it starts: it builds an          *)
(* application from the new contents, stops the server before through the  *)
(* captured variable stopServer, and leaves it to a goroutine to create    *)
(* the new server, which assigns stopServer, and to listen.                *)
(*                                                                         *)
(* onChange runs in two places: the goroutine of serveApp itself, for the  *)
(* first contents, and the callbacks of the config watcher, one at a time. *)
(* Nothing synchronizes the first with the second, nor either with the     *)
(* goroutines that start servers; stopServer and hadValidConfigOnStartup   *)
(* are read and written as they happen to be in memory.                    *)
(***************************************************************************)
EXTENDS Integers, FiniteSets

CONSTANTS
    Main,            \* the goroutine of serveApp
    Callbacks,       \* the goroutines of the watcher's debounce timer
    Contents,        \* config contents onChange may be called with
    ValidContents,   \* those newConfigFromYAML and newApplication accept
    PortOf,          \* contents -> the port they say
    MaxApps,         \* bound: applications built
    MaxChanges,      \* bound: calls of onChange
    Patient          \* environment: a change comes only after the one before
                     \* has settled: its server listens, or the program ends

Runners == {Main} \cup Callbacks

VARIABLES
    process,      \* "running", "exited" (serveApp returned) or "panicked"
    exitClosed,   \* exitChannel is closed
    hadValid,     \* hadValidConfigOnStartup
    at,           \* where each runner is in onChange: "out", "build", "replace"
    change,       \* the contents each runner was called with
    changes,      \* calls of onChange so far; the first is serveApp's own
    built,        \* applications built so far; they are numbered in that order
    config,       \* application -> its contents
    mine,         \* the application each runner has built
    server,       \* application -> the state of its server
    closed,       \* applications whose stop function was called
    stopServer    \* whose stop function stopServer holds, 0 for nil

vars == <<process, exitClosed, hadValid, at, change, changes, built, config, mine,
          server, closed, stopServer>>

Apps == 1..MaxApps

TypeOK ==
    /\ process \in {"running", "exited", "panicked"}
    /\ exitClosed \in BOOLEAN /\ hadValid \in BOOLEAN
    /\ at \in [Runners -> {"out", "build", "replace"}]
    /\ change \in [Runners -> Contents]
    /\ changes \in 0..MaxChanges
    /\ built \in 0..MaxApps
    /\ config \in [Apps -> Contents]
    /\ mine \in [Runners -> 0..MaxApps]
    /\ server \in [Apps -> {"none", "spawned", "created", "serving", "ended"}]
    /\ closed \subseteq Apps
    /\ stopServer \in 0..MaxApps
    /\ \A r \in Runners : at[r] = "replace" <=> mine[r] # 0
    /\ \A a \in Apps : server[a] # "none" => a <= built

SomeContents == CHOOSE c \in Contents : TRUE

Init ==
    /\ process = "running"
    /\ exitClosed = FALSE
    /\ hadValid = FALSE
    /\ at = [r \in Runners |-> "out"]
    /\ change = [r \in Runners |-> SomeContents]
    /\ changes = 0
    /\ built = 0
    /\ config = [a \in Apps |-> SomeContents]
    /\ mine = [r \in Runners |-> 0]
    /\ server = [a \in Apps |-> "none"]
    /\ closed = {}
    /\ stopServer = 0

-----------------------------------------------------------------------------
Starting == {a \in Apps : server[a] \in {"spawned", "created"}}

Serving == {a \in Apps : server[a] = "serving"}

\* Who calls onChange when: Main is the first, and once; a callback does it
\* under the watcher's mu, so no two of them are in it.
MayChange(r) ==
    /\ changes < MaxChanges
    /\ IF r = Main THEN changes = 0 ELSE changes > 0
    /\ \A b \in Callbacks : at[b] = "out"
    /\ Patient => Starting = {} /\ at[Main] = "out" /\ ~exitClosed

\* onChange is called.
BeginChange(r, c) ==
    /\ process = "running"
    /\ at[r] = "out"
    /\ at' = [at EXCEPT ![r] = "build"]
    /\ change' = [change EXCEPT ![r] = c]
    /\ changes' = changes + 1
    /\ UNCHANGED <<process, exitClosed, hadValid, built, config, mine, server, closed,
                   stopServer>>

\* newConfigFromYAML or newApplication failed: before the first valid config
\* that ends the program, by closing a channel that may be closed already;
\* after it, the error is logged and everything stays as it is.  The mutant
\* treats a bad config before and after alike.
EndsAlways == TRUE

Ends == ~hadValid

\* return; the mutant goes on with the application it could not build.
GoesOn == "replace"

ReturnsEarly == "out"

Reject(r) ==
    /\ process = "running"
    /\ at[r] = "build"
    /\ change[r] \notin ValidContents
    /\ at' = [at EXCEPT ![r] = ReturnsEarly]
    /\ exitClosed' = (exitClosed \/ Ends)
    /\ process' = IF Ends /\ exitClosed THEN "panicked" ELSE process
    /\ UNCHANGED <<hadValid, change, changes, built, config, mine, server, closed,
                   stopServer>>

\* The application is built; the first one settles that bad configs no longer
\* end the program.
Accept(r) ==
    /\ process = "running"
    /\ at[r] = "build"
    /\ change[r] \in ValidContents
    /\ built < MaxApps
    /\ built' = built + 1
    /\ config' = [config EXCEPT ![built + 1] = change[r]]
    /\ mine' = [mine EXCEPT ![r] = built + 1]
    /\ hadValid' = TRUE
    /\ at' = [at EXCEPT ![r] = "replace"]
    /\ UNCHANGED <<process, exitClosed, change, changes, server, closed, stopServer>>

\* What stop does to the servers: nothing to one that has not listened yet,
\* which will find itself closed; a listening one stops.
Stop(stopped) ==
    [a \in Apps |-> IF a \in stopped /\ server[a] = "serving" THEN "ended" ELSE server[a]]

\* Which application stopServer stops; the mutant stops the one just built.
StopsNew(r) == {mine[r]}

Stops(r) == {stopServer} \ {0}

\* if stopServer != nil { stopServer() }; go func() { ... }()
Replace(r) ==
    /\ process = "running"
    /\ at[r] = "replace"
    /\ server' = [Stop(Stops(r)) EXCEPT ![mine[r]] = "spawned"]
    /\ closed' = closed \cup Stops(r)
    /\ at' = [at EXCEPT ![r] = "out"]
    /\ mine' = [mine EXCEPT ![r] = 0]
    /\ UNCHANGED <<process, exitClosed, hadValid, change, changes, built, config, stopServer>>

\* The assignment to the captured variable; the mutant declares a new one.
AssignStopLocally(a) == stopServer' = stopServer

AssignStop(a) == stopServer' = a

\* startServer, stopServer = app.server(): from here the application's loops
\* (sseUpdateLoop, prewarmWidgets) run.
CreateServer(a) ==
    /\ process = "running"
    /\ server[a] = "spawned"
    /\ server' = [server EXCEPT ![a] = "created"]
    /\ AssignStop(a)
    /\ UNCHANGED <<process, exitClosed, hadValid, at, change, changes, built, config, mine,
                   closed>>

\* startServer(): ListenAndServe, which fails when the server is closed (no
\* error for serveApp) or the port taken (an error that is logged).
PortTaken(a) == \E b \in Serving : PortOf[config[b]] = PortOf[config[a]]

Listen(a) ==
    /\ process = "running"
    /\ server[a] = "created"
    /\ server' = [server EXCEPT ![a] =
                    IF a \in closed \/ PortTaken(a) THEN "ended" ELSE "serving"]
    /\ UNCHANGED <<process, exitClosed, hadValid, at, change, changes, built, config, mine,
                   closed, stopServer>>

\* <-exitChannel, once serveApp's own call of onChange is over.
Exit ==
    /\ process = "running"
    /\ exitClosed
    /\ at[Main] = "out"
    /\ process' = "exited"
    /\ UNCHANGED <<exitClosed, hadValid, at, change, changes, built, config, mine, server,
                   closed, stopServer>>

ChangeStep(r) == Reject(r) \/ Accept(r) \/ Replace(r)

StarterStep(a) == CreateServer(a) \/ Listen(a)

Next ==
    \/ \E r \in Runners, c \in Contents : MayChange(r) /\ BeginChange(r, c)
    \/ \E r \in Runners : ChangeStep(r)
    \/ \E a \in Apps : StarterStep(a)
    \/ Exit

Spec == Init /\ [][Next]_vars

\* Goroutines run; serveApp makes its own call; nobody has to change the config.
Fairness ==
    /\ WF_vars(\E c \in Contents : MayChange(Main) /\ BeginChange(Main, c))
    /\ \A r \in Runners : WF_vars(ChangeStep(r))
    /\ \A a \in Apps : WF_vars(StarterStep(a))
    /\ WF_vars(Exit)

FairSpec == Spec /\ Fairness

-----------------------------------------------------------------------------
\* No change is being made and no server is about to listen.
Settled == Starting = {} /\ \A r \in Runners : at[r] = "out"

\* Servers and loops that run: created, and not stopped.
Running == {a \in Apps : server[a] \in {"created", "serving", "ended"} /\ a \notin closed}

\* A change takes effect (docs/docs/configuration.md:12): once things have settled,
\* the application built last, and no other, is the one that is served.
TakesEffect == process = "running" /\ Settled /\ built > 0 => Serving = {built}

\* No application is left behind with its loops, its database and maybe its
\* port, out of reach of stopServer (main.go:171-180).
NothingLeaks == process = "running" /\ Settled => Running \subseteq {stopServer}

\* However changes, stops and starts overlap: once a config was accepted, some
\* application is served again and again, unless the program ends.
EventuallyServed ==
    (built > 0) ~> (process # "running" \/ []<>(Serving # {}))

\* ... and when things have settled one is: a stop that comes too early or too
\* late never leaves the port to nobody.
SomebodyServes == process = "running" /\ Settled /\ built > 0 => Serving # {}
=============================================================================
