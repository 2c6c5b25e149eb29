---------------------------- MODULE PageUpdates ----------------------------
(***************************************************************************)
(* One page of an application, its widgets, and everybody who updates or   *)
(* shows them: page loads, API requests, a browser's requests for single   *)
(* widgets, prewarmWidgets, and the sseUpdateLoop, which updates what is   *)
(* due and pushes it to the connected browsers.  All of them hold page.mu  *)
(* while they update and render; only the first look of the SSE loop at a  *)
(* widget's schedule is taken without it.                                  *)
(*                                                                         *)
(* Leaves are the widgets that fetch; a group is due when a member is, and *)
(* its update updates its due members.  What a render shows is told apart  *)
(* by whether it is current: the leaf was not updated since.               *)
(***************************************************************************)
EXTENDS Integers, Sequences, FiniteSets

CONSTANTS
    Leaves,        \* widgets that fetch
    Groups,        \* group and split-column widgets
    Members,       \* the leaves of each group
    Lazy,          \* leaves with lazy-load
    Polled,        \* leaves browsers poll (data-update-interval)
    Browsers,
    Api,           \* a client of the API
    Prewarmers,    \* the goroutine of prewarmWidgets, or none before it runs
    NoOne,
    ThePage,       \* what a request for the whole page asks for
    Period,        \* leaf -> its cache duration or update-interval, in ticks
    RetryCap,      \* the cap of updateRetriedTimes (5 in the code)
    QueueCap,      \* the capacity of a client's channel (16 in the code)
    ApiAsks,       \* environment: what the API is asked for
    Prompt         \* environment: what is updated is read before it is due again

Units == Leaves \cup Groups

Requesters == Browsers \cup Prewarmers \cup {Api}

Covers(u) == IF u \in Groups THEN Members[u] ELSE {u}

ASSUME NamesAssumption ==
    /\ NoOne \notin Requesters \cup Units
    /\ Requesters \cap Units = {} /\ ThePage \notin Units
    /\ Api \notin Browsers /\ Prewarmers \cap (Browsers \cup {Api}) = {}
    /\ ApiAsks \subseteq Units \cup {ThePage}
ASSUME GroupsAssumption == Members \in [Groups -> SUBSET Leaves]
ASSUME SubsetsAssumption == Lazy \subseteq Leaves /\ Polled \subseteq Leaves
ASSUME BoundsAssumption ==
    /\ Period \in [Leaves -> Nat \ {0}]
    /\ RetryCap \in Nat \ {0} /\ QueueCap \in Nat /\ Prompt \in BOOLEAN

VARIABLES
    mu,          \* who holds page.mu
    updating,    \* the leaves its holder is still updating
    left,        \* ticks until nextUpdate; Zero for the zero time
    retries,     \* updateRetriedTimes
    available,   \* lazy leaves with ContentAvailable
    pc,          \* where each request is: "idle", "wait", "update", "reply"
    want,        \* what it asks for
    reply,       \* what of its answer, on its way to the browser, is current
    round,       \* unit -> its worker in the round of sseCheckAndPushUpdates
    pushing,     \* unit -> what of the html its worker rendered is current
    conn,        \* browser -> "away", "loaded", "connected" (registered)
    queue,       \* browser -> the channel of its sseClient
    shown        \* browser -> the leaves of which it shows the current render

vars == <<mu, updating, left, retries, available, pc, want, reply, round, pushing, conn,
          queue, shown>>

Zero == -1

MaxPeriod == CHOOSE p \in {Period[w] : w \in Leaves} : \A w \in Leaves : Period[w] <= p

\* What a client's channel holds: which unit was rendered, and what of it is
\* still current.
Event == [unit : Units, current : SUBSET Leaves]

TypeOK ==
    /\ mu \in Requesters \cup Units \cup {NoOne}
    /\ updating \subseteq Leaves
    /\ left \in [Leaves -> Int] /\ \A w \in Leaves : left[w] \in Zero..Period[w]
    /\ retries \in [Leaves -> 0..RetryCap]
    /\ available \subseteq Lazy
    /\ pc \in [Requesters -> {"idle", "wait", "update", "reply"}]
    /\ want \in [Requesters -> Units \cup {ThePage}]
    /\ reply \in [Browsers -> SUBSET Leaves]
    /\ round \in [Units -> {"none", "unchecked", "waiting", "updating", "rendered"}]
    /\ pushing \in [Units -> SUBSET Leaves]
    /\ conn \in [Browsers -> {"away", "loaded", "connected"}]
    /\ queue \in [Browsers -> Seq(Event)] /\ \A b \in Browsers : Len(queue[b]) <= QueueCap
    /\ shown \in [Browsers -> SUBSET Leaves]
    /\ \A a \in Requesters : pc[a] = "update" <=> mu = a
    /\ \A u \in Units : round[u] \in {"updating", "rendered"} <=> mu = u

Init ==
    /\ mu = NoOne /\ updating = {}
    /\ left = [w \in Leaves |-> Zero]
    /\ retries = [w \in Leaves |-> 0]
    /\ available = {}
    /\ pc = [a \in Requesters |-> IF a \in Prewarmers THEN "wait" ELSE "idle"]
    /\ want = [a \in Requesters |-> ThePage]
    /\ reply = [b \in Browsers |-> {}]
    /\ round = [u \in Units |-> "none"]
    /\ pushing = [u \in Units |-> {}]
    /\ conn = [b \in Browsers |-> "away"]
    /\ queue = [b \in Browsers |-> << >>]
    /\ shown = [b \in Browsers |-> {}]

-----------------------------------------------------------------------------
\* requiresUpdate
Due(w) == left[w] = 0 \/ (left[w] = Zero /\ w \notin Lazy)

DueIn(u) == {w \in Covers(u) : Due(w)}

\* IsLazyLoad
NotLoaded(w) == w \in Lazy /\ w \notin available

\* Ticks until the next regular update.
Usual(w) == Period[w]

\* scheduleEarlyUpdate: the square of the number of tries, but no later than
\* the next regular update.  The mutant forgets the latter.
EarlyUncapped(w, tries) == tries * tries

Early(w, tries) ==
    LET square == tries * tries IN IF square > Usual(w) THEN Usual(w) ELSE square

\* canContinueUpdateAfterHandlingErr: nil, errPartialContent or another error.
Schedule(w, outcome) ==
    LET tries == IF retries[w] = RetryCap THEN RetryCap ELSE retries[w] + 1 IN
    IF outcome = "ok"
    THEN /\ left' = [left EXCEPT ![w] = Usual(w)]
         /\ retries' = [retries EXCEPT ![w] = 0]
    ELSE /\ left' = [left EXCEPT ![w] = Early(w, tries)]
         /\ retries' = [retries EXCEPT ![w] = tries]

\* The last update of a leaf is still on its way to browsers.
Unread(w) ==
    \/ \E u \in Units : mu = u /\ w \in Covers(u) \ updating
    \/ \E b \in Browsers : \E i \in 1..Len(queue[b]) : w \in Covers(queue[b][i].unit)

Tick ==
    /\ Prompt => \A w \in Leaves : left[w] = 1 => ~Unread(w)
    /\ \E w \in Leaves : left[w] > 0
    /\ left' = [w \in Leaves |-> IF left[w] > 0 THEN left[w] - 1 ELSE left[w]]
    /\ UNCHANGED <<mu, updating, retries, available, pc, want, reply, round, pushing, conn,
                   queue, shown>>

-----------------------------------------------------------------------------
\* A request: a browser opens the page, polls or first loads a widget, or the
\* API is asked.  (A browser that goes away does not stop the handler of a
\* request it made; here it goes away between requests.)
Ask(a, target) ==
    /\ pc[a] = "idle"
    /\ pc' = [pc EXCEPT ![a] = "wait"]
    /\ want' = [want EXCEPT ![a] = target]
    /\ UNCHANGED <<mu, updating, left, retries, available, reply, round, pushing, conn, queue,
                   shown>>

OpenPage(b) == conn[b] = "away" /\ Ask(b, ThePage)

\* startPolling, when some widget has an update-interval.
PollPage(b) == conn[b] = "connected" /\ Polled # {} /\ Ask(b, ThePage)

FetchWidget(b, w) ==
    /\ conn[b] = "connected"
    /\ w \in Polled \/ NotLoaded(w)
    /\ Ask(b, w)

AskApi(target) == target \in ApiAsks /\ Ask(Api, target)

\* What a request updates once it holds page.mu: updateOutdatedWidgets, the
\* test of handleAPIWidget, and handleWidgetContentRequest, which does not ask.
ToUpdate(a) ==
    IF want[a] = ThePage THEN {w \in Leaves : Due(w)}
    ELSE IF a = Api
         THEN IF want[a] \in Groups THEN DueIn(want[a])
              ELSE {w \in {want[a]} : Due(w) \/ NotLoaded(w)}
         ELSE Covers(want[a])

Lock(a) ==
    /\ pc[a] = "wait"
    /\ mu = NoOne
    /\ mu' = a
    /\ pc' = [pc EXCEPT ![a] = "update"]
    /\ updating' = ToUpdate(a)
    /\ UNCHANGED <<left, retries, available, want, reply, round, pushing, conn, queue, shown>>

\* A leaf's update returns: its next render differs from all there are.
Update(w) ==
    /\ w \in updating
    /\ updating' = updating \ {w}
    /\ \E outcome \in {"ok", "partial", "error"} :
        /\ Schedule(w, outcome)
        /\ available' = IF outcome = "error" THEN available ELSE available \cup ({w} \cap Lazy)
    /\ shown' = [b \in Browsers |-> shown[b] \ {w}]
    /\ reply' = [b \in Browsers |-> reply[b] \ {w}]
    /\ pushing' = [u \in Units |-> pushing[u] \ {w}]
    /\ queue' = [b \in Browsers |->
                    [i \in 1..Len(queue[b]) |->
                        [queue[b][i] EXCEPT !.current = @ \ {w}]]]
    /\ UNCHANGED <<mu, pc, want, round, conn>>

\* The answer is rendered, and page.mu released.
Answer(a) ==
    /\ mu = a /\ pc[a] = "update"
    /\ updating = {}
    /\ mu' = NoOne
    /\ IF a \in Browsers
       THEN /\ reply' = [reply EXCEPT ![a] =
                            IF want[a] = ThePage THEN Leaves ELSE Covers(want[a])]
            /\ pc' = [pc EXCEPT ![a] = "reply"]
            /\ UNCHANGED want
       ELSE /\ pc' = [pc EXCEPT ![a] = "idle"]
            /\ want' = [want EXCEPT ![a] = ThePage]
            /\ UNCHANGED reply
    /\ UNCHANGED <<updating, left, retries, available, round, pushing, conn, queue, shown>>

\* What of the page an answer is put in place of: all of it when it is opened
\* (setupPage), the widgets that have an update-interval when it is polled
\* (applyContentUpdate), or the widget that was asked for (updateWidget).
Replaces(b) ==
    IF want[b] # ThePage THEN Covers(want[b]) ELSE IF conn[b] = "away" THEN Leaves ELSE Polled

Apply(b) ==
    /\ pc[b] = "reply"
    /\ shown' = [shown EXCEPT ![b] = (@ \ Replaces(b)) \cup (reply[b] \cap Replaces(b))]
    /\ conn' = [conn EXCEPT ![b] = IF @ = "away" THEN "loaded" ELSE @]
    /\ pc' = [pc EXCEPT ![b] = "idle"]
    /\ reply' = [reply EXCEPT ![b] = {}]
    /\ want' = [want EXCEPT ![b] = ThePage]
    /\ UNCHANGED <<mu, updating, left, retries, available, round, pushing, queue>>

\* handleSSEUpdates: sseRegisterClient.
Connect(b) ==
    /\ conn[b] = "loaded"
    /\ conn' = [conn EXCEPT ![b] = "connected"]
    /\ UNCHANGED <<mu, updating, left, retries, available, pc, want, reply, round, pushing,
                   queue, shown>>

\* sseUnregisterClient: the browser has closed the connection.
Disconnect(b) ==
    /\ conn[b] = "connected" /\ pc[b] = "idle"
    /\ conn' = [conn EXCEPT ![b] = "away"]
    /\ queue' = [queue EXCEPT ![b] = << >>]
    /\ shown' = [shown EXCEPT ![b] = {}]
    /\ UNCHANGED <<mu, updating, left, retries, available, pc, want, reply, round, pushing>>

\* An event reaches the browser: _applyWidgetUpdate.
Receive(b) ==
    /\ queue[b] # << >>
    /\ LET event == Head(queue[b]) IN
        shown' = [shown EXCEPT ![b] = (@ \ Covers(event.unit)) \cup event.current]
    /\ queue' = [queue EXCEPT ![b] = Tail(@)]
    /\ UNCHANGED <<mu, updating, left, retries, available, pc, want, reply, round, pushing,
                   conn>>

-----------------------------------------------------------------------------
\* sseUpdateLoop and sseCheckAndPushUpdates: with a client, and after the round
\* before, look at every widget.
StartRound ==
    /\ \A u \in Units : round[u] = "none"
    /\ \E b \in Browsers : conn[b] = "connected"
    /\ round' = [u \in Units |-> "unchecked"]
    /\ UNCHANGED <<mu, updating, left, retries, available, pc, want, reply, pushing, conn,
                   queue, shown>>

\* A look at the schedule without page.mu: while a leaf is being updated its
\* nextUpdate may be seen half written.
MayLookDue(u) == DueIn(u) # {} \/ Covers(u) \cap updating # {}

MayLookNotDue(u) == DueIn(u) = {} \/ Covers(u) \cap updating # {}

Check(u) ==
    /\ round[u] = "unchecked"
    /\ \/ MayLookDue(u) /\ round' = [round EXCEPT ![u] = "waiting"]
       \/ MayLookNotDue(u) /\ round' = [round EXCEPT ![u] = "none"]
    /\ UNCHANGED <<mu, updating, left, retries, available, pc, want, reply, pushing, conn,
                   queue, shown>>

\* The goroutine has got page.mu and looks again.  The mutant trusts its first
\* look.
RecheckTrusted(u) == Covers(u)

Recheck(u) == DueIn(u)

StartWorker(u) ==
    /\ round[u] = "waiting"
    /\ mu = NoOne
    /\ Recheck(u) # {}
    /\ mu' = u
    /\ updating' = Recheck(u)
    /\ round' = [round EXCEPT ![u] = "updating"]
    /\ UNCHANGED <<left, retries, available, pc, want, reply, pushing, conn, queue, shown>>

\* Not due any more: return, with the deferred Unlock.  The mutant forgets it.
LeaveLocked(u) == mu' = u

GiveBack(u) == mu' = NoOne

SkipWorker(u) ==
    /\ round[u] = "waiting"
    /\ mu = NoOne
    /\ Recheck(u) = {}
    /\ GiveBack(u)
    /\ round' = [round EXCEPT ![u] = "none"]
    /\ UNCHANGED <<updating, left, retries, available, pc, want, reply, pushing, conn, queue,
                   shown>>

\* w.Render() under page.mu, which is held until after the broadcast.  The
\* mutant releases it before.
UnlockEarly == mu' = NoOne

KeepLock == mu' = mu

Render(u) ==
    /\ round[u] = "updating"
    /\ updating = {}
    /\ round' = [round EXCEPT ![u] = "rendered"]
    /\ pushing' = [pushing EXCEPT ![u] = Covers(u)]
    /\ KeepLock
    /\ UNCHANGED <<updating, left, retries, available, pc, want, reply, conn, queue, shown>>

\* What a client's channel holds after the send: a full one drops the event.
\* The mutant drops the oldest to make room, out of order.
PushedFirst(q, event) == IF Len(q) < QueueCap THEN <<event>> \o q ELSE q

Pushed(q, event) == IF Len(q) < QueueCap THEN Append(q, event) ELSE q

\* sseBroadcastWidgetUpdate, to every client there is (all of them may see the
\* page), and the deferred Unlock.
Broadcast(u) ==
    /\ round[u] = "rendered"
    /\ queue' = [b \in Browsers |->
                    IF conn[b] = "connected"
                    THEN Pushed(queue[b], [unit |-> u, current |-> pushing[u]])
                    ELSE queue[b]]
    /\ pushing' = [pushing EXCEPT ![u] = {}]
    /\ mu' = IF mu = u THEN NoOne ELSE mu
    /\ round' = [round EXCEPT ![u] = "none"]
    /\ UNCHANGED <<updating, left, retries, available, pc, want, reply, conn, shown>>

WorkerRuns(u) == Render(u) \/ Broadcast(u)

Next ==
    \/ Tick
    \/ \E b \in Browsers :
        \/ OpenPage(b) \/ PollPage(b) \/ Apply(b) \/ Connect(b) \/ Disconnect(b) \/ Receive(b)
        \/ \E w \in Leaves : FetchWidget(b, w)
    \/ \E target \in ApiAsks : AskApi(target)
    \/ \E a \in Requesters : Lock(a) \/ Answer(a)
    \/ \E w \in Leaves : Update(w)
    \/ StartRound
    \/ \E u \in Units : Check(u) \/ StartWorker(u) \/ SkipWorker(u) \/ WorkerRuns(u)

Spec == Init /\ [][Next]_vars

\* Time passes, updates end (their requests time out), goroutines run, the
\* loop's ticker ticks, and page.mu, a sync.Mutex, is handed over to everybody
\* who waits for it (its starvation mode): hence strong fairness of whatever
\* takes it.  Browsers apply what they get; nobody has to ask for anything.
Fairness ==
    /\ WF_vars(Tick)
    /\ \A w \in Leaves : WF_vars(Update(w))
    /\ \A a \in Requesters : SF_vars(Lock(a)) /\ WF_vars(Answer(a))
    /\ \A b \in Browsers : WF_vars(Apply(b)) /\ WF_vars(Connect(b)) /\ WF_vars(Receive(b))
    /\ WF_vars(StartRound)
    /\ \A u \in Units :
        /\ WF_vars(Check(u)) /\ WF_vars(WorkerRuns(u))
        /\ SF_vars(StartWorker(u) \/ SkipWorker(u))

FairSpec == Spec /\ Fairness

-----------------------------------------------------------------------------
\* Page loads, the API, prewarming and pushes never update a leaf before it is
\* due, however they overlap (sse.go:411-414, api.go:331-335): whoever comes
\* second finds it done.  Only a browser's request for a widget may.
NeverBeforeDue ==
    [][\A w \in updating' \ updating :
        \/ Due(w)
        \/ mu' \in Browsers /\ want[mu'] # ThePage
        \/ mu' = Api /\ NotLoaded(w)]_vars

\* "Requesting a widget refreshes it only when its cache has expired ...
\* Calling the API repeatedly never causes extra requests" (docs/docs/api.md:241):
\* the API updates a leaf that was tried before only when it is due.
ApiNeverExtra ==
    [][\A w \in updating' \ updating : mu' = Api => left[w] \in {Zero, 0}]_vars

\* Events about the same leaf are in the order of its updates: a browser that
\* reads them all ends with the newest (html is rendered and sent under mu).
InOrder ==
    \A b \in Browsers : \A i, j \in 1..Len(queue[b]) :
        i < j => queue[b][i].current \cap Covers(queue[b][j].unit) \subseteq queue[b][j].current

\* A round always ends: while one hangs no widget of any page is updated.
RoundsEnd == \A u \in Units : round[u] # "none" ~> round[u] = "none"

\* page.mu is given back to everybody: no request hangs.
Answered == \A a \in Requesters : pc[a] # "idle" ~> pc[a] = "idle"

\* A connected browser catches up with every leaf, whatever it missed: before
\* it was registered, or with a full channel. (With Prompt, and nobody else who
\* loads the page: a load updates what is due and pushes no event.)
KeepsUp ==
    \A b \in Browsers, w \in Leaves :
        conn[b] = "connected" ~> (conn[b] # "connected" \/ w \in shown[b])
=============================================================================
