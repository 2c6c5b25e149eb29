------------------------- MODULE PageUpdatesProofs --------------------------
(***************************************************************************)
(* page.mu keeps events in the order of updates, and updates from coming   *)
(* too early, for any page, browsers, periods and channel capacity.        *)
(***************************************************************************)
EXTENDS PageUpdates, TLAPS

\* What a worker has rendered and not yet sent is all current: it still holds
\* page.mu, so nobody has updated since.
RenderedIsWhole ==
    \A u \in Units : round[u] = "rendered" => updating = {} /\ pushing[u] = Covers(u)

\* prewarmWidgets asks for whole pages.
PrewarmsPages == \A a \in Prewarmers : want[a] = ThePage

IInv == TypeOK /\ RenderedIsWhole /\ PrewarmsPages /\ InOrder

-----------------------------------------------------------------------------
LEMMA CoversLeaves == \A u \in Units : Covers(u) \subseteq Leaves
  BY GroupsAssumption DEF Units, Covers

LEMMA InitIInv == Init => IInv
  BY NamesAssumption, BoundsAssumption
     DEF Init, IInv, TypeOK, Event, Zero, RenderedIsWhole, PrewarmsPages, InOrder, Requesters, Units

\* A step that leaves the channels as they are leaves the events in their order.
LEMMA TickKeeps == ASSUME IInv, Tick PROVE IInv'
  <1>1. /\ left' \in [Leaves -> Int]
        /\ \A w \in Leaves : left'[w] \in Zero..Period[w]
    BY BoundsAssumption DEF IInv, TypeOK, Tick, Zero
  <1>2. TypeOK'
    BY <1>1 DEF IInv, TypeOK, Tick
  <1> QED  BY <1>2 DEF IInv, Tick, RenderedIsWhole, PrewarmsPages, InOrder

LEMMA AskKeeps ==
    ASSUME IInv, NEW a \in Browsers \cup {Api}, NEW t \in Units \cup {ThePage}, Ask(a, t)
    PROVE  IInv'
  <1>1. TypeOK'
    BY DEF IInv, TypeOK, Ask, Requesters
  <1>2. PrewarmsPages'
    BY NamesAssumption DEF IInv, TypeOK, PrewarmsPages, Ask, Requesters
  <1> QED  BY <1>1, <1>2 DEF IInv, Ask, RenderedIsWhole, InOrder

LEMMA ToUpdateLeaves ==
    ASSUME IInv, NEW a \in Requesters PROVE ToUpdate(a) \subseteq Leaves
  BY CoversLeaves DEF IInv, TypeOK, ToUpdate, DueIn, Units

LEMMA LockKeeps == ASSUME IInv, NEW a \in Requesters, Lock(a) PROVE IInv'
  <1>1. TypeOK'
    BY ToUpdateLeaves, NamesAssumption DEF IInv, TypeOK, Lock
  <1>2. RenderedIsWhole'
    BY NamesAssumption DEF IInv, TypeOK, RenderedIsWhole, Lock
  <1> QED  BY <1>1, <1>2 DEF IInv, Lock, PrewarmsPages, InOrder

\* The schedule stays within bounds: an early update is no later than the usual.
LEMMA ScheduleKeeps ==
    ASSUME IInv, NEW w \in Leaves, NEW outcome \in {"ok", "partial", "error"}, Schedule(w, outcome)
    PROVE  /\ left' \in [Leaves -> Int] /\ \A v \in Leaves : left'[v] \in Zero..Period[v]
           /\ retries' \in [Leaves -> 0..RetryCap]
  <1> DEFINE tries == IF retries[w] = RetryCap THEN RetryCap ELSE retries[w] + 1
  <1>1. tries \in 0..RetryCap /\ tries \in Nat
    BY BoundsAssumption DEF IInv, TypeOK
  <1>2. tries * tries \in Nat
    BY <1>1
  <1> HIDE DEF tries
  <1>3. Period[w] \in Nat /\ Usual(w) \in Zero..Period[w] /\ Early(w, tries) \in Zero..Period[w]
    BY <1>2, BoundsAssumption DEF Usual, Early, Zero
  <1>4. \/ /\ left' = [left EXCEPT ![w] = Usual(w)] /\ retries' = [retries EXCEPT ![w] = 0]
        \/ /\ left' = [left EXCEPT ![w] = Early(w, tries)] /\ retries' = [retries EXCEPT ![w] = tries]
    BY DEF Schedule, tries
  <1>5. /\ left' \in [Leaves -> Int] /\ \A v \in Leaves : left'[v] \in Zero..Period[v]
    BY <1>3, <1>4 DEF IInv, TypeOK, Zero
  <1>6. retries' \in [Leaves -> 0..RetryCap]
    <2>1. 0 \in 0..RetryCap /\ retries \in [Leaves -> 0..RetryCap]
      BY BoundsAssumption DEF IInv, TypeOK
    <2> QED  BY <1>1, <1>4, <2>1
  <1> QED  BY <1>5, <1>6

LEMMA UpdateKeeps == ASSUME IInv, NEW w \in Leaves, Update(w) PROVE IInv'
  <1>1. /\ left' \in [Leaves -> Int] /\ \A v \in Leaves : left'[v] \in Zero..Period[v]
        /\ retries' \in [Leaves -> 0..RetryCap]
    BY ScheduleKeeps DEF Update
  <1>2. ASSUME NEW b \in Browsers
        PROVE  /\ queue'[b] \in Seq(Event) /\ Len(queue'[b]) = Len(queue[b])
               /\ \A i \in 1..Len(queue[b]) :
                     /\ queue'[b][i].unit = queue[b][i].unit
                     /\ queue'[b][i].current = queue[b][i].current \ {w}
    <2> DEFINE q == queue[b]
    <2>1. q \in Seq(Event) /\ \A i \in 1..Len(q) : q[i] \in Event
      BY DEF IInv, TypeOK
    <2>2. queue'[b] = [i \in 1..Len(q) |-> [q[i] EXCEPT !.current = @ \ {w}]]
      BY DEF Update
    <2>3. \A i \in 1..Len(q) : /\ [q[i] EXCEPT !.current = @ \ {w}] \in Event
                               /\ [q[i] EXCEPT !.current = @ \ {w}].unit = q[i].unit
                               /\ [q[i] EXCEPT !.current = @ \ {w}].current = q[i].current \ {w}
      BY <2>1 DEF Event
    <2>4. Len(q) \in Nat
      BY <2>1
    <2>5. queue'[b] \in Seq(Event) /\ Len(queue'[b]) = Len(q)
      BY <2>2, <2>3, <2>4
    <2> QED  BY <2>2, <2>3, <2>5
  <1>3. queue' \in [Browsers -> Seq(Event)] /\ \A b \in Browsers : Len(queue'[b]) <= QueueCap
    <2>1. queue' = [b \in Browsers |-> queue'[b]]
      BY DEF Update
    <2> QED  BY <1>2, <2>1 DEF IInv, TypeOK
  <1>4. available' \subseteq Lazy
    BY DEF IInv, TypeOK, Update
  <1>5. TypeOK'
    BY <1>1, <1>3, <1>4 DEF IInv, TypeOK, Update
  <1>6. RenderedIsWhole' /\ PrewarmsPages'
    BY DEF IInv, RenderedIsWhole, PrewarmsPages, Update
  <1>7. InOrder'
    BY <1>2 DEF IInv, InOrder
  <1> QED  BY <1>5, <1>6, <1>7 DEF IInv

LEMMA AnswerKeeps == ASSUME IInv, NEW a \in Requesters, Answer(a) PROVE IInv'
  <1>1. /\ mu' = NoOne /\ \A u \in Units : round[u] \notin {"updating", "rendered"}
        /\ \A u \in Units : mu' # u
    BY NamesAssumption DEF IInv, TypeOK, Answer
  <1>2. /\ pc' \in [Requesters -> {"idle", "wait", "update", "reply"}]
        /\ \A b \in Requesters : pc'[b] # "update" /\ mu' # b
    <2>1. \E p \in {"reply", "idle"} : pc' = [pc EXCEPT ![a] = p]
      BY DEF Answer
    <2>2. mu = a /\ mu' = NoOne /\ \A b \in Requesters : pc[b] = "update" <=> mu = b
      BY DEF IInv, TypeOK, Answer
    <2>3. pc \in [Requesters -> {"idle", "wait", "update", "reply"}]
      BY DEF IInv, TypeOK
    <2> QED  BY <2>1, <2>2, <2>3, NamesAssumption
  <1>3. /\ want' \in [Requesters -> Units \cup {ThePage}]
        /\ \A b \in Requesters : want'[b] \in {want[b], ThePage}
    BY DEF IInv, TypeOK, Answer
  <1>4. reply' \in [Browsers -> SUBSET Leaves]
    <2>1. want[a] # ThePage => Covers(want[a]) \subseteq Leaves
      BY CoversLeaves DEF IInv, TypeOK
    <2>2. CASE a \in Browsers
      BY <2>1, <2>2 DEF IInv, TypeOK, Answer
    <2>3. CASE a \notin Browsers
      BY <2>3 DEF IInv, TypeOK, Answer
    <2> QED  BY <2>2, <2>3
  <1>5. UNCHANGED <<updating, left, retries, available, round, pushing, conn, queue, shown>>
    BY DEF Answer
  <1>6. TypeOK'
    BY <1>1, <1>2, <1>3, <1>4, <1>5 DEF IInv, TypeOK
  <1>7. RenderedIsWhole' /\ PrewarmsPages'
    BY <1>3, <1>5 DEF IInv, RenderedIsWhole, PrewarmsPages, Requesters
  <1> QED  BY <1>5, <1>6, <1>7 DEF IInv, InOrder

LEMMA ApplyKeeps == ASSUME IInv, NEW b \in Browsers, Apply(b) PROVE IInv'
  <1>1. TypeOK'
    BY DEF IInv, TypeOK, Apply, Requesters
  <1>2. PrewarmsPages'
    BY DEF IInv, TypeOK, PrewarmsPages, Apply
  <1> QED  BY <1>1, <1>2 DEF IInv, RenderedIsWhole, Apply, InOrder

LEMMA ConnectKeeps == ASSUME IInv, NEW b \in Browsers, Connect(b) PROVE IInv'
  BY DEF IInv, TypeOK, RenderedIsWhole, PrewarmsPages, InOrder, Connect

LEMMA DisconnectKeeps == ASSUME IInv, NEW b \in Browsers, Disconnect(b) PROVE IInv'
  <1>1. TypeOK'
    BY BoundsAssumption DEF IInv, TypeOK, Disconnect
  <1>2. InOrder'
    BY DEF IInv, TypeOK, InOrder, Disconnect
  <1> QED  BY <1>1, <1>2 DEF IInv, RenderedIsWhole, PrewarmsPages, Disconnect

LEMMA ReceiveKeeps == ASSUME IInv, NEW b \in Browsers, Receive(b) PROVE IInv'
  <1> DEFINE q == queue[b]
  <1>1. q \in Seq(Event) /\ q # << >> /\ Head(q) \in Event
        /\ Tail(q) \in Seq(Event) /\ Len(Tail(q)) = Len(q) - 1 /\ Len(q) \in Nat
        /\ \A i \in 1..Len(Tail(q)) : Tail(q)[i] = q[i + 1]
    BY DEF IInv, TypeOK, Receive
  <1>2. /\ queue'[b] = Tail(q) /\ \A a \in Browsers \ {b} : queue'[a] = queue[a]
        /\ queue' \in [Browsers -> Seq(Event)]
    BY <1>1 DEF IInv, TypeOK, Receive
  <1>3. shown' \in [Browsers -> SUBSET Leaves]
    BY <1>1 DEF IInv, TypeOK, Receive, Event
  <1>4. \A a \in Browsers : Len(queue'[a]) <= QueueCap
    <2>1. \A a \in Browsers : Len(queue[a]) <= QueueCap
      BY DEF IInv, TypeOK
    <2> QED  BY <1>1, <1>2, <2>1, BoundsAssumption
  <1>5. TypeOK'
    BY <1>2, <1>3, <1>4 DEF IInv, TypeOK, Receive
  <1>6. InOrder'
    <2> SUFFICES ASSUME NEW a \in Browsers, NEW i \in 1..Len(queue'[a]), NEW j \in 1..Len(queue'[a]),
                        i < j
                 PROVE  queue'[a][i].current \cap Covers(queue'[a][j].unit) \subseteq queue'[a][j].current
      BY DEF InOrder
    <2>1. CASE a = b
      <3>1. i + 1 \in 1..Len(q) /\ j + 1 \in 1..Len(q) /\ i + 1 < j + 1
        BY <1>1, <1>2, <2>1
      <3>2. queue'[a][i] = q[i + 1] /\ queue'[a][j] = q[j + 1]
        BY <1>1, <1>2, <2>1
      <3> QED  BY <2>1, <3>1, <3>2 DEF IInv, InOrder
    <2>2. CASE a # b
      BY <1>2, <2>2 DEF IInv, InOrder
    <2> QED  BY <2>1, <2>2
  <1> QED  BY <1>5, <1>6 DEF IInv, RenderedIsWhole, PrewarmsPages, Receive

LEMMA StartRoundKeeps == ASSUME IInv, StartRound PROVE IInv'
  BY DEF IInv, TypeOK, RenderedIsWhole, PrewarmsPages, InOrder, StartRound

LEMMA CheckKeeps == ASSUME IInv, NEW u \in Units, Check(u) PROVE IInv'
  BY DEF IInv, TypeOK, RenderedIsWhole, PrewarmsPages, InOrder, Check

LEMMA StartWorkerKeeps == ASSUME IInv, NEW u \in Units, StartWorker(u) PROVE IInv'
  <1>1. TypeOK'
    BY NamesAssumption, CoversLeaves DEF IInv, TypeOK, StartWorker, Recheck, DueIn
  <1>2. RenderedIsWhole'
    BY NamesAssumption DEF IInv, TypeOK, RenderedIsWhole, StartWorker
  <1> QED  BY <1>1, <1>2 DEF IInv, PrewarmsPages, InOrder, StartWorker

LEMMA SkipWorkerKeeps == ASSUME IInv, NEW u \in Units, SkipWorker(u) PROVE IInv'
  BY DEF IInv, TypeOK, RenderedIsWhole, PrewarmsPages, InOrder, SkipWorker, GiveBack

LEMMA RenderKeeps == ASSUME IInv, NEW u \in Units, Render(u) PROVE IInv'
  <1>1. TypeOK'
    BY CoversLeaves DEF IInv, TypeOK, Render, KeepLock
  <1>2. RenderedIsWhole'
    BY DEF IInv, TypeOK, RenderedIsWhole, Render
  <1> QED  BY <1>1, <1>2 DEF IInv, PrewarmsPages, InOrder, Render

\* The event that is appended shows everything of its unit, so it is at least as
\* new as all before it.
LEMMA BroadcastKeeps == ASSUME IInv, NEW u \in Units, Broadcast(u) PROVE IInv'
  <1> DEFINE e == [unit |-> u, current |-> pushing[u]]
  <1>1. e \in Event /\ e.unit = u /\ e.current = Covers(u) /\ mu = u
    BY CoversLeaves DEF IInv, TypeOK, RenderedIsWhole, Broadcast, Event
  <1> HIDE DEF e
  <1>2. ASSUME NEW b \in Browsers
        PROVE  /\ queue[b] \in Seq(Event) /\ Len(queue[b]) \in Nat
               /\ \/ queue'[b] = queue[b]
                  \/ queue'[b] = Append(queue[b], e) /\ Len(queue[b]) < QueueCap
    <2>1. queue[b] \in Seq(Event)
      BY DEF IInv, TypeOK
    <2>2. queue'[b] = IF conn[b] = "connected" THEN Pushed(queue[b], e) ELSE queue[b]
      BY DEF Broadcast, e
    <2> QED  BY <2>1, <2>2 DEF Pushed
  <1>3. queue' \in [Browsers -> Seq(Event)] /\ \A b \in Browsers : Len(queue'[b]) <= QueueCap
    <2>1. queue' = [b \in Browsers |-> queue'[b]]
      BY DEF Broadcast
    <2>2. ASSUME NEW b \in Browsers PROVE queue'[b] \in Seq(Event) /\ Len(queue'[b]) <= QueueCap
      <3>1. Len(queue[b]) <= QueueCap
        BY DEF IInv, TypeOK
      <3>2. CASE queue'[b] = queue[b]
        BY <1>2, <3>1, <3>2
      <3>3. CASE queue'[b] = Append(queue[b], e) /\ Len(queue[b]) < QueueCap
        BY <1>1, <1>2, <3>3, BoundsAssumption
      <3> QED  BY <1>2, <3>2, <3>3
    <2> QED  BY <2>1, <2>2
  <1>4. TypeOK'
    BY <1>1, <1>3, NamesAssumption DEF IInv, TypeOK, Broadcast
  <1>5. RenderedIsWhole'
    BY <1>1, NamesAssumption DEF IInv, TypeOK, RenderedIsWhole, Broadcast
  <1>6. InOrder'
    <2> SUFFICES ASSUME NEW b \in Browsers, NEW i \in 1..Len(queue'[b]), NEW j \in 1..Len(queue'[b]),
                        i < j
                 PROVE  queue'[b][i].current \cap Covers(queue'[b][j].unit) \subseteq queue'[b][j].current
      BY DEF InOrder
    <2>1. CASE queue'[b] = queue[b]
      BY <2>1 DEF IInv, InOrder
    <2>2. CASE queue'[b] = Append(queue[b], e)
      <3>1. /\ Len(queue'[b]) = Len(queue[b]) + 1 /\ queue'[b][Len(queue[b]) + 1] = e
            /\ \A k \in 1..Len(queue[b]) : queue'[b][k] = queue[b][k]
        BY <1>1, <1>2, <2>2
      <3>2. CASE j \in 1..Len(queue[b])
        BY <3>1, <3>2, <1>2 DEF IInv, InOrder
      <3>3. CASE j = Len(queue[b]) + 1
        BY <3>1, <3>3, <1>1
      <3> QED  BY <3>1, <3>2, <3>3, <1>2
    <2> QED  BY <1>2, <2>1, <2>2
  <1> QED  BY <1>4, <1>5, <1>6 DEF IInv, PrewarmsPages, Broadcast

LEMMA StutterKeeps == ASSUME IInv, UNCHANGED vars PROVE IInv'
  BY DEF IInv, TypeOK, RenderedIsWhole, PrewarmsPages, InOrder, vars

LEMMA StepKeeps == IInv /\ [Next]_vars => IInv'
  <1> SUFFICES ASSUME IInv, [Next]_vars PROVE IInv'
    OBVIOUS
  <1>1. CASE Tick
    BY <1>1, TickKeeps
  <1>2. ASSUME NEW b \in Browsers, OpenPage(b) \/ PollPage(b) \/ \E w \in Leaves : FetchWidget(b, w)
        PROVE  IInv'
    BY <1>2, AskKeeps DEF OpenPage, PollPage, FetchWidget, Units
  <1>3. ASSUME NEW b \in Browsers, Apply(b) \/ Connect(b) \/ Disconnect(b) \/ Receive(b)
        PROVE  IInv'
    BY <1>3, ApplyKeeps, ConnectKeeps, DisconnectKeeps, ReceiveKeeps
  <1>4. ASSUME NEW t \in ApiAsks, AskApi(t) PROVE IInv'
    BY <1>4, AskKeeps, NamesAssumption DEF AskApi
  <1>5. ASSUME NEW a \in Requesters, Lock(a) \/ Answer(a) PROVE IInv'
    BY <1>5, LockKeeps, AnswerKeeps
  <1>6. ASSUME NEW w \in Leaves, Update(w) PROVE IInv'
    BY <1>6, UpdateKeeps
  <1>7. CASE StartRound
    BY <1>7, StartRoundKeeps
  <1>8. ASSUME NEW u \in Units, Check(u) \/ StartWorker(u) \/ SkipWorker(u) \/ WorkerRuns(u)
        PROVE  IInv'
    BY <1>8, CheckKeeps, StartWorkerKeeps, SkipWorkerKeeps, RenderKeeps, BroadcastKeeps
       DEF WorkerRuns
  <1>9. CASE UNCHANGED vars
    BY <1>9, StutterKeeps
  <1> QED  BY <1>1, <1>2, <1>3, <1>4, <1>5, <1>6, <1>7, <1>8, <1>9 DEF Next

LEMMA Invariance == Spec => []IInv
  BY InitIInv, StepKeeps, PTL DEF Spec

-----------------------------------------------------------------------------
\* The variables keep their types: page.mu has one holder, whoever updates is
\* it, and a retry is never later than the next regular update
\* (widget.go:405-456).
THEOREM TypeCorrect == Spec => []TypeOK
  BY Invariance, PTL DEF IInv

\* Whatever requests, pushes and slow browsers do, no event of a leaf reaches a
\* browser's channel after a newer one (sse.go:396-440).
THEOREM InOrderHolds == Spec => []InOrder
  BY Invariance, PTL DEF IInv

\* Nobody updates a leaf before it is due but a browser that asks for this one
\* widget, and the API for one that never loaded (sse.go:411-414, api.go:331-335).
THEOREM NeverBeforeDueHolds == Spec => NeverBeforeDue
  <1> DEFINE Good(w) == \/ Due(w)
                        \/ mu' \in Browsers /\ want[mu'] # ThePage
                        \/ mu' = Api /\ NotLoaded(w)
  <1>1. ASSUME IInv, [Next]_vars PROVE [\A w \in updating' \ updating : Good(w)]_vars
    <2> SUFFICES ASSUME Next, NEW w \in updating' \ updating PROVE Good(w)
      BY <1>1
    <2>1. ASSUME NEW a \in Requesters, Lock(a) PROVE Good(w)
      <3>1. mu' = a /\ w \in ToUpdate(a)
        BY <2>1 DEF Lock
      <3>2. a \in Prewarmers => want[a] = ThePage
        BY <1>1 DEF IInv, PrewarmsPages
      <3>3. a \in Browsers \/ a \in Prewarmers \/ a = Api
        BY DEF Requesters
      <3> QED  BY <3>1, <3>2, <3>3 DEF ToUpdate, DueIn
    <2>2. ASSUME NEW u \in Units, StartWorker(u) PROVE Good(w)
      BY <2>2 DEF StartWorker, Recheck, DueIn
    <2>3. ASSUME NEW v \in Leaves, Update(v) PROVE Good(w)
      BY <2>3 DEF Update
    <2>4. ASSUME NEW u \in Units, Check(u) \/ SkipWorker(u) \/ WorkerRuns(u) PROVE Good(w)
      BY <2>4 DEF Check, SkipWorker, WorkerRuns, Render, Broadcast
    <2>5. ASSUME NEW b \in Browsers,
                 \/ OpenPage(b) \/ PollPage(b) \/ Apply(b) \/ Connect(b) \/ Disconnect(b) \/ Receive(b)
                 \/ \E v \in Leaves : FetchWidget(b, v)
          PROVE  Good(w)
      BY <2>5 DEF OpenPage, PollPage, FetchWidget, Ask, Apply, Connect, Disconnect, Receive
    <2>6. CASE Tick \/ StartRound \/ \E t \in ApiAsks : AskApi(t)
      BY <2>6 DEF Tick, StartRound, AskApi, Ask
    <2>7. ASSUME NEW a \in Requesters, Answer(a) PROVE Good(w)
      BY <2>7 DEF Answer
    <2> QED  BY <2>1, <2>2, <2>3, <2>4, <2>5, <2>6, <2>7 DEF Next
  <1> QED  BY <1>1, Invariance, PTL DEF Spec, NeverBeforeDue
=============================================================================
