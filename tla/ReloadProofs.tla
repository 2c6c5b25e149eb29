---------------------------- MODULE ReloadProofs ----------------------------
(***************************************************************************)
(* What ConfigReload promises, for any number of files, texts, callbacks,  *)
(* applications and edits.                                                 *)
(***************************************************************************)
EXTENDS ConfigReload, TLAPS

\* The proof that somebody serves. Applications are handed from the runner that
\* built them to the goroutine that starts them; one that was stopped does not
\* listen; and whoever stops one has another to start.
Stages == {"none", "spawned", "created", "serving", "ended"}

Runners == {Main} \cup Callbacks

Apps == 1..MaxApps

ServersTyped ==
    /\ built \in 0..MaxApps /\ stopServer \in 0..MaxApps /\ closed \subseteq Apps
    /\ server \in [Apps -> Stages]
    /\ at \in [Runners -> {"out", "build", "replace"}]
    /\ mine \in [Runners -> 0..MaxApps]

\* Every application built is with its runner, or was handed over.
Handed ==
    /\ \A a \in Apps : server[a] # "none" => a <= built
    /\ \A r \in Runners : at[r] = "replace" =>
          mine[r] \in Apps /\ mine[r] <= built /\ server[mine[r]] = "none"
    /\ \A q, r \in Runners : at[q] = "replace" /\ at[r] = "replace" /\ mine[q] = mine[r] => q = r
    /\ \A a \in Apps : a <= built /\ server[a] = "none" =>
          \E r \in Runners : at[r] = "replace" /\ mine[r] = a

StoppedAreDown ==
    /\ stopServer # 0 => server[stopServer] # "none"
    /\ \A a \in closed : server[a] \notin {"none", "serving"}

Live(a) == server[a] \in {"spawned", "created", "serving"} /\ a \notin closed

SomeLive == (\E a \in Apps : server[a] # "none") => \E a \in Apps : Live(a)

IInv == ServersTyped /\ Handed /\ StoppedAreDown /\ SomeLive

LEMMA InitIInv == ASSUME Init PROVE IInv
  BY BoundsAssumption
     DEF Init, Server!Init, Server!Apps, Server!Runners, Apps, Runners, Stages, IInv,
         ServersTyped, Handed, StoppedAreDown, SomeLive

LEMMA BeginKeeps ==
    ASSUME IInv, NEW r \in Runners, NEW c, Server!BeginChange(r, c)
    PROVE  IInv'
  <1>1. /\ at' = [at EXCEPT ![r] = "build"] /\ at[r] = "out"
        /\ UNCHANGED <<built, mine, server, closed, stopServer>>
    BY DEF Server!BeginChange
  <1>2. \A q \in Runners : at'[q] = "replace" <=> at[q] = "replace"
    BY <1>1 DEF IInv, ServersTyped
  <1> QED  BY <1>1, <1>2 DEF IInv, ServersTyped, Handed, StoppedAreDown, SomeLive, Live

LEMMA RejectKeeps ==
    ASSUME IInv, NEW r \in Runners, Server!Reject(r)
    PROVE  IInv'
  <1>1. /\ at' = [at EXCEPT ![r] = "out"] /\ at[r] = "build"
        /\ UNCHANGED <<built, mine, server, closed, stopServer>>
    BY DEF Server!Reject, Server!ReturnsEarly
  <1>2. \A q \in Runners : at'[q] = "replace" <=> at[q] = "replace"
    BY <1>1 DEF IInv, ServersTyped
  <1> QED  BY <1>1, <1>2 DEF IInv, ServersTyped, Handed, StoppedAreDown, SomeLive, Live

LEMMA AcceptKeeps ==
    ASSUME IInv, NEW r \in Runners, Server!Accept(r)
    PROVE  IInv'
  <1>1. /\ built < MaxApps /\ built' = built + 1 /\ at[r] = "build"
        /\ at' = [at EXCEPT ![r] = "replace"] /\ mine' = [mine EXCEPT ![r] = built + 1]
        /\ UNCHANGED <<server, closed, stopServer>>
    BY DEF Server!Accept
  <1>2. /\ built \in Nat /\ built + 1 \in Apps /\ built' \in 0..MaxApps
        /\ \A a \in Apps : a <= built + 1 => a <= built \/ a = built + 1
    BY <1>1, BoundsAssumption DEF IInv, ServersTyped, Apps
  <1>3. server[built + 1] = "none"
    BY <1>2 DEF IInv, Handed
  <1>4. /\ at'[r] = "replace" /\ mine'[r] = built + 1
        /\ \A q \in Runners \ {r} : at'[q] = at[q] /\ mine'[q] = mine[q]
    BY <1>1 DEF IInv, ServersTyped
  <1>5. ServersTyped'
    BY <1>1, <1>2 DEF IInv, ServersTyped, Apps
  <1>6. Handed'
    <2>1. \A a \in Apps : server'[a] # "none" => a <= built'
      BY <1>1, <1>2 DEF IInv, Handed, Apps
    <2>2. \A q \in Runners : at'[q] = "replace" =>
             mine'[q] \in Apps /\ mine'[q] <= built' /\ server'[mine'[q]] = "none"
      BY <1>1, <1>2, <1>3, <1>4 DEF IInv, Handed, Apps
    <2>3. \A p, q \in Runners : at'[p] = "replace" /\ at'[q] = "replace" /\ mine'[p] = mine'[q] => p = q
      BY <1>2, <1>4 DEF IInv, Handed
    <2>4. \A a \in Apps : a <= built' /\ server'[a] = "none" =>
             \E q \in Runners : at'[q] = "replace" /\ mine'[q] = a
      <3> SUFFICES ASSUME NEW a \in Apps, a <= built', server'[a] = "none"
                   PROVE  \E q \in Runners : at'[q] = "replace" /\ mine'[q] = a
        OBVIOUS
      <3>1. CASE a = built + 1
        BY <3>1, <1>4
      <3>2. CASE a <= built
        <4>1. PICK q \in Runners : at[q] = "replace" /\ mine[q] = a
          BY <3>2, <1>1 DEF IInv, Handed
        <4> QED  BY <4>1, <1>1, <1>4
      <3> QED  BY <3>1, <3>2, <1>1, <1>2
    <2> QED  BY <2>1, <2>2, <2>3, <2>4 DEF Handed
  <1>7. StoppedAreDown' /\ SomeLive'
    BY <1>1 DEF IInv, StoppedAreDown, SomeLive, Live
  <1> QED  BY <1>5, <1>6, <1>7 DEF IInv

\* The application that takes over is live, whatever is stopped.
LEMMA ReplaceKeeps ==
    ASSUME IInv, NEW r \in Runners, Server!Replace(r)
    PROVE  IInv'
  <1> DEFINE m == mine[r]
  <1>1. /\ at[r] = "replace" /\ at' = [at EXCEPT ![r] = "out"] /\ mine' = [mine EXCEPT ![r] = 0]
        /\ closed' = closed \cup ({stopServer} \ {0})
        /\ UNCHANGED <<built, stopServer>>
    BY DEF Server!Replace, Server!Stops
  <1>2. m \in Apps /\ m <= built /\ server[m] = "none"
    BY <1>1 DEF IInv, Handed
  <1>3. /\ server' \in [Apps -> Stages] /\ server'[m] = "spawned"
        /\ \A a \in Apps \ {m} :
              server'[a] = IF a \in {stopServer} \ {0} /\ server[a] = "serving" THEN "ended" ELSE server[a]
    BY <1>2 DEF Server!Replace, Server!Stop, Server!Stops, Server!Apps, Apps, IInv, ServersTyped, Stages
  <1>4. \A a \in Apps \ {m} : server'[a] = "none" <=> server[a] = "none"
    BY <1>3
  <1>5. /\ at'[r] = "out"
        /\ \A q \in Runners \ {r} : at'[q] = at[q] /\ mine'[q] = mine[q]
    BY <1>1 DEF IInv, ServersTyped
  <1>6. ServersTyped'
    BY <1>1, <1>3, BoundsAssumption DEF IInv, ServersTyped, Apps
  <1>7. Handed'
    <2>1. \A a \in Apps : server'[a] # "none" => a <= built'
      BY <1>1, <1>2, <1>4 DEF IInv, Handed
    <2>2. \A q \in Runners \ {r} : at[q] = "replace" => mine[q] # m
      BY <1>1 DEF IInv, Handed
    <2>3. \A q \in Runners : at'[q] = "replace" =>
             mine'[q] \in Apps /\ mine'[q] <= built' /\ server'[mine'[q]] = "none"
      BY <1>1, <1>4, <1>5, <2>2 DEF IInv, Handed
    <2>4. \A p, q \in Runners : at'[p] = "replace" /\ at'[q] = "replace" /\ mine'[p] = mine'[q] => p = q
      BY <1>5 DEF IInv, Handed
    <2>5. \A a \in Apps : a <= built' /\ server'[a] = "none" =>
             \E q \in Runners : at'[q] = "replace" /\ mine'[q] = a
      <3> SUFFICES ASSUME NEW a \in Apps, a <= built', server'[a] = "none"
                   PROVE  \E q \in Runners : at'[q] = "replace" /\ mine'[q] = a
        OBVIOUS
      <3>1. a # m /\ server[a] = "none"
        BY <1>3, <1>4
      <3>2. PICK q \in Runners : at[q] = "replace" /\ mine[q] = a
        BY <3>1, <1>1 DEF IInv, Handed
      <3> QED  BY <3>1, <3>2, <1>5
    <2> QED  BY <2>1, <2>3, <2>4, <2>5 DEF Handed
  <1>8. m # stopServer /\ m \notin closed
    BY <1>2, BoundsAssumption DEF IInv, StoppedAreDown, Apps
  <1>9. StoppedAreDown'
    BY <1>1, <1>2, <1>3, <1>4, <1>8 DEF IInv, ServersTyped, StoppedAreDown, Apps
  <1>10. SomeLive'
    BY <1>1, <1>2, <1>3, <1>8 DEF SomeLive, Live
  <1> QED  BY <1>6, <1>7, <1>9, <1>10 DEF IInv

LEMMA CreateServerKeeps ==
    ASSUME IInv, NEW a \in Apps, Server!CreateServer(a)
    PROVE  IInv'
  <1>1. /\ server[a] = "spawned" /\ server' = [server EXCEPT ![a] = "created"]
        /\ stopServer' = a
        /\ UNCHANGED <<built, at, mine, closed>>
    BY DEF Server!CreateServer, Server!AssignStop
  <1>2. server'[a] = "created" /\ \A b \in Apps \ {a} : server'[b] = server[b]
    BY <1>1 DEF IInv, ServersTyped
  <1>3. ServersTyped'
    BY <1>1 DEF IInv, ServersTyped, Apps, Stages
  <1>4. Handed'
    BY <1>1, <1>2 DEF IInv, Handed
  <1>5. StoppedAreDown'
    BY <1>1, <1>2 DEF IInv, ServersTyped, StoppedAreDown
  <1>6. SomeLive'
    BY <1>1, <1>2 DEF IInv, SomeLive, Live
  <1> QED  BY <1>3, <1>4, <1>5, <1>6 DEF IInv

\* One that cannot listen was stopped, or leaves the port to one that serves and
\* was not.
LEMMA ListenKeeps ==
    ASSUME IInv, NEW a \in Apps, Server!Listen(a)
    PROVE  IInv'
  <1>1. /\ server[a] = "created"
        /\ \/ /\ server' = [server EXCEPT ![a] = "serving"] /\ a \notin closed
           \/ /\ server' = [server EXCEPT ![a] = "ended"]
              /\ a \in closed \/ \E b \in Apps : server[b] = "serving"
        /\ UNCHANGED <<built, at, mine, closed, stopServer>>
    BY DEF Server!Listen, Server!PortTaken, Server!Serving, Server!Apps, Apps
  <1>2. server'[a] \in {"serving", "ended"} /\ \A b \in Apps \ {a} : server'[b] = server[b]
    BY <1>1 DEF IInv, ServersTyped
  <1>3. ServersTyped'
    BY <1>1 DEF IInv, ServersTyped, Apps, Stages
  <1>4. Handed'
    BY <1>1, <1>2 DEF IInv, Handed
  <1>5. StoppedAreDown'
    <2>1. server'[a] # "serving" \/ a \notin closed
      BY <1>1 DEF IInv, ServersTyped
    <2>2. stopServer # 0 => stopServer \in Apps
      BY BoundsAssumption DEF IInv, ServersTyped, Apps
    <2>3. closed \subseteq Apps
      BY DEF IInv, ServersTyped
    <2> QED  BY <1>1, <1>2, <2>1, <2>2, <2>3 DEF IInv, StoppedAreDown
  <1>6. SomeLive'
    <2>1. CASE server'[a] = "serving"
      BY <1>1, <2>1 DEF IInv, ServersTyped, SomeLive, Live
    <2>2. CASE server'[a] = "ended" /\ a \in closed
      <3>1. PICK b \in Apps : Live(b)
        BY <1>1 DEF IInv, SomeLive
      <3> QED  BY <1>1, <1>2, <2>2, <3>1 DEF SomeLive, Live
    <2>3. CASE \E b \in Apps : server[b] = "serving"
      <3>1. PICK b \in Apps : server[b] = "serving" /\ b # a /\ b \notin closed
        BY <1>1, <2>3 DEF IInv, StoppedAreDown
      <3> QED  BY <1>1, <1>2, <3>1 DEF SomeLive, Live
    <2> QED  BY <1>1, <1>2, <2>1, <2>2, <2>3 DEF IInv, ServersTyped
  <1> QED  BY <1>3, <1>4, <1>5, <1>6 DEF IInv

LEMMA OthersKeep ==
    ASSUME IInv, UNCHANGED <<built, at, mine, server, closed, stopServer>>
    PROVE  IInv'
  BY DEF IInv, ServersTyped, Handed, StoppedAreDown, SomeLive, Live

LEMMA StepKeeps == IInv /\ [Next]_vars => IInv'
  <1> SUFFICES ASSUME IInv, [Next]_vars PROVE IInv'
    OBVIOUS
  <1>1. CASE StartWatching
    BY <1>1, BeginKeeps DEF StartWatching, Runners
  <1>2. ASSUME NEW b \in Callbacks, Change(b) PROVE IInv'
    BY <1>2, BeginKeeps DEF Change, Runners
  <1>3. ASSUME NEW r \in Runners, Server!Reject(r) \/ Server!Replace(r) PROVE IInv'
    BY <1>3, RejectKeeps, ReplaceKeeps
  <1>4. CASE FirstChangeReturns \/ \E b \in Callbacks : ChangeReturns(b)
    BY <1>3, <1>4 DEF FirstChangeReturns, ChangeReturns, Runners
  <1>5. ASSUME NEW r \in Runners, Build(r) PROVE IInv'
    BY <1>5, AcceptKeeps DEF Build
  <1>6. ASSUME NEW a \in Apps, StarterStep(a) PROVE IInv'
    BY <1>6, CreateServerKeeps, ListenKeeps DEF StarterStep, Server!StarterStep
  <1>7. CASE Edit \/ WatcherStep \/ Fire \/ \E b \in Callbacks : ReadFiles(b) \/ Skip(b)
    BY <1>7, OthersKeep DEF Edit, WatcherStep, Fire, ReadFiles, Skip, serverVars
  <1>8. CASE Exit
    BY <1>8, OthersKeep DEF Exit, Server!Exit
  <1>9. CASE UNCHANGED vars
    BY <1>9, OthersKeep DEF vars, serverVars
  <1> QED
    BY <1>1, <1>2, <1>4, <1>5, <1>6, <1>7, <1>8, <1>9 DEF Next, Runners, Apps

\* However the edits of any number of files, and the changes, stops and starts of
\* any number of applications overlap, the port is never left to nobody
\* (main.go:171-184).
THEOREM SomebodyServesHolds == Spec => []SomebodyServes
  <1>1. IInv => SomebodyServes
    <2> SUFFICES ASSUME IInv, Server!Settled, built > 0 PROVE Server!Serving # {}
      BY DEF SomebodyServes, Server!SomebodyServes
    <2>1. built \in Apps /\ \A r \in Runners : at[r] = "out"
      BY BoundsAssumption DEF IInv, ServersTyped, Apps, Server!Settled, Server!Runners, Runners
    <2>2. server[built] # "none"
      BY <2>1 DEF IInv, Handed, Apps
    <2>3. PICK a \in Apps : Live(a)
      BY <2>1, <2>2 DEF IInv, SomeLive
    <2>4. server[a] = "serving"
      BY <2>3 DEF Live, Server!Settled, Server!Starting, Server!Apps, Apps
    <2> QED  BY <2>4 DEF Server!Serving, Server!Apps, Apps
  <1>2. Init => IInv
    BY InitIInv
  <1> QED  BY <1>1, <1>2, StepKeeps, PTL DEF Spec

--------------------------------------------------------------------------------
\* What the watcher knows of the files.  A file it believes to watch is watched,
\* or the event of its lost watch is still to come.
Events == {"write", "rename", "remove"} \X Files

WatchTyped ==
    /\ disk \in Composed /\ lastContents \in Composed /\ parsed \in [Callbacks -> Composed]
    /\ watched \subseteq Files /\ lastIncludes \subseteq Files
    /\ events \in Seq(Events)
    /\ cb \in [Callbacks -> {"idle", "parse", "lock", "change"}]
    /\ \A b \in Callbacks : cb[b] = "change" <=> mu = b

LostWatch(f) == \E i \in 1..Len(events) : events[i][1] # "write" /\ events[i][2] = f

WatchInv ==
    /\ WatchTyped
    /\ \A f \in lastIncludes : lastContents[f] # Absent
    /\ \A f \in watched : disk[f] # Absent
    /\ ~everAbsent => \A f \in Files : disk[f] # Absent
    /\ startup # "parsed" /\ ~everAbsent => \A f \in lastIncludes : f \in watched \/ LostWatch(f)

\* While no edit falls into a reload, whoever parses finds the same files, until
\* all is at rest again.
Current == Watch!ParseOK(disk) /\ lastContents = Watch!Parse(disk)

ParsedCurrent ==
    /\ startup # "done" => ~Watch!CallbackRunning /\ timer = "off" /\ events = <<>>
                          /\ watcherAt # "settling"
    /\ \A b \in Callbacks : cb[b] = "lock" => Watch!ParseOK(disk) /\ parsed[b] = Watch!Parse(disk)
    /\ startup # "done" \/ ~Server!Settled \/ (\E b \in Callbacks : cb[b] = "change") => Current
    /\ startup # "done" \/ (\E b \in Callbacks : cb[b] = "change") => lastIncludes = Watch!Included(disk)

\* What is not applied, or not watched, is still to be looked at.
Noticed ==
    /\ Watch!Quiet /\ Watch!ParseOK(disk) /\ Watch!Included(disk) \subseteq watched => Current
    /\ Watch!Quiet /\ ~everAbsent => Watch!Included(disk) \subseteq lastIncludes

\* While every edit waits for the one before, there is one thing under way.
OneByOne ==
    /\ watched \subseteq lastIncludes
    /\ events # <<>> => startup = "done" /\ watcherAt = "select" /\ Len(events) = 1
                        /\ \A f \in watched : ~LostWatch(f)
    /\ events # <<>> \/ watcherAt = "settling" => timer = "off"
    /\ events # <<>> \/ watcherAt = "settling" \/ timer = "armed" => ~Watch!CallbackRunning
    /\ watcherAt = "settling" => events = <<>>
    /\ timer = "armed" => events = <<>>

--------------------------------------------------------------------------------
\* What the changes make of it: one of them at a time, and one server at a time.

ChangesMeet ==
    /\ change \in [Runners -> Composed] /\ config \in [Apps -> Composed]
    /\ startup = "parsed" => built = 0 /\ watcherAt = "off" /\ timer = "off" /\ ~Watch!CallbackRunning
    /\ at[Main] # "out" <=> startup = "changing"
    /\ \A b \in Callbacks : at[b] # "out" <=> cb[b] = "change"

OneChange ==
    /\ \A r \in Runners : at[r] # "out" => change[r] = lastContents /\ Server!Starting = {}
    /\ \A r \in Runners : at[r] = "replace" => config[mine[r]] = lastContents
    /\ \A q, r \in Runners : at[q] # "out" /\ at[r] # "out" => q = r
    /\ \A a, b \in Server!Starting : a = b
    /\ \A a \in Server!Starting : config[a] = lastContents /\ a \notin closed
    /\ Server!Running \subseteq {stopServer}
    /\ \A a \in Apps : server[a] = "spawned" => Server!Running = {}
    /\ startup = "done" /\ Server!Settled /\ lastContents \in Valid =>
          Server!Serving # {} /\ \A a \in Server!Serving : config[a] = lastContents

ReloadInv ==
    /\ pace \in {"quiet", "pending", "reload"}
    /\ WatchInv /\ ChangesMeet
    /\ pace # "reload" => ParsedCurrent /\ Noticed /\ OneChange
    /\ pace = "quiet" => OneByOne

LEMMA WatchStart == ASSUME Init PROVE ReloadInv
<1> USE DEF Init, Watch!Init
<1>1. Watch!NothingParsed \in Composed /\ Watch!Parse(disk) \in Composed
  BY FilesAssumption DEF Watch!NothingParsed, Watch!Parse, Watch!Contents, Composed
<1>2. Watch!Included(disk) \subseteq Files
  BY FilesAssumption DEF Watch!Included
<1>3. WatchTyped
  BY <1>1, <1>2, NamesAssumption DEF WatchTyped, Watch!Contents, Composed
<1>4. WatchInv
  <2>1. \A f \in lastIncludes : lastContents[f] # Absent
    BY <1>2 DEF Watch!Parse, Watch!ParseOK
  <2> QED BY <1>3, <2>1 DEF WatchInv
<1>5. Server!Settled
  BY DEF Server!Settled, Server!Init, Server!Starting, Server!Runners
<1>6. ParsedCurrent /\ Noticed
  BY <1>5 DEF ParsedCurrent, Noticed, Current, Watch!CallbackRunning, Watch!Quiet
<1>7. ChangesMeet
  <2>1. Server!SomeContents \in Composed
    BY <1>1 DEF Server!SomeContents
  <2> QED BY <2>1 DEF ChangesMeet, Server!Init, Server!Runners, Server!Apps, Runners, Apps,
                    Watch!CallbackRunning
<1>8. OneChange /\ OneByOne
  BY DEF OneChange, OneByOne, Server!Init, Server!Runners, Server!Apps, Runners, Apps,
         Server!Starting, Server!Running, LostWatch, Watch!CallbackRunning
<1> QED BY <1>4, <1>6, <1>7, <1>8 DEF ReloadInv

\* What an edit does: it puts an event in the queue of a file that is watched, and
\* ends the watch with it unless it writes in place.
LEMMA EditDoes ==
    ASSUME WatchInv, Watch!EditAction
    PROVE  /\ UNCHANGED <<startup, watcherAt, timer, mu, cb, parsed, lastContents, lastIncludes>>
           /\ \E f \in Files, text \in Texts \union {Absent} :
                 /\ disk' = [disk EXCEPT ![f] = text]
                 /\ everAbsent' = (everAbsent \/ text = Absent)
                 /\ \/ f \notin watched /\ UNCHANGED <<watched, events>>
                    \/ /\ f \in watched /\ text # Absent /\ watched' = watched
                       /\ events' = Append(events, <<"write", f>>)
                    \/ /\ f \in watched /\ watched' = watched \ {f}
                       /\ \E kind \in {"rename", "remove"} : events' = Append(events, <<kind, f>>)
<1> USE DEF Watch!Edit, Watch!Emit
<1>1. PICK f \in Files : \/ \E text \in Texts : \/ Watch!WriteInPlace(f, text)
                                                \/ Watch!Replace(f, text) \/ Watch!Create(f, text)
                         \/ Watch!MoveAway(f) \/ Watch!Delete(f)
  BY DEF Watch!EditAction
<1>2. CASE \E text \in Texts : Watch!WriteInPlace(f, text)
  BY <1>2, FilesAssumption DEF Watch!WriteInPlace
<1>3. CASE \E text \in Texts : Watch!Replace(f, text)
  BY <1>3 DEF Watch!Replace
<1>4. CASE \E text \in Texts : Watch!Create(f, text)
  BY <1>4 DEF Watch!Create, WatchInv
<1>5. CASE Watch!MoveAway(f)
  BY <1>5 DEF Watch!MoveAway
<1>6. CASE Watch!Delete(f)
  BY <1>6 DEF Watch!Delete
<1> QED BY <1>1, <1>2, <1>3, <1>4, <1>5, <1>6

\* The event of a lost watch stays in the queue until it is handled.
LEMMA EventQueued ==
    ASSUME events \in Seq(Events), NEW e \in Events, events' = Append(events, e)
    PROVE  /\ events' \in Seq(Events) /\ events' # <<>>
           /\ \A f : LostWatch(f) => LostWatch(f)'
           /\ e[1] # "write" => LostWatch(e[2])'
           /\ e[1] = "write" => \A f : LostWatch(f)' => LostWatch(f)
<1>1. /\ events' \in Seq(Events)
      /\ Len(events') = Len(events) + 1 /\ events'[Len(events) + 1] = e
      /\ Len(events) \in Nat
      /\ \A i \in 1..Len(events) : events'[i] = events[i]
  OBVIOUS
<1>2. events' # <<>>
  OBVIOUS
<1>3. ASSUME NEW f, LostWatch(f) PROVE LostWatch(f)'
  <2>1. PICK i \in 1..Len(events) : events[i][1] # "write" /\ events[i][2] = f
    BY <1>3 DEF LostWatch
  <2>2. i \in 1..Len(events') /\ events'[i] = events[i]
    BY <1>1
  <2> QED BY <2>1, <2>2 DEF LostWatch
<1>4. ASSUME e[1] # "write" PROVE LostWatch(e[2])'
  <2>1. Len(events) + 1 \in 1..Len(events') /\ events'[Len(events) + 1] = e
    BY <1>1
  <2> QED BY <1>4, <2>1 DEF LostWatch
<1>5. ASSUME e[1] = "write", NEW f, LostWatch(f)' PROVE LostWatch(f)
  <2>1. PICK i \in 1..Len(events') : events'[i][1] # "write" /\ events'[i][2] = f
    BY <1>5 DEF LostWatch
  <2>2. i \in 1..Len(events) \/ i = Len(events) + 1
    BY <1>1
  <2>3. i \in 1..Len(events)
    BY <1>1, <1>5, <2>1, <2>2
  <2>4. events'[i] = events[i]
    BY <1>1, <2>3
  <2> QED BY <2>1, <2>3, <2>4 DEF LostWatch
<1> QED BY <1>1, <1>2, <1>3, <1>4, <1>5

LEMMA EventHandled ==
    ASSUME events \in Seq(Events), events # <<>>, events' = Tail(events)
    PROVE  /\ events' \in Seq(Events) /\ Head(events) \in Events
           /\ Len(events) = 1 => events' = <<>>
           /\ \A f : LostWatch(f) => LostWatch(f)' \/ (Head(events)[1] # "write" /\ Head(events)[2] = f)
           /\ Head(events)[1] # "write" => LostWatch(Head(events)[2])
<1>1. /\ events' \in Seq(Events) /\ Head(events) = events[1] /\ Head(events) \in Events
      /\ Len(events) \in Nat \ {0} /\ Len(events') = Len(events) - 1
      /\ \A i \in 1..Len(events') : events'[i] = events[i + 1]
  OBVIOUS
<1>2. Len(events) = 1 => events' = <<>>
  BY <1>1
<1>3. ASSUME NEW f, LostWatch(f)
      PROVE  LostWatch(f)' \/ (Head(events)[1] # "write" /\ Head(events)[2] = f)
  <2>1. PICK i \in 1..Len(events) : events[i][1] # "write" /\ events[i][2] = f
    BY <1>3 DEF LostWatch
  <2>2. CASE i = 1
    BY <1>1, <2>1, <2>2
  <2>3. CASE i # 1
    <3>1. PICK j \in 1..Len(events') : j + 1 = i
      <4>1. i - 1 \in 1..Len(events') /\ (i - 1) + 1 = i
        BY <1>1, <2>3
      <4> QED BY <4>1
    <3>2. events'[j] = events[i]
      BY <1>1, <3>1
    <3> QED BY <2>1, <3>2 DEF LostWatch
  <2> QED BY <2>2, <2>3
<1>4. ASSUME Head(events)[1] # "write" PROVE LostWatch(Head(events)[2])
  BY <1>1, <1>4 DEF LostWatch
<1> QED BY <1>1, <1>2, <1>3, <1>4

\* The files in what a callback parsed.
LEMMA ParsedFiles ==
    ASSUME disk \in Composed, NEW b \in Callbacks, Watch!ParseOK(disk), parsed[b] = Watch!Parse(disk)
    PROVE  Watch!ParsedIncludes(b) = Watch!Included(disk)
  BY FilesAssumption DEF Watch!ParsedIncludes, Watch!Parse, Watch!ParseOK, Watch!Included

LEMMA WatchEdited ==
    ASSUME WatchInv, Watch!EditAction PROVE WatchInv'
<1>1. /\ UNCHANGED <<startup, watcherAt, timer, mu, cb, parsed, lastContents, lastIncludes>>
  BY EditDoes
<1>2. PICK f \in Files, text \in Texts \union {Absent} :
         /\ disk' = [disk EXCEPT ![f] = text]
         /\ everAbsent' = (everAbsent \/ text = Absent)
         /\ \/ f \notin watched /\ UNCHANGED <<watched, events>>
            \/ /\ f \in watched /\ text # Absent /\ watched' = watched
               /\ events' = Append(events, <<"write", f>>)
            \/ /\ f \in watched /\ watched' = watched \ {f}
               /\ \E kind \in {"rename", "remove"} : events' = Append(events, <<kind, f>>)
  BY EditDoes
<1>3. disk' \in Composed /\ disk'[f] = text /\ \A g \in Files \ {f} : disk'[g] = disk[g]
  BY <1>2 DEF WatchInv, WatchTyped, Composed
<1>4. events \in Seq(Events) /\ watched \subseteq Files
  BY DEF WatchInv, WatchTyped, Events
<1>5. /\ events' \in Seq(Events) /\ watched' \subseteq watched
      /\ \A g : LostWatch(g) => LostWatch(g)'
      /\ \A g \in watched \ watched' : LostWatch(g)'
      /\ f \in watched' => text # Absent
  <2>1. CASE f \notin watched /\ UNCHANGED <<watched, events>>
    BY <1>4, <2>1 DEF LostWatch
  <2>2. CASE f \in watched /\ text # Absent /\ watched' = watched /\ events' = Append(events, <<"write", f>>)
    <3>1. <<"write", f>> \in Events
      BY DEF Events
    <3> QED BY <1>4, <2>2, <3>1, EventQueued
  <2>3. ASSUME NEW kind \in {"rename", "remove"}, f \in watched, watched' = watched \ {f},
               events' = Append(events, <<kind, f>>)
        PROVE  /\ events' \in Seq(Events) /\ watched' \subseteq watched
               /\ \A g : LostWatch(g) => LostWatch(g)'
               /\ \A g \in watched \ watched' : LostWatch(g)'
               /\ f \in watched' => text # Absent
    <3>1. PICK e \in Events : e = <<kind, f>> /\ e[1] # "write" /\ e[2] = f
      <4>1. <<kind, f>> \in Events /\ <<kind, f>>[1] # "write" /\ <<kind, f>>[2] = f
        BY DEF Events
      <4> QED BY <4>1
    <3>2. LostWatch(e[2])' /\ events' \in Seq(Events) /\ \A g : LostWatch(g) => LostWatch(g)'
      BY <1>4, <2>3, <3>1, EventQueued
    <3>3. LostWatch(f)'
      BY <3>1, <3>2
    <3> QED BY <2>3, <3>2, <3>3
  <2> QED BY <1>2, <2>1, <2>2, <2>3
<1>6. WatchTyped'
  BY <1>1, <1>3, <1>4, <1>5 DEF WatchInv, WatchTyped, Events
<1>7. \A g \in watched' : disk'[g] # Absent
  BY <1>3, <1>4, <1>5 DEF WatchInv
<1>8. ~everAbsent' => ~everAbsent /\ \A g \in Files : disk'[g] # Absent
  BY <1>2, <1>3 DEF WatchInv
<1>9. startup' # "parsed" /\ ~everAbsent' => \A g \in lastIncludes' : g \in watched' \/ LostWatch(g)'
  BY <1>1, <1>5, <1>8 DEF WatchInv
<1>10. \A g \in lastIncludes' : lastContents'[g] # Absent
  BY <1>1 DEF WatchInv
<1> QED BY <1>6, <1>7, <1>8, <1>9, <1>10 DEF WatchInv

LEMMA WatchBegun ==
    ASSUME WatchInv, Watch!StartWatching \/ Watch!FirstChangeReturns PROVE WatchInv'
<1>1. CASE Watch!StartWatching
  <2>1. /\ UNCHANGED <<disk, events, mu, cb, parsed, lastContents, lastIncludes, everAbsent>>
        /\ watched' = watched \union {f \in lastIncludes : disk[f] # Absent}
    BY <1>1 DEF Watch!StartWatching, Watch!Rewatched
  <2>2. watched' \subseteq Files /\ \A f \in watched' : disk'[f] # Absent
    BY <2>1 DEF WatchInv, WatchTyped
  <2>3. ~everAbsent => \A f \in lastIncludes : f \in watched'
    BY <2>1 DEF WatchInv, WatchTyped
  <2> QED BY <2>1, <2>2, <2>3 DEF WatchInv, WatchTyped
<1>2. CASE Watch!FirstChangeReturns
  BY <1>2 DEF Watch!FirstChangeReturns, WatchInv, WatchTyped, LostWatch
<1> QED BY <1>1, <1>2

LEMMA WatcherKeeps ==
    ASSUME WatchInv, Watch!WatcherStep PROVE WatchInv'
<1>1. CASE Watch!Settled
  BY <1>1 DEF Watch!Settled, WatchInv, WatchTyped, LostWatch
<1>2. CASE Watch!HandleWrite \/ Watch!HandleRename \/ Watch!HandleRemove
  <2>1. /\ UNCHANGED <<disk, watched, startup, mu, cb, parsed, lastContents, everAbsent>>
        /\ events # <<>> /\ events' = Tail(events)
        /\ IF Head(events)[1] = "write" THEN lastIncludes' = lastIncludes
           ELSE lastIncludes' = lastIncludes \ {Head(events)[2]}
    BY <1>2 DEF Watch!HandleWrite, Watch!HandleRename, Watch!HandleRemove, Watch!DeleteLastInclude
  <2>2. events \in Seq(Events)
    BY DEF WatchInv, WatchTyped, Events
  <2>3. /\ events' \in Seq(Events)
        /\ \A f : LostWatch(f) => LostWatch(f)' \/ (Head(events)[1] # "write" /\ Head(events)[2] = f)
    BY <2>1, <2>2, EventHandled
  <2>4. lastIncludes' \subseteq lastIncludes
    BY <2>1
  <2>5. WatchTyped'
    BY <2>1, <2>3, <2>4 DEF WatchInv, WatchTyped, Events
  <2>6. startup' # "parsed" /\ ~everAbsent' => \A f \in lastIncludes' : f \in watched' \/ LostWatch(f)'
    BY <2>1, <2>3 DEF WatchInv
  <2> QED BY <2>1, <2>4, <2>5, <2>6 DEF WatchInv
<1> QED BY <1>1, <1>2 DEF Watch!WatcherStep

LEMMA CallbackKeeps ==
    ASSUME WatchInv, startup # "parsed", NEW b \in Callbacks,
           Watch!Fire(b) \/ Watch!ReadFiles(b) \/ Watch!Skip(b) \/ Watch!Change(b) \/ Watch!ChangeReturns(b)
    PROVE  WatchInv'
<1>1. Watch!NothingParsed \in Composed /\ Watch!Parse(disk) \in Composed
  BY FilesAssumption DEF Watch!NothingParsed, Watch!Parse, Watch!Contents, Composed, WatchInv, WatchTyped
<1>2. CASE Watch!Fire(b)
  BY <1>2 DEF Watch!Fire, WatchInv, WatchTyped, LostWatch
<1>3. CASE Watch!ReadFiles(b)
  <2>1. /\ UNCHANGED <<disk, watched, events, startup, mu, lastContents, lastIncludes, everAbsent>>
        /\ cb[b] = "parse" /\ cb' \in [Callbacks -> {"idle", "parse", "lock", "change"}]
        /\ parsed' \in [Callbacks -> Composed]
        /\ cb'[b] # "change" /\ \A c \in Callbacks \ {b} : cb'[c] = cb[c]
    BY <1>1, <1>3 DEF Watch!ReadFiles, WatchInv, WatchTyped
  <2> QED BY <2>1 DEF WatchInv, WatchTyped, LostWatch
<1>4. CASE Watch!ChangeReturns(b)
  <2>1. /\ UNCHANGED <<disk, watched, events, startup, lastContents, lastIncludes, everAbsent>>
        /\ cb[b] = "change" /\ cb' \in [Callbacks -> {"idle", "parse", "lock", "change"}]
        /\ parsed' \in [Callbacks -> Composed] /\ mu' = NoOne
        /\ cb'[b] = "idle" /\ \A c \in Callbacks \ {b} : cb'[c] = cb[c]
    BY <1>1, <1>4 DEF Watch!ChangeReturns, Watch!Unlock, WatchInv, WatchTyped
  <2>2. \A c \in Callbacks : cb'[c] # "change"
    BY <2>1 DEF WatchInv, WatchTyped
  <2> QED BY <2>1, <2>2, NamesAssumption DEF WatchInv, WatchTyped, LostWatch
<1>5. CASE Watch!Skip(b) \/ Watch!Change(b)
  <2> DEFINE new == Watch!ParsedIncludes(b)
  <2>1. /\ UNCHANGED <<disk, events, startup, everAbsent>> /\ lastContents' = parsed[b]
        /\ cb[b] = "lock" /\ mu = NoOne
        /\ watched' = (watched \ (lastIncludes \ new)) \union {f \in new \ lastIncludes : disk[f] # Absent}
        /\ lastIncludes' = new
    BY <1>5 DEF Watch!Skip, Watch!Change, Watch!Compare, Watch!Rewatched, Watch!Unchanged
  <2>2. /\ cb' \in [Callbacks -> {"idle", "parse", "lock", "change"}]
        /\ parsed' \in [Callbacks -> Composed]
        /\ \A c \in Callbacks : cb'[c] = "change" <=> mu' = c
    <3>1. CASE Watch!Skip(b)
      BY <1>1, <2>1, <3>1, NamesAssumption DEF Watch!Skip, WatchInv, WatchTyped
    <3>2. CASE Watch!Change(b)
      BY <2>1, <3>2, NamesAssumption DEF Watch!Change, WatchInv, WatchTyped
    <3> QED BY <1>5, <3>1, <3>2
  <2>3. new \subseteq Files /\ \A f \in new : parsed[b][f] # Absent
    BY DEF Watch!ParsedIncludes
  <2>4. WatchTyped'
    BY <2>1, <2>2, <2>3 DEF WatchInv, WatchTyped
  <2>5. \A f \in watched' : disk'[f] # Absent
    BY <2>1 DEF WatchInv
  <2>6. ~everAbsent => \A f \in new : f \in watched' \/ LostWatch(f)
    <3> SUFFICES ASSUME ~everAbsent, NEW f \in new PROVE f \in watched' \/ LostWatch(f)
      OBVIOUS
    <3>1. disk[f] # Absent
      BY <2>3 DEF WatchInv
    <3>2. f \in lastIncludes => f \in watched \/ LostWatch(f)
      BY DEF WatchInv
    <3> QED BY <2>1, <3>1, <3>2
  <2>7. ~everAbsent => \A f \in lastIncludes' : f \in watched' \/ LostWatch(f)'
    BY <2>1, <2>6 DEF LostWatch
  <2>8. \A f \in lastIncludes' : lastContents'[f] # Absent
    BY <2>1, <2>3
  <2> QED BY <2>1, <2>4, <2>5, <2>7, <2>8 DEF WatchInv
<1> QED BY <1>2, <1>3, <1>4, <1>5

--------------------------------------------------------------------------------
\* One change at a time: the steps of the servers.
LEMMA BeginMeets ==
    ASSUME IInv, ChangesMeet, NEW r \in Runners, NEW c \in Composed, Server!BeginChange(r, c),
           lastContents' = c, Server!Starting = {}, \A q \in Runners : at[q] = "out",
           Server!Running \subseteq {stopServer}
    PROVE  OneChange' /\ ~Server!Settled'
<1>1. /\ at' = [at EXCEPT ![r] = "build"] /\ change' = [change EXCEPT ![r] = c]
      /\ UNCHANGED <<config, mine, server, closed, stopServer>>
  BY DEF Server!BeginChange
<1>2. /\ at'[r] = "build" /\ change'[r] = c /\ \A q \in Runners \ {r} : at'[q] = "out"
  BY <1>1 DEF IInv, ServersTyped, ChangesMeet
<1>3. Server!Starting' = {} /\ Server!Running' = Server!Running
  BY <1>1 DEF Server!Starting, Server!Running
<1>4. ~Server!Settled'
  BY <1>2 DEF Server!Settled, Server!Runners, Runners
<1>5. \A a \in Apps : server'[a] # "spawned"
  BY <1>3 DEF Server!Starting, Server!Apps, Apps
<1> QED BY <1>1, <1>2, <1>3, <1>4, <1>5 DEF OneChange

LEMMA AcceptMeets ==
    ASSUME IInv, ChangesMeet, OneChange, NEW r \in Runners, Server!Accept(r),
           UNCHANGED <<startup, lastContents>>
    PROVE  OneChange' /\ ~Server!Settled /\ ~Server!Settled'
<1>1. /\ at[r] = "build" /\ at' = [at EXCEPT ![r] = "replace"]
      /\ config' = [config EXCEPT ![built + 1] = change[r]] /\ mine' = [mine EXCEPT ![r] = built + 1]
      /\ built + 1 \in Apps
      /\ UNCHANGED <<change, server, closed, stopServer>>
  BY BoundsAssumption DEF Server!Accept, IInv, ServersTyped, Apps
<1>2. change[r] = lastContents /\ Server!Starting = {} /\ \A q \in Runners \ {r} : at[q] = "out"
  BY <1>1 DEF OneChange
<1>3. /\ at'[r] = "replace" /\ config'[mine'[r]] = lastContents
      /\ \A q \in Runners \ {r} : at'[q] = "out"
  BY <1>1, <1>2 DEF IInv, ServersTyped, ChangesMeet
<1>4. Server!Starting' = {} /\ Server!Running' = Server!Running
  BY <1>1, <1>2 DEF Server!Starting, Server!Running
<1>5. ~Server!Settled /\ ~Server!Settled'
  BY <1>1, <1>3 DEF Server!Settled, Server!Runners, Runners
<1>6. \A a \in Apps : server'[a] # "spawned"
  BY <1>4 DEF Server!Starting, Server!Apps, Apps
<1>7. Server!Running \subseteq {stopServer}
  BY DEF OneChange
<1> QED BY <1>1, <1>2, <1>3, <1>4, <1>5, <1>6, <1>7 DEF OneChange

LEMMA RejectMeets ==
    ASSUME IInv, OneChange, NEW r \in Runners, Server!Reject(r), UNCHANGED lastContents
    PROVE  OneChange'
<1>1. /\ at[r] = "build" /\ at' = [at EXCEPT ![r] = "out"] /\ change[r] \notin Valid
      /\ UNCHANGED <<change, config, mine, server, closed, stopServer>>
  BY DEF Server!Reject, Server!ReturnsEarly
<1>2. lastContents \notin Valid /\ Server!Starting = {} /\ \A q \in Runners \ {r} : at[q] = "out"
  BY <1>1 DEF OneChange
<1>3. \A q \in Runners : at'[q] = "out"
  BY <1>1, <1>2 DEF IInv, ServersTyped
<1>4. Server!Starting' = {} /\ Server!Running' = Server!Running
  BY <1>1, <1>2 DEF Server!Starting, Server!Running
<1>5. \A a \in Apps : server'[a] # "spawned"
  BY <1>4 DEF Server!Starting, Server!Apps, Apps
<1>6. Server!Running \subseteq {stopServer}
  BY DEF OneChange
<1> QED BY <1>1, <1>2, <1>3, <1>4, <1>5, <1>6 DEF OneChange

\* The application that was served is stopped, whoever it was, so that the new
\* one is alone.
LEMMA ReplaceMeets ==
    ASSUME IInv, OneChange, NEW r \in Runners, Server!Replace(r), UNCHANGED lastContents
    PROVE  OneChange'
<1> DEFINE m == mine[r]
<1>1. /\ at[r] = "replace" /\ at' = [at EXCEPT ![r] = "out"] /\ mine' = [mine EXCEPT ![r] = 0]
      /\ closed' = closed \cup ({stopServer} \ {0})
      /\ UNCHANGED <<change, config, stopServer>>
  BY DEF Server!Replace, Server!Stops
<1>2. m \in Apps /\ server[m] = "none" /\ m # stopServer /\ m \notin closed
  BY <1>1, BoundsAssumption DEF IInv, Handed, StoppedAreDown, Apps
<1>3. /\ server'[m] = "spawned"
      /\ \A a \in Apps \ {m} :
            server'[a] = IF a \in {stopServer} \ {0} /\ server[a] = "serving" THEN "ended" ELSE server[a]
  BY <1>2 DEF Server!Replace, Server!Stop, Server!Stops, Server!Apps, Apps, IInv, ServersTyped, Stages
<1>4. /\ config[m] = lastContents /\ Server!Starting = {} /\ \A q \in Runners \ {r} : at[q] = "out"
      /\ Server!Running \subseteq {stopServer}
  BY <1>1 DEF OneChange
<1>5. \A q \in Runners : at'[q] = "out"
  BY <1>1, <1>4 DEF IInv, ServersTyped
<1>6. Server!Starting' = {m}
  <2>1. \A a \in Apps : server[a] \notin {"spawned", "created"}
    BY <1>4 DEF Server!Starting, Server!Apps, Apps
  <2>2. \A a \in Apps \ {m} : server'[a] \notin {"spawned", "created"}
    BY <1>3, <2>1
  <2> QED BY <1>2, <1>3, <2>2 DEF Server!Starting, Server!Apps, Apps
<1>7. Server!Running' = {}
  <2> SUFFICES ASSUME NEW a \in Apps, server'[a] \in {"created", "serving", "ended"}, a \notin closed'
               PROVE  FALSE
    BY DEF Server!Running, Server!Apps, Apps
  <2>1. a # m /\ a \notin closed
    BY <1>1, <1>3
  <2>2. server[a] \in {"created", "serving", "ended"}
    BY <1>3, <2>1
  <2>3. a = stopServer
    BY <1>4, <2>1, <2>2 DEF Server!Running, Server!Apps, Apps
  <2>4. a # 0
    BY BoundsAssumption DEF Apps
  <2> QED BY <1>1, <2>3, <2>4
<1>8. ~Server!Settled' /\ m \notin closed'
  BY <1>1, <1>2, <1>6 DEF Server!Settled
<1>9. config'[m] = lastContents'
  BY <1>1, <1>4
<1> HIDE DEF m
<1> QED BY <1>5, <1>6, <1>7, <1>8, <1>9 DEF OneChange

LEMMA CreateMeets ==
    ASSUME IInv, OneChange, NEW a \in Apps, Server!CreateServer(a), UNCHANGED <<startup, lastContents>>
    PROVE  OneChange' /\ ~Server!Settled
<1>1. /\ server[a] = "spawned" /\ server' = [server EXCEPT ![a] = "created"]
      /\ stopServer' = a
      /\ UNCHANGED <<at, change, config, mine, closed>>
  BY DEF Server!CreateServer, Server!AssignStop
<1>2. server'[a] = "created" /\ \A b \in Apps \ {a} : server'[b] = server[b]
  BY <1>1 DEF IInv, ServersTyped
<1>3. a \in Server!Starting
  BY <1>1 DEF Server!Starting, Server!Apps, Apps
<1>4. /\ \A b \in Server!Starting : b = a /\ config[a] = lastContents /\ a \notin closed
      /\ Server!Running = {} /\ \A r \in Runners : at[r] = "out"
  BY <1>1, <1>3 DEF OneChange, IInv, ServersTyped
<1>5. Server!Starting' = {a}
  <2>1. \A b \in Apps \ {a} : server[b] \notin {"spawned", "created"}
    BY <1>4 DEF Server!Starting, Server!Apps, Apps
  <2> QED BY <1>2, <2>1 DEF Server!Starting, Server!Apps, Apps
<1>6. Server!Running' \subseteq {stopServer'}
  <2>1. \A b \in Apps \ {a} : b \notin Server!Running
    BY <1>4
  <2>2. \A b \in Apps \ {a} : b \notin Server!Running'
    BY <1>1, <1>2, <2>1 DEF Server!Running, Server!Apps, Apps
  <2> QED BY <1>1, <2>2 DEF Server!Running, Server!Apps, Apps
<1>7. \A b \in Apps : server'[b] # "spawned"
  BY <1>2, <1>5 DEF Server!Starting, Server!Apps, Apps
<1>8. ~Server!Settled /\ ~Server!Settled'
  BY <1>3, <1>5 DEF Server!Settled
<1> QED BY <1>1, <1>3, <1>4, <1>5, <1>6, <1>7, <1>8 DEF OneChange

\* Nobody else has the port: what is served was not stopped, so it is stopServer's.
LEMMA ListenMeets ==
    ASSUME IInv, OneChange, NEW a \in Apps, Server!Listen(a), UNCHANGED <<startup, lastContents>>
    PROVE  OneChange' /\ ~Server!Settled
<1>1. /\ server[a] = "created"
      /\ server' = [server EXCEPT ![a] = IF a \in closed \/ Server!PortTaken(a) THEN "ended" ELSE "serving"]
      /\ UNCHANGED <<at, change, config, mine, closed, stopServer>>
  BY DEF Server!Listen
<1>2. a \in Server!Starting
  BY <1>1 DEF Server!Starting, Server!Apps, Apps
<1>3. /\ \A b \in Server!Starting : b = a
      /\ config[a] = lastContents /\ a \notin closed
      /\ Server!Running \subseteq {stopServer} /\ \A r \in Runners : at[r] = "out"
  BY <1>2 DEF OneChange, IInv, ServersTyped
<1>4. a = stopServer
  BY <1>1, <1>3 DEF Server!Running, Server!Apps, Apps
<1>5. \A b \in Apps : server[b] # "serving"
  <2> SUFFICES ASSUME NEW b \in Apps, server[b] = "serving" PROVE FALSE
    OBVIOUS
  <2>1. b \notin closed
    BY DEF IInv, StoppedAreDown
  <2>2. b = stopServer
    BY <1>3, <2>1 DEF Server!Running, Server!Apps, Apps
  <2> QED BY <1>1, <1>4, <2>2
<1>6. ~Server!PortTaken(a)
  BY <1>5 DEF Server!PortTaken, Server!Serving, Server!Apps, Apps
<1>7. server'[a] = "serving" /\ \A b \in Apps \ {a} : server'[b] = server[b]
  BY <1>1, <1>3, <1>6 DEF IInv, ServersTyped
<1>8. Server!Starting' = {}
  BY <1>3, <1>7 DEF Server!Starting, Server!Apps, Apps
<1>9. Server!Serving' = {a}
  BY <1>5, <1>7 DEF Server!Serving, Server!Apps, Apps
<1>10. Server!Running' \subseteq {stopServer'}
  <2>1. \A b \in Apps \ {a} : b \in Server!Running' => b \in Server!Running
    BY <1>1, <1>7 DEF Server!Running, Server!Apps, Apps
  <2>2. Server!Running' \subseteq Apps
    BY DEF Server!Running, Server!Apps, Apps
  <2> QED BY <1>1, <1>3, <1>4, <2>1, <2>2
<1>11. \A b \in Apps : server'[b] # "spawned"
  BY <1>8 DEF Server!Starting, Server!Apps, Apps
<1>12. ~Server!Settled
  BY <1>2 DEF Server!Settled
<1> QED BY <1>1, <1>3, <1>8, <1>9, <1>10, <1>11, <1>12 DEF OneChange

LEMMA SameMeets ==
    ASSUME OneChange, UNCHANGED <<startup, lastContents, at, change, config, mine, server, closed, stopServer>>
    PROVE  OneChange' /\ Server!Settled' = Server!Settled
  BY DEF OneChange, Server!Starting, Server!Running, Server!Serving, Server!Settled

--------------------------------------------------------------------------------
\* What an edit keeps when nothing is being reloaded, and when nothing waits to be.
LEMMA EditKeepsReload ==
    ASSUME IInv, ReloadInv, Edit PROVE ReloadInv'
<1> USE DEF ReloadInv
<1>1. /\ UNCHANGED <<startup, watcherAt, timer, mu, cb, parsed, lastContents, lastIncludes>>
      /\ UNCHANGED serverVars /\ pace' \in {"quiet", "pending", "reload"}
      /\ pace' # "reload" => pace # "reload" /\ AtRest
      /\ pace' = "quiet" => pace = "quiet" /\ AtRest /\ Watch!Quiet
  <2>1. UNCHANGED <<startup, watcherAt, timer, mu, cb, parsed, lastContents, lastIncludes>>
    BY EditDoes DEF Edit
  <2>2. pace' = IF pace = "reload" \/ ~AtRest THEN "reload"
                ELSE IF pace = "pending" \/ ~Watch!Quiet THEN "pending" ELSE "quiet"
    BY DEF Edit
  <2>3. pace' # "reload" => pace # "reload" /\ AtRest
    BY <2>2
  <2>4. pace' = "quiet" => pace = "quiet" /\ AtRest /\ Watch!Quiet
    BY <2>2
  <2> QED BY <2>1, <2>3, <2>4 DEF Edit
<1>2. PICK f \in Files, text \in Texts \union {Absent} :
         /\ disk' = [disk EXCEPT ![f] = text]
         /\ everAbsent' = (everAbsent \/ text = Absent)
         /\ \/ f \notin watched /\ UNCHANGED <<watched, events>>
            \/ /\ f \in watched /\ text # Absent /\ watched' = watched
               /\ events' = Append(events, <<"write", f>>)
            \/ /\ f \in watched /\ watched' = watched \ {f}
               /\ \E kind \in {"rename", "remove"} : events' = Append(events, <<kind, f>>)
  BY EditDoes DEF Edit
<1>3. WatchInv'
  BY WatchEdited DEF Edit
<1>4. ChangesMeet'
  BY <1>1 DEF ChangesMeet, serverVars, Watch!CallbackRunning
<1>5. events \in Seq(Events) /\ watched \subseteq Files
  BY DEF WatchInv, WatchTyped, Events
<1>6. events' = <<>> => f \notin watched /\ watched' = watched /\ events = <<>>
  <2>1. \A e \in Events : Append(events, e) # <<>>
    BY <1>5
  <2>2. \A kind \in {"write", "rename", "remove"} : <<kind, f>> \in Events
    BY DEF Events
  <2> QED BY <1>2, <2>1, <2>2
<1>7. f # MainFile => Watch!Included(disk') = Watch!Included(disk)
  BY <1>2 DEF Watch!Included, WatchInv, WatchTyped, Composed
<1>8. f \notin Watch!Included(disk) =>
         /\ Watch!Included(disk') = Watch!Included(disk)
         /\ Watch!ParseOK(disk') <=> Watch!ParseOK(disk)
         /\ Watch!Parse(disk') = Watch!Parse(disk)
  <2> SUFFICES ASSUME f \notin Watch!Included(disk)
               PROVE  /\ Watch!Included(disk') = Watch!Included(disk)
                      /\ Watch!ParseOK(disk') <=> Watch!ParseOK(disk)
                      /\ Watch!Parse(disk') = Watch!Parse(disk)
    OBVIOUS
  <2>1. f # MainFile
    BY DEF Watch!Included
  <2>2. \A g \in Watch!Included(disk) : disk'[g] = disk[g]
    BY <1>2, FilesAssumption DEF WatchInv, WatchTyped, Composed, Watch!Included
  <2> QED BY <1>7, <2>1, <2>2 DEF Watch!ParseOK, Watch!Parse
<1>9. pace' # "reload" => ParsedCurrent'
  BY <1>1 DEF AtRest, ParsedCurrent, Watch!CallbackRunning, serverVars, Server!Settled, Server!Starting
<1>10. pace' # "reload" => Noticed'
  <2> SUFFICES ASSUME pace' # "reload", Watch!Quiet'
               PROVE  /\ Watch!ParseOK(disk') /\ Watch!Included(disk') \subseteq watched' => Current'
                      /\ ~everAbsent' => Watch!Included(disk') \subseteq lastIncludes'
    BY DEF Noticed
  <2>1. Watch!Quiet /\ f \notin watched /\ watched' = watched
    BY <1>1, <1>6 DEF Watch!Quiet, Watch!CallbackRunning
  <2>2. Noticed
    BY <1>1
  <2>3. ASSUME Watch!ParseOK(disk'), Watch!Included(disk') \subseteq watched' PROVE Current'
    <3>1. f \notin Watch!Included(disk)
      BY <2>1, <2>3, <1>7 DEF Watch!Included
    <3> QED BY <1>1, <1>8, <2>1, <2>2, <2>3, <3>1 DEF Noticed, Current
  <2>4. ASSUME ~everAbsent' PROVE Watch!Included(disk') \subseteq lastIncludes'
    <3>1. ~everAbsent /\ Watch!Included(disk) \subseteq lastIncludes
      BY <1>2, <2>1, <2>2, <2>4 DEF Noticed
    <3>2. \A g \in lastIncludes : g \in watched
      BY <2>1, <3>1 DEF WatchInv, LostWatch, Watch!Quiet
    <3> QED BY <1>1, <1>8, <2>1, <3>1, <3>2
  <2> QED BY <2>3, <2>4
<1>11. pace' # "reload" => OneChange'
  BY <1>1, SameMeets DEF serverVars
<1>12. pace' = "quiet" => OneByOne'
  <2> SUFFICES ASSUME pace' = "quiet" PROVE OneByOne'
    OBVIOUS
  <2>1. OneByOne /\ Watch!Quiet
    BY <1>1
  <2>2. watched' \subseteq lastIncludes'
    BY <1>1, <1>2, <2>1 DEF OneByOne
  <2>3. startup' = "done" /\ watcherAt' = "select" /\ timer' = "off" /\ ~Watch!CallbackRunning'
    BY <1>1, <2>1 DEF Watch!Quiet, Watch!CallbackRunning
  <2>4. events' # <<>> => Len(events') = 1 /\ \A g \in watched' : ~LostWatch(g)'
    <3>1. events = <<>>
      BY <2>1 DEF Watch!Quiet
    <3>2. \A e : Append(<<>>, e) = <<e>> /\ Len(<<e>>) = 1 /\ <<e>>[1] = e
      OBVIOUS
    <3>3. CASE f \notin watched /\ UNCHANGED <<watched, events>>
      BY <3>1, <3>3
    <3>4. CASE watched' = watched /\ events' = Append(events, <<"write", f>>)
      <4>1. Len(events') = 1 /\ events'[1] = <<"write", f>>
        BY <3>1, <3>2, <3>4
      <4>2. \A i \in 1..Len(events') : events'[i][1] = "write"
        BY <4>1
      <4> QED BY <4>1, <4>2 DEF LostWatch
    <3>5. ASSUME NEW kind \in {"rename", "remove"}, watched' = watched \ {f},
                 events' = Append(events, <<kind, f>>)
          PROVE  Len(events') = 1 /\ \A g \in watched' : ~LostWatch(g)'
      <4>1. Len(events') = 1 /\ events'[1] = <<kind, f>>
        BY <3>1, <3>2, <3>5
      <4>2. \A i \in 1..Len(events') : events'[i][2] = f
        BY <4>1
      <4>3. \A g \in watched' : g # f
        BY <3>5
      <4> QED BY <4>1, <4>2, <4>3 DEF LostWatch
    <3> QED BY <1>2, <3>3, <3>4, <3>5
  <2> QED BY <2>2, <2>3, <2>4 DEF OneByOne
<1> QED BY <1>1, <1>3, <1>4, <1>9, <1>10, <1>11, <1>12

LEMMA StartKeepsReload ==
    ASSUME IInv, ReloadInv, StartWatching PROVE ReloadInv'
<1> USE DEF ReloadInv
<1>1. /\ startup = "parsed" /\ startup' = "changing" /\ watcherAt' = "select"
      /\ UNCHANGED <<disk, events, timer, mu, cb, parsed, lastContents, lastIncludes, everAbsent, pace>>
      /\ watched' = watched \union {f \in lastIncludes : disk[f] # Absent}
      /\ Server!BeginChange(Main, lastContents)
  BY DEF StartWatching, Watch!StartWatching, Watch!Rewatched
<1>2. /\ at' = [at EXCEPT ![Main] = "build"] /\ change' = [change EXCEPT ![Main] = lastContents]
      /\ UNCHANGED <<built, config, mine, server, closed, stopServer>>
  BY <1>1 DEF Server!BeginChange
<1>3. WatchInv'
  BY WatchBegun DEF StartWatching
<1>4. Main \in Runners /\ lastContents \in Composed /\ \A b \in Callbacks : b \in Runners /\ b # Main
  BY NamesAssumption DEF Runners, WatchInv, WatchTyped
<1>5. ChangesMeet'
  BY <1>1, <1>2, <1>4 DEF ChangesMeet, IInv, ServersTyped, Watch!CallbackRunning
<1>6. built = 0 /\ \A a \in Apps : server[a] = "none"
  BY <1>1, BoundsAssumption DEF ChangesMeet, IInv, Handed, Apps
<1>7. \A r \in Runners : at[r] = "out"
  BY <1>1, <1>4 DEF ChangesMeet, Watch!CallbackRunning, Runners
<1>8. Server!Starting = {} /\ Server!Running = {}
  BY <1>6 DEF Server!Starting, Server!Running, Server!Apps, Apps
<1>9. OneChange'
  BY <1>1, <1>4, <1>7, <1>8, BeginMeets
<1>10. pace' # "reload" => ParsedCurrent' /\ Noticed'
  <2> SUFFICES ASSUME pace # "reload" PROVE ParsedCurrent' /\ Noticed'
    BY <1>1
  <2>1. ParsedCurrent'
    BY <1>1 DEF ParsedCurrent, Current, Watch!CallbackRunning
  <2> QED BY <1>1, <2>1 DEF Noticed, Watch!Quiet
<1>11. pace' = "quiet" => OneByOne'
  <2> SUFFICES ASSUME pace = "quiet" PROVE OneByOne'
    BY <1>1
  <2>1. events = <<>> /\ timer = "off" /\ ~Watch!CallbackRunning
    BY <1>1 DEF ParsedCurrent
  <2>2. watched' \subseteq lastIncludes
    BY <1>1 DEF OneByOne
  <2> QED BY <1>1, <2>1, <2>2 DEF OneByOne, Watch!CallbackRunning
<1> QED BY <1>1, <1>3, <1>5, <1>9, <1>10, <1>11

LEMMA BuildKeepsReload ==
    ASSUME IInv, ReloadInv, NEW r \in Runners, Build(r) PROVE ReloadInv'
<1> USE DEF ReloadInv
<1>1. UNCHANGED <<watchVars, pace>> /\ Server!Accept(r)
  BY DEF Build
<1>2. UNCHANGED <<disk, watched, events, startup, watcherAt, timer, mu, cb, parsed, lastContents,
                  lastIncludes, edits, everAbsent, pace>>
  BY <1>1 DEF watchVars
<1>3. WatchInv'
  BY <1>2 DEF WatchInv, WatchTyped, LostWatch
<1>4. /\ at[r] = "build" /\ at' = [at EXCEPT ![r] = "replace"] /\ built + 1 \in Apps
      /\ config' = [config EXCEPT ![built + 1] = change[r]] /\ change' = change
  BY <1>1, BoundsAssumption DEF Server!Accept, IInv, ServersTyped, Apps
<1>5. \A q \in Runners : at'[q] # "out" <=> at[q] # "out"
  BY <1>4 DEF IInv, ServersTyped
<1>6. startup # "parsed"
  BY <1>4 DEF ChangesMeet, Runners, Watch!CallbackRunning
<1>7. ChangesMeet'
  BY <1>2, <1>4, <1>5, <1>6 DEF ChangesMeet, Runners
<1>8. ASSUME pace # "reload" PROVE ParsedCurrent' /\ Noticed' /\ OneChange'
  <2>1. OneChange' /\ ~Server!Settled
    BY <1>1, <1>2, <1>8, AcceptMeets
  <2>2. Current
    BY <1>8, <2>1 DEF ParsedCurrent
  <2>3. ParsedCurrent'
    BY <1>2, <1>8, <2>2 DEF ParsedCurrent, Current, Watch!CallbackRunning
  <2>4. Noticed'
    BY <1>2, <1>8 DEF Noticed, Current, Watch!Quiet, Watch!CallbackRunning
  <2> QED BY <2>1, <2>3, <2>4
<1>9. pace' = "quiet" => OneByOne'
  BY <1>2 DEF OneByOne, LostWatch, Watch!CallbackRunning
<1> QED BY <1>2, <1>3, <1>7, <1>8, <1>9

LEMMA StarterKeepsReload ==
    ASSUME IInv, ReloadInv, NEW a \in Apps, StarterStep(a) PROVE ReloadInv'
<1> USE DEF ReloadInv
<1>1. UNCHANGED <<watchVars, pace>> /\ (Server!CreateServer(a) \/ Server!Listen(a))
  BY DEF StarterStep, Server!StarterStep
<1>2. UNCHANGED <<disk, watched, events, startup, watcherAt, timer, mu, cb, parsed, lastContents,
                  lastIncludes, edits, everAbsent, pace>>
  BY <1>1 DEF watchVars
<1>3. WatchInv'
  BY <1>2 DEF WatchInv, WatchTyped, LostWatch
<1>4. UNCHANGED <<at, change, config, built>>
  BY <1>1 DEF Server!CreateServer, Server!Listen
<1>5. ChangesMeet'
  BY <1>2, <1>4 DEF ChangesMeet, Watch!CallbackRunning
<1>6. ASSUME pace # "reload" PROVE ParsedCurrent' /\ Noticed' /\ OneChange'
  <2>1. OneChange' /\ ~Server!Settled
    BY <1>1, <1>2, <1>6, CreateMeets, ListenMeets
  <2>2. Current
    BY <1>6, <2>1 DEF ParsedCurrent
  <2>3. ParsedCurrent'
    BY <1>2, <1>6, <2>2 DEF ParsedCurrent, Current, Watch!CallbackRunning
  <2>4. Noticed'
    BY <1>2, <1>6 DEF Noticed, Current, Watch!Quiet, Watch!CallbackRunning
  <2> QED BY <2>1, <2>3, <2>4
<1>7. pace' = "quiet" => OneByOne'
  BY <1>2 DEF OneByOne, LostWatch, Watch!CallbackRunning
<1> QED BY <1>2, <1>3, <1>5, <1>6, <1>7

LEMMA FirstReturnKeepsReload ==
    ASSUME IInv, ReloadInv, FirstChangeReturns PROVE ReloadInv'
<1> USE DEF ReloadInv
<1>1. /\ startup = "changing" /\ startup' = "done"
      /\ UNCHANGED <<disk, watched, events, watcherAt, timer, mu, cb, parsed, lastContents,
                     lastIncludes, edits, everAbsent, pace>>
      /\ Server!Reject(Main) \/ Server!Replace(Main)
  BY DEF FirstChangeReturns, Watch!FirstChangeReturns
<1>2. WatchInv'
  BY WatchBegun DEF FirstChangeReturns
<1>3. Main \in Runners /\ \A b \in Callbacks : b \in Runners /\ b # Main
  BY NamesAssumption DEF Runners
<1>4. at' = [at EXCEPT ![Main] = "out"] /\ UNCHANGED <<change, config>>
  BY <1>1 DEF Server!Reject, Server!ReturnsEarly, Server!Replace
<1>5. ChangesMeet'
  BY <1>1, <1>3, <1>4 DEF ChangesMeet, IInv, ServersTyped
<1>6. ASSUME pace # "reload" PROVE ParsedCurrent' /\ Noticed' /\ OneChange'
  <2>1. OneChange'
    BY <1>1, <1>3, <1>6, RejectMeets, ReplaceMeets
  <2>2. Current' /\ lastIncludes' = Watch!Included(disk') /\ ~Watch!CallbackRunning
    BY <1>1, <1>6 DEF ParsedCurrent, Current
  <2>3. ParsedCurrent'
    BY <1>1, <1>6, <2>2 DEF ParsedCurrent
  <2> QED BY <2>1, <2>2, <2>3 DEF Noticed
<1>7. pace' = "quiet" => OneByOne'
  BY <1>1 DEF OneByOne, LostWatch, Watch!CallbackRunning
<1> QED BY <1>1, <1>2, <1>5, <1>6, <1>7

\* A callback holds mu only while it is at its change.
LEMMA FreeLock == WatchInv /\ mu = NoOne => \A b \in Callbacks : cb[b] # "change"
  BY NamesAssumption DEF WatchInv, WatchTyped

LEMMA WatcherKeepsReload ==
    ASSUME IInv, ReloadInv, WatcherStep PROVE ReloadInv'
<1> USE DEF ReloadInv
<1>1. /\ UNCHANGED <<disk, watched, startup, mu, cb, parsed, lastContents, everAbsent, pace, serverVars>>
      /\ \/ /\ watcherAt = "settling" /\ watcherAt' = "select" /\ timer' = "armed"
            /\ UNCHANGED <<events, lastIncludes>>
         \/ /\ watcherAt = "select" /\ events # <<>> /\ events' = Tail(events)
            /\ \/ lastIncludes' = lastIncludes
               \/ /\ mu = NoOne /\ Head(events)[1] # "write"
                  /\ lastIncludes' = lastIncludes \ {Head(events)[2]}
            /\ \/ timer' = "armed" /\ watcherAt' = watcherAt
               \/ timer' = timer /\ watcherAt' = "settling"
  <2>1. CASE Watch!Settled
    BY <2>1 DEF WatcherStep, Watch!Settled, Watch!Debounce
  <2>2. CASE Watch!HandleWrite
    BY <2>2 DEF WatcherStep, Watch!HandleWrite, Watch!Debounce
  <2>3. CASE Watch!HandleRename
    BY <2>3 DEF WatcherStep, Watch!HandleRename, Watch!DeleteLastInclude
  <2>4. CASE Watch!HandleRemove
    BY <2>4 DEF WatcherStep, Watch!HandleRemove, Watch!DeleteLastInclude, Watch!Debounce
  <2> QED BY <2>1, <2>2, <2>3, <2>4 DEF WatcherStep, Watch!WatcherStep
<1>2. WatchInv'
  BY WatcherKeeps DEF WatcherStep
<1>3. startup # "parsed"
  BY <1>1 DEF ChangesMeet
<1>4. ChangesMeet'
  BY <1>1, <1>3 DEF ChangesMeet, serverVars
<1>5. ASSUME pace # "reload" PROVE ParsedCurrent' /\ Noticed' /\ OneChange'
  <2>1. OneChange' /\ Server!Settled' = Server!Settled
    BY <1>1, <1>5, SameMeets DEF serverVars
  <2>2. startup = "done"
    BY <1>1, <1>5 DEF ParsedCurrent
  <2>3. (\E b \in Callbacks : cb[b] = "change") => lastIncludes' = lastIncludes
    BY <1>1, FreeLock
  <2>4. ParsedCurrent'
    BY <1>1, <1>5, <2>1, <2>2, <2>3 DEF ParsedCurrent, Current
  <2>5. ~Watch!Quiet'
    BY <1>1 DEF Watch!Quiet
  <2> QED BY <2>1, <2>4, <2>5 DEF Noticed
<1>6. ASSUME pace = "quiet" PROVE OneByOne'
  <2>1. OneByOne /\ startup = "done"
    BY <1>1, <1>6 DEF ParsedCurrent
  <2>2. CASE watcherAt = "settling"
    BY <1>1, <2>1, <2>2 DEF OneByOne, Watch!CallbackRunning
  <2>3. CASE watcherAt = "select" /\ events # <<>> /\ events' = Tail(events)
    <3>1. /\ Len(events) = 1 /\ \A f \in watched : ~LostWatch(f)
          /\ timer = "off" /\ ~Watch!CallbackRunning
      BY <2>1, <2>3 DEF OneByOne
    <3>2. events \in Seq(Events)
      BY DEF WatchInv, WatchTyped, Events
    <3>3. events' = <<>> /\ (Head(events)[1] # "write" => LostWatch(Head(events)[2]))
      BY <2>3, <3>1, <3>2, EventHandled
    <3>4. watched' \subseteq lastIncludes'
      BY <1>1, <2>1, <2>3, <3>1, <3>3 DEF OneByOne
    <3> QED BY <1>1, <2>1, <2>3, <3>1, <3>3, <3>4 DEF OneByOne, Watch!CallbackRunning
  <2> QED BY <1>1, <2>2, <2>3
<1> QED BY <1>1, <1>2, <1>4, <1>5, <1>6

LEMMA FireKeepsReload ==
    ASSUME IInv, ReloadInv, Fire PROVE ReloadInv'
<1> USE DEF ReloadInv
<1>1. PICK b \in Callbacks : Watch!Fire(b)
  BY DEF Fire
<1>2. /\ timer = "armed" /\ cb[b] = "idle" /\ timer' = "off" /\ cb' = [cb EXCEPT ![b] = "parse"]
      /\ UNCHANGED <<disk, watched, events, startup, watcherAt, mu, parsed, lastContents,
                     lastIncludes, edits, everAbsent, serverVars, pace>>
  BY <1>1 DEF Fire, Watch!Fire
<1>3. startup # "parsed"
  BY <1>2 DEF ChangesMeet
<1>4. WatchInv'
  BY <1>1, <1>3, CallbackKeeps
<1>5. cb'[b] = "parse" /\ \A c \in Callbacks \ {b} : cb'[c] = cb[c]
  BY <1>2 DEF WatchInv, WatchTyped
<1>6. ChangesMeet'
  BY <1>2, <1>3, <1>5 DEF ChangesMeet, serverVars
<1>7. ASSUME pace # "reload" PROVE ParsedCurrent' /\ Noticed' /\ OneChange'
  <2>1. OneChange' /\ Server!Settled' = Server!Settled
    BY <1>2, <1>7, SameMeets DEF serverVars
  <2>2. startup = "done"
    BY <1>2, <1>7 DEF ParsedCurrent
  <2>3. ParsedCurrent'
    BY <1>2, <1>5, <1>7, <2>1, <2>2 DEF ParsedCurrent, Current
  <2>4. ~Watch!Quiet'
    BY <1>5 DEF Watch!Quiet, Watch!CallbackRunning
  <2> QED BY <2>1, <2>3, <2>4 DEF Noticed
<1>8. ASSUME pace = "quiet" PROVE OneByOne'
  <2>1. OneByOne
    BY <1>8
  <2>2. events = <<>> /\ watcherAt # "settling" /\ watched \subseteq lastIncludes
    BY <1>2, <2>1 DEF OneByOne
  <2> QED BY <1>2, <2>2 DEF OneByOne
<1> QED BY <1>2, <1>4, <1>6, <1>7, <1>8

LEMMA ReadKeepsReload ==
    ASSUME IInv, ReloadInv, NEW b \in Callbacks, ReadFiles(b) PROVE ReloadInv'
<1> USE DEF ReloadInv
<1>1. /\ cb[b] = "parse"
      /\ UNCHANGED <<disk, watched, events, startup, watcherAt, timer, mu, lastContents,
                     lastIncludes, edits, everAbsent, serverVars, pace>>
      /\ \/ /\ Watch!ParseOK(disk) /\ parsed' = [parsed EXCEPT ![b] = Watch!Parse(disk)]
            /\ cb' = [cb EXCEPT ![b] = "lock"]
         \/ ~Watch!ParseOK(disk) /\ cb' = [cb EXCEPT ![b] = "idle"] /\ parsed' = parsed
  BY DEF ReadFiles, Watch!ReadFiles
<1>2. startup # "parsed" /\ Watch!CallbackRunning
  BY <1>1 DEF ChangesMeet, Watch!CallbackRunning
<1>3. WatchInv'
  BY <1>2, CallbackKeeps DEF ReadFiles
<1>4. /\ \A c \in Callbacks \ {b} : cb'[c] = cb[c] /\ parsed'[c] = parsed[c]
      /\ \/ Watch!ParseOK(disk) /\ cb'[b] = "lock" /\ parsed'[b] = Watch!Parse(disk)
         \/ ~Watch!ParseOK(disk) /\ cb'[b] = "idle"
  BY <1>1 DEF WatchInv, WatchTyped
<1>5. ChangesMeet'
  BY <1>1, <1>2, <1>4 DEF ChangesMeet, serverVars
<1>6. ASSUME pace # "reload" PROVE ParsedCurrent' /\ Noticed' /\ OneChange'
  <2>1. OneChange' /\ Server!Settled' = Server!Settled
    BY <1>1, <1>6, SameMeets DEF serverVars
  <2>2. startup = "done"
    BY <1>2, <1>6 DEF ParsedCurrent
  <2>3. \A c \in Callbacks : cb'[c] = "lock" => Watch!ParseOK(disk) /\ parsed'[c] = Watch!Parse(disk)
    BY <1>4, <1>6 DEF ParsedCurrent
  <2>4. \A c \in Callbacks : cb'[c] = "change" => cb[c] = "change"
    BY <1>4
  <2>5. ParsedCurrent'
    BY <1>1, <1>6, <2>1, <2>2, <2>3, <2>4 DEF ParsedCurrent, Current
  <2>6. CASE Watch!ParseOK(disk)
    BY <1>4, <2>1, <2>5, <2>6 DEF Noticed, Watch!Quiet, Watch!CallbackRunning
  <2>7. CASE ~Watch!ParseOK(disk)
    <3>1. everAbsent
      BY <2>7, FilesAssumption DEF WatchInv, Watch!ParseOK, Watch!Included
    <3> QED BY <1>1, <2>1, <2>5, <2>7, <3>1 DEF Noticed
  <2> QED BY <2>6, <2>7
<1>7. ASSUME pace = "quiet" PROVE OneByOne'
  <2>1. OneByOne
    BY <1>7
  <2>2. events = <<>> /\ watcherAt # "settling" /\ timer # "armed" /\ watched \subseteq lastIncludes
    BY <1>2, <2>1 DEF OneByOne
  <2> QED BY <1>1, <2>2 DEF OneByOne
<1> QED BY <1>1, <1>3, <1>5, <1>6, <1>7

\* What a callback that gets the lock does to the watches.
LEMMA Compared ==
    ASSUME ReloadInv, startup # "parsed", NEW b \in Callbacks, Watch!Compare(b)
    PROVE  /\ cb[b] = "lock" /\ Watch!CallbackRunning /\ \A c \in Callbacks : cb[c] # "change"
           /\ pace # "reload" => /\ startup = "done" /\ Watch!ParseOK(disk)
                                 /\ parsed[b] = Watch!Parse(disk)
                                 /\ lastIncludes' = Watch!Included(disk)
           /\ pace = "quiet" => /\ watched' \subseteq lastIncludes'
                                /\ events = <<>> /\ watcherAt # "settling" /\ timer # "armed"
<1> USE DEF ReloadInv
<1>1. /\ cb[b] = "lock" /\ mu = NoOne
      /\ watched' = (watched \ (lastIncludes \ Watch!ParsedIncludes(b)))
                      \union {f \in Watch!ParsedIncludes(b) \ lastIncludes : disk[f] # Absent}
      /\ lastIncludes' = Watch!ParsedIncludes(b)
  BY DEF Watch!Compare, Watch!Rewatched
<1>2. Watch!CallbackRunning /\ \A c \in Callbacks : cb[c] # "change"
  BY <1>1, FreeLock DEF Watch!CallbackRunning
<1>3. ASSUME pace # "reload"
      PROVE  /\ startup = "done" /\ Watch!ParseOK(disk) /\ parsed[b] = Watch!Parse(disk)
             /\ lastIncludes' = Watch!Included(disk)
  <2>1. startup = "done" /\ Watch!ParseOK(disk) /\ parsed[b] = Watch!Parse(disk)
    BY <1>1, <1>2, <1>3 DEF ParsedCurrent
  <2> QED BY <1>1, <2>1, ParsedFiles DEF WatchInv, WatchTyped
<1>4. ASSUME pace = "quiet"
      PROVE  /\ watched' \subseteq lastIncludes'
             /\ events = <<>> /\ watcherAt # "settling" /\ timer # "armed"
  <2>1. OneByOne
    BY <1>4
  <2> QED BY <1>1, <1>2, <2>1 DEF OneByOne
<1> QED BY <1>1, <1>2, <1>3, <1>4

LEMMA SkipKeepsReload ==
    ASSUME IInv, ReloadInv, NEW b \in Callbacks, Skip(b) PROVE ReloadInv'
<1>1. /\ Watch!Compare(b) /\ parsed[b] = lastContents /\ cb' = [cb EXCEPT ![b] = "idle"]
      /\ parsed' = [parsed EXCEPT ![b] = Watch!NothingParsed]
      /\ UNCHANGED <<disk, events, startup, watcherAt, timer, mu, lastContents, edits, everAbsent,
                     serverVars, pace>>
  BY DEF Skip, Watch!Skip, Watch!Unchanged
<1>2. startup # "parsed"
  BY <1>1 DEF ReloadInv, ChangesMeet, Watch!CallbackRunning, Watch!Compare
<1>3. WatchInv'
  BY <1>2, CallbackKeeps DEF Skip, ReloadInv
<1>4. cb'[b] = "idle" /\ \A c \in Callbacks \ {b} : cb'[c] = cb[c] /\ parsed'[c] = parsed[c]
  BY <1>1 DEF ReloadInv, WatchInv, WatchTyped
<1>5. cb[b] = "lock" /\ \A c \in Callbacks : cb[c] # "change"
  BY <1>1, <1>2, Compared
<1>6. ChangesMeet'
  BY <1>1, <1>2, <1>4, <1>5 DEF ReloadInv, ChangesMeet, serverVars
<1>7. ASSUME pace # "reload" PROVE ParsedCurrent' /\ Noticed' /\ OneChange'
  <2>1. OneChange'
    BY <1>1, <1>7, SameMeets DEF serverVars, ReloadInv
  <2>2. startup = "done" /\ Watch!ParseOK(disk) /\ lastContents = Watch!Parse(disk)
        /\ lastIncludes' = Watch!Included(disk)
    BY <1>1, <1>2, <1>7, Compared
  <2>3. Current' /\ lastIncludes' = Watch!Included(disk')
    BY <1>1, <2>2 DEF Current
  <2>4. \A c \in Callbacks : cb'[c] = "lock" => Watch!ParseOK(disk) /\ parsed'[c] = Watch!Parse(disk)
    BY <1>4, <1>7 DEF ReloadInv, ParsedCurrent
  <2>5. ParsedCurrent'
    BY <1>1, <2>2, <2>3, <2>4 DEF ParsedCurrent
  <2> QED BY <2>1, <2>3, <2>5 DEF Noticed
<1>8. ASSUME pace = "quiet" PROVE OneByOne'
  <2>1. watched' \subseteq lastIncludes' /\ events = <<>> /\ watcherAt # "settling" /\ timer # "armed"
    BY <1>1, <1>2, <1>8, Compared
  <2> QED BY <1>1, <2>1 DEF OneByOne
<1> QED BY <1>1, <1>3, <1>6, <1>7, <1>8 DEF ReloadInv

\* What differs from what is served was parsed when all was at rest.
LEMMA ChangeKeepsReload ==
    ASSUME IInv, ReloadInv, NEW b \in Callbacks, Change(b) PROVE ReloadInv'
<1>1. /\ Watch!Compare(b) /\ parsed[b] # lastContents /\ cb' = [cb EXCEPT ![b] = "change"]
      /\ lastContents' = parsed[b] /\ mu' = b
      /\ UNCHANGED <<disk, events, startup, watcherAt, timer, parsed, edits, everAbsent, pace>>
      /\ Server!BeginChange(b, parsed[b])
  BY DEF Change, Watch!Change, Watch!Unchanged
<1>2. /\ at' = [at EXCEPT ![b] = "build"] /\ change' = [change EXCEPT ![b] = parsed[b]]
      /\ UNCHANGED <<built, config, mine, server, closed, stopServer>>
  BY <1>1 DEF Server!BeginChange
<1>3. startup # "parsed"
  BY <1>1 DEF ReloadInv, ChangesMeet, Watch!CallbackRunning, Watch!Compare
<1>4. WatchInv'
  BY <1>3, CallbackKeeps DEF Change, ReloadInv
<1>5. cb'[b] = "change" /\ \A c \in Callbacks \ {b} : cb'[c] = cb[c]
  BY <1>1 DEF ReloadInv, WatchInv, WatchTyped
<1>6. b \in Runners /\ b # Main /\ Main \in Runners /\ parsed[b] \in Composed
      /\ \A c \in Callbacks : c \in Runners
  BY NamesAssumption DEF Runners, ReloadInv, WatchInv, WatchTyped
<1>7. at'[b] = "build" /\ \A r \in Runners \ {b} : at'[r] = at[r]
  BY <1>2, <1>6 DEF IInv, ServersTyped
<1>8. ChangesMeet'
  <2>1. at'[Main] # "out" <=> startup' = "changing"
    BY <1>1, <1>6, <1>7 DEF ReloadInv, ChangesMeet
  <2>2. \A c \in Callbacks : at'[c] # "out" <=> cb'[c] = "change"
    BY <1>5, <1>6, <1>7 DEF ReloadInv, ChangesMeet
  <2>3. change' \in [Runners -> Composed] /\ config' \in [Apps -> Composed]
    BY <1>2, <1>6 DEF ReloadInv, ChangesMeet
  <2> QED BY <1>1, <1>3, <2>1, <2>2, <2>3 DEF ChangesMeet
<1>9. ASSUME pace # "reload" PROVE ParsedCurrent' /\ Noticed' /\ OneChange'
  <2>1. /\ startup = "done" /\ Watch!ParseOK(disk) /\ parsed[b] = Watch!Parse(disk)
        /\ lastIncludes' = Watch!Included(disk)
    BY <1>1, <1>3, <1>9, Compared
  <2>2. Server!Settled
    BY <1>1, <1>9, <2>1 DEF ReloadInv, ParsedCurrent, Current
  <2>3. Server!Starting = {} /\ (\A r \in Runners : at[r] = "out") /\ Server!Running \subseteq {stopServer}
    BY <1>9, <2>2 DEF Server!Settled, Server!Runners, Runners, ReloadInv, OneChange
  <2>4. OneChange'
    BY <1>1, <1>6, <2>3, BeginMeets DEF ReloadInv
  <2>5. Current' /\ lastIncludes' = Watch!Included(disk')
    BY <1>1, <2>1 DEF Current
  <2>6. \A c \in Callbacks : cb'[c] = "lock" => Watch!ParseOK(disk) /\ parsed'[c] = Watch!Parse(disk)
    BY <1>1, <1>5, <1>9 DEF ReloadInv, ParsedCurrent
  <2>7. ParsedCurrent'
    BY <1>1, <2>1, <2>5, <2>6 DEF ParsedCurrent
  <2> QED BY <2>4, <2>5, <2>7 DEF Noticed
<1>10. ASSUME pace = "quiet" PROVE OneByOne'
  <2>1. watched' \subseteq lastIncludes' /\ events = <<>> /\ watcherAt # "settling" /\ timer # "armed"
    BY <1>1, <1>3, <1>10, Compared
  <2> QED BY <1>1, <2>1 DEF OneByOne
<1> QED BY <1>1, <1>4, <1>8, <1>9, <1>10 DEF ReloadInv

LEMMA ReturnKeepsReload ==
    ASSUME IInv, ReloadInv, NEW b \in Callbacks, ChangeReturns(b) PROVE ReloadInv'
<1>1. /\ cb[b] = "change" /\ cb' = [cb EXCEPT ![b] = "idle"]
      /\ parsed' = [parsed EXCEPT ![b] = Watch!NothingParsed]
      /\ UNCHANGED <<disk, watched, events, startup, watcherAt, timer, lastContents, lastIncludes,
                     edits, everAbsent, pace>>
      /\ Server!Reject(b) \/ Server!Replace(b)
  BY DEF ChangeReturns, Watch!ChangeReturns
<1>2. at' = [at EXCEPT ![b] = "out"] /\ UNCHANGED <<change, config>>
  BY <1>1 DEF Server!Reject, Server!ReturnsEarly, Server!Replace
<1>3. startup # "parsed" /\ Watch!CallbackRunning
  BY <1>1 DEF ReloadInv, ChangesMeet, Watch!CallbackRunning
<1>4. WatchInv'
  BY <1>3, CallbackKeeps DEF ChangeReturns, ReloadInv
<1>5. cb'[b] = "idle" /\ \A c \in Callbacks \ {b} : cb'[c] = cb[c] /\ parsed'[c] = parsed[c]
  BY <1>1 DEF ReloadInv, WatchInv, WatchTyped
<1>6. b \in Runners /\ b # Main /\ Main \in Runners /\ \A c \in Callbacks : c \in Runners
  BY NamesAssumption DEF Runners
<1>7. at'[b] = "out" /\ \A r \in Runners \ {b} : at'[r] = at[r]
  BY <1>2, <1>6 DEF IInv, ServersTyped
<1>8. ChangesMeet'
  <2>1. at'[Main] # "out" <=> startup' = "changing"
    BY <1>1, <1>6, <1>7 DEF ReloadInv, ChangesMeet
  <2>2. \A c \in Callbacks : at'[c] # "out" <=> cb'[c] = "change"
    BY <1>5, <1>6, <1>7 DEF ReloadInv, ChangesMeet
  <2> QED BY <1>1, <1>2, <1>3, <2>1, <2>2 DEF ChangesMeet, ReloadInv
<1>9. ASSUME pace # "reload" PROVE ParsedCurrent' /\ Noticed' /\ OneChange'
  <2>1. OneChange'
    BY <1>1, <1>6, <1>9, RejectMeets, ReplaceMeets DEF ReloadInv
  <2>2. Current' /\ lastIncludes' = Watch!Included(disk') /\ startup = "done"
    BY <1>1, <1>3, <1>9 DEF ReloadInv, ParsedCurrent, Current
  <2>3. \A c \in Callbacks : cb'[c] = "lock" => Watch!ParseOK(disk) /\ parsed'[c] = Watch!Parse(disk)
    BY <1>5, <1>9 DEF ReloadInv, ParsedCurrent
  <2>4. ParsedCurrent'
    BY <1>1, <2>2, <2>3 DEF ParsedCurrent
  <2> QED BY <2>1, <2>2, <2>4 DEF Noticed
<1>10. ASSUME pace = "quiet" PROVE OneByOne'
  <2>1. OneByOne
    BY <1>10 DEF ReloadInv
  <2>2. events = <<>> /\ watcherAt # "settling" /\ timer # "armed" /\ watched \subseteq lastIncludes
    BY <1>3, <2>1 DEF OneByOne
  <2> QED BY <1>1, <2>2 DEF OneByOne
<1> QED BY <1>1, <1>4, <1>8, <1>9, <1>10 DEF ReloadInv

LEMMA SameKeepsReload ==
    ASSUME ReloadInv, UNCHANGED <<watchVars, pace, at, change, built, config, mine, server, closed, stopServer>>
    PROVE  ReloadInv'
<1>1. UNCHANGED <<disk, watched, events, startup, watcherAt, timer, mu, cb, parsed, lastContents,
                  lastIncludes, edits, everAbsent, pace, at, change, built, config, mine, server,
                  closed, stopServer>>
  BY DEF watchVars
<1>2. WatchInv' /\ ChangesMeet'
  BY <1>1 DEF ReloadInv, WatchInv, WatchTyped, LostWatch, ChangesMeet, Watch!CallbackRunning
<1>3. Server!Settled' = Server!Settled
  BY <1>1 DEF Server!Settled, Server!Starting
<1>4. pace # "reload" => ParsedCurrent' /\ Noticed' /\ OneChange'
  BY <1>1, <1>3, SameMeets DEF ReloadInv, ParsedCurrent, Noticed, Current, Watch!Quiet, Watch!CallbackRunning
<1>5. pace = "quiet" => OneByOne'
  BY <1>1 DEF ReloadInv, OneByOne, LostWatch, Watch!CallbackRunning
<1> QED BY <1>1, <1>2, <1>4, <1>5 DEF ReloadInv

LEMMA ReloadStepKeeps == IInv /\ ReloadInv /\ [Next]_vars => ReloadInv'
<1> SUFFICES ASSUME IInv, ReloadInv, [Next]_vars PROVE ReloadInv'
  OBVIOUS
<1>1. CASE Edit \/ StartWatching \/ FirstChangeReturns \/ WatcherStep \/ Fire
  BY <1>1, EditKeepsReload, StartKeepsReload, FirstReturnKeepsReload, WatcherKeepsReload, FireKeepsReload
<1>2. CASE Exit
  BY <1>2, SameKeepsReload DEF Exit, Server!Exit
<1>3. ASSUME NEW r \in {Main} \cup Callbacks, Build(r) PROVE ReloadInv'
  BY <1>3, BuildKeepsReload DEF Runners
<1>4. ASSUME NEW b \in Callbacks, ReadFiles(b) \/ Skip(b) \/ Change(b) \/ ChangeReturns(b)
      PROVE  ReloadInv'
  BY <1>4, ReadKeepsReload, SkipKeepsReload, ChangeKeepsReload, ReturnKeepsReload
<1>5. ASSUME NEW a \in 1..MaxApps, StarterStep(a) PROVE ReloadInv'
  BY <1>5, StarterKeepsReload DEF Apps
<1>6. CASE UNCHANGED vars
  BY <1>6, SameKeepsReload DEF vars, serverVars
<1> QED BY <1>1, <1>2, <1>3, <1>4, <1>5, <1>6 DEF Next

LEMMA ReloadAlways == Spec => [](IInv /\ ReloadInv)
<1>1. Init => IInv /\ ReloadInv
  BY InitIInv, WatchStart
<1>2. (IInv /\ ReloadInv) /\ [Next]_vars => (IInv /\ ReloadInv)'
  BY StepKeeps, ReloadStepKeeps
<1> QED BY <1>1, <1>2, PTL DEF Spec

--------------------------------------------------------------------------------
\* Edits that do not fall into a reload take effect: whatever is edited, by
\* writing in place, by renaming over, moving away or deleting, and however often,
\* when all is quiet and the files of the config are watched, what they say is
\* served, and nothing else (config.go:481-523, main.go:126-184).
THEOREM TakesEffectOnSaveHolds == Spec => []TakesEffectOnSave
<1>1. IInv /\ ReloadInv => TakesEffectOnSave
  <2> SUFFICES ASSUME IInv, ReloadInv, pace # "reload", Watch!Quiet, Server!Settled,
                      Watch!ParseOK(disk), Watch!Included(disk) \subseteq watched,
                      Watch!Parse(disk) \in Valid
               PROVE  {config[a] : a \in Server!Serving} = {Watch!Parse(disk)}
    BY DEF TakesEffectOnSave
  <2>1. lastContents = Watch!Parse(disk)
    BY DEF ReloadInv, Noticed, Current
  <2>2. Server!Serving # {} /\ \A a \in Server!Serving : config[a] = lastContents
    BY <2>1 DEF ReloadInv, OneChange, Watch!Quiet
  <2> QED BY <2>1, <2>2
<1> QED BY <1>1, ReloadAlways, PTL

\* ... and they go on taking effect: while no file was missing, every file of the
\* config is watched again when all is quiet, also one that was saved by renaming
\* another over it (config.go:536-568).
THEOREM AtomicSaveKeepsWatchHolds == Spec => []AtomicSaveKeepsWatch
<1>1. IInv /\ ReloadInv => AtomicSaveKeepsWatch
  <2> SUFFICES ASSUME IInv, ReloadInv, pace # "reload", Watch!Quiet, ~everAbsent
               PROVE  Watch!Included(disk) \subseteq watched
    BY DEF AtomicSaveKeepsWatch, Watch!AtomicSaveKeepsWatch
  <2>1. Watch!Included(disk) \subseteq lastIncludes
    BY DEF ReloadInv, Noticed
  <2>2. \A f \in lastIncludes : f \in watched
    BY DEF ReloadInv, WatchInv, LostWatch, Watch!Quiet
  <2> QED BY <2>1, <2>2
<1> QED BY <1>1, ReloadAlways, PTL

\* A file that dropped out of the config is not watched any more
\* (config.go:482-486), while every edit waits for the one before to be applied.
THEOREM NoStaleWatchHolds == Spec => []NoStaleWatch
<1>1. IInv /\ ReloadInv => NoStaleWatch
  BY DEF NoStaleWatch, Watch!NoStaleWatch, ReloadInv, OneByOne, WatchInv, WatchTyped
<1> QED BY <1>1, ReloadAlways, PTL

\* No application is left behind, with its loops and its database, by edits that
\* do not fall into a reload: whatever runs is what stopServer stops next
\* (main.go:171-180).
THEOREM NothingLeaksHolds == Spec => []NothingLeaks
<1>1. IInv /\ ReloadInv => NothingLeaks
  BY DEF NothingLeaks, Server!NothingLeaks, ReloadInv, OneChange
<1> QED BY <1>1, ReloadAlways, PTL
=============================================================================
