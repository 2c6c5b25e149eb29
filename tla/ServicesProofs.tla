--------------------------- MODULE ServicesProofs ---------------------------
(***************************************************************************)
(* What the parts of Services promise, for any number of callers, workers, *)
(* tasks, tabs, tests, pulls, pages and viewers: the single flight of the  *)
(* guest token, the worker pool and the image cache, which widgets fetch   *)
(* with, and the widgets that have state of their own.  Each part has an   *)
(* inductive invariant, which every step of Services keeps, because a step *)
(* of another part leaves its variables alone.                             *)
(***************************************************************************)
EXTENDS Services, Sequences, FiniteSetTheorems, TLAPS

\* A step of Services as one part sees it.
LEMMA FlightSteps == [ServicesNext]_servicesVars => [FlightNext]_flightVars
  BY DEF ServicesNext, HelperNext, WidgetNext, servicesVars, helperVars

LEMMA PoolSteps == [ServicesNext]_servicesVars => [PoolNext]_poolVars
  BY DEF ServicesNext, HelperNext, WidgetNext, servicesVars, helperVars

--------------------------------------------------------------------------------
\* The single flight.

\* Whoever runs a call, or has run it and not yet reset current.
HoldsCall(p) == at[p] \in {"runs", "ended"}

\* One caller holds current, as long as it is set.
CurrentIsHeld ==
    \A p \in Callers : HoldsCall(p) => mine[p] = current /\ current /= NoCall

OneHolder == \A p, q \in Callers : HoldsCall(p) /\ HoldsCall(q) => p = q

\* Calls are numbered in the order they were made, and none has an answer before
\* it was made, nor is closed before it has one.
Numbered ==
    /\ current /= NoCall => current \in 1..calls
    /\ answered \subseteq 1..calls
    /\ closed \subseteq answered
    /\ \A p \in Callers : at[p] /= "idle" => mine[p] \in 1..calls

\* The current call is still to be closed: nobody who joins it comes too late.
CurrentIsOpen == current /= NoCall => current \notin closed

\* A call that is about to be closed is not the current one any more.
ResetIsPast == \A p \in Callers : at[p] = "reset" => mine[p] /= current

\* What a caller has was not closed when it called; who is past the run of fn has
\* an answer.
Timely ==
    \A p \in Callers :
        /\ before[p] \subseteq closed
        /\ at[p] /= "idle" => mine[p] \notin before[p]
        /\ at[p] \in {"ended", "reset", "returns"} => mine[p] \in answered

FlightInv ==
    /\ FlightTypeOK /\ CurrentIsHeld /\ OneHolder /\ Numbered /\ CurrentIsOpen /\ ResetIsPast
    /\ Timely

-----------------------------------------------------------------------------
LEMMA FlightStarts == FlightInit => FlightInv
  BY CallsAssumption
     DEF FlightInit, FlightInv, FlightTypeOK, Stages, CurrentIsHeld, OneHolder, HoldsCall, Numbered,
         CurrentIsOpen, ResetIsPast, Timely

\* Joining: the current call is neither closed nor anybody's past.
LEMMA JoinKeeps ==
    ASSUME FlightInv, NEW p \in Callers, JoinCall(p)
    PROVE  FlightInv'
  <1>1. \A q \in Callers \ {p} : at'[q] = at[q] /\ mine'[q] = mine[q] /\ before'[q] = before[q]
    BY DEF FlightInv, FlightTypeOK, JoinCall
  <1>2. at'[p] = "waits" /\ mine'[p] = current /\ before'[p] = closed
    BY DEF FlightInv, FlightTypeOK, JoinCall
  <1>3. FlightTypeOK'
    BY DEF FlightInv, FlightTypeOK, Stages, JoinCall
  <1>4. CurrentIsHeld' /\ OneHolder'
    BY <1>1, <1>2 DEF FlightInv, CurrentIsHeld, OneHolder, HoldsCall, JoinCall
  <1>5. Numbered' /\ CurrentIsOpen' /\ ResetIsPast'
    BY <1>1, <1>2 DEF FlightInv, Numbered, CurrentIsOpen, ResetIsPast, JoinCall
  <1>6. Timely'
    BY <1>1, <1>2 DEF FlightInv, Timely, CurrentIsOpen, JoinCall
  <1> QED  BY <1>3, <1>4, <1>5, <1>6 DEF FlightInv

\* Starting: nobody holds a call, and the new one is later than all there were.
LEMMA ImageStartKeeps ==
    ASSUME FlightInv, NEW p \in Callers, StartCall(p)
    PROVE  FlightInv'
  <1>1. \A q \in Callers \ {p} : at'[q] = at[q] /\ mine'[q] = mine[q] /\ before'[q] = before[q]
    BY DEF FlightInv, FlightTypeOK, StartCall
  <1>2. at'[p] = "runs" /\ mine'[p] = calls + 1 /\ before'[p] = closed
    BY DEF FlightInv, FlightTypeOK, StartCall
  <1>3. calls \in Nat /\ calls' = calls + 1 /\ current' = calls + 1 /\ current' /= NoCall
    BY CallsAssumption DEF FlightInv, FlightTypeOK, StartCall
  <1>4. FlightTypeOK'
    BY <1>3 DEF FlightInv, FlightTypeOK, Stages, StartCall
  <1>5. \A q \in Callers : ~HoldsCall(q)
    BY DEF FlightInv, CurrentIsHeld, StartCall
  <1>6. CurrentIsHeld' /\ OneHolder'
    BY <1>1, <1>2, <1>3, <1>5 DEF CurrentIsHeld, OneHolder, HoldsCall
  <1>7. calls + 1 \notin closed /\ calls + 1 \notin 1..calls /\ 1..calls \subseteq 1..(calls + 1)
    BY <1>3 DEF FlightInv, Numbered
  <1>8. Numbered'
    BY <1>1, <1>2, <1>3, <1>7 DEF FlightInv, Numbered, StartCall
  <1>9. CurrentIsOpen' /\ ResetIsPast'
    BY <1>1, <1>2, <1>3, <1>7 DEF FlightInv, Numbered, CurrentIsOpen, ResetIsPast, StartCall
  <1>10. Timely'
    BY <1>1, <1>2, <1>7 DEF FlightInv, Timely, StartCall
  <1> QED  BY <1>4, <1>6, <1>8, <1>9, <1>10 DEF FlightInv

\* The run ends: its call has an answer.
LEMMA RunEndsKeeps ==
    ASSUME FlightInv, NEW p \in Callers, RunEnds(p)
    PROVE  FlightInv'
  <1>1. \A q \in Callers \ {p} : at'[q] = at[q]
    BY DEF FlightInv, FlightTypeOK, RunEnds
  <1>2. at[p] = "runs" /\ at'[p] = "ended" /\ mine[p] \in 1..calls /\ mine[p] \in Nat
    BY DEF FlightInv, FlightTypeOK, RunEnds, Numbered
  <1>3. FlightTypeOK'
    BY <1>2 DEF FlightInv, FlightTypeOK, Stages, RunEnds
  <1>4. CurrentIsHeld' /\ OneHolder'
    BY <1>1, <1>2 DEF FlightInv, CurrentIsHeld, OneHolder, HoldsCall, RunEnds
  <1>5. Numbered' /\ CurrentIsOpen' /\ ResetIsPast'
    BY <1>1, <1>2 DEF FlightInv, Numbered, CurrentIsOpen, ResetIsPast, RunEnds
  <1>6. Timely'
    BY <1>1, <1>2 DEF FlightInv, Timely, RunEnds
  <1> QED  BY <1>3, <1>4, <1>5, <1>6 DEF FlightInv

\* current is reset: its holder was the only one.
LEMMA ResetKeeps ==
    ASSUME FlightInv, NEW p \in Callers, ResetCurrent(p)
    PROVE  FlightInv'
  <1>1. \A q \in Callers \ {p} : at'[q] = at[q]
    BY DEF FlightInv, FlightTypeOK, ResetCurrent
  <1>2. at[p] = "ended" /\ at'[p] = "reset" /\ mine[p] /= NoCall
    BY CallsAssumption DEF FlightInv, FlightTypeOK, ResetCurrent, Numbered
  <1>3. FlightTypeOK'
    BY DEF FlightInv, FlightTypeOK, Stages, ResetCurrent
  <1>4. \A q \in Callers \ {p} : ~HoldsCall(q)
    BY <1>2 DEF FlightInv, OneHolder, HoldsCall
  <1>5. CurrentIsHeld' /\ OneHolder'
    BY <1>1, <1>2, <1>4 DEF CurrentIsHeld, OneHolder, HoldsCall
  <1>6. Numbered'
    BY <1>1, <1>2 DEF FlightInv, Numbered, ResetCurrent
  <1>7. CurrentIsOpen'
    BY DEF CurrentIsOpen, ResetCurrent
  <1>8. ResetIsPast'
    <2>1. \A q \in Callers : at[q] = "reset" => mine[q] /= NoCall
      BY CallsAssumption DEF FlightInv, Numbered
    <2> QED  BY <1>1, <1>2, <2>1 DEF ResetIsPast, ResetCurrent
  <1>9. Timely'
    BY <1>1, <1>2 DEF FlightInv, Timely, ResetCurrent
  <1> QED  BY <1>3, <1>5, <1>6, <1>7, <1>8, <1>9 DEF FlightInv

\* done is closed: the call is not the current one, and nobody's that calls later.
LEMMA CloseKeeps ==
    ASSUME FlightInv, NEW p \in Callers, CloseDone(p)
    PROVE  FlightInv'
  <1>1. \A q \in Callers \ {p} : at'[q] = at[q]
    BY DEF FlightInv, FlightTypeOK, CloseDone
  <1>2. /\ at[p] = "reset" /\ at'[p] = "returns"
        /\ mine[p] \in answered /\ mine[p] \in Nat /\ mine[p] /= current
    BY DEF FlightInv, FlightTypeOK, CloseDone, Numbered, ResetIsPast, Timely
  <1>3. FlightTypeOK'
    BY <1>2 DEF FlightInv, FlightTypeOK, Stages, CloseDone
  <1>4. CurrentIsHeld' /\ OneHolder'
    BY <1>1, <1>2 DEF FlightInv, CurrentIsHeld, OneHolder, HoldsCall, CloseDone
  <1>5. Numbered' /\ CurrentIsOpen' /\ ResetIsPast'
    BY <1>1, <1>2 DEF FlightInv, Numbered, CurrentIsOpen, ResetIsPast, CloseDone
  <1>6. Timely'
    BY <1>1, <1>2 DEF FlightInv, Timely, CloseDone
  <1> QED  BY <1>3, <1>4, <1>5, <1>6 DEF FlightInv

\* A waiter wakes up: a closed call has an answer.
LEMMA WakeKeeps ==
    ASSUME FlightInv, NEW p \in Callers, WakeUp(p)
    PROVE  FlightInv'
  <1>1. \A q \in Callers \ {p} : at'[q] = at[q]
    BY DEF FlightInv, FlightTypeOK, WakeUp
  <1>2. at[p] = "waits" /\ at'[p] = "returns" /\ mine[p] \in answered
    BY DEF FlightInv, FlightTypeOK, WakeUp, Numbered
  <1>3. FlightTypeOK'
    BY DEF FlightInv, FlightTypeOK, Stages, WakeUp
  <1>4. CurrentIsHeld' /\ OneHolder'
    BY <1>1, <1>2 DEF FlightInv, CurrentIsHeld, OneHolder, HoldsCall, WakeUp
  <1>5. Numbered' /\ CurrentIsOpen' /\ ResetIsPast'
    BY <1>1, <1>2 DEF FlightInv, Numbered, CurrentIsOpen, ResetIsPast, WakeUp
  <1>6. Timely'
    BY <1>1, <1>2 DEF FlightInv, Timely, WakeUp
  <1> QED  BY <1>3, <1>4, <1>5, <1>6 DEF FlightInv

LEMMA ReturnKeeps ==
    ASSUME FlightInv, NEW p \in Callers, ReturnResult(p)
    PROVE  FlightInv'
  <1>1. \A q \in Callers \ {p} : at'[q] = at[q] /\ mine'[q] = mine[q] /\ before'[q] = before[q]
    BY DEF FlightInv, FlightTypeOK, ReturnResult
  <1>2. at'[p] = "idle" /\ before'[p] = {}
    BY DEF FlightInv, FlightTypeOK, ReturnResult
  <1>3. FlightTypeOK'
    BY DEF FlightInv, FlightTypeOK, Stages, ReturnResult
  <1>4. CurrentIsHeld' /\ OneHolder'
    BY <1>1, <1>2 DEF FlightInv, CurrentIsHeld, OneHolder, HoldsCall, ReturnResult
  <1>5. Numbered' /\ CurrentIsOpen' /\ ResetIsPast'
    BY <1>1, <1>2 DEF FlightInv, Numbered, CurrentIsOpen, ResetIsPast, ReturnResult
  <1>6. Timely'
    BY <1>1, <1>2 DEF FlightInv, Timely, ReturnResult
  <1> QED  BY <1>3, <1>4, <1>5, <1>6 DEF FlightInv

LEMMA FlightStepKeeps == FlightInv /\ [FlightNext]_flightVars => FlightInv'
  <1> SUFFICES ASSUME FlightInv, [FlightNext]_flightVars PROVE FlightInv'
    OBVIOUS
  <1>1. CASE UNCHANGED flightVars
    BY <1>1 DEF flightVars, FlightInv, FlightTypeOK, CurrentIsHeld, OneHolder, HoldsCall, Numbered,
                CurrentIsOpen, ResetIsPast, Timely
  <1>2. ASSUME NEW p \in Callers, JoinCall(p) \/ StartCall(p) \/ FlightStep(p)
        PROVE  FlightInv'
    BY <1>2, JoinKeeps, ImageStartKeeps, RunEndsKeeps, ResetKeeps, CloseKeeps, WakeKeeps, ReturnKeeps
       DEF FlightStep
  <1> QED  BY <1>1, <1>2 DEF FlightNext

-----------------------------------------------------------------------------
\* The variables of Do keep their types, and the strengthening holds throughout.
THEOREM FlightInvariant == ServicesSpec => []FlightInv
  <1>1. ServicesInit => FlightInv
    BY FlightStarts DEF ServicesInit
  <1>2. FlightInv /\ [ServicesNext]_servicesVars => FlightInv'
    BY FlightStepKeeps, FlightSteps
  <1> QED  BY <1>1, <1>2, PTL DEF ServicesSpec

\* singleflight.go:24-53: fn runs once at a time, and every caller is given an
\* answer that was not handed out before it called.
THEOREM SharedRunsHolds == ServicesSpec => []SharedRuns
  <1>1. FlightInv => SharedRuns
    BY DEF FlightInv, OneHolder, HoldsCall, Timely, SharedRuns
  <1> QED  BY <1>1, FlightInvariant, PTL

--------------------------------------------------------------------------------
\* The worker pool.

Item == [task : 0..Tasks, done : BOOLEAN]

PoolTypeOK ==
    /\ fed \in 0..Tasks
    /\ has \in [Workers -> Item]
    /\ results \in [1..Tasks -> 0..Tasks]
    /\ queue \in {"open", "closed"}
    /\ left \subseteq Workers

\* A task that was handed out is with a worker, or its outcome is in its place.
Accounted ==
    \A i \in 1..Tasks :
        i <= fed => results[i] = i \/ \E w \in Workers : has[w].task = i

\* Nothing else is in a place, and a worker has nothing before it has a task.
InPlace ==
    /\ \A i \in 1..Tasks : results[i] \in {0, i}
    /\ \A w \in Workers : has[w] /= Nothing => has[w].task \in 1..Tasks

\* The queue is closed when all is handed out, and workers leave with empty hands.
LeftEmpty ==
    /\ queue = "closed" => fed = Tasks
    /\ left /= {} => queue = "closed"
    /\ \A w \in left : has[w] = Nothing

PoolInv == PoolTypeOK /\ Accounted /\ InPlace /\ LeftEmpty

-----------------------------------------------------------------------------
LEMMA PoolStarts == PoolInit => PoolInv
  BY PoolAssumption
     DEF PoolInit, Nothing, PoolInv, PoolTypeOK, Item, Accounted, InPlace, LeftEmpty

LEMMA FeedKeeps ==
    ASSUME PoolInv, NEW w \in Workers, Feed(w)
    PROVE  PoolInv'
  <1> DEFINE given == [task |-> fed + 1, done |-> FALSE]
  <1>1. /\ fed \in Nat /\ fed + 1 \in 1..Tasks /\ fed' = fed + 1
        /\ given \in Item /\ given.task = fed + 1
    BY PoolAssumption DEF PoolInv, PoolTypeOK, Item, Feed
  <1>2. has'[w] = given /\ \A v \in Workers \ {w} : has'[v] = has[v]
    BY DEF PoolInv, PoolTypeOK, Feed
  <1>3. has[w].task = 0 /\ w \notin left
    BY DEF Feed, Nothing
  <1>4. PoolTypeOK'
    <2>1. has' \in [Workers -> Item]
      BY <1>1 DEF PoolInv, PoolTypeOK, Feed
    <2> QED  BY <1>1, <2>1 DEF PoolInv, PoolTypeOK, Feed
  <1>5. Accounted'
    <2> SUFFICES ASSUME NEW i \in 1..Tasks, i <= fed + 1
                 PROVE  results[i] = i \/ \E v \in Workers : has'[v].task = i
      BY <1>1 DEF Accounted, Feed
    <2>1. CASE i = fed + 1
      BY <2>1, <1>1, <1>2
    <2>2. CASE i <= fed
      BY <2>2, <1>2, <1>3 DEF PoolInv, Accounted
    <2> QED  BY <1>1, <2>1, <2>2
  <1>6. InPlace'
    BY <1>1, <1>2 DEF PoolInv, InPlace, Feed
  <1>7. LeftEmpty'
    BY <1>2, <1>3 DEF PoolInv, PoolTypeOK, LeftEmpty, Feed
  <1> QED  BY <1>4, <1>5, <1>6, <1>7 DEF PoolInv

LEMMA RunTaskKeeps ==
    ASSUME PoolInv, NEW w \in Workers, RunTask(w)
    PROVE  PoolInv'
  <1>1. /\ has[w] \in Item /\ has'[w] = [has[w] EXCEPT !.done = TRUE]
        /\ \A v \in Workers \ {w} : has'[v] = has[v]
    BY DEF PoolInv, PoolTypeOK, RunTask
  <1>2. has'[w].task = has[w].task /\ has'[w] \in Item
    BY <1>1 DEF Item
  <1>3. has' \in [Workers -> Item]
    BY <1>2 DEF PoolInv, PoolTypeOK, RunTask
  <1>4. PoolTypeOK'
    BY <1>3 DEF PoolInv, PoolTypeOK, RunTask
  <1>5. Accounted'
    BY <1>1, <1>2 DEF PoolInv, Accounted, RunTask
  <1>6. InPlace'
    BY <1>1, <1>2 DEF PoolInv, InPlace, RunTask
  <1>7. LeftEmpty'
    BY <1>1 DEF PoolInv, LeftEmpty, RunTask
  <1> QED  BY <1>4, <1>5, <1>6, <1>7 DEF PoolInv

\* The outcome goes to the index of its task.
LEMMA CollectKeeps ==
    ASSUME PoolInv, NEW w \in Workers, Collect(w)
    PROVE  PoolInv'
  <1> DEFINE t == has[w].task
  <1>1. t \in 1..Tasks
    BY DEF PoolInv, InPlace, Collect
  <1>2. results'[t] = t /\ \A i \in (1..Tasks) \ {t} : results'[i] = results[i]
    BY <1>1 DEF PoolInv, PoolTypeOK, Collect, Index
  <1>3. has'[w] = Nothing /\ \A v \in Workers \ {w} : has'[v] = has[v]
    BY DEF PoolInv, PoolTypeOK, Collect
  <1>4. PoolTypeOK'
    <2>1. Nothing \in Item
      BY PoolAssumption DEF Nothing, Item
    <2>2. has' \in [Workers -> Item]
      BY <2>1 DEF PoolInv, PoolTypeOK, Collect
    <2>3. results' \in [1..Tasks -> 0..Tasks]
      BY <1>1, PoolAssumption DEF PoolInv, PoolTypeOK, Collect, Index
    <2> QED  BY <2>2, <2>3 DEF PoolInv, PoolTypeOK, Collect
  <1>5. Accounted'
    BY <1>1, <1>2, <1>3 DEF PoolInv, Accounted, Collect
  <1>6. InPlace'
    BY <1>1, <1>2, <1>3 DEF PoolInv, InPlace, Collect
  <1>7. LeftEmpty'
    BY <1>3 DEF PoolInv, PoolTypeOK, LeftEmpty, Collect
  <1> QED  BY <1>4, <1>5, <1>6, <1>7 DEF PoolInv

LEMMA PoolStepKeeps == PoolInv /\ [PoolNext]_poolVars => PoolInv'
  <1> SUFFICES ASSUME PoolInv, [PoolNext]_poolVars PROVE PoolInv'
    OBVIOUS
  <1>1. CASE UNCHANGED poolVars
    BY <1>1 DEF poolVars, PoolInv, PoolTypeOK, Accounted, InPlace, LeftEmpty
  <1>2. CASE CloseQueue
    BY <1>2 DEF CloseQueue, PoolInv, PoolTypeOK, Accounted, InPlace, LeftEmpty
  <1>3. ASSUME NEW w \in Workers, WorkerEnds(w)
        PROVE  PoolInv'
    BY <1>3 DEF WorkerEnds, PoolInv, PoolTypeOK, Accounted, InPlace, LeftEmpty
  <1>4. ASSUME NEW w \in Workers, Feed(w) \/ RunTask(w) \/ Collect(w)
        PROVE  PoolInv'
    BY <1>4, FeedKeeps, RunTaskKeeps, CollectKeeps
  <1> QED  BY <1>1, <1>2, <1>3, <1>4 DEF PoolNext

-----------------------------------------------------------------------------
\* The strengthening holds throughout.
THEOREM PoolInvariant == ServicesSpec => []PoolInv
  <1>1. ServicesInit => PoolInv
    BY PoolStarts DEF ServicesInit
  <1>2. PoolInv /\ [ServicesNext]_servicesVars => PoolInv'
    BY PoolStepKeeps, PoolSteps
  <1> QED  BY <1>1, <1>2, PTL DEF ServicesSpec

\* widget-utils.go:242-300: workerPoolDo is never stuck, and returns every outcome
\* at the index of its task, in whatever order the workers take and finish them.
THEOREM PoolDeliversHolds == ServicesSpec => []PoolDelivers
  <1>1. ASSUME PoolInv, Returned, NEW i \in 1..Tasks
        PROVE  results[i] = i
    <2>1. fed = Tasks /\ \A w \in Workers : has[w].task = 0
      BY <1>1, PoolAssumption DEF PoolInv, LeftEmpty, Returned, Nothing
    <2>2. i <= fed /\ i /= 0
      BY <2>1, PoolAssumption
    <2> QED  BY <1>1, <2>1, <2>2 DEF PoolInv, Accounted
  <1>2. ASSUME PoolInv, ~Returned
        PROVE  GoesOn
    <2>1. PICK w \in Workers \ left : TRUE
      BY <1>2 DEF PoolInv, PoolTypeOK, Returned
    <2>2. fed < Tasks \/ fed = Tasks
      BY <1>2, PoolAssumption DEF PoolInv, PoolTypeOK
    <2>3. queue \in {"open", "closed"}
      BY <1>2 DEF PoolInv, PoolTypeOK
    <2> QED  BY <2>1, <2>2, <2>3 DEF GoesOn
  <1>3. PoolInv => PoolDelivers
    BY <1>1, <1>2 DEF PoolDelivers, AllInPlace
  <1> QED  BY <1>3, PoolInvariant, PTL

--------------------------------------------------------------------------------
\* The image cache.

LEMMA ImageSteps == [ServicesNext]_servicesVars => [Images!ImagesNext]_imageVars
  BY DEF ServicesNext, HelperNext, WidgetNext, servicesVars, helperVars

\* Downloads are under way one at a time in an application, and who writes has a
\* file open.
ImageStages ==
    {"idle", "missed", "asks", "waits", "writes", "stored", "failed", "closes", "returns"}

ImageTypeOK ==
    /\ file /= NoFile => file.inode \in Inodes
    /\ temp \in Inodes \union {NoFile}
    /\ content \in [Inodes -> [opener : Viewers \union {NoFile}, whole : BOOLEAN]]
    /\ openers \in [Inodes -> SUBSET Viewers]
    /\ opened \in [Viewers -> Inodes \union {NoFile}]
    /\ inFlight \in [Apps -> Viewers \union {NoFile}]
    /\ stage \in [Viewers -> ImageStages]

Downloading(v) == stage[v] \in {"asks", "writes", "stored", "failed"}

OneDownload == \A v \in Viewers : Downloading(v) => inFlight[AppOf[v]] = v

WritersHaveFiles == \A v \in Viewers : stage[v] = "writes" <=> opened[v] /= NoFile

\* While the temporary file has its name, the one who truncated it last is still
\* writing to it; it is not the file that is served.
TempIsOpen ==
    temp /= NoFile =>
        /\ content[temp].opener \in openers[temp]
        /\ stage[content[temp].opener] = "writes"
        /\ opened[content[temp].opener] = temp
        /\ file /= NoFile => file.inode /= temp

ImageInv ==
    ImageTypeOK /\ OneDownload /\ WritersHaveFiles /\ TempIsOpen /\ Images!ImagesAreWhole

-----------------------------------------------------------------------------
LEMMA ImagesStart == ASSUME Images!ImagesInit PROVE ImageInv
  BY DEF Images!ImagesInit, ImageInv, ImageTypeOK, ImageStages, OneDownload, Downloading,
         WritersHaveFiles, TempIsOpen, Images!ImagesAreWhole

\* A viewer that only moves on, and neither starts to download nor to write nor
\* stops to, leaves the disk and the flights as they are.
LEMMA ImageMovesKeeps ==
    ASSUME ImageInv, UNCHANGED <<file, temp, content, openers, opened>>,
           stage' \in [Viewers -> ImageStages],
           inFlight' \in [Apps -> Viewers \union {NoFile}],
           \A v \in Viewers : stage'[v] = "writes" <=> stage[v] = "writes",
           OneDownload'
    PROVE  ImageInv'
  <1>1. ImageTypeOK' /\ WritersHaveFiles'
    BY DEF ImageInv, ImageTypeOK, WritersHaveFiles
  <1>2. TempIsOpen'
    <2> SUFFICES ASSUME temp /= NoFile PROVE TempIsOpen'
      BY DEF TempIsOpen
    <2>1. content[temp].opener \in Viewers
      BY DEF ImageInv, ImageTypeOK, TempIsOpen
    <2> QED  BY <2>1 DEF ImageInv, TempIsOpen
  <1>3. Images!ImagesAreWhole'
    BY DEF ImageInv, Images!ImagesAreWhole
  <1> QED  BY <1>1, <1>2, <1>3 DEF ImageInv

LEMMA LookKeeps ==
    ASSUME ImageInv, NEW v \in Viewers, NEW age \in Ages, Images!Look(v, age) PROVE ImageInv'
  <1>1. /\ stage[v] = "idle" /\ stage'[v] \in {"returns", "missed"}
        /\ \A w \in Viewers \ {v} : stage'[w] = stage[w]
        /\ stage' \in [Viewers -> ImageStages] /\ UNCHANGED <<inFlight, Images!disk>>
    BY DEF ImageInv, ImageTypeOK, ImageStages, Images!Look, Images!Moves
  <1>2. OneDownload'
    BY <1>1 DEF ImageInv, OneDownload, Downloading
  <1>3. \A w \in Viewers : stage'[w] = "writes" <=> stage[w] = "writes"
    BY <1>1
  <1>4. inFlight' \in [Apps -> Viewers \union {NoFile}]
    BY <1>1 DEF ImageInv, ImageTypeOK
  <1> QED  BY <1>1, <1>2, <1>3, <1>4, ImageMovesKeeps DEF Images!disk

LEMMA EnterKeeps ==
    ASSUME Images!ImagesAssumption, ImageInv, NEW v \in Viewers, Images!EnterOrWait(v)
    PROVE  ImageInv'
  <1>1. /\ stage[v] = "missed" /\ UNCHANGED Images!disk
        /\ \A w \in Viewers \ {v} : stage'[w] = stage[w]
        /\ stage' \in [Viewers -> ImageStages] /\ AppOf[v] \in Apps
    BY DEF ImageInv, ImageTypeOK, ImageStages, Images!EnterOrWait, Images!Moves,
           Images!ImagesAssumption
  <1>2. CASE inFlight[AppOf[v]] = NoFile
    <2>1. /\ stage'[v] = "asks" /\ inFlight'[AppOf[v]] = v
          /\ \A a \in Apps \ {AppOf[v]} : inFlight'[a] = inFlight[a]
          /\ inFlight' \in [Apps -> Viewers \union {NoFile}]
      BY <1>1, <1>2 DEF ImageInv, ImageTypeOK, Images!EnterOrWait, Images!Moves
    <2>2. \A w \in Viewers : Downloading(w) => AppOf[w] /= AppOf[v] /\ AppOf[w] \in Apps
      BY <1>2 DEF ImageInv, OneDownload, Images!ImagesAssumption
    <2>3. OneDownload'
      BY <1>1, <2>1, <2>2 DEF ImageInv, OneDownload, Downloading
    <2>4. \A w \in Viewers : stage'[w] = "writes" <=> stage[w] = "writes"
      BY <1>1, <2>1
    <2> QED  BY <1>1, <2>1, <2>3, <2>4, ImageMovesKeeps DEF Images!disk
  <1>3. CASE inFlight[AppOf[v]] /= NoFile
    <2>1. stage'[v] = "waits" /\ inFlight' = inFlight
      BY <1>3 DEF ImageInv, ImageTypeOK, Images!EnterOrWait, Images!Moves
    <2>2. OneDownload'
      BY <1>1, <2>1 DEF ImageInv, OneDownload, Downloading
    <2>3. \A w \in Viewers : stage'[w] = "writes" <=> stage[w] = "writes"
      BY <1>1, <2>1
    <2>4. inFlight' \in [Apps -> Viewers \union {NoFile}]
      BY <2>1 DEF ImageInv, ImageTypeOK
    <2> QED  BY <1>1, <2>2, <2>3, <2>4, ImageMovesKeeps DEF Images!disk
  <1> QED  BY <1>2, <1>3

LEMMA OneMore ==
    ASSUME NEW S, NEW x, IsFiniteSet(S)
    PROVE  /\ IsFiniteSet(S \union {x})
           /\ Cardinality(S \union {x}) <= Cardinality(S) + 1
           /\ Cardinality(S) \in Nat /\ Cardinality(S \union {x}) \in Nat
  <1>1. Cardinality(S) \in Nat
    BY FS_CardinalityType
  <1>2. IsFiniteSet(S \union {x})
    BY FS_AddElement
  <1>3. Cardinality(S \union {x}) = IF x \in S THEN Cardinality(S) ELSE Cardinality(S) + 1
    BY FS_AddElement
  <1> QED  BY <1>1, <1>2, <1>3

\* More inodes than viewers: all that are in use are the file's and those of the
\* others that write.
LEMMA FreeInodeIsFree ==
    ASSUME Images!ImagesAssumption, ImageInv, NEW v \in Viewers, opened[v] = NoFile
    PROVE  Images!FreeInode \in Inodes \ Images!InUse
  <1> DEFINE Theirs == {opened[w] : w \in Viewers \ {v}}
             Mine == IF file = NoFile THEN {} ELSE {file.inode}
  <1>1. IsFiniteSet(Viewers) /\ IsFiniteSet(Inodes) /\ Cardinality(Inodes) > Cardinality(Viewers)
    BY DEF Images!ImagesAssumption, Images!IsFiniteSet, IsFiniteSet, Images!Cardinality, Cardinality
  <1>2. /\ IsFiniteSet(Viewers \ {v}) /\ Cardinality(Viewers \ {v}) = Cardinality(Viewers) - 1
        /\ Cardinality(Viewers) \in Nat /\ Cardinality(Inodes) \in Nat
    BY <1>1, FS_RemoveElement, FS_CardinalityType
  <1>3. IsFiniteSet(Theirs) /\ Cardinality(Theirs) <= Cardinality(Viewers \ {v})
    <2> DEFINE f == [w \in Viewers \ {v} |-> opened[w]]
    <2>1. f \in Surjection(Viewers \ {v}, Theirs)
      BY DEF Surjection
    <2> QED  BY <1>2, <2>1, FS_Surjection
  <1>4. /\ IsFiniteSet(Theirs \union Mine)
        /\ Cardinality(Theirs \union Mine) <= Cardinality(Viewers)
    <2>1. CASE file = NoFile
      BY <1>2, <1>3, <2>1, FS_CardinalityType
    <2>2. CASE file /= NoFile
      <3>1. /\ IsFiniteSet(Theirs \union {file.inode})
            /\ Cardinality(Theirs \union {file.inode}) <= Cardinality(Theirs) + 1
            /\ Cardinality(Theirs) \in Nat /\ Cardinality(Theirs \union {file.inode}) \in Nat
        BY <1>3, OneMore
      <3> HIDE DEF Theirs
      <3> QED  BY <1>2, <1>3, <2>2, <3>1
    <2> QED  BY <2>1, <2>2
  <1>5. ~(Inodes \subseteq Theirs \union Mine)
    <2> HIDE DEF Theirs, Mine
    <2>1. ASSUME Inodes \subseteq Theirs \union Mine PROVE FALSE
      <3>1. Cardinality(Inodes) <= Cardinality(Theirs \union Mine)
        BY <1>4, <2>1, FS_Subset
      <3>2. Cardinality(Theirs \union Mine) \in Nat
        BY <1>4, FS_CardinalityType
      <3> QED  BY <1>1, <1>2, <1>4, <3>1, <3>2
    <2> QED  BY <2>1
  <1>6. PICK i \in Inodes : i \notin Theirs \union Mine
    BY <1>5
  <1>7. i \notin Images!InUse
    <2>1. i /= opened[v]
      BY DEF Images!ImagesAssumption
    <2>2. \A w \in Viewers : i /= opened[w]
      BY <1>6, <2>1
    <2>3. file /= NoFile => i /= file.inode
      BY <1>6
    <2> QED  BY <2>2, <2>3 DEF Images!InUse
  <1> QED  BY <1>7 DEF Images!FreeInode

\* Nobody else writes to the file that a viewer opens, unless it had the name before.
LEMMA CreateTempKeeps ==
    ASSUME Images!ImagesAssumption, ImageInv, NEW v \in Viewers, Images!CreateTemp(v)
    PROVE  ImageInv'
  <1> DEFINE inode == IF temp = NoFile THEN Images!FreeInode ELSE temp
  <1>1. /\ stage[v] = "asks" /\ opened[v] = NoFile /\ AppOf[v] \in Apps
        /\ UNCHANGED <<file, inFlight>> /\ NoFile \notin Inodes
    BY DEF ImageInv, WritersHaveFiles, Images!CreateTemp, Images!ImagesAssumption
  <1>2. inode \in Inodes /\ (file /= NoFile => inode /= file.inode)
    <2>1. CASE temp = NoFile
      <3>1. Images!FreeInode \in Inodes \ Images!InUse
        BY <1>1, FreeInodeIsFree
      <3>2. file /= NoFile => file.inode \in Images!InUse
        BY DEF Images!InUse
      <3> QED  BY <2>1, <3>1, <3>2
    <2>2. CASE temp /= NoFile
      BY <2>2 DEF ImageInv, ImageTypeOK, TempIsOpen
    <2> QED  BY <2>1, <2>2
  <1>3. /\ temp' = inode
        /\ opened' = [opened EXCEPT ![v] = inode]
        /\ content' = [content EXCEPT ![inode] = [opener |-> v, whole |-> FALSE]]
        /\ openers' = [openers EXCEPT ![inode] = {v} \union IF temp = NoFile THEN {} ELSE @]
        /\ stage' = [stage EXCEPT ![v] = "writes"]
    BY DEF Images!CreateTemp, Images!Moves
  <1> HIDE DEF inode
  <1>4. /\ content \in [Inodes -> [opener : Viewers \union {NoFile}, whole : BOOLEAN]]
        /\ openers \in [Inodes -> SUBSET Viewers]
        /\ opened \in [Viewers -> Inodes \union {NoFile}]
        /\ stage \in [Viewers -> ImageStages]
    BY DEF ImageInv, ImageTypeOK
  <1>5. /\ opened'[v] = inode /\ stage'[v] = "writes"
        /\ content'[inode] = [opener |-> v, whole |-> FALSE] /\ v \in openers'[inode]
        /\ \A w \in Viewers \ {v} : opened'[w] = opened[w] /\ stage'[w] = stage[w]
        /\ \A i \in Inodes \ {inode} : content'[i] = content[i] /\ openers'[i] = openers[i]
    BY <1>2, <1>3, <1>4
  <1>6. ImageTypeOK'
    <2>1. openers' \in [Inodes -> SUBSET Viewers]
      BY <1>2, <1>3, <1>4
    <2>2. content' \in [Inodes -> [opener : Viewers \union {NoFile}, whole : BOOLEAN]]
      BY <1>2, <1>3, <1>4
    <2>3. opened' \in [Viewers -> Inodes \union {NoFile}] /\ stage' \in [Viewers -> ImageStages]
      BY <1>2, <1>3, <1>4 DEF ImageStages
    <2> QED  BY <1>1, <1>2, <1>3, <2>1, <2>2, <2>3 DEF ImageInv, ImageTypeOK
  <1>7. OneDownload'
    BY <1>1, <1>5 DEF ImageInv, OneDownload, Downloading
  <1>8. WritersHaveFiles'
    BY <1>1, <1>2, <1>5 DEF ImageInv, WritersHaveFiles
  <1>9. TempIsOpen'
    BY <1>1, <1>2, <1>3, <1>5 DEF TempIsOpen
  <1>10. Images!ImagesAreWhole'
    <2> SUFFICES ASSUME file /= NoFile, ~content'[file.inode].whole
                 PROVE \E x, w \in openers'[file.inode] : AppOf[x] /= AppOf[w]
      BY <1>1 DEF Images!ImagesAreWhole
    <2>1. file.inode \in Inodes \ {inode}
      BY <1>2 DEF ImageInv, ImageTypeOK
    <2> QED  BY <1>5, <2>1 DEF ImageInv, Images!ImagesAreWhole
  <1> QED  BY <1>6, <1>7, <1>8, <1>9, <1>10 DEF ImageInv

\* A rename that takes what another one is still writing to is between two
\* applications, as each has one download.
LEMMA RenameTempKeeps ==
    ASSUME Images!ImagesAssumption, ImageInv, NEW v \in Viewers, Images!RenameTemp(v)
    PROVE  ImageInv'
  <1> DEFINE inode == opened[v]
             owner == content[inode].opener
  <1>1. /\ stage[v] = "writes" /\ inode \in Inodes /\ AppOf[v] \in Apps /\ NoFile \notin Inodes
        /\ UNCHANGED inFlight
    BY DEF ImageInv, ImageTypeOK, WritersHaveFiles, Images!RenameTemp, Images!ImagesAssumption
  <1>2. /\ content' = [content EXCEPT ![inode].whole = @ \/ owner = v]
        /\ opened' = [opened EXCEPT ![v] = NoFile]
        /\ openers' = IF temp = NoFile THEN openers ELSE [openers EXCEPT ![temp] = @ \union {v}]
        /\ stage' = [stage EXCEPT ![v] = IF temp = NoFile THEN "failed" ELSE "stored"]
        /\ temp' = NoFile
        /\ file' = IF temp = NoFile THEN file ELSE [mtime |-> hour, inode |-> temp]
    BY DEF Images!RenameTemp, Images!Moves, Images!Written
  <1> HIDE DEF inode, owner
  <1>3. /\ content \in [Inodes -> [opener : Viewers \union {NoFile}, whole : BOOLEAN]]
        /\ openers \in [Inodes -> SUBSET Viewers]
        /\ opened \in [Viewers -> Inodes \union {NoFile}]
        /\ stage \in [Viewers -> ImageStages]
        /\ temp \in Inodes \union {NoFile}
    BY DEF ImageInv, ImageTypeOK
  <1>4. /\ opened'[v] = NoFile /\ stage'[v] \in {"failed", "stored"}
        /\ \A w \in Viewers \ {v} : opened'[w] = opened[w] /\ stage'[w] = stage[w]
        /\ content'[inode].whole = (content[inode].whole \/ owner = v)
        /\ \A i \in Inodes \ {inode} : content'[i] = content[i]
        /\ \A i \in Inodes : openers[i] \subseteq openers'[i]
        /\ temp /= NoFile => openers'[temp] = openers[temp] \union {v}
    BY <1>1, <1>2, <1>3
  <1>5. ImageTypeOK'
    <2>1. content' \in [Inodes -> [opener : Viewers \union {NoFile}, whole : BOOLEAN]]
      BY <1>1, <1>2, <1>3
    <2>2. openers' \in [Inodes -> SUBSET Viewers]
      BY <1>2, <1>3
    <2>3. opened' \in [Viewers -> Inodes \union {NoFile}] /\ stage' \in [Viewers -> ImageStages]
      BY <1>2, <1>3 DEF ImageStages
    <2>4. file' /= NoFile => file'.inode \in Inodes
      BY <1>2, <1>3 DEF ImageInv, ImageTypeOK
    <2> QED  BY <1>1, <1>2, <2>1, <2>2, <2>3, <2>4 DEF ImageInv, ImageTypeOK
  <1>6. OneDownload'
    BY <1>1, <1>4 DEF ImageInv, OneDownload, Downloading
  <1>7. WritersHaveFiles'
    BY <1>4 DEF ImageInv, WritersHaveFiles
  <1>8. TempIsOpen'
    BY <1>2 DEF TempIsOpen
  <1>9. Images!ImagesAreWhole'
    <2>1. CASE temp = NoFile
      <3> SUFFICES ASSUME file /= NoFile, ~content'[file.inode].whole
                   PROVE \E x, w \in openers'[file.inode] : AppOf[x] /= AppOf[w]
        BY <1>2, <2>1 DEF Images!ImagesAreWhole
      <3>1. file.inode \in Inodes /\ ~content[file.inode].whole
        BY <1>4 DEF ImageInv, ImageTypeOK
      <3> QED  BY <1>4, <3>1 DEF ImageInv, Images!ImagesAreWhole
    <2>2. CASE temp /= NoFile
      <3> DEFINE u == content[temp].opener
      <3>1. temp \in Inodes /\ u \in openers[temp] /\ stage[u] = "writes" /\ opened[u] = temp
            /\ u \in Viewers
        BY <1>3, <2>2 DEF ImageInv, TempIsOpen
      <3>2. file' = [mtime |-> hour, inode |-> temp] /\ openers'[temp] = openers[temp] \union {v}
        BY <1>2, <1>4, <2>2
      <3> HIDE DEF u
      <3>3. CASE u = v
        <4>1. inode = temp /\ owner = v
          BY <3>1, <3>3 DEF inode, owner, u
        <4> QED  BY <1>4, <3>2, <4>1 DEF Images!ImagesAreWhole
      <3>4. CASE u /= v
        <4>1. AppOf[u] /= AppOf[v]
          BY <1>1, <3>1, <3>4 DEF ImageInv, OneDownload, Downloading
        <4> QED  BY <3>1, <3>2, <4>1 DEF Images!ImagesAreWhole
      <3> QED  BY <3>3, <3>4
    <2> QED  BY <2>1, <2>2
  <1> QED  BY <1>5, <1>6, <1>7, <1>8, <1>9 DEF ImageInv

LEMMA RemoveTempKeeps ==
    ASSUME ImageInv, NEW v \in Viewers, Images!RemoveTemp(v) PROVE ImageInv'
  <1>1. /\ stage[v] = "writes" /\ temp' = NoFile /\ opened'[v] = NoFile /\ stage'[v] = "failed"
        /\ \A w \in Viewers \ {v} : opened'[w] = opened[w] /\ stage'[w] = stage[w]
        /\ opened' \in [Viewers -> Inodes \union {NoFile}] /\ stage' \in [Viewers -> ImageStages]
        /\ UNCHANGED <<file, content, openers, inFlight>>
    BY DEF ImageInv, ImageTypeOK, ImageStages, Images!RemoveTemp, Images!Moves
  <1>2. ImageTypeOK' /\ TempIsOpen' /\ Images!ImagesAreWhole'
    BY <1>1 DEF ImageInv, ImageTypeOK, TempIsOpen, Images!ImagesAreWhole
  <1>3. OneDownload' /\ WritersHaveFiles'
    BY <1>1 DEF ImageInv, OneDownload, Downloading, WritersHaveFiles
  <1> QED  BY <1>2, <1>3 DEF ImageInv

LEMMA DownloadFailsKeeps ==
    ASSUME ImageInv, NEW v \in Viewers, Images!DownloadFails(v) PROVE ImageInv'
  <1>1. /\ stage[v] = "asks" /\ stage'[v] = "failed" /\ UNCHANGED <<inFlight, Images!disk>>
        /\ \A w \in Viewers \ {v} : stage'[w] = stage[w]
        /\ stage' \in [Viewers -> ImageStages] /\ inFlight' \in [Apps -> Viewers \union {NoFile}]
    BY DEF ImageInv, ImageTypeOK, ImageStages, Images!DownloadFails, Images!Moves
  <1>2. OneDownload'
    BY <1>1 DEF ImageInv, OneDownload, Downloading
  <1>3. \A w \in Viewers : stage'[w] = "writes" <=> stage[w] = "writes"
    BY <1>1
  <1> QED  BY <1>1, <1>2, <1>3, ImageMovesKeeps DEF Images!disk

LEMMA LeaveFlightKeeps ==
    ASSUME Images!ImagesAssumption, ImageInv, NEW v \in Viewers, Images!LeaveFlight(v)
    PROVE  ImageInv'
  <1>1. /\ stage[v] \in {"stored", "failed"} /\ stage'[v] = "closes" /\ UNCHANGED Images!disk
        /\ \A w \in Viewers \ {v} : stage'[w] = stage[w]
        /\ stage' \in [Viewers -> ImageStages] /\ AppOf[v] \in Apps
        /\ inFlight' \in [Apps -> Viewers \union {NoFile}]
        /\ \A a \in Apps \ {AppOf[v]} : inFlight'[a] = inFlight[a]
    BY DEF ImageInv, ImageTypeOK, ImageStages, Images!LeaveFlight, Images!Moves,
           Images!ImagesAssumption
  <1>2. \A w \in Viewers \ {v} : Downloading(w) => AppOf[w] \in Apps \ {AppOf[v]}
    BY <1>1 DEF ImageInv, OneDownload, Downloading, Images!ImagesAssumption
  <1>3. OneDownload'
    BY <1>1, <1>2 DEF ImageInv, OneDownload, Downloading
  <1>4. \A w \in Viewers : stage'[w] = "writes" <=> stage[w] = "writes"
    BY <1>1
  <1> QED  BY <1>1, <1>3, <1>4, ImageMovesKeeps DEF Images!disk

LEMMA CloseEntryKeeps ==
    ASSUME ImageInv, NEW v \in Viewers, Images!CloseEntry(v) PROVE ImageInv'
  <1>1. /\ \A w \in Viewers : \/ stage'[w] = stage[w]
                              \/ stage[w] \in {"waits", "closes"} /\ stage'[w] = "returns"
        /\ UNCHANGED <<inFlight, Images!disk>>
    BY DEF Images!CloseEntry
  <1>2. stage' \in [Viewers -> ImageStages] /\ inFlight' \in [Apps -> Viewers \union {NoFile}]
    BY <1>1 DEF ImageInv, ImageTypeOK, ImageStages, Images!CloseEntry
  <1>3. OneDownload'
    BY <1>1 DEF ImageInv, OneDownload, Downloading
  <1>4. \A w \in Viewers : stage'[w] = "writes" <=> stage[w] = "writes"
    BY <1>1
  <1> QED  BY <1>1, <1>2, <1>3, <1>4, ImageMovesKeeps DEF Images!disk

LEMMA ReturnsKeeps ==
    ASSUME ImageInv, NEW v \in Viewers, Images!Returns(v) PROVE ImageInv'
  <1>1. /\ stage[v] = "returns" /\ stage'[v] = "idle" /\ UNCHANGED <<inFlight, Images!disk>>
        /\ \A w \in Viewers \ {v} : stage'[w] = stage[w]
        /\ stage' \in [Viewers -> ImageStages] /\ inFlight' \in [Apps -> Viewers \union {NoFile}]
    BY DEF ImageInv, ImageTypeOK, ImageStages, Images!Returns, Images!Moves
  <1>2. OneDownload'
    BY <1>1 DEF ImageInv, OneDownload, Downloading
  <1>3. \A w \in Viewers : stage'[w] = "writes" <=> stage[w] = "writes"
    BY <1>1
  <1> QED  BY <1>1, <1>2, <1>3, ImageMovesKeeps DEF Images!disk

LEMMA ImagesStepKeeps ==
    ASSUME Images!ImagesAssumption, ImageInv, [Images!ImagesNext]_imageVars PROVE ImageInv'
  <1>1. ASSUME NEW v \in Viewers, NEW age \in Ages, Images!Look(v, age) PROVE ImageInv'
    BY <1>1, LookKeeps
  <1>2. ASSUME NEW v \in Viewers,
               \/ Images!EnterOrWait(v) \/ Images!CreateTemp(v) \/ Images!RenameTemp(v)
               \/ Images!RemoveTemp(v) \/ Images!DownloadFails(v) \/ Images!LeaveFlight(v)
               \/ Images!CloseEntry(v) \/ Images!Returns(v)
        PROVE  ImageInv'
    BY <1>2, EnterKeeps, CreateTempKeeps, RenameTempKeeps, RemoveTempKeeps, DownloadFailsKeeps,
       LeaveFlightKeeps, CloseEntryKeeps, ReturnsKeeps
  <1>3. CASE Images!HourPasses \/ UNCHANGED imageVars
    <2>1. UNCHANGED <<file, temp, content, openers, opened, inFlight, stage>>
      BY <1>3 DEF Images!HourPasses, imageVars
    <2> QED
      BY <2>1 DEF ImageInv, ImageTypeOK, OneDownload, Downloading, WritersHaveFiles, TempIsOpen,
                  Images!ImagesAreWhole
  <1> QED  BY <1>1, <1>2, <1>3 DEF Images!ImagesNext

\* The image cache (image_cache.go): unless two applications, one of them replaced
\* by a reload, have opened the same temporary file, what is served under the
\* image's name is the whole image; for any number of viewers and applications.
THEOREM ImagesAreWholeHolds == ServicesSpec => []ImagesAreWhole
  <1>1. ServicesInit => ImageInv
    BY ImagesStart DEF ServicesInit
  <1>2. ImageInv /\ [ServicesNext]_servicesVars => ImageInv'
    BY PartsAssumption, ImageSteps, ImagesStepKeeps
  <1>3. ImageInv => ImagesAreWhole
    BY DEF ImageInv, ImagesAreWhole
  <1> QED  BY <1>1, <1>2, <1>3, PTL DEF ServicesSpec

--------------------------------------------------------------------------------
\* The steps of Services as the widgets see them.
LEMMA TodoSteps == [ServicesNext]_servicesVars => [Todo!TodoNext]_todoVars
  BY DEF ServicesNext, HelperNext, WidgetNext, servicesVars, widgetVars

LEMMA SpeedSteps == [ServicesNext]_servicesVars => [Speed!SpeedNext]_speedVars
  BY DEF ServicesNext, HelperNext, WidgetNext, servicesVars, widgetVars

LEMMA PullSteps == [ServicesNext]_servicesVars => [Docker!PullsNext]_pullVars
  BY DEF ServicesNext, HelperNext, WidgetNext, servicesVars, widgetVars

LEMMA SearchSteps == [ServicesNext]_servicesVars => [Search!SearchNext]_searchVars /\ UNCHANGED part
  BY DEF ServicesNext, HelperNext, WidgetNext, servicesVars, widgetVars

LEMMA GroupSteps == [ServicesNext]_servicesVars => [Groups!GroupsNext]_groupVars
  BY DEF ServicesNext, HelperNext, WidgetNext, servicesVars, widgetVars

LEMMA TemplateSteps == [ServicesNext]_servicesVars => [Dyna!TemplateNext]_templateVars
  BY DEF ServicesNext, HelperNext, WidgetNext, servicesVars, widgetVars

--------------------------------------------------------------------------------
\* To-do lists.

TodoSave == [tab : Tabs \union {NoTab}, list : SUBSET TodoTasks, base : SUBSET TodoTasks, n : Nat]
TodoTab == [at : {"closed", "loading", "open"}, shown : SUBSET TodoTasks, seen : SUBSET TodoTasks]

TodoTypeOK ==
    /\ stored \in SUBSET TodoTasks /\ saves \in Nat
    /\ tx \in [save : TodoSave, rows : SUBSET TodoTasks]
    /\ tab \in [Tabs -> TodoTab]
    /\ puts \subseteq TodoSave

\* The rows of a transaction are those of a save that was sent.
RowsAreSent ==
    /\ stored \in sent
    /\ \A p \in puts : p.list \in sent
    /\ tx /= Todo!NoTx => tx.save \in puts /\ tx.rows \subseteq tx.save.list

\* Until somebody is careless: a transaction knows what it replaces, a save
\* leaves out nothing its tab had seen but what was deleted, and a tab shows all
\* it has seen and all it still saves, but what was deleted.
BaseIsStored == tx /= Todo!NoTx => tx.save.base = stored

SavesDelete == \A p \in puts : p.base \ p.list \subseteq deleted

TabsDelete ==
    /\ \A b \in Tabs : tab[b].seen \ tab[b].shown \subseteq deleted
    /\ \A p \in puts : p.tab \in Tabs =>
          tab[p.tab].at = "open" /\ p.list \ tab[p.tab].shown \subseteq deleted

Careful == kept \ deleted \subseteq stored /\ BaseIsStored /\ SavesDelete /\ TabsDelete

TodoInv == TodoTypeOK /\ RowsAreSent /\ (~careless => Careful)

-----------------------------------------------------------------------------
LEMMA TodoStarts == ASSUME Todo!TodoInit PROVE TodoInv
  <1>1. PICK t \in TodoTasks :
              /\ stored = {t} /\ sent = {{t}} /\ kept = {t}
              /\ tx = Todo!NoTx /\ puts = {} /\ saves = 0
              /\ tab = [b \in Tabs |-> [at |-> "closed", shown |-> {}, seen |-> {}]]
              /\ deleted = {} /\ careless = FALSE
    BY DEF Todo!TodoInit
  <1>2. TodoTypeOK
    BY <1>1 DEF TodoTypeOK, TodoTab, TodoSave, Todo!NoTx, Todo!NoSave
  <1>3. RowsAreSent
    BY <1>1 DEF RowsAreSent
  <1>4. Careful
    BY <1>1 DEF Careful, BaseIsStored, SavesDelete, TabsDelete
  <1> QED  BY <1>2, <1>3, <1>4 DEF TodoInv

\* A tab that opens, loads or fails to load has no save on its way, unless
\* somebody was careless.
LEMMA TabMovesKeeps ==
    ASSUME TodoInv, NEW b \in Tabs, NEW t \in TodoTab, tab[b].at /= "open", t.seen = t.shown \/ t.seen = {},
           tab' = [tab EXCEPT ![b] = t],
           UNCHANGED <<stored, tx, puts, saves, sent, kept, deleted, careless>>
    PROVE  TodoInv'
  <1>1. tab'[b] = t /\ \A c \in Tabs \ {b} : tab'[c] = tab[c]
    BY DEF TodoInv, TodoTypeOK
  <1>2. TodoTypeOK'
    BY DEF TodoInv, TodoTypeOK
  <1>3. RowsAreSent'
    BY DEF TodoInv, RowsAreSent
  <1>4. ASSUME Careful PROVE Careful'
    <2>1. SavesDelete' /\ BaseIsStored' /\ (kept \ deleted \subseteq stored)'
      BY <1>4 DEF Careful, SavesDelete, BaseIsStored
    <2>2. TabsDelete'
      BY <1>1, <1>4 DEF Careful, TabsDelete
    <2> QED  BY <2>1, <2>2 DEF Careful
  <1> QED  BY <1>2, <1>3, <1>4 DEF TodoInv

LEMMA OpenPageKeeps == ASSUME TodoInv, NEW b \in Tabs, Todo!OpenPage(b) PROVE TodoInv'
  <1> DEFINE t == [tab[b] EXCEPT !.at = "loading"]
  <1>1. t \in TodoTab /\ t.seen = tab[b].seen /\ t.shown = tab[b].shown
    BY DEF TodoInv, TodoTypeOK, TodoTab
  <1>2. tab'[b] = t /\ \A c \in Tabs \ {b} : tab'[c] = tab[c]
    BY DEF TodoInv, TodoTypeOK, Todo!OpenPage
  <1>3. TodoTypeOK'
    BY <1>1 DEF TodoInv, TodoTypeOK, Todo!OpenPage
  <1>4. RowsAreSent'
    BY DEF TodoInv, RowsAreSent, Todo!OpenPage
  <1>5. ASSUME Careful PROVE Careful'
    <2>1. SavesDelete' /\ BaseIsStored' /\ (kept \ deleted \subseteq stored)'
      BY <1>5 DEF Careful, SavesDelete, BaseIsStored, Todo!OpenPage
    <2>2. TabsDelete'
      BY <1>1, <1>2, <1>5 DEF Careful, TabsDelete, Todo!OpenPage
    <2> QED  BY <2>1, <2>2 DEF Careful
  <1> QED  BY <1>3, <1>4, <1>5 DEF TodoInv, Todo!OpenPage

LEMMA LoadedKeeps ==
    ASSUME TodoInv, NEW b \in Tabs, Todo!Loaded(b) \/ Todo!LoadFails(b) PROVE TodoInv'
  <1>1. CASE Todo!Loaded(b)
    <2> DEFINE t == [at |-> "open", shown |-> stored, seen |-> stored]
    <2>1. t \in TodoTab
      BY DEF TodoInv, TodoTypeOK, TodoTab
    <2> QED  BY <1>1, <2>1, TabMovesKeeps DEF Todo!Loaded
  <1>2. CASE Todo!LoadFails(b)
    <2> DEFINE t == [at |-> "open", shown |-> {}, seen |-> {}]
    <2>1. t \in TodoTab
      BY DEF TodoTab
    <2> QED  BY <1>2, <2>1, TabMovesKeeps DEF Todo!LoadFails
  <1> QED  BY <1>1, <1>2

\* A careful save: its tab is open, knows what is stored and has no other on its way.
LEMMA SaveItemsKeeps ==
    ASSUME TodoInv, NEW b \in Tabs, NEW list \in SUBSET TodoTasks, Todo!SaveItems(b, list),
           deleted \subseteq deleted', tab[b].shown \ list \subseteq deleted'
    PROVE  TodoInv'
  <1> DEFINE p == [tab |-> b, list |-> list, base |-> tab[b].seen, n |-> saves + 1]
  <1>1. p \in TodoSave /\ p.tab = b /\ p.list = list /\ p.base = tab[b].seen
    BY DEF TodoInv, TodoTypeOK, TodoSave, TodoTab
  <1>2. /\ tab'[b] = [tab[b] EXCEPT !.shown = list]
        /\ \A c \in Tabs \ {b} : tab'[c] = tab[c]
    BY DEF TodoInv, TodoTypeOK, Todo!SaveItems
  <1>3. /\ tab'[b] \in TodoTab /\ tab'[b].shown = list
        /\ tab'[b].seen = tab[b].seen /\ tab'[b].at = tab[b].at
    BY <1>2 DEF TodoInv, TodoTypeOK, TodoTab
  <1>4. puts' = puts \union {p} /\ sent' = sent \union {list}
    BY DEF Todo!SaveItems
  <1>5. TodoTypeOK'
    <2>1. tab' \in [Tabs -> TodoTab]
      BY <1>2, <1>3 DEF TodoInv, TodoTypeOK, Todo!SaveItems
    <2> QED  BY <1>1, <1>4, <2>1 DEF TodoInv, TodoTypeOK, Todo!SaveItems
  <1>6. RowsAreSent'
    BY <1>1, <1>4 DEF TodoInv, RowsAreSent, Todo!SaveItems
  <1>7. ASSUME ~careless' PROVE Careful'
    <2>1. /\ ~careless /\ tab[b].at /= "loading" /\ tab[b].at /= "closed"
          /\ \A q \in puts : q.tab /= b
      BY <1>7 DEF Todo!SaveItems
    <2>2. Careful /\ tab[b].at = "open"
      BY <2>1 DEF TodoInv, TodoTypeOK, TodoTab
    <2>3. tab[b].seen \ list \subseteq deleted'
      BY <2>2 DEF Careful, TabsDelete
    <2>4. SavesDelete'
      BY <1>1, <1>4, <2>2, <2>3 DEF Careful, SavesDelete
    <2>5. TabsDelete'
      <3>1. \A c \in Tabs : tab'[c].seen \ tab'[c].shown \subseteq deleted'
        BY <1>2, <1>3, <2>2, <2>3 DEF Careful, TabsDelete
      <3>2. \A q \in puts : q.tab \in Tabs =>
                tab'[q.tab].at = "open" /\ q.list \ tab'[q.tab].shown \subseteq deleted'
        BY <1>2, <2>1, <2>2 DEF Careful, TabsDelete
      <3>3. tab'[p.tab].at = "open" /\ p.list \ tab'[p.tab].shown \subseteq deleted'
        BY <1>1, <1>3, <2>2
      <3> QED  BY <1>4, <3>1, <3>2, <3>3 DEF TabsDelete
    <2>6. BaseIsStored' /\ (kept \ deleted \subseteq stored)'
      BY <2>2 DEF Careful, BaseIsStored, Todo!SaveItems
    <2> QED  BY <2>4, <2>5, <2>6 DEF Careful
  <1> QED  BY <1>5, <1>6, <1>7 DEF TodoInv

LEMMA EditKeeps ==
    ASSUME TodoInv, NEW b \in Tabs, NEW t \in TodoTasks, Todo!AddTask(b, t) \/ Todo!DeleteTask(b, t)
    PROVE  TodoInv'
  <1>1. tab[b].shown \in SUBSET TodoTasks
    BY DEF TodoInv, TodoTypeOK, TodoTab
  <1>2. CASE Todo!AddTask(b, t)
    <2>1. tab[b].shown \union {t} \in SUBSET TodoTasks
      BY <1>1
    <2> QED  BY <1>2, <2>1, SaveItemsKeeps DEF Todo!AddTask
  <1>3. CASE Todo!DeleteTask(b, t)
    <2>1. tab[b].shown \ {t} \in SUBSET TodoTasks
      BY <1>1
    <2> QED  BY <1>3, <2>1, SaveItemsKeeps DEF Todo!DeleteTask
  <1> QED  BY <1>2, <1>3

-----------------------------------------------------------------------------
LEMMA BeginTxKeeps == ASSUME TodoInv, NEW p \in puts, Todo!BeginTx(p) PROVE TodoInv'
  <1>1. p \in TodoSave /\ tx'.save = p /\ tx'.rows = {}
    BY DEF TodoInv, TodoTypeOK, Todo!BeginTx
  <1>2. TodoTypeOK'
    BY <1>1 DEF TodoInv, TodoTypeOK, Todo!BeginTx
  <1>3. RowsAreSent'
    BY <1>1 DEF TodoInv, RowsAreSent, Todo!BeginTx
  <1>4. ASSUME ~careless' PROVE Careful'
    <2>1. Careful /\ p.base = stored
      BY <1>4 DEF TodoInv, Todo!BeginTx
    <2> QED  BY <1>1, <2>1 DEF Careful, BaseIsStored, SavesDelete, TabsDelete, Todo!BeginTx
  <1> QED  BY <1>2, <1>3, <1>4 DEF TodoInv

LEMMA InsertRowKeeps == ASSUME TodoInv, NEW t \in TodoTasks, Todo!InsertRow(t) PROVE TodoInv'
  <1>1. /\ tx \in [save : TodoSave, rows : SUBSET TodoTasks]
        /\ tx'.save = tx.save /\ tx'.rows = tx.rows \union {t}
        /\ tx' \in [save : TodoSave, rows : SUBSET TodoTasks]
    BY DEF TodoInv, TodoTypeOK, Todo!InsertRow
  <1>2. TodoTypeOK'
    BY <1>1 DEF TodoInv, TodoTypeOK, Todo!InsertRow
  <1>3. RowsAreSent'
    BY <1>1 DEF TodoInv, RowsAreSent, Todo!InsertRow
  <1>4. ASSUME Careful PROVE Careful'
    BY <1>1, <1>4 DEF Careful, BaseIsStored, SavesDelete, TabsDelete, Todo!InsertRow
  <1> QED  BY <1>2, <1>3, <1>4 DEF TodoInv, Todo!InsertRow

\* What is stored next is the list of a save made from what is stored now.
LEMMA CommitKeeps == ASSUME Todo!TodoAssumption, TodoInv, Todo!Commit PROVE TodoInv'
  <1> DEFINE p == tx.save
  <1>1. /\ p \in puts /\ p \in TodoSave /\ tx.rows = p.list /\ stored' = p.list
        /\ p.list \in SUBSET TodoTasks
    BY DEF TodoInv, TodoTypeOK, RowsAreSent, Todo!Commit, TodoSave
  <1>2. /\ \A b \in Tabs : b = p.tab => tab'[b] = [tab[b] EXCEPT !.seen = tx.rows]
        /\ \A b \in Tabs : b /= p.tab => tab'[b] = tab[b]
        /\ DOMAIN tab' = Tabs /\ tab' = [b \in Tabs |-> tab'[b]]
    BY DEF Todo!Commit
  <1>3. \A b \in Tabs : /\ tab'[b] \in TodoTab
                        /\ tab'[b].at = tab[b].at /\ tab'[b].shown = tab[b].shown
                        /\ tab'[b].seen = IF b = p.tab THEN p.list ELSE tab[b].seen
    <2> TAKE b \in Tabs
    <2>1. tab[b] \in TodoTab
      BY DEF TodoInv, TodoTypeOK
    <2>2. CASE b = p.tab
      <3>1. tab'[b] = [tab[b] EXCEPT !.seen = p.list]
        BY <1>1, <1>2, <2>2
      <3> QED  BY <1>1, <2>1, <2>2, <3>1 DEF TodoTab
    <2>3. CASE b /= p.tab
      BY <1>2, <2>1, <2>3
    <2> QED  BY <2>2, <2>3
  <1>4. TodoTypeOK'
    <2>1. Todo!NoTx \in [save : TodoSave, rows : SUBSET TodoTasks]
      BY DEF Todo!NoTx, Todo!NoSave, TodoSave
    <2>2. tab' \in [Tabs -> TodoTab]
      BY <1>2, <1>3
    <2> QED  BY <1>1, <2>1, <2>2 DEF TodoInv, TodoTypeOK, Todo!Commit
  <1>5. RowsAreSent'
    BY <1>1 DEF TodoInv, RowsAreSent, Todo!Commit
  <1>6. ASSUME Careful PROVE Careful'
    <2>1. p.base = stored /\ p.base \ p.list \subseteq deleted
      BY <1>1, <1>6 DEF Careful, BaseIsStored, SavesDelete, Todo!Commit
    <2>2. (kept \ deleted \subseteq stored)'
      BY <1>1, <1>6, <2>1 DEF Careful, Todo!Commit
    <2>3. SavesDelete' /\ BaseIsStored'
      BY <1>6 DEF Careful, SavesDelete, BaseIsStored, Todo!Commit
    <2>4. TabsDelete'
      BY <1>1, <1>3, <1>6 DEF Careful, TabsDelete, Todo!Commit
    <2> QED  BY <2>2, <2>3, <2>4 DEF Careful
  <1> QED  BY <1>4, <1>5, <1>6 DEF TodoInv, Todo!Commit

LEMMA RollbackKeeps == ASSUME TodoInv, Todo!Rollback PROVE TodoInv'
  <1>1. Todo!NoTx \in [save : TodoSave, rows : SUBSET TodoTasks]
    BY DEF Todo!NoTx, Todo!NoSave, TodoSave
  <1>2. TodoTypeOK'
    BY <1>1 DEF TodoInv, TodoTypeOK, Todo!Rollback, Todo!RolledBack
  <1>3. RowsAreSent'
    BY DEF TodoInv, RowsAreSent, Todo!Rollback, Todo!RolledBack
  <1>4. ASSUME Careful PROVE Careful'
    BY <1>4 DEF Careful, BaseIsStored, SavesDelete, TabsDelete, Todo!Rollback, Todo!RolledBack
  <1> QED  BY <1>2, <1>3, <1>4 DEF TodoInv, Todo!Rollback

LEMMA SaveFailsKeeps == ASSUME TodoInv, NEW p \in puts, Todo!SaveFails(p) PROVE TodoInv'
  <1>1. TodoTypeOK' /\ RowsAreSent'
    BY DEF TodoInv, TodoTypeOK, RowsAreSent, Todo!SaveFails
  <1>2. ASSUME Careful PROVE Careful'
    BY <1>2 DEF Careful, BaseIsStored, SavesDelete, TabsDelete, Todo!SaveFails
  <1> QED  BY <1>1, <1>2 DEF TodoInv, Todo!SaveFails

\* A save whose tab is gone is as it was, but for its tab.
LEMMA OrphanIsAlike ==
    ASSUME NEW b \in Tabs, NEW p \in TodoSave
    PROVE  /\ Todo!Orphan(b, p) \in TodoSave
           /\ Todo!Orphan(b, p).list = p.list /\ Todo!Orphan(b, p).base = p.base
           /\ Todo!Orphan(b, p).tab = IF p.tab = b THEN NoTab ELSE p.tab
  BY DEF Todo!Orphan, TodoSave

LEMMA ClosePageKeeps == ASSUME Todo!TodoAssumption, TodoInv, NEW b \in Tabs, Todo!ClosePage(b) PROVE TodoInv'
  <1> DEFINE t == [at |-> "closed", shown |-> {}, seen |-> {}]
  <1>1. /\ t \in TodoTab /\ tab'[b] = t
        /\ \A c \in Tabs \ {b} : tab'[c] = tab[c]
    BY DEF TodoInv, TodoTypeOK, Todo!ClosePage, TodoTab
  <1>2. /\ tx.save \in TodoSave /\ tx'.save = Todo!Orphan(b, tx.save) /\ tx'.rows = tx.rows
        /\ tx' \in [save : TodoSave, rows : SUBSET TodoTasks]
    BY OrphanIsAlike DEF TodoInv, TodoTypeOK, Todo!ClosePage
  <1>3. tx = Todo!NoTx => tx' = Todo!NoTx
    <2>1. Todo!Orphan(b, Todo!NoSave) = Todo!NoSave
      BY DEF Todo!Orphan, Todo!NoSave
    <2>2. [Todo!NoTx EXCEPT !.save = Todo!NoSave] = Todo!NoTx /\ Todo!NoTx.save = Todo!NoSave
      BY DEF Todo!NoTx
    <2> QED  BY <2>1, <2>2 DEF Todo!ClosePage
  <1>4. \A q \in puts' : \E p \in puts : q = Todo!Orphan(b, p)
    BY DEF Todo!ClosePage
  <1>5. \A p \in puts : p \in TodoSave /\ Todo!Orphan(b, p) \in puts'
    BY DEF Todo!ClosePage, TodoInv, TodoTypeOK
  <1>6. TodoTypeOK'
    <2>1. puts' \subseteq TodoSave
      BY <1>4, <1>5, OrphanIsAlike
    <2> QED  BY <1>1, <1>2, <2>1 DEF TodoInv, TodoTypeOK, Todo!ClosePage
  <1>7. RowsAreSent'
    <2>1. \A q \in puts' : q.list \in sent'
      BY <1>4, <1>5, OrphanIsAlike DEF TodoInv, RowsAreSent, Todo!ClosePage
    <2>2. ASSUME tx' /= Todo!NoTx PROVE tx'.save \in puts' /\ tx'.rows \subseteq tx'.save.list
      BY <1>2, <1>3, <1>5, <2>2, OrphanIsAlike DEF TodoInv, RowsAreSent
    <2> QED  BY <2>1, <2>2 DEF TodoInv, RowsAreSent, Todo!ClosePage
  <1>8. ASSUME Careful PROVE Careful'
    <2>1. SavesDelete'
      BY <1>4, <1>5, <1>8, OrphanIsAlike DEF Careful, SavesDelete, Todo!ClosePage
    <2>2. TabsDelete'
      <3>1. \A c \in Tabs : (tab[c].seen \ tab[c].shown \subseteq deleted)'
        BY <1>1, <1>8 DEF Careful, TabsDelete, Todo!ClosePage
      <3>2. ASSUME NEW q \in puts', q.tab \in Tabs
            PROVE  (tab[q.tab].at = "open" /\ q.list \ tab[q.tab].shown \subseteq deleted)'
        <4>1. PICK p \in puts : q = Todo!Orphan(b, p)
          BY <1>4
        <4>2. p.tab /= b /\ q.tab = p.tab /\ q.list = p.list
          BY <1>5, <3>2, <4>1, OrphanIsAlike DEF Todo!TodoAssumption
        <4> QED  BY <1>1, <1>8, <3>2, <4>2 DEF Careful, TabsDelete, Todo!ClosePage
      <3> QED  BY <3>1, <3>2 DEF TabsDelete
    <2>3. BaseIsStored' /\ (kept \ deleted \subseteq stored)'
      BY <1>2, <1>3, <1>8, OrphanIsAlike DEF Careful, BaseIsStored, Todo!ClosePage
    <2> QED  BY <2>1, <2>2, <2>3 DEF Careful
  <1> QED  BY <1>6, <1>7, <1>8 DEF TodoInv, Todo!ClosePage

LEMMA TodoStutterKeeps == ASSUME TodoInv, UNCHANGED todoVars PROVE TodoInv'
  BY DEF TodoInv, TodoTypeOK, RowsAreSent, Careful, BaseIsStored, SavesDelete, TabsDelete, todoVars

LEMMA TodoStepKeeps == ASSUME TodoInv, [Todo!TodoNext]_todoVars PROVE TodoInv'
  <1>1. CASE UNCHANGED todoVars
    BY <1>1, TodoStutterKeeps
  <1>2. ASSUME NEW b \in Tabs, Todo!OpenPage(b) \/ Todo!Loaded(b) \/ Todo!LoadFails(b) PROVE TodoInv'
    BY <1>2, OpenPageKeeps, LoadedKeeps
  <1>3. ASSUME NEW b \in Tabs, Todo!ClosePage(b) PROVE TodoInv'
    BY <1>3, PartsAssumption, ClosePageKeeps
  <1>4. ASSUME NEW b \in Tabs, NEW t \in TodoTasks, Todo!AddTask(b, t) \/ Todo!DeleteTask(b, t) PROVE TodoInv'
    BY <1>4, EditKeeps
  <1>5. ASSUME NEW p \in puts, Todo!BeginTx(p) \/ Todo!SaveFails(p) PROVE TodoInv'
    BY <1>5, BeginTxKeeps, SaveFailsKeeps
  <1>6. ASSUME NEW t \in TodoTasks, Todo!InsertRow(t) PROVE TodoInv'
    BY <1>6, InsertRowKeeps
  <1>7. CASE Todo!Commit \/ Todo!Rollback
    BY <1>7, PartsAssumption, CommitKeeps, RollbackKeeps
  <1> QED  BY <1>1, <1>2, <1>3, <1>4, <1>5, <1>6, <1>7 DEF Todo!TodoNext

-----------------------------------------------------------------------------
\* Whatever saves overtake each other or break off, what is stored is a list that
\* a tab sent, and nothing is lost that nobody deleted, until a tab saves without
\* knowing what is stored.
THEOREM TasksSurviveHolds == ServicesSpec => []TasksSurvive
  <1>1. ServicesInit => TodoInv
    BY TodoStarts, PartsAssumption DEF ServicesInit
  <1>2. TodoInv /\ [ServicesNext]_servicesVars => TodoInv'
    BY TodoSteps, TodoStepKeeps
  <1>3. TodoInv => TasksSurvive
    BY DEF TodoInv, RowsAreSent, Careful, Todo!TasksSurvive, TasksSurvive
  <1> QED  BY <1>1, <1>2, <1>3, PTL DEF ServicesSpec

--------------------------------------------------------------------------------
\* Speedtests.

TestStages == {"none", "resolve", "ping", "download", "upload", "succeed", "fail"}

SpeedTypeOK ==
    /\ running \in BOOLEAN /\ lastErr \in BOOLEAN
    /\ result \in Nat /\ previous \in Nat /\ resultAge \in Nat
    /\ selected \in Servers \union {NoServer}
    /\ broken \subseteq Servers \union {NoServer}
    /\ test \in [Testers -> [at : TestStages, server : Servers \union {NoServer}, kept : BOOLEAN]]
    /\ render \in [Renderers -> [at : {"none", "current", "both"}, current : Nat, previous : Nat]]

\* running is TRUE while there is a test, and there is never a second one.
OneTest ==
    /\ \A x \in Testers : test[x] /= Speed!NoTest => running /\ test[x].at /= "none"
    /\ \A x, y \in Testers : test[x] /= Speed!NoTest /\ test[y] /= Speed!NoTest => x = y

\* The server that is kept has not failed, and a test measures with it.
KeptWorks ==
    /\ selected /= NoServer => selected \notin broken
    /\ \A x \in Testers : Speed!Measuring(x) => test[x].server = selected /\ selected /= NoServer

\* The result before is one older, and what a renderer took first is at most one
\* test old: then that test is too young for another to start.
Neighbours ==
    /\ previous = IF result = 0 THEN 0 ELSE result - 1
    /\ \A r \in Renderers :
        /\ render[r].at = "current" =>
               \/ render[r].current = result
               \/ /\ render[r].current + 1 = result
                  /\ ~running /\ resultAge = 0
        /\ render[r].at = "both" /\ render[r].previous /= 0 =>
               render[r].current - render[r].previous \in {0, 1}

SpeedInv == SpeedTypeOK /\ OneTest /\ KeptWorks /\ Neighbours

SpeedTest == [at : TestStages, server : Servers \union {NoServer}, kept : BOOLEAN]

-----------------------------------------------------------------------------
LEMMA SpeedStarts == ASSUME Speed!SpeedAssumption, Speed!SpeedInit PROVE SpeedInv
  BY DEF Speed!SpeedAssumption, Speed!SpeedInit, Speed!NoTest, Speed!NoRender, TestStages, Speed!Measuring,
         SpeedInv, SpeedTypeOK, OneTest, KeptWorks, Neighbours

\* A stage of a test that measures nothing new leaves the rest as it is: what
\* the steps that change only test have in common.
LEMMA TestMovesKeeps ==
    ASSUME SpeedInv, NEW x \in Testers, NEW t \in SpeedTest,
           test[x].at /= "none",  t.at /= "none",
           t.at \in {"ping", "download", "upload"} => t.server = selected /\ selected /= NoServer,
           test' = [test EXCEPT ![x] = t],
           UNCHANGED <<running, result, previous, lastErr, selected, resultAge, broken, render>>
    PROVE  SpeedInv'
  <1>1. test'[x] = t /\ \A y \in Testers \ {x} : test'[y] = test[y]
    BY DEF SpeedInv, SpeedTypeOK
  <1>2. test[x] /= Speed!NoTest /\ running
    BY DEF Speed!NoTest, SpeedInv, OneTest
  <1>3. SpeedTypeOK'
    BY DEF SpeedInv, SpeedTypeOK, SpeedTest
  <1>4. OneTest'
    BY <1>1, <1>2 DEF SpeedInv, OneTest, Speed!NoTest
  <1>5. KeptWorks'
    BY <1>1 DEF SpeedInv, KeptWorks, Speed!Measuring
  <1>6. Neighbours'
    BY DEF SpeedInv, Neighbours
  <1> QED  BY <1>3, <1>4, <1>5, <1>6 DEF SpeedInv

\* Whoever is at a stage runs the only test.
LEMMA OnlyTest ==
    ASSUME SpeedInv, NEW x \in Testers, test[x].at /= "none"
    PROVE  /\ running /\ test[x] /= Speed!NoTest
           /\ \A y \in Testers \ {x} : test[y] = Speed!NoTest /\ ~Speed!Measuring(y)
  <1>1. Speed!NoTest.at = "none"
    BY DEF Speed!NoTest
  <1>2. running /\ test[x] /= Speed!NoTest
    BY <1>1 DEF SpeedInv, OneTest
  <1>3. \A y \in Testers \ {x} : test[y] = Speed!NoTest
    BY <1>2 DEF SpeedInv, OneTest
  <1> QED  BY <1>1, <1>2, <1>3 DEF Speed!Measuring

LEMMA TriggerKeeps ==
    ASSUME Speed!SpeedAssumption, SpeedInv, NEW x \in Testers, Speed!Trigger(x)
    PROVE  SpeedInv'
  <1> DEFINE t == [Speed!NoTest EXCEPT !.at = "resolve"]
  <1>1. /\ t \in SpeedTest /\ t.at = "resolve" /\ t /= Speed!NoTest
        /\ test'[x] = t /\ \A y \in Testers \ {x} : test'[y] = test[y]
    BY DEF SpeedInv, SpeedTypeOK, Speed!Trigger, SpeedTest, Speed!NoTest, TestStages
  <1>2. ~running /\ \A y \in Testers : test[y] = Speed!NoTest
    BY DEF Speed!Trigger, Speed!Triggers, SpeedInv, OneTest
  <1>3. SpeedTypeOK'
    BY <1>1 DEF SpeedInv, SpeedTypeOK, Speed!Trigger, SpeedTest
  <1>4. OneTest'
    BY <1>1, <1>2 DEF OneTest, Speed!Trigger
  <1>5. KeptWorks'
    BY <1>1 DEF SpeedInv, KeptWorks, Speed!Measuring, Speed!Trigger
  <1>6. result = 0 \/ resultAge /= 0
    BY DEF Speed!Trigger, Speed!Triggers, Speed!Debounced, Speed!SpeedAssumption, SpeedInv, SpeedTypeOK
  <1>7. Neighbours'
    BY <1>6 DEF SpeedInv, SpeedTypeOK, Neighbours, Speed!Trigger
  <1> QED  BY <1>3, <1>4, <1>5, <1>7 DEF SpeedInv

LEMMA KeepServerKeeps ==
    ASSUME SpeedInv, NEW x \in Testers, Speed!KeepServer(x)
    PROVE  SpeedInv'
  <1> DEFINE t == [at |-> "ping", server |-> selected, kept |-> TRUE]
  <1>1. t \in SpeedTest
    BY DEF SpeedInv, SpeedTypeOK, SpeedTest, TestStages
  <1> QED  BY <1>1, TestMovesKeeps DEF Speed!KeepServer

LEMMA NoServerFoundKeeps ==
    ASSUME SpeedInv, NEW x \in Testers, Speed!NoServerFound(x)
    PROVE  SpeedInv'
  <1> DEFINE t == [test[x] EXCEPT !.at = "fail"]
  <1>1. t \in SpeedTest /\ t.at = "fail"
    BY DEF SpeedInv, SpeedTypeOK, SpeedTest, TestStages
  <1> QED  BY <1>1, TestMovesKeeps DEF Speed!NoServerFound

LEMMA MeasurePingKeeps ==
    ASSUME SpeedInv, NEW x \in Testers, Speed!MeasurePing(x)
    PROVE  SpeedInv'
  <1> DEFINE t == [test[x] EXCEPT !.at = "download"]
  <1>1. t \in SpeedTest /\ t.at = "download" /\ t.server = test[x].server
    BY DEF SpeedInv, SpeedTypeOK, SpeedTest, TestStages
  <1>2. t.server = selected /\ selected /= NoServer
    BY <1>1 DEF SpeedInv, KeptWorks, Speed!Measuring, Speed!MeasurePing
  <1> QED  BY <1>1, <1>2, TestMovesKeeps DEF Speed!MeasurePing

LEMMA MeasureStreamsKeeps ==
    ASSUME SpeedInv, NEW x \in Testers, Speed!MeasureStreams(x)
    PROVE  SpeedInv'
  <1> DEFINE t == [test[x] EXCEPT !.at = IF @ = "download" THEN "upload" ELSE "succeed"]
  <1>1. t \in SpeedTest /\ t.at \in {"upload", "succeed"} /\ t.server = test[x].server
    BY DEF SpeedInv, SpeedTypeOK, SpeedTest, TestStages
  <1>2. t.server = selected /\ selected /= NoServer
    BY <1>1 DEF SpeedInv, KeptWorks, Speed!Measuring, Speed!MeasureStreams
  <1> QED  BY <1>1, <1>2, TestMovesKeeps DEF Speed!MeasureStreams

\* The only test is the one that picks, so no other measures with another server.
LEMMA AutoSelectKeeps ==
    ASSUME Speed!SpeedAssumption, SpeedInv, NEW x \in Testers, NEW s \in Servers, Speed!AutoSelectServer(x, s)
    PROVE  SpeedInv'
  <1> DEFINE t == [at |-> "ping", server |-> s, kept |-> FALSE]
  <1>1. /\ t \in SpeedTest /\ test'[x] = t
        /\ \A y \in Testers \ {x} : test'[y] = test[y]
    BY DEF SpeedInv, SpeedTypeOK, Speed!AutoSelectServer, SpeedTest, TestStages
  <1>2. /\ running /\ test[x] /= Speed!NoTest
        /\ \A y \in Testers \ {x} : test[y] = Speed!NoTest /\ ~Speed!Measuring(y)
    BY OnlyTest DEF Speed!AutoSelectServer
  <1>3. SpeedTypeOK'
    BY <1>1 DEF SpeedInv, SpeedTypeOK, Speed!AutoSelectServer, SpeedTest
  <1>4. OneTest'
    BY <1>1, <1>2 DEF OneTest, Speed!AutoSelectServer
  <1>5. KeptWorks'
    BY <1>1, <1>2 DEF Speed!SpeedAssumption, KeptWorks, Speed!Measuring, Speed!AutoSelectServer
  <1>6. Neighbours'
    BY DEF SpeedInv, Neighbours, Speed!AutoSelectServer
  <1> QED  BY <1>3, <1>4, <1>5, <1>6 DEF SpeedInv

LEMMA MeasureFailsKeeps ==
    ASSUME SpeedInv, NEW x \in Testers, Speed!MeasureFails(x)
    PROVE  SpeedInv'
  <1> DEFINE t == [test[x] EXCEPT !.at = "fail"]
  <1>1. /\ t \in SpeedTest /\ t.at = "fail" /\ test'[x] = t
        /\ \A y \in Testers \ {x} : test'[y] = test[y]
    BY DEF SpeedInv, SpeedTypeOK, Speed!MeasureFails, SpeedTest, TestStages
  <1>2. /\ running /\ test[x] /= Speed!NoTest
        /\ \A y \in Testers \ {x} : test[y] = Speed!NoTest /\ ~Speed!Measuring(y)
    BY OnlyTest DEF Speed!MeasureFails, Speed!Measuring
  <1>3. test[x].server \in Servers \union {NoServer}
    BY DEF SpeedInv, SpeedTypeOK
  <1>4. SpeedTypeOK'
    BY <1>1, <1>3 DEF SpeedInv, SpeedTypeOK, Speed!MeasureFails, Speed!Forgets, SpeedTest
  <1>5. OneTest'
    <2>1. \A y \in Testers : test'[y] /= Speed!NoTest => y = x
      BY <1>1, <1>2
    <2>2. test'[x].at = "fail" /\ running'
      BY <1>1, <1>2 DEF Speed!MeasureFails
    <2>3. Speed!NoTest' = Speed!NoTest
      BY DEF Speed!NoTest
    <2> QED  BY <2>1, <2>2, <2>3 DEF OneTest
  <1>6. KeptWorks'
    BY <1>1, <1>2 DEF KeptWorks, Speed!Measuring, Speed!MeasureFails, Speed!Forgets
  <1>7. Neighbours'
    BY DEF SpeedInv, Neighbours, Speed!MeasureFails
  <1> QED  BY <1>4, <1>5, <1>6, <1>7 DEF SpeedInv

\* While a test runs no renderer holds a result older than the last.
LEMMA SucceedKeeps ==
    ASSUME SpeedInv, NEW x \in Testers, Speed!Succeed(x)
    PROVE  SpeedInv'
  <1>1. Speed!NoTest \in SpeedTest /\ test' = [test EXCEPT ![x] = Speed!NoTest]
    BY DEF Speed!NoTest, SpeedTest, TestStages, Speed!Succeed
  <1>2. /\ running /\ test[x] /= Speed!NoTest
        /\ \A y \in Testers : test'[y] = Speed!NoTest
    <2>1. running /\ test[x] /= Speed!NoTest /\ \A y \in Testers \ {x} : test[y] = Speed!NoTest
      BY OnlyTest DEF Speed!Succeed
    <2> QED  BY <1>1, <2>1 DEF SpeedInv, SpeedTypeOK
  <1>3. SpeedTypeOK'
    <2>1. test' \in [Testers -> SpeedTest]
      BY <1>1 DEF SpeedInv, SpeedTypeOK, SpeedTest
    <2>2. result' \in Nat /\ previous' \in Nat /\ resultAge' \in Nat
      BY DEF SpeedInv, SpeedTypeOK, Speed!Succeed
    <2> QED  BY <2>1, <2>2 DEF SpeedInv, SpeedTypeOK, Speed!Succeed, SpeedTest
  <1>4. OneTest'
    BY <1>2 DEF OneTest
  <1>5. KeptWorks'
    BY <1>2 DEF SpeedInv, KeptWorks, Speed!Measuring, Speed!Succeed, Speed!NoTest
  <1>6. Neighbours'
    <2>1. \A r \in Renderers : render[r].at = "current" => render[r].current = result
      BY <1>2 DEF SpeedInv, Neighbours
    <2>2. result \in Nat /\ result' = result + 1 /\ previous' = result
      BY DEF SpeedInv, SpeedTypeOK, Speed!Succeed
    <2> QED  BY <2>1, <2>2 DEF SpeedInv, Neighbours, Speed!Succeed
  <1> QED  BY <1>3, <1>4, <1>5, <1>6 DEF SpeedInv

LEMMA FailKeeps ==
    ASSUME SpeedInv, NEW x \in Testers, Speed!Fail(x)
    PROVE  SpeedInv'
  <1>1. Speed!NoTest \in SpeedTest /\ test' = [test EXCEPT ![x] = Speed!NoTest]
    BY DEF Speed!NoTest, SpeedTest, TestStages, Speed!Fail
  <1>2. /\ running /\ \A y \in Testers : test'[y] = Speed!NoTest
    <2>1. running /\ \A y \in Testers \ {x} : test[y] = Speed!NoTest
      BY OnlyTest DEF Speed!Fail
    <2> QED  BY <1>1, <2>1 DEF SpeedInv, SpeedTypeOK
  <1>3. SpeedTypeOK'
    BY <1>1 DEF SpeedInv, SpeedTypeOK, Speed!Fail, SpeedTest
  <1>4. OneTest'
    BY <1>2 DEF OneTest
  <1>5. KeptWorks'
    BY <1>2 DEF SpeedInv, KeptWorks, Speed!Measuring, Speed!Fail, Speed!NoTest
  <1>6. Neighbours'
    BY <1>2 DEF SpeedInv, Neighbours, Speed!Fail
  <1> QED  BY <1>3, <1>4, <1>5, <1>6 DEF SpeedInv

-----------------------------------------------------------------------------
LEMMA TakeCurrentKeeps ==
    ASSUME SpeedInv, NEW r \in Renderers, Speed!TakeCurrent(r)
    PROVE  SpeedInv'
  <1>1. SpeedTypeOK' /\ OneTest' /\ KeptWorks'
    BY DEF SpeedInv, SpeedTypeOK, OneTest, KeptWorks, Speed!Measuring, Speed!TakeCurrent
  <1>2. Neighbours'
    BY DEF SpeedInv, SpeedTypeOK, Neighbours, Speed!TakeCurrent
  <1> QED  BY <1>1, <1>2 DEF SpeedInv

LEMMA TakePreviousKeeps ==
    ASSUME SpeedInv, NEW r \in Renderers, Speed!TakePrevious(r)
    PROVE  SpeedInv'
  <1>1. SpeedTypeOK' /\ OneTest' /\ KeptWorks'
    BY DEF SpeedInv, SpeedTypeOK, OneTest, KeptWorks, Speed!Measuring, Speed!TakePrevious
  <1>2. /\ render'[r].at = "both" /\ render'[r].current = render[r].current
        /\ render'[r].previous = previous
        /\ \A p \in Renderers \ {r} : render'[p] = render[p]
    BY DEF SpeedInv, SpeedTypeOK, Speed!TakePrevious
  <1>3. /\ result \in Nat /\ previous \in Nat /\ render[r].current \in Nat
        /\ previous /= 0 => previous = result - 1
        /\ render[r].current = result \/ render[r].current + 1 = result
    BY DEF SpeedInv, SpeedTypeOK, Neighbours, Speed!TakePrevious
  <1>4. previous /= 0 => render[r].current - previous \in {0, 1}
    BY <1>3
  <1>5. Neighbours'
    BY <1>2, <1>4 DEF SpeedInv, Neighbours, Speed!TakePrevious
  <1> QED  BY <1>1, <1>5 DEF SpeedInv

LEMMA ShowChangeKeeps ==
    ASSUME SpeedInv, NEW r \in Renderers, Speed!ShowChange(r)
    PROVE  SpeedInv'
  <1>1. SpeedTypeOK' /\ OneTest' /\ KeptWorks'
    BY DEF SpeedInv, SpeedTypeOK, OneTest, KeptWorks, Speed!Measuring, Speed!ShowChange, Speed!NoRender
  <1>2. Neighbours'
    BY DEF SpeedInv, SpeedTypeOK, Neighbours, Speed!ShowChange, Speed!NoRender
  <1> QED  BY <1>1, <1>2 DEF SpeedInv

LEMMA SpeedTickKeeps ==
    ASSUME SpeedInv, Speed!SpeedTick
    PROVE  SpeedInv'
  <1>1. SpeedTypeOK' /\ OneTest' /\ KeptWorks'
    BY DEF SpeedInv, SpeedTypeOK, OneTest, KeptWorks, Speed!Measuring, Speed!SpeedTick
  <1>2. Neighbours'
    BY DEF SpeedInv, Neighbours, Speed!SpeedTick
  <1> QED  BY <1>1, <1>2 DEF SpeedInv

LEMMA SpeedStutterKeeps == ASSUME SpeedInv, UNCHANGED speedVars PROVE SpeedInv'
  BY DEF SpeedInv, SpeedTypeOK, OneTest, KeptWorks, Speed!Measuring, Neighbours, speedVars

-----------------------------------------------------------------------------
\* An instance has its own name for what FiniteSets defines.
LEMMA SameCardinality == \A S : Speed!Cardinality(S) = Cardinality(S)
  BY DEF Speed!Cardinality, Cardinality

\* The invariant says what TestsAreSound promises, and a set with no two
\* different elements has at most one.
LEMMA SpeedInvIsSound == ASSUME SpeedInv PROVE Speed!TestsAreSound
  <1> DEFINE T == {x \in Testers : test[x] /= Speed!NoTest}
  <1>1. Cardinality(T) <= 1
    <2>1. CASE T = {}
      BY <2>1, FS_EmptySet
    <2>2. CASE T /= {}
      <3>1. PICK x \in T : TRUE
        BY <2>2
      <3>2. T = {x}
        BY <3>1 DEF SpeedInv, OneTest
      <3> QED  BY <3>2, FS_Singleton
    <2> QED  BY <2>1, <2>2
  <1>2. \A x \in Testers : Speed!Measuring(x) /\ test[x].kept => test[x].server \notin broken
    BY DEF SpeedInv, KeptWorks
  <1>3. \A r \in Renderers :
          render[r].at = "both" /\ render[r].current /= 0 /\ render[r].previous /= 0 =>
              render[r].current - render[r].previous \in {0, 1}
    BY DEF SpeedInv, Neighbours
  <1> QED  BY <1>1, <1>2, <1>3, SameCardinality DEF Speed!TestsAreSound

LEMMA SpeedStepKeeps == ASSUME SpeedInv, [Speed!SpeedNext]_speedVars PROVE SpeedInv'
  <1>1. CASE UNCHANGED speedVars
    BY <1>1, SpeedStutterKeeps
  <1>2. ASSUME NEW x \in Testers, Speed!Trigger(x) PROVE SpeedInv'
    BY <1>2, PartsAssumption, TriggerKeeps
  <1>3. ASSUME NEW x \in Testers, Speed!KeepServer(x) \/ Speed!NoServerFound(x) PROVE SpeedInv'
    BY <1>3, KeepServerKeeps, NoServerFoundKeeps
  <1>4. ASSUME NEW x \in Testers, NEW s \in Servers, Speed!AutoSelectServer(x, s) PROVE SpeedInv'
    BY <1>4, PartsAssumption, AutoSelectKeeps
  <1>5. ASSUME NEW x \in Testers, Speed!MeasurePing(x) \/ Speed!MeasureStreams(x) PROVE SpeedInv'
    BY <1>5, MeasurePingKeeps, MeasureStreamsKeeps
  <1>6. ASSUME NEW x \in Testers, Speed!MeasureFails(x) PROVE SpeedInv'
    BY <1>6, MeasureFailsKeeps
  <1>7. ASSUME NEW x \in Testers, Speed!Succeed(x) \/ Speed!Fail(x) PROVE SpeedInv'
    BY <1>7, SucceedKeeps, FailKeeps
  <1>8. ASSUME NEW r \in Renderers, Speed!TakeCurrent(r) \/ Speed!TakePrevious(r) \/ Speed!ShowChange(r)
        PROVE  SpeedInv'
    BY <1>8, TakeCurrentKeeps, TakePreviousKeeps, ShowChangeKeeps
  <1>9. CASE Speed!SpeedTick
    BY <1>9, SpeedTickKeeps
  <1> QED  BY <1>1, <1>2, <1>3, <1>4, <1>5, <1>6, <1>7, <1>8, <1>9 DEF Speed!SpeedNext

\* However many widgets share the runner, one test runs at a time, none with a
\* kept server that has failed, and no change is shown between results that are
\* not neighbours.
THEOREM TestsAreSoundHolds == ServicesSpec => []TestsAreSound
  <1>1. ServicesInit => SpeedInv
    BY SpeedStarts, PartsAssumption DEF ServicesInit
  <1>2. SpeedInv /\ [ServicesNext]_servicesVars => SpeedInv'
    BY SpeedSteps, SpeedStepKeeps
  <1>3. SpeedInv => TestsAreSound
    BY SpeedInvIsSound DEF TestsAreSound
  <1> QED  BY <1>1, <1>2, <1>3, PTL DEF ServicesSpec

--------------------------------------------------------------------------------
\* Pulls of images.
DockerPull == [layers : 0..Full, done : BOOLEAN, err : BOOLEAN]

DockerAsker == [at : {"none", "found", "not found", "ended", "told"}, id : 0..MaxPulls,
          done : BOOLEAN, err : BOOLEAN, percent : Int]

DockerTypeOK ==
    /\ pullsSeq \in 0..MaxPulls /\ pulls \subseteq Docker!Ids /\ minute \subseteq Docker!Ids
    /\ pull \in [Docker!Ids -> DockerPull]
    /\ asker \in [Askers -> DockerAsker]

\* A pull leaves the map after its end, and an end that was read is the end.
Ended ==
    /\ \A i \in Docker!Ids : (i <= pullsSeq /\ i \notin pulls) \/ i \in minute => pull[i].done
    /\ \A a \in Askers :
        /\ asker[a].at /= "none" => asker[a].id \in Docker!Ids
        /\ asker[a].done => asker[a].id \in Docker!Ids /\ pull[asker[a].id].done
                            /\ pull[asker[a].id].err = asker[a].err

DockerInv == DockerTypeOK /\ Ended /\ Docker!StatusIsTrue

LEMMA PercentBelowFull ==
    ASSUME Docker!PullsAssumption, NEW p \in DockerPull
    PROVE  Docker!Percent(p) \in Int /\ Docker!Percent(p) /= 100
  <1>1. (100 * p.layers) \div Full \in Int
    BY DEF Docker!PullsAssumption, DockerPull
  <1> QED  BY <1>1 DEF Docker!Percent

LEMMA QuietIsAsker ==
    ASSUME Docker!PullsAssumption
    PROVE  Docker!Quiet \in DockerAsker /\ Docker!Quiet.at = "none" /\ ~Docker!Quiet.done
  BY DEF Docker!PullsAssumption, Docker!Quiet, DockerAsker

LEMMA DockerStarts == ASSUME Docker!PullsAssumption, Docker!PullsInit PROVE DockerInv
  <1>1. Docker!Fresh \in DockerPull
    BY DEF Docker!PullsAssumption, Docker!Fresh, DockerPull
  <1>2. DockerTypeOK
    BY <1>1, QuietIsAsker DEF Docker!PullsAssumption, Docker!PullsInit, DockerTypeOK
  <1>3. Ended
    BY QuietIsAsker DEF Docker!PullsInit, Ended, Docker!Ids, Docker!PullsAssumption
  <1>4. Docker!StatusIsTrue
    BY QuietIsAsker DEF Docker!PullsInit, Docker!StatusIsTrue
  <1> QED  BY <1>2, <1>3, <1>4 DEF DockerInv

LEMMA StartPullKeeps == ASSUME Docker!PullsAssumption, DockerInv, Docker!StartPull PROVE DockerInv'
  <1>1. /\ pullsSeq' \in 0..MaxPulls /\ pullsSeq' = pullsSeq + 1 /\ pullsSeq + 1 \in Docker!Ids
        /\ pulls' \subseteq Docker!Ids
    BY DEF Docker!PullsAssumption, DockerInv, DockerTypeOK, Docker!StartPull, Docker!Ids
  <1>2. \A j \in Docker!Ids : j <= pullsSeq' /\ j \notin pulls' => j <= pullsSeq /\ j \notin pulls
    BY <1>1 DEF Docker!StartPull, DockerInv, DockerTypeOK, Docker!Ids, Docker!PullsAssumption
  <1> QED  BY <1>1, <1>2 DEF DockerInv, DockerTypeOK, Ended, Docker!StatusIsTrue, Docker!StartPull

\* What is not the end of a pull changes no end.
LEMMA SetLayerKeeps == ASSUME DockerInv, NEW i \in Docker!Ids, Docker!SetLayerProgress(i) PROVE DockerInv'
  <1>1. PICK n \in 0..Full : pull' = [pull EXCEPT ![i].layers = n]
    BY DEF Docker!SetLayerProgress
  <1>2. /\ pull' \in [Docker!Ids -> DockerPull]
        /\ \A j \in Docker!Ids : pull'[j].done = pull[j].done /\ pull'[j].err = pull[j].err
    BY <1>1 DEF DockerInv, DockerTypeOK, DockerPull
  <1>3. \A a \in Askers : asker[a].at /= "none" \/ asker[a].done => asker[a].id \in Docker!Ids
    BY DEF DockerInv, Ended
  <1>4. DockerTypeOK'
    BY <1>2 DEF DockerInv, DockerTypeOK, Docker!SetLayerProgress
  <1>5. Ended' /\ Docker!StatusIsTrue'
    BY <1>2, <1>3 DEF DockerInv, Ended, Docker!StatusIsTrue, Docker!SetLayerProgress
  <1> QED  BY <1>4, <1>5 DEF DockerInv

LEMMA EndPullKeeps == ASSUME DockerInv, NEW i \in Docker!Ids, Docker!EndPull(i) PROVE DockerInv'
  <1>1. PICK failed \in BOOLEAN : pull' = [pull EXCEPT ![i].done = TRUE, ![i].err = failed]
    BY DEF Docker!EndPull
  <1>2. /\ pull' \in [Docker!Ids -> DockerPull] /\ pull'[i].done
        /\ \A j \in Docker!Ids \ {i} : pull'[j] = pull[j]
    BY <1>1 DEF DockerInv, DockerTypeOK, DockerPull
  <1>3. ~pull[i].done
    BY DEF Docker!EndPull, Docker!Pulling
  <1>4. DockerTypeOK'
    BY <1>2 DEF DockerInv, DockerTypeOK, Docker!EndPull
  <1>5. Ended'
    BY <1>2, <1>3 DEF DockerInv, Ended, Docker!EndPull
  <1>6. Docker!StatusIsTrue'
    BY <1>2, <1>3 DEF DockerInv, Ended, Docker!StatusIsTrue, Docker!EndPull
  <1> QED  BY <1>4, <1>5, <1>6 DEF DockerInv

LEMMA ForgetPullKeeps == ASSUME DockerInv, NEW i \in Docker!Ids, Docker!ForgetPull(i) PROVE DockerInv'
  BY DEF DockerInv, DockerTypeOK, Ended, Docker!StatusIsTrue, Docker!ForgetPull

\* What an asker does changes no pull.
LEMMA AskerMovesKeeps ==
    ASSUME DockerInv, NEW a \in Askers,
           NEW r \in DockerAsker,
           asker' = [asker EXCEPT ![a] = r], UNCHANGED <<pullsSeq, pulls, pull, minute>>,
           r.at /= "none" => r.id \in Docker!Ids,
           r.done => r.id \in Docker!Ids /\ pull[r.id].done /\ pull[r.id].err = r.err,
           r.at = "told" /\ r.percent = 100 => pull[r.id].done /\ ~pull[r.id].err,
           r.at = "not found" => pull[r.id].done
    PROVE  DockerInv'
  <1>1. asker'[a] = r /\ \A b \in Askers \ {a} : asker'[b] = asker[b]
    BY DEF DockerInv, DockerTypeOK
  <1>2. DockerTypeOK'
    BY DEF DockerInv, DockerTypeOK
  <1>3. Ended'
    BY <1>1 DEF DockerInv, Ended
  <1>4. Docker!StatusIsTrue'
    <2> SUFFICES ASSUME NEW b \in Askers
                 PROVE  /\ asker'[b].at = "told" /\ asker'[b].percent = 100 =>
                              pull[asker'[b].id].done /\ ~pull[asker'[b].id].err
                        /\ asker'[b].at = "not found" => pull[asker'[b].id].done
      BY DEF Docker!StatusIsTrue
    <2>1. CASE b = a
      BY <1>1, <2>1
    <2>2. CASE b /= a
      <3>1. asker'[b] = asker[b]
        BY <1>1, <2>2
      <3> QED  BY <3>1 DEF DockerInv, Docker!StatusIsTrue
    <2> QED  BY <2>1, <2>2
  <1> QED  BY <1>2, <1>3, <1>4 DEF DockerInv

LEMMA FindPullKeeps ==
    ASSUME Docker!PullsAssumption, DockerInv, NEW a \in Askers, NEW i \in Docker!Ids, Docker!FindPull(a, i) PROVE DockerInv'
  <1> DEFINE there == IF i \in pulls THEN "found" ELSE "not found"
             r == [Docker!Quiet EXCEPT !.id = i, !.at = there]
  <1>1. i \in 0..MaxPulls /\ there \in {"found", "not found"}
    BY DEF Docker!Ids, Docker!PullsAssumption
  <1>2. r \in DockerAsker /\ r.id = i /\ ~r.done /\ r.at = there
    BY <1>1, QuietIsAsker DEF DockerAsker
  <1>3. asker' = [asker EXCEPT ![a] = r]
    BY DEF Docker!FindPull
  <1>4. i \notin pulls => pull[i].done
    BY DEF Docker!FindPull, DockerInv, Ended
  <1>5. r.at /= "told" /\ (r.at = "not found" => i \notin pulls)
    BY <1>2
  <1> HIDE DEF r
  <1> QED  BY <1>2, <1>3, <1>4, <1>5, AskerMovesKeeps DEF Docker!FindPull

LEMMA ReadKeeps ==
    ASSUME Docker!PullsAssumption, DockerInv, NEW a \in Askers, Docker!ReadEnd(a) \/ Docker!ReadPercent(a) \/ Docker!AskLater(a)
    PROVE  DockerInv'
  <1>1. /\ asker[a] \in DockerAsker
        /\ asker[a].at /= "none" => asker[a].id \in Docker!Ids /\ pull[asker[a].id] \in DockerPull
    BY DEF DockerInv, DockerTypeOK, Ended
  <1>2. CASE Docker!ReadEnd(a)
    <2> DEFINE r == [asker[a] EXCEPT !.at = "ended", !.done = pull[asker[a].id].done,
                                     !.err = pull[asker[a].id].err]
    <2>1. /\ r.at = "ended" /\ r.id = asker[a].id
          /\ r.done = pull[r.id].done /\ r.err = pull[r.id].err
          /\ r \in DockerAsker
      BY <1>1, <1>2 DEF Docker!ReadEnd, DockerPull, DockerAsker
    <2>2. asker' = [asker EXCEPT ![a] = r]
      BY <1>2 DEF Docker!ReadEnd
    <2>3. r.id \in Docker!Ids /\ UNCHANGED <<pullsSeq, pulls, pull, minute>>
      BY <1>1, <1>2, <2>1 DEF Docker!ReadEnd
    <2> HIDE DEF r
    <2> QED  BY <2>1, <2>2, <2>3, AskerMovesKeeps
  <1>3. CASE Docker!ReadPercent(a)
    <2> DEFINE n == IF asker[a].done /\ ~asker[a].err THEN 100 ELSE Docker!Percent(pull[asker[a].id])
               r == [asker[a] EXCEPT !.at = "told", !.percent = n]
    <2>1. n \in Int /\ (n = 100 => asker[a].done /\ ~asker[a].err)
      BY <1>1, <1>3, PercentBelowFull DEF Docker!ReadPercent
    <2> HIDE DEF n
    <2>2. /\ r.at = "told" /\ r.id = asker[a].id /\ r.percent = n
          /\ r.done = asker[a].done /\ r.err = asker[a].err
          /\ r \in DockerAsker
      BY <1>1, <2>1 DEF DockerAsker
    <2>3. asker' = [asker EXCEPT ![a] = r]
      BY <1>3 DEF Docker!ReadPercent, n
    <2>4. r.done => r.id \in Docker!Ids /\ pull[r.id].done /\ pull[r.id].err = r.err
      BY <2>2 DEF DockerInv, Ended
    <2> QED  BY <1>1, <1>3, <2>1, <2>2, <2>3, <2>4, AskerMovesKeeps DEF Docker!ReadPercent
  <1>4. CASE Docker!AskLater(a)
    <2>1. Docker!Quiet \in DockerAsker /\ Docker!Quiet.at = "none" /\ ~Docker!Quiet.done
      BY QuietIsAsker
    <2> QED  BY <1>4, <2>1, AskerMovesKeeps DEF Docker!AskLater
  <1> QED  BY <1>2, <1>3, <1>4

LEMMA DockerStutterKeeps == ASSUME DockerInv, UNCHANGED pullVars PROVE DockerInv'
  BY DEF DockerInv, DockerTypeOK, Ended, Docker!StatusIsTrue, pullVars

LEMMA DockerStepKeeps == ASSUME DockerInv, [Docker!PullsNext]_pullVars PROVE DockerInv'
  <1>1. CASE UNCHANGED pullVars
    BY <1>1, DockerStutterKeeps
  <1>2. CASE Docker!StartPull
    BY <1>2, PartsAssumption, StartPullKeeps
  <1>3. ASSUME NEW i \in Docker!Ids, Docker!SetLayerProgress(i) \/ Docker!EndPull(i) \/ Docker!ForgetPull(i) PROVE DockerInv'
    BY <1>3, SetLayerKeeps, EndPullKeeps, ForgetPullKeeps
  <1>4. ASSUME NEW a \in Askers, Docker!ReadEnd(a) \/ Docker!ReadPercent(a) \/ Docker!AskLater(a) PROVE DockerInv'
    BY <1>4, PartsAssumption, ReadKeeps
  <1>5. ASSUME NEW a \in Askers, NEW i \in Docker!Ids, Docker!FindPull(a, i) PROVE DockerInv'
    BY <1>5, PartsAssumption, FindPullKeeps
  <1> QED  BY <1>1, <1>2, <1>3, <1>4, <1>5 DEF Docker!PullsNext

\* Of any number of pulls and askers: 100 is said only of a pull that succeeded,
\* and only one that has ended is not found.
THEOREM StatusIsTrueHolds == ServicesSpec => []StatusIsTrue
  <1>1. ServicesInit => DockerInv
    BY DockerStarts, PartsAssumption DEF ServicesInit
  <1>2. DockerInv /\ [ServicesNext]_servicesVars => DockerInv'
    BY PullSteps, DockerStepKeeps
  <1>3. DockerInv => StatusIsTrue
    BY DEF DockerInv, StatusIsTrue
  <1> QED  BY <1>1, <1>2, <1>3, PTL DEF ServicesSpec

--------------------------------------------------------------------------------
\* Templates.

TemplateUser ==
    [pc : {"off", "download", "save", "fill", "note", "stat", "idle", "check", "ask", "write", "record",
           "look", "read"},
     content : Nat, seen : BOOLEAN, polled : Nat, asked : BOOLEAN, got : Nat, etag : Nat, count : Nat,
     alone : BOOLEAN, missed : BOOLEAN]

TemplateEntry == [etag : Nat, checked : Nat, unchanged : Nat, known : BOOLEAN]

TemplateTypeOK ==
    /\ remote \in 1..MaxRemote /\ time \in Nat /\ template \in Nat
    /\ meta \in TemplateEntry
    /\ user \in [Users -> TemplateUser]

Starting(u) == u.pc \in {"download", "save", "fill", "note"}
Asks(u) == u.pc \in {"ask", "write", "record"}

\* What a widget that has seen the file as it is shows is in the file, unless that
\* does not parse.  In use it never shows what does not.
ShowsWhatItSaw(u) ==
    /\ u.pc \notin {"off", "download", "save", "fill", "read"} /\ u.seen /\ ~u.missed
       /\ Dyna!Usable(template) => u.content = template
    /\ u.pc \in {"idle", "check", "ask", "write", "record", "look", "read"} => Dyna!Usable(u.content)

\* Nobody knows a version that the repository does not have yet, and without a file
\* nobody reads one or asks for a newer.
KnowsThePast(u) ==
    /\ u.etag <= remote
    /\ u.pc \in {"save", "fill", "note"} => u.content \in 1..remote
    /\ u.pc \in {"write", "record"} => u.etag >= 1
    /\ template = 0 => u.pc \notin {"fill", "note", "ask", "write", "record", "read"}

\* Whoever holds the newest etag speaks of the file as it is, and what is being
\* written has one writer.
EtagIsTrue(u) ==
    /\ u.pc \in {"download", "save"} => template = 0
    /\ u.pc \in {"fill", "write"} => u.alone /\ template \in Dyna!Torn
    /\ u.pc = "ask" => u.got = template
    /\ u.pc \in {"ask", "record"} /\ u.etag = remote => template = remote
    /\ u.pc = "note" /\ u.content = remote => template = remote

UserOK(u) == ShowsWhatItSaw(u) /\ KnowsThePast(u) /\ (~overlap => EtagIsTrue(u))

MetaOK ==
    /\ meta.etag <= remote
    /\ template = 0 => meta.etag = 0
    /\ ~overlap /\ meta.etag = remote => template = remote

LockOK == \A w \in Users : Asks(user[w]) <=> lock = w

OneFirst == ~overlap =>
    \A v, w \in Users : Starting(user[v]) => /\ Starting(user[w]) => v = w
                                             /\ user[v].pc = "fill" => ~Asks(user[w])

TemplateInv ==
    TemplateTypeOK /\ MetaOK /\ LockOK /\ OneFirst /\ \A w \in Users : UserOK(user[w])

LEMMA TemplatesStart ==
    ASSUME Dyna!TemplateAssumption, Dyna!TemplateInit PROVE TemplateInv
  <1> DEFINE u == Dyna!Fresh
  <1>1. u \in TemplateUser /\ u.pc = "off" /\ u.etag = 0
    BY DEF Dyna!Fresh, TemplateUser
  <1>2. \A w \in Users : user[w] = u
    BY DEF Dyna!TemplateInit
  <1>3. /\ remote = 1 /\ time = 0 /\ template = 0
        /\ meta = [etag |-> 0, checked |-> 0, unchanged |-> 0, known |-> FALSE]
        /\ lock = Nobody /\ user = [w \in Users |-> u] /\ MaxRemote \in Nat \ {0}
    BY DEF Dyna!TemplateInit, Dyna!NoMeta, Dyna!TemplateAssumption
  <1> HIDE DEF u
  <1>4. TemplateTypeOK
    BY <1>1, <1>3 DEF TemplateTypeOK, TemplateEntry
  <1>5. MetaOK
    BY <1>3 DEF MetaOK
  <1>6. LockOK /\ OneFirst
    BY <1>1, <1>2, <1>3 DEF LockOK, OneFirst, Asks, Starting, Dyna!TemplateAssumption
  <1>7. UserOK(u)
    BY <1>1, <1>3 DEF UserOK, ShowsWhatItSaw, KnowsThePast, EtagIsTrue
  <1> QED  BY <1>2, <1>4, <1>5, <1>6, <1>7 DEF TemplateInv

LEMMA UserFacts ==
    ASSUME TemplateInv, NEW w \in Users
    PROVE  /\ user[w] \in TemplateUser /\ UserOK(user[w])
           /\ remote \in Nat /\ remote >= 1 /\ time \in Nat /\ template \in Nat
           /\ meta.etag \in Nat /\ meta.unchanged \in Nat /\ meta.etag <= remote
  BY DEF TemplateInv, TemplateTypeOK, TemplateEntry, MetaOK

\* What a file holds that was cut off is no version.
LEMMA TornFacts ==
    ASSUME Dyna!TemplateAssumption, TemplateInv
    PROVE  /\ 1..remote \subseteq Nat \ {0} /\ Dyna!Torn \subseteq Nat \ {0}
           /\ remote \notin Dyna!Torn /\ 0 \notin Dyna!Torn
  BY DEF Dyna!TemplateAssumption, TemplateInv, TemplateTypeOK, Dyna!Torn

\* What a widget does without touching the file.
LEMMA UserMovesKeeps ==
    ASSUME Dyna!TemplateAssumption, TemplateInv, NEW w \in Users, NEW u \in TemplateUser, UserOK(u),
           user' = [user EXCEPT ![w] = u], UNCHANGED <<remote, time, template>>,
           overlap => overlap', meta' \in TemplateEntry, MetaOK',
           Asks(u) <=> lock' = w, \A v \in Users \ {w} : lock' = v <=> lock = v,
           Starting(u) => Starting(user[w]), u.pc /= "fill",
           ~overlap' /\ Asks(u) /\ ~Asks(user[w]) => \A v \in Users : user[v].pc /= "fill"
    PROVE  TemplateInv'
  <1>1. user'[w] = u /\ \A v \in Users \ {w} : user'[v] = user[v]
    BY DEF TemplateInv, TemplateTypeOK
  <1>2. TemplateTypeOK'
    BY DEF TemplateInv, TemplateTypeOK
  <1>3. LockOK'
    BY <1>1 DEF TemplateInv, LockOK, Asks
  <1>4. OneFirst'
    <2> SUFFICES ASSUME ~overlap', NEW v \in Users, NEW x \in Users, Starting(user'[v])
                 PROVE  /\ Starting(user'[x]) => v = x
                        /\ user'[v].pc = "fill" => ~Asks(user'[x])
      BY DEF OneFirst, Starting, Asks
    <2>1. Starting(user[v]) /\ (Starting(user'[x]) => Starting(user[x]))
      BY <1>1
    <2>2. /\ Starting(user[x]) => v = x
          /\ user[v].pc = "fill" => ~Asks(user[x])
      BY <2>1 DEF TemplateInv, OneFirst
    <2>3. ASSUME user'[v].pc = "fill" PROVE ~Asks(user'[x])
      <3>1. v /= w /\ user[v].pc = "fill"
        BY <1>1, <2>3
      <3>2. CASE x = w
        BY <1>1, <2>2, <3>1, <3>2
      <3>3. CASE x /= w
        BY <1>1, <2>2, <3>1, <3>3
      <3> QED  BY <3>2, <3>3
    <2> QED  BY <2>1, <2>2, <2>3
  <1>5. \A v \in Users : UserOK(user'[v])
    BY <1>1 DEF TemplateInv
  <1>6. \A v \in Users : UserOK(user[v])'
    BY <1>5 DEF UserOK, ShowsWhatItSaw, KnowsThePast, EtagIsTrue
  <1> QED  BY <1>2, <1>3, <1>4, <1>6 DEF TemplateInv

LEMMA MetaStays ==
    ASSUME TemplateInv, UNCHANGED <<remote, template, meta>>, overlap => overlap'
    PROVE  MetaOK' /\ meta' \in TemplateEntry
  BY DEF TemplateInv, TemplateTypeOK, MetaOK

\* An entry that is written may be the old one, or none.
LEMMA WriteMetaKeeps ==
    ASSUME TemplateInv, NEW e \in TemplateEntry, Dyna!WriteMeta(e),
           UNCHANGED <<remote, template, overlap>>, template /= 0, e.etag <= remote,
           ~overlap /\ e.etag = remote => template = remote
    PROVE  MetaOK' /\ meta' \in TemplateEntry
  <1>1. CASE meta' = meta
    BY <1>1, MetaStays
  <1>2. CASE meta' = e
    BY <1>2 DEF MetaOK
  <1>3. CASE meta' = Dyna!NoMeta
    BY <1>3 DEF MetaOK, Dyna!NoMeta, TemplateEntry, TemplateInv, TemplateTypeOK
  <1> QED  BY <1>1, <1>2, <1>3 DEF Dyna!WriteMeta

\* The first download, and a widget that a reload stops: neither holds the lock.
LEMMA DownloadKeeps ==
    ASSUME Dyna!TemplateAssumption, TemplateInv, NEW w \in Users,
           Dyna!Download(w) \/ Dyna!DownloadFails(w) \/ Dyna!Stop(w)
    PROVE  TemplateInv'
  <1>1. /\ user[w] \in TemplateUser /\ UserOK(user[w]) /\ user[w].pc \in {"download", "idle"}
        /\ ~Asks(user[w]) /\ lock /= w
    BY UserFacts DEF Dyna!Download, Dyna!DownloadFails, Dyna!Stop, Asks, TemplateInv, LockOK
  <1>2. /\ UNCHANGED <<remote, time, template, meta, lock, overlap>>
        /\ MetaOK' /\ meta' \in TemplateEntry
    BY MetaStays DEF Dyna!Download, Dyna!DownloadFails, Dyna!Stop
  <1>3. CASE Dyna!Download(w)
    <2> DEFINE u == [user[w] EXCEPT !.pc = "save", !.content = remote]
    <2>1. user' = [user EXCEPT ![w] = u] /\ user[w].pc = "download"
      BY <1>3 DEF Dyna!Download, Dyna!Goes
    <2>2. /\ u \in TemplateUser /\ u.pc = "save" /\ u.content = remote /\ u.etag = user[w].etag
      BY <1>1, UserFacts DEF TemplateUser
    <2> HIDE DEF u
    <2>3. UserOK(u) /\ ~Asks(u) /\ Starting(user[w])
      BY <1>1, <2>1, <2>2, UserFacts
         DEF UserOK, ShowsWhatItSaw, KnowsThePast, EtagIsTrue, Asks, Starting
    <2> QED  BY <1>1, <1>2, <2>1, <2>2, <2>3, UserMovesKeeps
  <1>4. CASE Dyna!DownloadFails(w) \/ Dyna!Stop(w)
    <2> DEFINE u == Dyna!Fresh
    <2>1. user' = [user EXCEPT ![w] = u]
      BY <1>4 DEF Dyna!DownloadFails, Dyna!Stop
    <2>2. u \in TemplateUser /\ u.pc = "off" /\ u.etag = 0
      BY DEF Dyna!Fresh, TemplateUser
    <2> HIDE DEF u
    <2>3. UserOK(u) /\ ~Asks(u) /\ ~Starting(u)
      BY <2>2, UserFacts DEF UserOK, ShowsWhatItSaw, KnowsThePast, EtagIsTrue, Asks, Starting
    <2> QED  BY <1>1, <1>2, <2>1, <2>2, <2>3, UserMovesKeeps
  <1> QED  BY <1>3, <1>4

\* A template that could not be stored, or whose entry is written.
LEMMA NoteKeeps ==
    ASSUME Dyna!TemplateAssumption, TemplateInv, NEW w \in Users,
           Dyna!SaveFails(w) \/ Dyna!Note(w)
    PROVE  TemplateInv'
  <1>1. /\ user[w] \in TemplateUser /\ UserOK(user[w]) /\ user[w].pc \in {"save", "fill", "note"}
        /\ lock /= w
    BY UserFacts DEF Dyna!SaveFails, Dyna!Note, TemplateInv, LockOK, Asks
  <1>2. ASSUME NEW u \in TemplateUser, user' = [user EXCEPT ![w] = u], u.pc = "stat",
               u.etag = user[w].etag, ShowsWhatItSaw(u), UNCHANGED <<remote, time, template, lock, overlap>>,
               MetaOK', meta' \in TemplateEntry
        PROVE  TemplateInv'
    <2>1. UserOK(u) /\ ~Asks(u) /\ ~Starting(u)
      BY <1>1, <1>2 DEF UserOK, KnowsThePast, EtagIsTrue, Asks, Starting
    <2> QED  BY <1>1, <1>2, <2>1, UserMovesKeeps
  <1>3. CASE Dyna!SaveFails(w)
    <2> DEFINE u == [user[w] EXCEPT !.pc = "stat", !.alone = FALSE, !.missed = TRUE]
    <2>1. user' = [user EXCEPT ![w] = u] /\ UNCHANGED <<remote, time, template, meta, lock, overlap>>
      BY <1>3 DEF Dyna!SaveFails, Dyna!Goes
    <2>2. u \in TemplateUser /\ u.pc = "stat" /\ u.etag = user[w].etag /\ u.missed
      BY <1>1 DEF TemplateUser
    <2> HIDE DEF u
    <2>3. ShowsWhatItSaw(u)
      BY <2>2 DEF ShowsWhatItSaw
    <2> QED  BY <1>2, <2>1, <2>2, <2>3, MetaStays
  <1>4. CASE Dyna!Note(w)
    <2> DEFINE u == [user[w] EXCEPT !.pc = "stat"]
               e == [etag |-> user[w].content, checked |-> time, unchanged |-> 0, known |-> TRUE]
    <2>1. /\ user' = [user EXCEPT ![w] = u] /\ UNCHANGED <<remote, time, template, lock, overlap>>
          /\ Dyna!WriteMeta(e) /\ user[w].pc = "note"
      BY <1>4 DEF Dyna!Note, Dyna!Goes
    <2>2. /\ u \in TemplateUser /\ u.pc = "stat" /\ u.etag = user[w].etag
          /\ u.content = user[w].content /\ u.seen = user[w].seen /\ u.missed = user[w].missed
      BY <1>1 DEF TemplateUser
    <2>3. /\ user[w].content \in Nat /\ user[w].content <= remote /\ template /= 0
          /\ ~overlap /\ user[w].content = remote => template = remote
      BY <1>1, <2>1, UserFacts DEF UserOK, KnowsThePast, EtagIsTrue, TemplateUser
    <2>4. e \in TemplateEntry /\ e.etag = user[w].content
      BY <2>3, UserFacts DEF TemplateEntry
    <2> HIDE DEF u, e
    <2>5. MetaOK' /\ meta' \in TemplateEntry
      BY <2>1, <2>3, <2>4, WriteMetaKeeps
    <2>6. ShowsWhatItSaw(u)
      BY <1>1, <2>1, <2>2 DEF UserOK, ShowsWhatItSaw
    <2> QED  BY <1>2, <2>1, <2>2, <2>5, <2>6
  <1> QED  BY <1>3, <1>4

\* Between checks a widget looks at the file or goes to ask.
LEMMA RestsKeeps ==
    ASSUME Dyna!TemplateAssumption, TemplateInv, NEW w \in Users,
           Dyna!Stat(w) \/ Dyna!Update(w) \/ Dyna!Look(w) \/ Dyna!Read(w)
    PROVE  TemplateInv'
  <1>1. /\ user[w] \in TemplateUser /\ UserOK(user[w]) /\ lock /= w
        /\ user[w].pc \in {"stat", "idle", "look", "read"}
    BY UserFacts DEF Dyna!Stat, Dyna!Update, Dyna!Look, Dyna!Read, TemplateInv, LockOK, Asks
  <1>2. UNCHANGED <<remote, time, template, meta, lock, overlap>>
    BY DEF Dyna!Stat, Dyna!Update, Dyna!Look, Dyna!Read
  <1>3. ASSUME NEW u \in TemplateUser, user' = [user EXCEPT ![w] = u],
               u.etag = user[w].etag \/ u.etag = 0,
               u.pc \in {"off", "idle", "check", "look", "read"},
               u.pc = "read" => template /= 0, ShowsWhatItSaw(u)
        PROVE  TemplateInv'
    <2>1. UserOK(u) /\ ~Asks(u) /\ ~Starting(u)
      BY <1>1, <1>3, UserFacts DEF UserOK, KnowsThePast, EtagIsTrue, Asks, Starting
    <2> QED  BY <1>1, <1>2, <1>3, <2>1, MetaStays, UserMovesKeeps
  <1>4. CASE Dyna!Stat(w)
    <2>1. CASE Dyna!Usable(user[w].content)
      <3> DEFINE u == [user[w] EXCEPT !.pc = "idle", !.seen = TRUE, !.missed = @ \/ ~user[w].seen]
      <3>1. user' = [user EXCEPT ![w] = u]
        BY <1>4, <2>1 DEF Dyna!Stat, Dyna!Goes
      <3>2. /\ u \in TemplateUser /\ u.pc = "idle" /\ u.etag = user[w].etag
            /\ ~u.missed => ~user[w].missed /\ user[w].seen
            /\ u.content = user[w].content
        BY <1>1 DEF TemplateUser
      <3> HIDE DEF u
      <3>3. ShowsWhatItSaw(u)
        BY <1>1, <1>4, <2>1, <3>2 DEF UserOK, ShowsWhatItSaw, Dyna!Stat
      <3> QED  BY <1>3, <3>1, <3>2, <3>3
    <2>2. CASE ~Dyna!Usable(user[w].content)
      <3> DEFINE u == Dyna!Fresh
      <3>1. user' = [user EXCEPT ![w] = u]
        BY <1>4, <2>2 DEF Dyna!Stat
      <3>2. u \in TemplateUser /\ u.pc = "off" /\ u.etag = 0
        BY DEF Dyna!Fresh, TemplateUser
      <3> HIDE DEF u
      <3>3. ShowsWhatItSaw(u)
        BY <3>2 DEF ShowsWhatItSaw
      <3> QED  BY <1>3, <3>1, <3>2, <3>3
    <2> QED  BY <2>1, <2>2
  <1>5. CASE Dyna!Update(w)
    <2> DEFINE u == IF ~user[w].asked \/ time - user[w].polled >= Poll
                    THEN [user[w] EXCEPT !.pc = "check", !.polled = time, !.asked = TRUE]
                    ELSE [user[w] EXCEPT !.pc = "look"]
    <2>1. user' = [user EXCEPT ![w] = u]
      BY <1>5 DEF Dyna!Update
    <2>2. /\ u \in TemplateUser /\ u.pc \in {"check", "look"} /\ u.seen = user[w].seen
          /\ u.missed = user[w].missed
          /\ u.content = user[w].content /\ u.etag = user[w].etag
      BY <1>1, UserFacts DEF TemplateUser
    <2> HIDE DEF u
    <2>3. ShowsWhatItSaw(u)
      BY <1>1, <1>5, <2>2 DEF UserOK, ShowsWhatItSaw, Dyna!Update
    <2> QED  BY <1>3, <2>1, <2>2, <2>3
  <1>6. CASE Dyna!Look(w)
    <2>1. CASE template = 0 \/ user[w].seen
      <3> DEFINE u == [user[w] EXCEPT !.pc = "idle"]
      <3>1. user' = [user EXCEPT ![w] = u]
        BY <1>6, <2>1 DEF Dyna!Look
      <3>2. /\ u \in TemplateUser /\ u.pc = "idle" /\ u.seen = user[w].seen
            /\ u.missed = user[w].missed
            /\ u.content = user[w].content /\ u.etag = user[w].etag
        BY <1>1 DEF TemplateUser
      <3> HIDE DEF u
      <3>3. ShowsWhatItSaw(u)
        BY <1>1, <1>6, <3>2 DEF UserOK, ShowsWhatItSaw, Dyna!Look
      <3> QED  BY <1>3, <3>1, <3>2, <3>3
    <2>2. CASE ~(template = 0 \/ user[w].seen)
      <3> DEFINE u == [user[w] EXCEPT !.pc = "read", !.seen = TRUE, !.missed = FALSE]
      <3>1. user' = [user EXCEPT ![w] = u]
        BY <1>6, <2>2 DEF Dyna!Look
      <3>2. /\ u \in TemplateUser /\ u.pc = "read" /\ u.content = user[w].content
            /\ u.etag = user[w].etag
        BY <1>1 DEF TemplateUser
      <3> HIDE DEF u
      <3>3. ShowsWhatItSaw(u)
        BY <1>1, <1>6, <3>2 DEF UserOK, ShowsWhatItSaw, Dyna!Look
      <3> QED  BY <1>3, <2>2, <3>1, <3>2, <3>3
    <2> QED  BY <2>1, <2>2
  <1>7. CASE Dyna!Read(w)
    <2> DEFINE u == [user[w] EXCEPT !.pc = "idle",
                        !.content = IF Dyna!Usable(template) THEN template ELSE @]
    <2>1. user' = [user EXCEPT ![w] = u]
      BY <1>7 DEF Dyna!Read, Dyna!Goes
    <2>2. /\ u \in TemplateUser /\ u.pc = "idle" /\ u.etag = user[w].etag
          /\ u.content = IF Dyna!Usable(template) THEN template ELSE user[w].content
      BY <1>1, UserFacts DEF TemplateUser
    <2> HIDE DEF u
    <2>3. ShowsWhatItSaw(u)
      BY <1>1, <1>7, <2>2 DEF UserOK, ShowsWhatItSaw, Dyna!Read
    <2> QED  BY <1>3, <2>1, <2>2, <2>3
  <1> QED  BY <1>4, <1>5, <1>6, <1>7

\* The lock is taken with what the file and the entry say.
LEMMA CheckKeeps ==
    ASSUME Dyna!TemplateAssumption, TemplateInv, NEW w \in Users, Dyna!Check(w) PROVE TemplateInv'
  <1>1. /\ user[w] \in TemplateUser /\ UserOK(user[w]) /\ user[w].pc = "check" /\ lock = Nobody
        /\ lock /= w /\ \A v \in Users : lock /= v
        /\ UNCHANGED <<remote, time, template, meta>> /\ (overlap => overlap')
    BY UserFacts DEF Dyna!Check, Dyna!TemplateAssumption
  <1>2. CASE ~(template = 0 \/ ~Dyna!Due)
    <2> DEFINE u == [user[w] EXCEPT !.pc = "ask", !.got = template, !.etag = meta.etag,
                                    !.count = meta.unchanged]
    <2>1. user' = [user EXCEPT ![w] = u] /\ lock' = w
      BY <1>2 DEF Dyna!Check, Dyna!Goes
    <2>2. /\ u \in TemplateUser /\ u.pc = "ask" /\ u.got = template /\ u.etag = meta.etag
          /\ u.content = user[w].content /\ u.seen = user[w].seen /\ u.missed = user[w].missed
      BY <1>1, UserFacts DEF TemplateUser
    <2> HIDE DEF u
    <2>3. Asks(u) /\ ~Starting(u)
      BY <2>2 DEF Asks, Starting
    <2>4. MetaOK
      BY DEF TemplateInv
    <2>5. UserOK(u)
      BY <1>1, <1>2, <2>2, <2>4 DEF UserOK, ShowsWhatItSaw, KnowsThePast, EtagIsTrue, MetaOK
    <2>6. ~overlap' => \A v \in Users : user[v].pc /= "fill"
      BY <2>1 DEF Dyna!Check
    <2> QED  BY <1>1, <2>1, <2>2, <2>3, <2>5, <2>6, MetaStays, UserMovesKeeps
  <1>3. CASE template = 0 \/ ~Dyna!Due
    <2> DEFINE u == [user[w] EXCEPT !.pc = "look"]
    <2>1. user' = [user EXCEPT ![w] = u] /\ lock' = lock
      BY <1>3 DEF Dyna!Check, Dyna!Goes
    <2>2. /\ u \in TemplateUser /\ u.pc = "look" /\ u.etag = user[w].etag
          /\ u.content = user[w].content /\ u.seen = user[w].seen /\ u.missed = user[w].missed
      BY <1>1 DEF TemplateUser
    <2> HIDE DEF u
    <2>3. UserOK(u) /\ ~Asks(u) /\ ~Starting(u)
      BY <1>1, <2>2 DEF UserOK, ShowsWhatItSaw, KnowsThePast, EtagIsTrue, Asks, Starting
    <2> QED  BY <1>1, <2>1, <2>2, <2>3, MetaStays, UserMovesKeeps
  <1> QED  BY <1>2, <1>3

\* The end of a check: the lock is given back, and the entry says what was found.
LEMMA ReleaseKeeps ==
    ASSUME Dyna!TemplateAssumption, TemplateInv, NEW w \in Users,
           Dyna!AskFails(w) \/ Dyna!Unchanged(w) \/ Dyna!WriteFails(w) \/ Dyna!Record(w)
    PROVE  TemplateInv'
  <1> DEFINE u == [user[w] EXCEPT !.pc = "look", !.got = 0, !.etag = 0, !.count = 0,
                                  !.alone = FALSE]
  <1>1. /\ user[w] \in TemplateUser /\ UserOK(user[w]) /\ user[w].pc \in {"ask", "write", "record"}
        /\ UNCHANGED <<remote, time, template, overlap>>
        /\ lock' = Nobody /\ user' = [user EXCEPT ![w] = u]
    BY UserFacts DEF Dyna!AskFails, Dyna!Unchanged, Dyna!WriteFails, Dyna!Record, Dyna!Checked
  <1>2. /\ u \in TemplateUser /\ u.pc = "look" /\ u.etag = 0
        /\ u.content = user[w].content /\ u.seen = user[w].seen /\ u.missed = user[w].missed
    BY <1>1 DEF TemplateUser
  <1> HIDE DEF u
  <1>3. lock = w /\ w /= Nobody /\ \A v \in Users \ {w} : lock /= v /\ lock' /= v
    BY <1>1 DEF TemplateInv, LockOK, Asks, Dyna!TemplateAssumption
  <1>4. template /= 0 /\ user[w].etag \in Nat /\ user[w].etag <= remote
    BY <1>1 DEF UserOK, KnowsThePast, TemplateUser
  <1>5. UserOK(u) /\ ~Asks(u) /\ ~Starting(u)
    BY <1>1, <1>2, <1>4, UserFacts
       DEF UserOK, ShowsWhatItSaw, KnowsThePast, EtagIsTrue, Asks, Starting
  <1>6. MetaOK' /\ meta' \in TemplateEntry
    <2>1. CASE Dyna!AskFails(w) \/ Dyna!WriteFails(w)
      BY <1>1, <2>1, MetaStays DEF Dyna!AskFails, Dyna!WriteFails
    <2>2. CASE Dyna!Unchanged(w)
      <3> DEFINE e == [etag |-> remote, checked |-> time, unchanged |-> user[w].count + 1,
                       known |-> TRUE]
      <3>1. /\ Dyna!WriteMeta(e)
            /\ user[w].pc = "ask" /\ (user[w].etag = remote \/ user[w].got = remote)
        BY <2>2 DEF Dyna!Unchanged, Dyna!NotModified
      <3>2. ~overlap => template = remote
        BY <1>1, <3>1 DEF UserOK, EtagIsTrue
      <3>3. e \in TemplateEntry /\ e.etag = remote
        BY <1>1, UserFacts DEF TemplateEntry, TemplateUser
      <3> HIDE DEF e
      <3> QED  BY <1>1, <1>4, <3>1, <3>2, <3>3, UserFacts, WriteMetaKeeps
    <2>3. CASE Dyna!Record(w)
      <3> DEFINE e == [etag |-> user[w].etag, checked |-> time, unchanged |-> 0, known |-> TRUE]
      <3>1. Dyna!WriteMeta(e) /\ user[w].pc = "record"
        BY <2>3 DEF Dyna!Record
      <3>2. ~overlap /\ user[w].etag = remote => template = remote
        BY <1>1, <3>1 DEF UserOK, EtagIsTrue
      <3>3. e \in TemplateEntry /\ e.etag = user[w].etag
        BY <1>4, UserFacts DEF TemplateEntry
      <3> HIDE DEF e
      <3> QED  BY <1>1, <1>4, <3>1, <3>2, <3>3, WriteMetaKeeps
    <2> QED  BY <2>1, <2>2, <2>3
  <1> QED  BY <1>1, <1>2, <1>3, <1>5, <1>6, UserMovesKeeps

\* Who writes to the file takes its time of modification from everybody, and the
\* claim to be its only writer from everybody else.
WritesFor(w) ==
    /\ user' \in [Users -> TemplateUser]
    /\ \A v \in Users \ {w} :
          /\ ~user'[v].seen
          /\ user'[v].pc = user[v].pc /\ user'[v].content = user[v].content
          /\ user'[v].got = user[v].got /\ user'[v].etag = user[v].etag

LEMMA TouchedFacts ==
    ASSUME TemplateInv, NEW w \in Users
    PROVE  /\ Dyna!Touched \in [Users -> TemplateUser]
           /\ \A v \in Users : /\ ~Dyna!Touched[v].seen /\ ~Dyna!Touched[v].alone
                               /\ Dyna!Touched[v].pc = user[v].pc
                               /\ Dyna!Touched[v].content = user[v].content
                               /\ Dyna!Touched[v].got = user[v].got
                               /\ Dyna!Touched[v].etag = user[v].etag
                               /\ Dyna!Touched[v].missed = user[v].missed
  BY UserFacts DEF Dyna!Touched, TemplateUser

\* A step that writes to the file never meets somebody else who relies on it, but for
\* overlaps.
LEMMA WritingKeeps ==
    ASSUME Dyna!TemplateAssumption, TemplateInv, NEW w \in Users, WritesFor(w),
           template' \in Nat \ {0}, UNCHANGED <<remote, time, meta, lock, overlap>>,
           Starting(user'[w]) <=> Starting(user[w]), Asks(user'[w]) <=> Asks(user[w]),
           Starting(user[w]) \/ (Asks(user[w]) /\ template /= 0),
           ~overlap => /\ template /= remote
                       /\ Starting(user[w]) => \A v \in Users : ~Asks(user[v]),
           UserOK(user[w])'
    PROVE  TemplateInv'
  <1>1. TemplateTypeOK'
    BY DEF TemplateInv, TemplateTypeOK, WritesFor
  <1>2. MetaOK'
    BY DEF TemplateInv, MetaOK
  <1>3. \A v \in Users : /\ Starting(user'[v]) <=> Starting(user[v])
                         /\ Asks(user'[v]) <=> Asks(user[v])
    BY DEF WritesFor, Starting, Asks
  <1>4. LockOK'
    BY <1>3 DEF TemplateInv, LockOK, Asks
  <1>5. OneFirst'
    <2> SUFFICES ASSUME ~overlap, NEW v \in Users, NEW x \in Users, Starting(user'[v])
                 PROVE  /\ Starting(user'[x]) => v = x
                        /\ user'[v].pc = "fill" => ~Asks(user'[x])
      BY DEF OneFirst, Starting, Asks
    <2>1. /\ Starting(user[x]) => v = x
          /\ user[v].pc = "fill" => ~Asks(user[x])
      BY <1>3 DEF TemplateInv, OneFirst
    <2>2. ASSUME user'[v].pc = "fill" PROVE ~Asks(user'[x])
      <3>1. CASE v = w
        BY <1>3, <3>1
      <3>2. CASE v /= w
        BY <1>3, <2>1, <2>2, <3>2 DEF WritesFor
      <3> QED  BY <3>1, <3>2
    <2> QED  BY <1>3, <2>1, <2>2
  <1>6. ASSUME NEW v \in Users \ {w} PROVE UserOK(user[v])'
    <2>1. /\ ~user'[v].seen
          /\ user'[v].pc = user[v].pc /\ user'[v].content = user[v].content
          /\ user'[v].got = user[v].got /\ user'[v].etag = user[v].etag
          /\ UserOK(user[v])
      BY UserFacts DEF WritesFor
    <2>2. ShowsWhatItSaw(user[v])' /\ KnowsThePast(user[v])'
      BY <2>1 DEF UserOK, ShowsWhatItSaw, KnowsThePast
    <2>3. ASSUME ~overlap PROVE EtagIsTrue(user[v])'
      <3>1. ~Asks(user[v])
        BY <2>3 DEF TemplateInv, LockOK
      <3>2. user[v].pc \notin {"download", "save", "fill"}
        <4>1. CASE Starting(user[w])
          BY <2>3, <4>1 DEF TemplateInv, OneFirst, Starting
        <4>2. CASE Asks(user[w]) /\ template /= 0
          BY <2>1, <2>3, <4>2 DEF TemplateInv, OneFirst, Starting, UserOK, EtagIsTrue
        <4> QED  BY <4>1, <4>2
      <3>3. ~(user[v].pc = "note" /\ user[v].content = remote)
        BY <2>1, <2>3 DEF UserOK, EtagIsTrue
      <3> QED  BY <2>1, <3>1, <3>2, <3>3 DEF EtagIsTrue, Asks
    <2> QED  BY <2>2, <2>3 DEF UserOK
  <1> QED  BY <1>1, <1>2, <1>4, <1>5, <1>6 DEF TemplateInv

LEMMA WritePartKeeps ==
    ASSUME Dyna!TemplateAssumption, TemplateInv, NEW w \in Users, Dyna!WritePart(w)
    PROVE  TemplateInv'
  <1>1. /\ user[w] \in TemplateUser /\ UserOK(user[w]) /\ user[w].pc \in {"fill", "write"}
        /\ UNCHANGED <<remote, time, meta, lock, overlap>>
        /\ template' \in Dyna!Torn /\ template' \in Nat \ {0}
    BY UserFacts, TornFacts DEF Dyna!WritePart, Dyna!Truncate
  <1>2. /\ WritesFor(w)
        /\ user'[w].pc = user[w].pc /\ (user'[w].alone <=> user[w].alone) /\ ~user'[w].seen
        /\ user'[w].content = user[w].content /\ user'[w].etag = user[w].etag
    <2>1. user' = [Dyna!Touched EXCEPT ![w].alone = user[w].alone]
      BY DEF Dyna!WritePart
    <2> QED  BY <1>1, <2>1, TouchedFacts DEF WritesFor, TemplateUser
  <1>3. /\ Starting(user'[w]) <=> Starting(user[w])
        /\ Asks(user'[w]) <=> Asks(user[w])
        /\ Starting(user[w]) \/ Asks(user[w])
    BY <1>1, <1>2 DEF Starting, Asks
  <1>4. /\ template /= 0
        /\ ~overlap => template /= remote
        /\ ~overlap /\ Starting(user[w]) => \A v \in Users : ~Asks(user[v])
    BY <1>1, TornFacts DEF UserOK, KnowsThePast, EtagIsTrue, TemplateInv, OneFirst, Starting
  <1>5. UserOK(user[w])'
    BY <1>1, <1>2 DEF UserOK, ShowsWhatItSaw, KnowsThePast, EtagIsTrue
  <1> QED  BY <1>1, <1>2, <1>3, <1>4, <1>5, WritingKeeps

LEMMA SaveKeeps ==
    ASSUME Dyna!TemplateAssumption, TemplateInv, NEW w \in Users, Dyna!Save(w) PROVE TemplateInv'
  <1>1. /\ user[w] \in TemplateUser /\ UserOK(user[w]) /\ user[w].pc = "save"
        /\ UNCHANGED <<remote, time, meta, lock, overlap>>
        /\ template' \in Dyna!Torn /\ template' \in Nat \ {0}
    BY UserFacts, TornFacts DEF Dyna!Save, Dyna!Truncate
  <1>2. /\ WritesFor(w)
        /\ user'[w].pc = "fill" /\ user'[w].alone /\ ~user'[w].seen
        /\ user'[w].content = user[w].content /\ user'[w].etag = user[w].etag
    <2>1. /\ user' = [Dyna!Touched EXCEPT ![w].pc = "fill", ![w].alone = TRUE]
      BY DEF Dyna!Save
    <2> QED  BY <2>1, TouchedFacts DEF WritesFor, TemplateUser
  <1>3. Starting(user'[w]) /\ Starting(user[w]) /\ ~Asks(user'[w]) /\ ~Asks(user[w])
    BY <1>1, <1>2 DEF Starting, Asks
  <1>4. ASSUME ~overlap PROVE template = 0 /\ template /= remote /\ \A v \in Users : ~Asks(user[v])
    <2>1. template = 0 /\ template /= remote
      BY <1>1, <1>4, UserFacts DEF UserOK, EtagIsTrue
    <2>2. \A v \in Users : ~Asks(user[v])
      BY <2>1, UserFacts DEF UserOK, KnowsThePast, Asks
    <2> QED  BY <2>1, <2>2
  <1>5. UserOK(user[w])'
    BY <1>1, <1>2 DEF UserOK, ShowsWhatItSaw, KnowsThePast, EtagIsTrue
  <1> QED  BY <1>1, <1>2, <1>3, <1>4, <1>5, WritingKeeps

LEMMA StoreKeeps ==
    ASSUME Dyna!TemplateAssumption, TemplateInv, NEW w \in Users, Dyna!Store(w) PROVE TemplateInv'
  <1> DEFINE n == user[w].content
  <1>1. /\ user[w] \in TemplateUser /\ UserOK(user[w]) /\ user[w].pc = "fill"
        /\ UNCHANGED <<remote, time, meta, lock, overlap>>
        /\ template' \in {n} \union IF user[w].alone THEN {} ELSE Dyna!Torn
    BY UserFacts DEF Dyna!Store, Dyna!Fill
  <1>2. n \in 1..remote /\ template' \in Nat \ {0}
    BY <1>1, TornFacts DEF UserOK, KnowsThePast
  <1>3. /\ WritesFor(w)
        /\ user'[w].pc = "note" /\ (user'[w].missed <=> template' /= n)
        /\ user'[w].content = n /\ user'[w].etag = user[w].etag
    <2>1. /\ user' = [Dyna!Touched EXCEPT ![w].pc = "note", ![w].seen = TRUE,
                                          ![w].missed = template' /= user[w].content]
      BY DEF Dyna!Store
    <2> QED  BY <2>1, TouchedFacts DEF WritesFor, TemplateUser
  <1>4. Starting(user'[w]) /\ Starting(user[w]) /\ ~Asks(user'[w]) /\ ~Asks(user[w])
    BY <1>1, <1>3 DEF Starting, Asks
  <1>5. ASSUME ~overlap
        PROVE  template' = n /\ template /= remote /\ \A v \in Users : ~Asks(user[v])
    <2>1. template' = n /\ template /= remote
      BY <1>1, <1>5, TornFacts DEF UserOK, EtagIsTrue
    <2>2. \A v \in Users : ~Asks(user[v])
      BY <1>1, <1>4, <1>5 DEF TemplateInv, OneFirst
    <2> QED  BY <2>1, <2>2
  <1> HIDE DEF n
  <1>6. UserOK(user[w])'
    BY <1>1, <1>2, <1>3, <1>5 DEF UserOK, ShowsWhatItSaw, KnowsThePast, EtagIsTrue
  <1> QED  BY <1>1, <1>2, <1>3, <1>4, <1>5, <1>6, WritingKeeps

LEMMA ChangedKeeps ==
    ASSUME Dyna!TemplateAssumption, TemplateInv, NEW w \in Users, Dyna!Changed(w)
    PROVE  TemplateInv'
  <1>1. /\ user[w] \in TemplateUser /\ UserOK(user[w]) /\ user[w].pc = "ask" /\ user[w].got /= remote
        /\ UNCHANGED <<remote, time, meta, lock, overlap>> /\ remote \in Nat /\ remote >= 1
        /\ template' \in Dyna!Torn /\ template' \in Nat \ {0}
    BY UserFacts, TornFacts DEF Dyna!Changed, Dyna!Truncate
  <1>2. /\ WritesFor(w)
        /\ user'[w].pc = "write" /\ user'[w].alone /\ ~user'[w].seen
        /\ user'[w].content = user[w].content /\ user'[w].etag = remote
    <2>1. /\ user' = [Dyna!Touched EXCEPT ![w].pc = "write", ![w].etag = remote, ![w].alone = TRUE]
      BY DEF Dyna!Changed
    <2> QED  BY <1>1, <2>1, TouchedFacts DEF WritesFor, TemplateUser
  <1>3. ~Starting(user'[w]) /\ ~Starting(user[w]) /\ Asks(user'[w]) /\ Asks(user[w])
    BY <1>1, <1>2 DEF Starting, Asks
  <1>4. template /= 0 /\ (~overlap => template /= remote)
    BY <1>1 DEF UserOK, KnowsThePast, EtagIsTrue
  <1>5. UserOK(user[w])'
    BY <1>1, <1>2 DEF UserOK, ShowsWhatItSaw, KnowsThePast, EtagIsTrue
  <1> QED  BY <1>1, <1>2, <1>3, <1>4, <1>5, WritingKeeps

LEMMA RewriteKeeps ==
    ASSUME Dyna!TemplateAssumption, TemplateInv, NEW w \in Users, Dyna!Rewrite(w)
    PROVE  TemplateInv'
  <1> DEFINE n == user[w].etag
  <1>1. /\ user[w] \in TemplateUser /\ UserOK(user[w]) /\ user[w].pc = "write"
        /\ UNCHANGED <<remote, time, meta, lock, overlap>>
        /\ template' \in {n} \union IF user[w].alone THEN {} ELSE Dyna!Torn
    BY UserFacts DEF Dyna!Rewrite, Dyna!Fill
  <1>2. n \in Nat /\ n >= 1 /\ n <= remote /\ template /= 0 /\ template' \in Nat \ {0}
    BY <1>1, TornFacts DEF UserOK, KnowsThePast, TemplateUser
  <1>3. /\ WritesFor(w)
        /\ user'[w].pc = "record" /\ ~user'[w].seen
        /\ user'[w].content = user[w].content /\ user'[w].etag = n
    <2>1. user' = [Dyna!Touched EXCEPT ![w].pc = "record"]
      BY DEF Dyna!Rewrite
    <2> QED  BY <2>1, TouchedFacts DEF WritesFor, TemplateUser
  <1>4. ~Starting(user'[w]) /\ ~Starting(user[w]) /\ Asks(user'[w]) /\ Asks(user[w])
    BY <1>1, <1>3 DEF Starting, Asks
  <1>5. ~overlap => template' = n /\ template /= remote
    BY <1>1, TornFacts DEF UserOK, EtagIsTrue
  <1> HIDE DEF n
  <1>6. UserOK(user[w])'
    BY <1>1, <1>2, <1>3, <1>5 DEF UserOK, ShowsWhatItSaw, KnowsThePast, EtagIsTrue
  <1> QED  BY <1>1, <1>2, <1>3, <1>4, <1>5, <1>6, WritingKeeps

\* A crash may leave a file that is cut off, but never one whose newest etag is known.
LEMMA CrashKeeps ==
    ASSUME Dyna!TemplateAssumption, TemplateInv, Dyna!Crash PROVE TemplateInv'
  <1> DEFINE u == Dyna!Fresh
  <1>1. u \in TemplateUser /\ u.pc = "off" /\ u.etag = 0
    BY DEF Dyna!Fresh, TemplateUser
  <1>2. /\ UNCHANGED <<remote, time, template, meta, overlap>> /\ lock' = Nobody
        /\ user' = [v \in Users |-> u] /\ \A v \in Users : user'[v] = u
    BY DEF Dyna!Crash
  <1> HIDE DEF u
  <1>3. TemplateTypeOK' /\ LockOK' /\ OneFirst' /\ MetaOK'
    BY <1>1, <1>2
       DEF TemplateInv, TemplateTypeOK, LockOK, OneFirst, MetaOK, Asks, Starting,
           Dyna!TemplateAssumption
  <1>4. ASSUME NEW v \in Users PROVE UserOK(user[v])'
    BY <1>1, <1>2, UserFacts DEF UserOK, ShowsWhatItSaw, KnowsThePast, EtagIsTrue
  <1> QED  BY <1>3, <1>4 DEF TemplateInv

LEMMA PublishKeeps ==
    ASSUME Dyna!TemplateAssumption, TemplateInv, Dyna!Publish \/ Dyna!Tick \/ UNCHANGED templateVars
    PROVE  TemplateInv'
  <1>1. UNCHANGED <<template, meta, lock, user, overlap>>
    BY DEF Dyna!Publish, Dyna!Tick, templateVars
  <1>2. /\ time' \in Nat /\ remote \in Nat /\ remote >= 1 /\ remote' \in 1..MaxRemote
        /\ remote' = remote \/ remote' = remote + 1
    BY DEF Dyna!Publish, Dyna!Tick, templateVars, TemplateInv, TemplateTypeOK,
           Dyna!TemplateAssumption
  <1>3. TemplateTypeOK' /\ LockOK' /\ OneFirst'
    BY <1>1, <1>2 DEF TemplateInv, TemplateTypeOK, LockOK, OneFirst, Asks, Starting
  <1>4. MetaOK'
    BY <1>1, <1>2, UserFacts DEF TemplateInv, TemplateTypeOK, TemplateEntry, MetaOK
  <1>5. ASSUME NEW w \in Users PROVE UserOK(user[w])'
    <2>1. /\ UserOK(user[w]) /\ user[w].etag \in Nat /\ user[w].content \in Nat
          /\ user'[w] = user[w]
      BY <1>1, UserFacts DEF TemplateUser
    <2>2. ShowsWhatItSaw(user[w])' /\ KnowsThePast(user[w])'
      BY <1>1, <1>2, <2>1 DEF UserOK, ShowsWhatItSaw, KnowsThePast
    <2>3. ~overlap => EtagIsTrue(user[w])'
      BY <1>1, <1>2, <2>1 DEF UserOK, KnowsThePast, EtagIsTrue
    <2> QED  BY <1>1, <2>2, <2>3 DEF UserOK
  <1> QED  BY <1>3, <1>4, <1>5 DEF TemplateInv

\* A widget that starts reads the file or, if there is none, downloads it; two that
\* do so at once overlap.
LEMMA StartKeeps ==
    ASSUME Dyna!TemplateAssumption, TemplateInv, NEW w \in Users, Dyna!Start(w)
    PROVE  TemplateInv'
  <1> DEFINE u == IF template /= 0
                  THEN [Dyna!Fresh EXCEPT !.pc = "stat", !.content = template, !.seen = TRUE]
                  ELSE [Dyna!Fresh EXCEPT !.pc = "download"]
  <1>1. /\ user[w].pc = "off" /\ user' = [user EXCEPT ![w] = u]
        /\ UNCHANGED <<remote, time, template, meta, lock>>
        /\ overlap' = (overlap \/ (template = 0 /\ Dyna!FirstDownloads /= {}))
    BY DEF Dyna!Start
  <1>2. Dyna!Fresh \in TemplateUser /\ Dyna!Fresh.etag = 0
    BY DEF Dyna!Fresh, TemplateUser
  <1>3. /\ u \in TemplateUser /\ u.etag = 0 /\ u.pc \in {"stat", "download"}
        /\ u.pc = "stat" => template /= 0 /\ u.content = template
        /\ u.pc = "download" => template = 0
    <2>1. CASE template /= 0
      BY <1>2, <2>1, UserFacts DEF TemplateUser
    <2>2. CASE template = 0
      BY <1>2, <2>2 DEF TemplateUser
    <2> QED  BY <2>1, <2>2
  <1> HIDE DEF u
  <1>4. user'[w] = u /\ \A v \in Users \ {w} : user'[v] = user[v]
    BY <1>1 DEF TemplateInv, TemplateTypeOK
  <1>5. TemplateTypeOK'
    BY <1>1, <1>3 DEF TemplateInv, TemplateTypeOK
  <1>6. ~overlap' => ~overlap /\ (template = 0 => Dyna!FirstDownloads = {})
    BY <1>1
  <1>7. MetaOK'
    BY <1>1, <1>6 DEF TemplateInv, MetaOK
  <1>8. LockOK'
    BY <1>1, <1>3, <1>4 DEF TemplateInv, LockOK, Asks
  <1>9. OneFirst'
    <2> SUFFICES ASSUME ~overlap', NEW v \in Users, NEW x \in Users, Starting(user'[v])
                 PROVE  /\ Starting(user'[x]) => v = x
                        /\ user'[v].pc = "fill" => ~Asks(user'[x])
      BY DEF OneFirst, Starting, Asks
    <2>1. CASE template = 0
      <3>1. \A y \in Users : ~Starting(user[y])
        BY <1>6, <2>1 DEF Dyna!FirstDownloads, Starting
      <3>2. v = w /\ (Starting(user'[x]) => x = w)
        BY <1>4, <3>1
      <3> QED  BY <1>3, <1>4, <3>2
    <2>2. CASE template /= 0
      <3>1. v /= w /\ Starting(user[v]) /\ user'[v] = user[v] /\ ~Starting(u) /\ ~Asks(u)
        BY <1>3, <1>4, <2>2 DEF Starting, Asks
      <3>2. CASE x = w
        BY <1>4, <3>1, <3>2
      <3>3. CASE x /= w
        BY <1>4, <1>6, <3>1, <3>3 DEF TemplateInv, OneFirst
      <3> QED  BY <3>2, <3>3
    <2> QED  BY <2>1, <2>2
  <1>10. UserOK(user[w])'
    BY <1>1, <1>3, <1>4, UserFacts DEF UserOK, ShowsWhatItSaw, KnowsThePast, EtagIsTrue
  <1>11. ASSUME NEW v \in Users \ {w} PROVE UserOK(user[v])'
    <2>1. UserOK(user[v]) /\ user'[v] = user[v]
      BY <1>4, UserFacts
    <2> QED
      BY <1>1, <1>6, <2>1 DEF UserOK, ShowsWhatItSaw, KnowsThePast, EtagIsTrue
  <1> QED  BY <1>5, <1>7, <1>8, <1>9, <1>10, <1>11 DEF TemplateInv

LEMMA TemplateStepKeeps ==
    ASSUME Dyna!TemplateAssumption, TemplateInv, [Dyna!TemplateNext]_templateVars
    PROVE  TemplateInv'
  <1>1. CASE Dyna!Publish \/ Dyna!Tick \/ UNCHANGED templateVars
    BY <1>1, PublishKeeps
  <1>2. CASE Dyna!Crash
    BY <1>2, CrashKeeps
  <1>3. ASSUME NEW w \in Users,
               \/ Dyna!Start(w) \/ Dyna!Stop(w) \/ Dyna!Download(w) \/ Dyna!DownloadFails(w)
               \/ Dyna!WritePart(w) \/ Dyna!Save(w) \/ Dyna!Store(w) \/ Dyna!SaveFails(w)
               \/ Dyna!Note(w)
        PROVE  TemplateInv'
    BY <1>3, StartKeeps, DownloadKeeps, WritePartKeeps, SaveKeeps, StoreKeeps, NoteKeeps
  <1>4. ASSUME NEW w \in Users,
               \/ Dyna!Check(w) \/ Dyna!Changed(w) \/ Dyna!Rewrite(w)
               \/ Dyna!AskFails(w) \/ Dyna!Unchanged(w) \/ Dyna!WriteFails(w) \/ Dyna!Record(w)
        PROVE  TemplateInv'
    BY <1>4, CheckKeeps, ChangedKeeps, RewriteKeeps, ReleaseKeeps
  <1>5. ASSUME NEW w \in Users,
               Dyna!Stat(w) \/ Dyna!Update(w) \/ Dyna!Look(w) \/ Dyna!Read(w)
        PROVE  TemplateInv'
    BY <1>5, RestsKeeps
  <1> QED  BY <1>1, <1>2, <1>3, <1>4, <1>5 DEF Dyna!TemplateNext

\* Dynawidgets (dynawidgets-templates.go): whatever widgets share a template, however
\* their checks, downloads, failing writes and crashes are interleaved, a widget that
\* finds the file as it saw it shows what is in it, unless that does not parse; none in
\* use ever shows what does not parse; and "not modified" is said of what is in the
\* file, unless a first download overlapped with another, or its file with a check.
THEOREM TemplatesCatchUpHolds == ServicesSpec => []TemplatesCatchUp
  <1>1. ServicesInit => TemplateInv
    BY TemplatesStart, PartsAssumption DEF ServicesInit
  <1>2. TemplateInv /\ [ServicesNext]_servicesVars => TemplateInv'
    BY TemplateSteps, TemplateStepKeeps, PartsAssumption
  <1>3. TemplateInv => TemplatesCatchUp
    <2>1. ASSUME TemplateInv, NEW w \in Users
          PROVE  /\ user[w].pc = "idle" => Dyna!Usable(user[w].content)
                 /\ user[w].pc = "idle" /\ user[w].seen /\ ~user[w].missed
                       /\ Dyna!Usable(template) => user[w].content = template
                 /\ user[w].pc = "ask" /\ Dyna!NotModified(w) /\ ~overlap => template = remote
      BY <2>1, UserFacts DEF UserOK, ShowsWhatItSaw, EtagIsTrue, Dyna!NotModified
    <2> QED  BY <2>1 DEF TemplatesCatchUp, Dyna!TemplatesCatchUp
  <1> QED  BY <1>1, <1>2, <1>3, PTL DEF ServicesSpec

--------------------------------------------------------------------------------
\* Search targets.

SearchTypeOK == allowed \in [Pages -> SUBSET Readers] /\ home \in [Holders -> Pages]

SearchInv == part = "search" => SearchTypeOK

\* A restricted page whose matches are found is another than the widget's own, and
\* then the kind of the match crosses pages.
LEMMA MatchFacts ==
    ASSUME SearchTypeOK, NEW m \in Search!Matches
    PROVE  m.source \in Pages /\ (Search!Restricted(m.source) => Search!HasRestrictedTargets)
  <1>1. PICK h \in Holders : /\ Search!Searched(h)
                             /\ \E i \in targets[h] :
                                    m = [kind |-> Search!Kind(h), item |-> i, source |-> home[h]]
    BY DEF Search!Matches
  <1>2. m.source = home[h] /\ home[h] \in Pages
    BY <1>1 DEF SearchTypeOK
  <1>3. Search!Restricted(home[h]) => crosses /= {}
    BY <1>1 DEF Search!Searched, Search!Restricted
  <1> QED  BY <1>2, <1>3 DEF Search!HasRestrictedTargets

LEMMA AllowedAreFound == ASSUME SearchTypeOK PROVE Search!FindsWhatIsAllowed
  <1> SUFFICES ASSUME NEW v \in Readers, Search!CanAccess(v, Own)
               PROVE  Search!PublicTargets
                        \union (IF Search!HasRestrictedTargets THEN Search!RestrictedTargets(v) ELSE {})
                      = {Search!Key(m) : m \in {m \in Search!Matches : Search!CanAccess(v, m.source)}}
    BY DEF Search!FindsWhatIsAllowed
  <1> DEFINE Found == Search!PublicTargets
                        \union (IF Search!HasRestrictedTargets THEN Search!RestrictedTargets(v) ELSE {})
             Due == {Search!Key(m) : m \in {m \in Search!Matches : Search!CanAccess(v, m.source)}}
  <1>1. ASSUME NEW k \in Found PROVE k \in Due
    <2>1. CASE k \in Search!PublicTargets
      <3>1. PICK m \in Search!Matches : k = Search!Key(m) /\ ~Search!Restricted(m.source)
        BY <2>1 DEF Search!PublicTargets, Search!Filtered
      <3>2. Search!CanAccess(v, m.source)
        BY <3>1 DEF Search!Restricted, Search!CanAccess
      <3> QED  BY <3>1, <3>2
    <2>2. CASE k \in Search!RestrictedTargets(v)
      BY <2>2 DEF Search!RestrictedTargets, Search!Filtered
    <2> QED  BY <1>1, <2>1, <2>2
  <1>2. ASSUME NEW k \in Due PROVE k \in Found
    <2>1. PICK m \in Search!Matches : k = Search!Key(m) /\ Search!CanAccess(v, m.source)
      BY <1>2
    <2>2. m.source \in Pages /\ (Search!Restricted(m.source) => Search!HasRestrictedTargets)
      BY MatchFacts
    <2>3. CASE Search!Restricted(m.source)
      <3>1. k \in Search!RestrictedTargets(v)
        BY <2>1, <2>2, <2>3 DEF Search!RestrictedTargets, Search!Filtered
      <3> QED  BY <2>2, <2>3, <3>1
    <2>4. CASE ~Search!Restricted(m.source)
      <3>1. k \in Search!PublicTargets
        BY <2>1, <2>2, <2>4 DEF Search!PublicTargets, Search!Filtered
      <3> QED  BY <3>1
    <2> QED  BY <2>3, <2>4
  <1> QED  BY <1>1, <1>2

\* The search widget (widget-search.go): whatever the pages, who may see them and
\* what their widgets publish, a viewer finds the targets of the pages they may
\* see and no other.
THEOREM FindsWhatIsAllowedHolds == ServicesSpec => []FindsWhatIsAllowed
  <1>1. ServicesInit => SearchInv
    BY DEF ServicesInit, SearchInv, SearchTypeOK, Search!SearchInit
  <1>2. SearchInv /\ [ServicesNext]_servicesVars => SearchInv'
    BY SearchSteps DEF SearchInv, SearchTypeOK, Search!SearchNext, Search!Publish, searchVars
  <1>3. SearchInv => FindsWhatIsAllowed
    BY AllowedAreFound DEF SearchInv, FindsWhatIsAllowed
  <1> QED  BY <1>1, <1>2, <1>3, PTL DEF ServicesSpec

--------------------------------------------------------------------------------
\* Container groups.

GroupsInv == grouped => shown = {Groups!Top(c) : c \in {c \in Groups!Visible : ~Groups!IsChild(c)}}

LEMMA TopFacts ==
    ASSUME NEW c
    PROVE  /\ Groups!Top(c).name = c.name /\ Groups!Top(c).icon = Groups!TopIcon(c)
           /\ Groups!Top(c).children =
                {[name |-> k.name, icon |-> Groups!Icon(k.state)] : k \in Groups!Children(c)}
  BY DEF Groups!Top

LEMMA GroupedIsSeen == ASSUME GroupsInv PROVE Groups!ProblemsAreSeen
  <1> SUFFICES ASSUME grouped PROVE Groups!ProblemsAreSeen
    BY DEF Groups!ProblemsAreSeen
  <1>1. shown = {Groups!Top(c) : c \in {c \in Groups!Visible : ~Groups!IsChild(c)}}
    BY DEF GroupsInv
  <1>2. ASSUME NEW c \in Groups!Visible, Groups!Icon(c.state) = "warn",
               Groups!IsChild(c) => \E p \in Groups!Visible : p.labels.id = c.labels.parent
        PROVE  \E t \in Groups!Warned : t.name = c.name \/ \E k \in t.children : k.name = c.name
    <2>1. CASE ~Groups!IsChild(c)
      <3>1. Groups!Top(c) \in shown
        BY <1>1, <2>1
      <3>2. Groups!Top(c).icon = "warn"
        BY <1>2, TopFacts DEF Groups!TopIcon
      <3> QED  BY <3>1, <3>2, TopFacts DEF Groups!Warned
    <2>2. CASE Groups!IsChild(c)
      <3>1. PICK p \in Groups!Visible : p.labels.id = c.labels.parent
        BY <1>2, <2>2
      <3>2. ~Groups!IsChild(p) /\ p.labels.id /= Groups!Unset
        BY <2>2, <3>1 DEF Groups!IsChild
      <3>3. c \in Groups!Children(p)
        BY <2>2, <3>1, <3>2 DEF Groups!Children
      <3>4. Groups!Top(p) \in shown
        BY <1>1, <3>2
      <3>5. Groups!Top(p).icon = "warn"
        BY <1>2, <3>3, TopFacts DEF Groups!TopIcon
      <3>6. [name |-> c.name, icon |-> Groups!Icon(c.state)] \in Groups!Top(p).children
        BY <3>3, TopFacts
      <3> QED  BY <3>4, <3>5, <3>6 DEF Groups!Warned
    <2> QED  BY <2>1, <2>2
  <1>3. ASSUME NEW t \in Groups!Warned
        PROVE  \E c \in Groups!Visible : Groups!Icon(c.state) = "warn"
                  /\ (c.name = t.name \/ \E k \in t.children : k.name = c.name)
    <2>1. PICK p \in Groups!Visible : t = Groups!Top(p)
      BY <1>1, <1>3 DEF Groups!Warned
    <2>2. Groups!TopIcon(p) = "warn"
      BY <1>3, <2>1, TopFacts DEF Groups!Warned
    <2>3. CASE \E c \in Groups!Children(p) : Groups!Icon(c.state) = "warn"
      <3>1. PICK c \in Groups!Children(p) : Groups!Icon(c.state) = "warn"
        BY <2>3
      <3>2. c \in Groups!Visible
        BY <3>1 DEF Groups!Children
      <3>3. [name |-> c.name, icon |-> Groups!Icon(c.state)] \in t.children
        BY <2>1, <3>1, TopFacts
      <3> QED  BY <3>1, <3>2, <3>3
    <2>4. CASE ~\E c \in Groups!Children(p) : Groups!Icon(c.state) = "warn"
      <3>1. Groups!Icon(p.state) = "warn"
        BY <2>2, <2>4 DEF Groups!TopIcon
      <3> QED  BY <2>1, <3>1, TopFacts
    <2> QED  BY <2>3, <2>4
  <1> QED  BY <1>2, <1>3 DEF Groups!ProblemsAreSeen

\* The Docker containers widget (widget-docker-containers.go): whatever containers,
\* labels and options there are, a visible one that is stopped or missing is seen
\* as a warning at the top level, and nothing else warns.  It is the half of
\* DrawnAsTold that is about lists.
THEOREM ProblemsAreSeenHolds == ServicesSpec => [](part = "groups" => Groups!ProblemsAreSeen)
  <1>1. ServicesInit => GroupsInv
    BY DEF ServicesInit, GroupsInv, Groups!GroupsInit
  <1>2. GroupsInv /\ [ServicesNext]_servicesVars => GroupsInv'
    <2> SUFFICES ASSUME GroupsInv, [ServicesNext]_servicesVars PROVE GroupsInv'
      OBVIOUS
    <2> DEFINE Tops == {Groups!Top(c) : c \in {c \in Groups!Visible : ~Groups!IsChild(c)}}
    <2>1. UNCHANGED <<options, overrides, containers>> => UNCHANGED Tops
      BY DEF Groups!Top, Groups!TopIcon, Groups!Children, Groups!IsChild, Groups!Visible,
             Groups!Hidden, Groups!Source, Groups!Labelled, Groups!Missing, Groups!Listed,
             Groups!Over
    <2>2. CASE UNCHANGED groupVars \/ Groups!Group
      BY <2>1, <2>2 DEF GroupsInv, groupVars, Groups!Group
    <2>3. ASSUME NEW n, NEW state, NEW labels, Groups!Answer(n, state, labels) PROVE GroupsInv'
      BY <2>3 DEF GroupsInv, Groups!Answer
    <2> QED  BY <2>2, <2>3, GroupSteps DEF Groups!GroupsNext
  <1>3. GroupsInv => (part = "groups" => Groups!ProblemsAreSeen)
    BY GroupedIsSeen
  <1> QED  BY <1>1, <1>2, <1>3, PTL DEF ServicesSpec

--------------------------------------------------------------------------------
\* The bars of the DNS graph.

\* Sums of a function over finite sets, as FoldFunctionOnSet takes them.
IsSum(sum, f, S) ==
    sum = [s \in SUBSET S |-> IF s = {} THEN 0 ELSE f[CHOOSE x \in s : TRUE] + sum[s \ {CHOOSE x \in s : TRUE}]]

SumOver(f, S) == CHOOSE sum : IsSum(sum, f, S)

LEMMA TotalIs == \A f, S : Dns!Total(f, S) = SumOver(f, S)[S]
  BY DEF Dns!Total, Dns!FoldFunctionOnSet, Dns!MapThenFoldSet, SumOver, IsSum

\* Of some sets within a finite one, one has no other of them within it.
LEMMA LeastSet ==
    ASSUME NEW S, IsFiniteSet(S), NEW family, family \subseteq SUBSET S, family # {}
    PROVE  \E T \in family : \A U \in family : U \subseteq T => U = T
  <1>1. family \subseteq FiniteSubsetsOf(S)
    BY FS_Subset DEF FiniteSubsetsOf
  <1>2. IsWellFoundedOn(StrictSubsetOrdering(S), FiniteSubsetsOf(S))
    BY FS_StrictSubsetOrderingWellFounded
  <1>3. \E T \in family : \A U \in family : ~(<<U, T>> \in StrictSubsetOrdering(S))
    BY <1>1, <1>2, WFMin
  <1>4. \A T, U \in family : U \subseteq T /\ U # T => <<U, T>> \in StrictSubsetOrdering(S)
    BY DEF StrictSubsetOrdering
  <1> QED BY <1>3, <1>4

Chosen(s) == CHOOSE x \in s : TRUE

LEMMA ChosenIsIn == \A s : s # {} => Chosen(s) \in s
  BY DEF Chosen

\* What such a sum is at a set.
LEMMA SumAt ==
    ASSUME NEW sum, NEW f, NEW S, IsSum(sum, f, S), NEW s, s \subseteq S
    PROVE  /\ s = {} => sum[s] = 0
           /\ s # {} => sum[s] = f[Chosen(s)] + sum[s \ {Chosen(s)}]
  BY DEF IsSum, Chosen

LEMMA SumsAgree ==
    ASSUME NEW f, NEW S, NEW T, NEW g, NEW h, IsSum(g, f, S), IsSum(h, f, T),
           NEW s, IsFiniteSet(s), s \subseteq S, s \subseteq T
    PROVE  g[s] = h[s]
  <1> DEFINE bad == {u \in SUBSET s : g[u] # h[u]}
  <1> SUFFICES ASSUME bad # {} PROVE FALSE
    OBVIOUS
  <1>1. PICK u \in bad : \A v \in bad : v \subseteq u => v = u
    <2>1. bad \subseteq SUBSET s
      OBVIOUS
    <2> HIDE DEF bad
    <2> QED BY <2>1, LeastSet
  <1>2. u \subseteq S /\ u \subseteq T
    OBVIOUS
  <1>3. u # {}
    BY <1>2, SumAt
  <1>4. Chosen(u) \in u
    BY <1>3, ChosenIsIn
  <1>5. u \ {Chosen(u)} \notin bad
    BY <1>1, <1>4
  <1>6. g[u \ {Chosen(u)}] = h[u \ {Chosen(u)}]
    BY <1>5
  <1>7. g[u] = f[Chosen(u)] + g[u \ {Chosen(u)}]
    BY <1>2, <1>3, SumAt
  <1>8. h[u] = f[Chosen(u)] + h[u \ {Chosen(u)}]
    BY <1>2, <1>3, SumAt
  <1> QED BY <1>6, <1>7, <1>8

\* Every finite set has its sum.
LEMMA SumExists ==
    ASSUME NEW f, NEW S, IsFiniteSet(S)
    PROVE  IsSum(SumOver(f, S), f, S)
  <1> DEFINE bad == {u \in SUBSET S : ~ \E sum : IsSum(sum, f, u)}
  <1>1. SUFFICES ASSUME bad # {} PROVE FALSE
    <2>1. \E sum : IsSum(sum, f, S)
      BY <1>1
    <2> QED BY <2>1 DEF SumOver
  <1>2. PICK u \in bad : \A v \in bad : v \subseteq u => v = u
    <2>1. bad \subseteq SUBSET S
      OBVIOUS
    <2> HIDE DEF bad
    <2> QED BY <1>1, <2>1, LeastSet
  <1>3. \A v : v \subseteq u /\ v # u => IsSum(SumOver(f, v), f, v)
    <2> SUFFICES ASSUME NEW v, v \subseteq u, v # u PROVE IsSum(SumOver(f, v), f, v)
      OBVIOUS
    <2>1. \E sum : IsSum(sum, f, v)
      BY <1>2
    <2> QED BY <2>1 DEF SumOver
  <1> DEFINE below(v) == SumOver(f, v)[v]
             sum_ == [v \in SUBSET u |->
                         IF v = u THEN IF u = {} THEN 0 ELSE f[Chosen(u)] + below(u \ {Chosen(u)}) ELSE below(v)]
  <1>4. \A v \in SUBSET u : v \ {Chosen(v)} \in SUBSET u /\ IsFiniteSet(v)
    <2>1. IsFiniteSet(u)
      BY FS_Subset
    <2> QED BY <2>1, FS_Subset
  <1>5. ASSUME NEW v \in SUBSET u
        PROVE  sum_[v] = IF v = {} THEN 0 ELSE f[Chosen(v)] + sum_[v \ {Chosen(v)}]
    <2>1. CASE v = {}
      <3>1. CASE v = u
        BY <2>1, <3>1
      <3>2. CASE v # u
        <4>1. IsSum(SumOver(f, v), f, v)
          BY <1>3, <3>2
        <4>2. SumOver(f, v)[v] = 0
          BY <2>1, <4>1, SumAt
        <4> QED BY <2>1, <3>2, <4>2
      <3> QED BY <3>1, <3>2
    <2>2. CASE v # {}
      <3> DEFINE w == v \ {Chosen(v)}
      <3>1. Chosen(v) \in v
        BY <2>2, ChosenIsIn
      <3>2. w \in SUBSET u /\ w # u /\ w # v /\ w \subseteq v
        BY <3>1
      <3>3. sum_[w] = below(w)
        BY <3>2
      <3>4. CASE v = u
        <4>1. sum_[v] = f[Chosen(v)] + below(w)
          BY <2>2, <3>4
        <4> QED BY <4>1, <3>3, <2>2
      <3>5. CASE v # u
        <4>1. sum_[v] = SumOver(f, v)[v]
          BY <3>5
        <4>2. IsSum(SumOver(f, v), f, v)
          BY <1>3, <3>5
        <4>3. IsSum(SumOver(f, w), f, w)
          BY <1>3, <3>2
        <4> HIDE DEF w, sum_
        <4>4. IsFiniteSet(w)
          BY <1>4, <3>2
        <4>5. SumOver(f, v)[w] = SumOver(f, w)[w]
          BY <4>2, <4>3, <4>4, <3>2, SumsAgree
        <4>6. SumOver(f, v)[v] = f[Chosen(v)] + SumOver(f, v)[w]
          BY <4>2, <2>2, SumAt DEF w
        <4>7. sum_[w] = SumOver(f, w)[w]
          BY <3>3
        <4>8. sum_[v] = f[Chosen(v)] + sum_[w]
          BY <4>1, <4>5, <4>6, <4>7
        <4> QED BY <4>8, <2>2 DEF w
      <3> QED BY <3>4, <3>5
    <2> QED BY <2>1, <2>2
  <1>6. DOMAIN sum_ = SUBSET u /\ sum_ = [v \in DOMAIN sum_ |-> sum_[v]]
    OBVIOUS
  <1> HIDE DEF sum_
  <1>7. sum_ = [v \in SUBSET u |-> IF v = {} THEN 0 ELSE f[Chosen(v)] + sum_[v \ {Chosen(v)}]]
    BY <1>5, <1>6
  <1>8. IsSum(sum_, f, u)
    BY <1>7 DEF IsSum, Chosen
  <1> QED BY <1>8

\* A total is what one element adds to the total of the others.
LEMMA TotalOfOthers ==
    ASSUME NEW f, NEW S, IsFiniteSet(S)
    PROVE  /\ S = {} => Dns!Total(f, S) = 0
           /\ S # {} => Dns!Total(f, S) = f[Chosen(S)] + Dns!Total(f, S \ {Chosen(S)})
  <1> DEFINE T == S \ {Chosen(S)}
  <1>1. IsFiniteSet(T)
    BY FS_Subset
  <1>2. IsSum(SumOver(f, S), f, S) /\ IsSum(SumOver(f, T), f, T)
    BY <1>1, SumExists
  <1> HIDE DEF T
  <1>3. T \subseteq S
    BY DEF T
  <1>4. SumOver(f, S)[T] = SumOver(f, T)[T]
    BY <1>1, <1>2, <1>3, SumsAgree
  <1>5. /\ S = {} => SumOver(f, S)[S] = 0
        /\ S # {} => SumOver(f, S)[S] = f[Chosen(S)] + SumOver(f, S)[T]
    BY <1>2, SumAt DEF T
  <1>6. Dns!Total(f, S) = SumOver(f, S)[S] /\ Dns!Total(f, T) = SumOver(f, T)[T]
    BY TotalIs
  <1>7. /\ S = {} => Dns!Total(f, S) = 0
        /\ S # {} => Dns!Total(f, S) = f[Chosen(S)] + Dns!Total(f, T)
    BY <1>4, <1>5, <1>6
  <1> QED BY <1>7 DEF T

LEMMA TotalIsNat ==
    ASSUME NEW f, NEW S, IsFiniteSet(S), \A x \in S : f[x] \in Nat
    PROVE  Dns!Total(f, S) \in Nat
  <1> DEFINE bad == {u \in SUBSET S : Dns!Total(f, u) \notin Nat}
  <1> SUFFICES ASSUME bad # {} PROVE FALSE
    OBVIOUS
  <1>1. PICK u \in bad : \A v \in bad : v \subseteq u => v = u
    <2>1. bad \subseteq SUBSET S
      OBVIOUS
    <2> HIDE DEF bad
    <2> QED BY <2>1, LeastSet
  <1>2. IsFiniteSet(u)
    BY FS_Subset
  <1>3. u # {}
    <2>1. u = {} => Dns!Total(f, u) = 0
      BY <1>2, TotalOfOthers
    <2> QED BY <2>1
  <1>4. Chosen(u) \in u
    BY <1>3, ChosenIsIn
  <1>5. Dns!Total(f, u \ {Chosen(u)}) \in Nat
    BY <1>1, <1>4
  <1>6. Dns!Total(f, u) = f[Chosen(u)] + Dns!Total(f, u \ {Chosen(u)})
    BY <1>2, <1>3, TotalOfOthers
  <1>7. f[Chosen(u)] \in Nat
    BY <1>4
  <1>8. Dns!Total(f, u) \in Nat
    BY <1>5, <1>6, <1>7
  <1> QED BY <1>8

\* Whichever element that is.
LEMMA TotalOfOneAndOthers ==
    ASSUME NEW f, NEW S, IsFiniteSet(S), \A x \in S : f[x] \in Nat, NEW a \in S
    PROVE  Dns!Total(f, S) = f[a] + Dns!Total(f, S \ {a})
  <1> DEFINE bad == {u \in SUBSET S : \E x \in u : Dns!Total(f, u) # f[x] + Dns!Total(f, u \ {x})}
  <1> SUFFICES ASSUME bad # {} PROVE FALSE
    OBVIOUS
  <1>1. PICK u \in bad : \A v \in bad : v \subseteq u => v = u
    <2>1. bad \subseteq SUBSET S
      OBVIOUS
    <2> HIDE DEF bad
    <2> QED BY <2>1, LeastSet
  <1>2. PICK x \in u : Dns!Total(f, u) # f[x] + Dns!Total(f, u \ {x})
    OBVIOUS
  <1> DEFINE c == Chosen(u)
             both == u \ {x, c}
  <1>3. /\ IsFiniteSet(u) /\ IsFiniteSet(u \ {x}) /\ IsFiniteSet(u \ {c}) /\ IsFiniteSet(both)
        /\ u # {} /\ u \subseteq S
    BY FS_Subset
  <1>4. c \in u
    BY <1>3, ChosenIsIn
  <1>5. f[x] \in Nat /\ f[c] \in Nat /\ Dns!Total(f, both) \in Nat /\ \A y \in u : f[y] \in Nat
    <2>1. \A y \in both : f[y] \in Nat
      OBVIOUS
    <2> HIDE DEF both
    <2>2. Dns!Total(f, both) \in Nat
      BY <1>3, <2>1, TotalIsNat
    <2> QED BY <1>3, <1>4, <2>2
  <1>6. Dns!Total(f, u) = f[c] + Dns!Total(f, u \ {c})
    BY <1>3, TotalOfOthers
  <1>7. x # c
    BY <1>2, <1>6
  <1>8. u \ {c} \notin bad /\ u \ {x} \notin bad
    BY <1>1, <1>4
  <1>9. /\ u \ {c} \in SUBSET S /\ x \in u \ {c} /\ (u \ {c}) \ {x} = both
        /\ u \ {x} \in SUBSET S /\ c \in u \ {x} /\ (u \ {x}) \ {c} = both
    BY <1>3, <1>4, <1>7
  <1> HIDE DEF both, c
  <1>10. Dns!Total(f, u \ {c}) = f[x] + Dns!Total(f, both)
    BY <1>8, <1>9
  <1>11. Dns!Total(f, u \ {x}) = f[c] + Dns!Total(f, both)
    BY <1>8, <1>9
  <1> QED BY <1>2, <1>5, <1>6, <1>10, <1>11

\* A total counted from the other end: c - x stands for x.
Mirrors(f, g, c, S) == \A x \in S : x \in Int /\ f[x] \in Nat /\ g[c - x] = f[x]

LEMMA TotalTurned ==
    ASSUME NEW f, NEW g, NEW c \in Int, NEW S, IsFiniteSet(S), Mirrors(f, g, c, S)
    PROVE  Dns!Total(f, S) = Dns!Total(g, {c - x : x \in S})
  <1> DEFINE turned(u) == {c - x : x \in u}
             same(u) == Dns!Total(f, u) = Dns!Total(g, turned(u))
             bad == {u \in SUBSET S : ~ same(u)}
  <1> SUFFICES ASSUME bad # {} PROVE FALSE
    OBVIOUS
  <1>0. \A x \in S : x \in Int /\ f[x] \in Nat /\ g[c - x] = f[x]
    BY DEF Mirrors
  <1>1. PICK u \in bad : \A v \in bad : v \subseteq u => v = u
    <2>1. bad \subseteq SUBSET S
      OBVIOUS
    <2> HIDE DEF bad, turned
    <2>2. IsFiniteSet(S) /\ bad # {}
      OBVIOUS
    <2>3. \E w \in bad : \A v \in bad : v \subseteq w => v = w
      BY <2>1, <2>2, LeastSet
    <2> QED BY <2>3
  <1>2. u \subseteq S /\ IsFiniteSet(u)
    BY FS_Subset
  <1>3. IsFiniteSet(turned(u))
    <2> DEFINE back == [y \in turned(u) |-> c - y]
    <2>1. \A x \in u : c - x \in turned(u) /\ c - (c - x) = x
      BY <1>0, <1>2
    <2>2. \A y \in turned(u) : y \in Int /\ c - y \in u /\ c - (c - y) = y
      BY <1>0, <1>2
    <2> HIDE DEF turned
    <2>3. back \in Injection(turned(u), u)
      <3>1. back \in [turned(u) -> u]
        BY <2>2
      <3>2. \A y, z \in turned(u) : back[y] = back[z] => y = z
        BY <2>2
      <3> QED BY <3>1, <3>2 DEF Injection, IsInjective
    <2> HIDE DEF back
    <2> QED BY <1>2, <2>3, FS_Injection
  <1>4. u # {}
    <2>1. turned({}) = {}
      OBVIOUS
    <2>2. Dns!Total(f, {}) = 0 /\ Dns!Total(g, {}) = 0
      BY FS_EmptySet, TotalOfOthers
    <2> QED BY <2>1, <2>2
  <1>5. PICK a \in u : TRUE
    BY <1>4
  <1>6. u \ {a} \in SUBSET S /\ u \ {a} \notin bad
    BY <1>1, <1>2
  <1>7. Dns!Total(f, u \ {a}) = Dns!Total(g, turned(u \ {a}))
    BY <1>6
  <1>8. turned(u \ {a}) = turned(u) \ {c - a}
    BY <1>0, <1>2
  <1>9. c - a \in turned(u)
    OBVIOUS
  <1>10. \A y \in turned(u) : g[y] \in Nat
    <2> SUFFICES ASSUME NEW x \in u PROVE g[c - x] \in Nat
      OBVIOUS
    <2>1. x \in S
      BY <1>0, <1>2
    <2> QED BY <1>0, <2>1
  <1>15. \A x \in u : f[x] \in Nat
    BY <1>0, <1>2
  <1> HIDE DEF turned, bad
  <1>11. Dns!Total(g, turned(u)) = g[c - a] + Dns!Total(g, turned(u) \ {c - a})
    BY <1>3, <1>9, <1>10, TotalOfOneAndOthers
  <1>12. Dns!Total(f, u) = f[a] + Dns!Total(f, u \ {a})
    BY <1>2, <1>15, TotalOfOneAndOthers
  <1>13. g[c - a] = f[a]
    BY <1>0, <1>2
  <1>14. Dns!Total(f, u) = Dns!Total(g, turned(u))
    BY <1>7, <1>8, <1>11, <1>12, <1>13
  <1> QED BY <1>14 DEF bad

\* Where the hours of a bar begin and end, from the first point and from the last.
LEMMA BarArithmetic ==
    ASSUME Dns!GraphAssumption, NEW i \in 1..Bars
    PROVE  /\ Dns!Span \in Nat /\ Bars <= Dns!Span
           /\ (i - 1) * PerBar \in Nat /\ i * PerBar \in Nat /\ i * PerBar <= Dns!Span
           /\ i * PerBar = (i - 1) * PerBar + PerBar
           /\ (Bars - i) * PerBar = Dns!Span - i * PerBar
           /\ (Bars - i + 1) * PerBar = Dns!Span - (i - 1) * PerBar
  <1>1. Bars \in Nat /\ PerBar \in Nat /\ PerBar >= 1 /\ i \in Nat /\ 1 <= i /\ i <= Bars
    BY DEF Dns!GraphAssumption
  <1>2. \A a, b \in Int : (a - b) * PerBar = a * PerBar - b * PerBar
    BY <1>1
  <1>3. \A a \in Nat : a * PerBar \in Nat /\ a <= a * PerBar
    BY <1>1
  <1>4. (i - 1) * PerBar = i * PerBar - PerBar
    BY <1>1, <1>2
  <1>5. (Bars - i) * PerBar = Bars * PerBar - i * PerBar
    BY <1>1, <1>2
  <1>6. (Bars - i + 1) * PerBar = Bars * PerBar - (i - 1) * PerBar
    <2>1. Bars - i + 1 = Bars - (i - 1)
      BY <1>1
    <2> QED BY <1>1, <1>2, <2>1
  <1>7. (i - 1) * PerBar \in Nat /\ i * PerBar \in Nat /\ (Bars - i) * PerBar \in Nat
        /\ Bars * PerBar \in Nat /\ Bars <= Bars * PerBar
    BY <1>1, <1>3
  <1> QED BY <1>1, <1>4, <1>5, <1>6, <1>7 DEF Dns!Span

\* The total of the hours of a bar is the total of the points from its age on.
LEMMA BarIsSum ==
    ASSUME Dns!GraphAssumption, NEW s \in Seq(Nat), NEW f, NEW i \in 1..Bars, input.service # "blocky",
           \A h \in 1..Dns!Span : f[h] = Dns!Ago(s, Dns!Span - h)
    PROVE  Dns!Total(f, Dns!Hours(i)) = Dns!Sum(s, i)
  <1> DEFINE all == Dns!Span
             low == (i - 1) * PerBar
             high == i * PerBar
             ages == [k \in 0..all |-> Dns!Ago(s, k)]
             hours == (low + 1)..high
  <1>1. all \in Nat /\ low \in Nat /\ high \in Nat /\ low <= high /\ high <= all
    BY BarArithmetic DEF Dns!GraphAssumption
  <1>2. Dns!Hours(i) = hours
    BY DEF Dns!Hours
  <1>3. Dns!Sum(s, i) = Dns!Total(ages, (all - high)..(all - low - 1))
    BY BarArithmetic DEF Dns!Sum, Dns!Points
  <1>4. \A k \in Nat : Dns!Ago(s, k) \in Nat
    BY DEF Dns!Ago
  <1> HIDE DEF all, low, high
  <1>5. {all - h : h \in hours} = (all - high)..(all - low - 1)
    <2>1. \A h \in hours : all - h \in (all - high)..(all - low - 1)
      BY <1>1
    <2>2. \A k \in (all - high)..(all - low - 1) : all - k \in hours /\ k = all - (all - k)
      BY <1>1
    <2> QED BY <2>1, <2>2
  <1>6. \A h \in hours : h \in Int /\ f[h] \in Nat /\ ages[all - h] = f[h]
    <2> SUFFICES ASSUME NEW h \in hours PROVE h \in Int /\ f[h] \in Nat /\ ages[all - h] = f[h]
      OBVIOUS
    <2>1. h \in 1..all /\ all - h \in Nat /\ all - h \in 0..all
      BY <1>1
    <2>2. f[h] = Dns!Ago(s, all - h)
      BY <2>1 DEF all
    <2> QED BY <2>1, <2>2, <1>4
  <1>7. IsFiniteSet(hours)
    BY <1>1, FS_Interval
  <1>9. Mirrors(f, ages, all, hours) /\ all \in Int
    BY <1>1, <1>6 DEF Mirrors
  <1> HIDE DEF hours, ages
  <1>8. Dns!Total(f, hours) = Dns!Total(ages, {all - h : h \in hours})
    BY <1>7, <1>9, TotalTurned
  <1> QED BY <1>2, <1>3, <1>5, <1>8

\* A point of a series, by its age: of one that was padded or cut, of a whole day's,
\* and of one with a point more.
LEMMA PaddedIsAgo ==
    ASSUME Dns!GraphAssumption, NEW s \in Seq(Nat), NEW h \in 1..Dns!Span
    PROVE  Dns!Padded(s)[h] = Dns!Ago(s, Dns!Span - h)
  <1> DEFINE all == Dns!Span
  <1>1. all \in Nat
    BY DEF Dns!GraphAssumption, Dns!Span
  <1> HIDE DEF all
  <1>2. h \in 1..all /\ Len(s) \in Nat
    BY DEF all
  <1>3. CASE Len(s) > all
    <2>1. Dns!Padded(s) = SubSeq(s, Len(s) - all + 1, Len(s))
      BY <1>3 DEF Dns!Padded, all
    <2>2. SubSeq(s, Len(s) - all + 1, Len(s))[h] = s[Len(s) - all + 1 + h - 1]
      BY <1>1, <1>2, <1>3
    <2>3. Dns!Ago(s, all - h) = s[Len(s) - (all - h)]
      BY <1>1, <1>2, <1>3 DEF Dns!Ago
    <2>4. Len(s) - (all - h) = Len(s) - all + 1 + h - 1
      BY <1>1, <1>2
    <2> QED BY <2>1, <2>2, <2>3, <2>4 DEF all
  <1>4. CASE ~(Len(s) > all)
    <2> DEFINE zeros == [j \in 1..(all - Len(s)) |-> 0]
    <2>1. Dns!Padded(s) = zeros \o s
      BY <1>4 DEF Dns!Padded, all
    <2>2. zeros \in Seq(Nat) /\ Len(zeros) = all - Len(s) /\ DOMAIN zeros = 1..(all - Len(s))
      BY <1>1, <1>2, <1>4
    <2>3. CASE h <= all - Len(s)
      <3>1. Dns!Ago(s, all - h) = 0
        BY <1>1, <1>2, <2>3 DEF Dns!Ago
      <3>2. zeros[h] = 0
        BY <1>1, <1>2, <2>3
      <3> HIDE DEF zeros
      <3>3. (zeros \o s)[h] = zeros[h]
        BY <1>1, <1>2, <2>2, <2>3
      <3> QED BY <2>1, <3>1, <3>2, <3>3 DEF all
    <2>4. CASE h > all - Len(s)
      <3>1. Dns!Ago(s, all - h) = s[Len(s) - (all - h)]
        BY <1>1, <1>2, <2>4 DEF Dns!Ago
      <3> HIDE DEF zeros
      <3>2. (zeros \o s)[h] = s[h - (all - Len(s))]
        BY <1>1, <1>2, <1>4, <2>2, <2>4
      <3>3. h - (all - Len(s)) = Len(s) - (all - h)
        BY <1>1, <1>2
      <3> QED BY <2>1, <3>1, <3>2, <3>3 DEF all
    <2> QED BY <1>1, <1>2, <2>3, <2>4
  <1> QED BY <1>3, <1>4

LEMMA DayIsAgo ==
    ASSUME Dns!GraphAssumption, NEW s \in Seq(Nat), NEW h \in 1..Dns!Span
    PROVE  /\ Len(s) = Dns!Span => s[h] = Dns!Ago(s, Dns!Span - h)
           /\ Len(s) = Dns!Span + 1 => Tail(s)[h] = Dns!Ago(s, Dns!Span - h)
  <1> DEFINE all == Dns!Span
  <1>1. all \in Nat
    BY DEF Dns!GraphAssumption, Dns!Span
  <1> HIDE DEF all
  <1>2. h \in 1..all
    BY DEF all
  <1>3. Len(s) = all => s[h] = Dns!Ago(s, all - h)
    <2> SUFFICES ASSUME Len(s) = all PROVE s[h] = Dns!Ago(s, all - h)
      OBVIOUS
    <2>1. all - h < Len(s) /\ Len(s) - (all - h) = h
      BY <1>1, <1>2
    <2> QED BY <2>1 DEF Dns!Ago
  <1>4. Len(s) = all + 1 => Tail(s)[h] = Dns!Ago(s, all - h)
    <2> SUFFICES ASSUME Len(s) = all + 1 PROVE Tail(s)[h] = Dns!Ago(s, all - h)
      OBVIOUS
    <2>1. all - h < Len(s) /\ Len(s) - (all - h) = h + 1
      BY <1>1, <1>2
    <2>2. Tail(s)[h] = s[h + 1]
      BY <1>1, <1>2
    <2> QED BY <2>1, <2>2 DEF Dns!Ago
  <1> QED BY <1>3, <1>4 DEF all

\* Of Blocky's points, the one of a bar.
LEMMA PointIsSum ==
    ASSUME Dns!GraphAssumption, NEW s \in Seq(Nat), NEW i \in 1..Bars, input.service = "blocky"
    PROVE  /\ Dns!Sum(s, i) = Dns!Ago(s, Bars - i)
           /\ LET q == Dns!LastBars(s)
                  offset == Bars - Len(q)
              IN  /\ Len(q) \in Nat
                  /\ i - offset <= Len(q)
                  /\ (IF i > offset THEN q[i - offset] ELSE 0) = Dns!Ago(s, Bars - i)
  <1> DEFINE all == Dns!Span
             ages == [k \in 0..all |-> Dns!Ago(s, k)]
             k0 == Bars - i
  <1>1. all \in Nat /\ Bars <= all /\ Bars \in Nat /\ i \in 1..Bars
    BY BarArithmetic DEF Dns!GraphAssumption
  <1>2. Dns!Sum(s, i) = Dns!Total(ages, {k0})
    <2>1. (Bars - i) * 1 = k0 /\ (Bars - i + 1) * 1 - 1 = k0 /\ k0..k0 = {k0}
      BY <1>1
    <2> HIDE DEF k0
    <2>2. Dns!Points = 1
      BY DEF Dns!Points
    <2> QED BY <2>1, <2>2 DEF Dns!Sum
  <1>3. \A k \in Nat : Dns!Ago(s, k) \in Nat
    BY DEF Dns!Ago
  <1>4. k0 \in Nat /\ k0 \in 0..all
    BY <1>1
  <1> HIDE DEF all
  <1>5. ages[k0] = Dns!Ago(s, k0) /\ ages[k0] \in Nat
    BY <1>3, <1>4
  <1> HIDE DEF k0, ages
  <1>6. Dns!Total(ages, {k0}) = ages[k0] + Dns!Total(ages, {k0} \ {k0})
    <2>1. IsFiniteSet({k0}) /\ k0 \in {k0} /\ \A x \in {k0} : ages[x] \in Nat
      BY FS_Singleton, <1>5
    <2> QED BY <2>1, TotalOfOneAndOthers
  <1>7. Dns!Total(ages, {k0} \ {k0}) = 0
    <2>1. {k0} \ {k0} = {} /\ IsFiniteSet({})
      BY FS_EmptySet
    <2> QED BY <2>1, TotalOfOthers
  <1>8. Dns!Sum(s, i) = Dns!Ago(s, Bars - i)
    BY <1>2, <1>5, <1>6, <1>7 DEF k0
  <1> DEFINE q == Dns!LastBars(s)
             offset == Bars - Len(q)
  <1>9. Len(s) \in Nat
    OBVIOUS
  <1>10. CASE Len(s) > Bars
    <2>1. q = SubSeq(s, Len(s) - Bars + 1, Len(s))
      BY <1>10 DEF Dns!LastBars
    <2>2. Len(q) = Bars /\ q[i] = s[Len(s) - Bars + i]
      BY <2>1, <1>1, <1>9, <1>10
    <2>3. Dns!Ago(s, Bars - i) = s[Len(s) - Bars + i]
      <3>1. Bars - i < Len(s) /\ Len(s) - (Bars - i) = Len(s) - Bars + i
        BY <1>1, <1>9, <1>10
      <3> QED BY <3>1 DEF Dns!Ago
    <2>4. offset = 0 /\ i > 0 /\ i - 0 = i
      BY <2>2, <1>1
    <2> HIDE DEF q
    <2> QED BY <1>1, <1>8, <2>2, <2>3, <2>4 DEF q
  <1>11. CASE ~(Len(s) > Bars)
    <2>1. q = s
      BY <1>11 DEF Dns!LastBars
    <2>2. i > offset => Dns!Ago(s, Bars - i) = s[i - offset]
      <3>1. i > offset => Bars - i < Len(s) /\ Len(s) - (Bars - i) = i - (Bars - Len(s))
        BY <2>1, <1>1, <1>9
      <3> QED BY <2>1, <3>1 DEF Dns!Ago
    <2>3. ~(i > offset) => Dns!Ago(s, Bars - i) = 0
      <3>1. ~(i > offset) => ~(Bars - i < Len(s))
        BY <2>1, <1>1, <1>9
      <3> QED BY <3>1 DEF Dns!Ago
    <2>4. i - offset <= Len(q) /\ Len(q) \in Nat
      BY <2>1, <1>1, <1>9
    <2> QED BY <1>8, <2>1, <2>2, <2>3, <2>4
  <1> QED BY <1>10, <1>11

\* The highest bar.
LEMMA MostOf ==
    ASSUME NEW S, IsFiniteSet(S), NEW f, \A x \in S : f[x] \in Nat
    PROVE  \E m \in {0} \union {f[x] : x \in S} : \A y \in {0} \union {f[x] : x \in S} : m >= y
  <1> DEFINE with(u) == {0} \union {f[x] : x \in u}
             most(u) == \E m \in with(u) : \A y \in with(u) : m >= y
             bad == {u \in SUBSET S : ~ most(u)}
  <1> SUFFICES ASSUME bad # {} PROVE FALSE
    <2>1. S \in SUBSET S
      OBVIOUS
    <2>2. bad = {} => most(S)
      BY <2>1
    <2> QED BY <2>2
  <1>1. PICK u \in bad : \A v \in bad : v \subseteq u => v = u
    <2>1. bad \subseteq SUBSET S /\ bad # {}
      OBVIOUS
    <2> HIDE DEF bad, most, with
    <2>2. \E w \in bad : \A v \in bad : v \subseteq w => v = w
      BY <2>1, LeastSet
    <2> QED BY <2>2
  <1>2. u # {}
    <2>1. with({}) = {0}
      OBVIOUS
    <2>2. most({})
      BY <2>1
    <2> QED BY <2>2
  <1>3. PICK a \in u : TRUE
    BY <1>2
  <1>4. u \in SUBSET S /\ a \in S /\ f[a] \in Nat
    OBVIOUS
  <1>5. u \ {a} \in SUBSET S /\ u \ {a} # u /\ u \ {a} \subseteq u
    BY <1>3
  <1>6. most(u \ {a})
    <2>1. u \ {a} \notin bad
      BY <1>1, <1>5
    <2> QED BY <1>5, <2>1
  <1>7. with(u) = with(u \ {a}) \union {f[a]}
    BY <1>3
  <1>8. with(u) \subseteq Nat /\ with(u \ {a}) \subseteq Nat
    BY <1>4
  <1>9. PICK m \in with(u \ {a}) : \A y \in with(u \ {a}) : m >= y
    BY <1>6
  <1>10. m \in Nat
    BY <1>8, <1>9
  <1> DEFINE new == IF m >= f[a] THEN m ELSE f[a]
  <1> HIDE DEF with
  <1>11. new \in with(u) /\ new >= m /\ new >= f[a] /\ new \in Nat
    BY <1>4, <1>7, <1>9, <1>10
  <1> HIDE DEF new
  <1>12. ASSUME NEW y \in with(u) PROVE new >= y
    <2>1. y \in Nat
      BY <1>8
    <2>2. y \in with(u \ {a}) => m >= y
      BY <1>9
    <2>3. y \in with(u \ {a}) \/ y = f[a]
      BY <1>7
    <2> QED BY <1>10, <1>11, <2>1, <2>2, <2>3
  <1>13. most(u)
    BY <1>11, <1>12
  <1> QED BY <1>13

LEMMA HighestIs ==
    ASSUME Dns!GraphAssumption, NEW bar, \A i \in 1..Bars : bar[i].queries \in Nat
    PROVE  /\ Dns!Highest(bar) \in Nat
           /\ \A i \in 1..Bars : bar[i].queries <= Dns!Highest(bar)
           /\ Dns!Highest(bar) = 0 \/ \E i \in 1..Bars : bar[i].queries = Dns!Highest(bar)
  <1> DEFINE n == 1..Bars
             f == [i \in n |-> bar[i].queries]
             all == {0} \union {bar[i].queries : i \in n}
  <1>1. {0} \union {f[i] : i \in n} = all
    OBVIOUS
  <1>2. Dns!Highest(bar) = CHOOSE m \in all : \A x \in all : m >= x
    BY DEF Dns!Highest, Dns!Max
  <1>3. \E m \in all : \A x \in all : m >= x
    <2>1. IsFiniteSet(n)
      BY FS_Interval DEF Dns!GraphAssumption
    <2>2. \A i \in n : f[i] \in Nat
      OBVIOUS
    <2> HIDE DEF n, f, all
    <2>3. \E m \in {0} \union {f[i] : i \in n} : \A y \in {0} \union {f[i] : i \in n} : m >= y
      BY <2>1, <2>2, MostOf
    <2> QED BY <1>1, <2>3
  <1>4. all \subseteq Nat /\ 0 \in all /\ \A i \in 1..Bars : bar[i].queries \in all
    OBVIOUS
  <1>5. \A x \in all : x = 0 \/ \E i \in 1..Bars : bar[i].queries = x
    OBVIOUS
  <1> HIDE DEF all
  <1>6. Dns!Highest(bar) \in all /\ \A x \in all : Dns!Highest(bar) >= x
    BY <1>2, <1>3
  <1> QED BY <1>4, <1>5, <1>6

LEMMA SameHighest ==
    ASSUME NEW a, NEW b, \A i \in 1..Bars : a[i].queries = b[i].queries
    PROVE  Dns!Highest(a) = Dns!Highest(b)
  <1>1. {a[i].queries : i \in 1..Bars} = {b[i].queries : i \in 1..Bars}
    OBVIOUS
  <1> QED BY <1>1 DEF Dns!Highest

\* The height of a bar, of a hundred.
LEMMA PercentIs ==
    ASSUME NEW share \in Nat, NEW all \in Nat, all # 0, share <= all
    PROVE  /\ Dns!PercentOf(share, all) \in Int
           /\ Dns!PercentOf(share, all) <= 100
           /\ share = all => Dns!PercentOf(share, all) = 100
           /\ share = 0 => Dns!PercentOf(share, all) = 0
  <1> DEFINE p == (share * 100) \div all
  <1>1. share * 100 \in Nat /\ all > 0
    OBVIOUS
  <1>2. p \in Int /\ p * all <= share * 100 /\ share * 100 < (p + 1) * all
    <2> DEFINE h == share * 100
    <2>1. h \in Int
      BY <1>1
    <2> HIDE DEF h
    <2>2. h \div all \in Int /\ (h \div all) * all <= h /\ h < (h \div all + 1) * all
      BY <1>1, <2>1
    <2> QED BY <2>2 DEF h
  <1> HIDE DEF p
  <1>3. p <= 100
    <2> SUFFICES ASSUME p >= 101 PROVE FALSE
      BY <1>2
    <2>1. p * all >= 101 * all
      BY <1>2
    <2> QED BY <1>2, <2>1
  <1>4. share = all => p = 100
    <2> SUFFICES ASSUME share = all, p <= 99 PROVE FALSE
      BY <1>2, <1>3
    <2>1. (p + 1) * all <= 100 * all
      BY <1>2
    <2> QED BY <1>2, <2>1
  <1>5. share = 0 => p = 0
    <2>1. share = 0 /\ p >= 1 => FALSE
      BY <1>1, <1>2
    <2>2. share = 0 /\ p <= -1 => FALSE
      <3> SUFFICES ASSUME share = 0, p <= -1 PROVE FALSE
        OBVIOUS
      <3>1. (p + 1) * all <= 0
        BY <1>1, <1>2
      <3> QED BY <1>2, <3>1
    <2> QED BY <1>2, <2>1, <2>2
  <1> QED BY <1>2, <1>3, <1>4, <1>5 DEF p, Dns!PercentOf

\* Bars of a graph, each what its hours add up to.
LEMMA HeightsAreTrue ==
    ASSUME Dns!GraphAssumption, NEW bars, NEW none \in {0, -1}, graph' = Dns!Heights(bars, none), input' = input,
           \A i \in 1..Bars : /\ bars[i].queries \in Nat
                              /\ bars[i].queries = Dns!Sum(input.queries, i)
                              /\ bars[i].blocked = Dns!Sum(input.blocked, i)
    PROVE  Dns!BarsAreTrue'
  <1> DEFINE high == Dns!Highest(bars)
             drawn == graph'
  <1>1. \A i \in 1..Bars :
          /\ drawn[i].queries = bars[i].queries /\ drawn[i].blocked = bars[i].blocked
          /\ drawn[i].total = IF high = 0 THEN none ELSE Dns!PercentOf(bars[i].queries, high)
    BY DEF Dns!Heights
  <1> HIDE DEF drawn
  <1>2. Dns!Highest(drawn) = high
    BY <1>1, SameHighest
  <1>3. /\ high \in Nat
        /\ \A i \in 1..Bars : bars[i].queries <= high
        /\ high = 0 \/ \E i \in 1..Bars : bars[i].queries = high
    BY HighestIs
  <1> HIDE DEF high
  <1>4. ASSUME NEW i \in 1..Bars
        PROVE  /\ drawn[i].total <= 100 /\ (drawn[i].queries = 0 => drawn[i].total <= 0)
               /\ high > 0 /\ bars[i].queries = high => drawn[i].total = 100
    <2>1. bars[i].queries \in Nat /\ bars[i].queries <= high
      BY <1>3
    <2>2. CASE high = 0
      <3>1. drawn[i].total = none
        BY <1>1, <2>2
      <3> QED BY <2>2, <3>1
    <2>3. CASE high # 0
      <3>1. drawn[i].total = Dns!PercentOf(bars[i].queries, high) /\ drawn[i].queries = bars[i].queries
        BY <1>1, <2>3
      <3> QED BY <1>3, <2>1, <2>3, <3>1, PercentIs
    <2> QED BY <2>2, <2>3
  <1>5. high > 0 => \E i \in 1..Bars : drawn[i].total = 100
    BY <1>3, <1>4
  <1>6. \A i \in 1..Bars : /\ Dns!Sum(input.queries, i)' = Dns!Sum(input.queries, i)
                           /\ Dns!Sum(input.blocked, i)' = Dns!Sum(input.blocked, i)
    BY DEF Dns!Sum, Dns!Points
  <1>7. \A i \in 1..Bars : drawn[i].queries = Dns!Sum(input.queries, i)' /\ drawn[i].blocked = Dns!Sum(input.blocked, i)'
    BY <1>1, <1>6
  <1> QED BY <1>2, <1>4, <1>5, <1>7 DEF Dns!BarsAreTrue, drawn

\* What is sent is two series of numbers.
GraphTypeOK ==
    /\ input.service \in Dns!Services
    /\ input.queries \in Seq(Nat) /\ input.blocked \in Seq(Nat)

LEMMA SumIsNat ==
    ASSUME Dns!GraphAssumption, NEW s \in Seq(Nat), NEW i \in 1..Bars
    PROVE  Dns!Sum(s, i) \in Nat
  <1> DEFINE all == Dns!Span
             ages == [k \in 0..all |-> Dns!Ago(s, k)]
             points == Dns!Points
             from == (Bars - i) * points
             to == (Bars - i + 1) * points - 1
             ago == from..to
  <1>1. \A k \in Nat : Dns!Ago(s, k) \in Nat
    BY DEF Dns!Ago
  <1>2. all \in Nat
    BY DEF Dns!GraphAssumption, Dns!Span
  <1>3. from \in Nat /\ to \in Int /\ to <= all
    <2>1. CASE input.service = "blocky"
      <3>1. points = 1
        BY <2>1 DEF Dns!Points
      <3> HIDE DEF points
      <3> QED BY <3>1, BarArithmetic DEF Dns!GraphAssumption
    <2>2. CASE input.service # "blocky"
      <3>1. points = PerBar
        BY <2>2 DEF Dns!Points
      <3> HIDE DEF points
      <3> QED BY <3>1, BarArithmetic DEF Dns!GraphAssumption
    <2> QED BY <2>1, <2>2
  <1>6. Dns!Sum(s, i) = Dns!Total(ages, ago)
    BY DEF Dns!Sum
  <1> HIDE DEF all, points, from, to
  <1>4. IsFiniteSet(ago)
    BY <1>3, FS_Interval
  <1>5. \A k \in ago : ages[k] \in Nat
    <2> SUFFICES ASSUME NEW k \in ago PROVE ages[k] \in Nat
      OBVIOUS
    <2>1. k \in Nat /\ k \in 0..all
      BY <1>2, <1>3
    <2> QED BY <1>1, <2>1
  <1> HIDE DEF ago, ages
  <1> QED BY <1>4, <1>5, <1>6, TotalIsNat

\* What a service sends is drawn.
LEMMA BarsAreSums ==
    ASSUME Dns!GraphAssumption, NEW s \in Seq(Nat), NEW i \in 1..Bars
    PROVE  /\ input.service # "blocky" => Dns!Total(Dns!Padded(s), Dns!Hours(i)) = Dns!Sum(s, i)
           /\ input.service # "blocky" /\ Len(s) = Dns!Span => Dns!Total(s, Dns!Hours(i)) = Dns!Sum(s, i)
           /\ input.service # "blocky" /\ Len(s) = Dns!Span + 1 =>
                 Dns!Total(Tail(s), Dns!Hours(i)) = Dns!Sum(s, i)
  <1>1. input.service # "blocky" => Dns!Total(Dns!Padded(s), Dns!Hours(i)) = Dns!Sum(s, i)
    <2>1. \A h \in 1..Dns!Span : Dns!Padded(s)[h] = Dns!Ago(s, Dns!Span - h)
      BY PaddedIsAgo
    <2> QED BY <2>1, BarIsSum
  <1>2. input.service # "blocky" /\ Len(s) = Dns!Span => Dns!Total(s, Dns!Hours(i)) = Dns!Sum(s, i)
    <2>1. Len(s) = Dns!Span => \A h \in 1..Dns!Span : s[h] = Dns!Ago(s, Dns!Span - h)
      BY DayIsAgo
    <2> QED BY <2>1, BarIsSum
  <1>3. input.service # "blocky" /\ Len(s) = Dns!Span + 1 =>
            Dns!Total(Tail(s), Dns!Hours(i)) = Dns!Sum(s, i)
    <2>1. Len(s) = Dns!Span + 1 => \A h \in 1..Dns!Span : Tail(s)[h] = Dns!Ago(s, Dns!Span - h)
      BY DayIsAgo
    <2> QED BY <2>1, BarIsSum
  <1> QED BY <1>1, <1>2, <1>3

LEMMA GraphSteps == [ServicesNext]_servicesVars => [Dns!GraphNext]_graphVars /\ UNCHANGED part
  BY DEF ServicesNext, HelperNext, WidgetNext, servicesVars, widgetVars

GraphInv == part = "graph" => GraphTypeOK /\ Dns!BarsAreTrue

LEMMA GraphStarts == ASSUME Dns!GraphAssumption, Dns!GraphInit PROVE GraphTypeOK /\ Dns!BarsAreTrue
  <1>1. PICK service \in Dns!Services :
            input \in [service : {service}, queries : Dns!SeriesOf(service), blocked : Dns!SeriesOf(service)]
    BY DEF Dns!GraphInit
  <1>2. \A s \in Dns!SeriesOf(service) : s \in Seq(Nat)
    <2> SUFFICES ASSUME NEW s \in Dns!SeriesOf(service) PROVE s \in Seq(Nat)
      OBVIOUS
    <2> DEFINE most == IF service = "blocky" THEN Bars + 1 ELSE Dns!Span + 1
    <2>1. most \in Nat
      BY DEF Dns!GraphAssumption, Dns!Span
    <2> HIDE DEF most
    <2>2. PICK n \in 0..most : s \in [1..n -> Counts]
      BY DEF Dns!SeriesOf, most
    <2>3. n \in Nat /\ Counts \subseteq Nat
      BY <2>1 DEF Dns!GraphAssumption
    <2>4. s \in [1..n -> Nat]
      BY <2>2, <2>3
    <2> QED BY <2>3, <2>4
  <1>3. GraphTypeOK
    BY <1>1, <1>2 DEF GraphTypeOK
  <1>4. Dns!BarsAreTrue
    BY DEF Dns!GraphInit, Dns!BarsAreTrue
  <1> QED BY <1>3, <1>4

LEMMA DrawKeeps ==
    ASSUME Dns!GraphAssumption, GraphTypeOK, Dns!Draw
    PROVE  Dns!BarsAreTrue'
  <1> DEFINE q == input.queries
             b == input.blocked
             service == input.service
             bars == CASE service \in {"adguard", "technitium"} -> Dns!PaddedBars(q, b)
                       [] service = "blocky" -> Dns!BlockyBars(q, b)
                       [] service = "pihole 5" -> Dns!DayBars(q, b)
                       [] service = "pihole 6" -> Dns!Pihole6Bars(q, b)
  <1>1. /\ q \in Seq(Nat) /\ b \in Seq(Nat)
        /\ service \in {"adguard", "technitium", "pihole 5", "pihole 6", "blocky"}
    BY DEF GraphTypeOK, Dns!Services
  <1>2. /\ service \in {"pihole 5", "pihole 6"} => Dns!WholeDay(service, q) /\ Dns!WholeDay(service, b)
        /\ input' = input
    BY DEF Dns!Draw
  <1>3. PICK none \in {0, -1} : graph' = Dns!Heights(bars, none)
    <2>1. \E none \in Dns!Unheard(service) : graph' = Dns!Heights(bars, none)
      BY DEF Dns!Draw
    <2>2. Dns!Unheard(service) \subseteq {0, -1}
      BY DEF Dns!Unheard
    <2> QED BY <2>1, <2>2
  <1>4. CASE service = "blocky" /\ Len(q) # Len(b)
    BY <1>2, <1>4 DEF Dns!BarsAreTrue
  <1>5. CASE service = "blocky" => Len(q) = Len(b)
    <2>1. ASSUME NEW i \in 1..Bars
          PROVE  bars[i].queries = Dns!Sum(q, i) /\ bars[i].blocked = Dns!Sum(b, i)
      <3>1. CASE service \in {"adguard", "technitium"}
        <4>1. bars = Dns!PaddedBars(q, b)
          BY <3>1
        <4>2. /\ Dns!Total(Dns!Padded(q), Dns!Hours(i)) = Dns!Sum(q, i)
              /\ Dns!Total(Dns!Padded(b), Dns!Hours(i)) = Dns!Sum(b, i)
          BY <1>1, <3>1, BarsAreSums
        <4> HIDE DEF bars, q, b
        <4> QED BY <4>1, <4>2 DEF Dns!PaddedBars
      <3>2. CASE service = "pihole 5"
        <4>1. bars = Dns!DayBars(q, b)
          BY <3>2
        <4>2. Len(q) = Dns!Span /\ Len(b) = Dns!Span
          BY <1>2, <3>2 DEF Dns!WholeDay
        <4>3. Dns!Total(q, Dns!Hours(i)) = Dns!Sum(q, i) /\ Dns!Total(b, Dns!Hours(i)) = Dns!Sum(b, i)
          BY <1>1, <3>2, <4>2, BarsAreSums
        <4> HIDE DEF bars, q, b
        <4> QED BY <4>1, <4>3 DEF Dns!DayBars
      <3>3. CASE service = "pihole 6"
        <4>1. bars = Dns!DayBars(Tail(q), Tail(b))
          BY <3>3 DEF Dns!Pihole6Bars
        <4>2. Len(q) = Dns!Span + 1 /\ Len(b) = Dns!Span + 1
          BY <1>2, <3>3 DEF Dns!WholeDay
        <4>3. /\ Dns!Total(Tail(q), Dns!Hours(i)) = Dns!Sum(q, i)
              /\ Dns!Total(Tail(b), Dns!Hours(i)) = Dns!Sum(b, i)
          BY <1>1, <3>3, <4>2, BarsAreSums
        <4> HIDE DEF bars, q, b
        <4> QED BY <4>1, <4>3 DEF Dns!DayBars
      <3>4. CASE service = "blocky"
        <4> DEFINE lq == Dns!LastBars(q)
                   lb == Dns!LastBars(b)
                   offset == Bars - Len(lq)
        <4>1. bars = Dns!BlockyBars(q, b)
          BY <3>4
        <4>2. Len(lq) = Len(lb)
          <5>1. Len(q) = Len(b) /\ Bars \in Nat
            BY <1>5, <3>4 DEF Dns!GraphAssumption
          <5>2. ASSUME NEW s \in Seq(Nat)
                PROVE  Len(Dns!LastBars(s)) = IF Len(s) > Bars THEN Bars ELSE Len(s)
            <6>1. CASE Len(s) > Bars
              <7>1. Dns!LastBars(s) = SubSeq(s, Len(s) - Bars + 1, Len(s))
                BY <6>1 DEF Dns!LastBars
              <7>2. Len(SubSeq(s, Len(s) - Bars + 1, Len(s))) = Bars
                BY <5>1, <6>1
              <7> QED BY <6>1, <7>1, <7>2
            <6>2. CASE ~(Len(s) > Bars)
              BY <6>2 DEF Dns!LastBars
            <6> QED BY <6>1, <6>2
          <5> QED BY <1>1, <5>1, <5>2
        <4>3. /\ (IF i > offset THEN lq[i - offset] ELSE 0) = Dns!Ago(q, Bars - i)
              /\ Dns!Sum(q, i) = Dns!Ago(q, Bars - i)
          BY <1>1, <3>4, PointIsSum
        <4>4. /\ (IF i > Bars - Len(lb) THEN lb[i - (Bars - Len(lb))] ELSE 0) = Dns!Ago(b, Bars - i)
              /\ i - (Bars - Len(lb)) <= Len(lb)
              /\ Dns!Sum(b, i) = Dns!Ago(b, Bars - i)
          BY <1>1, <3>4, PointIsSum
        <4> HIDE DEF bars, q, b
        <4>5. /\ bars[i].queries = IF i > offset THEN lq[i - offset] ELSE 0
              /\ bars[i].blocked = IF i > offset /\ i - offset <= Len(lb) THEN lb[i - offset] ELSE 0
          BY <4>1 DEF Dns!BlockyBars
        <4> HIDE DEF lq, lb
        <4> QED BY <4>2, <4>3, <4>4, <4>5
      <3> QED BY <1>1, <3>1, <3>2, <3>3, <3>4
    <2>2. \A i \in 1..Bars : Dns!Sum(q, i) \in Nat
      BY <1>1, SumIsNat
    <2> HIDE DEF bars
    <2>3. \A i \in 1..Bars : /\ bars[i].queries \in Nat
                             /\ bars[i].queries = Dns!Sum(input.queries, i)
                             /\ bars[i].blocked = Dns!Sum(input.blocked, i)
      BY <2>1, <2>2
    <2> HIDE DEF q, b
    <2> QED BY <1>2, <1>3, <2>3, HeightsAreTrue
  <1> QED BY <1>4, <1>5

LEMMA GraphStepKeeps == GraphInv /\ [ServicesNext]_servicesVars => GraphInv'
  <1> SUFFICES ASSUME GraphInv, [ServicesNext]_servicesVars, part = "graph"
               PROVE  GraphTypeOK' /\ Dns!BarsAreTrue'
    BY GraphSteps DEF GraphInv
  <1>1. GraphTypeOK /\ Dns!BarsAreTrue /\ Dns!GraphAssumption
    BY PartsAssumption DEF GraphInv
  <1>2. CASE UNCHANGED graphVars
    <2>1. input' = input /\ graph' = graph
      BY <1>2 DEF graphVars
    <2>2. GraphTypeOK'
      BY <1>1, <2>1 DEF GraphTypeOK
    <2>3. \A s, i : Dns!Sum(s, i)' = Dns!Sum(s, i)
      BY <2>1 DEF Dns!Sum, Dns!Points
    <2>4. Dns!BarsAreTrue'
      BY <1>1, <2>1, <2>3 DEF Dns!BarsAreTrue
    <2> QED BY <2>2, <2>4
  <1>3. CASE Dns!Draw
    <2>1. Dns!BarsAreTrue'
      BY <1>1, <1>3, DrawKeeps
    <2>2. GraphTypeOK'
      BY <1>1, <1>3 DEF GraphTypeOK, Dns!Draw
    <2> QED BY <2>1, <2>2
  <1> QED BY <1>2, <1>3, GraphSteps DEF Dns!GraphNext

\* The DNS graph (widget-dns-stats.go) and the container list
\* (widget-docker-containers.go): whatever a DNS service sends, of any length, and
\* for any number of bars of any width, every bar of the graph counts the queries
\* and the blocked ones of its own hours, none stands higher than the graph and the
\* highest fills it (of Blocky, as long as as many points are blocked as asked);
\* and the problems of the containers are seen.
THEOREM DrawnAsToldHolds == ServicesSpec => []DrawnAsTold
  <1>1. ServicesInit => GraphInv
    BY PartsAssumption, GraphStarts DEF ServicesInit, GraphInv
  <1>2. GraphInv => (part = "graph" => Dns!BarsAreTrue)
    BY DEF GraphInv
  <1>3. ServicesSpec => [](part = "graph" => Dns!BarsAreTrue)
    BY <1>1, <1>2, GraphStepKeeps, PTL DEF ServicesSpec
  <1>4. (part = "graph" => Dns!BarsAreTrue) /\ (part = "groups" => Groups!ProblemsAreSeen) => DrawnAsTold
    BY DEF DrawnAsTold
  <1> QED BY <1>3, <1>4, ProblemsAreSeenHolds, PTL

--------------------------------------------------------------------------------
\* The rounds of the widgets that fetch.

LEMMA RoundSteps == [ServicesNext]_servicesVars => [RoundsNext]_roundVars
  BY DEF ServicesNext, HelperNext, WidgetNext, servicesVars

\* What a round needs to know of the rounds before: who the widget is, and that
\* every source has had something from the start.
RoundsTypeOK ==
    /\ now \in [Sources -> Nat \ {0}]
    /\ widget = [kind |-> widget.kind, shown |-> widget.shown, kept |-> widget.kept,
                 token |-> widget.token, error |-> widget.error, notice |-> widget.notice]
    /\ widget.kind \in Kinds

RoundsInv == RoundsTypeOK /\ CleanIsCurrent /\ RecoversAtOnce

\* CleanIsCurrent and RecoversAtOnce of a round that has yet to end.
Said(got, again, s) == {"none", "emptied"} \intersect {got[s], again[s]} /= {}

IsCurrent(kind, got, again, content_) ==
    \A s \in Shows(kind) :
        \/ content_[s] = now[s]
        \/ content_[s] = 0 /\ (Said(got, again, s) \/ Said(got, again, First) \/ kind \in ShowsFailures)

Helped(kind, got, s) ==
    CASE kind = "transmission" -> got[s] = "conflict"
      [] kind \in {"qbittorrent", "deluge"} -> got[s] = "denied"
      [] kind = "videos" -> got[s] = "missing"
      [] kind = "server stats" -> got[s] = "refused"
      [] OTHER -> FALSE

Healthy(kind, got, again, login) ==
    /\ \A s \in Sources :
          \/ /\ got[s] \in {"ok", "plain", "unchanged"}
             /\ kind = "latest of all" => again[s] = "ok"
          \/ Helped(kind, got, s) /\ again[s] = "ok"
    /\ login = "ok"
    /\ kind = "pihole 6" => again[First] /= "down"
    /\ kind = "pihole 5" => widget.token = "good"

\* What comes of a round of a kind.
RoundIsRight(kind, got, again, login, r) ==
    /\ r.err = "nil" => IsCurrent(kind, got, again, r.shown)
    /\ Healthy(kind, got, again, login) => r.err = "nil"

--------------------------------------------------------------------------------
\* What the sources may answer.
LEMMA ReadsReplies ==
    /\ \A r : JsonAnswer(r) \in {"ok", "none", "down"} /\ Needed(r) \in {"ok", "down"}
    /\ \A r : Accepted(r) \in {"ok", "none", "down"}
    /\ \A r, v : RssAnswer(r, v) \in {"ok", "plain", "none", "emptied", "unchanged", "down"}
    /\ \A r, v : VideoAnswer(r, v) \in {"ok", "none", "missing", "down"}
    /\ \A r, v : LatestRelease(r, v) \subseteq {"ok", "none", "down"}
    /\ \A r, v : PostsAnswer(r, v) \in {"ok", "none", "down"}
    /\ \A r : MonitorAnswer(r) \in {"ok", "down"}
    /\ \A r : NodeExporterAnswer(r) \in {"ok", "none", "refused", "down"}
    /\ \A server \in MediaServers : \A r, item : PlayingAnswer(server, r, item) \in {"ok", "none", "down"}
    /\ \A r : QbInfo(r) \in {"ok", "none", "denied", "down"}
    /\ \A r, v : DelugeRPC(r, v) \in {"ok", "none", "denied", "down"}
    /\ \A r, v : TransmissionRPC(r, v) \in {"ok", "none", "conflict", "down"}
    /\ \A server \in {"plex", "jellyfin"} : \A r, q : LatestServer(server, r, q) \in {"ok", "none", "down"}
    /\ \A r : ExtensionAnswer(r) \in {"ok", "none", "down"}
    /\ \A r, v : CustomAnswer(r, v) \in {"ok", "none", "down"}
<1>1. /\ \A r : JsonAnswer(r) \in {"ok", "none", "down"} /\ Needed(r) \in {"ok", "down"}
      /\ \A r : Accepted(r) \in {"ok", "none", "down"}
  BY DEF JsonAnswer, Needed, Accepted
<1>2. /\ \A r, v : RssAnswer(r, v) \in {"ok", "plain", "none", "emptied", "unchanged", "down"}
      /\ \A r, v : VideoAnswer(r, v) \in {"ok", "none", "missing", "down"}
      /\ \A r, v : PostsAnswer(r, v) \in {"ok", "none", "down"}
  BY <1>1 DEF RssAnswer, VideoAnswer, PostsAnswer
<1>3. \A r, v : LatestRelease(r, v) \subseteq {"ok", "none", "down"}
  BY <1>1 DEF LatestRelease, GithubAnswer, DockerHubAnswer, GitlabAnswer, CodebergAnswer
<1>4. /\ \A r : MonitorAnswer(r) \in {"ok", "down"}
      /\ \A r : NodeExporterAnswer(r) \in {"ok", "none", "refused", "down"}
      /\ \A r : ExtensionAnswer(r) \in {"ok", "none", "down"}
      /\ \A r, v : CustomAnswer(r, v) \in {"ok", "none", "down"}
  BY DEF MonitorAnswer, NodeExporterAnswer, ExtensionAnswer, CustomAnswer
<1>5. \A server \in MediaServers : \A r, item : PlayingAnswer(server, r, item) \in {"ok", "none", "down"}
  BY <1>1 DEF MediaServers, PlayingAnswer, PlexAnswer, JellyfinAnswer, EmbyAnswer, NavidromeAnswer
<1>6. /\ \A r : QbInfo(r) \in {"ok", "none", "denied", "down"}
      /\ \A r, v : DelugeRPC(r, v) \in {"ok", "none", "denied", "down"}
      /\ \A r, v : TransmissionRPC(r, v) \in {"ok", "none", "conflict", "down"}
  BY <1>1 DEF QbInfo, DelugeRPC, TransmissionRPC
<1>7. \A server \in {"plex", "jellyfin"} : \A r, q : LatestServer(server, r, q) \in {"ok", "none", "down"}
  BY <1>1 DEF LatestServer, PlexSections, JellyfinViews
<1> QED BY <1>1, <1>2, <1>3, <1>4, <1>5, <1>6, <1>7

\* The kinds with answers that others do not get.
Peculiar == {"rss", "videos", "server stats", "qbittorrent", "deluge", "transmission"}

LEMMA FirstAnswersAre ==
    /\ \A kind \in Kinds \ Peculiar : FirstAnswers[kind] \subseteq {"ok", "none", "down"}
    /\ FirstAnswers["rss"] \subseteq {"ok", "plain", "none", "emptied", "unchanged", "down"}
    /\ FirstAnswers["videos"] \subseteq {"ok", "none", "missing", "down"}
    /\ FirstAnswers["server stats"] \subseteq {"ok", "none", "refused", "down"}
    /\ FirstAnswers["qbittorrent"] \subseteq {"ok", "none", "denied", "down"}
    /\ FirstAnswers["deluge"] \subseteq {"ok", "none", "denied", "down"}
    /\ FirstAnswers["transmission"] \subseteq {"ok", "none", "conflict", "down"}
<1>1. FirstAnswers["rss"] = {RssAnswer(r, v) : r \in Replies, v \in BOOLEAN}
  BY DEF FirstAnswers, Kinds
<1>2. FirstAnswers["videos"] = {VideoAnswer(r, shorts) : r \in Replies, shorts \in BOOLEAN}
  BY DEF FirstAnswers, Kinds
<1>3. FirstAnswers["server stats"] = {RemoteServerAnswer(r) : r \in Replies} \union {NodeExporterAnswer(r) : r \in Replies}
  BY DEF FirstAnswers, Kinds
<1>4. /\ FirstAnswers["qbittorrent"] = {QbInfo(r) : r \in Replies}
      /\ FirstAnswers["deluge"] = {DelugeRPC(r, code) : r \in Replies, code \in {1, 2}}
      /\ FirstAnswers["transmission"] = {TransmissionRPC(r, header) : r \in Replies, header \in BOOLEAN}
  BY DEF FirstAnswers, Kinds
<1>5. \A kind \in Kinds \ Peculiar : FirstAnswers[kind] \subseteq {"ok", "none", "down"}
  <2> DEFINE Few == {"ok", "none", "down"}
  <2>1. /\ \A r : /\ JsonAnswer(r) \in Few /\ HackerNewsIds(r) \in Few /\ LobstersAnswer(r) \in Few
                  /\ TwitchChannel(r) \in Few /\ TwitchDirectories(r) \in Few /\ MonitorAnswer(r) \in Few
                  /\ PrometheusAnswer(r) \in Few /\ PlaceAnswer(r) \in Few /\ ExtensionAnswer(r) \in Few
                  /\ HomeAssistantAnswer(r) \in Few
        /\ \A r, v : LatestRelease(r, v) \subseteq Few /\ PostsAnswer(r, v) \in Few /\ CustomAnswer(r, v) \in Few
    BY ReadsReplies DEF HackerNewsIds, LobstersAnswer, TwitchChannel, TwitchDirectories, PrometheusAnswer,
                        PlaceAnswer, HomeAssistantAnswer
  <2>2. /\ \A server \in MediaServers : \A r, item : PlayingAnswer(server, r, item) \in Few
        /\ \A server \in {"plex", "jellyfin"} : \A r, q : LatestServer(server, r, q) \in Few
    BY ReadsReplies
  <2> HIDE DEF Few
  <2>3. FirstAnswers["releases"] \subseteq Few
    <3>1. \A a \in FirstAnswers["releases"] : \E r, v : a \in LatestRelease(r, v)
      BY DEF FirstAnswers, Kinds
    <3>2. \A r, v : LatestRelease(r, v) \subseteq Few
      BY <2>1
    <3> QED BY <3>1, <3>2
  <2>4. FirstAnswers["reddit"] \subseteq Few
    <3>1. \A a \in FirstAnswers["reddit"] : \E r, v : a = PostsAnswer(r, v)
      BY DEF FirstAnswers, Kinds
    <3>2. \A r, v : PostsAnswer(r, v) \in Few
      BY <2>1
    <3>3. ASSUME NEW a \in FirstAnswers["reddit"] PROVE a \in Few
      BY <3>1, <3>2
    <3> QED BY <3>3
  <2>5. FirstAnswers["reddit app"] \subseteq Few
    <3>1. \A a \in FirstAnswers["reddit app"] : \E r, v : a = PostsAnswer(r, v)
      BY DEF FirstAnswers, Kinds
    <3>2. \A r, v : PostsAnswer(r, v) \in Few
      BY <2>1
    <3>3. ASSUME NEW a \in FirstAnswers["reddit app"] PROVE a \in Few
      BY <3>1, <3>2
    <3> QED BY <3>3
  <2>6. FirstAnswers["playing"] \subseteq Few
    <3>1. \A a \in FirstAnswers["playing"] : \E server \in MediaServers : \E r, item : a = PlayingAnswer(server, r, item)
      BY DEF FirstAnswers, Kinds
    <3>2. \A server \in MediaServers : \A r, item : PlayingAnswer(server, r, item) \in Few
      BY <2>2
    <3> QED BY <3>1, <3>2
  <2>7. FirstAnswers["latest media"] \subseteq Few
    <3>1. \A a \in FirstAnswers["latest media"] : \E server \in {"plex", "jellyfin"} : \E r, q : a = LatestServer(server, r, q)
      BY DEF FirstAnswers, Kinds
    <3>2. \A server \in {"plex", "jellyfin"} : \A r, q : LatestServer(server, r, q) \in Few
      BY <2>2
    <3>3. ASSUME NEW a \in FirstAnswers["latest media"] PROVE a \in Few
      <4>1. PICK server \in {"plex", "jellyfin"} : \E r, q : a = LatestServer(server, r, q)
        BY <3>1
      <4>2. PICK r, q : a = LatestServer(server, r, q)
        BY <4>1
      <4>3. LatestServer(server, r, q) \in Few
        BY <3>2
      <4> QED BY <4>2, <4>3
    <3> QED BY <3>3
  <2>8. FirstAnswers["latest of all"] \subseteq Few
    <3>1. \A a \in FirstAnswers["latest of all"] : \E server \in {"plex", "jellyfin"} : \E r, q : a = LatestServer(server, r, q)
      BY DEF FirstAnswers, Kinds
    <3>2. \A server \in {"plex", "jellyfin"} : \A r, q : LatestServer(server, r, q) \in Few
      BY <2>2
    <3>3. ASSUME NEW a \in FirstAnswers["latest of all"] PROVE a \in Few
      <4>1. PICK server \in {"plex", "jellyfin"} : \E r, q : a = LatestServer(server, r, q)
        BY <3>1
      <4>2. PICK r, q : a = LatestServer(server, r, q)
        BY <4>1
      <4>3. LatestServer(server, r, q) \in Few
        BY <3>2
      <4> QED BY <4>2, <4>3
    <3> QED BY <3>3
  <2>9. FirstAnswers["custom api"] \subseteq Few
    <3>1. \A a \in FirstAnswers["custom api"] : \E r, v : a = CustomAnswer(r, v)
      BY DEF FirstAnswers, Kinds
    <3>2. \A r, v : CustomAnswer(r, v) \in Few
      BY <2>1
    <3> QED BY <3>1, <3>2
  <2>10. /\ FirstAnswers["hacker news"] \subseteq Few
        /\ FirstAnswers["lobsters"] \subseteq Few
        /\ FirstAnswers["twitch channels"] \subseteq Few
        /\ FirstAnswers["twitch games"] \subseteq Few
    <3>1. /\ FirstAnswers["hacker news"] = {HackerNewsIds(r) : r \in Replies}
          /\ FirstAnswers["lobsters"] = {LobstersAnswer(r) : r \in Replies}
          /\ FirstAnswers["twitch channels"] = {TwitchChannel(r) : r \in Replies}
          /\ FirstAnswers["twitch games"] = {TwitchDirectories(r) : r \in Replies}
      BY DEF FirstAnswers, Kinds
    <3> QED BY <2>1, <3>1
  <2>11. /\ FirstAnswers["monitor"] \subseteq Few
        /\ FirstAnswers["blocky"] \subseteq Few
        /\ FirstAnswers["weather"] \subseteq Few
        /\ FirstAnswers["extension"] \subseteq Few
    <3>1. /\ FirstAnswers["monitor"] = {MonitorAnswer(r) : r \in Replies}
          /\ FirstAnswers["blocky"] = {PrometheusAnswer(r) : r \in Replies}
          /\ FirstAnswers["weather"] = {PlaceAnswer(r) : r \in Replies}
          /\ FirstAnswers["extension"] = {ExtensionAnswer(r) : r \in Replies}
      BY DEF FirstAnswers, Kinds
    <3> QED BY <2>1, <3>1
  <2>12. /\ FirstAnswers["home assistant"] \subseteq Few
        /\ FirstAnswers["repository"] \subseteq Few
        /\ FirstAnswers["change detection"] \subseteq Few
        /\ FirstAnswers["docker containers"] \subseteq Few
    <3>1. /\ FirstAnswers["home assistant"] = {HomeAssistantAnswer(r) : r \in Replies}
          /\ FirstAnswers["repository"] = {JsonAnswer(r) : r \in Replies}
          /\ FirstAnswers["change detection"] = {JsonAnswer(r) : r \in Replies}
          /\ FirstAnswers["docker containers"] = {JsonAnswer(r) : r \in Replies}
      BY DEF FirstAnswers, Kinds
    <3> QED BY <2>1, <3>1
  <2>13. /\ FirstAnswers["all"] \subseteq Few
        /\ FirstAnswers["containers"] \subseteq Few
        /\ FirstAnswers["images"] \subseteq Few
        /\ FirstAnswers["adguard"] \subseteq Few
    <3>1. /\ FirstAnswers["all"] = {JsonAnswer(r) : r \in Replies}
          /\ FirstAnswers["containers"] = {JsonAnswer(r) : r \in Replies}
          /\ FirstAnswers["images"] = {JsonAnswer(r) : r \in Replies}
          /\ FirstAnswers["adguard"] = {JsonAnswer(r) : r \in Replies}
      BY DEF FirstAnswers, Kinds
    <3> QED BY <2>1, <3>1
  <2>14. /\ FirstAnswers["pihole 5"] \subseteq Few
        /\ FirstAnswers["pihole 6"] \subseteq Few
        /\ FirstAnswers["open pihole 6"] \subseteq Few
        /\ FirstAnswers["markets"] \subseteq Few
    <3>1. /\ FirstAnswers["pihole 5"] = {JsonAnswer(r) : r \in Replies}
          /\ FirstAnswers["pihole 6"] = {JsonAnswer(r) : r \in Replies}
          /\ FirstAnswers["open pihole 6"] = {JsonAnswer(r) : r \in Replies}
          /\ FirstAnswers["markets"] = {JsonAnswer(r) : r \in Replies}
      BY DEF FirstAnswers, Kinds
    <3> QED BY <2>1, <3>1
  <2>15. \A kind \in Kinds \ Peculiar : FirstAnswers[kind] \subseteq Few
    BY <2>3, <2>4, <2>5, <2>6, <2>7, <2>8, <2>9, <2>10, <2>11, <2>12, <2>13, <2>14
       DEF Kinds, Peculiar
  <2> QED BY <2>15 DEF Few
<1>6. FirstAnswers["rss"] \subseteq {"ok", "plain", "none", "emptied", "unchanged", "down"}
  BY <1>1, ReadsReplies
<1>7. FirstAnswers["videos"] \subseteq {"ok", "none", "missing", "down"}
  BY <1>2, ReadsReplies
<1>8. FirstAnswers["server stats"] \subseteq {"ok", "none", "refused", "down"}
  BY <1>3, ReadsReplies DEF RemoteServerAnswer
<1>9. /\ FirstAnswers["qbittorrent"] \subseteq {"ok", "none", "denied", "down"}
      /\ FirstAnswers["deluge"] \subseteq {"ok", "none", "denied", "down"}
      /\ FirstAnswers["transmission"] \subseteq {"ok", "none", "conflict", "down"}
  BY <1>4, ReadsReplies
<1> QED BY <1>5, <1>6, <1>7, <1>8, <1>9

LEMMA MoreAnswersAre ==
    /\ \A kind \in {"videos", "qbittorrent", "deluge", "transmission", "latest of all"} :
          MoreAnswers[kind] \subseteq {"ok", "none", "down"}
    /\ \A answer : Pihole6Check(answer) \in {"ok", "denied", "down"}
<1> DEFINE Few == {"ok", "none", "down"}
<1>1. \A kind \in {"videos", "qbittorrent", "deluge", "transmission"} :
          \A a \in FirstAnswers[kind] : AnyFailure(a) \in Few
  BY FirstAnswersAre DEF AnyFailure, Failures
<1>2. /\ MoreAnswers["videos"] = {AnyFailure(a) : a \in FirstAnswers["videos"]}
      /\ MoreAnswers["qbittorrent"] = {AnyFailure(a) : a \in FirstAnswers["qbittorrent"]}
      /\ MoreAnswers["deluge"] = {AnyFailure(a) : a \in FirstAnswers["deluge"]}
      /\ MoreAnswers["transmission"] = {AnyFailure(a) : a \in FirstAnswers["transmission"]}
      /\ MoreAnswers["latest of all"] = {LatestFrom(r) : r \in Replies}
  BY DEF MoreAnswers, Kinds
<1>3. \A r : LatestFrom(r) \in Few
  BY ReadsReplies DEF LatestFrom
<1>4. \A answer : Pihole6Check(answer) \in {"ok", "denied", "down"}
  BY DEF Pihole6Check
<1> HIDE DEF Few
<1>5. /\ MoreAnswers["videos"] \subseteq Few /\ MoreAnswers["qbittorrent"] \subseteq Few
      /\ MoreAnswers["deluge"] \subseteq Few /\ MoreAnswers["transmission"] \subseteq Few
  BY <1>1, <1>2
<1>6. MoreAnswers["latest of all"] \subseteq Few
  BY <1>2, <1>3
<1> QED BY <1>4, <1>5, <1>6 DEF Few

--------------------------------------------------------------------------------
\* What a kind makes of a round.
LEMMA Errors ==
    ASSUME NEW failed, NEW all
    PROVE  /\ AllOrSome(failed, all) = "nil" <=> failed = {} /\ all /= {}
           /\ Strictly(failed) = "nil" <=> failed = {}
  BY DEF AllOrSome, Strictly

LEMMA ShowsSources == \A kind : Shows(kind) \subseteq Sources
  BY SourcesAssumption DEF Shows, Parts

\* A widget that shows what it was told.
LEMMA ToldIsCurrent ==
    ASSUME NEW kind, NEW got, NEW again, NEW content_,
           \A s \in Shows(kind) :
               \/ content_[s] = now[s]
               \/ content_[s] = 0 /\ (got[s] \in {"none", "emptied"} \/ again[s] \in {"none", "emptied"})
    PROVE  IsCurrent(kind, got, again, content_)
<1>1. ASSUME NEW s, got[s] \in {"none", "emptied"} \/ again[s] \in {"none", "emptied"}
      PROVE  Said(got, again, s)
  <2>1. PICK x \in {got[s], again[s]} : x \in {"none", "emptied"}
    BY <1>1
  <2> QED BY <2>1 DEF Said
<1> QED BY <1>1 DEF IsCurrent

LEMMA OutcomeOfKind ==
    ASSUME NEW got, NEW again, NEW login
    PROVE  /\ Outcome("rss", got, again, login) = Rss(got)
           /\ Outcome("videos", got, again, login) = Videos(got, again)
           /\ Outcome("releases", got, again, login) = Releases(got)
           /\ Outcome("repository", got, again, login) = Repository(got)
           /\ Outcome("hacker news", got, again, login) = HackerNews(got)
           /\ Outcome("lobsters", got, again, login) = Lobsters(got)
           /\ Outcome("twitch channels", got, again, login) = TwitchChannels(got)
           /\ Outcome("twitch games", got, again, login) = TwitchGames(got)
           /\ Outcome("reddit", got, again, login) = Reddit(got, again, login)
           /\ Outcome("reddit app", got, again, login) = RedditApp(got, login)
           /\ Outcome("monitor", got, again, login) = Monitor(got)
           /\ Outcome("server stats", got, again, login) = ServerStats(got, again)
           /\ Outcome("change detection", got, again, login) = ChangeDetection(got)
           /\ Outcome("docker containers", got, again, login) = DockerContainers(got)
           /\ Outcome("adguard", got, again, login) = Adguard(got)
           /\ Outcome("pihole 5", got, again, login) = WithToken(got)
           /\ Outcome("pihole 6", got, again, login) = Pihole(got, again, login)
           /\ Outcome("open pihole 6", got, again, login) = OpenPihole(got)
           /\ Outcome("blocky", got, again, login) = Blocky(got)
           /\ Outcome("playing", got, again, login) = Playing(got)
           /\ Outcome("latest media", got, again, login) = LatestMedia(got, again)
           /\ Outcome("latest of all", got, again, login) = LatestOfAll(got, again)
           /\ Outcome("markets", got, again, login) = Markets(got)
           /\ Outcome("weather", got, again, login) = Weather(got)
           /\ Outcome("extension", got, again, login) = Extension(got)
           /\ Outcome("custom api", got, again, login) = CustomApi(got, login)
           /\ Outcome("home assistant", got, again, login) = HomeAssistant(got)
  BY DEF Outcome, TorrentClients

LEMMA OutcomeOfFamily ==
    ASSUME NEW kind, NEW got, NEW again, NEW login
    PROVE  /\ kind \in {"all", "containers", "images"} =>
                 Outcome(kind, got, again, login) = DockerController(kind, got)
           /\ kind \in TorrentClients =>
                 Outcome(kind, got, again, login) = Torrents(kind, got, again, login)
  BY DEF Outcome, TorrentClients

\* A round of a kind whose answers are of the plain sort.
PlainRound(kind, got, again, login, r) ==
    /\ kind \in Kinds \ Peculiar
    /\ DOMAIN got = Sources /\ \A s \in Sources : got[s] \in {"ok", "none", "down"}
    /\ DOMAIN again = Sources
    /\ kind = "pihole 6" => again[First] \in {"ok", "denied", "down"}
    /\ kind = "latest of all" => \A s \in Sources : again[s] \in {"ok", "none", "down"}
    /\ r = Outcome(kind, got, again, login)

LEMMA ResultIs ==
    ASSUME NEW err, NEW content_
    PROVE  Result(err, content_).err = err /\ Result(err, content_).shown = content_
  BY DEF Result

LEMMA NewestIs ==
    ASSUME NEW S, NEW s \in Sources PROVE Newest(S)[s] = IF s \in S THEN now[s] ELSE 0
  BY DEF Newest

LEMMA PlainKinds ==
    ASSUME NEW kind, NEW got, NEW again, NEW login, NEW r, PlainRound(kind, got, again, login, r)
    PROVE  RoundIsRight(kind, got, again, login, r)
<1>d. /\ DOMAIN got = Sources /\ \A s \in Sources : got[s] \in {"ok", "none", "down"}
      /\ kind \in Kinds \ Peculiar
  BY DEF PlainRound
<1>e. r = Outcome(kind, got, again, login)
  BY DEF PlainRound
<1>f. /\ DOMAIN again = Sources
      /\ kind = "pihole 6" => again[First] \in {"ok", "denied", "down"}
      /\ kind = "latest of all" => \A s \in Sources : again[s] \in {"ok", "none", "down"}
  BY DEF PlainRound
<1>a. PICK Down : Down = {s \in Sources : got[s] = "down"}
  OBVIOUS
<1>b. PICK Ok : Ok = {s \in Sources : got[s] = "ok"}
  OBVIOUS
<1>c. PICK Well \in BOOLEAN : Well <=> Healthy(kind, got, again, login)
  OBVIOUS
<1>1. Failing(got) = Down /\ Giving(got) = Ok
  BY <1>a, <1>b, <1>d DEF Failing, Giving, Failures
<1>0. Down \subseteq Sources /\ Ok \subseteq Sources
  BY <1>a, <1>b
<1>2. Well => (\A s \in Sources : got[s] = "ok") /\ login = "ok"
  <2>1. \A s \in Sources : ~Helped(kind, got, s)
    BY <1>d DEF Helped, Peculiar
  <2> QED BY <1>c, <1>d, <2>1 DEF Healthy
<1>3. Well => Down = {} /\ Ok = Sources
  BY <1>a, <1>b, <1>2
<1>4. First \in Sources /\ Parts /= {} /\ Parts \subseteq Sources /\ Sources = Parts \union {First} /\ First \notin Parts
  BY SourcesAssumption DEF Parts
\* Enough of a round that asks for what the kind shows.
<1>6. ASSUME NEW S, NEW asked, S = Ok \intersect asked \/ S = Ok, Shows(kind) \subseteq asked,
             r.shown = Newest(S),
             r.err = "nil" => Shows(kind) \intersect Down = {}
      PROVE  r.err = "nil" => IsCurrent(kind, got, again, r.shown)
  <2> SUFFICES ASSUME r.err = "nil" PROVE IsCurrent(kind, got, again, r.shown)
    OBVIOUS
  <2>1. ASSUME NEW s \in Shows(kind)
        PROVE  \/ r.shown[s] = now[s]
               \/ r.shown[s] = 0 /\ got[s] \in {"none", "emptied"}
    <3>1. s \in Sources /\ s \in asked /\ got[s] \in {"ok", "none"}
      BY <1>a, <1>d, <1>6, ShowsSources
    <3>2. r.shown[s] = IF s \in S THEN now[s] ELSE 0
      BY NewestIs, <1>6, <3>1
    <3>3. s \in S <=> got[s] = "ok"
      BY <1>b, <1>6, <3>1
    <3> QED BY <3>1, <3>2, <3>3
  <2> QED BY <2>1, ToldIsCurrent
<1>7. ASSUME NEW S, NEW asked, S = Ok \intersect asked \/ S = Ok, Shows(kind) \subseteq asked,
             r.shown = Newest(S),
             r.err = "nil" => Shows(kind) \intersect Down = {}, Well => r.err = "nil"
      PROVE  RoundIsRight(kind, got, again, login, r)
  <2>1. r.err = "nil" => IsCurrent(kind, got, again, r.shown)
    BY <1>6, <1>7
  <2> QED BY <1>c, <1>7, <2>1 DEF RoundIsRight
\* Those that ask all their sources.
<1>9. CASE kind \in {"releases", "twitch channels", "playing"}
  <2>1. r = Result(AllOrSome(Down, Sources), Newest(Ok))
    <3>1. ASSUME kind = "releases" PROVE r = Releases(got)
      BY <1>e, <3>1, OutcomeOfKind
    <3>2. ASSUME kind = "twitch channels" PROVE r = TwitchChannels(got)
      BY <1>e, <3>2, OutcomeOfKind
    <3>3. ASSUME kind = "playing" PROVE r = Playing(got)
      BY <1>e, <3>3, OutcomeOfKind
    <3>4. r = Releases(got) \/ r = TwitchChannels(got) \/ r = Playing(got)
      BY <1>9, <3>1, <3>2, <3>3
    <3> QED BY <1>1, <3>4 DEF Releases, TwitchChannels, Playing
  <2>2. r.err = AllOrSome(Down, Sources) /\ r.shown = Newest(Ok)
    BY ResultIs, <2>1
  <2>3. (r.err = "nil" => Down = {}) /\ (Well => r.err = "nil")
    BY <1>3, <1>4, <2>2, Errors
  <2> QED BY <1>7, <2>2, <2>3, ShowsSources
<1>10. CASE kind = "home assistant" \/ kind = "custom api"
  <2>1. r = Result(IF kind = "custom api" /\ login /= "ok" THEN "error" ELSE Strictly(Down), Newest(Ok))
    <3>1. CASE kind = "home assistant"
      <4>1. r = HomeAssistant(got)
        BY <1>e, <3>1, OutcomeOfKind
      <4> QED BY <1>1, <3>1, <4>1 DEF HomeAssistant
    <3>2. CASE kind = "custom api"
      <4>1. r = CustomApi(got, login)
        BY <1>e, <3>2, OutcomeOfKind
      <4> QED BY <1>1, <3>2, <4>1 DEF CustomApi
    <3> QED BY <1>10, <3>1, <3>2
  <2>2. /\ r.err = IF kind = "custom api" /\ login /= "ok" THEN "error" ELSE Strictly(Down)
        /\ r.shown = Newest(Ok)
    BY ResultIs, <2>1
  <2>3. (r.err = "nil" => Down = {}) /\ (Well => r.err = "nil")
    BY <1>2, <1>3, <2>2, Errors
  <2> QED BY <1>7, <2>2, <2>3, ShowsSources
<1>11. CASE kind = "markets"
  <2>1. r = Result(AllOrSome(Sources \ Ok, Sources), Newest(Ok))
    BY <1>e, <1>1, <1>11, OutcomeOfKind DEF Markets, Useful
  <2>2. r.err = AllOrSome(Sources \ Ok, Sources) /\ r.shown = Newest(Ok)
    BY ResultIs, <2>1
  <2>3. r.err = "nil" => Sources \subseteq Ok
    BY <2>2, Errors
  <2>4. r.err = "nil" => Down = {}
    BY <2>3, <1>a, <1>b
  <2>5. Well => r.err = "nil"
    BY <1>3, <1>4, <2>2, Errors
  <2> QED BY <1>7, <2>2, <2>4, <2>5, ShowsSources
\* Those whose first source has to answer, and the others may fail.
<1>12. CASE kind \in {"repository", "blocky", "open pihole 6"}
  <2>1. /\ First \in Down => r.err /= "nil" /\ r.shown = Newest({})
        /\ First \notin Down => /\ r.err = (IF Down = {} THEN "nil" ELSE "partial")
                                /\ r.shown = Newest(Ok)
    <3>1. Newest({}) = Blank
      BY DEF Newest, Blank
    <3>2. ASSUME kind = "repository" PROVE r = Repository(got)
      BY <1>e, <3>2, OutcomeOfKind
    <3>3. ASSUME kind = "blocky" PROVE r = Summary(got)
      BY <1>e, <3>3, OutcomeOfKind DEF Blocky
    <3>4. ASSUME kind = "open pihole 6" PROVE r = Summary(got)
      BY <1>e, <3>4, OutcomeOfKind DEF OpenPihole
    <3>5. r = Repository(got) \/ r = Summary(got)
      BY <1>12, <3>2, <3>3, <3>4
    <3>6. CASE First \in Down
      <4>1. PICK err : r = Result(err, Blank) /\ (err = "no content" \/ err = "error")
        BY <1>1, <3>5, <3>6 DEF Repository, Summary
      <4>2. r.err /= "nil" /\ r.shown = Blank
        BY <4>1, ResultIs
      <4> QED BY <3>1, <3>6, <4>2
    <3>7. CASE First \notin Down
      <4>1. PICK err : err = IF Down = {} THEN "nil" ELSE "partial"
        OBVIOUS
      <4>2. r = Result(err, Newest(Ok))
        BY <1>1, <3>5, <3>7, <4>1 DEF Repository, Summary
      <4> QED BY <3>7, <4>1, <4>2, ResultIs
    <3> QED BY <3>6, <3>7
  <2>2. (r.err = "nil" => Down = {} /\ r.shown = Newest(Ok)) /\ (Well => r.err = "nil")
    BY <1>3, <2>1
  <2>3. r.err = "nil" => IsCurrent(kind, got, again, r.shown)
    BY <1>6, <2>2, ShowsSources
  <2> QED BY <2>2, <2>3, <1>c DEF RoundIsRight
<1>13. CASE kind = "pihole 6"
  <2>1. /\ ~InSession(again, login) => r.err = "error"
        /\ InSession(again, login) => r.err = Summary(got).err /\ r.shown = Summary(got).shown
    <3>1. r = Pihole(got, again, login)
      BY <1>e, <1>13, OutcomeOfKind
    <3>2. CASE ~InSession(again, login)
      BY <3>1, <3>2, ResultIs DEF Pihole
    <3>3. CASE InSession(again, login)
      <4>1. PICK err, content_ : Summary(got) = Result(err, content_)
        BY DEF Summary
      <4>2. r = [Result(err, content_) EXCEPT !.token =
                    IF Result(err, content_).err = "nil" THEN "good" ELSE @]
        BY <3>1, <3>3, <4>1 DEF Pihole
      <4>3. r.err = err /\ r.shown = content_
        BY <4>2 DEF Result
      <4> QED BY <3>3, <4>1, <4>3, ResultIs
    <3> QED BY <3>2, <3>3
  <2>2. Summary(got).err = "nil" => Down = {} /\ Summary(got).shown = Newest(Ok)
    BY <1>1, ResultIs DEF Summary
  <2>3. Down = {} => Summary(got).err = "nil"
    BY <1>1, ResultIs DEF Summary
  <2>4. Well => InSession(again, login)
    <3>1. Well => again[First] /= "down" /\ login = "ok"
      BY <1>2, <1>13, <1>c DEF Healthy
    <3>2. again[First] \in {"ok", "denied", "down"}
      BY <1>13, <1>f
    <3> QED BY <3>1, <3>2 DEF InSession
  <2>5. (r.err = "nil" => Down = {} /\ r.shown = Newest(Ok)) /\ (Well => r.err = "nil")
    BY <1>3, <2>1, <2>2, <2>3, <2>4
  <2>6. r.err = "nil" => IsCurrent(kind, got, again, r.shown)
    BY <1>6, <2>5, ShowsSources
  <2> QED BY <2>5, <2>6, <1>c DEF RoundIsRight
<1>14. CASE kind = "hacker news"
  <2>1. r = IF First \notin Ok \/ Parts \ Down = {} THEN Result("no content", Blank)
            ELSE Result(IF Parts \ Down /= Parts THEN "partial" ELSE "nil", Newest(Ok))
    <3>1. r = HackerNews(got)
      BY <1>e, <1>14, OutcomeOfKind
    <3> QED BY <1>1, <1>4, <1>b, <3>1 DEF HackerNews
  <2>2. /\ r.err = "nil" => First \in Ok /\ Parts \ Down = Parts /\ r.shown = Newest(Ok)
        /\ First \in Ok /\ Down = {} => r.err = "nil"
    <3>1. First \in Ok /\ Parts \ Down /= {} =>
             r = Result(IF Parts \ Down /= Parts THEN "partial" ELSE "nil", Newest(Ok))
      BY <2>1
    <3>2. ~(First \in Ok /\ Parts \ Down /= {}) => r = Result("no content", Blank)
      BY <2>1
    <3>3. /\ First \in Ok /\ Parts \ Down /= {} =>
                r.err = (IF Parts \ Down /= Parts THEN "partial" ELSE "nil") /\ r.shown = Newest(Ok)
          /\ ~(First \in Ok /\ Parts \ Down /= {}) => r.err = "no content"
      <4>1. CASE First \in Ok /\ Parts \ Down /= {}
        BY <3>1, <4>1, ResultIs
      <4>2. CASE ~(First \in Ok /\ Parts \ Down /= {})
        <5>1. r = Result("no content", Blank)
          BY <3>2, <4>2
        <5>2. r.err = "no content"
          BY <5>1, ResultIs
        <5> QED BY <4>2, <5>2
      <4> QED BY <4>1, <4>2
    <3> QED BY <1>4, <3>3
  <2>3. (r.err = "nil" => Down = {}) /\ (Well => r.err = "nil")
    BY <1>3, <1>4, <2>2, <1>a, <1>b
  <2>4. r.err = "nil" => IsCurrent(kind, got, again, r.shown)
    BY <1>6, <2>2, <2>3, ShowsSources
  <2> QED BY <2>3, <2>4, <1>c DEF RoundIsRight
\* Those that show one source.
<1>15. CASE kind \in {"twitch games", "docker containers", "adguard", "pihole 5"}
  <2>1. Shows(kind) = {First}
    BY <1>15 DEF Shows
  <2>2. /\ kind = "pihole 5" /\ widget.token = "none" => r.err = "error"
        /\ ~(kind = "pihole 5" /\ widget.token = "none") =>
              r.err = Strictly(Down \intersect {First}) /\ r.shown = Newest(Ok \intersect {First})
    <3>1. ASSUME kind = "twitch games" PROVE r = OnlyFirst(got)
      BY <1>e, <3>1, OutcomeOfKind DEF TwitchGames
    <3>2. ASSUME kind = "docker containers" PROVE r = OnlyFirst(got)
      BY <1>e, <3>2, OutcomeOfKind DEF DockerContainers
    <3>3. ASSUME kind = "adguard" PROVE r = OnlyFirst(got)
      BY <1>e, <3>3, OutcomeOfKind DEF Adguard
    <3>4. ASSUME kind = "pihole 5" PROVE r = WithToken(got)
      BY <1>e, <3>4, OutcomeOfKind
    <3>5. CASE kind = "pihole 5" /\ widget.token = "none"
      <4>1. r = Result("error", Blank)
        BY <3>4, <3>5 DEF WithToken
      <4> QED BY <3>5, <4>1, ResultIs
    <3>6. CASE ~(kind = "pihole 5" /\ widget.token = "none")
      <4>1. r = OnlyFirst(got)
        BY <1>15, <3>1, <3>2, <3>3, <3>4, <3>6 DEF WithToken
      <4>2. r = Result(Strictly(Down \intersect {First}), Newest(Ok \intersect {First}))
        BY <1>1, <4>1 DEF OnlyFirst
      <4>3. PICK err, content_ : err = Strictly(Down \intersect {First}) /\ content_ = Newest(Ok \intersect {First})
        OBVIOUS
      <4>4. r.err = err /\ r.shown = content_
        BY <4>2, <4>3, ResultIs
      <4> QED BY <3>6, <4>3, <4>4
    <3> QED BY <3>5, <3>6
  <2>3. Well => ~(kind = "pihole 5" /\ widget.token = "none")
    BY <1>c DEF Healthy
  <2>4. (r.err = "nil" => Down \intersect {First} = {} /\ r.shown = Newest(Ok \intersect {First}))
        /\ (Well => r.err = "nil")
    BY <1>3, <2>2, <2>3, Errors
  <2>5. r.err = "nil" => IsCurrent(kind, got, again, r.shown)
    BY <1>6, <2>1, <2>4
  <2> QED BY <2>4, <2>5, <1>c DEF RoundIsRight
<1>16. CASE kind = "lobsters" \/ kind = "extension"
  <2>1. Shows(kind) = {First}
    BY <1>16 DEF Shows
  <2>2. /\ r.err = "nil" => First \notin Down /\ r.shown = Newest({First})
        /\ First \in Ok => r.err = "nil"
    <3>1. First \in Ok => First \notin Down
      BY <1>a, <1>b
    <3>2. CASE kind = "lobsters"
      <4>1. r = Lobsters(got) /\ (got[First] = "ok" <=> First \in Ok)
        BY <1>e, <1>4, <1>b, <3>2, OutcomeOfKind
      <4>2. r = IF First \in Ok THEN Result("nil", Newest({First})) ELSE Result("no content", Blank)
        BY <4>1 DEF Lobsters
      <4>3. CASE First \in Ok
        <5>1. r = Result("nil", Newest({First}))
          BY <4>2, <4>3
        <5>2. r.err = "nil" /\ r.shown = Newest({First})
          BY <5>1, ResultIs
        <5> QED BY <3>1, <4>3, <5>2
      <4>4. CASE First \notin Ok
        <5>1. r = Result("no content", Blank)
          BY <4>2, <4>4
        <5>2. r.err = "no content"
          BY <5>1, ResultIs
        <5> QED BY <4>4, <5>2
      <4> QED BY <4>3, <4>4
    <3>3. CASE kind = "extension"
      <4>1. r = Extension(got)
        BY <1>e, <3>3, OutcomeOfKind
      <4>2. r = IF First \in Down THEN Result("no content", Blank) ELSE Result("nil", Newest({First}))
        BY <1>1, <4>1 DEF Extension
      <4>3. CASE First \in Down
        <5>1. r = Result("no content", Blank)
          BY <4>2, <4>3
        <5>2. r.err = "no content"
          BY <5>1, ResultIs
        <5> QED BY <3>1, <4>3, <5>2
      <4>4. CASE First \notin Down
        <5>1. r = Result("nil", Newest({First}))
          BY <4>2, <4>4
        <5>2. r.err = "nil" /\ r.shown = Newest({First})
          BY <5>1, ResultIs
        <5> QED BY <4>4, <5>2
      <4> QED BY <4>3, <4>4
    <3> QED BY <1>16, <3>2, <3>3
  <2>3. Well => r.err = "nil"
    BY <1>3, <1>4, <2>2
  <2>4. r.err = "nil" => IsCurrent(kind, got, again, r.shown)
    BY <1>4, NewestIs, <2>1, <2>2, ToldIsCurrent
  <2> QED BY <2>3, <2>4, <1>c DEF RoundIsRight
<1>17. CASE kind = "reddit"
  <2> DEFINE api == GuestToken(login) /= "none" /\ First \notin Down
  <2>1. /\ r.err = "nil" <=> api \/ again[First] = "ok"
        /\ r.shown = Newest((IF api THEN Ok ELSE Giving(again)) \intersect {First})
    <3>1. r = Reddit(got, again, login)
      BY <1>e, <1>17, OutcomeOfKind
    <3> QED BY <1>1, <3>1 DEF Reddit
  <2>2. again[First] = "ok" => First \in Giving(again)
    BY <1>4, <1>f DEF Giving
  <2>3. Well => api
    BY <1>2, <1>3 DEF GuestToken
  <2>4. Shows(kind) = {First}
    BY <1>17 DEF Shows
  <2>5. First \in Ok \/ got[First] = "none" \/ First \in Down
    BY <1>4, <1>a, <1>b, <1>d
  <2>6. r.err = "nil" => \/ r.shown[First] = now[First]
                         \/ r.shown[First] = 0 /\ got[First] \in {"none", "emptied"}
    BY <1>4, NewestIs, <2>1, <2>2, <2>5
  <2>7. r.err = "nil" => IsCurrent(kind, got, again, r.shown)
    BY <2>4, <2>6, ToldIsCurrent
  <2>8. Well => r.err = "nil"
    BY <2>1, <2>3
  <2> QED BY <2>7, <2>8, <1>c DEF RoundIsRight
<1>18. CASE kind = "reddit app"
  <2>1. /\ r.shown = Newest(Ok \intersect {First})
        /\ r.err = "nil" => First \notin Down
        /\ login = "ok" /\ First \notin Down => r.err = "nil"
    <3>1. r = RedditApp(got, login)
      BY <1>e, <1>18, OutcomeOfKind
    <3> QED BY <1>1, <3>1 DEF RedditApp
  <2>2. Shows(kind) = {First}
    BY <1>18 DEF Shows
  <2>3. Well => r.err = "nil"
    BY <1>2, <1>3, <2>1
  <2> QED BY <1>7, <2>1, <2>2, <2>3
\* Those that show a failure as such.
<1>19. CASE kind = "monitor" \/ kind = "latest media"
  <2>1. r = Monitor(got) \/ r = LatestMedia(got, again)
    <3>1. ASSUME kind = "monitor" PROVE r = Monitor(got)
      BY <1>e, <3>1, OutcomeOfKind
    <3>2. ASSUME kind = "latest media" PROVE r = LatestMedia(got, again)
      BY <1>e, <3>2, OutcomeOfKind
    <3> QED BY <1>19, <3>1, <3>2
  <2>2. PICK S, err : /\ r = Result(err, Newest(S))
                      /\ err = "nil" \/ err = AllOrSome(Down, Sources)
    BY <1>1, <2>1 DEF Monitor, LatestMedia
  <2>5. r.shown = Newest(S) /\ (Well => r.err = "nil")
    BY <1>3, <1>4, <2>2, ResultIs, Errors
  <2>3. kind \in ShowsFailures
    BY <1>19 DEF ShowsFailures
  <2>4. IsCurrent(kind, got, again, r.shown)
    BY NewestIs, <2>5, <2>3, ShowsSources DEF IsCurrent
  <2> QED BY <2>5, <2>4, <1>c DEF RoundIsRight
<1>20. CASE kind = "latest of all"
  <2> DEFINE g == [s \in Sources |-> IF got[s] = "ok" THEN again[s] ELSE got[s]]
  <2>1. r = Result(AllOrSome(Failing(g), Sources), Newest(Giving(g) \intersect Giving(again)))
    <3>1. r = LatestOfAll(got, again)
      BY <1>e, <1>20, OutcomeOfKind
    <3> QED BY <3>1 DEF LatestOfAll, LatestMedia
  <2>2. r.err = AllOrSome(Failing(g), Sources) /\ r.shown = Newest(Giving(g) \intersect Giving(again))
    BY ResultIs, <2>1
  <2>3. \A s \in Sources : g[s] \in {"ok", "none", "down"} /\ again[s] \in {"ok", "none", "down"}
    BY <1>20, <1>d, <1>f
  <2>4. /\ Failing(g) = {s \in Sources : g[s] = "down"}
        /\ Giving(g) = {s \in Sources : g[s] = "ok"}
        /\ Giving(again) = {s \in Sources : again[s] = "ok"}
    <3>1. DOMAIN g = Sources /\ DOMAIN again = Sources
      BY <1>f
    <3> HIDE DEF g
    <3> QED BY <2>3, <3>1 DEF Failing, Giving, Failures
  <2>5. r.err = "nil" => \A s \in Sources : \/ r.shown[s] = now[s]
                                            \/ r.shown[s] = 0 /\ (got[s] = "none" \/ again[s] = "none")
    <3> SUFFICES ASSUME r.err = "nil", NEW s \in Sources
                 PROVE  \/ r.shown[s] = now[s]
                        \/ r.shown[s] = 0 /\ (got[s] = "none" \/ again[s] = "none")
      OBVIOUS
    <3>1. Failing(g) = {}
      BY <2>2, Errors
    <3>2. g[s] # "down" /\ g[s] = IF got[s] = "ok" THEN again[s] ELSE got[s]
      BY <2>4, <3>1
    <3>3. r.shown[s] = IF g[s] = "ok" /\ again[s] = "ok" THEN now[s] ELSE 0
      BY NewestIs, <2>2, <2>4
    <3> HIDE DEF g
    <3> QED BY <2>3, <3>2, <3>3
  <2>6. r.err = "nil" => IsCurrent(kind, got, again, r.shown)
    BY <2>5, ToldIsCurrent, ShowsSources
  <2>7. Well => r.err = "nil"
    <3>1. Well => \A s \in Sources : got[s] = "ok" /\ again[s] = "ok"
      BY <1>2, <1>20, <1>c DEF Healthy, Helped
    <3>2. Well => Failing(g) = {}
      BY <2>4, <3>1
    <3> QED BY <1>4, <2>2, <3>2, Errors
  <2> QED BY <2>6, <2>7, <1>c DEF RoundIsRight
\* Those that show what the first one lists, or the one that finds it.
<1>21. CASE kind = "change detection"
  <2>1. Shows(kind) = Parts
    BY <1>21 DEF Shows
  <2>2. CASE widget.kept[First] = 1 \/ First \in Ok
    <3>1. r = Watches(got)
      <4>1. r = ChangeDetection(got)
        BY <1>e, <1>21, OutcomeOfKind
      <4> QED BY <1>4, <1>b, <2>2, <4>1 DEF ChangeDetection
    <3>2. r.err = AllOrSome(Down \intersect Parts, Parts) /\ r.shown = Newest(Ok \intersect Parts)
      BY <1>1, <3>1 DEF Watches, Result
    <3>3. (r.err = "nil" => Parts \intersect Down = {}) /\ (Well => r.err = "nil")
      BY <1>3, <1>4, <3>2, Errors
    <3> QED BY <1>7, <2>1, <3>2, <3>3
  <2>3. CASE ~(widget.kept[First] = 1 \/ First \in Ok)
    <3>1. r = Result(Strictly(Down \intersect {First}), Blank)
      <4>1. r = ChangeDetection(got)
        BY <1>e, <1>21, OutcomeOfKind
      <4> QED BY <1>1, <1>4, <1>b, <2>3, <4>1 DEF ChangeDetection
    <3>2. r.err = Strictly(Down \intersect {First}) /\ \A s \in Sources : r.shown[s] = 0
      BY ResultIs, <3>1 DEF Blank
    <3>3. r.err = "nil" => got[First] = "none"
      <4>1. r.err = "nil" => Down \intersect {First} = {}
        BY <3>2, Errors
      <4>2. First \in Sources /\ First \notin Ok /\ got[First] \in {"ok", "none", "down"}
        BY <1>4, <1>d, <2>3
      <4> QED BY <4>1, <4>2, <1>a, <1>b
    <3>4. r.err = "nil" => IsCurrent(kind, got, again, r.shown)
      BY <1>4, <2>1, <3>2, <3>3 DEF IsCurrent, Said
    <3>5. ~Well
      BY <1>3, <1>4, <2>3
    <3> QED BY <3>4, <3>5, <1>c DEF RoundIsRight
  <2> QED BY <2>2, <2>3
<1>22. CASE kind = "weather"
  <2>1. Shows(kind) = Parts
    BY <1>22 DEF Shows
  <2>2. /\ r.err = "nil" => r.shown = Newest(Parts)
        /\ First \in Ok /\ Down \intersect Parts = {} => r.err = "nil"
    <3>1. r = Weather(got)
      BY <1>e, <1>22, OutcomeOfKind
    <3>2. CASE ~(widget.kept[First] = 1 \/ First \in Ok)
      <4>1. r = Result("early", Blank)
        BY <1>4, <1>b, <3>1, <3>2 DEF Weather
      <4> QED BY <3>2, <4>1, ResultIs
    <3>3. CASE widget.kept[First] = 1 \/ First \in Ok
      <4>1. PICK res, err : /\ res = Result(err, Newest(Parts))
                            /\ err = IF Down \intersect Parts = {} THEN "nil" ELSE "no content"
        OBVIOUS
      <4>2. r = [res EXCEPT !.kept = [widget.kept EXCEPT ![First] = 1]]
        BY <1>1, <1>4, <1>b, <3>1, <3>3, <4>1 DEF Weather
      <4>3. r.err = err /\ r.shown = Newest(Parts)
        BY <4>1, <4>2 DEF Result
      <4> QED BY <4>1, <4>3
    <3> QED BY <3>2, <3>3
  <2>3. r.err = "nil" => IsCurrent(kind, got, again, r.shown)
    BY <1>4, NewestIs, <2>1, <2>2, ToldIsCurrent
  <2>4. Well => r.err = "nil"
    BY <1>3, <1>4, <2>2
  <2> QED BY <2>3, <2>4, <1>c DEF RoundIsRight
<1>23. CASE kind \in {"all", "containers", "images"}
  <2> DEFINE asked == (IF kind = "images" THEN {} ELSE {First}) \union (IF kind = "containers" THEN {} ELSE Parts)
  <2>1. r = Result(Strictly(Down \intersect asked), Newest(Ok \intersect asked))
    <3>1. r = DockerController(kind, got)
      BY <1>e, <1>23, OutcomeOfFamily
    <3> QED BY <1>1, <3>1 DEF DockerController
  <2>2. r.err = Strictly(Down \intersect asked) /\ r.shown = Newest(Ok \intersect asked)
    BY ResultIs, <2>1
  <2>3. Shows(kind) = asked
    BY <1>4, <1>23 DEF Shows
  <2> HIDE DEF asked
  <2>4. (r.err = "nil" => Shows(kind) \intersect Down = {}) /\ (Well => r.err = "nil")
    BY <1>3, <2>2, <2>3, Errors
  <2> QED BY <1>7, <2>2, <2>3, <2>4
<1> QED
  BY <1>9, <1>10, <1>11, <1>12, <1>13, <1>14, <1>15, <1>16, <1>17, <1>18, <1>19, <1>20, <1>21, <1>22,
     <1>23, <1>d DEF Kinds, Peculiar

--------------------------------------------------------------------------------
\* The kinds that ask again, or keep what they got.
LEMMA FeedShows ==
    ASSUME NEW answer, answer \in {"ok", "plain", "none", "emptied", "unchanged"},
           NEW old, NEW new, NEW zero, NEW x, NEW m,
           answer = "unchanged" => x = old,
           answer /= "unchanged" => x = m,
           answer \in {"ok", "plain"} => m = new,
           answer \notin {"ok", "plain"} => m = zero,
           answer = "unchanged" => old = new
    PROVE  x = new \/ (x = zero /\ answer \in {"none", "emptied"})
<1>1. CASE answer = "unchanged"
  BY <1>1
<1>2. CASE answer \in {"ok", "plain"}
  BY <1>2
<1>3. CASE answer \in {"none", "emptied"}
  BY <1>3
<1> QED BY <1>1, <1>2, <1>3

LEMMA RssIsRight ==
    ASSUME NEW got, DOMAIN got = Sources,
           \A s \in Sources : got[s] \in {"ok", "plain", "none", "emptied", "unchanged", "down"},
           Truthful(got), NEW again, NEW login
    PROVE  RoundIsRight("rss", got, again, login, Rss(got))
<1>1. PICK r : r = Rss(got)
  OBVIOUS
<1>2. r.err = AllOrSome(Failing(got), Sources) /\ r.shown = RssItems(got)
  BY <1>1 DEF Rss
<1>3. \A s \in Sources : /\ s \in Failing(got) <=> got[s] = "down"
                         /\ s \in Giving(got) <=> got[s] \in {"ok", "plain"}
  BY DEF Failing, Giving, Failures
<1>4. ASSUME NEW s \in Sources, got[s] /= "down"
      PROVE  RssItems(got)[s] = now[s] \/ (RssItems(got)[s] = 0 /\ got[s] \in {"none", "emptied"})
  <2>1. PICK answer, x, m, old, new : /\ answer = got[s] /\ x = RssItems(got)[s]
                                      /\ m = Newest(Giving(got))[s]
                                      /\ old = widget.kept[s] /\ new = now[s]
    OBVIOUS
  <2>2. x = IF answer = "unchanged" THEN old ELSE m
    BY <2>1 DEF RssItems, Over
  <2>3. m = IF answer \in {"ok", "plain"} THEN new ELSE 0
    BY <1>3, <2>1, NewestIs
  <2>4. answer = "unchanged" => old = new
    BY <2>1 DEF Truthful
  <2>5. answer \in {"ok", "plain", "none", "emptied", "unchanged"}
    BY <1>4, <2>1
  <2>6. answer = "unchanged" => x = old
    BY <2>2
  <2>7. answer /= "unchanged" => x = m
    BY <2>2
  <2>8. answer \in {"ok", "plain"} => m = new
    BY <2>3
  <2>9. answer \notin {"ok", "plain"} => m = 0
    BY <2>3
  <2>10. x = new \/ (x = 0 /\ answer \in {"none", "emptied"})
    BY <2>4, <2>5, <2>6, <2>7, <2>8, <2>9, FeedShows
  <2> QED BY <2>1, <2>10
<1>5. ASSUME r.err = "nil" PROVE IsCurrent("rss", got, again, r.shown)
  <2>1. Failing(got) = {}
    BY <1>2, <1>5, Errors
  <2>2. \A s \in Sources : got[s] /= "down"
    BY <1>3, <2>1
  <2> QED BY <1>2, <1>4, <2>2, ToldIsCurrent, ShowsSources
<1>6. ASSUME Healthy("rss", got, again, login) PROVE r.err = "nil"
  <2>1. \A s \in Sources : got[s] /= "down"
    BY <1>6 DEF Healthy, Helped
  <2>2. Failing(got) = {}
    BY <2>1 DEF Failing, Failures
  <2> QED BY <1>2, <2>2, SourcesAssumption, Errors
<1> QED BY <1>1, <1>5, <1>6 DEF RoundIsRight

LEMMA VideosAreRight ==
    ASSUME RoundsTypeOK, NEW got, DOMAIN got = Sources,
           \A s \in Sources : got[s] \in {"ok", "none", "missing", "down"},
           NEW again, \A s \in Sources : again[s] \in {"ok", "none", "down"}, NEW login
    PROVE  RoundIsRight("videos", got, again, login, Videos(got, again))
<1>1. PICK r : r = Videos(got, again)
  OBVIOUS
<1>2. PICK latest : latest = ChannelAnswers(got, again)
  OBVIOUS
<1>3. PICK videos : videos = ChannelVideos(latest)
  OBVIOUS
<1>4. /\ r.err = IF videos = Blank THEN "no content" ELSE IF Failing(latest) /= {} THEN "partial" ELSE "nil"
      /\ r.shown = videos
  BY <1>1, <1>2, <1>3 DEF Videos
<1>5. /\ DOMAIN latest = Sources
      /\ \A s \in Sources : latest[s] = IF got[s] = "missing" THEN again[s] ELSE got[s]
  BY <1>2 DEF ChannelAnswers
<1>6. \A s \in Sources : latest[s] \in {"ok", "none", "down"}
  BY <1>5
<1>7. \A s \in Sources : /\ s \in Failing(latest) <=> latest[s] = "down"
                         /\ s \in Giving(latest) <=> latest[s] = "ok"
  BY <1>5, <1>6 DEF Failing, Giving, Failures
<1>8. ASSUME NEW s \in Sources, latest[s] /= "down"
      PROVE  videos[s] = IF latest[s] = "ok" THEN now[s] ELSE 0
  <2>1. videos[s] = Newest(Giving(latest))[s]
    BY <1>3, <1>7, <1>8 DEF ChannelVideos, Over
  <2> QED BY <1>7, <2>1, NewestIs
<1>9. ASSUME r.err = "nil" PROVE IsCurrent("videos", got, again, r.shown)
  <2>1. Failing(latest) = {}
    BY <1>4, <1>9
  <2>2. ASSUME NEW s \in Sources
        PROVE  \/ r.shown[s] = now[s]
               \/ r.shown[s] = 0 /\ (got[s] \in {"none", "emptied"} \/ again[s] \in {"none", "emptied"})
    <3>1. latest[s] /= "down"
      BY <1>7, <2>1
    <3> QED BY <1>4, <1>5, <1>6, <1>8, <3>1
  <2> QED BY <2>2, ToldIsCurrent, ShowsSources
<1>10. ASSUME Healthy("videos", got, again, login) PROVE r.err = "nil"
  <2>1. \A s \in Sources : latest[s] = "ok"
    BY <1>5, <1>10 DEF Healthy, Helped
  <2>2. Failing(latest) = {}
    BY <1>5, <2>1 DEF Failing, Failures
  <2>3. videos /= Blank
    <3>1. videos[First] = now[First] /\ First \in Sources
      BY <1>8, <2>1, SourcesAssumption
    <3>2. now[First] /= 0 /\ Blank[First] = 0
      BY <3>1 DEF RoundsTypeOK, Blank
    <3> QED BY <3>1, <3>2
  <2> QED BY <1>4, <2>2, <2>3
<1> QED BY <1>1, <1>9, <1>10 DEF RoundIsRight

LEMMA ServerStatsAreRight ==
    ASSUME NEW got, NEW again, NEW login
    PROVE  RoundIsRight("server stats", got, again, login, ServerStats(got, again))
<1>1. PICK r : r = ServerStats(got, again)
  OBVIOUS
<1>2. PICK S : r.err = "nil" /\ r.shown = Newest(S)
  BY <1>1 DEF ServerStats
<1>3. \A s \in Sources : r.shown[s] = now[s] \/ r.shown[s] = 0
  BY <1>2, NewestIs
<1>4. IsCurrent("server stats", got, again, r.shown)
  BY <1>3, ShowsSources DEF IsCurrent, ShowsFailures
<1> QED BY <1>1, <1>2, <1>4 DEF RoundIsRight

LEMMA TorrentsAreRight ==
    ASSUME NEW client \in TorrentClients, NEW got, DOMAIN got = Sources,
           client = "transmission" => \A s \in Sources : got[s] \in {"ok", "none", "conflict", "down"},
           client /= "transmission" => \A s \in Sources : got[s] \in {"ok", "none", "denied", "down"},
           NEW again, \A s \in Sources : again[s] \in {"ok", "none", "down"}, NEW login
    PROVE  RoundIsRight(client, got, again, login, Torrents(client, got, again, login))
<1>1. PICK r : r = Torrents(client, got, again, login)
  OBVIOUS
<1>2. PICK g : g = [s \in Sources |-> TorrentAnswer(client, got[s], again[s], login)]
  OBVIOUS
<1>3. r.err = AllOrSome(Failing(g), Sources) /\ r.shown = Newest(Giving(g))
  <2>1. r = Result(AllOrSome(Failing(g), Sources), Newest(Giving(g)))
    BY <1>1, <1>2 DEF Torrents, Playing
  <2> QED BY <2>1, ResultIs
<1>4. ASSUME NEW s \in Sources
      PROVE  /\ g[s] \in {"ok", "none", "down"}
             /\ g[s] = "none" => got[s] = "none" \/ again[s] = "none"
  <2>1. g[s] = TorrentAnswer(client, got[s], again[s], login)
    BY <1>2
  <2>2. /\ client = "transmission" => g[s] = IF got[s] = "conflict" THEN again[s] ELSE got[s]
        /\ client /= "transmission" =>
              g[s] = IF got[s] = "denied" THEN IF login = "ok" THEN again[s] ELSE "down" ELSE got[s]
    BY <2>1 DEF TorrentAnswer
  <2> QED BY <2>2
<1>5. DOMAIN g = Sources
  BY <1>2
<1>6. \A s \in Sources : /\ s \in Failing(g) <=> g[s] = "down"
                         /\ s \in Giving(g) <=> g[s] = "ok"
  BY <1>4, <1>5 DEF Failing, Giving, Failures
<1>7. ASSUME r.err = "nil" PROVE IsCurrent(client, got, again, r.shown)
  <2>1. Failing(g) = {}
    BY <1>3, <1>7, Errors
  <2>2. ASSUME NEW s \in Sources
        PROVE  \/ r.shown[s] = now[s]
               \/ r.shown[s] = 0 /\ (got[s] \in {"none", "emptied"} \/ again[s] \in {"none", "emptied"})
    <3>1. g[s] /= "down"
      BY <1>6, <2>1
    <3>2. r.shown[s] = IF g[s] = "ok" THEN now[s] ELSE 0
      BY <1>3, <1>6, NewestIs
    <3> QED BY <1>4, <3>1, <3>2
  <2> QED BY <2>2, ToldIsCurrent, ShowsSources
<1>8. ASSUME Healthy(client, got, again, login) PROVE r.err = "nil"
  <2>1. ASSUME NEW s \in Sources PROVE g[s] = "ok"
    <3>1. g[s] = TorrentAnswer(client, got[s], again[s], login)
      BY <1>2
    <3>2. login = "ok"
      BY <1>8 DEF Healthy
    <3>3. \/ got[s] = "ok"
          \/ client = "transmission" /\ got[s] = "conflict" /\ again[s] = "ok"
          \/ client /= "transmission" /\ got[s] = "denied" /\ again[s] = "ok"
      BY <1>8 DEF Healthy, Helped, TorrentClients
    <3> QED BY <3>1, <3>2, <3>3 DEF TorrentAnswer
  <2>2. Failing(g) = {}
    BY <1>5, <2>1 DEF Failing, Failures
  <2> QED BY <1>3, <2>2, SourcesAssumption, Errors
<1> QED BY <1>1, <1>7, <1>8 DEF RoundIsRight

LEMMA RoundsAreRight ==
    ASSUME RoundsTypeOK, NEW kind, kind = widget.kind, NEW got \in FirstRounds(kind),
           NEW again \in Again(kind, got), NEW login
    PROVE  RoundIsRight(kind, got, again, login, Outcome(kind, got, again, login))
<1>1. kind \in Kinds
  BY DEF RoundsTypeOK
<1>2. DOMAIN got = Sources /\ (\A s \in Sources : got[s] \in FirstAnswers[kind]) /\ Truthful(got)
  BY DEF FirstRounds
<1>3. kind /= "pihole 6" => /\ DOMAIN again = Sources
                            /\ \A s \in Sources : again[s] \in MoreAnswers[kind] \union {"ok"}
  BY DEF Again
<1>4. kind = "pihole 6" => DOMAIN again = Sources /\ again[First] \in {"ok", "denied", "down"}
  <2> SUFFICES ASSUME kind = "pihole 6"
               PROVE  DOMAIN again = Sources /\ again[First] \in {"ok", "denied", "down"}
    OBVIOUS
  <2>1. PICK answer \in Checks : again = [AllWell EXCEPT ![First] = answer]
    BY DEF Again
  <2>2. answer \in {"ok", "denied", "down"}
    BY MoreAnswersAre DEF Checks
  <2> QED BY <2>1, <2>2, SourcesAssumption DEF AllWell
<1>5. kind \in {"videos", "qbittorrent", "deluge", "transmission", "latest of all"} =>
          \A s \in Sources : again[s] \in {"ok", "none", "down"}
  BY <1>3, MoreAnswersAre
<1>6. CASE kind \in Kinds \ Peculiar
  <2>1. \A s \in Sources : got[s] \in {"ok", "none", "down"}
    BY <1>2, <1>6, FirstAnswersAre
  <2>2. DOMAIN again = Sources
    BY <1>3, <1>4
  <2>3. PICK r : r = Outcome(kind, got, again, login)
    OBVIOUS
  <2>4. PlainRound(kind, got, again, login, r)
    BY <1>2, <1>4, <1>5, <1>6, <2>1, <2>2, <2>3 DEF PlainRound
  <2> QED BY <2>3, <2>4, PlainKinds
<1>7. CASE kind = "rss"
  <2>1. \A s \in Sources : got[s] \in {"ok", "plain", "none", "emptied", "unchanged", "down"}
    BY <1>2, <1>7, FirstAnswersAre
  <2>2. RoundIsRight("rss", got, again, login, Rss(got))
    BY <1>2, <2>1, RssIsRight
  <2>3. Outcome("rss", got, again, login) = Rss(got)
    BY OutcomeOfKind
  <2> QED BY <1>7, <2>2, <2>3
<1>8. CASE kind = "videos"
  <2>1. \A s \in Sources : got[s] \in {"ok", "none", "missing", "down"}
    BY <1>2, <1>8, FirstAnswersAre
  <2>2. RoundIsRight("videos", got, again, login, Videos(got, again))
    BY <1>2, <1>5, <1>8, <2>1, VideosAreRight
  <2>3. Outcome("videos", got, again, login) = Videos(got, again)
    BY OutcomeOfKind
  <2> QED BY <1>8, <2>2, <2>3
<1>9. CASE kind = "server stats"
  <2>1. RoundIsRight("server stats", got, again, login, ServerStats(got, again))
    BY ServerStatsAreRight
  <2>2. Outcome("server stats", got, again, login) = ServerStats(got, again)
    BY OutcomeOfKind
  <2> QED BY <1>9, <2>1, <2>2
<1>10. CASE kind \in TorrentClients
  <2>1. /\ kind = "transmission" => \A s \in Sources : got[s] \in {"ok", "none", "conflict", "down"}
        /\ kind /= "transmission" => \A s \in Sources : got[s] \in {"ok", "none", "denied", "down"}
    BY <1>2, <1>10, FirstAnswersAre DEF TorrentClients
  <2>2. \A s \in Sources : again[s] \in {"ok", "none", "down"}
    BY <1>5, <1>10 DEF TorrentClients
  <2>3. RoundIsRight(kind, got, again, login, Torrents(kind, got, again, login))
    BY <1>2, <1>10, <2>1, <2>2, TorrentsAreRight
  <2>4. Outcome(kind, got, again, login) = Torrents(kind, got, again, login)
    BY <1>10, OutcomeOfFamily
  <2> QED BY <2>3, <2>4
<1> QED BY <1>1, <1>6, <1>7, <1>8, <1>9, <1>10 DEF Kinds, Peculiar, TorrentClients

\* What a widget says of itself after a round: settling shows what came back, and
\* calls it clean, when and only when there was no error.
LEMMA SettledIsClean ==
    ASSUME RoundsTypeOK, NEW r, NEW w, w = Settled(r) \/ w = Replaced(r)
    PROVE  /\ w = [kind |-> w.kind, shown |-> w.shown, kept |-> w.kept, token |-> w.token,
                   error |-> w.error, notice |-> w.notice]
           /\ w.kind = widget.kind /\ w.token = r.token
           /\ ~w.error /\ ~w.notice <=> r.err = "nil"
           /\ r.err = "nil" => w.shown = r.shown
<1>1. PICK k, s, p, t, e, n : widget = [kind |-> k, shown |-> s, kept |-> p, token |-> t,
                                        error |-> e, notice |-> n]
  BY DEF RoundsTypeOK
<1>2. PICK v : v = Settled(r)
  OBVIOUS
<1>3. v = [kind |-> k, shown |-> IF Continues(r.err) THEN r.shown ELSE s, kept |-> r.kept, token |-> r.token,
           error |-> ~Continues(r.err), notice |-> IF r.err = "early" THEN n ELSE r.err = "partial"]
  BY <1>1, <1>2 DEF Settled
<1>4. /\ v.kind = k /\ v.token = r.token
      /\ ~v.error <=> Continues(r.err)
      /\ r.err /= "early" => (v.notice <=> r.err = "partial")
      /\ Continues(r.err) => v.shown = r.shown
  BY <1>3
<1>5. /\ ~v.error /\ ~v.notice <=> r.err = "nil"
      /\ r.err = "nil" => v.shown = r.shown
  BY <1>4 DEF Continues
<1>6. CASE w = v
  BY <1>1, <1>3, <1>4, <1>5, <1>6
<1>7. CASE w = [v EXCEPT !.shown = r.shown]
  <2>1. w = [kind |-> v.kind, shown |-> r.shown, kept |-> v.kept, token |-> v.token,
             error |-> v.error, notice |-> v.notice]
    BY <1>3, <1>7
  <2> QED BY <1>1, <1>4, <1>5, <2>1
<1> QED BY <1>2, <1>6, <1>7 DEF Replaced

LEMMA RoundKeeps ==
    ASSUME RoundsInv, NEW got \in FirstRounds(widget.kind), NEW again \in Again(widget.kind, got), NEW login,
           Round(got, again, login)
    PROVE  RoundsInv'
<1>1. PICK kind : kind = widget.kind
  OBVIOUS
<1>2. PICK r : r = Outcome(kind, got, again, login)
  OBVIOUS
<1>3. PICK w : w = widget' /\ (w = Settled(r) \/ w = Replaced(r))
  BY <1>1, <1>2 DEF Round
<1>4. RoundIsRight(kind, got, again, login, r)
  BY <1>1, <1>2, RoundsAreRight DEF RoundsInv
<1>5. /\ w = [kind |-> w.kind, shown |-> w.shown, kept |-> w.kept, token |-> w.token,
              error |-> w.error, notice |-> w.notice]
      /\ w.kind = kind /\ w.token = r.token
      /\ ~w.error /\ ~w.notice <=> r.err = "nil"
      /\ r.err = "nil" => w.shown = r.shown
  BY <1>1, <1>3, SettledIsClean DEF RoundsInv
<1>6. now' = now /\ last' = [got |-> got, again |-> again, login |-> login]
  BY DEF Round
<1>7. RoundsTypeOK'
  BY <1>1, <1>3, <1>5, <1>6 DEF RoundsInv, RoundsTypeOK
<1>8. CleanIsCurrent'
  <2>1. r.err = "nil" => IsCurrent(kind, got, again, w.shown)
    BY <1>4, <1>5 DEF RoundIsRight
  <2>2. last'.got = got /\ last'.again = again
    BY <1>6
  <2>3. r.err = "nil" =>
            \A s \in Shows(kind) :
               \/ w.shown[s] = now[s]
               \/ w.shown[s] = 0 /\ (Said(got, again, s) \/ Said(got, again, First) \/ kind \in ShowsFailures)
    BY <2>1 DEF IsCurrent
  <2>4. \A s : SaidNone(s)' <=> Said(got, again, s)
    BY <2>2 DEF SaidNone, Said
  <2> QED BY <1>3, <1>5, <1>6, <2>3, <2>4 DEF CleanIsCurrent
<1>9. RecoversAtOnce'
  <2>1. Healthy(kind, got, again, login) => ~w.error /\ ~w.notice
    BY <1>4, <1>5 DEF RoundIsRight
  <2>2. last'.got = got /\ last'.again = again /\ last'.login = login
    BY <1>6
  <2>3. \A s : Remedied(s)' <=> Helped(kind, got, s)
    BY <1>3, <1>5, <2>2 DEF Remedied, Helped
  <2>4. ASSUME kind = "pihole 5", w.token = "good" PROVE widget.token = "good"
    <3>1. r = WithToken(got)
      BY <1>2, <2>4, OutcomeOfKind
    <3>2. r.token = widget.token
      BY <3>1 DEF WithToken, OnlyFirst, Result
    <3> QED BY <1>5, <2>4, <3>2
  <2>5. (/\ \A s \in Sources : Answered(s)'
         /\ last'.login = "ok"
         /\ widget'.kind = "pihole 6" => last'.again[First] /= "down"
         /\ widget'.kind = "pihole 5" => widget'.token = "good")
        => Healthy(kind, got, again, login)
    BY <1>3, <1>5, <2>2, <2>3, <2>4 DEF Answered, Healthy
  <2> QED BY <1>3, <2>1, <2>5 DEF RecoversAtOnce
<1> QED BY <1>7, <1>8, <1>9 DEF RoundsInv

LEMMA RoundsStepKeeps == ASSUME RoundsInv, [RoundsNext]_roundVars PROVE RoundsInv'
<1>1. CASE UNCHANGED roundVars
  BY <1>1 DEF roundVars, RoundsInv, RoundsTypeOK, CleanIsCurrent, RecoversAtOnce, SaidNone, Answered, Remedied
<1>2. ASSUME last' = NoRound, RoundsTypeOK' PROVE RoundsInv'
  BY <1>2 DEF RoundsInv, CleanIsCurrent, RecoversAtOnce, NoRound
<1>3. ASSUME NEW s \in Sources, Change(s) \/ Toggle(s) PROVE RoundsInv'
  <2>1. now' = [now EXCEPT ![s] = @ + 1] /\ now \in [Sources -> Nat \ {0}] /\ last' = NoRound
    BY <1>3 DEF Change, Toggle, RoundsInv, RoundsTypeOK
  <2>2. now' \in [Sources -> Nat \ {0}]
    BY <2>1
  <2>3. /\ widget' = [kind |-> widget'.kind, shown |-> widget'.shown, kept |-> widget'.kept,
                      token |-> widget'.token, error |-> widget'.error, notice |-> widget'.notice]
        /\ widget'.kind \in Kinds
    <3>1. PICK k, sh, p, t, e, n :
             k \in Kinds /\ widget = [kind |-> k, shown |-> sh, kept |-> p, token |-> t, error |-> e, notice |-> n]
      BY DEF RoundsInv, RoundsTypeOK
    <3>2. PICK sh2 : widget' = [kind |-> k, shown |-> sh2, kept |-> p, token |-> t, error |-> e, notice |-> n]
      BY <1>3, <3>1 DEF Change, Toggle
    <3> QED BY <3>1, <3>2
  <2> QED BY <1>2, <2>1, <2>2, <2>3 DEF RoundsTypeOK
<1>4. CASE Age
  <2>1. PICK k, sh, p, t, e, n :
           k \in Kinds /\ widget = [kind |-> k, shown |-> sh, kept |-> p, token |-> t, error |-> e, notice |-> n]
    BY DEF RoundsInv, RoundsTypeOK
  <2>2. widget' = [kind |-> k, shown |-> sh, kept |-> p, token |-> "stale", error |-> e, notice |-> n]
    BY <1>4, <2>1 DEF Age
  <2>3. now' = now /\ last' = NoRound
    BY <1>4 DEF Age
  <2> QED BY <1>2, <2>1, <2>2, <2>3 DEF RoundsInv, RoundsTypeOK
<1> QED BY <1>1, <1>3, <1>4, RoundKeeps DEF RoundsNext

LEMMA RoundsStart == ASSUME RoundsInit PROVE RoundsInv
<1>1. now \in [Sources -> Nat \ {0}]
  <2>1. now = [s \in Sources |-> 1]
    BY DEF RoundsInit
  <2> QED BY <2>1
<1>2. widget \in [kind: Kinds, shown: {Blank}, kept: {Blank}, token: {"none", "good"},
                  error: {FALSE}, notice: {FALSE}]
  BY DEF RoundsInit
<1>3. RoundsTypeOK
  BY <1>1, <1>2 DEF RoundsTypeOK
<1>4. last = NoRound
  BY DEF RoundsInit
<1> QED BY <1>3, <1>4 DEF RoundsInv, CleanIsCurrent, RecoversAtOnce

LEMMA RoundsAlways == ServicesSpec => []RoundsInv
<1>1. ServicesInit => RoundsInv
  BY RoundsStart DEF ServicesInit
<1>2. RoundsInv /\ [ServicesNext]_servicesVars => RoundsInv'
  BY RoundSteps, RoundsStepKeeps
<1> QED BY <1>1, <1>2, PTL DEF ServicesSpec

\* A widget of any kind, with any number of sources and after any rounds: without an
\* error and a notice what it shows is what its sources had when it asked, and
\* nothing is left out but what had nothing to give (canContinueUpdateAfterHandlingErr
\* and the fetchers of the widgets).
THEOREM CleanIsCurrentHolds == ServicesSpec => []CleanIsCurrent
<1>1. RoundsInv => CleanIsCurrent
  BY DEF RoundsInv
<1> QED BY <1>1, RoundsAlways, PTL

\* And one round in which every source answers and every login is accepted is
\* enough to get rid of an error or a notice, whatever the rounds before have left.
THEOREM RecoversAtOnceHolds == ServicesSpec => []RecoversAtOnce
<1>1. RoundsInv => RecoversAtOnce
  BY DEF RoundsInv
<1> QED BY <1>1, RoundsAlways, PTL

=============================================================================
