---------------------------- MODULE SharedFetch ----------------------------
(***************************************************************************)
(* The process-wide cache of GET responses, request-share.go: every widget *)
(* update goes through sharedFetcher.do, which sends at most one upstream  *)
(* request per key, hands its response to everybody who asked meanwhile,   *)
(* and to later callers while it is not older than their own maxAge.       *)
(*                                                                         *)
(* An action is one critical section of f.mu, or the code between two of   *)
(* them.  entries is the Go map.  A sharedFetchEntry is told apart by its  *)
(* owner, the caller that will close its done channel; the owner is        *)
(* NoCaller once the channel is closed, when the entry's identity matters  *)
(* to nobody any more.                                                     *)
(***************************************************************************)
EXTENDS Integers, FiniteSets

CONSTANTS
    Callers,          \* goroutines that may be inside do()
    NoCaller,
    Keys,             \* values of sharedFetchKey: method, URL, client, headers
    NoKey,
    NoEntry,          \* what entries holds for a key the Go map lacks
    Durations,        \* the durations contexts carry (widget cache durations)
    DefaultMaxAge,    \* defaultSharedFetchMaxAge, in clock ticks
    PruneAge,         \* sharedFetchMaxPruneAge, in clock ticks
    PruneThreshold,   \* sharedFetchPruneThreshold
    ClientTimeout,    \* http.Client.Timeout, in clock ticks
    MaxTime,          \* bound: the clock stops here
    MaxCalls          \* bound: calls each goroutine makes

ASSUME NamesAssumption == NoCaller \notin Callers /\ NoKey \notin Keys
ASSUME DurationsAssumption == Durations \subseteq Int
ASSUME AgesAssumption ==
    /\ DefaultMaxAge \in Nat /\ PruneAge \in Nat
    /\ ClientTimeout \in Nat /\ PruneThreshold \in Nat
ASSUME BoundsAssumption == MaxTime \in Nat /\ MaxCalls \in Nat

VARIABLES
    now,         \* the clock
    entries,     \* f.entries
    pc,          \* where each caller is inside do()
    key,         \* the key of its call
    maxAge,      \* the maxAge of its call
    since,       \* when it sent its upstream request
    waitsFor,    \* the owner of the entry whose channel it blocks on
    calls,       \* how many calls it has made
    answer,      \* what its last call got from the cache (history)
    lastGood     \* per key, when its last good response was stored (history)

vars == <<now, entries, pc, key, maxAge, since, waitsFor, calls, answer, lastGood>>

Never == -1

Entry == [owner : Callers \cup {NoCaller}, err : BOOLEAN,
          startedAt : Nat, fetchedAt : Nat \cup {Never}]

ASSUME EntryAssumption == NoEntry \notin Entry

\* age is that of the response at the moment of the answer, counted from its
\* request; limit is the caller's maxAge.
NoAnswer == [age |-> 0, limit |-> 0]

TypeOK ==
    /\ now \in Nat
    /\ entries \in [Keys -> Entry \cup {NoEntry}]
    /\ pc \in [Callers -> {"idle", "loop", "wait", "fetch", "close", "closeErr"}]
    /\ key \in [Callers -> Keys \cup {NoKey}]
    /\ maxAge \in [Callers -> Nat]
    /\ since \in [Callers -> Nat]
    /\ waitsFor \in [Callers -> Callers \cup {NoCaller}]
    /\ calls \in [Callers -> Nat]
    /\ answer \in [Callers -> [age : Int, limit : Nat]]
    /\ lastGood \in [Keys -> Nat \cup {Never}]
    /\ \A c \in Callers : pc[c] # "idle" => key[c] \in Keys

-----------------------------------------------------------------------------
\* sharedFetchMaxAgeForRequest: a context without a duration, or with zero,
\* means the default; a negative one (an infinite cache) means the prune age.
\* The mutant lets the negative one through.
EffectiveMaxAgeRaw(d) == IF d = 0 THEN DefaultMaxAge ELSE d

EffectiveMaxAge(d) ==
    CASE d < 0 -> PruneAge
      [] d = 0 -> DefaultMaxAge
      [] OTHER -> d

\* Whether <-entry.done goes through.
IsDone(e) == e.owner = NoCaller

\* pruneLocked, on the map m: done entries older than PruneAge leave it, but
\* only once it holds more than PruneThreshold entries.  The mutant forgets
\* that entries under way have no fetchedAt yet.
ExpendableEvenIfOpen(e) == now - e.fetchedAt > PruneAge

Expendable(e) == IsDone(e) /\ now - e.fetchedAt > PruneAge

Pruned(m) ==
    IF Cardinality({k \in Keys : m[k] # NoEntry}) <= PruneThreshold
    THEN m
    ELSE [k \in Keys |-> IF m[k] # NoEntry /\ Expendable(m[k]) THEN NoEntry ELSE m[k]]

\* The tests of a done entry.  The mutants forget the caller's own age, and
\* are off by one at its boundary.
UsableForAnyone(e, age) == ~e.err /\ now - e.fetchedAt <= age + DefaultMaxAge

UsableStrictly(e, age) == ~e.err /\ now - e.fetchedAt < age

Usable(e, age) == ~e.err /\ now - e.fetchedAt <= age

Init ==
    /\ now = 0
    /\ entries = [k \in Keys |-> NoEntry]
    /\ pc = [c \in Callers |-> "idle"]
    /\ key = [c \in Callers |-> NoKey]
    /\ maxAge = [c \in Callers |-> 0]
    /\ since = [c \in Callers |-> 0]
    /\ waitsFor = [c \in Callers |-> NoCaller]
    /\ calls = [c \in Callers |-> 0]
    /\ answer = [c \in Callers |-> NoAnswer]
    /\ lastGood = [k \in Keys |-> Never]

\* fetchRequestBody calls do for a GET, with the age its context carries.
Call(c, k, d) ==
    /\ pc[c] = "idle"
    /\ calls[c] < MaxCalls
    /\ pc' = [pc EXCEPT ![c] = "loop"]
    /\ key' = [key EXCEPT ![c] = k]
    /\ maxAge' = [maxAge EXCEPT ![c] = EffectiveMaxAge(d)]
    /\ calls' = [calls EXCEPT ![c] = @ + 1]
    /\ answer' = [answer EXCEPT ![c] = NoAnswer]
    /\ UNCHANGED <<now, entries, since, waitsFor, lastGood>>

\* The locals of a call are gone when it returns.
Return(c) ==
    /\ key' = [key EXCEPT ![c] = NoKey]
    /\ maxAge' = [maxAge EXCEPT ![c] = 0]
    /\ since' = [since EXCEPT ![c] = 0]

\* The entry is done and good enough: return it from inside the lock.
Hit(c) ==
    LET e == entries[key[c]] IN
    /\ pc[c] = "loop"
    /\ e # NoEntry /\ IsDone(e) /\ Usable(e, maxAge[c])
    /\ pc' = [pc EXCEPT ![c] = "idle"]
    /\ answer' = [answer EXCEPT ![c] = [age |-> now - e.startedAt, limit |-> maxAge[c]]]
    /\ Return(c)
    /\ UNCHANGED <<now, entries, waitsFor, calls, lastGood>>

\* Somebody is fetching it: unlock and block on the entry's done channel.
Join(c) ==
    LET e == entries[key[c]] IN
    /\ pc[c] = "loop"
    /\ e # NoEntry /\ ~IsDone(e)
    /\ pc' = [pc EXCEPT ![c] = "wait"]
    /\ waitsFor' = [waitsFor EXCEPT ![c] = e.owner]
    /\ UNCHANGED <<now, entries, key, maxAge, since, calls, answer, lastGood>>

\* No entry, or one that is done but failed or too old: replace it with an
\* entry of our own, prune, unlock and send the request.
Miss(c) ==
    LET e == entries[key[c]]
        newEntry == [owner |-> c, err |-> FALSE, startedAt |-> now, fetchedAt |-> Never]
    IN
    /\ pc[c] = "loop"
    /\ e # NoEntry => IsDone(e) /\ ~Usable(e, maxAge[c])
    /\ entries' = Pruned([entries EXCEPT ![key[c]] = newEntry])
    /\ since' = [since EXCEPT ![c] = now]
    /\ pc' = [pc EXCEPT ![c] = "fetch"]
    /\ UNCHANGED <<now, key, maxAge, waitsFor, calls, answer, lastGood>>

\* f.entries[key] == newEntry
OwnsEntry(c) == entries[key[c]] # NoEntry /\ entries[key[c]].owner = c

\* doRequestReadAll returned a response: fill the entry in, under the lock.
Store(c) ==
    /\ pc[c] = "fetch"
    /\ entries' = IF OwnsEntry(c)
                  THEN [entries EXCEPT ![key[c]].fetchedAt = now]
                  ELSE entries
    /\ lastGood' = [lastGood EXCEPT ![key[c]] = now]
    /\ pc' = [pc EXCEPT ![c] = "close"]
    /\ UNCHANGED <<now, key, maxAge, since, waitsFor, calls, answer>>

\* doRequestReadAll failed: take our entry, and only ours, out of the map.
Discard(c) ==
    /\ pc[c] = "fetch"
    /\ entries' = IF OwnsEntry(c) THEN [entries EXCEPT ![key[c]] = NoEntry] ELSE entries
    /\ pc' = [pc EXCEPT ![c] = "closeErr"]
    /\ UNCHANGED <<now, key, maxAge, since, waitsFor, calls, answer, lastGood>>

\* close(newEntry.done), wherever the entry is by now, lets everybody who
\* blocks on it look at the map again.  The mutant lets only one of them.
ReleasedOne(c) ==
    LET waiters == {w \in Callers : pc[w] = "wait" /\ waitsFor[w] = c}
    IN  IF waiters = {} THEN {} ELSE {CHOOSE w \in waiters : TRUE}

Released(c) == {w \in Callers : pc[w] = "wait" /\ waitsFor[w] = c}

CloseDone(c, failed) ==
    /\ entries' = IF OwnsEntry(c)
                  THEN [entries EXCEPT ![key[c]].owner = NoCaller, ![key[c]].err = failed]
                  ELSE entries
    /\ pc' = [b \in Callers |->
                IF b = c THEN "idle" ELSE IF b \in Released(c) THEN "loop" ELSE pc[b]]
    /\ waitsFor' = [b \in Callers |-> IF b \in Released(c) THEN NoCaller ELSE waitsFor[b]]
    /\ Return(c)
    /\ UNCHANGED <<now, calls, answer, lastGood>>

\* After the unlock: close(done) and return our own response, or the error.
Close(c) == pc[c] = "close" /\ CloseDone(c, FALSE)

CloseErr(c) == pc[c] = "closeErr" /\ CloseDone(c, TRUE)

\* Time passes, but not past the timeout of a request that is under way: by
\* then client.Do has returned.
Tick ==
    /\ now < MaxTime
    /\ \A c \in Callers : pc[c] = "fetch" => now - since[c] < ClientTimeout
    /\ now' = now + 1
    /\ UNCHANGED <<entries, pc, key, maxAge, since, waitsFor, calls, answer, lastGood>>

Step(c) ==
    \/ Hit(c) \/ Join(c) \/ Miss(c)
    \/ Store(c) \/ Discard(c) \/ Close(c) \/ CloseErr(c)

Next ==
    \/ \E c \in Callers, k \in Keys, d \in Durations : Call(c, k, d)
    \/ \E c \in Callers : Step(c)
    \/ Tick

Spec == Init /\ [][Next]_vars

\* The scheduler runs every goroutine that can go on, and the client's timeout
\* ends every request.  Nothing forces a goroutine to make another call.
Fairness == \A c \in Callers : WF_vars(Step(c))

FairSpec == Spec /\ Fairness

-----------------------------------------------------------------------------
\* The ages some caller may ask for, and the age at which pruning may drop a
\* response that nobody else would have dropped.
Ages == {EffectiveMaxAge(d) : d \in Durations} \cup {PruneAge}

\* At most one request per key is under way, however callers, failures and
\* pruning interleave: what do()'s done channels are for (74-96, 122-137).
SingleFlight ==
    \A c1, c2 \in Callers :
        pc[c1] = "fetch" /\ pc[c2] = "fetch" /\ key[c1] = key[c2] => c1 = c2

\* Whoever blocks on an entry's done channel (88) waits for a caller that is
\* still going to close it: nobody hangs on an entry that was replaced,
\* discarded or pruned while its request was under way.
WaitersHaveOwner ==
    \A c \in Callers : pc[c] = "wait" =>
        /\ waitsFor[c] \in Callers
        /\ pc[waitsFor[c]] \in {"fetch", "close", "closeErr"}
        /\ key[waitsFor[c]] = key[c]

\* What a caller gets from the cache was requested at most its own maxAge plus
\* one client timeout before it got it, whoever requested it and with whatever
\* maxAge; the timeout is there because fetchedAt is read after the body (114).
StalenessBound ==
    \A c \in Callers : answer[c].age <= answer[c].limit + ClientTimeout

\* A request is under way only if the last good response for its key had become
\* too old for somebody (79) or for pruning (131): failed requests, waiters and
\* callers with other ages never make the cache ask upstream sooner.
LoadBound ==
    \A c \in Callers : pc[c] = "fetch" /\ lastGood[key[c]] # Never =>
        \E a \in Ages : since[c] - lastGood[key[c]] > a

\* Every call of do returns.  (With MaxCalls calls per goroutine: a waiter that
\* loses the race for the new entry after each of endless failures never would.)
Answered == \A c \in Callers : pc[c] # "idle" ~> pc[c] = "idle"

\* do() keeps the promise of UpstreamCache.
Promise == INSTANCE UpstreamCache WITH
    None <- NoKey,
    wants <- key,
    busy <- {key[c] : c \in {b \in Callers : pc[b] = "fetch"}},
    latest <- lastGood,
    failed <- {c \in Callers : pc[c] = "closeErr"}

KeepsPromise == Promise!Spec
=============================================================================
