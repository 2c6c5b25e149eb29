------------------------- MODULE SharedFetchProofs -------------------------
(***************************************************************************)
(* The safety invariants of SharedFetch, for every set of callers and keys *)
(* and every choice of ages, timeouts and thresholds.  They hold together: *)
(* IInv ties an entry that is not done to the one caller that is fetching  *)
(* it, so that no replacement, discard or pruning can take it away, and    *)
(* each entry's times to the clock and to the latest good response.        *)
(***************************************************************************)
EXTENDS SharedFetch, TLAPS

\* Whoever has a request under way, or its response not yet announced, owns
\* the entry of its key.
FetchersOwn ==
    \A c \in Callers : pc[c] \in {"fetch", "close"} => OwnsEntry(c)

\* ... and an entry that is not done is owned by such a caller.
OwnersFetch ==
    \A k \in Keys : entries[k] # NoEntry /\ ~IsDone(entries[k]) =>
        LET o == entries[k].owner IN pc[o] \in {"fetch", "close"} /\ key[o] = k

\* A failed entry never stays in the map.
NoErrorKept == \A k \in Keys : entries[k] # NoEntry => ~entries[k].err

\* The times of a request under way and of a stored response.
TimesOK ==
    /\ \A c \in Callers : pc[c] = "fetch" =>
        /\ since[c] <= now /\ now - since[c] <= ClientTimeout
        /\ entries[key[c]].startedAt = since[c]
    /\ \A k \in Keys :
        entries[k] # NoEntry /\ (IsDone(entries[k]) \/ pc[entries[k].owner] = "close") =>
            /\ entries[k].fetchedAt \in Nat
            /\ entries[k].fetchedAt <= now
            /\ entries[k].fetchedAt - entries[k].startedAt <= ClientTimeout
            /\ lastGood[k] = entries[k].fetchedAt

AgesOK == \A c \in Callers : pc[c] # "idle" => maxAge[c] \in Ages

\* A key without an entry has no response that is young enough for everybody.
GoneMeansOld ==
    \A k \in Keys : entries[k] = NoEntry /\ lastGood[k] # Never =>
        \E a \in Ages : now - lastGood[k] > a

IInv ==
    /\ TypeOK /\ FetchersOwn /\ OwnersFetch /\ NoErrorKept /\ TimesOK /\ AgesOK
    /\ GoneMeansOld /\ LoadBound /\ WaitersHaveOwner /\ StalenessBound

-----------------------------------------------------------------------------
LEMMA EffectiveInAges ==
    /\ Ages \subseteq Nat
    /\ \A d \in Durations : EffectiveMaxAge(d) \in Ages
  BY DurationsAssumption, AgesAssumption DEF Ages, EffectiveMaxAge

\* Pruning leaves an entry alone or takes it away, and takes away only what is
\* done and old.
LEMMA PrunedFacts ==
    ASSUME NEW m \in [Keys -> Entry \cup {NoEntry}]
    PROVE  /\ Pruned(m) \in [Keys -> Entry \cup {NoEntry}]
           /\ \A k \in Keys :
                \/ Pruned(m)[k] = m[k]
                \/ Pruned(m)[k] = NoEntry /\ m[k] # NoEntry /\ Expendable(m[k])
  <1>1. CASE Cardinality({k \in Keys : m[k] # NoEntry}) <= PruneThreshold
    BY <1>1 DEF Pruned
  <1>2. CASE ~(Cardinality({k \in Keys : m[k] # NoEntry}) <= PruneThreshold)
    BY <1>2 DEF Pruned
  <1> QED  BY <1>1, <1>2

LEMMA InitIInv == Init => IInv
  BY NamesAssumption, AgesAssumption
     DEF Init, IInv, TypeOK, NoAnswer, Never, FetchersOwn, OwnersFetch, NoErrorKept, TimesOK,
         AgesOK, GoneMeansOld, LoadBound, WaitersHaveOwner, StalenessBound

LEMMA CallKeeps ==
    ASSUME IInv, NEW c \in Callers, NEW k \in Keys, NEW d \in Durations, Call(c, k, d)
    PROVE  IInv'
  <1>1. EffectiveMaxAge(d) \in Ages /\ EffectiveMaxAge(d) \in Nat
    BY EffectiveInAges
  <1>2. TypeOK'
    BY <1>1 DEF IInv, TypeOK, Call, NoAnswer
  <1>3. /\ \A b \in Callers : pc'[b] # "loop" => pc'[b] = pc[b] /\ key'[b] = key[b] /\ b # c
        /\ \A b \in Callers : b # c => pc'[b] = pc[b] /\ key'[b] = key[b]
    BY DEF IInv, TypeOK, Call
  <1>4. FetchersOwn'
    BY <1>3 DEF IInv, TypeOK, Call, FetchersOwn, OwnsEntry
  <1>5. OwnersFetch'
    BY <1>3 DEF IInv, TypeOK, Call, OwnersFetch, IsDone, Entry
  <1>6. NoErrorKept'
    BY DEF IInv, Call, NoErrorKept
  <1>7. TimesOK'
    BY <1>3 DEF IInv, TypeOK, Call, TimesOK, IsDone, Entry, OwnersFetch
  <1>8. AgesOK'
    BY <1>1, <1>3 DEF IInv, TypeOK, Call, AgesOK, Ages
  <1>9. GoneMeansOld' /\ LoadBound'
    BY <1>3 DEF IInv, TypeOK, Call, GoneMeansOld, LoadBound, Ages
  <1>10. WaitersHaveOwner'
    BY <1>3 DEF IInv, TypeOK, Call, WaitersHaveOwner
  <1>11. StalenessBound'
    BY AgesAssumption DEF IInv, TypeOK, Call, StalenessBound, NoAnswer
  <1> QED  BY <1>2, <1>4, <1>5, <1>6, <1>7, <1>8, <1>9, <1>10, <1>11 DEF IInv

LEMMA HitKeeps ==
    ASSUME IInv, NEW c \in Callers, Hit(c)
    PROVE  IInv'
  <1> DEFINE e == entries[key[c]]
  <1>1. /\ key[c] \in Keys /\ e \in Entry /\ e # NoEntry
        /\ IsDone(e) /\ ~e.err /\ now - e.fetchedAt <= maxAge[c]
    BY DEF IInv, TypeOK, Hit, Usable
  <1>2. /\ \A b \in Callers : pc'[b] # "idle" => pc'[b] = pc[b] /\ key'[b] = key[b]
                                                   /\ maxAge'[b] = maxAge[b] /\ since'[b] = since[b]
        /\ \A b \in Callers : b # c => pc'[b] = pc[b] /\ key'[b] = key[b]
    BY DEF IInv, TypeOK, Hit, Return
  <1>3. now - e.startedAt <= maxAge[c] + ClientTimeout
    <2>1. e.fetchedAt \in Nat /\ e.fetchedAt - e.startedAt <= ClientTimeout
      BY <1>1 DEF IInv, TimesOK
    <2>2. e.startedAt \in Nat /\ now \in Nat /\ maxAge[c] \in Nat
      BY <1>1 DEF IInv, TypeOK, Entry
    <2> QED  BY <1>1, <2>1, <2>2, AgesAssumption
  <1>4. TypeOK'
    BY <1>1 DEF IInv, TypeOK, Hit, Return, Entry
  <1>5. /\ FetchersOwn' /\ GoneMeansOld' /\ NoErrorKept'
        /\ AgesOK'
        /\ LoadBound'
    BY <1>2 DEF IInv, Hit, FetchersOwn, OwnsEntry, AgesOK, GoneMeansOld, LoadBound,
                NoErrorKept, Ages
  <1>6. OwnersFetch'
    BY <1>2 DEF IInv, TypeOK, Hit, OwnersFetch, IsDone, Entry
  <1>7. TimesOK'
    BY <1>2 DEF IInv, TypeOK, Hit, TimesOK, IsDone, Entry, OwnersFetch
  <1>8. WaitersHaveOwner'
    BY <1>2 DEF IInv, TypeOK, Hit, WaitersHaveOwner
  <1>9. StalenessBound'
    BY <1>3 DEF IInv, TypeOK, Hit, StalenessBound
  <1> QED  BY <1>4, <1>5, <1>6, <1>7, <1>8, <1>9 DEF IInv

LEMMA JoinKeeps ==
    ASSUME IInv, NEW c \in Callers, Join(c)
    PROVE  IInv'
  <1> DEFINE o == entries[key[c]].owner
  <1>1. /\ key[c] \in Keys /\ o \in Callers
        /\ pc[o] \in {"fetch", "close"} /\ key[o] = key[c]
    BY DEF IInv, TypeOK, Join, IsDone, Entry, OwnersFetch
  <1>2. \A b \in Callers : pc'[b] # "wait" => pc'[b] = pc[b] /\ b # c
    BY DEF IInv, TypeOK, Join
  <1>3. \A b \in Callers : b # c => pc'[b] = pc[b]
    BY DEF IInv, TypeOK, Join
  <1>4. TypeOK'
    BY <1>1 DEF IInv, TypeOK, Join
  <1>5. FetchersOwn' /\ GoneMeansOld' /\ LoadBound' /\ NoErrorKept' /\ StalenessBound'
    BY <1>2 DEF IInv, TypeOK, Join, FetchersOwn, OwnsEntry, GoneMeansOld, LoadBound,
                NoErrorKept, StalenessBound
  <1>6. AgesOK'
    BY <1>3 DEF IInv, TypeOK, Join, AgesOK, Ages
  <1>7. OwnersFetch' /\ TimesOK'
    BY <1>2, <1>3 DEF IInv, TypeOK, Join, OwnersFetch, TimesOK, IsDone, Entry
  <1>8. WaitersHaveOwner'
    BY <1>1, <1>3 DEF IInv, TypeOK, Join, WaitersHaveOwner
  <1> QED  BY <1>4, <1>5, <1>6, <1>7, <1>8 DEF IInv

LEMMA MissKeeps ==
    ASSUME IInv, NEW c \in Callers, Miss(c)
    PROVE  IInv'
  <1> DEFINE k == key[c]
             newEntry == [owner |-> c, err |-> FALSE, startedAt |-> now, fetchedAt |-> Never]
             m == [entries EXCEPT ![k] = newEntry]
  <1>1. /\ k \in Keys /\ newEntry \in Entry /\ newEntry # NoEntry
        /\ c # NoCaller /\ ~IsDone(newEntry)
        /\ m \in [Keys -> Entry \cup {NoEntry}]
    <2>1. k \in Keys
      BY DEF IInv, TypeOK, Miss
    <2>2. newEntry \in Entry
      BY DEF IInv, TypeOK, Entry
    <2>3. c # NoCaller /\ ~IsDone(newEntry)
      BY NamesAssumption DEF IsDone
    <2> QED  BY <2>1, <2>2, <2>3, EntryAssumption DEF IInv, TypeOK
  <1>2. \A l \in Keys :
          \/ entries'[l] = m[l]
          \/ entries'[l] = NoEntry /\ m[l] # NoEntry /\ Expendable(m[l])
    BY <1>1, PrunedFacts DEF Miss
  <1>3. /\ entries' \in [Keys -> Entry \cup {NoEntry}]
        /\ entries'[k] = newEntry
        /\ \A l \in Keys \ {k} :
             \/ entries'[l] = entries[l]
             \/ entries'[l] = NoEntry /\ entries[l] # NoEntry /\ Expendable(entries[l])
    <2>1. entries' \in [Keys -> Entry \cup {NoEntry}]
      BY <1>1, PrunedFacts DEF Miss
    <2>2. m[k] = newEntry /\ \A l \in Keys \ {k} : m[l] = entries[l]
      BY <1>1 DEF IInv, TypeOK
    <2>3. ~Expendable(newEntry)
      BY <1>1 DEF Expendable
    <2> QED  BY <1>1, <1>2, <2>1, <2>2, <2>3
  <1>4. entries[k] # NoEntry => IsDone(entries[k]) /\ ~Usable(entries[k], maxAge[c])
    BY DEF Miss
  <1>5. /\ pc'[c] = "fetch" /\ since'[c] = now /\ key' = key
        /\ \A b \in Callers \ {c} : pc'[b] = pc[b] /\ since'[b] = since[b]
        /\ pc[c] = "loop"
    BY DEF IInv, TypeOK, Miss
  <1>6. TypeOK'
    BY <1>3 DEF IInv, TypeOK, Miss
  <1>7. \A b \in Callers : pc[b] \in {"fetch", "close"} =>
          key[b] # k /\ entries'[key[b]] = entries[key[b]]
    BY <1>1, <1>3, <1>4, NamesAssumption
       DEF IInv, TypeOK, FetchersOwn, OwnsEntry, IsDone, Expendable
  <1>8. FetchersOwn'
    BY <1>1, <1>3, <1>5, <1>7 DEF IInv, TypeOK, FetchersOwn, OwnsEntry
  <1>9. OwnersFetch'
    BY <1>1, <1>3, <1>5 DEF IInv, TypeOK, OwnersFetch, IsDone, Entry
  <1>10. NoErrorKept'
    BY <1>1, <1>3 DEF IInv, NoErrorKept
  <1>11. TimesOK'
    <2>1. \A b \in Callers : pc'[b] = "fetch" =>
            /\ since'[b] <= now' /\ now' - since'[b] <= ClientTimeout
            /\ entries'[key'[b]].startedAt = since'[b]
      <3>1. now - now <= ClientTimeout /\ now <= now /\ newEntry.startedAt = now
        BY AgesAssumption DEF IInv, TypeOK
      <3>2. now' = now
        BY DEF Miss
      <3> QED  BY <1>3, <1>5, <1>7, <3>1, <3>2 DEF IInv, TimesOK
    <2>2. ASSUME NEW l \in Keys, entries'[l] # NoEntry,
                 IsDone(entries'[l]) \/ pc'[entries'[l].owner] = "close"
          PROVE  /\ entries'[l].fetchedAt \in Nat
                 /\ entries'[l].fetchedAt <= now'
                 /\ entries'[l].fetchedAt - entries'[l].startedAt <= ClientTimeout
                 /\ lastGood'[l] = entries'[l].fetchedAt
      <3>1. l # k /\ entries'[l] = entries[l]
        BY <1>1, <1>3, <1>5, <2>2
      <3>2. IsDone(entries[l]) \/ pc[entries[l].owner] = "close"
        BY <1>5, <2>2, <3>1 DEF IInv, TypeOK, IsDone, Entry
      <3> QED  BY <2>2, <3>1, <3>2 DEF IInv, TimesOK, Miss
    <2> QED  BY <2>1, <2>2 DEF TimesOK
  <1>12. AgesOK'
    BY <1>5 DEF IInv, TypeOK, AgesOK, Miss, Ages
  <1>13. GoneMeansOld'
    <2>1. SUFFICES ASSUME NEW l \in Keys, entries'[l] = NoEntry, lastGood'[l] # Never
                   PROVE  \E a \in Ages : now' - lastGood'[l] > a
      BY DEF GoneMeansOld, Ages
    <2>2. CASE entries[l] = NoEntry
      BY <2>1, <2>2 DEF IInv, GoneMeansOld, Miss
    <2>3. CASE entries[l] # NoEntry
      <3>1. IsDone(entries[l]) /\ now - entries[l].fetchedAt > PruneAge
        BY <1>1, <1>3, <2>1, <2>3 DEF Expendable
      <3>2. PruneAge \in Ages /\ lastGood[l] = entries[l].fetchedAt
        BY <2>3, <3>1 DEF IInv, TimesOK, Ages
      <3> QED  BY <3>1, <3>2 DEF Miss
    <2> QED  BY <2>2, <2>3
  <1>14. LoadBound'
    <2>1. lastGood[k] # Never => \E a \in Ages : now - lastGood[k] > a
      <3>1. CASE entries[k] = NoEntry
        BY <1>1, <3>1 DEF IInv, GoneMeansOld
      <3>2. CASE entries[k] # NoEntry
        <4>1. /\ ~entries[k].err /\ IsDone(entries[k])
              /\ lastGood[k] = entries[k].fetchedAt /\ entries[k].fetchedAt \in Nat
          BY <1>1, <1>4, <3>2 DEF IInv, NoErrorKept, TimesOK
        <4>2. ~(now - entries[k].fetchedAt <= maxAge[c]) /\ maxAge[c] \in Ages
          BY <1>4, <1>5, <3>2, <4>1 DEF Usable, IInv, AgesOK
        <4>3. maxAge[c] \in Nat /\ now \in Nat
          BY DEF IInv, TypeOK
        <4> QED  BY <4>1, <4>2, <4>3
      <3> QED  BY <3>1, <3>2
    <2> QED  BY <1>5, <2>1 DEF IInv, TypeOK, LoadBound, Miss, Ages
  <1>15. WaitersHaveOwner'
    BY <1>5 DEF IInv, TypeOK, WaitersHaveOwner, Miss
  <1>16. StalenessBound'
    BY DEF IInv, StalenessBound, Miss
  <1> QED  BY <1>6, <1>8, <1>9, <1>10, <1>11, <1>12, <1>13, <1>14, <1>15, <1>16 DEF IInv

\* What every action of a caller with a request under way may assume: it owns
\* the entry of its key, and nobody else fetches that key.
LEMMA FetcherFacts ==
    ASSUME IInv, NEW c \in Callers, pc[c] \in {"fetch", "close"}
    PROVE  /\ key[c] \in Keys /\ entries[key[c]] \in Entry /\ entries[key[c]] # NoEntry
           /\ entries[key[c]].owner = c /\ OwnsEntry(c) /\ c # NoCaller
           /\ ~IsDone(entries[key[c]])
           /\ \A b \in Callers \ {c} : pc[b] \in {"fetch", "close"} => key[b] # key[c]
  BY NamesAssumption DEF IInv, TypeOK, FetchersOwn, OwnsEntry, IsDone

LEMMA StoreKeeps ==
    ASSUME IInv, NEW c \in Callers, Store(c)
    PROVE  IInv'
  <1> DEFINE k == key[c]
             e == entries[k]
  <1>1. /\ k \in Keys /\ e \in Entry /\ e # NoEntry /\ e.owner = c /\ OwnsEntry(c)
        /\ c # NoCaller /\ ~IsDone(e) /\ pc[c] = "fetch"
        /\ \A b \in Callers \ {c} : pc[b] \in {"fetch", "close"} => key[b] # k
    BY FetcherFacts DEF Store
  <1>2. now \in Nat
    BY DEF IInv, TypeOK
  <1>3. /\ entries'[k] \in Entry
        /\ entries'[k].owner = c /\ entries'[k].err = e.err
        /\ entries'[k].startedAt = e.startedAt /\ entries'[k].fetchedAt = now
        /\ \A l \in Keys \ {k} : entries'[l] = entries[l]
        /\ entries' \in [Keys -> Entry \cup {NoEntry}]
    BY <1>1, <1>2 DEF Store, IInv, TypeOK, Entry
  <1>4. entries'[k] # NoEntry
    BY <1>3, EntryAssumption
  <1>5. /\ pc'[c] = "close" /\ key' = key /\ since' = since /\ now' = now
        /\ \A b \in Callers \ {c} : pc'[b] = pc[b]
        /\ lastGood'[k] = now /\ \A l \in Keys \ {k} : lastGood'[l] = lastGood[l]
    BY <1>1 DEF IInv, TypeOK, Store
  <1>6. TypeOK'
    BY <1>1, <1>2, <1>3 DEF IInv, TypeOK, Store
  <1>7. FetchersOwn'
    BY <1>1, <1>3, <1>4, <1>5 DEF IInv, TypeOK, FetchersOwn, OwnsEntry
  <1>8. OwnersFetch'
    BY <1>1, <1>3, <1>5 DEF IInv, TypeOK, OwnersFetch, IsDone, Entry
  <1>9. NoErrorKept'
    BY <1>1, <1>3 DEF IInv, NoErrorKept
  <1>10. TimesOK'
    <2>1. \A b \in Callers : pc'[b] = "fetch" =>
            /\ since'[b] <= now' /\ now' - since'[b] <= ClientTimeout
            /\ entries'[key'[b]].startedAt = since'[b]
      BY <1>1, <1>3, <1>5 DEF IInv, TypeOK, TimesOK
    <2>2. ASSUME NEW l \in Keys, entries'[l] # NoEntry,
                 IsDone(entries'[l]) \/ pc'[entries'[l].owner] = "close"
          PROVE  /\ entries'[l].fetchedAt \in Nat
                 /\ entries'[l].fetchedAt <= now'
                 /\ entries'[l].fetchedAt - entries'[l].startedAt <= ClientTimeout
                 /\ lastGood'[l] = entries'[l].fetchedAt
      <3>1. CASE l = k
        <4>1. e.startedAt = since[c] /\ now - since[c] <= ClientTimeout
          BY <1>1 DEF IInv, TimesOK
        <4> QED  BY <1>2, <1>3, <1>5, <3>1, <4>1
      <3>2. CASE l # k
        <4>1. entries[l] = entries'[l] /\ entries[l] \in Entry
          BY <1>3, <2>2, <3>2 DEF IInv, TypeOK
        <4>2. IsDone(entries[l]) \/ entries[l].owner # c
          BY <1>1, <2>2, <3>2, <4>1 DEF IInv, OwnersFetch
        <4>3. IsDone(entries[l]) \/ pc[entries[l].owner] = "close"
          BY <1>5, <2>2, <4>1, <4>2 DEF IsDone, Entry
        <4> QED  BY <1>5, <2>2, <3>2, <4>1, <4>3 DEF IInv, TimesOK
      <3> QED  BY <3>1, <3>2
    <2> QED  BY <2>1, <2>2 DEF TimesOK
  <1>11. AgesOK'
    BY <1>5 DEF IInv, TypeOK, AgesOK, Store, Ages
  <1>12. GoneMeansOld'
    BY <1>3, <1>4, <1>5 DEF IInv, GoneMeansOld, Ages
  <1>13. LoadBound'
    BY <1>1, <1>5 DEF IInv, TypeOK, LoadBound, Ages
  <1>14. WaitersHaveOwner'
    BY <1>1, <1>5 DEF IInv, TypeOK, WaitersHaveOwner, Store
  <1>15. StalenessBound'
    BY DEF IInv, StalenessBound, Store
  <1> QED  BY <1>6, <1>7, <1>8, <1>9, <1>10, <1>11, <1>12, <1>13, <1>14, <1>15 DEF IInv

LEMMA DiscardKeeps ==
    ASSUME IInv, NEW c \in Callers, Discard(c)
    PROVE  IInv'
  <1> DEFINE k == key[c]
  <1>1. /\ k \in Keys /\ entries[k].owner = c /\ OwnsEntry(c)
        /\ c # NoCaller /\ pc[c] = "fetch"
        /\ \A b \in Callers \ {c} : pc[b] \in {"fetch", "close"} => key[b] # k
    BY FetcherFacts DEF Discard
  <1>2. /\ entries'[k] = NoEntry
        /\ \A l \in Keys \ {k} : entries'[l] = entries[l]
        /\ entries' \in [Keys -> Entry \cup {NoEntry}]
    BY <1>1 DEF Discard, IInv, TypeOK
  <1>3. /\ pc'[c] = "closeErr" /\ key' = key /\ since' = since /\ now' = now
        /\ \A b \in Callers \ {c} : pc'[b] = pc[b]
        /\ lastGood' = lastGood
    BY <1>1 DEF IInv, TypeOK, Discard
  <1>4. TypeOK'
    BY <1>2 DEF IInv, TypeOK, Discard
  <1>5. FetchersOwn'
    BY <1>1, <1>2, <1>3 DEF IInv, TypeOK, FetchersOwn, OwnsEntry
  <1>6. OwnersFetch'
    BY <1>1, <1>2, <1>3 DEF IInv, TypeOK, OwnersFetch, IsDone, Entry
  <1>7. NoErrorKept'
    BY <1>2 DEF IInv, NoErrorKept
  <1>8. TimesOK'
    <2>1. \A b \in Callers : pc'[b] = "fetch" =>
            /\ since'[b] <= now' /\ now' - since'[b] <= ClientTimeout
            /\ entries'[key'[b]].startedAt = since'[b]
      BY <1>1, <1>2, <1>3 DEF IInv, TypeOK, TimesOK
    <2>2. ASSUME NEW l \in Keys, entries'[l] # NoEntry,
                 IsDone(entries'[l]) \/ pc'[entries'[l].owner] = "close"
          PROVE  /\ entries'[l].fetchedAt \in Nat
                 /\ entries'[l].fetchedAt <= now'
                 /\ entries'[l].fetchedAt - entries'[l].startedAt <= ClientTimeout
                 /\ lastGood'[l] = entries'[l].fetchedAt
      <3>1. entries[l] = entries'[l] /\ entries[l] \in Entry
        BY <1>2, <2>2 DEF IInv, TypeOK
      <3>2. IsDone(entries[l]) \/ pc[entries[l].owner] = "close"
        BY <1>3, <2>2, <3>1 DEF IsDone, Entry
      <3> QED  BY <1>3, <2>2, <3>1, <3>2 DEF IInv, TimesOK
    <2> QED  BY <2>1, <2>2 DEF TimesOK
  <1>9. AgesOK'
    BY <1>3 DEF IInv, TypeOK, AgesOK, Discard, Ages
  <1>10. GoneMeansOld'
    <2>1. lastGood[k] # Never => \E a \in Ages : now - lastGood[k] > a
      <3>1. SUFFICES ASSUME lastGood[k] # Never
                     PROVE  \E a \in Ages : now - lastGood[k] > a
        BY DEF Ages
      <3>2. PICK a \in Ages : since[c] - lastGood[k] > a
        BY <1>1, <3>1 DEF IInv, LoadBound
      <3>3. /\ now \in Nat /\ since[c] \in Nat /\ lastGood[k] \in Nat /\ a \in Nat
            /\ since[c] <= now
        BY <1>1, <3>1, EffectiveInAges DEF IInv, TypeOK, TimesOK
      <3> QED  BY <3>2, <3>3
    <2> QED  BY <1>2, <1>3, <2>1 DEF IInv, GoneMeansOld, Ages
  <1>11. LoadBound'
    BY <1>1, <1>3 DEF IInv, TypeOK, LoadBound, Ages
  <1>12. WaitersHaveOwner'
    BY <1>1, <1>3 DEF IInv, TypeOK, WaitersHaveOwner, Discard
  <1>13. StalenessBound'
    BY DEF IInv, StalenessBound, Discard
  <1> QED  BY <1>4, <1>5, <1>6, <1>7, <1>8, <1>9, <1>10, <1>11, <1>12, <1>13 DEF IInv

\* close(done) moves c's waiters on and nobody else, whatever it does to the
\* map.
LEMMA CloseDoneFacts ==
    ASSUME IInv, NEW c \in Callers, NEW failed \in BOOLEAN, CloseDone(c, failed),
           pc[c] \in {"close", "closeErr"}
    PROVE  /\ now' = now /\ calls' = calls /\ answer' = answer /\ lastGood' = lastGood
           /\ pc' \in [Callers -> {"idle", "loop", "wait", "fetch", "close", "closeErr"}]
           /\ key' \in [Callers -> Keys \cup {NoKey}]
           /\ maxAge' \in [Callers -> Nat]
           /\ since' \in [Callers -> Nat]
           /\ waitsFor' \in [Callers -> Callers \cup {NoCaller}]
           /\ pc'[c] = "idle"
           /\ \A b \in Callers \ {c} :
                /\ key'[b] = key[b] /\ maxAge'[b] = maxAge[b] /\ since'[b] = since[b]
                /\ IF pc[b] = "wait" /\ waitsFor[b] = c
                   THEN pc'[b] = "loop"
                   ELSE pc'[b] = pc[b] /\ waitsFor'[b] = waitsFor[b]
  BY DEF IInv, TypeOK, CloseDone, Released, Return

LEMMA CloseErrKeeps ==
    ASSUME IInv, NEW c \in Callers, CloseErr(c)
    PROVE  IInv'
  <1>1. ~OwnsEntry(c) \/ key[c] \notin Keys
    BY NamesAssumption DEF IInv, TypeOK, CloseErr, OwnsEntry, OwnersFetch, IsDone
  <1>2. entries' = entries
    BY <1>1 DEF IInv, TypeOK, CloseErr, CloseDone
  <1>3. CloseDone(c, TRUE) /\ pc[c] \in {"close", "closeErr"} /\ pc[c] = "closeErr"
    BY DEF CloseErr
  <1>4. /\ now' = now /\ calls' = calls /\ answer' = answer /\ lastGood' = lastGood
        /\ pc'[c] = "idle"
        /\ \A b \in Callers \ {c} :
             /\ key'[b] = key[b] /\ maxAge'[b] = maxAge[b] /\ since'[b] = since[b]
             /\ IF pc[b] = "wait" /\ waitsFor[b] = c
                THEN pc'[b] = "loop"
                ELSE pc'[b] = pc[b] /\ waitsFor'[b] = waitsFor[b]
    BY <1>3, CloseDoneFacts
  <1>5. TypeOK'
    BY <1>2, <1>3, <1>4, CloseDoneFacts DEF IInv, TypeOK
  <1>6. FetchersOwn' /\ OwnersFetch'
    <2>1. FetchersOwn'
      BY <1>2, <1>3, <1>4 DEF IInv, TypeOK, FetchersOwn, OwnsEntry, IsDone, Entry
    <2>2. OwnersFetch'
      BY <1>2, <1>3, <1>4 DEF IInv, TypeOK, OwnsEntry, OwnersFetch, IsDone, Entry
    <2> QED  BY <2>1, <2>2
  <1>7. NoErrorKept' /\ GoneMeansOld' /\ StalenessBound'
    BY <1>2, <1>4 DEF IInv, NoErrorKept, GoneMeansOld, StalenessBound, Ages
  <1>8. TimesOK'
    <2>1. \A b \in Callers : pc'[b] = "fetch" => b # c /\ pc[b] = "fetch"
      BY <1>4
    <2>2. \A l \in Keys : entries[l] # NoEntry /\ ~IsDone(entries[l]) =>
            pc'[entries[l].owner] = pc[entries[l].owner]
      BY <1>3, <1>4 DEF IInv, TypeOK, OwnersFetch, IsDone, Entry
    <2> QED  BY <1>2, <1>4, <2>1, <2>2 DEF IInv, TypeOK, TimesOK, IsDone
  <1>9. AgesOK' /\ LoadBound'
    BY <1>4 DEF IInv, TypeOK, AgesOK, LoadBound, Ages
  <1>10. WaitersHaveOwner'
    <2>1. SUFFICES ASSUME NEW b \in Callers, pc'[b] = "wait"
                   PROVE  /\ waitsFor'[b] \in Callers
                          /\ pc'[waitsFor'[b]] \in {"fetch", "close", "closeErr"}
                          /\ key'[waitsFor'[b]] = key'[b]
      BY DEF WaitersHaveOwner
    <2>2. b # c /\ pc[b] = "wait" /\ waitsFor[b] # c /\ waitsFor'[b] = waitsFor[b]
      BY <1>4, <2>1
    <2>3. /\ waitsFor[b] \in Callers /\ key[waitsFor[b]] = key[b]
          /\ pc[waitsFor[b]] \in {"fetch", "close", "closeErr"}
      BY <2>2 DEF IInv, WaitersHaveOwner
    <2> QED  BY <1>4, <2>2, <2>3
  <1> QED  BY <1>5, <1>6, <1>7, <1>8, <1>9, <1>10 DEF IInv

LEMMA CloseKeeps ==
    ASSUME IInv, NEW c \in Callers, Close(c)
    PROVE  IInv'
  <1> DEFINE k == key[c]
             e == entries[k]
  <1>1. CloseDone(c, FALSE) /\ pc[c] \in {"close", "closeErr"} /\ pc[c] = "close"
    BY DEF Close
  <1>2. /\ k \in Keys /\ e \in Entry /\ e # NoEntry /\ e.owner = c /\ OwnsEntry(c)
        /\ c # NoCaller /\ ~IsDone(e)
        /\ \A b \in Callers \ {c} : pc[b] \in {"fetch", "close"} => key[b] # k
    BY <1>1, FetcherFacts
  <1>3. /\ entries'[k] \in Entry
        /\ entries'[k].owner = NoCaller /\ ~entries'[k].err
        /\ entries'[k].startedAt = e.startedAt /\ entries'[k].fetchedAt = e.fetchedAt
        /\ \A l \in Keys \ {k} : entries'[l] = entries[l]
        /\ entries' \in [Keys -> Entry \cup {NoEntry}]
    BY <1>1, <1>2 DEF CloseDone, IInv, TypeOK, Entry
  <1>4. /\ now' = now /\ calls' = calls /\ answer' = answer /\ lastGood' = lastGood
        /\ pc'[c] = "idle"
        /\ \A b \in Callers \ {c} :
             /\ key'[b] = key[b] /\ maxAge'[b] = maxAge[b] /\ since'[b] = since[b]
             /\ IF pc[b] = "wait" /\ waitsFor[b] = c
                THEN pc'[b] = "loop"
                ELSE pc'[b] = pc[b] /\ waitsFor'[b] = waitsFor[b]
    BY <1>1, CloseDoneFacts
  <1>5. TypeOK'
    BY <1>1, <1>3, <1>4, CloseDoneFacts DEF IInv, TypeOK
  <1>6. FetchersOwn'
    BY <1>2, <1>3, <1>4 DEF IInv, TypeOK, FetchersOwn, OwnsEntry
  <1>7. OwnersFetch'
    BY <1>2, <1>3, <1>4 DEF IInv, TypeOK, OwnersFetch, IsDone, Entry
  <1>8. NoErrorKept'
    BY <1>3 DEF IInv, NoErrorKept
  <1>9. TimesOK'
    <2>1. \A b \in Callers : pc'[b] = "fetch" =>
            /\ since'[b] <= now' /\ now' - since'[b] <= ClientTimeout
            /\ entries'[key'[b]].startedAt = since'[b]
      <3>1. \A b \in Callers : pc'[b] = "fetch" =>
              /\ b # c /\ pc[b] = "fetch" /\ key'[b] = key[b] /\ since'[b] = since[b]
              /\ entries'[key[b]] = entries[key[b]]
        BY <1>2, <1>3, <1>4 DEF IInv, TypeOK
      <3> QED  BY <1>4, <3>1 DEF IInv, TimesOK
    <2>2. ASSUME NEW l \in Keys, entries'[l] # NoEntry,
                 IsDone(entries'[l]) \/ pc'[entries'[l].owner] = "close"
          PROVE  /\ entries'[l].fetchedAt \in Nat
                 /\ entries'[l].fetchedAt <= now'
                 /\ entries'[l].fetchedAt - entries'[l].startedAt <= ClientTimeout
                 /\ lastGood'[l] = entries'[l].fetchedAt
      <3>1. CASE l = k
        BY <1>1, <1>2, <1>3, <1>4, <3>1 DEF IInv, TimesOK
      <3>2. CASE l # k
        <4>1. entries[l] = entries'[l] /\ entries[l] \in Entry
          BY <1>3, <2>2, <3>2 DEF IInv, TypeOK
        <4>2. IsDone(entries[l]) \/ pc[entries[l].owner] = "close"
          BY <1>4, <2>2, <4>1 DEF IsDone, Entry
        <4> QED  BY <1>4, <2>2, <4>1, <4>2 DEF IInv, TimesOK
      <3> QED  BY <3>1, <3>2
    <2> QED  BY <2>1, <2>2 DEF TimesOK
  <1>10. AgesOK' /\ LoadBound'
    BY <1>4 DEF IInv, TypeOK, AgesOK, LoadBound, Ages
  <1>11. GoneMeansOld'
    BY <1>3, <1>4, EntryAssumption DEF IInv, GoneMeansOld, Ages
  <1>12. WaitersHaveOwner'
    <2>1. SUFFICES ASSUME NEW b \in Callers, pc'[b] = "wait"
                   PROVE  /\ waitsFor'[b] \in Callers
                          /\ pc'[waitsFor'[b]] \in {"fetch", "close", "closeErr"}
                          /\ key'[waitsFor'[b]] = key'[b]
      BY DEF WaitersHaveOwner
    <2>2. b # c /\ pc[b] = "wait" /\ waitsFor[b] # c /\ waitsFor'[b] = waitsFor[b]
      BY <1>4, <2>1
    <2>3. /\ waitsFor[b] \in Callers /\ key[waitsFor[b]] = key[b]
          /\ pc[waitsFor[b]] \in {"fetch", "close", "closeErr"}
      BY <2>2 DEF IInv, WaitersHaveOwner
    <2> QED  BY <1>4, <2>2, <2>3
  <1>13. StalenessBound'
    BY <1>4 DEF IInv, StalenessBound
  <1> QED  BY <1>5, <1>6, <1>7, <1>8, <1>9, <1>10, <1>11, <1>12, <1>13 DEF IInv

LEMMA TickKeeps ==
    ASSUME IInv, Tick
    PROVE  IInv'
  <1>1. TypeOK'
    BY DEF IInv, TypeOK, Tick
  <1>2. FetchersOwn' /\ OwnersFetch' /\ NoErrorKept'
    BY DEF IInv, Tick, FetchersOwn, OwnsEntry, OwnersFetch, IsDone, NoErrorKept
  <1>3. AgesOK' /\ LoadBound' /\ WaitersHaveOwner' /\ StalenessBound'
    BY DEF IInv, Tick, AgesOK, LoadBound, WaitersHaveOwner, StalenessBound, Ages
  <1>4. TimesOK'
    <2>1. \A b \in Callers : pc[b] = "fetch" =>
            /\ since[b] <= now' /\ now' - since[b] <= ClientTimeout
            /\ entries[key[b]].startedAt = since[b]
      BY AgesAssumption DEF IInv, TypeOK, Tick, TimesOK
    <2>2. ASSUME NEW l \in Keys, entries[l] # NoEntry,
                 IsDone(entries[l]) \/ pc[entries[l].owner] = "close"
          PROVE  /\ entries[l].fetchedAt \in Nat
                 /\ entries[l].fetchedAt <= now'
                 /\ entries[l].fetchedAt - entries[l].startedAt <= ClientTimeout
                 /\ lastGood[l] = entries[l].fetchedAt
      <3>1. /\ entries[l].fetchedAt \in Nat /\ entries[l].fetchedAt <= now
            /\ entries[l].fetchedAt - entries[l].startedAt <= ClientTimeout
            /\ lastGood[l] = entries[l].fetchedAt
        BY <2>2 DEF IInv, TimesOK
      <3>2. now \in Nat /\ now' = now + 1
        BY DEF IInv, TypeOK, Tick
      <3> QED  BY <3>1, <3>2
    <2> QED  BY <2>1, <2>2 DEF TimesOK, IsDone, Tick
  <1>5. GoneMeansOld'
    <2>1. SUFFICES ASSUME NEW l \in Keys, entries[l] = NoEntry, lastGood[l] # Never
                   PROVE  \E a \in Ages : now' - lastGood[l] > a
      BY DEF GoneMeansOld, Ages, Tick
    <2>2. PICK a \in Ages : now - lastGood[l] > a
      BY <2>1 DEF IInv, GoneMeansOld
    <2>3. now \in Nat /\ now' = now + 1 /\ lastGood[l] \in Nat /\ a \in Nat
      BY <2>1, EffectiveInAges DEF IInv, TypeOK, Tick
    <2> QED  BY <2>2, <2>3
  <1> QED  BY <1>1, <1>2, <1>3, <1>4, <1>5 DEF IInv

\* The inductive invariant.
THEOREM Invariance == Spec => []IInv
  <1>1. ASSUME IInv, [Next]_vars
        PROVE  IInv'
    <2>1. CASE UNCHANGED vars
      BY <1>1, <2>1 DEF vars, IInv, TypeOK, FetchersOwn, OwnsEntry, OwnersFetch, IsDone,
         NoErrorKept, TimesOK, AgesOK, GoneMeansOld, LoadBound, WaitersHaveOwner,
         StalenessBound, Ages
    <2>2. ASSUME NEW c \in Callers, Step(c)
          PROVE  IInv'
      BY <1>1, <2>2, HitKeeps, JoinKeeps, MissKeeps, StoreKeeps, DiscardKeeps, CloseKeeps,
         CloseErrKeeps DEF Step
    <2>3. ASSUME NEW c \in Callers, NEW k \in Keys, NEW d \in Durations, Call(c, k, d)
          PROVE  IInv'
      BY <1>1, <2>3, CallKeeps
    <2>4. CASE Tick
      BY <1>1, <2>4, TickKeeps
    <2> QED  BY <1>1, <2>1, <2>2, <2>3, <2>4 DEF Next
  <1> QED  BY <1>1, InitIInv, PTL DEF Spec

\* The variables keep their types.
THEOREM TypeCorrect == Spec => []TypeOK
  BY Invariance, PTL DEF IInv

\* request-share.go:74-96, 122-137: one request per key at a time, for any
\* number of callers, keys and calls.
THEOREM SingleFlightHolds == Spec => []SingleFlight
  <1>1. IInv => SingleFlight
    BY DEF IInv, TypeOK, FetchersOwn, OwnsEntry, SingleFlight
  <1> QED  BY <1>1, Invariance, PTL

\* Nobody blocks on an entry that nobody is going to close (88).
THEOREM WaitersHaveOwnerHolds == Spec => []WaitersHaveOwner
  BY Invariance, PTL DEF IInv

\* No caller gets a response that is older than its own maxAge and one client
\* timeout (79, 114).
THEOREM StalenessBoundHolds == Spec => []StalenessBound
  BY Invariance, PTL DEF IInv

\* No request is sent while the last good response is young enough for
\* everybody (79, 131).
THEOREM LoadBoundHolds == Spec => []LoadBound
  BY Invariance, PTL DEF IInv

-----------------------------------------------------------------------------
(***************************************************************************)
(* do() implements UpstreamCache: every step of SharedFetch is a step of   *)
(* UpstreamCache, or changes nothing that UpstreamCache sees.              *)
(***************************************************************************)
Busy == {key[c] : c \in {b \in Callers : pc[b] = "fetch"}}

FailedNow == {c \in Callers : pc[c] = "closeErr"}

\* A goroutine outside do() has no key.
IdleHasNoKey == \A c \in Callers : pc[c] = "idle" => key[c] = NoKey

LEMMA IdleHasNoKeyHolds == Spec => []IdleHasNoKey
  <1>1. Init => IdleHasNoKey
    BY DEF Init, IdleHasNoKey
  <1>2. ASSUME TypeOK, IdleHasNoKey, [Next]_vars
        PROVE  IdleHasNoKey'
    <2>1. CASE UNCHANGED vars
      BY <1>2, <2>1 DEF vars, IdleHasNoKey
    <2>2. ASSUME NEW c \in Callers, Step(c)
          PROVE  IdleHasNoKey'
      <3>1. CASE Hit(c)
        BY <1>2, <3>1 DEF TypeOK, IdleHasNoKey, Hit, Return
      <3>2. CASE Join(c) \/ Miss(c) \/ Store(c) \/ Discard(c)
        BY <1>2, <3>2 DEF TypeOK, IdleHasNoKey, Join, Miss, Store, Discard
      <3>3. CASE Close(c) \/ CloseErr(c)
        BY <1>2, <3>3 DEF TypeOK, IdleHasNoKey, Close, CloseErr, CloseDone, Return
      <3> QED  BY <2>2, <3>1, <3>2, <3>3 DEF Step
    <2>3. ASSUME NEW c \in Callers, NEW k \in Keys, NEW d \in Durations, Call(c, k, d)
          PROVE  IdleHasNoKey'
      BY <1>2, <2>3 DEF TypeOK, IdleHasNoKey, Call
    <2>4. CASE Tick
      BY <1>2, <2>4 DEF IdleHasNoKey, Tick
    <2> QED  BY <1>2, <2>1, <2>2, <2>3, <2>4 DEF Next
  <1> QED  BY <1>1, <1>2, TypeCorrect, PTL DEF Spec

\* The requests under way are those of the entries that are not done.
LEMMA NotBusy ==
    ASSUME IInv, NEW c \in Callers, key[c] \in Keys,
           entries[key[c]] # NoEntry => IsDone(entries[key[c]]) \/ pc[entries[key[c]].owner] = "close"
    PROVE  key[c] \notin Busy
  BY NamesAssumption DEF IInv, FetchersOwn, OwnsEntry, IsDone, Busy

LEMMA StepRefines ==
    ASSUME IInv, IdleHasNoKey, NEW c \in Callers, Step(c)
    PROVE  Promise!Next \/ UNCHANGED Promise!vars
  <1> USE DEF Promise!vars
  <1>1. CASE Hit(c)
    <2>1. Promise!Deliver(c)
      <3>1. key[c] \in Keys /\ key[c] # NoKey /\ entries[key[c]] # NoEntry
            /\ IsDone(entries[key[c]])
        BY <1>1, NamesAssumption DEF IInv, TypeOK, Hit
      <3>2. lastGood[key[c]] # -1
        BY <3>1 DEF IInv, TimesOK
      <3>3. key[c] \notin Busy
        BY <3>1, NotBusy
      <3>4. Busy' = Busy /\ FailedNow' = FailedNow /\ c \notin FailedNow
        BY <1>1 DEF IInv, TypeOK, Hit, Return, Busy, FailedNow
      <3>5. key' = [key EXCEPT ![c] = NoKey] /\ UNCHANGED <<now, lastGood>>
        BY <1>1 DEF Hit, Return
      <3> QED  BY <3>1, <3>2, <3>3, <3>4, <3>5 DEF Promise!Deliver, Busy, FailedNow
    <2> QED  BY <2>1 DEF Promise!Next
  <1>2. CASE Join(c)
    BY <1>2 DEF Join, IInv, TypeOK
  <1>3. CASE Miss(c)
    <2>1. Promise!Start(c)
      <3>1. /\ key[c] \in Keys /\ key[c] # NoKey
            /\ entries[key[c]] # NoEntry => IsDone(entries[key[c]])
        BY <1>3, NamesAssumption DEF IInv, TypeOK, Miss
      <3>2. key[c] \notin Busy
        BY <3>1, NotBusy
      <3>3. lastGood[key[c]] = -1 \/ \E a \in Ages : now - lastGood[key[c]] > a
        <4>1. LoadBound' /\ pc'[c] = "fetch" /\ since'[c] = now
              /\ key' = key /\ lastGood' = lastGood
          BY <1>3, MissKeeps DEF IInv, TypeOK, Miss
        <4> QED  BY <4>1 DEF LoadBound, Never, Ages
      <3>4. Busy' = Busy \cup {key[c]} /\ FailedNow' = FailedNow /\ c \notin FailedNow
        BY <1>3 DEF IInv, TypeOK, Miss, Busy, FailedNow
      <3>5. UNCHANGED <<now, key, lastGood>>
        BY <1>3 DEF Miss
      <3> QED  BY <3>1, <3>2, <3>3, <3>4, <3>5 DEF Promise!Start, Busy, FailedNow
    <2> QED  BY <2>1 DEF Promise!Next
  <1>4. CASE Store(c)
    <2>1. PICK k \in Keys : k = key[c]
      BY <1>4 DEF IInv, TypeOK, Store
    <2>2. Promise!Succeed(k)
      <3>1. \A b \in Callers \ {c} : pc[b] \in {"fetch", "close"} => key[b] # k
        BY <1>4, <2>1, FetcherFacts DEF Store
      <3>2. k \in Busy /\ Busy' = Busy \ {k} /\ FailedNow' = FailedNow
        BY <1>4, <2>1, <3>1 DEF IInv, TypeOK, Store, Busy, FailedNow
      <3>3. lastGood' = [lastGood EXCEPT ![k] = now] /\ UNCHANGED <<now, key>>
        BY <1>4, <2>1 DEF Store
      <3> QED  BY <3>2, <3>3 DEF Promise!Succeed, Busy, FailedNow
    <2> QED  BY <2>2 DEF Promise!Next
  <1>5. CASE Discard(c)
    <2>1. Promise!Fail(c)
      <3>1. \A b \in Callers \ {c} : pc[b] \in {"fetch", "close"} => key[b] # key[c]
        BY <1>5, FetcherFacts DEF Discard
      <3>2. /\ key[c] \in Busy /\ Busy' = Busy \ {key[c]}
            /\ FailedNow' = FailedNow \cup {c} /\ c \notin FailedNow
        BY <1>5, <3>1 DEF IInv, TypeOK, Discard, Busy, FailedNow
      <3>3. UNCHANGED <<now, key, lastGood>>
        BY <1>5 DEF Discard
      <3> QED  BY <3>2, <3>3 DEF Promise!Fail, Busy, FailedNow
    <2> QED  BY <2>1 DEF Promise!Next
  <1>6. CASE Close(c)
    <2>1. Promise!Deliver(c)
      <3>1. key[c] \in Keys /\ key[c] # NoKey /\ entries[key[c]] # NoEntry
            /\ entries[key[c]].owner = c /\ pc[c] = "close"
        BY <1>6, FetcherFacts, NamesAssumption DEF Close
      <3>2. lastGood[key[c]] # -1
        BY <3>1 DEF IInv, TimesOK
      <3>3. key[c] \notin Busy
        BY <3>1, NotBusy
      <3>4. Busy' = Busy /\ FailedNow' = FailedNow /\ c \notin FailedNow
        BY <1>6 DEF IInv, TypeOK, Close, CloseDone, Released, Return, Busy, FailedNow
      <3>5. key' = [key EXCEPT ![c] = NoKey] /\ UNCHANGED <<now, lastGood>>
        BY <1>6 DEF Close, CloseDone, Return
      <3> QED  BY <3>1, <3>2, <3>3, <3>4, <3>5 DEF Promise!Deliver, Busy, FailedNow
    <2> QED  BY <2>1 DEF Promise!Next
  <1>7. CASE CloseErr(c)
    <2>1. Promise!Report(c)
      <3>1. Busy' = Busy /\ FailedNow' = FailedNow \ {c} /\ c \in FailedNow
        BY <1>7 DEF IInv, TypeOK, CloseErr, CloseDone, Released, Return, Busy, FailedNow
      <3>2. key' = [key EXCEPT ![c] = NoKey] /\ UNCHANGED <<now, lastGood>>
        BY <1>7 DEF CloseErr, CloseDone, Return
      <3> QED  BY <3>1, <3>2 DEF Promise!Report, Busy, FailedNow
    <2> QED  BY <2>1 DEF Promise!Next
  <1> QED  BY <1>1, <1>2, <1>3, <1>4, <1>5, <1>6, <1>7 DEF Step

\* Whatever callers, clock and upstream do, do() behaves as UpstreamCache says:
\* request-share.go:68-137 implements what it promises.
THEOREM Refinement == Spec => KeepsPromise
  <1>1. Init => Promise!Init
    BY DEF Init, Promise!Init, Never
  <1>2. ASSUME IInv, IdleHasNoKey, [Next]_vars
        PROVE  [Promise!Next]_(Promise!vars)
    <2>1. CASE UNCHANGED vars
      BY <2>1 DEF vars, Promise!vars
    <2>2. ASSUME NEW c \in Callers, Step(c)
          PROVE  Promise!Next \/ UNCHANGED Promise!vars
      BY <1>2, <2>2, StepRefines
    <2>3. ASSUME NEW c \in Callers, NEW k \in Keys, NEW d \in Durations, Call(c, k, d)
          PROVE  Promise!Next
      <3>1. Promise!Ask(c, k)
        <4>1. key[c] = NoKey /\ key' = [key EXCEPT ![c] = k] /\ UNCHANGED <<now, lastGood>>
          BY <1>2, <2>3 DEF Call, IdleHasNoKey
        <4>2. Busy' = Busy /\ FailedNow' = FailedNow
          BY <1>2, <2>3 DEF IInv, TypeOK, Call, Busy, FailedNow
        <4> QED  BY <4>1, <4>2 DEF Promise!Ask, Busy, FailedNow
      <3> QED  BY <3>1 DEF Promise!Next
    <2>4. CASE Tick
      BY <2>4 DEF Tick, Promise!Tick, Promise!Next
    <2> QED  BY <1>2, <2>1, <2>2, <2>3, <2>4 DEF Next
  <1> QED  BY <1>1, <1>2, Invariance, IdleHasNoKeyHolds, PTL DEF Spec, KeepsPromise, Promise!Spec
=============================================================================
