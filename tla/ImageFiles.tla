----------------------------- MODULE ImageFiles -----------------------------
(***************************************************************************)
(* The image cache (image_cache.go), for one image.  Each application has  *)
(* an imageCache of its own, with a map of downloads under way; around a   *)
(* reload two of them share the directory, and the name of the temporary   *)
(* file in it.  Opening that name truncates the file whoever else is       *)
(* writing to it, and renaming it takes it away from them.                 *)
(***************************************************************************)
EXTENDS Integers, FiniteSets

CONSTANTS
    Viewers,        \* goroutines that ask for the image
    AppOf,          \* viewer -> its application
    Apps,
    Ages,           \* maxAge of a caller; 0 keeps files forever
    Inodes,
    NoFile,         \* no such file, no entry, no caller
    Later           \* the one later hour the clock reaches

\* Whoever creates a file finds a free inode.
ImagesAssumption ==
    /\ AppOf \in [Viewers -> Apps] /\ NoFile \notin Viewers \union Inodes
    /\ IsFiniteSet(Viewers) /\ IsFiniteSet(Inodes)
    /\ Cardinality(Inodes) > Cardinality(Viewers)

VARIABLES
    hour,
    file,       \* the image in the directory: [mtime, inode], or NoFile
    temp,       \* the inode hashHex.tmp names, or NoFile
    content,    \* inode -> [opener, whole]: who truncated it last, and whether
                \* all of the image is in it
    openers,    \* inode -> all who have opened or renamed it
    opened,     \* viewer -> the inode it writes to
    inFlight,   \* application -> the viewer that downloads
    stage,      \* viewer -> where it is
    found,      \* viewers that saw a file before the lock
    waitsFor,   \* viewer -> the owner of the entry it found
    outcome     \* viewer -> what its entry says: "none", "url" or "error"

imageVars == <<hour, file, temp, content, openers, opened, inFlight, stage, found, waitsFor, outcome>>
disk == <<hour, file, temp, content, openers, opened>>

ImagesInit == /\ hour = 0 /\ file = NoFile /\ temp = NoFile
              /\ content = [i \in Inodes |-> [opener |-> NoFile, whole |-> FALSE]]
              /\ openers = [i \in Inodes |-> {}]
              /\ opened = [v \in Viewers |-> NoFile]
              /\ inFlight = [a \in Apps |-> NoFile]
              /\ stage = [v \in Viewers |-> "idle"]
              /\ found = {}
              /\ waitsFor = [v \in Viewers |-> NoFile]
              /\ outcome = [v \in Viewers |-> "none"]

Moves(v, to) == stage' = [stage EXCEPT ![v] = to]
Says(v, what) == outcome' = [outcome EXCEPT ![v] = what]

IsStale(maxAge) == hour - file.mtime > maxAge

UsesFile(maxAge) == file /= NoFile /\ (maxAge = 0 \/ ~IsStale(maxAge))

\* Before the lock.
Look(v, maxAge) ==
    /\ stage[v] = "idle"
    /\ found' = IF file = NoFile THEN found ELSE found \union {v}
    /\ IF UsesFile(maxAge) THEN Moves(v, "returns") /\ Says(v, "url")
                           ELSE Moves(v, "missed") /\ Says(v, "none")
    /\ UNCHANGED <<disk, inFlight, waitsFor>>

\* A mutant: everybody downloads.
EnterAlways(v) ==
    /\ stage[v] = "missed"
    /\ inFlight' = [inFlight EXCEPT ![AppOf[v]] = v]
    /\ Moves(v, "asks")
    /\ UNCHANGED <<disk, found, waitsFor, outcome>>

\* The first critical section.
EnterOrWait(v) ==
    /\ stage[v] = "missed"
    /\ IF inFlight[AppOf[v]] = NoFile
       THEN /\ inFlight' = [inFlight EXCEPT ![AppOf[v]] = v]
            /\ Moves(v, "asks") /\ UNCHANGED waitsFor
       ELSE /\ waitsFor' = [waitsFor EXCEPT ![v] = inFlight[AppOf[v]]]
            /\ Moves(v, "waits") /\ UNCHANGED inFlight
    /\ UNCHANGED <<disk, found, outcome>>

\* The answer is an image: os.Create, on the file that has the name or a new one.
InUse == {file.inode : f \in {file} \ {NoFile}} \union {opened[v] : v \in Viewers}
FreeInode == CHOOSE i \in Inodes : i \notin InUse

CreateTemp(v) ==
    /\ stage[v] = "asks"
    /\ LET inode == IF temp = NoFile THEN FreeInode ELSE temp
       IN /\ temp' = inode
          /\ opened' = [opened EXCEPT ![v] = inode]
          /\ content' = [content EXCEPT ![inode] = [opener |-> v, whole |-> FALSE]]
          /\ openers' = [openers EXCEPT ![inode] = {v} \union IF temp = NoFile THEN {} ELSE @]
    /\ Moves(v, "writes")
    /\ UNCHANGED <<hour, file, inFlight, found, waitsFor, outcome>>

\* Everything was written and closed.  What another one truncated after v had
\* opened it is not filled by v.
Written(v) == [content EXCEPT ![opened[v]].whole = @ \/ content[opened[v]].opener = v]

\* The name may be gone by now, or another's.
RenameTemp(v) ==
    /\ stage[v] = "writes"
    /\ content' = Written(v)
    /\ opened' = [opened EXCEPT ![v] = NoFile]
    /\ IF temp = NoFile
       THEN Moves(v, "failed") /\ UNCHANGED <<file, temp>>
       ELSE /\ file' = [mtime |-> hour, inode |-> temp]
            /\ temp' = NoFile
            /\ Moves(v, "stored")
    /\ openers' = IF temp = NoFile THEN openers ELSE [openers EXCEPT ![temp] = @ \union {v}]
    /\ UNCHANGED <<hour, inFlight, found, waitsFor, outcome>>

\* The body breaks off or is too large: what was written is removed by its name.
RemoveTemp(v) ==
    /\ stage[v] = "writes"
    /\ temp' = NoFile
    /\ opened' = [opened EXCEPT ![v] = NoFile]
    /\ Moves(v, "failed")
    /\ UNCHANGED <<hour, file, content, openers, inFlight, found, waitsFor, outcome>>

\* No answer, another status or type, or the file cannot be created.
DownloadFails(v) ==
    /\ stage[v] = "asks"
    /\ Moves(v, "failed")
    /\ UNCHANGED <<disk, inFlight, found, waitsFor, outcome>>

FallsBack(v) == v \in found

\* The second critical section, after the fallback to the file it had found.
LeaveFlight(v) ==
    /\ stage[v] \in {"stored", "failed"}
    /\ Says(v, IF stage[v] = "stored" \/ FallsBack(v) THEN "url" ELSE "error")
    /\ inFlight' = [inFlight EXCEPT ![AppOf[v]] = NoFile]
    /\ Moves(v, "closes")
    /\ UNCHANGED <<disk, found, waitsFor>>

\* close(entry.done) lets everybody who waits for the entry go on.
CloseEntry(v) ==
    LET waiting == {x \in Viewers : stage[x] = "waits" /\ waitsFor[x] = v}
    IN /\ stage[v] = "closes"
       /\ stage' = [x \in Viewers |-> IF x \in waiting \union {v} THEN "returns" ELSE stage[x]]
       /\ outcome' = [x \in Viewers |-> IF x \in waiting THEN outcome[v] ELSE outcome[x]]
       /\ waitsFor' = [x \in Viewers |-> IF x \in waiting THEN NoFile ELSE waitsFor[x]]
       /\ UNCHANGED <<disk, inFlight, found>>

Returns(v) ==
    /\ stage[v] = "returns"
    /\ Moves(v, "idle") /\ Says(v, "none")
    /\ found' = found \ {v}
    /\ UNCHANGED <<disk, inFlight, waitsFor>>

\* One step of time is enough to make a file stale for some and not for others.
HourPasses ==
    /\ hour /= Later /\ hour' = Later
    /\ UNCHANGED <<file, temp, content, openers, opened, inFlight, stage, found, waitsFor, outcome>>

ImagesNext ==
    \/ \E v \in Viewers : \/ EnterOrWait(v) \/ CreateTemp(v) \/ RenameTemp(v) \/ RemoveTemp(v)
                          \/ DownloadFails(v) \/ LeaveFlight(v) \/ CloseEntry(v) \/ Returns(v)
                          \/ \E age \in Ages : Look(v, age)
    \/ HourPasses

--------------------------------------------------------------------------------

\* What is served under the image's name is the whole image.  Only two
\* applications that download it at the same time can leave it torn: they open
\* the same temporary file, and the rename of one takes what the other is still
\* writing to, or will break off.
ImagesAreWhole ==
    file /= NoFile /\ ~content[file.inode].whole =>
        \E v, w \in openers[file.inode] : AppOf[v] /= AppOf[w]
=============================================================================
