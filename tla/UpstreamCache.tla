--------------------------- MODULE UpstreamCache ---------------------------
(***************************************************************************)
(* What sharedFetcher promises its callers, without entries, locks or      *)
(* channels: one upstream request per key at a time, none while the last   *)
(* good response is young enough for everybody, every good answer is the   *)
(* latest good response of its key, and every failed request is reported   *)
(* to exactly one caller.                                                  *)
(***************************************************************************)
EXTENDS Integers

CONSTANTS
    Callers, Keys,
    None,        \* no key
    Ages         \* how old a response may be for some caller

VARIABLES
    now,         \* the clock
    wants,       \* the key each caller is waiting for, or None
    busy,        \* the keys with a request under way
    latest,      \* per key, when its latest good response arrived, -1 if never
    failed       \* callers whose request failed and who were not told yet

vars == <<now, wants, busy, latest, failed>>

Init ==
    /\ now = 0
    /\ wants = [c \in Callers |-> None]
    /\ busy = {}
    /\ latest = [k \in Keys |-> -1]
    /\ failed = {}

Ask(c, k) ==
    /\ wants[c] = None
    /\ wants' = [wants EXCEPT ![c] = k]
    /\ UNCHANGED <<now, busy, latest, failed>>

\* A request starts because a caller wants the key and its latest response, if
\* there is one, is too old for some caller.
Start(c) ==
    LET k == wants[c] IN
    /\ k # None /\ c \notin failed
    /\ k \notin busy
    /\ latest[k] = -1 \/ \E a \in Ages : now - latest[k] > a
    /\ busy' = busy \cup {k}
    /\ UNCHANGED <<now, wants, latest, failed>>

Succeed(k) ==
    /\ k \in busy
    /\ busy' = busy \ {k}
    /\ latest' = [latest EXCEPT ![k] = now]
    /\ UNCHANGED <<now, wants, failed>>

Fail(c) ==
    /\ c \notin failed
    /\ wants[c] \in busy
    /\ busy' = busy \ {wants[c]}
    /\ failed' = failed \cup {c}
    /\ UNCHANGED <<now, wants, latest>>

Deliver(c) ==
    /\ wants[c] # None /\ c \notin failed
    /\ wants[c] \notin busy
    /\ latest[wants[c]] # -1
    /\ wants' = [wants EXCEPT ![c] = None]
    /\ UNCHANGED <<now, busy, latest, failed>>

Report(c) ==
    /\ c \in failed
    /\ failed' = failed \ {c}
    /\ wants' = [wants EXCEPT ![c] = None]
    /\ UNCHANGED <<now, busy, latest>>

Tick ==
    /\ now' = now + 1
    /\ UNCHANGED <<wants, busy, latest, failed>>

Next ==
    \/ \E c \in Callers, k \in Keys : Ask(c, k)
    \/ \E c \in Callers : Start(c) \/ Fail(c) \/ Deliver(c) \/ Report(c)
    \/ \E k \in Keys : Succeed(k)
    \/ Tick

Spec == Init /\ [][Next]_vars
=============================================================================
