----------------------------- MODULE DockerPulls ----------------------------
(***************************************************************************)
(* Pulling images from a page (widget-docker-controller.go): a request     *)
(* starts a goroutine per pull, others ask how far it is.  A pull lives in *)
(* the widget's map until a minute after its end.  A status takes done and *)
(* err in one critical section of the pull and its layers in another.      *)
(***************************************************************************)
EXTENDS Integers, FiniteSets

CONSTANTS
    Askers,
    MaxPulls,       \* bound on pulls
    Full            \* what the layers add up to

PullsAssumption == MaxPulls \in Nat /\ Full \in Nat \ {0}

VARIABLES
    pullsSeq,
    pulls,      \* the ids in widget.pulls
    pull,       \* id -> [layers, done, err], whether or not it is in the map
    asker,      \* asker -> [at, id, done, err], and the reply
    minute      \* pulls whose timer has been set

pullVars == <<pullsSeq, pulls, pull, asker, minute>>

Ids == 1..MaxPulls
Fresh == [layers |-> 0, done |-> FALSE, err |-> FALSE]
Quiet == [at |-> "none", id |-> 0, done |-> FALSE, err |-> FALSE, percent |-> 0]

PullsInit == /\ pullsSeq = 0 /\ pulls = {} /\ minute = {}
             /\ pull = [i \in Ids |-> Fresh]
             /\ asker = [a \in Askers |-> Quiet]

StartPull ==
    /\ pullsSeq < MaxPulls
    /\ pullsSeq' = pullsSeq + 1
    /\ pulls' = pulls \union {pullsSeq + 1}
    /\ UNCHANGED <<pull, asker, minute>>

Pulling(i) == i <= pullsSeq /\ ~pull[i].done

\* A layer may be counted again when it is unpacked.
SetLayerProgress(i) ==
    /\ Pulling(i)
    /\ \E n \in 0..Full : n /= pull[i].layers /\ pull' = [pull EXCEPT ![i].layers = n]
    /\ UNCHANGED <<pullsSeq, pulls, asker, minute>>

\* No answer, a status, an error in the stream, five minutes, or its end.
EndPull(i) ==
    /\ Pulling(i)
    /\ \E failed \in BOOLEAN : pull' = [pull EXCEPT ![i].done = TRUE, ![i].err = failed]
    /\ minute' = minute \union {i}
    /\ UNCHANGED <<pullsSeq, pulls, asker>>

ForgetPull(i) ==
    /\ i \in minute
    /\ pulls' = pulls \ {i} /\ minute' = minute \ {i}
    /\ UNCHANGED <<pullsSeq, pull, asker>>

--------------------------------------------------------------------------------

FindPull(a, i) ==
    /\ asker[a].at = "none" /\ i <= pullsSeq
    /\ asker' = [asker EXCEPT ![a] = [Quiet EXCEPT !.id = i,
                    !.at = IF i \in pulls THEN "found" ELSE "not found"]]
    /\ UNCHANGED <<pullsSeq, pulls, pull, minute>>

ReadEnd(a) ==
    /\ asker[a].at = "found"
    /\ asker' = [asker EXCEPT ![a].at = "ended", ![a].done = pull[asker[a].id].done,
                              ![a].err = pull[asker[a].id].err]
    /\ UNCHANGED <<pullsSeq, pulls, pull, minute>>

\* A mutant: all there is is all there will be.
PercentFull(p) == (100 * p.layers) \div Full

\* percent() keeps 100 for the end.
Percent(p) == LET n == (100 * p.layers) \div Full IN IF n > 99 THEN 99 ELSE n

ReadPercent(a) ==
    /\ asker[a].at = "ended"
    /\ asker' = [asker EXCEPT ![a].at = "told", ![a].percent =
                    IF asker[a].done /\ ~asker[a].err THEN 100 ELSE Percent(pull[asker[a].id])]
    /\ UNCHANGED <<pullsSeq, pulls, pull, minute>>

AskLater(a) ==
    /\ asker[a].at \in {"told", "not found"}
    /\ asker' = [asker EXCEPT ![a] = Quiet]
    /\ UNCHANGED <<pullsSeq, pulls, pull, minute>>

PullsNext ==
    \/ StartPull
    \/ \E i \in Ids : SetLayerProgress(i) \/ EndPull(i) \/ ForgetPull(i)
    \/ \E a \in Askers : \/ ReadEnd(a) \/ ReadPercent(a) \/ AskLater(a)
                         \/ \E i \in Ids : FindPull(a, i)

PullsSpec == PullsInit /\ [][PullsNext]_pullVars

--------------------------------------------------------------------------------

\* A status says 100 only of a pull that has ended without an error, and the
\* pull somebody was given an id for is not found only after its end.
StatusIsTrue ==
    \A a \in Askers :
        /\ asker[a].at = "told" /\ asker[a].percent = 100 =>
              pull[asker[a].id].done /\ ~pull[asker[a].id].err
        /\ asker[a].at = "not found" => pull[asker[a].id].done
=============================================================================
