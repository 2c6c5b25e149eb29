---------------------------- MODULE Singleflight ----------------------------
(***************************************************************************)
(* singleflight.go: callers that come while fn runs share its result.      *)
(* The Reddit widgets ask for their guest token through it.  A call is a   *)
(* number; current is the call whose fn runs.                              *)
(***************************************************************************)
EXTENDS Integers

CONSTANTS
    Callers,
    NoCall,         \* nil
    MaxCalls        \* bound on the calls made

ASSUME CallsAssumption == MaxCalls \in Nat /\ NoCall \notin Nat

VARIABLES
    current,    \* s.current
    calls,      \* calls made so far
    mine,       \* caller -> the call it runs or waits for
    at,         \* caller -> where it is in Do
    answered,   \* calls that have their value or error
    closed,     \* calls whose done is closed
    before      \* caller -> what was closed when it called

flightVars == <<current, calls, mine, at, answered, closed, before>>

Stages == {"idle", "waits", "runs", "ended", "reset", "returns"}

FlightTypeOK ==
    /\ current \in Nat \union {NoCall}
    /\ calls \in Nat
    /\ mine \in [Callers -> Nat \union {NoCall}]
    /\ at \in [Callers -> Stages]
    /\ answered \in SUBSET Nat /\ closed \in SUBSET Nat
    /\ before \in [Callers -> SUBSET Nat]

FlightInit == /\ current = NoCall /\ calls = 0 /\ answered = {} /\ closed = {}
              /\ mine = [p \in Callers |-> NoCall]
              /\ at = [p \in Callers |-> "idle"]
              /\ before = [p \in Callers |-> {}]

\* The first critical section of Do.
JoinCall(p) ==
    /\ at[p] = "idle" /\ current /= NoCall
    /\ at' = [at EXCEPT ![p] = "waits"]
    /\ mine' = [mine EXCEPT ![p] = current]
    /\ before' = [before EXCEPT ![p] = closed]
    /\ UNCHANGED <<current, calls, answered, closed>>

StartCall(p) ==
    /\ at[p] = "idle" /\ current = NoCall
    /\ calls < MaxCalls
    /\ at' = [at EXCEPT ![p] = "runs"]
    /\ calls' = calls + 1
    /\ current' = calls + 1
    /\ mine' = [mine EXCEPT ![p] = calls + 1]
    /\ before' = [before EXCEPT ![p] = closed]
    /\ UNCHANGED <<answered, closed>>

\* fn returns; its value or error goes to the call.
RunEnds(p) ==
    /\ at[p] = "runs"
    /\ at' = [at EXCEPT ![p] = "ended"]
    /\ answered' = answered \union {mine[p]}
    /\ UNCHANGED <<current, calls, mine, closed, before>>

\* A mutant: the call stays the current one.
ForgottenReset(p) ==
    /\ at[p] = "ended"
    /\ at' = [at EXCEPT ![p] = "reset"]
    /\ UNCHANGED <<current, calls, mine, answered, closed, before>>

\* The second critical section.
ResetCurrent(p) ==
    /\ at[p] = "ended"
    /\ at' = [at EXCEPT ![p] = "reset"]
    /\ current' = NoCall
    /\ UNCHANGED <<calls, mine, answered, closed, before>>

CloseDone(p) ==
    /\ at[p] = "reset"
    /\ at' = [at EXCEPT ![p] = "returns"]
    /\ closed' = closed \union {mine[p]}
    /\ UNCHANGED <<current, calls, mine, answered, before>>

WakeUp(p) ==
    /\ at[p] = "waits" /\ mine[p] \in closed
    /\ at' = [at EXCEPT ![p] = "returns"]
    /\ UNCHANGED <<current, calls, mine, answered, closed, before>>

ReturnResult(p) ==
    /\ at[p] = "returns"
    /\ at' = [at EXCEPT ![p] = "idle"]
    /\ mine' = [mine EXCEPT ![p] = NoCall]
    /\ before' = [before EXCEPT ![p] = {}]
    /\ UNCHANGED <<current, calls, answered, closed>>

FlightStep(p) == RunEnds(p) \/ ResetCurrent(p) \/ CloseDone(p) \/ WakeUp(p) \/ ReturnResult(p)

FlightNext == \E p \in Callers : JoinCall(p) \/ StartCall(p) \/ FlightStep(p)

FlightSpec == FlightInit /\ [][FlightNext]_flightVars

--------------------------------------------------------------------------------

\* fn runs once at a time, and what a caller is given is there and is not a
\* result that was already handed out when it called, however many calls end
\* and start between the end of a run and the time its waiters wake up.
SharedRuns ==
    /\ \A p, q \in Callers : at[p] = "runs" /\ at[q] = "runs" => p = q
    /\ \A p \in Callers :
          at[p] = "returns" => mine[p] \in answered /\ mine[p] \notin before[p]
=============================================================================
