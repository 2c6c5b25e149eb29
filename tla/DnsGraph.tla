------------------------------ MODULE DnsGraph ------------------------------
(***************************************************************************)
(* The graph of a DNS widget: the queries of the last day and how many of  *)
(* them were blocked, in bars of a few hours.  Each service sends series of*)
(* its own form.                                                           *)
(***************************************************************************)
EXTENDS Integers, Sequences, FiniteSetsExt, Functions

CONSTANTS
    Bars,
    PerBar,         \* points of a series in a bar
    Counts          \* what a point may be

GraphAssumption == Bars \in Nat /\ PerBar \in Nat \ {0} /\ Counts \subseteq Nat

VARIABLES
    input,      \* [service, queries, blocked]
    graph       \* bar -> [queries, blocked, total], or NoGraph

graphVars == <<input, graph>>

NoGraph == <<>>
Span == Bars * PerBar

Total(f, S) == FoldFunctionOnSet(LAMBDA x, y : x + y, 0, f, S)

PercentOf(part, all) == (part * 100) \div all

Highest(bar) == Max({0} \union {bar[i].queries : i \in 1..Bars})

\* Of no queries at all the percentage is that of 0 in 0, whose conversion to an
\* integer is up to the machine: none that it gives is drawn.  Blocky's is not
\* computed then.
Unheard(service) == IF service = "blocky" THEN {0} ELSE {0, -1}

Heights(bar, none) ==
    [i \in 1..Bars |-> [queries |-> bar[i].queries, blocked |-> bar[i].blocked,
        total |-> IF Highest(bar) = 0 THEN none ELSE PercentOf(bar[i].queries, Highest(bar))]]

\* AdGuard and Technitium: the last points, after zeros where there are too few.
Padded(s) ==
    IF Len(s) > Span THEN SubSeq(s, Len(s) - Span + 1, Len(s)) ELSE [i \in 1..(Span - Len(s)) |-> 0] \o s

Hours(i) == ((i - 1) * PerBar + 1)..(i * PerBar)

PaddedBars(queries, blocked) ==
    [i \in 1..Bars |-> [queries |-> Total(Padded(queries), Hours(i)), blocked |-> Total(Padded(blocked), Hours(i))]]

\* Pi-hole: the whole day or nothing; version 6 sends a point more.
WholeDay(service, s) == Len(s) = IF service = "pihole 6" THEN Span + 1 ELSE Span

DayBars(queries, blocked) ==
    [i \in 1..Bars |-> [queries |-> Total(queries, Hours(i)), blocked |-> Total(blocked, Hours(i))]]

Pihole6Bars(queries, blocked) == DayBars(Tail(queries), Tail(blocked))

\* Blocky: a point is a bar; what is blocked is counted from its own first point.
LastBars(s) == IF Len(s) > Bars THEN SubSeq(s, Len(s) - Bars + 1, Len(s)) ELSE s

BlockyBars(queries, blocked) ==
    LET q == LastBars(queries)
        b == LastBars(blocked)
        offset == Bars - Len(q)
    IN [i \in 1..Bars |->
            [queries |-> IF i > offset THEN q[i - offset] ELSE 0,
             blocked |-> IF i > offset /\ i - offset <= Len(b) THEN b[i - offset] ELSE 0]]

Services == {"adguard", "technitium", "pihole 5", "pihole 6", "blocky"}
SeriesOf(service) ==
    UNION {[1..n -> Counts] : n \in 0..(IF service = "blocky" THEN Bars + 1 ELSE Span + 1)}

GraphInit ==
    /\ input \in UNION {[service : {s}, queries : SeriesOf(s), blocked : SeriesOf(s)] : s \in Services}
    /\ graph = NoGraph

Draw ==
    LET service == input.service
        bars == CASE service \in {"adguard", "technitium"} -> PaddedBars(input.queries, input.blocked)
                  [] service = "blocky" -> BlockyBars(input.queries, input.blocked)
                  [] service = "pihole 5" -> DayBars(input.queries, input.blocked)
                  [] service = "pihole 6" -> Pihole6Bars(input.queries, input.blocked)
    IN /\ graph = NoGraph
       /\ service \in {"pihole 5", "pihole 6"} => WholeDay(service, input.queries) /\ WholeDay(service, input.blocked)
       /\ \E none \in Unheard(service) : graph' = Heights(bars, none)
       /\ UNCHANGED input

GraphNext == Draw

GraphSpec == GraphInit /\ [][GraphNext]_graphVars

----------------------------------------------------------------------------
\* What a series says of a while ago, in points: its last point is the latest.
Ago(s, k) == IF k < Len(s) THEN s[Len(s) - k] ELSE 0

Points == IF input.service = "blocky" THEN 1 ELSE PerBar

Sum(s, i) == Total([k \in 0..Span |-> Ago(s, k)], ((Bars - i) * Points)..((Bars - i + 1) * Points - 1))

\* Every bar counts the queries and the blocked ones of its own hours, whatever a
\* service sends, and the highest fills the graph; with no queries at all nothing
\* is drawn.  Blocky's are, when as many points are blocked as asked.
BarsAreTrue ==
    graph /= NoGraph /\ (input.service = "blocky" => Len(input.queries) = Len(input.blocked)) =>
        /\ \A i \in 1..Bars : graph[i].queries = Sum(input.queries, i) /\ graph[i].blocked = Sum(input.blocked, i)
        /\ \A i \in 1..Bars : graph[i].total <= 100 /\ (graph[i].queries = 0 => graph[i].total <= 0)
        /\ Highest(graph) > 0 => \E i \in 1..Bars : graph[i].total = 100
=============================================================================
