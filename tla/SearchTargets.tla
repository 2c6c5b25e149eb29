---------------------------- MODULE SearchTargets ---------------------------
(***************************************************************************)
(* What a search widget offers to find: bookmarks, which are known when    *)
(* the application starts, and containers and sites, which other widgets   *)
(* publish when they have updated.  The HTML of the widget is the same for *)
(* all; targets of other pages that not everybody may see come with a      *)
(* request of their own.                                                   *)
(***************************************************************************)
EXTENDS Naturals

CONSTANTS
    Pages,
    Own,            \* the page the search widget is on
    Readers,
    Items,
    Holders,        \* widgets with targets
    Bookmarks       \* those of them that hold bookmarks; the others publish

PagesAssumption == Own \in Pages

VARIABLES
    allowed,    \* page -> who may see it; {} for everybody
    home,       \* holder -> its page
    includes,   \* the kinds the search widget finds
    crosses,    \* the kinds it finds on other pages as well
    targets     \* holder -> its targets

searchVars == <<allowed, home, includes, crosses, targets>>

Kind(h) == IF h \in Bookmarks THEN "bookmark" ELSE "live"
Kinds == {"bookmark", "live"}

SearchInit ==
    /\ allowed \in [Pages -> SUBSET Readers]
    /\ home \in [Holders -> Pages]
    /\ includes \in SUBSET Kinds
    /\ crosses \in SUBSET Kinds
    /\ targets = [h \in Holders |-> IF h \in Bookmarks THEN Items ELSE {}]

\* A widget that has updated replaces what it published.
Publish(h, found) ==
    /\ h \notin Bookmarks /\ found /= targets[h]
    /\ targets' = [targets EXCEPT ![h] = found]
    /\ UNCHANGED <<allowed, home, includes, crosses>>

SearchNext == \E h \in Holders, found \in SUBSET Items : Publish(h, found)

SearchSpec == SearchInit /\ [][SearchNext]_searchVars

----------------------------------------------------------------------------
\* collectBookmarks and collectLiveMatches.
Searched(h) == Kind(h) \in includes /\ (Kind(h) \in crosses \/ home[h] = Own)

Matches ==
    UNION {{[kind |-> Kind(h), item |-> i, source |-> home[h]] : i \in targets[h]} :
              h \in {x \in Holders : Searched(x)}}

CanAccess(v, p) == allowed[p] = {} \/ v \in allowed[p]

Restricted(p) == p /= Own /\ allowed[p] /= {}

Key(m) == <<m.kind, m.item>>

\* A mutant: doubles are dropped before it is known which one may stay.
FilteredLate(matches, kept) ==
    LET one == {CHOOSE m \in matches : Key(m) = k : k \in {Key(x) : x \in matches}}
    IN {Key(m) : m \in {x \in one : x.source \in kept}}

Filtered(matches, kept) == {Key(m) : m \in {x \in matches : x.source \in kept}}

PublicTargets == Filtered(Matches, {p \in Pages : ~Restricted(p)})

RestrictedTargets(v) ==
    Filtered(Matches, {p \in Pages : Restricted(p) /\ CanAccess(v, p)})

\* The browser asks for more only if the HTML says so.
HasRestrictedTargets == crosses /= {} /\ \E p \in Pages : Restricted(p)

\* Whoever may see the page of the search widget finds every target of the pages
\* they may see, and no other: neither in the HTML that all share nor in the
\* answer to their request, whichever pages hold the same target.
FindsWhatIsAllowed ==
    \A v \in {v \in Readers : CanAccess(v, Own)} :
        PublicTargets \union (IF HasRestrictedTargets THEN RestrictedTargets(v) ELSE {})
            = {Key(m) : m \in {m \in Matches : CanAccess(v, m.source)}}
=============================================================================
