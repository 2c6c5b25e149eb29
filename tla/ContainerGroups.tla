--------------------------- MODULE ContainerGroups --------------------------
(***************************************************************************)
(* What the Docker containers widget makes of the list the socket gives:   *)
(* labels of the config laid over those of the containers, containers that *)
(* are configured and missing, hidden ones, one category, and children     *)
(* under the parent they name.                                             *)
(***************************************************************************)
EXTENDS Naturals, FiniteSets

CONSTANTS
    Names,
    Configured,     \* the name with labels in the config
    ParentIds             \* ids of parents

VARIABLES
    options,    \* [hide, missing, runningOnly, category]
    overrides,  \* the labels of Configured: [hide, id, parent, category], of them those that are set
    containers,    \* name -> container the socket knows: [state, hide, id, parent, category]
    grouped,    \* whether the list is done
    shown       \* top-level containers

groupVars == <<options, overrides, containers, grouped, shown>>

Unset == "unset"

Hides == {Unset, "yes", "no"}
IdLabels == ParentIds \union {Unset}
Labels == [hide : Hides, id : IdLabels, parent : IdLabels, category : {Unset, "media"}]


Icon(state) ==
    CASE state = "running" -> "ok"
      [] state = "paused" -> "paused"
      [] state \in {"exited", "missing"} -> "warn"
      [] OTHER -> "other"

\* Labels that the config sets win.
Over(labels) ==
    [l \in DOMAIN labels |-> IF overrides[l] /= Unset THEN overrides[l] ELSE labels[l]]

Listed == {n \in DOMAIN containers : options.runningOnly => containers[n].state \in {"running", "paused", "restarting"}}

Missing == IF options.missing /\ ~options.runningOnly THEN {Configured} \ Listed ELSE {}

Labelled(n) ==
    IF n \in Missing THEN [name |-> n, state |-> "missing", labels |-> overrides]
    ELSE [name |-> n, state |-> containers[n].state,
          labels |-> IF n = Configured THEN Over(containers[n].labels) ELSE containers[n].labels]

Source == {c \in {Labelled(n) : n \in Listed \union Missing} :
    options.category = Unset \/ c.labels.category = options.category}

Hidden(c) == IF c.labels.hide /= Unset THEN c.labels.hide = "yes" ELSE options.hide

Visible == {c \in Source : ~Hidden(c)}

IsChild(c) == c.labels.id = Unset /\ c.labels.parent /= Unset

Children(parent) ==
    IF parent.labels.id = Unset THEN {}
    ELSE {c \in Visible : IsChild(c) /\ c.labels.parent = parent.labels.id}

\* A mutant: the icon is the parent's own.
OwnIcon(parent) == Icon(parent.state)

TopIcon(parent) ==
    IF \E c \in Children(parent) : Icon(c.state) = "warn" THEN "warn" ELSE Icon(parent.state)

Top(c) ==
    [name |-> c.name, icon |-> TopIcon(c),
     children |-> {[name |-> k.name, icon |-> Icon(k.state)] : k \in Children(c)}]

GroupsInit ==
    /\ options \in [hide : BOOLEAN, missing : BOOLEAN, runningOnly : BOOLEAN, category : {Unset, "media"}]
    /\ overrides \in Labels
    /\ containers = <<>>
    /\ grouped = FALSE /\ shown = {}

\* The socket's answer; one that is not configured has plain labels but one.
Plain == [hide |-> Unset, id |-> Unset, parent |-> Unset, category |-> "media"]

Answer(n, state, labels) ==
    /\ ~grouped /\ n \notin DOMAIN containers
    /\ containers' = [m \in DOMAIN containers \union {n} |->
            IF m = n THEN [state |-> state, labels |-> labels] ELSE containers[m]]
    /\ UNCHANGED <<options, overrides, grouped, shown>>

Group ==
    /\ ~grouped /\ grouped' = TRUE
    /\ shown' = {Top(c) : c \in {c \in Visible : ~IsChild(c)}}
    /\ UNCHANGED <<options, overrides, containers>>

GroupsNext ==
    \/ \E n \in Names, state \in {"running", "exited"}, id, parent \in IdLabels :
            Answer(n, state, [Plain EXCEPT !.id = id, !.parent = parent])
    \/ Group

GroupsSpec == GroupsInit /\ [][GroupsNext]_groupVars

----------------------------------------------------------------------------
\* A container that is not hidden and stopped or missing is seen as a warning at
\* the top level, by itself or through its parent, as long as the parent it names
\* is there and visible too; and nothing else warns.
Warned == {t \in shown : t.icon = "warn"}

ProblemsAreSeen ==
    grouped =>
        /\ \A c \in Visible :
            Icon(c.state) = "warn" /\ (IsChild(c) => \E p \in Visible : p.labels.id = c.labels.parent)
            => \E t \in Warned : t.name = c.name \/ \E k \in t.children : k.name = c.name
        /\ \A t \in Warned : \E c \in Visible :
            Icon(c.state) = "warn" /\ (c.name = t.name \/ \E k \in t.children : k.name = c.name)
=============================================================================
