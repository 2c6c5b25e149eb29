------------------------------ MODULE Services ------------------------------
(***************************************************************************)
(* What works under the widgets: the helpers they fetch with (WorkerPool,  *)
(* Singleflight, ImageFiles), what a round of one makes of the answers     *)
(* (WidgetRounds), and the widgets with state of their own.  None of these *)
(* reads another's state; part says which one a behaviour follows.         *)
(***************************************************************************)
EXTENDS Singleflight, WorkerPool, WidgetRounds

CONSTANTS
    Viewers, AppOf, Apps, Ages, Inodes, NoFile, Later,
    Tabs, TodoTasks, NoTab, MaxSaves,
    Renderers, Testers, Servers, NoServer, Debounce, MaxResults,
    Askers, MaxPulls, Full,
    Users, MaxRemote, Broken, Poll, Interval, Slow, MaxNow, MaxStarts, Nobody,
    Pages, Own, Readers, Items, Holders, Bookmarks,
    Bars, PerBar, Counts,
    Names, Configured, ParentIds

VARIABLES
    part,
    \* ImageFiles
    hour, file, temp, content, openers, opened, inFlight, stage, found, waitsFor, outcome,
    stored, tx, tab, puts, saves, sent, kept, deleted, careless,                \* TodoLists
    running, result, previous, lastErr, selected, resultAge, test, broken, render, \* SpeedtestRuns
    pullsSeq, pulls, pull, asker, minute,                                       \* DockerPulls
    remote, time, template, meta, lock, user, starts, overlap,                  \* TemplateCache
    allowed, home, includes, crosses, targets,                                  \* SearchTargets
    input, graph,                                                               \* DnsGraph
    options, overrides, containers, grouped, shown                              \* ContainerGroups

Images == INSTANCE ImageFiles
Todo == INSTANCE TodoLists WITH Tasks <- TodoTasks
Speed == INSTANCE SpeedtestRuns
Docker == INSTANCE DockerPulls
Dyna == INSTANCE TemplateCache
Search == INSTANCE SearchTargets
Dns == INSTANCE DnsGraph
Groups == INSTANCE ContainerGroups

ASSUME PartsAssumption ==
    /\ Images!ImagesAssumption /\ Todo!TodoAssumption /\ Speed!SpeedAssumption
    /\ Docker!PullsAssumption /\ Dyna!TemplateAssumption /\ Search!PagesAssumption
    /\ Dns!GraphAssumption

imageVars == <<hour, file, temp, content, openers, opened, inFlight, stage, found, waitsFor, outcome>>
todoVars == <<stored, tx, tab, puts, saves, sent, kept, deleted, careless>>
speedVars == <<running, result, previous, lastErr, selected, resultAge, test, broken, render>>
pullVars == <<pullsSeq, pulls, pull, asker, minute>>
templateVars == <<remote, time, template, meta, lock, user, starts, overlap>>
searchVars == <<allowed, home, includes, crosses, targets>>
graphVars == <<input, graph>>
groupVars == <<options, overrides, containers, grouped, shown>>

widgetVars == <<todoVars, speedVars, pullVars, templateVars, searchVars, graphVars, groupVars>>
helperVars == <<flightVars, poolVars, imageVars>>
servicesVars == <<part, helperVars, roundVars, widgetVars>>

--------------------------------------------------------------------------------

\* A part that is not followed stays at one of its starts.
ServicesInit ==
    /\ part \in {"flight", "pool", "images", "rounds", "todo", "speed", "pulls", "templates",
                 "search", "graph", "groups"}
    /\ FlightInit /\ PoolInit /\ Images!ImagesInit /\ RoundsInit
    /\ Todo!TodoInit /\ Speed!SpeedInit /\ Docker!PullsInit /\ Dyna!TemplateInit
    /\ part /= "rounds" => widget.kind = "rss" /\ widget.token = "none"
    /\ part /= "todo" => stored = {CHOOSE t \in TodoTasks : TRUE}
    /\ IF part = "search" THEN Search!SearchInit
       ELSE /\ allowed = << >> /\ home = << >> /\ targets = << >>
            /\ includes = {} /\ crosses = {}
    /\ IF part = "graph" THEN Dns!GraphInit ELSE input = << >> /\ graph = Dns!NoGraph
    /\ IF part = "groups" THEN Groups!GroupsInit
       ELSE /\ options = << >> /\ overrides = << >> /\ containers = << >>
            /\ grouped = FALSE /\ shown = {}

HelperNext ==
    /\ \/ part = "flight" /\ FlightNext /\ UNCHANGED <<poolVars, imageVars>>
       \/ part = "pool" /\ PoolNext /\ UNCHANGED <<flightVars, imageVars>>
       \/ part = "images" /\ Images!ImagesNext /\ UNCHANGED <<flightVars, poolVars>>
    /\ UNCHANGED <<roundVars, widgetVars>>

WidgetNext ==
    /\ \/ /\ part = "todo" /\ Todo!TodoNext
          /\ UNCHANGED <<speedVars, pullVars, templateVars, searchVars, graphVars, groupVars>>
       \/ /\ part = "speed" /\ Speed!SpeedNext
          /\ UNCHANGED <<todoVars, pullVars, templateVars, searchVars, graphVars, groupVars>>
       \/ /\ part = "pulls" /\ Docker!PullsNext
          /\ UNCHANGED <<todoVars, speedVars, templateVars, searchVars, graphVars, groupVars>>
       \/ /\ part = "templates" /\ Dyna!TemplateNext
          /\ UNCHANGED <<todoVars, speedVars, pullVars, searchVars, graphVars, groupVars>>
       \/ /\ part = "search" /\ Search!SearchNext
          /\ UNCHANGED <<todoVars, speedVars, pullVars, templateVars, graphVars, groupVars>>
       \/ /\ part = "graph" /\ Dns!GraphNext
          /\ UNCHANGED <<todoVars, speedVars, pullVars, templateVars, searchVars, groupVars>>
       \/ /\ part = "groups" /\ Groups!GroupsNext
          /\ UNCHANGED <<todoVars, speedVars, pullVars, templateVars, searchVars, graphVars>>
    /\ UNCHANGED <<helperVars, roundVars>>

ServicesNext ==
    \/ HelperNext /\ UNCHANGED part
    \/ part = "rounds" /\ RoundsNext /\ UNCHANGED <<part, helperVars, widgetVars>>
    \/ WidgetNext /\ UNCHANGED part

ServicesSpec == ServicesInit /\ [][ServicesNext]_servicesVars

--------------------------------------------------------------------------------
\* The properties of the parts, see their modules.  SharedRuns, PoolDelivers,
\* CleanIsCurrent and RecoversAtOnce are checked as they stand.

ImagesAreWhole == part = "images" => Images!ImagesAreWhole

TasksSurvive == part = "todo" => Todo!TasksSurvive

TestsAreSound == part = "speed" => Speed!TestsAreSound

StatusIsTrue == part = "pulls" => Docker!StatusIsTrue

TemplatesCatchUp == part = "templates" => Dyna!TemplatesCatchUp

FindsWhatIsAllowed == part = "search" => Search!FindsWhatIsAllowed

\* What a graph or a list draws is what its service said: BarsAreTrue of DnsGraph
\* and ProblemsAreSeen of ContainerGroups.
DrawnAsTold ==
    /\ part = "graph" => Dns!BarsAreTrue
    /\ part = "groups" => Groups!ProblemsAreSeen
=============================================================================
