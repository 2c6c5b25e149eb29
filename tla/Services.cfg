SPECIFICATION ServicesSpec
CONSTANTS
    a1 = a1
    a2 = a2
    Callers = {p1, p2, p3}
    NoCall = NoCall
    MaxCalls = 3
    Workers = {p1, p2, p3}
    Tasks = 4
    Sources = {s1, a1, a2}
    First = s1
    MaxVersion = 2
    v3 = v3
    old = old
    new = new
    Viewers = {a1, a2, v3}
    AppOf <- MCAppOf
    Apps = {old, new}
    Ages = {0, 1}
    Inodes = {1, 2, 3, 4}
    NoFile = NoFile
    Later = 2
    Tabs = {a1, a2}
    TodoTasks = {k1, k2}
    NoTab = NoTab
    MaxSaves = 3
    Renderers = {a1, a2}
    Testers = {a1, a2}
    Servers = {k1, k2}
    NoServer = NoServer
    Debounce = 2
    MaxResults = 3
    Askers = {a1, a2}
    MaxPulls = 2
    Full = 2
    Users = {a1, a2}
    MaxRemote = 3
    Broken = {2, 5}
    Poll = 1
    Interval = 1
    Slow = 2
    MaxNow = 1
    MaxStarts = 3
    Nobody = Nobody
    Pages = {o, g1, g2}
    Own = o
    Readers = {a1, a2}
    Items = {k1}
    Holders = {h1, h2, h3}
    Bookmarks = {h3}
    Bars = 2
    PerBar = 2
    Counts = {0, 3}
    Names = {n1, n2}
    Configured = n1
    ParentIds = {k1}
SYMMETRY MCSymmetry
CHECK_DEADLOCK FALSE
INVARIANTS SharedRuns PoolDelivers ImagesAreWhole CleanIsCurrent RecoversAtOnce TasksSurvive TestsAreSound StatusIsTrue TemplatesCatchUp FindsWhatIsAllowed DrawnAsTold
