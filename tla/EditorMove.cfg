SPECIFICATION EditorSpec
CONSTANTS
    main = main
    f = f
    g = g
    x1 = x1
    x2 = x2
    x3 = x3
    Requests = {r1, r2}
    r1 = r1
    r2 = r2
    MaxEdits = 3
    Main = main
    Files = {f, g}
    Parts = {x1, x2, x3}
    Bad = Bad
    Torn = Torn
    Absent = Absent
    None = None
    DepthLimit = 2
    MaxHandEdits = 1
    Starts <- MCStarts
    l1 = l1
    l2 = l2
    w1 = w1
    w2 = w2
    w3 = w3
    Lists = {l1, l2}
    Widgets = {w1, w2, w3}
    TreeStarts <- MCTreeStarts
    home = home
    news = news
    news2 = news2
    private = private
    ann = ann
    bob = bob
    homeWord = homeWord
    newsWord = newsWord
    privateWord = privateWord
    PageEntries = {home, news, news2, private}
    NameOf <- MCNameOf
    SlugOf <- MCSlugOf
    TitleSlug <- MCTitleSlug
    NoSlug = NoSlug
    ReadersOf <- MCReadersOf
    Editors = {ann, bob}
    RestrictedTo <- MCRestrictedTo
    EditingUsers = {}
    AllowEditing = TRUE
    Hidden = Hidden
    Versions <- MCVersions
    FirstVersion <- MCFirstVersion
    MaxChanges = 3
SYMMETRY MCSymmetry
CHECK_DEADLOCK FALSE
PROPERTIES MovesLoseNothing
