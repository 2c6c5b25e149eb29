SPECIFICATION Spec
CONSTANTS
    g = g
    w1 = w1
    w2 = w2
    Leaves = {w1, w2}
    Groups = {g}
    Members <- MCMembers
    Lazy = {w2}
    Polled = {w1}
    Browsers = {b1}
    Api = Api
    Prewarmers = {}
    Prewarm = Prewarm
    NoOne = NoOne
    ThePage = ThePage
    Period <- MCPeriod
    RetryCap = 1
    QueueCap = 2
    ApiAsks = {w2}
    Prompt = FALSE
CHECK_DEADLOCK FALSE
INVARIANTS InOrder
PROPERTIES NeverBeforeDue
