SPECIFICATION FairSpec
CONSTANTS
    g = g
    w1 = w1
    w2 = w2
    Leaves = {w1}
    Groups = {g}
    Members <- MCMembers
    Lazy = {}
    Polled = {}
    Browsers = {b1}
    Api = Api
    Prewarmers = {Prewarm}
    Prewarm = Prewarm
    NoOne = NoOne
    ThePage = ThePage
    Period <- MCLongPeriod
    RetryCap = 2
    QueueCap = 1
    ApiAsks = {}
    Prompt = TRUE
CHECK_DEADLOCK FALSE
PROPERTIES RoundsEnd Answered KeepsUp
