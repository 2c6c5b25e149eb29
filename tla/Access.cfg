SPECIFICATION AccessSpec
CONSTANTS
    pat = pat
    ola = ola
    c1 = c1
    c2 = c2
    staff = staff
    Tabs = {t1, t2}
    PwUsers = {pat}
    Creds = {c1, c2}
    OidcUsers = {ola}
    GroupsOf <- MCGroupsOf
    Pages <- MCPages
    Configs <- MCConfigs
    FirstConfig <- MCFirstConfig
    Nobody = Nobody
    None = None
    Valid = 3
    RegenBefore = 2
    StateValid = 1
    MaxTime = 4
    MaxFlows = 2
    MaxReloads = 1
    Addresses = {a1, a2}
    Checks = {r1, r2}
    LoginWindow = 6
    MaxAttempts = 2
    ApiWindow = 4
    ApiLimit = 2
    Second = 2
    MaxClock = 11
    Browsers = {b1, b2}
    MaxHandSaves = 2
    v1 = v1
    Visitors = {d1}
    v2 = v2
    v3 = v3
    v4 = v4
    v5 = v5
    milk = milk
    bills = bills
    Settings <- MCSettings
    Reserved <- MCReserved
    MaxSwaps = 2
SYMMETRY MCSymmetry
CHECK_DEADLOCK FALSE
INVARIANTS GrantsAreDeserved RefusedOnlyWhenDue LastFlowGoesThrough LimitsHold RefusalsAreFair AnswersAreDeserved
PROPERTIES SetupWritesOnce
