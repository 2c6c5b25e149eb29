SPECIFICATION Spec
CONSTANTS
    good = good
    moved = moved
    bad = bad
    p1 = p1
    p2 = p2
    Main = Main
    Callbacks = {b1, b2}
    Contents <- MCContents
    ValidContents <- MCValid
    PortOf <- MCPortOf
    MaxApps = 3
    MaxChanges = 3
    Patient = FALSE
CHECK_DEADLOCK FALSE
SYMMETRY Symmetry
INVARIANTS TakesEffect
