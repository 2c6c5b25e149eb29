SPECIFICATION FairSpec
\* The main file and an include file.  Text t1 stands alone, t2 in the main
\* file includes the other and moves the port, bad is invalid wherever it is.
CONSTANTS
    Files = {main, inc}
    MainFile = main
    Texts = {t1, t2, bad}
    Absent = Absent
    Includes = {t2}
    BadTexts = {bad}
    OtherPort = {t2}
    Callbacks = {b1, b2}
    NoOne = NoOne
    Main = Main
    MaxEdits = 3
    MaxRoughEdits = 2
    MaxApps = 4
    MaxChanges = 4
    EditDuring = {"startup", "callback"}
CHECK_DEADLOCK FALSE
INVARIANTS TakesEffectOnSave AtomicSaveKeepsWatch NoStaleWatch NothingLeaks SomebodyServes
PROPERTIES ComesToRest EventuallyServed
