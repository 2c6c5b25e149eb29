SPECIFICATION Spec
\* The main file and one include file.  t2 in the main file includes the other
\* one, so edits change texts and includes.
CONSTANTS
    Files = {main, inc}
    MainFile = main
    Texts = {t1, t2}
    Absent = Absent
    Includes = {t2}
    Callbacks = {b1, b2}
    NoOne = NoOne
    MaxEdits = 2
    EditDuring = {"callback"}
CHECK_DEADLOCK FALSE
INVARIANT WatchedMeansApplied
