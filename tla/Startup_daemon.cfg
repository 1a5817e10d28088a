\* Instances end.
CHECK_DEADLOCK FALSE
SPECIFICATION FairSpec
CONSTANTS
    Daemons = {d1, d2}
    d1 = d1
    d2 = d2
    Commands = 1
INVARIANT ToldTruth
INVARIANT NoOrphanHelper
INVARIANT PidfileRemoved
PROPERTY ParentNeverHangs
PROPERTY HelperWatched
