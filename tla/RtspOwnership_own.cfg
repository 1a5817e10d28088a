SPECIFICATION LeavingSpec
CONSTANTS
    Conns = {c1, c2}
    Main = Main
    NoOne = NoOne
INVARIANT ExclusiveUse
INVARIANT StreamOwned
INVARIANT RequestHasPlayer
INVARIANT StreamCallsPaired
PROPERTY ImplementsPlayer
PROPERTY TakerServed
\* No property speaks of a run once a thread has been mistaken for the player.
CONSTRAINT UpToMistake
\* The process may end, and every client may be served and gone.
CHECK_DEADLOCK FALSE
