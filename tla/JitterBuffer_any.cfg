SPECIFICATION FairSpec
CONSTANTS
    SeqMod = 8
    BufferFrames = 2
    StartFill = 1
    FirstLookahead = 1
    Ahead = 3
    Behind = 4
    MaxLead = 12
    MaxFlushes = 1
    StartSeqs <- NearWrap
    NoSeq = NoSeq
    Silence = Silence
    Torn = Torn
    Garbage = Garbage
INVARIANT TakenIsNotNewest
INVARIANT GapsAskedFor
PROPERTY CursorsForward
PROPERTY Rebuffers
