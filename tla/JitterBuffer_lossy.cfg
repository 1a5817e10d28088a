SPECIFICATION Spec
CONSTANTS
    SeqMod = 24
    BufferFrames = 8
    StartFill = 4
    FirstLookahead = 1
    Ahead = 2
    Behind = 0
    MaxLead = 4
    MaxFlushes = 0
    StartSeqs <- NearWrap
    NoSeq = NoSeq
    Silence = Silence
    Torn = Torn
    Garbage = Garbage
PROPERTY PlaysStream
PROPERTY LastChanceTaken
