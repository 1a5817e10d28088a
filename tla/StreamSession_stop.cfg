SPECIFICATION SendingSpec
INVARIANT MemoryIsLive
INVARIANT ReceiverNeverDies
PROPERTY StopCompletes
\* The player thread may die holding ab_mutex: see StreamSession_die.cfg.
CHECK_DEADLOCK FALSE
