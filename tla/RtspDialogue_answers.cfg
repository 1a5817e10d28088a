SPECIFICATION Spec
CONSTANTS
    Conns = {c1, c2}
    NoOne = NoOne
    Sent = {"OPTIONS", "ANNOUNCE", "FLUSH", "SETUP", "TEARDOWN"}
    Announces = 2
CHECK_DEADLOCK FALSE
PROPERTY AuthBound
INVARIANT StreamAsAnnounced
INVARIANT HandlersSurvive
PROPERTY ChallengedOnce
PROPERTY TeardownStops
