CHECK_DEADLOCK FALSE
SPECIFICATION Spec
CONSTANTS
    Daemons = {d1, d2, d3}
    d1 = d1
    d2 = d2
    d3 = d3
    Commands = 0
INVARIANT OneDaemon
