\* Using freed memory may end the program.
CHECK_DEADLOCK FALSE
SPECIFICATION Spec
CONSTANTS
    Conns = {c1, c2}
    Fields = {"title", "artwork"}
    Values = {v1, v2}
    c1 = c1
    c2 = c2
    v1 = v1
    v2 = v2
    Unset = Unset
    Freed = Freed
    Order <- TwoFields
INVARIANT NothingForgotten
INVARIANT AloneIsSafe
SYMMETRY Symmetry
