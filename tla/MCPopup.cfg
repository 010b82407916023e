SPECIFICATION Spec
CONSTANTS
    a = a
    b = b
    n = n
    None = None
    Sites = {a, b}
    Notes = {n}
    MaxOps = 6
    MaxPending = 2
INVARIANTS
    EditsCurrent
    FilledWhereMatched
    StateKept
CHECK_DEADLOCK FALSE
