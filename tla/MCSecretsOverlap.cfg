SPECIFICATION MCSpec
CONSTANTS
    Instances = {i1, i2}
    None = None
    MaxStarts = 3
    Callers = {c1, c2}
    Passwords = {p1, p2}
    Profiles = {f1, f2}
    Machine = machine
    NoKey = none
    Absent = absent
    Blank = blank
    MaxCalls = 5
    MaxRestarts = 1
INVARIANT
    SavedUnderCurrentKey
CHECK_DEADLOCK FALSE
