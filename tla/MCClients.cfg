SPECIFICATION MCSpec
CONSTANTS
    Callers = {c1, c2}
    Configs = {a, b, bad}
    Unusable = {bad}
    MaxEdits = 3
    MaxKeys = 2
    Requests = {r1, r2, r3}
    MaxConsecutiveFailures = 5
    MaxAttempts = 3
INVARIANTS
    ReturnsCurrent
    CallsAreServed
    OpenIffTooManyFailures
    OneTrial
PROPERTY
    CallsReturn
