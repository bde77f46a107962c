SPECIFICATION Spec
CONSTANTS
    a = a
    b = b
    c = c
    None = None
    URLs = {a, b, c}
    Configs <- Downloads
INVARIANTS Downloaded
CHECK_DEADLOCK FALSE
