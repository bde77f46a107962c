SPECIFICATION Spec
CONSTANTS
    p1 = p1
    p2 = p2
    u1 = u1
    u2 = u2
    w1 = w1
    w2 = w2
    Procs = {p1, p2}
    Users = {u1, u2}
    Passwords = {w1, w2}
    BufLines = 2
    Configs <- Dying
PROPERTIES DeathPreserves
CHECK_DEADLOCK FALSE
