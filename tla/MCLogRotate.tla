---------------------------- MODULE MCLogRotate ----------------------------
(* LogRotate with two processes and files that are too big when they have  *)
(* two lines.                                                              *)
EXTENDS LogRotate
CONSTANTS p1, p2

Kind(programs, children, flags, max_rotate, mishaps, lines) ==
    [programs |-> programs, children |-> children, flags |-> flags,
     MaxRotate |-> max_rotate, mishaps |-> mishaps, lines |-> lines]

Single == {
    Kind({p1}, {p2}, {"LOGFILE_FLUSH"}, 2, {}, 4),
    Kind({p1}, {}, {}, 1, {}, 4),
    Kind({p1}, {}, {"LOGFILE_FLUSH", "LOGFILE_REPEATS"}, 1, {}, 4)}
Mishap == {
    Kind({p1}, {p2}, {"LOGFILE_FLUSH"}, 0, {"claim"}, 2),
    Kind({p1}, {p2}, {"LOGFILE_FLUSH"}, 1, {"failure", "crash", "claim"}, 2)}
Two == {
    Kind({p1, p2}, {}, {}, 1, {}, 3),
    Kind({p1, p2}, {}, {"LOGFILE_FLUSH"}, 2, {"crash"}, 2)}
AllConfigs == Single \union Mishap \union Two

Repeats == {Kind({p1}, {}, {"LOGFILE_FLUSH", "LOGFILE_REPEATS"}, 1, {}, 2)}
TwoPrograms == {Kind({p1, p2}, {}, {"LOGFILE_FLUSH"}, 1, {}, 2)}
=============================================================================
