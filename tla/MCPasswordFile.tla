-------------------------- MODULE MCPasswordFile --------------------------
(* PasswordFile with two processes, two users and two passwords.           *)
EXTENDS PasswordFile
CONSTANTS p1, p2, u1, u2, w1, w2

Kind(editors, readers, start, n1, n2, dying) ==
    [editors |-> editors, readers |-> readers, start |-> start,
     exists |-> start # << >>, calls |-> (p1 :> n1 @@ p2 :> n2), deaths |-> dying]

Both == <<<<u1, w1>>, <<u2, w1>>>>
Twice == Both \o <<<<u1, w2>>>>

AllConfigs == {
    Kind({p1}, {p2}, Both, 2, 1, 0),
    Kind({p1}, {p2}, Both, 1, 1, 1),
    Kind({p1}, {p2}, << >>, 2, 1, 1),
    Kind({p1}, {}, Twice, 2, 0, 1),
    Kind({p1, p2}, {}, Both, 1, 1, 0)}

Dying == {Kind({p1}, {}, Both, 1, 0, 1)}
TwoEditors == {Kind({p1, p2}, {}, Both, 1, 1, 0)}
Reading == {Kind({p1}, {p2}, Both, 1, 1, 0)}
=============================================================================
