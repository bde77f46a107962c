------------------------------ MODULE MCPrograms ------------------------------
(* Programs for TLC: the files, options, plans, texts, lists and           *)
(* credentials of each part.                                               *)
EXTENDS Programs

CONSTANTS p1, p2

-----------------------------------------------------------------------------
(* A file with one process at a time, with two, and one nobody opens.      *)
Kind(procs, modes, recovers, mishaps, n, dying) ==
    [procs |-> procs, modes |-> modes, recovers |-> recovers,
     empty |-> "empty" \in mishaps, full |-> "full" \in mishaps,
     opens |-> n, deaths |-> dying]
AllConfigs == {
    Kind({p1}, {"r", "w", "a"}, TRUE, {}, 5, 3),
    Kind({p1}, Modes, FALSE, {}, 4, 0),
    Kind({p1}, Modes, FALSE, {"empty", "full"}, 3, 2),
    Kind({p1, p2}, {"r", "w"}, FALSE, {}, 3, 1),
    Kind({p1}, {"r"}, FALSE, {}, 0, 0)}

(* Options that depend on each other, together; each call refused; and the *)
(* levels of security with what modifies them, in both orders.             *)
Together == {
    {"user", "group", "lockfile", "pidfile", "daemon"}, {"user", "jail"},
    {"user", "caps", "keepcaps"}, {"user", "caps"},
    {"user", "group", "userMayFail", "groupMayFail"},
    {"container", "dir", "nosu", "strict"}, {"container", "nspath", "user"},
    {"chroot", "ptrace", "caps", "strict"}, {"jail", "group", "nosu"},
    {"daemon", "pidfile", "container", "nopid"}}
Levels == {"minimal", "basic", "user", "guest", "untrusted", "constrained", "high",
           "paranoid", "worker", "memworker"}
Modifiers == {"client", "basicnet", "local", "nonet", "killnet", "noexec", "nomemexec",
              "noipc", "noshm", "nomsgq", "noptrace"}
Refusable == {"chdirRoot", "chroot", "unshare", "nsfile", "containerRoot", "dir", "lockfile",
              "lockheld", "pidfile", "setgid", "setuid", "caps", "ptrace", "nnp", "seccomp"}
SomeCases ==
    (Together \X {<< >>} \X ({{}} \cup {{s} : s \in Refusable}))
    \cup ({{}} \X ({<<x>> : x \in Levels \cup {"basicnet", "noptrace", "noshm"}}
                    \cup {<<x, y>> : x \in {"guest", "constrained", "memworker"}, y \in Modifiers}
                    \cup {<<y, x>> : x \in {"minimal", "constrained"}, y \in Modifiers})
           \X {{}})
    \cup ({{"user", "group"}, {"jail"}} \X {<<"guest">>} \X {{}, {"nnp"}, {"seccomp"}})
    \cup ({{}} \X {<<"guest", "noipc">>, <<"noptrace">>} \X {{}, {"unshare"}, {"ptrace"}})

(* Two programs, of all kinds; what they write to stderr fits the pipe, or *)
(* does not.                                                               *)
SomePlans == [1 .. 2 -> {[filter |-> f, errs |-> IF f THEN 0 ELSE n, stderr |-> e, pty |-> t] :
                        f \in BOOLEAN, n \in {0, 3}, e \in {"pipe", "combine", "null"},
                        t \in BOOLEAN}]

(* Texts that begin with what they end with, that are optional, and more   *)
(* than one that is due.                                                   *)
Dialog(text, optional, does) == [expect |-> text, optional |-> optional, does |-> does]
SomeTalks == {
    <<Dialog(<<"a", "b">>, FALSE, "replies"), Dialog(<<"b", "a">>, FALSE, "replies")>>,
    <<Dialog(<<"a", "a", "b">>, FALSE, "replies"), Dialog(<<"a">>, TRUE, "replies"),
      Dialog(<<"c">>, FALSE, "ends")>>,
    <<Dialog(<<"c">>, TRUE, "fails"), Dialog(<<"a", "b">>, TRUE, "replies"),
      Dialog(<<"a", "b", "b">>, FALSE, "replies"), Dialog(<<"b">>, FALSE, "ends")>>}

(* Lists of calls, of calls with one argument and with two, and of groups. *)
SomeLists == {
    << <<"open", "create", "">> >>,
    << <<"chmod", "exec", "">>, <<"ioctl", "user", "">> >>,
    << <<"group:mexec", "", "">>, <<"connect", "", "">> >>,
    << <<"socket", "unix", "2">>, <<"nosuch", "", "">> >>}

(* Names of which one has the separator in it and begins with the other;   *)
(* credentials that fill the page, and more than the page.                 *)
SomeRealms == {<<"a">>, <<"a", ":">>}
SomePasswords == {<<"y", ":", "y">>, <<"z", "z", "z", "z", "z">>}
=============================================================================
