---------------------------- MODULE SeccompFilter ----------------------------
(***************************************************************************)
(* Seccomp.c: lists of system calls compiled to a filter program, a list   *)
(* at a time.  A name stands for a group of names, with an argument for    *)
(* the group with that argument, until only system calls are left; each is *)
(* compiled to a block that returns the action of its list, or jumps over  *)
(* what is left of itself to the next block.                               *)
(*                                                                         *)
(* A name is <<name, argument, second argument>>.  The arguments of a call *)
(* are sets of flags: a number is a set of one, and 0 the empty one.       *)
(***************************************************************************)
EXTENDS Integers, Sequences, FiniteSets, SequencesExt

CONSTANTS
    NameLists,      \* what the lists are taken from: sequences of names
    MaxLists        \* a bound on the lists of a setup

VARIABLES
    lists,          \* the lists compiled so far: <<action, names>>
    filter,         \* the program
    loaded          \* what SeccompCommit returned, or "setup" before it is called

vars == <<lists, filter, loaded>>

Actions == {"kill", "allow", "deny", "log"}
Digits == {"1", "2"}
Families == {"unix", "inet", "packet"}

(* The system calls of this machine, an x86_64, that the lists here name.  *)
Known == {"open", "openat", "openat2", "creat", "socket", "socketpair", "connect",
          "mmap", "mprotect", "chmod", "fchmod", "fchmodat", "ioctl", "prlimit64",
          "setrlimit", "mount", "umount2", "swapon", "reboot", "clone", "fork", "vfork"}
NotFound == "-1"
SysCallGetID(name) == IF name \in Known THEN name ELSE NotFound
LookupSocketFamily(name) == IF name \in Families THEN name ELSE NotFound

-----------------------------------------------------------------------------
(* Names that stand for others.                                            *)

Plain(names) == [i \in DOMAIN names |-> <<names[i], "", "">>]
With(names, args) == [i \in DOMAIN names |-> <<names[i], args[1], args[2]>>]
Ioctls(args) == [i \in DOMAIN args |-> <<"ioctl", args[i], "">>]

OpenGroup(args) == With(<<"open", "openat", "open2", "openat2", "creat">>, args)

SyscallGroupLookup(name) ==
    LET args == <<name[2], name[3]>>
        bare == args = <<"", "">> IN
    CASE name[1] = "open" -> OpenGroup(args)
      [] name[1] = "socket" /\ bare ->
            Plain(<<"socket", "socketpair">>)
                \o << <<"socketcall", "socket", "">>, <<"socketcall", "socketpair", "">> >>
      [] name[1] = "socket" /\ ~bare -> With(<<"socket", "socketpair">>, args)
      [] name[1] = "connect" /\ bare ->
            Plain(<<"connect">>) \o << <<"socketcall", "connect", "">> >>
      [] name[1] = "setrlimit" /\ bare ->
            Plain(<<"setrlimit">>) \o With(<<"prlimit", "prlimit64">>, <<"set", "">>)
      [] name[1] = "chmod" /\ bare -> Plain(<<"chmod", "fchmod", "fchmodat", "lchmod">>)
      [] name[1] = "chmod" /\ ~bare ->
            With(<<"chmod", "fchmod", "fchmodat", "lchmod">>, args) \o OpenGroup(args)
      [] name[1] = "mmap" -> With(<<"mmap", "mmap2">>, args)
      [] name = <<"ioctl", "user", "">> -> Ioctls(<<"term", "ctty">>)
      [] name = <<"ioctl", "term", "">> -> Ioctls(<<"tcgets", "tcsets">>)
      [] name = <<"ioctl", "ctty", "">> -> Ioctls(<<"tiocsctty", "tiocnotty">>)
      [] name[1] = "group:sysadmin" -> Plain(<<"reboot", "swapon", "group:mount">>)
      [] name[1] = "group:mount" -> Plain(<<"mount", "umount", "umount2">>)
      [] name[1] = "group:fork" -> Plain(<<"clone", "clone2", "clone3", "fork", "vfork">>)
      [] name[1] = "group:mexec" -> With(<<"mprotect", "mmap">>, <<"exec", "">>)
      [] name[1] = "group:create" ->
            With(<<"open", "openat", "open2", "openat2">>, <<"create", "">>) \o Plain(<<"creat">>)
      [] OTHER -> <<name>>

(* Names are kept once, where they first stand.                            *)
StringListToUnique(names) ==
    SelectSeq([i \in DOMAIN names |-> <<i, names[i]>>],
              LAMBDA x : \A j \in 1 .. x[1] - 1 : names[j] # x[2])

SeccompExpandOnce(names) ==
    LET unique == StringListToUnique(
                    FlattenSeq([i \in DOMAIN names |-> SyscallGroupLookup(names[i])]))
    IN [i \in DOMAIN unique |-> unique[i][2]]

Rounds == 11
Expand(names, rounds) ==
    LET e[n \in Nat] == IF n = 0 THEN names ELSE SeccompExpandOnce(e[n - 1]) IN e[rounds]
SeccompExpand(names) == Expand(names, Rounds)

-----------------------------------------------------------------------------
(* Arguments.  A check is <<position, operator, flags>>: one of the flags  *)
(* is set for "b", exactly they are for "=".                               *)

SocketCallGetID(name) == name
Perms(name) == CASE name = "suid" -> {"S_ISUID", "S_ISGID"}
                 [] name = "exec" -> {"S_IXUSR", "S_IXGRP", "S_IXOTH"}

(* No checks at all for an argument that is not known.                     *)
SeccompAddOpenArgCheck(name, mode, perms) ==
    CASE name = "create" -> << <<mode, "b", {"O_CREAT"}>> >>
      [] name = "write" -> << <<mode, "b", {"O_CREAT", "O_WRONLY", "O_RDWR", "O_APPEND"}>> >>
      [] name \in {"suid", "exec"} ->
            << <<mode, "b", {"O_CREAT"}>>, <<perms, "b", Perms(name)>> >>
      [] OTHER -> << >>

SeccompAddChmodArgCheck(name, perms) ==
    IF name \in {"suid", "exec"} THEN << <<perms, "b", Perms(name)>> >> ELSE << >>

SeccompAddMMapMProtectArgCheck(name) ==
    CASE name = "read" -> << <<2, "b", {"PROT_READ"}>> >>
      [] name = "write" -> << <<2, "b", {"PROT_WRITE"}>> >>
      [] name = "exec" -> << <<2, "b", {"PROT_EXEC"}>> >>
      [] OTHER -> << >>

IoctlNames == {"tcgets", "tcsets", "tiocsctty", "tiocnotty"}
SeccompAddIoctlArgCheck(name) ==
    IF name \in IoctlNames THEN << <<1, "=", {name}>> >> ELSE << >>

SeccompParseArg0(call, name) ==
    CASE name \in Digits -> << <<0, "=", {name}>> >>
      [] name \notin Digits /\ call = "socketcall" -> << <<0, "=", {SocketCallGetID(name)}>> >>
      [] name \in Families /\ call \in {"socket", "socketpair"} ->
            << <<0, "=", {LookupSocketFamily(name)}>> >>
      [] name \notin Digits /\ call \in {"mprotect", "mmap", "mmap2"} ->
            SeccompAddMMapMProtectArgCheck(name)
      [] name \notin Digits /\ call \in {"chmod", "fchmod", "lchmod", "creat"} ->
            SeccompAddChmodArgCheck(name, 1)
      [] name \notin Digits /\ call = "fchmodat" -> SeccompAddChmodArgCheck(name, 2)
      [] name \notin Digits /\ call \in {"open", "open2"} -> SeccompAddOpenArgCheck(name, 1, 2)
      [] name \notin Digits /\ call \in {"openat", "openat2"} ->
            SeccompAddOpenArgCheck(name, 2, 3)
      [] name \notin Digits /\ call = "ioctl" -> SeccompAddIoctlArgCheck(name)
      [] name \in {"get", "set"} /\ call \in {"prlimit", "prlimit64"} ->
            << <<2, IF name = "get" THEN "=" ELSE "!", {}>> >>
      [] OTHER -> << >>

SeccompParseArg1(name) == IF name \in Digits THEN << <<2, "=", {name}>> >> ELSE << >>

(* The call and its checks; a name with an argument that is not known is   *)
(* left out of the filter.                                                 *)
SeccompParseName(name) ==
    LET call == SysCallGetID(name[1])
        arg0 == IF name[2] = "" THEN << >> ELSE SeccompParseArg0(call, name[2])
        arg1 == IF name[3] = "" THEN << >> ELSE SeccompParseArg1(name[3])
        bad == (name[2] # "" /\ arg0 = << >>) \/ (name[3] # "" /\ arg1 = << >>)
    IN [call |-> IF bad THEN NotFound ELSE call, checks |-> arg0 \o arg1]

-----------------------------------------------------------------------------
(* Instructions: load a field (an argument, the call, the architecture),   *)
(* jump ahead by `yes' or `no', return.                                    *)

Nr == -1
Arch == -2

Load(field) == [op |-> "ld", k |-> field, yes |-> 0, no |-> 0]
Jump(op, k, yes, no) == [op |-> op, k |-> k, yes |-> yes, no |-> no]
Ret(action) == [op |-> "ret", k |-> action, yes |-> 0, no |-> 0]

ArchCheck == <<Load(Arch), Jump("=", "x86_64", 1, 0), Ret("kill")>>

SeccompFilterCalcJump(checks) == 1 + 2 * Len(checks)

(* FaultAddSyscall: the distance of the first check is that of the call.   *)
Block(call, checks, action, first) ==
    <<Load(Nr), Jump("=", call, 0, SeccompFilterCalcJump(checks))>>
    \o FlattenSeq([i \in DOMAIN checks |->
                      <<Load(checks[i][1]),
                        Jump(checks[i][2], checks[i][3], 0,
                             SeccompFilterCalcJump(checks) - 2 * (i - first))>>])
    \o <<Ret(action)>>
FaultAddSyscall(call, checks, action) == Block(call, checks, action, 1)
SeccompFilterAddSyscall(call, checks, action) == Block(call, checks, action, 0)

SeccompFilterAddSyscallNames(names, action) ==
    LET add(name) ==
            LET p == SeccompParseName(name) IN
            IF p.call = NotFound THEN << >>
            ELSE SeccompFilterAddSyscall(p.call, p.checks, action)
    IN FlattenSeq([i \in DOMAIN names |-> add(names[i])])

-----------------------------------------------------------------------------
Init ==
    /\ lists = << >>
    /\ filter = ArchCheck
    /\ loaded = "setup"

(* SeccompSetup: the next list of the setup.                               *)
SeccompFilterAddSyscallGroup(names, action) ==
    /\ loaded = "setup" /\ Len(lists) < MaxLists
    /\ lists' = Append(lists, <<action, names>>)
    /\ filter' = filter \o SeccompFilterAddSyscallNames(SeccompExpand(names), action)
    /\ UNCHANGED loaded

(* The kernel takes programs of classic instructions, that end in a return *)
(* and do not jump out: there is no "not equal" among them.                *)
Accepts(program) ==
    /\ program[Len(program)].op = "ret"
    /\ \A i \in DOMAIN program :
        /\ program[i].op # "!"
        /\ program[i].op \in {"=", "b"} =>
            {i + 1 + program[i].yes, i + 1 + program[i].no} \subseteq DOMAIN program

SeccompCommit ==
    /\ loaded = "setup"
    /\ filter' = Append(filter, Ret("allow"))
    /\ loaded' = IF Accepts(filter') THEN "yes" ELSE "no"
    /\ UNCHANGED lists

Next == \/ \E names \in NameLists, action \in Actions :
                SeccompFilterAddSyscallGroup(names, action)
        \/ SeccompCommit
Spec == Init /\ [][Next]_vars

-----------------------------------------------------------------------------
(* What the filter is to do.  A call is [arch, nr, args].                  *)

FlagSets == {{}, {"unix"}, {"O_CREAT"}, {"O_WRONLY"}, {"S_IXUSR"}, {"PROT_EXEC"}, {"tcsets"}}
Calls == [arch : {"x86_64"}, nr : {"open", "openat", "creat", "socket", "mprotect",
                                   "fchmodat", "ioctl", "mount", "umount2", "connect"},
          args : {[i \in 0 .. 3 |-> IF i = p THEN f ELSE IF i = p + 1 THEN g ELSE {}] :
                    p \in 0 .. 2, f \in FlagSets, g \in {{}, {"S_IXUSR"}}}]

Field(call, k) == IF k = Arch THEN call.arch ELSE IF k = Nr THEN call.nr ELSE call.args[k]
True(op, value, k) == CASE op = "=" -> value = k [] op = "!" -> value # k
                        [] op = "b" -> value \cap k # {}

(* What the kernel makes of the program: each comparison is of what was    *)
(* loaded by the instruction before it.                                    *)
Result(program, call) ==
    LET run[i \in Nat] ==
            LET ins == program[i] IN
            CASE ins.op = "ld" -> run[i + 1]
              [] ins.op = "ret" -> ins.k
              [] OTHER -> run[i + 1 + IF True(ins.op, Field(call, program[i - 1].k), ins.k)
                                      THEN ins.yes ELSE ins.no]
    IN run[1]

(* The names that a name stands for, in any number of rounds.              *)
Closure(names) ==
    LET c[n \in Nat] ==
            IF n = 0 THEN ToSet(names)
            ELSE LET last == c[n - 1]
                 IN last \cup UNION {ToSet(SyscallGroupLookup(x)) : x \in last}
    IN c[6]

Rules(names) == {SeccompParseName(name) : name \in Closure(names)}
Matches(rules, call) ==
    \E p \in rules :
        /\ p.call = call.nr
        /\ \A i \in DOMAIN p.checks :
            True(p.checks[i][2], call.args[p.checks[i][1]], p.checks[i][3])

(* Seccomp.h: "Seccomp goes with the first rule that matches".  A filter   *)
(* that the kernel took gives each call the action of the first list with  *)
(* a name for it, and lets pass what no list names: no jump lands in the   *)
(* block of another call, and no name is lost on the way to the calls.     *)
FirstMatchDecides ==
    loaded = "yes" =>
        LET rules == [i \in DOMAIN lists |-> Rules(lists[i][2])] IN
        \A call \in Calls :
            LET m == {i \in DOMAIN lists : Matches(rules[i], call)} IN
            Result(filter, call) =
                IF m = {} THEN "allow" ELSE lists[CHOOSE i \in m : \A j \in m : i <= j][1]

(* Not checked: a list that forbids setrlimit, which stands for            *)
(* prlimit(set), makes a filter that the kernel refuses, with all lists.   *)
AlwaysLoads == loaded # "no"

(* Not checked: Seccomp.h says that open(create) matches the calls of the  *)
(* open group that create files, but creat(create) is not known.           *)
CreatCreates ==
    loaded = "yes" /\ lists # << >> /\ lists[1][2] = << <<"open", "create", "">> >> =>
        \A call \in Calls : call.nr = "creat" => Result(filter, call) = lists[1][1]
=============================================================================
