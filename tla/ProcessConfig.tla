---------------------------- MODULE ProcessConfig ----------------------------
(***************************************************************************)
(* ProcessApplyConfig (Process.c, with Container.c, Capabilities.c and     *)
(* Users.c): a process turns itself into what a list of options asks for,  *)
(* a step at a time, each of which may take away what a later one needs,   *)
(* and goes on, or stops, by the flags that are left.                      *)
(***************************************************************************)
EXTENDS Naturals, Sequences, FiniteSets, SequencesExt

CONSTANTS
    Cases           \* <<options, security= tokens, the steps that the system refuses>>

(* The options of the call, with the library's settings that let a switch  *)
(* of the user or the group fail.  lockheld: another holds the lock.       *)
Settings == {"strict", "nouser", "keepcaps", "userMayFail", "groupMayFail"}
Options == {"chroot", "daemon", "container", "nspath", "nopid", "dir", "lockfile", "pidfile",
            "group", "user", "caps", "ptrace", "jail", "nosu"} \cup Settings
Steps == {"chdirRoot", "chroot", "unshare", "nsfile", "containerRoot", "dir", "lockfile",
          "lockheld", "pidfile", "setgid", "setuid", "caps", "ptrace", "nnp", "seccomp"}

VARIABLES
    opts, security, refused,
    root,           \* the process is started by root
    pc,
    uid,            \* "root", "effective" (the other as effective id), "other"
    permitted,      \* it may do what root may
    done,           \* what the process has become
    failed,         \* PROC_SETUP_FAIL
    pid, pidInFile,
    rules           \* the lists given to seccomp: [act, names]

vars == <<opts, security, refused, root, pc, uid, permitted, done, failed, pid, pidInFile, rules>>
Const == UNCHANGED <<opts, security, refused, root>>

-----------------------------------------------------------------------------
(* The security= option: lists of system calls by level and by modifier.   *)
(* A level adds its own lists, and then those of all the levels below it.  *)

Rule(act, names) == [act |-> act, names |-> names, space |-> TRUE]

Levels == <<"minimal", "basic", "user", "guest", "untrusted", "constrained", "high",
            "paranoid", "worker", "memworker">>
LevelRules ==
    [minimal     |-> <<Rule("deny", <<"group:ptrace", "ioctl(tiocsti)">>),
                       Rule("kill", <<"group:kexec", "group:weird">>)>>,
     basic       |-> <<Rule("deny", <<"acct", "capset">>)>>,
     user        |-> <<Rule("deny", <<"chown", "chmod(suid)">>),
                       Rule("kill", <<"group:sysadmin", "bpf", "capset", "ioctl(tiocsti)">>)>>,
     guest       |-> <<Rule("deny", <<"group:keyring">>), Rule("kill", <<"group:ptrace">>)>>,
     untrusted   |-> <<Rule("kill", <<"group:chroot", "group:keyring", "group:ns", "acct">>),
                       Rule("deny", <<"utimes">>)>>,
     constrained |-> <<Rule("allow", <<"ioctl(user)">>), Rule("deny", <<"ioctl">>),
                       Rule("kill", <<"utimes">>)>>,
     high        |-> <<Rule("deny", <<"chmod(exec)", "group:kill", "link">>)>>,
     paranoid    |-> <<Rule("kill", <<"group:kill", "link", "unlink", "group:exec">>)>>,
     worker      |-> <<Rule("deny", <<"group:filesystem">>)>>,
     memworker   |-> <<Rule("kill", <<"group:open", "group:filesystem:pipe">>)>>]

LevelOf(token) == CHOOSE i \in DOMAIN Levels : Levels[i] = token
LevelsFrom(i) == FlattenSeq([k \in 1 .. i |-> LevelRules[Levels[i + 1 - k]]])
ProcessSeccompSetupLevel(token) == LevelsFrom(LevelOf(token))

(* noshm and nomsgq are added without a space behind them.                 *)
Sockets(families) == <<Rule("allow", families), Rule("deny", <<"socket">>)>>
Modifiers ==
    [client   |-> <<Rule("deny", <<"group:server">>)>>,
     basicnet |-> Sockets(<<"socket(inet)", "socket(unix)">>),
     local    |-> Sockets(<<"socket(unix)">>),
     nonet    |-> <<Rule("deny", <<"group:net">>)>>,
     killnet  |-> <<Rule("kill", <<"group:net">>)>>,
     noexec   |-> <<Rule("deny", <<"group:exec">>)>>,
     nomemexec |-> <<Rule("deny", <<"group:mexec">>)>>,
     noipc    |-> <<Rule("deny", <<"group:ipc">>)>>,
     noshm    |-> <<[Rule("deny", <<"group:shm">>) EXCEPT !.space = FALSE]>>,
     nomsgq   |-> <<[Rule("deny", <<"group:msgq">>) EXCEPT !.space = FALSE]>>,
     noptrace |-> <<Rule("deny", <<"group:ptrace">>)>>]
ProcessSeccompSetupModifier(token) == Modifiers[token]

(* The flags that some of them set besides.                                *)
NamespaceOf == [local |-> "net", nonet |-> "net", killnet |-> "net", noipc |-> "ipc"]
TokenNamespaces(tokens) == {NamespaceOf[t] : t \in Range(tokens) \cap DOMAIN NamespaceOf}

TokenRules(token) ==
    IF token \in DOMAIN Modifiers THEN ProcessSeccompSetupModifier(token)
    ELSE ProcessSeccompSetupLevel(token)

(* A list runs into the next one if there is no space between them: the    *)
(* last name of the one with the first of the other is no name.            *)
Joined(a, b) == [b EXCEPT !.act = a.act, !.names = Front(a.names) \o <<"?">> \o Tail(b.names)]
Join(lists, rule) == [lists EXCEPT ![Len(lists)] = Joined(@, rule)]
Parsed(list) ==
    LET f[n \in 0 .. Len(list)] ==
            IF n = 0 THEN <<>>
            ELSE IF n = 1 \/ list[n - 1].space THEN Append(f[n - 1], list[n])
            ELSE Join(f[n - 1], list[n])
    IN  f[Len(list)]

ProcessParseSecurity(tokens) == FlattenSeq([i \in DOMAIN tokens |-> TokenRules(tokens[i])])

(* What the options ask for, and what the system may refuse.  A namespace  *)
(* that is named is one for a container.                                   *)
Tokens == Range(Levels) \cup DOMAIN Modifiers
ProcessAssumption ==
    /\ Cases \subseteq (SUBSET Options) \X Seq(Tokens) \X (SUBSET Steps)
    /\ \A case \in Cases : "nspath" \in case[1] => "container" \in case[1]

(* What the names stand for: Seccomp.c's groups, a call or two of each.    *)
Calls == [ptrace |-> {"group:ptrace"}, tiocsti |-> {"ioctl", "ioctl(tiocsti)"},
    tcgets |-> {"ioctl", "ioctl(user)"}, otherioctl |-> {"ioctl"}, kexec |-> {"group:kexec"},
    personality |-> {"group:weird"}, acct |-> {"acct"}, capset |-> {"capset"},
    chown |-> {"chown", "group:filesystem"}, chmodSuid |-> {"chmod(suid)", "group:filesystem"},
    chmodExec |-> {"chmod(exec)", "group:filesystem"}, link |-> {"link", "group:filesystem"},
    mknod |-> {"group:sysadmin", "group:filesystem"}, unlink |-> {"unlink", "group:filesystem"},
    mkdir |-> {"group:filesystem"}, mount |-> {"group:sysadmin"}, bpf |-> {"bpf"},
    keyctl |-> {"group:keyring"}, chroot |-> {"group:chroot"}, setns |-> {"group:ns"},
    utimes |-> {"utimes"}, kill |-> {"group:kill"}, execve |-> {"group:exec"},
    open |-> {"group:open"}, listen |-> {"group:server", "group:net"},
    connect |-> {"group:net"}, socketUnix |-> {"socket", "socket(unix)", "group:net"},
    socketInet |-> {"socket", "socket(inet)", "group:net"}, mexec |-> {"group:mexec"},
    socketOther |-> {"socket", "group:net"}, shmget |-> {"group:shm", "group:ipc"},
    msgget |-> {"group:msgq", "group:ipc"}, semget |-> {"group:ipc"}]
Decides(rule, call) == Range(rule.names) \cap Calls[call] # {}
Refuses(list, call) ==
    LET deciding == {i \in DOMAIN list : Decides(list[i], call)} IN
    deciding # {} /\ list[CHOOSE i \in deciding : \A j \in deciding : i <= j].act # "allow"
Refused(list) == {call \in DOMAIN Calls : Refuses(list, call)}

-----------------------------------------------------------------------------
Init ==
    /\ \E case \in Cases : opts = case[1] /\ security = case[2] /\ refused = case[3]
    /\ root \in BOOLEAN
    /\ pc = "early"
    /\ uid = (IF root THEN "root" ELSE "other") /\ permitted = root
    /\ done = {} /\ failed = FALSE
    /\ pid = 1 /\ pidInFile = 0 /\ rules = <<>>

Asked(o) == o \in opts \/ (o = "ptrace" /\ "noptrace" \in Range(security))
May(step) == step \notin refused
Goto(l) == pc' = l /\ Const
Keep == UNCHANGED <<uid, permitted, failed, pid, pidInFile, rules>>
Nothing == Keep /\ UNCHANGED done
Become(o) == done' = done \cup {o}

(* A step that is asked for, and that the system allows or refuses.        *)
Try(o, allowed, next) ==
    /\ done' = IF Asked(o) /\ allowed THEN done \cup {o} ELSE done
    /\ failed' = (failed \/ (Asked(o) /\ ~allowed))
    /\ Goto(next)
    /\ UNCHANGED <<uid, permitted, pid, pidInFile, rules>>

(* ProcessApplyEarlyConfig goes to the directory that is to be the root.   *)
ProcessApplyEarlyConfig ==
    /\ pc = "early"
    /\ failed' = (Asked("chroot") /\ ~May("chdirRoot"))
    /\ Goto(IF failed' THEN "return" ELSE "daemon")
    /\ UNCHANGED <<uid, permitted, done, pid, pidInFile, rules>>

(* demonize: the process that is left is a child of a child.               *)
demonize ==
    /\ pc = "daemon"
    /\ Goto("chroot")
    /\ IF Asked("daemon") THEN Become("daemon") /\ pid' = pid + 2 ELSE UNCHANGED <<done, pid>>
    /\ UNCHANGED <<uid, permitted, failed, pidInFile, rules>>

Chroot ==
    /\ pc = "chroot"
    /\ Try("chroot", permitted /\ May("chroot"), IF failed' THEN "return" ELSE "container")

(* ContainerApplyConfig: new namespaces, that of processes with one of its *)
(* own as init, or ones that exist.  OnNamespaceJoin returns the types     *)
(* asked for also if the system refused.  One who is not root has a user   *)
(* namespace first, of only that user, and may then do the rest.  The      *)
(* directory of a container is entered and made the root; that it was not  *)
(* (containerRoot) is not returned.                                        *)
Namespaces == (opts \cap {"container", "nopid"}) \cup TokenNamespaces(security)
Unshares == ~Asked("nspath")
OnNamespaceJoin == IF Unshares THEN TRUE ELSE May("nsfile")
ContainerApplyConfig ==
    /\ pc = "container"
    /\ Goto("options")
    /\ permitted' = (permitted \/ (Namespaces # {} /\ May("unshare")))
    /\ done' = done
        \cup (IF OnNamespaceJoin /\ May("unshare")
              THEN Namespaces \cup (opts \cap {"nspath"}) ELSE {})
        \cup {o \in {"containerRoot"} : Asked("container") /\ May(o) /\ permitted'}
    /\ failed' = (failed \/ (Namespaces # {} /\ ~OnNamespaceJoin))
    /\ pid' = IF Asked("nopid") /\ Unshares THEN pid + 2 ELSE pid
    /\ UNCHANGED <<uid, pidInFile, rules>>

(* The options of ProcessApplyLateConfig that are done as they are read: a *)
(* directory that cannot be entered or a lock that cannot be opened ends   *)
(* the process, for a lock that another holds it waits (CreateLockFile),   *)
(* and the result of WritePidFile is not looked at.  A user that does not  *)
(* exist has the id -1, and is passed over with the ids below 1.           *)
WritePidFile == Asked("pidfile") /\ May("pidfile")
Late == {"dir", "lockfile"} \cup {o \in {"pidfile"} : WritePidFile}
OptionsAreDone ==
    /\ Goto("group")
    /\ done' = done \cup (opts \cap Late)
    /\ pidInFile' = IF WritePidFile THEN pid ELSE pidInFile
LateOptions ==
    /\ pc = "options"
    /\ IF (Asked("dir") /\ ~May("dir")) \/ (Asked("lockfile") /\ ~May("lockfile"))
       THEN Goto("exit") /\ UNCHANGED <<done, pidInFile>>
       ELSE IF Asked("lockfile") /\ ~May("lockheld")
       THEN Goto("locked") /\ UNCHANGED <<done, pidInFile>>
       ELSE OptionsAreDone
    /\ rules' = Parsed(ProcessParseSecurity(security))
    /\ UNCHANGED <<uid, permitted, failed, pid>>

(* Who holds the lock may let go of it, at some time or never.             *)
LockIsFree ==
    /\ pc = "locked"
    /\ OptionsAreDone
    /\ UNCHANGED <<uid, permitted, failed, pid, rules>>

SwitchGID ==
    /\ pc = "group"
    /\ IF ~Asked("group") THEN Goto("user") /\ UNCHANGED done
       ELSE IF root /\ May("setgid") THEN Goto("user") /\ Become("group")
       ELSE Goto(IF Asked("groupMayFail") THEN "user" ELSE "exit") /\ UNCHANGED done
    /\ Keep

(* The effective id first, then the capabilities that are to be kept, then *)
(* the id.  The groups of the user can only be taken while it is permitted.*)
SetEffectiveUID ==
    /\ pc = "user"
    /\ IF Asked("user")
       THEN /\ Goto("keep") /\ uid' = IF permitted THEN "effective" ELSE uid
            /\ failed' = (failed \/ (Asked("keepcaps") /\ Asked("caps") /\ ~(permitted /\ May("caps"))))
       ELSE Goto("caps") /\ UNCHANGED <<uid, failed>>
    /\ UNCHANGED <<permitted, done, pid, pidInFile, rules>>

KeepsCaps == Asked("keepcaps") /\ Asked("caps") /\ May("caps")
SwitchUID ==
    /\ pc = "keep"
    /\ IF root /\ May("setuid")
       THEN /\ Goto("caps") /\ uid' = "other" /\ permitted' = KeepsCaps
            /\ done' = done \cup {"user"} \cup {o \in {"groups"} : KeepsCaps}
       ELSE /\ Goto(IF Asked("userMayFail") THEN "caps" ELSE "exit")
            /\ UNCHANGED <<uid, permitted, done>>
    /\ UNCHANGED <<failed, pid, pidInFile, rules>>

(* ProcessSetCapabilities: no more than is permitted.  What root may beyond*)
(* the capabilities that are asked for it may no more.                     *)
ProcessSetCapabilities ==
    /\ pc = "caps"
    /\ Goto("ptrace")
    /\ done' = IF Asked("caps") /\ permitted /\ May("caps")
               THEN done \cup (opts \cap {"caps", "keepcaps"}) ELSE done
    /\ failed' = (failed \/ (Asked("caps") /\ ~(permitted /\ May("caps"))))
    /\ permitted' = (permitted /\ ~Asked("caps"))
    /\ UNCHANGED <<uid, pid, pidInFile, rules>>

ProcessResistPtrace == pc = "ptrace" /\ Try("ptrace", May("ptrace"), "jail")

(* A jailed process is not restricted any further.                         *)
Jail ==
    /\ pc = "jail"
    /\ Try("jail", permitted /\ May("chroot"), IF Asked("jail") THEN "return" ELSE "nnp")

FaultNoNewPrivs == Asked("nosu")
NoNewPrivs == Asked("nosu") \/ rules # <<>>
ProcessNoNewPrivs ==
    /\ pc = "nnp"
    /\ IF NoNewPrivs
       THEN /\ Goto(IF rules # <<>> THEN "seccomp" ELSE "return")
            /\ failed' = (failed \/ ~May("nnp"))
            /\ done' = IF May("nnp") THEN done \cup {"nosu"} ELSE done
       ELSE Goto("return") /\ UNCHANGED <<failed, done>>
    /\ UNCHANGED <<uid, permitted, pid, pidInFile, rules>>

SeccompAddRules ==
    /\ pc = "seccomp"
    /\ Goto("return")
    /\ failed' = (failed \/ ~May("seccomp") \/ ~("nosu" \in done \/ permitted))
    /\ done' = IF failed' THEN done ELSE done \cup {"security"}
    /\ UNCHANGED <<uid, permitted, pid, pidInFile, rules>>

(* ProcessApplyConfig aborts if that is asked for; those that call it      *)
(* (xfork, SwitchProgram, PipeSpawnFunction) do not go on after a failure. *)
ProcessApplyConfig ==
    /\ pc = "return"
    /\ Goto(IF failed /\ Asked("strict") THEN "abort" ELSE IF failed THEN "exit" ELSE "run")
    /\ Nothing

Library ==
    \/ ProcessApplyEarlyConfig \/ demonize \/ Chroot \/ ContainerApplyConfig \/ LateOptions
    \/ SwitchGID \/ SetEffectiveUID \/ SwitchUID \/ ProcessSetCapabilities
    \/ ProcessResistPtrace \/ Jail \/ ProcessNoNewPrivs \/ SeccompAddRules \/ ProcessApplyConfig
Next == Library \/ LockIsFree
Spec == Init /\ [][Next]_vars /\ WF_vars(Library)

-----------------------------------------------------------------------------
(* A process that goes on is all that was asked for.  This is not so of    *)
(* what the code does not look at: a namespace that the system refuses     *)
(* (Container.c:28), a container's directory that is not made the root     *)
(* (Container.c:399, 677), a pid file that cannot be written (Process.c:   *)
(* 746), what is asked for besides a jail (Process.c:841), a user that does*)
(* not exist, and a switch that is allowed to fail.                        *)
Wanted == (opts \ Settings) \cup Namespaces
            \cup {o \in {"containerRoot"} : Asked("container")}
            \cup {o \in {"ptrace"} : Asked(o)}
Switches(step) == root /\ May(step)
Unreported ==
    (IF May("unshare") THEN {} ELSE Namespaces \cup {"nspath", "containerRoot"})
        \cup (refused \cap {"containerRoot", "pidfile"})
        \cup {o \in {"nosu"} : Asked("jail")}
        \cup {o \in {"user"} : Asked("userMayFail") /\ ~Switches("setuid")}
        \cup {o \in {"group"} : Asked("groupMayFail") /\ ~Switches("setgid")}
RunsAsAsked ==
    pc = "run" =>
        /\ Wanted \ Unreported \subseteq done
        /\ security # <<>> /\ ~Asked("jail") => "security" \in done
        /\ WritePidFile => pidInFile = pid
        /\ Asked("user") /\ "user" \notin Unreported =>
                uid = "other" /\ (permitted => Asked("keepcaps"))

(* What is refused by any of the tokens alone is refused by all of them,   *)
(* and a level refuses all that the levels below it refuse; but what is    *)
(* behind noshm and nomsgq, which have no space behind them, may be lost.  *)
TokensAddUp ==
    /\ pc = "run" /\ "security" \in done
    /\ Range(Front(security)) \cap {"noshm", "nomsgq"} = {}
    => \A token \in Range(security) :
            /\ Refused(TokenRules(token)) \subseteq Refused(rules)
            /\ token \in Range(Levels) =>
                    \A j \in 1 .. LevelOf(token) :
                        Refused(LevelRules[Levels[j]]) \subseteq Refused(rules)

(* Every call ends, in the program that was to be run, or in none, unless  *)
(* the lock file is held by another that does not let go of it: there is   *)
(* no timeout for that (Process.c:749).                                    *)
EndsSomewhere == <>[](pc \in {"run", "exit", "abort", "locked"})

(* Not checked, for they do not hold: the groups of the user are taken     *)
(* (Users.c:56), a container that is not one aborts if that is asked for   *)
(* (Process.h:133), and a user can be jailed (Process.h, jail).            *)
GroupsAreTaken == pc = "run" /\ Asked("user") => "groups" \in done
StrictAborts == pc = "run" /\ Asked("strict") => Wanted \cap (Namespaces \cup
                    {"containerRoot", "chroot", "jail", "caps"}) \subseteq done
UserIsJailed == pc = "exit" => ~({"user", "jail"} \subseteq opts /\ root /\ refused = {})
=============================================================================
