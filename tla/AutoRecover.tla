----------------------------- MODULE AutoRecover -----------------------------
(***************************************************************************)
(* The `R' option of STREAMOpen for files (Stream.c): a file opened to be  *)
(* written is renamed to Path.autorecover first, which is deleted when the *)
(* file is closed; who finds it on opening takes it for the file of a      *)
(* program that died, and puts it back.  Each system call is a step;       *)
(* processes can die, and the disk can be full, between any two.           *)
(*                                                                         *)
(* A write fills a file with two parts, one for a full buffer and one that *)
(* STREAMClose flushes, or leaves it empty; an append adds one part.       *)
(*                                                                         *)
(* A definition named Fault... is the definition after it with a mistake   *)
(* in it, which the properties are shown to catch; nothing else uses it.   *)
(***************************************************************************)
EXTENDS Integers, Sequences, FiniteSets, SequencesExt

CONSTANTS
    Procs,      \* processes
    Configs     \* ways to use the file: see Config

Modes == {"r", "w", "a", "rw"}
Names == {"Path", "Path.autorecover", "Path.error"}

(* The processes and the modes they use; whether a program that died is    *)
(* always followed by one that opens to read or to append; whether empty   *)
(* files are written, and the disk may be full; and bounds on the opens    *)
(* and the deaths.                                                         *)
Config == [procs : SUBSET Procs, modes : SUBSET Modes, recovers : BOOLEAN,
           empty : BOOLEAN, full : BOOLEAN, opens : Nat, deaths : Nat]

ASSUME AutoRecoverAssumption == IsFiniteSet(Procs) /\ Configs \subseteq Config

None == 0       \* no inode

VARIABLES
    config,     \* how the file is used
    dir,        \* the inode each name stands for
    inode,      \* the parts in each inode: the number of the open that wrote them
    proc,       \* what each process is doing: see Idle
    opens,      \* the number of calls of STREAMOpen
    deaths,     \* the number of processes that died
    died,       \* one died, and no other has opened the file to read it since
    closed      \* what was in the file when it was last closed

vars == <<config, dir, inode, proc, opens, deaths, died, closed>>

(* fd is the inode that is open, n the number of the open, parts what it   *)
(* is going to write, and failed whether a write() failed.                 *)
Idle == [pc |-> "idle", mode |-> "r", n |-> 0, fd |-> None,
         parts |-> << >>, failed |-> FALSE]

At(p, pc) == proc[p].pc = pc
Set(p, changes) ==
    proc' = [proc EXCEPT ![p] =
                [f \in DOMAIN Idle |-> IF f \in DOMAIN changes THEN changes[f] ELSE @[f]]]
Goto(p, pc) == Set(p, [pc |-> pc])
Same == UNCHANGED <<config, opens, deaths, died>>

Rename(from, to) ==
    dir' = IF dir[from] = None THEN dir
           ELSE [dir EXCEPT ![to] = dir[from], ![from] = None]
Unlink(name) == dir' = [dir EXCEPT ![name] = None]

STREAMAutoRecoverRequired(mode) == mode = "w"

Init ==
    /\ config \in Configs
    /\ dir = [name \in Names |-> IF name = "Path" THEN 1 ELSE None]
    /\ inode = <<<<0, 0>>>>
    /\ proc = [p \in Procs |-> Idle]
    /\ opens = 0
    /\ deaths = 0
    /\ died = FALSE
    /\ closed = inode[1]

-----------------------------------------------------------------------------
(* STREAMFileOpenPrepare.                                                  *)

Parts(mode, n) ==
    CASE mode = "w" -> {<<n, n>>} \union {q \in {<< >>} : config.empty}
      [] mode = "a" -> {<<n>>}
      [] OTHER -> {<< >>}

Start(p) ==
    /\ At(p, "idle") /\ opens < config.opens
    /\ opens' = opens + 1
    /\ \E mode \in config.modes : \E parts \in Parts(mode, opens') :
        /\ config.recovers /\ died => mode \in {"r", "a"}
        /\ Set(p, [pc |-> IF STREAMAutoRecoverRequired(mode) THEN "backup" ELSE "stat",
                   mode |-> mode, n |-> opens', parts |-> parts])
    /\ UNCHANGED <<config, dir, inode, deaths, died, closed>>

FaultNoBackup(p) ==
    /\ At(p, "backup") /\ Goto(p, "open")
    /\ Same /\ UNCHANGED <<dir, inode, closed>>

(* To write: the file that is there becomes the backup.                    *)
TakeBackup(p) ==
    /\ At(p, "backup") /\ Goto(p, "open")
    /\ Rename("Path", "Path.autorecover")
    /\ Same /\ UNCHANGED <<inode, closed>>

(* STREAMFileAutoRecover: is there a backup, and what is to become of it?  *)
Stat(p) ==
    LET found == dir["Path.autorecover"] IN
    /\ At(p, "stat")
    /\ Goto(p, IF found = None THEN "open"
               ELSE IF inode[found] = << >> \/ proc[p].mode = "rw" THEN "unlink"
               ELSE "archive")
    /\ Same /\ UNCHANGED <<dir, inode, closed>>

UnlinkBackup(p) ==
    /\ At(p, "unlink") /\ Goto(p, "open")
    /\ Unlink("Path.autorecover")
    /\ Same /\ UNCHANGED <<inode, closed>>

Archive(p) ==
    /\ At(p, "archive") /\ Goto(p, "import")
    /\ Rename("Path", "Path.error")
    /\ Same /\ UNCHANGED <<inode, closed>>

Import(p) ==
    /\ At(p, "import") /\ Goto(p, "open")
    /\ Rename("Path.autorecover", "Path")
    /\ Same /\ UNCHANGED <<inode, closed>>

-----------------------------------------------------------------------------
(* The rest of STREAMFileOpen.  "w" and "a" create the file; "w" empties   *)
(* it when it is open.                                                     *)
Open(p) ==
    LET next == IF proc[p].mode = "w" THEN "truncate" ELSE "opened"
        new == Len(inode) + 1
    IN
    /\ At(p, "open")
    /\ \/ /\ dir["Path"] # None
          /\ Set(p, [pc |-> next, fd |-> dir["Path"]])
          /\ UNCHANGED <<dir, inode>>
       \/ /\ dir["Path"] = None /\ proc[p].mode \in {"w", "a"}
          /\ inode' = Append(inode, << >>)
          /\ dir' = [dir EXCEPT !["Path"] = new]
          /\ Set(p, [pc |-> next, fd |-> new])
       \/ /\ dir["Path"] = None /\ proc[p].mode \notin {"w", "a"}
          /\ Set(p, Idle)
          /\ UNCHANGED <<dir, inode>>
    /\ died' = (died /\ proc'[p].pc # "opened")
    /\ UNCHANGED <<config, opens, deaths, closed>>

Truncate(p) ==
    /\ At(p, "truncate") /\ Goto(p, "opened")
    /\ inode' = [inode EXCEPT ![proc[p].fd] = << >>]
    /\ Same /\ UNCHANGED <<dir, closed>>

(* write() of the first part that is left, which fails on a full disk.     *)
Write(p) ==
    /\ proc[p].parts # << >>
    /\ \/ /\ inode' = [inode EXCEPT ![proc[p].fd] = Append(@, Head(proc[p].parts))]
          /\ Set(p, [parts |-> Tail(proc[p].parts)])
       \/ /\ config.full
          /\ Set(p, [parts |-> Tail(proc[p].parts), failed |-> TRUE])
          /\ UNCHANGED inode

(* STREAMWriteBytes fills the buffer, STREAMClose flushes the rest.        *)
WritePart(p) ==
    /\ At(p, "opened") /\ Write(p)
    /\ Same /\ UNCHANGED <<dir, closed>>

STREAMClose(p) ==
    /\ At(p, "opened") /\ proc[p].parts = << >>
    /\ Goto(p, IF STREAMAutoRecoverRequired(proc[p].mode) THEN "delete" ELSE "close")
    /\ Same /\ UNCHANGED <<dir, inode, closed>>

(* The backup is not needed any more: from here on the new contents count. *)
Committed(p) == closed' = IF proc[p].failed THEN closed ELSE inode[proc[p].fd]

STREAMCloseFile(p) ==
    /\ At(p, "delete") /\ Goto(p, "close")
    /\ Unlink("Path.autorecover")
    /\ Committed(p)
    /\ Same /\ UNCHANGED inode

Close(p) ==
    /\ At(p, "close") /\ Set(p, Idle)
    /\ IF proc[p].mode = "a" THEN Committed(p) ELSE UNCHANGED closed
    /\ Same /\ UNCHANGED <<dir, inode>>

(* What a process had yet to write is lost; appends, of which there is no  *)
(* backup, count as far as they were written.                              *)
Die(p) ==
    /\ deaths < config.deaths /\ ~At(p, "idle")
    /\ deaths' = deaths + 1
    /\ died' = TRUE
    /\ Set(p, Idle)
    /\ closed' = IF proc[p].mode = "a" /\ proc[p].fd # None
                 THEN inode[proc[p].fd] ELSE closed
    /\ UNCHANGED <<config, dir, inode, opens>>

Step(p) ==
    \/ Start(p) \/ TakeBackup(p) \/ Stat(p) \/ UnlinkBackup(p) \/ Archive(p) \/ Import(p)
    \/ Open(p) \/ Truncate(p) \/ WritePart(p)
    \/ STREAMClose(p) \/ STREAMCloseFile(p) \/ Close(p)
    \/ Die(p)
Next == \E p \in config.procs : Step(p)
Spec == Init /\ [][Next]_vars

-----------------------------------------------------------------------------
TypeOK ==
    /\ config \in Configs
    /\ dir \in [Names -> 0 .. Len(inode)]
    /\ \A i \in DOMAIN inode : ToSet(inode[i]) \subseteq 0 .. opens
    /\ \A p \in Procs : /\ proc[p].mode \in Modes
                        /\ proc[p].fd \in 0 .. Len(inode)
                        /\ At(p, "opened") => proc[p].fd # None

(* Where the properties hold: no two processes at once, no full disk, no   *)
(* empty file for a backup, and after a death the next open recovers.      *)
Orderly == /\ Cardinality(config.procs) = 1
           /\ ~config.full /\ ~config.empty
           /\ config.recovers \/ config.deaths = 0

(* Stream.h: "if the file isn't closed properly, then revert to that       *)
(* backup when next it's opened".  Who has opened the file and has not     *)
(* written to it yet finds in it what was there when it was last closed.   *)
Reverts ==
    \A p \in Procs : At(p, "opened") /\ proc[p].parts \in Parts(proc[p].mode, proc[p].n) =>
        proc[p].mode = "w" \/ inode[proc[p].fd] = closed
RevertsToClosed == Orderly => Reverts

(* At every step, between the two renames of a recovery too, what was last *)
(* closed (and perhaps appended to since) is in the file or in its backup: *)
(* a death cannot lose it.                                                 *)
ClosedIsKept ==
    Orderly => \E name \in {"Path", "Path.autorecover"} :
        dir[name] # None /\ IsPrefix(closed, inode[dir[name]])

(* A file that was not closed reverts to what was closed last, and what was*)
(* closed is not lost by any death.                                        *)
ClosedIsKeptInFile == TypeOK /\ RevertsToClosed /\ ClosedIsKept
=============================================================================
