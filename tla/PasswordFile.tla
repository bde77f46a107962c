---------------------------- MODULE PasswordFile ----------------------------
(***************************************************************************)
(* Password files (PasswordFile.c) and the locks they rely on: the modes   *)
(* "rL", "wL", "aL" and "rl" of STREAMFileOpen, STREAMBasicSendBytes and   *)
(* STREAMReadCharsToBuffer (Stream.c).  Processes add, append, delete and  *)
(* check credentials; each system call is a step, and any process may run  *)
(* or die between two of them.                                             *)
(*                                                                         *)
(* A line of the file is a credential <<user, password>>: salts, hashes    *)
(* and quoting are left out, and so is a line cut in two by a full buffer. *)
(* Buffers hold BufLines lines.  flock() locks belong to inodes, not to    *)
(* names; an inode is its number in the sequence `inode'.                  *)
(*                                                                         *)
(* A definition named Fault... is the definition after it with a mistake   *)
(* in it, which the properties are shown to catch; nothing else uses it.   *)
(***************************************************************************)
EXTENDS Integers, Sequences, FiniteSets, SequencesExt

CONSTANTS
    Procs,      \* processes
    Users, Passwords,
    BufLines,   \* the lines that fill the buffer of a stream (BUFSIZ bytes)
    Configs     \* ways to use the file: see Config

Credential == Users \X Passwords
Kinds == {"add", "append", "delete", "check"}

(* Who edits and who only checks, the file to begin with and        *)
(* whether there is one, and bounds on the calls of each process and on    *)
(* the processes that die.                                                 *)
Config == [editors : SUBSET Procs, readers : SUBSET Procs,
           start : Seq(Credential), exists : BOOLEAN,
           calls : [Procs -> Nat], deaths : Nat]

ASSUME PasswordAssumption ==
    /\ IsFiniteSet(Procs)
    /\ BufLines \in Nat \ {0}
    /\ Configs \subseteq Config

None == 0            \* no inode, or no open descriptor
Hole == <<"", "">>   \* what is read where nothing was written

VARIABLES
    config,     \* how the file is used
    dir,        \* the inode that Path and Path+ stand for
    inode,      \* the lines in each inode
    locks,      \* the flock() locks: <<inode, process, kind>>
    proc,       \* what each process is doing: see Idle
    calls,      \* the calls each process has made
    deaths,     \* the processes that died
    settled,    \* the credentials that the calls which returned left valid
    possible,   \* those that may have been valid during each running check
    certain     \* those that were valid throughout it

files == <<dir, inode, locks>>
ghosts == <<settled, possible, certain>>
vars == <<config, dir, inode, locks, proc, calls, deaths, settled, possible, certain>>

-----------------------------------------------------------------------------
(* The locals of a call.  Old, New and S are inodes of open descriptors,   *)
(* and fd is the one of them being opened; off is how far it has read, pos *)
(* where its next write goes, out what its stream has buffered.  blind: a  *)
(* check could not open the file, or read one that was not written yet.    *)

Idle == [pc |-> "idle", kind |-> "check", user |-> CHOOSE u \in Users : TRUE,
         password |-> CHOOSE w \in Passwords : TRUE, fd |-> "S",
         Old |-> None, New |-> None, S |-> None, off |-> 0, pos |-> 0,
         out |-> << >>, RetVal |-> FALSE, added |-> FALSE, blind |-> FALSE]

Running(kind) == {p \in Procs : proc[p].pc # "idle" /\ proc[p].kind = kind}
Pair(p) == <<proc[p].user, proc[p].password>>

(* The lines of the file that Path stands for.                             *)
Contents == IF dir["Path"] = None THEN << >> ELSE inode[dir["Path"]]

(* What a check may accept and what it must: an edit that has not returned *)
(* may have taken effect or not.                                           *)
May == settled \union {Pair(p) : p \in Running("add") \union Running("append")}
Must == {c \in settled : \A p \in Running("add") \union Running("delete") :
            c[1] # proc[p].user}

Init ==
    /\ config \in Configs
    /\ dir = [n \in {"Path", "Path+"} |->
                IF n = "Path" /\ config.exists THEN 1 ELSE None]
    /\ inode = <<config.start>>
    /\ locks = {}
    /\ proc = [p \in Procs |-> Idle]
    /\ calls = [p \in Procs |-> 0]
    /\ deaths = 0
    /\ settled = ToSet(Contents)
    /\ possible = [p \in Procs |-> {}]
    /\ certain = [p \in Procs |-> {}]

-----------------------------------------------------------------------------
(* flock(): LOCK_EX excludes the locks of every other descriptor, LOCK_SH  *)
(* the exclusive ones.  With LOCK_NB it fails where it otherwise waits.    *)

Free(i, p, kind) ==
    \A l \in locks : l[1] = i /\ l[2] # p => kind = "LOCK_SH" /\ l[3] = "LOCK_SH"
Without(i, p) == {l \in locks : l[1] # i \/ l[2] # p}

At(p, pc) == proc[p].pc = pc
Set(p, locals) == proc' = [proc EXCEPT ![p] = locals]
Quiet == UNCHANGED <<config, calls, deaths, settled, possible, certain>>

-----------------------------------------------------------------------------
(* STREAMOpen of Old ("rL"), New ("wL") or S ("aL" to append, "rl" to      *)
(* check).  A Delete goes on to open New whatever became of Old, and       *)
(* copies when it has both.                                                *)

Name(p) == IF proc[p].fd = "New" THEN "Path+" ELSE "Path"
ReadOnly(p) == proc[p].fd = "Old" \/ proc[p].kind = "check"
Lock(p) == IF proc[p].kind = "check" THEN "LOCK_SH" ELSE "LOCK_EX"
Inode(p) == IF proc[p].fd = "Old" THEN proc[p].Old
            ELSE IF proc[p].fd = "New" THEN proc[p].New ELSE proc[p].S

Opened(p) ==
    IF proc[p].fd = "Old" THEN [proc[p] EXCEPT !.pc = "open", !.fd = "New"]
    ELSE IF proc[p].fd = "New"
    THEN [proc[p] EXCEPT !.pc = IF proc[p].Old = None THEN "abandon" ELSE "copy"]
    ELSE [proc[p] EXCEPT !.pc = IF proc[p].kind = "check" THEN "read" ELSE "append"]
NotOpened(p) ==
    IF proc[p].fd = "Old" THEN [proc[p] EXCEPT !.pc = "open", !.fd = "New", !.Old = None]
    ELSE IF proc[p].fd = "New" THEN [proc[p] EXCEPT !.pc = "abandon", !.New = None]
    ELSE [proc[p] EXCEPT !.pc = "return", !.S = None, !.blind = TRUE]
Descriptor(p, i) ==
    IF proc[p].fd = "Old" THEN [proc[p] EXCEPT !.pc = "lock", !.Old = i]
    ELSE IF proc[p].fd = "New" THEN [proc[p] EXCEPT !.pc = "lock", !.New = i]
    ELSE [proc[p] EXCEPT !.pc = "lock", !.S = i]

(* open(), which creates the file unless it is opened to read.             *)
Open(p) ==
    LET found == dir[Name(p)] IN
    /\ At(p, "open") /\ Quiet /\ UNCHANGED locks
    /\ \/ /\ found # None
          /\ Set(p, Descriptor(p, found))
          /\ UNCHANGED <<dir, inode>>
       \/ /\ found = None /\ ReadOnly(p)
          /\ Set(p, NotOpened(p))
          /\ UNCHANGED <<dir, inode>>
       \/ /\ found = None /\ ~ReadOnly(p)
          /\ inode' = Append(inode, << >>)
          /\ dir' = [dir EXCEPT ![Name(p)] = Len(inode')]
          /\ Set(p, Descriptor(p, Len(inode')))

(* flock() with LOCK_NB.                                                   *)
Flock(p) ==
    /\ At(p, "lock") /\ Quiet /\ UNCHANGED <<dir, inode>>
    /\ IF Free(Inode(p), p, Lock(p))
       THEN /\ locks' = locks \union {<<Inode(p), p, Lock(p)>>}
            /\ Set(p, IF ReadOnly(p) THEN Opened(p) ELSE [proc[p] EXCEPT !.pc = "prepare"])
       ELSE /\ Set(p, NotOpened(p)) /\ UNCHANGED locks

(* lstat() of the name, and ftruncate() for "w".                           *)
FaultKeepsLines(p) ==
    /\ At(p, "prepare") /\ Quiet /\ UNCHANGED <<dir, inode>>
    /\ IF dir[Name(p)] = None
       THEN /\ locks' = Without(Inode(p), p)
            /\ Set(p, NotOpened(p))
       ELSE /\ Set(p, Opened(p)) /\ UNCHANGED locks

Prepare(p) ==
    /\ At(p, "prepare") /\ Quiet /\ UNCHANGED dir
    /\ IF dir[Name(p)] = None
       THEN /\ locks' = Without(Inode(p), p)
            /\ Set(p, NotOpened(p)) /\ UNCHANGED inode
       ELSE /\ inode' = IF proc[p].fd = "New"
                        THEN [inode EXCEPT ![Inode(p)] = << >>] ELSE inode
            /\ Set(p, Opened(p)) /\ UNCHANGED locks

-----------------------------------------------------------------------------
(* PasswordFileDelete.                                                     *)

(* write() at the position of the descriptor.                              *)
WriteAt(s, n, t) ==
    [i \in 1 .. (IF Len(s) > n + Len(t) THEN Len(s) ELSE n + Len(t)) |->
        IF i > n /\ i <= n + Len(t) THEN t[i - n]
        ELSE IF i <= Len(s) THEN s[i] ELSE Hole]

(* STREAMBasicSendBytes to New: wait for the lock, write, unlock.  The     *)
(* lock that opening took is gone after the first write.                   *)
PushNew(p) ==
    LET New == proc[p].New IN
    /\ Free(New, p, "LOCK_EX")
    /\ inode' = [inode EXCEPT ![New] = WriteAt(@, proc[p].pos, proc[p].out)]
    /\ locks' = Without(New, p)

(* One line of Old is read and, unless it is the user's, written to New,   *)
(* whose buffer goes out when it is full.                                  *)
CopyLine(p) ==
    LET line == inode[proc[p].Old][proc[p].off + 1] IN
    /\ At(p, "copy") /\ Len(proc[p].out) < BufLines
    /\ proc[p].off < Len(inode[proc[p].Old])
    /\ Set(p, IF line[1] = proc[p].user
              THEN [proc[p] EXCEPT !.off = @ + 1, !.RetVal = TRUE]
              ELSE [proc[p] EXCEPT !.off = @ + 1, !.out = Append(@, line)])
    /\ Quiet /\ UNCHANGED files

CopyPush(p) ==
    /\ At(p, "copy") /\ Len(proc[p].out) = BufLines
    /\ PushNew(p)
    /\ Set(p, [proc[p] EXCEPT !.pos = @ + BufLines, !.out = << >>])
    /\ Quiet /\ UNCHANGED dir

CloseOld(p) ==
    /\ At(p, "copy") /\ Len(proc[p].out) < BufLines
    /\ proc[p].off >= Len(inode[proc[p].Old])
    /\ locks' = Without(proc[p].Old, p)
    /\ Set(p, [proc[p] EXCEPT !.pc = "move", !.Old = None, !.off = 0])
    /\ Quiet /\ UNCHANGED <<dir, inode>>

(* rename(Path+, Path) when the user was found, unlink(Path+) otherwise.   *)
Move(p) ==
    /\ At(p, "move") /\ Quiet /\ UNCHANGED <<inode, locks>>
    /\ \/ /\ proc[p].RetVal /\ dir["Path+"] # None
          /\ dir' = [dir EXCEPT !["Path"] = dir["Path+"], !["Path+"] = None]
          /\ Set(p, [proc[p] EXCEPT !.pc = "closeNew"])
       \/ /\ proc[p].RetVal => dir["Path+"] = None
          /\ dir' = [dir EXCEPT !["Path+"] = None]
          /\ Set(p, [proc[p] EXCEPT !.pc = "closeNew", !.RetVal = FALSE])

(* What PasswordFileAdd does after PasswordFileDelete, whatever its result *)
AfterDelete(p) ==
    [proc[p] EXCEPT !.pc = IF proc[p].kind = "add" THEN "open" ELSE "return",
                    !.fd = IF proc[p].kind = "add" THEN "S" ELSE @]

(* STREAMClose(New), which writes what is buffered.                        *)
CloseNew(p) ==
    /\ At(p, "closeNew") /\ Quiet /\ UNCHANGED dir
    /\ \/ /\ proc[p].out # << >> /\ PushNew(p)
       \/ /\ proc[p].out = << >>
          /\ locks' = Without(proc[p].New, p) /\ UNCHANGED inode
    /\ Set(p, [AfterDelete(p) EXCEPT !.New = None, !.pos = 0, !.out = << >>])

(* One of the two files could not be opened: the other is closed.          *)
Abandon(p) ==
    /\ At(p, "abandon") /\ Quiet /\ UNCHANGED <<dir, inode>>
    /\ locks' = Without(proc[p].Old, p) \intersect Without(proc[p].New, p)
    /\ Set(p, [AfterDelete(p) EXCEPT !.Old = None, !.New = None])

-----------------------------------------------------------------------------
(* PasswordFileAppend, once S is open: the line is buffered, and written   *)
(* at the end of the file by STREAMClose.                                  *)
AppendLine(p) ==
    LET S == proc[p].S IN
    /\ At(p, "append") /\ Free(S, p, "LOCK_EX")
    /\ inode' = [inode EXCEPT ![S] = Append(@, Pair(p))]
    /\ locks' = Without(S, p)
    /\ Set(p, [proc[p] EXCEPT !.pc = "return", !.S = None, !.added = TRUE])
    /\ Quiet /\ UNCHANGED dir

-----------------------------------------------------------------------------
(* PasswordFileCheck, once S is open: reads that wait for the lock and     *)
(* drop it, until a line matches or there are no more.                     *)

FaultAnyPassword(p, line) == line[1] = proc[p].user
PasswordFileMatchItem(p, line) == line = Pair(p)

(* The file that is read was renamed by a Delete that is yet to write it.  *)
Unwritten(i) == \E q \in Procs : At(q, "closeNew") /\ proc[q].New = i

FaultRereads(p, lines) == proc[p].off
More(p, lines) == proc[p].off + Len(lines)
Read(p) ==
    LET S     == proc[p].S
        file  == inode[S]
        lines == SubSeq(file, proc[p].off + 1,
                        IF Len(file) > proc[p].off + BufLines
                        THEN proc[p].off + BufLines ELSE Len(file))
        match == \E i \in DOMAIN lines : PasswordFileMatchItem(p, lines[i])
    IN  /\ At(p, "read") /\ Free(S, p, "LOCK_SH")
        /\ locks' = Without(S, p)
        /\ Set(p, IF match \/ lines = << >>
                  THEN [proc[p] EXCEPT !.pc = "return", !.RetVal = match, !.S = None,
                                       !.off = 0, !.blind = @ \/ Unwritten(S)]
                  ELSE [proc[p] EXCEPT !.off = More(p, lines), !.blind = @ \/ Unwritten(S)])
        /\ Quiet /\ UNCHANGED <<dir, inode>>

-----------------------------------------------------------------------------
(* Calls.  A PasswordFileAdd is a Delete and then an Append.               *)

(* What the running checks may accept and must, as it changes.             *)
Watch ==
    LET checks == Running("check")' IN
    /\ possible' = [p \in Procs |->
        IF p \in checks THEN possible[p] \union May' ELSE {}]
    /\ certain' = [p \in Procs |->
        IF p \notin checks THEN {}
        ELSE IF At(p, "idle") THEN Must' ELSE certain[p] \intersect Must']

Call(p) ==
    /\ At(p, "idle") /\ calls[p] < config.calls[p]
    /\ calls' = [calls EXCEPT ![p] = @ + 1]
    /\ \E kind \in Kinds, u \in Users, w \in Passwords :
        /\ kind = "check" <=> p \in config.readers
        /\ kind = "delete" => w = Idle.password
        /\ Set(p, [Idle EXCEPT !.pc = "open", !.kind = kind, !.user = u, !.password = w,
                               !.fd = IF kind \in {"add", "delete"} THEN "Old" ELSE "S"])
    /\ UNCHANGED <<config, dir, inode, locks, deaths, settled>>
    /\ Watch

(* The user's credentials went if Delete says so, and the new one came if  *)
(* the file could be opened.                                               *)
Return(p) ==
    /\ At(p, "return")
    /\ settled' =
        IF proc[p].kind = "check" THEN settled
        ELSE {c \in settled : proc[p].RetVal => c[1] # proc[p].user}
             \union {c \in {Pair(p)} : proc[p].added}
    /\ Set(p, Idle)
    /\ Watch
    /\ UNCHANGED <<config, dir, inode, locks, calls, deaths>>

(* A process dies: its locks go, and what it had buffered.  When it was    *)
(* editing, what is in the file is what is valid from then on.             *)
Die(p) ==
    /\ deaths < config.deaths /\ ~At(p, "idle")
    /\ deaths' = deaths + 1
    /\ locks' = {l \in locks : l[2] # p}
    /\ Set(p, Idle)
    /\ settled' = IF proc[p].kind = "check" THEN settled ELSE ToSet(Contents)
    /\ Watch
    /\ UNCHANGED <<config, dir, inode, calls>>

Step(p) ==
    \/ Open(p) \/ Flock(p) \/ Prepare(p)
    \/ CopyLine(p) \/ CopyPush(p) \/ CloseOld(p) \/ Move(p) \/ CloseNew(p) \/ Abandon(p)
    \/ AppendLine(p) \/ Read(p) \/ Return(p)
Next == \E p \in Procs : (p \in config.editors \union config.readers /\ Call(p))
                         \/ Step(p) \/ Die(p)
Spec == Init /\ [][Next]_vars

(* A process that is in a call goes on with it.                            *)
FairSpec == Spec /\ \A p \in Procs : WF_vars(Step(p))

-----------------------------------------------------------------------------
(* Types; and every lock belongs to a descriptor that its process has.     *)
TypeOK ==
    /\ config \in Configs
    /\ dir \in [{"Path", "Path+"} -> 0 .. Len(inode)]
    /\ \A i \in DOMAIN inode : ToSet(inode[i]) \subseteq Credential \union {Hole}
    /\ \A l \in locks : /\ l[3] \in {"LOCK_EX", "LOCK_SH"}
                        /\ l[1] \in {proc[l[2]].Old, proc[l[2]].New, proc[l[2]].S}
    /\ \A p \in Procs : Len(proc[p].out) <= BufLines
    /\ settled \subseteq Credential \union {Hole}

(* Whom the properties are about: they promise nothing to two editors.     *)
OneEditor == Cardinality(config.editors) <= 1

(* The credentials that no running edit is about are in the file at every  *)
(* step, whichever opens failed and whoever died before; but for the time  *)
(* from the rename of PasswordFileDelete to its STREAMClose.               *)
NothingIsLost ==
    OneEditor /\ ~Unwritten(dir["Path"]) => Must \subseteq ToSet(Contents)

(* A credential that was deleted or replaced never comes back, from a      *)
(* Path+ that a dead process left behind for one.                          *)
NothingComesBack == OneEditor => ToSet(Contents) \subseteq May

(* With them, no editor takes away what others did, or brings it back.     *)
CredentialsAreKept == TypeOK /\ NothingIsLost /\ NothingComesBack

(* PasswordFileCheck accepts what was valid at some time while it ran, and *)
(* refuses nothing that was valid all that time; unless it could not lock  *)
(* the file, or read it before it was written.                             *)
ChecksAreJust ==
    OneEditor => \A p \in Running("check") : At(p, "return") =>
        IF proc[p].RetVal THEN Pair(p) \in possible[p]
        ELSE proc[p].blind \/ Pair(p) \notin certain[p]

(* PasswordFile.h: "if anything happens (e.g. powercut) during this        *)
(* action, the old file should be preserved".  A death loses no credential *)
(* that the dead process was not editing.                                  *)
DeathPreserves ==
    [][deaths' > deaths => Must \subseteq ToSet(Contents)]_vars

(* PasswordFile.h: "kernel locking is used to ensure that only one process *)
(* can be editing the file at any time".  When no call is running the file *)
(* has the credentials that the calls left valid.                          *)
EditsAreKept ==
    (\A p \in Procs : At(p, "idle")) => ToSet(Contents) = settled

(* PasswordFileAdd is for "replacing any previous entries for that user".  *)
AddReplaces ==
    \A p \in Running("add") : At(p, "return") /\ proc[p].added =>
        \A c \in ToSet(Contents) : c[1] = proc[p].user => c = Pair(p)

(* Every call returns: no two processes wait for each other's locks.       *)
CallReturns == \A p \in Procs : ~At(p, "idle") ~> At(p, "idle")
=============================================================================
