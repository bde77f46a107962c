------------------------------ MODULE LogRotate ------------------------------
(***************************************************************************)
(* Log files (Log.c): lines are appended to a file, which is renamed to    *)
(* Path.1 when it has grown over a maximum size, Path.1 to Path.2 and so   *)
(* on, and the last is deleted.  Several processes may have the same log   *)
(* open: programs that were started with it, and children they forked.     *)
(* There is no lock: every system call of a rotation is a step of its own, *)
(* and any other process may run between two of them.                      *)
(*                                                                         *)
(* A file is the sequence of the lines in it and its size is their number. *)
(* A line is <<process, n>>: the n-th that the process wrote.  What it     *)
(* says matters only to LOGFILE_REPEATS.  Of several logs one is modelled. *)
(*                                                                         *)
(* A definition named Fault... is the definition after it with a mistake   *)
(* in it, which the properties are shown to catch; nothing else uses it.   *)
(***************************************************************************)
EXTENDS Integers, Sequences, FiniteSets

CONSTANTS
    Procs,      \* processes
    Texts,      \* what a message can say: "" is among them
    MaxSize,    \* LogFile->MaxSize, the same in every process
    Configs     \* ways to use the log: see Config

Flags == {"LOGFILE_FLUSH", "LOGFILE_REPEATS"}

(* What can happen besides: LogFileOpen fails, a process dies, or a child  *)
(* calls LogFileSetValues.                                                 *)
Mishaps == {"failure", "crash", "claim"}

(* The programs start by themselves, the children are forked by them.      *)
(* The last field is a bound: the lines that each process writes, and the  *)
(* messages that it has not written yet.                                   *)
Config == [programs : SUBSET Procs, children : SUBSET Procs, flags : SUBSET Flags,
           MaxRotate : Nat, mishaps : SUBSET Mishaps, lines : Nat]

NoText == ""    \* equal to NULL for CompareStr

ASSUME LogAssumption ==
    /\ IsFiniteSet(Procs)
    /\ MaxSize \in Nat \ {0} /\ NoText \in Texts
    /\ Configs \subseteq Config
    /\ \A c \in Configs : c.programs \cap c.children = {}

VARIABLES
    config,     \* how the log is used
    dir,        \* the file each name stands for: Path is 0, Path.i is i
    file,       \* the lines in each file
    pc,         \* where each process is
    owner,      \* the processes whose pid is their ParentPID
    fd,         \* the file each process has open
    buf,        \* the lines in the output buffer of its stream
    todo,       \* the lines LogFileInternalPush has yet to write
    seen,       \* FStat.st_size
    slot,       \* the i of the renaming loop
    last,       \* LogFile->LastMessage
    repeats,    \* LogFile->RepeatCount
    count,      \* the lines each process has begun to write
    untold      \* the messages it was given that these lines do not tell of

files == <<dir, file>>
push == <<last, repeats, count, untold>>
vars == <<config, files, pc, owner, fd, buf, todo, seen, slot, push>>

None == 0       \* no file
Unset == MaxSize + 1    \* any size that is too big
MaxRotate == config.MaxRotate
MaxLines == config.lines
Programs == config.programs
Children == config.children
Has(flag) == flag \in config.flags
May(mishap) == mishap \in config.mishaps

(* As many files as can have a name or be open. *)
Inodes == 1 .. MaxRotate + 1 + Cardinality(Procs)

TypeOK ==
    /\ config \in Configs
    /\ dir \in [0 .. MaxRotate -> Inodes \union {None}]
    /\ file \in [Inodes -> Seq(Procs \X (1 .. MaxLines))]
    /\ pc \in [Procs -> {"off", "dead", "idle", "check", "recheck", "shift", "reopen", "write"}]
    /\ owner \subseteq Procs
    /\ fd \in [Procs -> Inodes \union {None}]
    /\ buf \in [Procs -> Seq(Procs \X (1 .. MaxLines))]
    /\ todo \in [Procs -> Seq(Procs \X (1 .. MaxLines))]
    /\ seen \in [Procs -> Nat]
    /\ slot \in [Procs -> 0 .. MaxRotate]
    /\ last \in [Procs -> Texts]
    /\ repeats \in [Procs -> Nat]
    /\ count \in [Procs -> 0 .. MaxLines]
    /\ untold \in [Procs -> 0 .. MaxLines]

Init ==
    /\ config \in Configs
    /\ dir = [s \in 0 .. MaxRotate |-> None]
    /\ file = [i \in Inodes |-> << >>]
    /\ pc = [p \in Procs |-> "off"]
    /\ owner = {}
    /\ fd = [p \in Procs |-> None]
    /\ buf = [p \in Procs |-> << >>]
    /\ todo = [p \in Procs |-> << >>]
    /\ seen = [p \in Procs |-> 0]
    /\ slot = [p \in Procs |-> 0]
    /\ last = [p \in Procs |-> NoText]
    /\ repeats = [p \in Procs |-> 0]
    /\ count = [p \in Procs |-> 0]
    /\ untold = [p \in Procs |-> 0]
------------------------------------------------------------------------------
Named(i) == \E s \in DOMAIN dir : dir[s] = i
Size(i) == Len(file[i])

Goto(p, label) == pc' = [pc EXCEPT ![p] = label]

(* What a process that has been through the rotation does. *)
Rotated(p) ==
    /\ Goto(p, IF todo[p] = << >> THEN "idle" ELSE "write")
    /\ seen' = [seen EXCEPT ![p] = 0]

(* LogFileOpen: the file of that name, or a new one. *)
LogFileOpen(p) ==
    LET new == CHOOSE i \in Inodes : ~Named(i) /\ \A q \in Procs : fd[q] # i
    IN  \/ /\ dir[0] # None
           /\ fd' = [fd EXCEPT ![p] = dir[0]]
           /\ UNCHANGED files
        \/ /\ dir[0] = None
           /\ fd' = [fd EXCEPT ![p] = new]
           /\ dir' = [dir EXCEPT ![0] = new]
           /\ file' = [file EXCEPT ![new] = << >>]
        \/ /\ May("failure")
           /\ fd' = [fd EXCEPT ![p] = None]
           /\ UNCHANGED files

FaultForgetsBuffer(p, more) ==
    /\ file' = [file EXCEPT ![fd[p]] = @ \o more]
    /\ buf' = [buf EXCEPT ![p] = << >>]
(* STREAMFlush, of the buffer with more in it: the log is open for         *)
(* appending, and what is flushed goes to its end at once.                 *)
Flush(p, more) ==
    /\ file' = [file EXCEPT ![fd[p]] = @ \o buf[p] \o more]
    /\ buf' = [buf EXCEPT ![p] = << >>]
------------------------------------------------------------------------------
(* LogFileCreate: the log may be too big from the first. *)
LogFileCreate(p) ==
    /\ pc[p] = "off" /\ p \in Programs
    /\ LogFileOpen(p)
    /\ Goto(p, IF fd'[p] = None THEN "off" ELSE "check")
    /\ owner' = owner \union {p}
    /\ UNCHANGED <<config, buf, todo, seen, slot, push>>

(* fork: the child has a copy of everything but the pid. *)
Fork(p, c) ==
    /\ pc[p] = "idle" /\ pc[c] = "off" /\ c \in Children
    /\ Goto(c, "idle")
    /\ fd' = [fd EXCEPT ![c] = fd[p]]
    /\ buf' = [buf EXCEPT ![c] = buf[p]]
    /\ last' = [last EXCEPT ![c] = last[p]]
    /\ repeats' = [repeats EXCEPT ![c] = repeats[p]]
    /\ untold' = [untold EXCEPT ![c] = untold[p]]
    /\ UNCHANGED <<config, files, owner, todo, seen, slot, count>>

(* Setting values asserts ownership of the log file by the process. *)
LogFileSetValues(p) ==
    /\ May("claim") /\ pc[p] = "idle" /\ p \notin owner
    /\ owner' = owner \union {p}
    /\ UNCHANGED <<config, files, pc, fd, buf, todo, seen, slot, push>>

(* Without LOGFILE_REPEATS any text will do. *)
TextsThatMatter == IF Has("LOGFILE_REPEATS") THEN Texts ELSE {NoText}

(* LogFileInternalPush.  With LOGFILE_REPEATS a message like the last is   *)
(* counted, and one unlike it is written after the count, if there was     *)
(* one; the line with the count becomes the last message, and is then      *)
(* overwritten.                                                            *)
LogToFile(p, text) ==
    LET lines == IF ~Has("LOGFILE_REPEATS") THEN 1
                 ELSE IF text = last[p] \/ repeats[p] = 0 THEN 0 ELSE 2
        again == Has("LOGFILE_REPEATS") /\ text = last[p]
    IN  /\ pc[p] = "idle" /\ count[p] + lines <= MaxLines
        /\ untold[p] + 1 - lines < MaxLines
        /\ todo' = [todo EXCEPT ![p] = [k \in 1 .. lines |-> <<p, count[p] + k>>]]
        /\ count' = [count EXCEPT ![p] = @ + lines]
        /\ repeats' = [repeats EXCEPT ![p] = IF again THEN @ + 1 ELSE 0]
        /\ untold' = [untold EXCEPT ![p] =
                IF lines = 2 THEN @ - repeats[p] ELSE @ + 1 - lines]
        /\ last' = [last EXCEPT ![p] = IF lines < 2 THEN @ ELSE text]
        /\ Goto(p, IF lines = 0 THEN "idle" ELSE "check")
        /\ UNCHANGED <<config, files, owner, fd, buf, seen, slot>>

(* LogFilesHousekeep and LogFileCheckRotate. *)
LogFilesHousekeep(p) ==
    /\ pc[p] = "idle"
    /\ Goto(p, "check")
    /\ UNCHANGED <<config, files, owner, fd, buf, todo, seen, slot, push>>

(* LogFileFlushAll, and with LOGFLUSH_REOPEN. *)
LogFileFlushAll(p) ==
    /\ pc[p] = "idle" /\ fd[p] # None
    /\ Flush(p, << >>)
    /\ \/ UNCHANGED <<pc, fd>>
       \/ fd' = [fd EXCEPT ![p] = None] /\ Goto(p, "reopen")
    /\ UNCHANGED <<config, dir, owner, todo, seen, slot, push>>
------------------------------------------------------------------------------
(* LogFileInternalDoRotate begins with the size of the file that is open,  *)
(* or of the file of that name.  If there is none, it is anything.         *)
Check(p) ==
    LET open == IF fd[p] # None THEN fd[p] ELSE dir[0]
    IN  /\ pc[p] = "check"
        /\ IF p \notin owner THEN Rotated(p)
           ELSE \E size \in IF open # None THEN {Size(open)} ELSE {0, Unset} :
                    IF size > MaxSize
                    THEN Goto(p, "recheck") /\ seen' = [seen EXCEPT ![p] = size]
                    ELSE Rotated(p)
        /\ UNCHANGED <<config, files, owner, fd, buf, todo, slot, push>>

(* What stat of the name leaves in FStat. *)
SizeAgain(p) == IF dir[0] = None THEN seen[p] ELSE Len(file'[dir[0]])

(* Close the log and check again, someone might have rotated it. *)
Recheck(p) ==
    /\ pc[p] = "recheck"
    /\ IF fd[p] # None THEN Flush(p, << >>) ELSE UNCHANGED <<file, buf>>
    /\ fd' = [fd EXCEPT ![p] = None]
    /\ seen' = [seen EXCEPT ![p] = SizeAgain(p)]
    /\ slot' = [slot EXCEPT ![p] = MaxRotate]
    /\ Goto(p, IF seen'[p] > MaxSize /\ MaxRotate > 0 THEN "shift" ELSE "reopen")
    /\ UNCHANGED <<config, dir, owner, todo, push>>

FaultUpwards(s) ==
    LET k == MaxRotate - s
    IN  IF k = MaxRotate \/ dir[k] = None THEN dir
        ELSE [dir EXCEPT ![k + 1] = dir[k], ![k] = None]

(* One turn of the renaming loop: the oldest is unlinked, the others are   *)
(* renamed; a file that is not there is not.                               *)
Shifted(s) ==
    IF s = MaxRotate THEN [dir EXCEPT ![s] = None]
    ELSE IF dir[s] = None THEN dir
    ELSE [dir EXCEPT ![s + 1] = dir[s], ![s] = None]

FaultNeverDone(s) == "shift"
(* The last to be renamed is Path itself. *)
AfterShift(s) == IF s = 0 THEN "reopen" ELSE "shift"

NextSlot(s) == IF s = 0 THEN 0 ELSE s - 1

Shift(p) ==
    /\ pc[p] = "shift"
    /\ dir' = Shifted(slot[p])
    /\ slot' = [slot EXCEPT ![p] = NextSlot(@)]
    /\ Goto(p, AfterShift(slot[p]))
    /\ UNCHANGED <<config, file, owner, fd, buf, todo, seen, push>>

Reopen(p) ==
    /\ pc[p] = "reopen"
    /\ LogFileOpen(p)
    /\ Rotated(p)
    /\ UNCHANGED <<config, owner, buf, todo, slot, push>>

(* The line joins those in the buffer, and they are all written. *)
WriteThrough(p, line) == Flush(p, <<line>>)

(* LogFileInternalWrite, when it has rotated.  Without LOGFILE_FLUSH the   *)
(* line stays in the buffer until that is full or FlushInterval is over.   *)
Write(p) ==
    LET line == Head(todo[p])
        rest == Tail(todo[p])
    IN  /\ pc[p] = "write"
        /\ \/ fd[p] # None /\ WriteThrough(p, line)
           \/ /\ fd[p] # None /\ ~Has("LOGFILE_FLUSH")
              /\ buf' = [buf EXCEPT ![p] = Append(@, line)]
              /\ UNCHANGED file
           \/ fd[p] = None /\ UNCHANGED <<file, buf>>
        /\ todo' = [todo EXCEPT ![p] = rest]
        /\ Goto(p, IF rest = << >> THEN "idle" ELSE "check")
        /\ UNCHANGED <<config, dir, owner, fd, seen, slot, push>>
------------------------------------------------------------------------------
(* A process dies wherever it is; a program can be started again. *)
Crash(p) ==
    /\ May("crash") /\ pc[p] \notin {"off", "dead"}
    /\ Goto(p, IF p \in Programs THEN "off" ELSE "dead")
    /\ owner' = owner \ {p}
    /\ fd' = [fd EXCEPT ![p] = None]
    /\ buf' = [buf EXCEPT ![p] = << >>]
    /\ todo' = [todo EXCEPT ![p] = << >>]
    /\ seen' = [seen EXCEPT ![p] = 0]
    /\ slot' = [slot EXCEPT ![p] = 0]
    /\ last' = [last EXCEPT ![p] = NoText]
    /\ repeats' = [repeats EXCEPT ![p] = 0]
    /\ untold' = [untold EXCEPT ![p] = 0]
    /\ UNCHANGED <<config, files, count>>

(* The steps of a call that has begun. *)
Step(p) == Check(p) \/ Recheck(p) \/ Shift(p) \/ Reopen(p) \/ Write(p)

Next ==
    \E p \in Procs :
        \/ Step(p) \/ Crash(p)
        \/ LogFileCreate(p) \/ LogFileSetValues(p)
        \/ \E c \in Procs : Fork(p, c)
        \/ \E text \in TextsThatMatter : LogToFile(p, text)
        \/ LogFilesHousekeep(p) \/ LogFileFlushAll(p)

Spec == Init /\ [][Next]_vars
FairSpec == Spec /\ \A p \in Procs : WF_vars(Step(p))
------------------------------------------------------------------------------
(* The numbers of the lines of p in a sequence of lines, whether they      *)
(* ascend in it, and whether those in one come before those in another.    *)
Numbers(p, lines) == {lines[k][2] : k \in {j \in 1 .. Len(lines) : lines[j][1] = p}}

Ascending(p, lines) ==
    \A j, k \in 1 .. Len(lines) :
        j < k /\ lines[j][1] = p /\ lines[k][1] = p => lines[j][2] < lines[k][2]

Before(p, these, those) ==
    \A m \in Numbers(p, these), n \in Numbers(p, those) : m < n

(* The names that stand for a file, of which Path.MaxRotate is the oldest. *)
Slots == {s \in 0 .. MaxRotate : dir[s] # None}

(* A child that is forked while lines are buffered writes them again. *)
EachLineOnce == Has("LOGFILE_FLUSH") \/ Children = {}

(* However rotations, reopenings, failures and deaths of several processes *)
(* interleave, the lines of a process are in the log in the order it wrote *)
(* them, each once, and before those it has not written out yet.           *)
LinesInOrder ==
    EachLineOnce =>
        \A p \in Procs :
            /\ \A s \in Slots :
                  /\ Ascending(p, file[dir[s]])
                  /\ \A t \in Slots : t < s => Before(p, file[dir[s]], file[dir[t]])
                  /\ Before(p, file[dir[s]], buf[p])
                  /\ Before(p, file[dir[s]], todo[p])
            /\ Ascending(p, buf[p]) /\ Ascending(p, todo[p])
            /\ Before(p, buf[p], todo[p])

(* The numbers of the lines of p in the log, the buffer and the call.      *)
Left(p) ==
    (UNION {Numbers(p, file[dir[s]]) : s \in Slots})
        \union Numbers(p, buf[p]) \union Numbers(p, todo[p])

(* One program and its children, and nothing that goes wrong. *)
OneProgram == config.mishaps = {} /\ \E p \in Procs : Programs = {p}

(* A log that one program rotates, and that its children write to, loses   *)
(* lines of the program only from its oldest end, when they are rotated    *)
(* away: when one is left, so is every later one.                          *)
NoGaps ==
    OneProgram /\ EachLineOnce =>
        \A p \in Programs : \A m \in Left(p) : m .. count[p] \subseteq Left(p)

(* Log.h: one keeps the current log file and the MaxRotate log files that  *)
(* existed before it.  A file is dropped only when the MaxRotate after it  *)
(* have outgrown the maximum size.                                         *)
KeepsMaxRotate ==
    [][\A i \in Inodes :
          Named(i) /\ ~Named(i)' =>
              /\ i = dir[MaxRotate]
              /\ \A s \in 0 .. MaxRotate - 1 : dir[s] # None /\ Size(dir[s]) > MaxSize]_vars

(* The same, for a log that one process rotates.  (When it cannot be       *)
(* opened, or the process dies in a rotation, the next drops one more.)    *)
OneOwnerKeeps ==
    [][OneProgram =>
        \A i \in Inodes :
          Named(i) /\ ~Named(i)' =>
              /\ i = dir[MaxRotate]
              /\ \A s \in 0 .. MaxRotate - 1 : dir[s] # None /\ Size(dir[s]) > MaxSize]_vars

(* A process checks the size before it writes, and others may write        *)
(* between: a file can be over the maximum by one line of each.  (A child  *)
(* does not check, and without MaxRotate nothing shrinks the log.)         *)
OverByOneEach ==
    Has("LOGFILE_FLUSH") /\ Children = {} /\ MaxRotate > 0 =>
        \A s \in DOMAIN dir :
            dir[s] # None => Size(dir[s]) <= MaxSize + Cardinality(Procs)

(* The log is what was written, in its order, cut only at its oldest end   *)
(* and into files that are not much too big.                               *)
LinesAreKept == TypeOK /\ LinesInOrder /\ NoGaps /\ OverByOneEach

(* Log.h: repeated lines are counted, and a line says how many there were. *)
(* Every message that was not written is among those counted.              *)
EveryMessageIsTold == \A p \in Procs : untold[p] = repeats[p]

(* Every call returns. *)
CallReturns ==
    \A p \in Procs :
        pc[p] \notin {"off", "dead", "idle"} ~> pc[p] \in {"off", "dead", "idle"}
=============================================================================
