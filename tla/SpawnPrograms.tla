---------------------------- MODULE SpawnPrograms ----------------------------
(***************************************************************************)
(* SpawnPrograms.c and Pty.c: programs that are started with pipes, or a   *)
(* pseudo terminal, to their stdin, stdout and stderr; the streams to them *)
(* are closed, or read until the program has exited.                       *)
(*                                                                         *)
(* A pipe is at its end when nobody has its other end open, and processes  *)
(* inherit what the one that starts them has open: we keep who holds which *)
(* ends.  <<i, "in", "w">> is the end to write to the stdin of program i.  *)
(***************************************************************************)
EXTENDS Naturals, Sequences, FiniteSets

CONSTANTS
    Plans,          \* sequences of programs to start: see Program
    Capacity        \* what a pipe holds

(* filter: it reads until the end of stdin, and exits; if not it writes    *)
(* `errs' to stderr, which is a pipe of its own, stdout or /dev/null, and  *)
(* exits.  pty: a pseudo terminal for all three instead of pipes.           *)
Program == [filter : BOOLEAN, errs : 0 .. 9, stderr : {"pipe", "combine", "null"},
            pty : BOOLEAN]

VARIABLES
    plan, started,  \* the programs, and how many of them were started
    holds,          \* the ends that processes have open; 0 is the parent
    written,        \* what each program has written to stderr
    unread,         \* and what of it was not read
    child,          \* "none", "runs", "exited", "waited" for
    stream,         \* "none", "open", "waits" in STREAMSpawnWaitExit, "closed"
    strayClose      \* a descriptor that is not the library's may have been closed

vars == <<plan, started, holds, written, unread, child, stream, strayClose>>

Parent == 0
N == Len(plan)
Programs == 1 .. N
InWriters(i) == {p \in DOMAIN holds : <<i, "in", "w">> \in holds[p]}
OwnPipe(i) == plan[i].stderr = "pipe" /\ ~plan[i].pty

(* PipeSpawnFunction and PseudoTTYSpawnFunction: the ends of each side.    *)
(* The two directions of a pseudo terminal are one descriptor.             *)
ParentEnds(i) == {<<i, "in", "w">>, <<i, "out", "r">>} \cup {e \in {<<i, "err", "r">>} : OwnPipe(i)}
ChildEnds(i) == {<<i, "in", "r">>, <<i, "out", "w">>} \cup {e \in {<<i, "err", "w">>} : OwnPipe(i)}

Init ==
    /\ plan \in Plans
    /\ started = 0
    /\ holds = [p \in 0 .. N |-> {}]
    /\ written = [i \in Programs |-> 0] /\ unread = [i \in Programs |-> 0]
    /\ child = [i \in Programs |-> "none"]
    /\ stream = [i \in Programs |-> "none"]
    /\ strayClose = FALSE

-----------------------------------------------------------------------------
FaultInherits(i) == holds[Parent] \cup ChildEnds(i) \cup ParentEnds(i)

(* What a program has open: its own ends, and all that the parent had: the *)
(* descriptors of streams to other programs are not closed on exec.  The   *)
(* child closes the parent's ends of its own pipes.                        *)
Inherits(i) == holds[Parent] \cup ChildEnds(i)

(* xforkio, with the pipes made before.  If it fails the pipes stay open.  *)
(* With "+stderr" there is no third pipe, but its descriptors, which have  *)
(* not been set, are closed all the same.                                  *)
STREAMSpawnFunction ==
    LET i == started + 1 IN
    /\ started < N
    /\ started' = i
    /\ \/ /\ child' = [child EXCEPT ![i] = "runs"]
          /\ stream' = [stream EXCEPT ![i] = "open"]
          /\ holds' = [holds EXCEPT ![Parent] = @ \cup ParentEnds(i), ![i] = Inherits(i)]
       \/ /\ holds' = [holds EXCEPT ![Parent] = @ \cup ParentEnds(i)]
          /\ stream' = [stream EXCEPT ![i] = "closed"]
          /\ UNCHANGED child
    /\ strayClose' = (strayClose \/ (plan[i].stderr = "combine" /\ ~plan[i].pty))
    /\ UNCHANGED <<plan, written, unread>>

(* STREAMShutdown: the descriptors of the stream.  That of stderr is in no *)
(* stream, and stays open.                                                 *)
STREAMClose(i) ==
    /\ started = N /\ stream[i] = "open"
    /\ stream' = [stream EXCEPT ![i] = "closed"]
    /\ holds' = [holds EXCEPT ![Parent] = @ \ {<<i, "in", "w">>, <<i, "out", "r">>}]
    /\ UNCHANGED <<plan, started, written, unread, child, strayClose>>

-----------------------------------------------------------------------------
(* The programs.                                                           *)

Exit(i) ==
    /\ child[i] = "runs"
    /\ IF plan[i].filter THEN InWriters(i) = {} ELSE written[i] = plan[i].errs
    /\ child' = [child EXCEPT ![i] = "exited"]
    /\ holds' = [holds EXCEPT ![i] = {}]
    /\ UNCHANGED <<plan, started, written, unread, stream, strayClose>>

(* Without anyone to read it a write ends the program, by a signal.        *)
Readers(i) == {p \in DOMAIN holds : <<i, IF OwnPipe(i) THEN "err" ELSE "out", "r">> \in holds[p]}
Signalled(i) ==
    /\ child[i] = "runs" /\ ~plan[i].filter /\ written[i] < plan[i].errs
    /\ plan[i].stderr # "null" /\ Readers(i) = {}
    /\ child' = [child EXCEPT ![i] = "exited"]
    /\ holds' = [holds EXCEPT ![i] = {}]
    /\ UNCHANGED <<plan, started, written, unread, stream, strayClose>>

WritesError(i) ==
    /\ child[i] = "runs" /\ ~plan[i].filter /\ written[i] < plan[i].errs
    /\ plan[i].stderr # "null" => Readers(i) # {}
    /\ written' = [written EXCEPT ![i] = @ + 1]
    /\ IF plan[i].stderr = "null" THEN UNCHANGED unread
       ELSE unread[i] < Capacity /\ unread' = [unread EXCEPT ![i] = @ + 1]
    /\ UNCHANGED <<plan, started, holds, child, stream, strayClose>>

-----------------------------------------------------------------------------
(* STREAMSpawnWaitExit: what comes from stdout is read and thrown away     *)
(* until it ends or the program has exited; then it is waited for.         *)

StartWait(i) ==
    /\ started = N /\ stream[i] = "open"
    /\ stream' = [stream EXCEPT ![i] = "waits"]
    /\ UNCHANGED <<plan, started, holds, written, unread, child, strayClose>>

STREAMReadBytes(i) ==
    /\ stream[i] = "waits" /\ unread[i] > 0 /\ ~OwnPipe(i)
    /\ unread' = [unread EXCEPT ![i] = 0]
    /\ UNCHANGED <<plan, started, holds, written, child, stream, strayClose>>

WaitPid(i) ==
    /\ stream[i] = "waits" /\ child[i] = "exited"
    /\ child' = [child EXCEPT ![i] = "waited"]
    /\ stream' = [stream EXCEPT ![i] = "open"]
    /\ UNCHANGED <<plan, started, holds, written, unread, strayClose>>

CallerCloses(i) == (\A j \in Programs : stream[j] # "waits") /\ STREAMClose(i)
CallerWaits(i) ==
    /\ \A j \in Programs : stream[j] # "waits"
    /\ ~plan[i].filter /\ child[i] \in {"runs", "exited"}
    /\ StartWait(i)
Runs(i) == Exit(i) \/ WritesError(i) \/ Signalled(i)
WaitsExit(i) == STREAMReadBytes(i) \/ WaitPid(i)

Next ==
    \/ STREAMSpawnFunction
    \/ \E i \in Programs : CallerCloses(i) \/ CallerWaits(i) \/ WaitsExit(i) \/ Runs(i)

(* The programs run, and STREAMSpawnWaitExit polls; the caller may stop.   *)
Spec ==
    /\ Init /\ [][Next]_vars
    /\ \A i \in 1 .. 2 : WF_vars(i \in Programs /\ Runs(i))
    /\ \A i \in 1 .. 2 : WF_vars(i \in Programs /\ WaitsExit(i))

-----------------------------------------------------------------------------
(* What is written is within what the pipe of stderr, which no one reads,  *)
(* can hold.                                                               *)
Fits(i) == ~OwnPipe(i) \/ plan[i].errs <= Capacity

(* STREAMSpawnWaitExit returns, of a program that ends by itself.          *)
WaitReturns ==
    \A i \in 1 .. 2 : (i \in Programs /\ stream[i] = "waits" /\ Fits(i)) ~> (stream[i] # "waits")

(* When the streams are closed the filters come to the end of their stdin, *)
(* in whatever order they were started and closed, if all were started.    *)
AllClosedAllEnd ==
    (started = N /\ \A i \in Programs : stream[i] = "closed" /\ child[i] # "none" /\ Fits(i))
        ~> (started = N /\ \A i \in Programs : child[i] \in {"exited", "waited"})

(* Not checked, for they do not hold: one that is closed ends while others *)
(* go on that were started after it, and so hold its stdin open; and only  *)
(* what the library opened is closed ("+stderr", SpawnPrograms.c:255).     *)
EachClosedEnds ==
    \A i \in 1 .. 2 : (i \in Programs /\ stream[i] = "closed" /\ child[i] = "runs" /\ plan[i].filter)
            ~> (child[i] = "exited")
ClosesItsOwn == ~strayClose
=============================================================================
